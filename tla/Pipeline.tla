------------------------------ MODULE Pipeline ------------------------------
(***************************************************************************)
(* The SDLC graph (engine/pipeline.py) with the parts it wires together:   *)
(* the persona nodes, the worker pool, the worktree binding, the developer *)
(* and tester nodes, the retry router and the integrator.                  *)
(*                                                                         *)
(* Three kinds of actors interleave: the graph, which runs one node at a   *)
(* time; the pool's scheduling loop, inside the developer node; and one    *)
(* executor thread per chunk in flight.  All of them read and write the    *)
(* same Chunk objects, without a lock.                                     *)
(*                                                                         *)
(* Git is modelled by what the code asks of it: which worktree exists, on  *)
(* which branch it is, whose work is in the tree, on the branches and on   *)
(* the primary branch.  A chunk's "work" is one unit.                      *)
(***************************************************************************)
EXTENDS Integers, FiniteSets

CONSTANTS
    Chunks,       \* chunk ids of a valid ChunkDAG
    Deps,         \* chunk -> the chunks it depends on
    Rank,         \* chunk -> its place in topological_order()
    MaxParallel,  \* max_parallel_workers
    E2ECeiling,   \* E2E_CEILING
    MaxRepairs,   \* _MAX_REPAIRS
    Leftovers,    \* the sets of chunk branches earlier runs may have left
    None          \* no worktree, no worker

Workers == 1..MaxParallel

ASSUME PipelineAssumption ==
    /\ IsFiniteSet(Chunks) /\ Chunks # {}
    /\ Deps \in [Chunks -> SUBSET Chunks]
    /\ Rank \in [Chunks -> Nat]
    /\ \A c \in Chunks : \A d \in Deps[c] : Rank[d] < Rank[c]
    /\ \A c, d \in Chunks : Rank[c] = Rank[d] => c = d
    /\ MaxParallel \in Nat \ {0} /\ E2ECeiling \in Nat \ {0} /\ MaxRepairs \in Nat
    /\ Leftovers \subseteq SUBSET Chunks /\ Leftovers # {}
    /\ None \notin Chunks /\ None \notin Workers

VARIABLES
    \* the graph
    node,       \* the node that runs, "merge" inside integrate, "end" or "raised"
    repairs,    \* repair retries of the persona that runs
    gate,       \* tui_state.critic_gatekeeper_status
    e2e,        \* e2e_retry_count
    error,      \* what the run raised
    \* the Chunk objects
    status, worker,
    \* WorkerPool.run
    sched,      \* where the loop is
    ready,      \* the rest of the list ready_chunks returned
    in_flight,  \* the futures not yet settled
    done,       \* the rest of the set wait() returned
    completed, in_use, failed,
    thread,     \* chunk -> where its executor thread is
    \* WorkerWorkspace and git
    paths,      \* the worktree directories that exist
    roots,      \* worker -> the chunk on whose branch its worktree is
    branches,   \* the chunks whose branch exists
    dirty,      \* worker -> whose uncommitted work is in its worktree
    commits,    \* branch -> whose work is committed on it
    \* Integrator
    todo, primary, start,
    \* history, read by properties only
    verdict     \* chunk -> result of the last run of its suite

graphVars == <<node, repairs, gate, e2e, error>>
chunkVars == <<status, worker>>
poolVars  == <<sched, ready, in_flight, done, completed, in_use, failed>>
gitVars   == <<paths, roots, branches, dirty, commits>>
mergeVars == <<todo, primary, start>>
vars == <<graphVars, chunkVars, poolVars, thread, gitVars, mergeVars, verdict>>

Nodes    == {"groomer", "architect", "developer", "integrate", "merge", "critic",
             "hitl", "end", "raised"}
Statuses == {"PENDING", "IN_PROGRESS", "COMPLETED", "FAILED"}
Running  == {"bind", "develop", "test", "commit"}
Threads  == Running \cup {"none", "ok", "err"}

-----------------------------------------------------------------------------
\* A run starts on the planned chunks; worktree directories and branches of an
\* earlier run may still be there, nothing in the pipeline removes them.
Init ==
    /\ node = "groomer" /\ repairs = 0 /\ gate = "READY" /\ e2e = 0
    /\ error = "none"
    /\ status = [c \in Chunks |-> "PENDING"]
    /\ worker = [c \in Chunks |-> None]
    /\ sched = "off" /\ ready = {} /\ in_flight = {} /\ done = {}
    /\ completed = 0 /\ in_use = {} /\ failed = FALSE
    /\ thread = [c \in Chunks |-> "none"]
    /\ paths \in SUBSET Workers
    /\ roots = [w \in Workers |-> None]
    /\ branches \in Leftovers
    /\ dirty = [w \in Workers |-> {}]
    /\ commits = [c \in Chunks |-> {}]
    /\ todo = {} /\ primary = {} /\ start = {}
    /\ verdict = [c \in Chunks |-> "none"]

\* The exception leaves ainvoke.
Raise(e) == node' = "raised" /\ error' = e /\ UNCHANGED <<repairs, gate, e2e>>

-----------------------------------------------------------------------------
(* Persona nodes                                                           *)

\* PersonaOutputValidator.validate: one call of the client and at most
\* MaxRepairs repair calls; the call itself may raise.
Persona(name, next) ==
    /\ node = name
    /\ \/ node' = next /\ repairs' = 0 /\ UNCHANGED <<gate, e2e, error>>
       \/ repairs < MaxRepairs /\ repairs' = repairs + 1
          /\ UNCHANGED <<node, gate, e2e, error>>
       \/ Raise("persona")
    /\ UNCHANGED <<chunkVars, poolVars, thread, gitVars, mergeVars, verdict>>

Groomer   == Persona("groomer", "architect")
Architect == Persona("architect", "developer")

\* CriticNode: no repair, the verdict becomes the gate status.
Critic ==
    /\ node = "critic"
    /\ \/ /\ node' = "end" /\ gate' \in {"RUNNING", "PAUSED"}
          /\ UNCHANGED <<repairs, e2e, error>>
       \/ Raise("persona")
    /\ UNCHANGED <<chunkVars, poolVars, thread, gitVars, mergeVars, verdict>>

Hitl ==
    /\ node = "hitl" /\ node' = "end" /\ gate' = "STOPPED"
    /\ UNCHANGED <<repairs, e2e, error, chunkVars, poolVars, thread, gitVars,
                   mergeVars, verdict>>

-----------------------------------------------------------------------------
(* develop and the scheduling loop of WorkerPool.run                       *)

\* develop: failed chunks become PENDING again, a new pool starts.
Develop ==
    /\ node = "developer" /\ sched = "off"
    /\ status' = [c \in Chunks |-> IF status[c] = "FAILED" THEN "PENDING" ELSE status[c]]
    /\ sched' = "scan"
    /\ UNCHANGED <<graphVars, worker, ready, in_flight, done, completed, in_use,
                   failed, thread, gitVars, mergeVars, verdict>>

dependencies_completed(c) == \A d \in Deps[c] : status[d] = "COMPLETED"
ready_chunks == {c \in Chunks : status[c] = "PENDING" /\ dependencies_completed(c)}

\* The test of the while loop and the evaluation of ready_chunks(order, by_id).
Scan ==
    /\ sched = "scan"
    /\ \/ completed = Cardinality(Chunks) /\ sched' = "closing" /\ UNCHANGED ready
       \/ completed < Cardinality(Chunks) /\ sched' = "claim" /\ ready' = ready_chunks
    /\ UNCHANGED <<graphVars, chunkVars, in_flight, done, completed, in_use, failed,
                   thread, gitVars, mergeVars, verdict>>

First(c, S)  == c \in S /\ \A d \in S : Rank[c] <= Rank[d]
FreeSlots    == Workers \ in_use
Lowest(w, S) == w \in S /\ \A v \in S : w <= v

CanClaim == ready # {} /\ Cardinality(in_flight) < MaxParallel

\* Mutant: _acquire_worker_id does not mark the slot in use.
ClaimUnmarked(c, w) ==
    /\ sched = "claim" /\ CanClaim
    /\ First(c, ready) /\ Lowest(w, FreeSlots)
    /\ ready' = ready \ {c}
    /\ worker' = [worker EXCEPT ![c] = w]
    /\ status' = [status EXCEPT ![c] = "IN_PROGRESS"]
    /\ in_flight' = in_flight \cup {c}
    /\ thread' = [thread EXCEPT ![c] = "bind"]
    /\ verdict' = [verdict EXCEPT ![c] = "none"]
    /\ UNCHANGED <<graphVars, sched, done, completed, in_use, failed, gitVars, mergeVars>>

\* One turn of the claim loop.  _acquire_worker_id raises when no slot is free:
\* SlotAvailable says that the claim loop never meets that.
Claim(c, w) ==
    /\ sched = "claim" /\ CanClaim
    /\ First(c, ready) /\ Lowest(w, FreeSlots)
    /\ ready' = ready \ {c}
    /\ worker' = [worker EXCEPT ![c] = w]
    /\ in_use' = in_use \cup {w}
    /\ status' = [status EXCEPT ![c] = "IN_PROGRESS"]
    /\ in_flight' = in_flight \cup {c}
    /\ thread' = [thread EXCEPT ![c] = "bind"]
    /\ verdict' = [verdict EXCEPT ![c] = "none"]
    /\ UNCHANGED <<graphVars, sched, done, completed, failed, gitVars, mergeVars>>

\* The claim loop ends; with nothing in flight the pool raises EngineError.
ClaimEnd ==
    /\ sched = "claim" /\ ~CanClaim
    /\ ready' = {}
    /\ \/ in_flight = {} /\ sched' = "closing" /\ failed' = TRUE
       \/ in_flight # {} /\ sched' = "wait" /\ UNCHANGED failed
    /\ UNCHANGED <<graphVars, chunkVars, in_flight, done, completed, in_use, thread,
                   gitVars, mergeVars, verdict>>

Finished == {c \in in_flight : thread[c] \in {"ok", "err"}}

\* wait(in_flight, FIRST_COMPLETED) returns the futures finished by now.
Wait ==
    /\ sched = "wait" /\ Finished # {}
    /\ done' = Finished /\ sched' = "settle"
    /\ UNCHANGED <<graphVars, chunkVars, ready, in_flight, completed, in_use, failed,
                   thread, gitVars, mergeVars, verdict>>

\* Mutant: the slot of a completed chunk is not released.
SettleOkLeaks(c) ==
    /\ sched = "settle" /\ c \in done /\ thread[c] = "ok"
    /\ status' = [status EXCEPT ![c] = "COMPLETED"]
    /\ in_flight' = in_flight \ {c} /\ done' = done \ {c}
    /\ completed' = completed + 1
    /\ sched' = IF done = {c} THEN "scan" ELSE "settle"
    /\ UNCHANGED <<graphVars, worker, in_use, ready, failed, thread, gitVars, mergeVars,
                   verdict>>

\* _settle of a future that returned.
SettleOk(c) ==
    /\ sched = "settle" /\ c \in done /\ thread[c] = "ok"
    /\ status' = [status EXCEPT ![c] = "COMPLETED"]
    /\ in_use' = in_use \ {worker[c]}
    /\ in_flight' = in_flight \ {c} /\ done' = done \ {c}
    /\ completed' = completed + 1
    /\ sched' = IF done = {c} THEN "scan" ELSE "settle"
    /\ UNCHANGED <<graphVars, worker, ready, failed, thread, gitVars, mergeVars, verdict>>

\* _settle of a future that raised: the chunk fails and the pool raises; the
\* other futures, in done or still running, are never settled.
SettleErr(c) ==
    /\ sched = "settle" /\ c \in done /\ thread[c] = "err"
    /\ status' = [status EXCEPT ![c] = "FAILED"]
    /\ in_flight' = in_flight \ {c} /\ done' = {}
    /\ failed' = TRUE /\ sched' = "closing"
    /\ UNCHANGED <<graphVars, worker, ready, completed, in_use, thread, gitVars,
                   mergeVars, verdict>>

\* route_after_develop and _route_e2e.
RouteAfterDevelop(count) ==
    IF \A c \in Chunks : status[c] # "FAILED" THEN "integrate"
    ELSE IF count < E2ECeiling THEN "developer" ELSE "hitl"

\* Mutant: develop does not count the failed pass.
CloseUncounted ==
    /\ sched = "closing" /\ \A c \in Chunks : thread[c] \notin Running
    /\ sched' = "off" /\ failed' = FALSE
    /\ ready' = {} /\ in_flight' = {} /\ done' = {} /\ in_use' = {} /\ completed' = 0
    /\ thread' = [c \in Chunks |-> "none"]
    /\ node' = RouteAfterDevelop(e2e)
    /\ UNCHANGED <<e2e, repairs, gate, error, chunkVars, gitVars, mergeVars, verdict>>

\* Leaving the executor waits for its threads; develop returns its update and
\* the conditional edge decides.
Close ==
    /\ sched = "closing" /\ \A c \in Chunks : thread[c] \notin Running
    /\ sched' = "off" /\ failed' = FALSE
    /\ ready' = {} /\ in_flight' = {} /\ done' = {} /\ in_use' = {} /\ completed' = 0
    /\ thread' = [c \in Chunks |-> "none"]
    /\ e2e' = IF failed THEN e2e + 1 ELSE e2e
    /\ node' = RouteAfterDevelop(e2e')
    /\ UNCHANGED <<repairs, gate, error, chunkVars, gitVars, mergeVars, verdict>>

-----------------------------------------------------------------------------
(* _run_chunk, on the executor thread of c                                 *)

ThreadGoes(c, l) ==
    /\ thread' = [thread EXCEPT ![c] = l]
    /\ UNCHANGED <<graphVars, worker, poolVars, mergeVars>>

\* WorkerWorkspace.bind: a bound worker keeps its worktree, whatever the chunk;
\* otherwise WorktreeManager.create makes directory and branch, or raises, always
\* when either exists and whenever git fails.
Bind(c) ==
    LET w == worker[c] IN
    /\ thread[c] = "bind"
    /\ \/ /\ roots[w] # None
          /\ ThreadGoes(c, "develop") /\ UNCHANGED gitVars
       \/ /\ roots[w] = None /\ w \notin paths /\ c \notin branches
          /\ paths' = paths \cup {w} /\ branches' = branches \cup {c}
          /\ roots' = [roots EXCEPT ![w] = c]
          /\ ThreadGoes(c, "develop") /\ UNCHANGED <<dirty, commits>>
       \/ roots[w] = None /\ ThreadGoes(c, "err") /\ UNCHANGED gitVars
    /\ UNCHANGED <<status, verdict>>

\* DeveloperNode: the writes land in the worktree and the chunk is COMPLETED.
DeveloperOk(c) ==
    /\ thread[c] = "develop"
    /\ \/ dirty' = [dirty EXCEPT ![worker[c]] = @ \cup {c}]
       \/ UNCHANGED dirty       \* an empty file-write map
    /\ status' = [status EXCEPT ![c] = "COMPLETED"]
    /\ ThreadGoes(c, "test")
    /\ UNCHANGED <<paths, roots, branches, commits, verdict>>

\* The client, the parser or the path guard raises, the guard possibly after
\* some of the files are written.
DeveloperErr(c) ==
    /\ thread[c] = "develop"
    /\ \/ dirty' = [dirty EXCEPT ![worker[c]] = @ \cup {c}]
       \/ UNCHANGED dirty
    /\ ThreadGoes(c, "err")
    /\ UNCHANGED <<status, paths, roots, branches, commits, verdict>>

\* Mutant: _run_chunk goes on to the commit after a red suite.
TesterIgnored(c) ==
    /\ thread[c] = "test"
    /\ \/ /\ status' = [status EXCEPT ![c] = "COMPLETED"]
          /\ verdict' = [verdict EXCEPT ![c] = "green"]
       \/ /\ status' = [status EXCEPT ![c] = "FAILED"]
          /\ verdict' = [verdict EXCEPT ![c] = "red"]
    /\ ThreadGoes(c, "commit")
    /\ UNCHANGED gitVars

\* TesterNode: a red or timed-out suite makes _run_chunk raise.  When the suite
\* cannot be run at all (any OSError but FileNotFoundError) the node raises
\* itself, and the status stays what the developer made it.
Tester(c) ==
    /\ thread[c] = "test"
    /\ \/ /\ status' = [status EXCEPT ![c] = "COMPLETED"]
          /\ verdict' = [verdict EXCEPT ![c] = "green"]
          /\ ThreadGoes(c, "commit")
       \/ /\ status' = [status EXCEPT ![c] = "FAILED"]
          /\ verdict' = [verdict EXCEPT ![c] = "red"]
          /\ ThreadGoes(c, "err")
       \/ ThreadGoes(c, "err") /\ UNCHANGED <<status, verdict>>
    /\ UNCHANGED gitVars

\* _commit_chunk: `git add -A` takes everything in the worktree, the files other
\* chunks left there too; `git commit` may fail, with nothing to commit it does
\* (unless the suite left files behind).
CommitChunk(c) ==
    LET w == worker[c] IN
    /\ thread[c] = "commit"
    /\ \/ /\ commits' = [commits EXCEPT ![roots[w]] = @ \cup dirty[w]]
          /\ dirty' = [dirty EXCEPT ![w] = {}]
          /\ ThreadGoes(c, "ok")
       \/ ThreadGoes(c, "err") /\ UNCHANGED <<commits, dirty>>
    /\ UNCHANGED <<status, paths, roots, branches, verdict>>

-----------------------------------------------------------------------------
(* Integrator.integrate, called with topological_order()                   *)

Integrate ==
    /\ node = "integrate" /\ node' = "merge"
    /\ todo' = Chunks /\ start' = primary
    /\ UNCHANGED <<repairs, gate, e2e, error, chunkVars, poolVars, thread, gitVars,
                   primary, verdict>>

\* One turn of the merge loop: the branch is merged; or it does not exist, or
\* the merge fails without a conflict, and VcsError leaves the merges made so
\* far in place; or it conflicts (with other chunks' work or with commits of
\* others on the primary) and the primary goes back to where it was.
Merge(c) ==
    /\ node = "merge" /\ First(c, todo)
    /\ \/ /\ c \in branches
          /\ primary' = primary \cup commits[c] /\ todo' = todo \ {c}
          /\ UNCHANGED <<graphVars, start>>
       \/ Raise("vcs") /\ UNCHANGED mergeVars
       \/ /\ c \in branches
          /\ primary' = start /\ Raise("conflict")
          /\ UNCHANGED <<todo, start>>
    /\ UNCHANGED <<chunkVars, poolVars, thread, gitVars, verdict>>

MergeEnd ==
    /\ node = "merge" /\ todo = {} /\ node' = "critic"
    /\ UNCHANGED <<repairs, gate, e2e, error, chunkVars, poolVars, thread, gitVars,
                   mergeVars, verdict>>

-----------------------------------------------------------------------------
Scheduler == \/ Scan \/ ClaimEnd \/ Wait \/ Close
             \/ \E c \in Chunks, w \in Workers : Claim(c, w)
             \/ \E c \in Chunks : SettleOk(c) \/ SettleErr(c)

Executor(c) == \/ Bind(c) \/ DeveloperOk(c) \/ DeveloperErr(c) \/ Tester(c)
               \/ CommitChunk(c)

Graph == \/ Groomer \/ Architect \/ Develop \/ Integrate \/ MergeEnd \/ Critic
         \/ Hitl \/ \E c \in Chunks : Merge(c)

Next == Graph \/ Scheduler \/ \E c \in Chunks : Executor(c)

\* Every thread is scheduled, a suite ends or is killed at its timeout, and a
\* call of the client returns or raises.
Fairness == /\ WF_vars(Graph) /\ WF_vars(Scheduler)
            /\ \A c \in Chunks : WF_vars(Executor(c))

Spec == Init /\ [][Next]_vars /\ Fairness

-----------------------------------------------------------------------------
(* Properties                                                              *)

\* Every variable keeps its type; wait() returns only futures still unsettled and
\* no persona makes more than MaxRepairs repair calls.
TypeOK ==
    /\ node \in Nodes /\ repairs \in 0..MaxRepairs /\ e2e \in Nat
    /\ gate \in {"READY", "RUNNING", "PAUSED", "STOPPED"}
    /\ error \in {"none", "persona", "vcs", "conflict"}
    /\ status \in [Chunks -> Statuses] /\ worker \in [Chunks -> Workers \cup {None}]
    /\ sched \in {"off", "scan", "claim", "wait", "settle", "closing"}
    /\ ready \subseteq Chunks /\ in_flight \subseteq Chunks /\ done \subseteq in_flight
    /\ completed \in Nat /\ in_use \subseteq Workers /\ failed \in BOOLEAN
    /\ thread \in [Chunks -> Threads]
    /\ paths \subseteq Workers /\ roots \in [Workers -> Chunks \cup {None}]
    /\ branches \subseteq Chunks
    /\ dirty \in [Workers -> SUBSET Chunks] /\ commits \in [Chunks -> SUBSET Chunks]
    /\ todo \subseteq Chunks /\ primary \subseteq Chunks /\ start \subseteq Chunks
    /\ verdict \in [Chunks -> {"none", "green", "red"}]

\* worker_workspace.py's isolation: two chunks whose threads run at the same
\* time never have the same worker, so never the same worktree, in any pass and
\* also while a failed pool waits for the threads it no longer settles.
Isolated ==
    \A c, d \in Chunks :
        c # d /\ thread[c] \in Running /\ thread[d] \in Running
            => worker[c] # worker[d]

\* _acquire_worker_id: "bound guarantees a free slot".
SlotAvailable == sched = "claim" /\ CanClaim => FreeSlots # {}

\* When the pool returns normally every chunk was run in this pass, its suite
\* was green and what it left in its worktree is committed.
CleanPassVerified ==
    sched = "closing" /\ ~failed =>
        /\ \A c \in Chunks : status[c] = "COMPLETED" /\ verdict[c] = "green"
        /\ \A c \in Chunks : c \notin dirty[worker[c]]

\* The e2e loop is bounded: no pass starts once the ceiling is reached.
RetriesBounded == e2e <= E2ECeiling

\* A conflict on any chunk leaves the primary branch as it was before the first
\* merge, and until integration nothing reaches it.
PrimaryUntouched ==
    error = "conflict" \/ node \in {"groomer", "architect", "developer", "hitl"}
        => primary = {}

\* Every run ends: completed, stopped at the HITL gate, or with an exception.
Terminates == <>(node \in {"end", "raised"})
=============================================================================
