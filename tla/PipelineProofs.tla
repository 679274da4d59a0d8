--------------------------- MODULE PipelineProofs ---------------------------
(* Theorems about the SDLC pipeline for every chunk DAG, every number of    *)
(* workers and every retry ceiling.                                         *)
EXTENDS Pipeline, FiniteSetTheorems, TLAPS

-----------------------------------------------------------------------------
(* Type correctness                                                        *)

\* The strengthening it needs: a running thread has a worker.
TypeInv == TypeOK /\ \A c \in Chunks : thread[c] \in Running => worker[c] \in Workers

\* Every step of the graph, of the pool and of a thread keeps the types.
LEMMA TypeStep == TypeInv /\ [Next]_vars => TypeInv'
<1>. SUFFICES ASSUME TypeInv, [Next]_vars PROVE TypeInv'
  OBVIOUS
<1>. USE DEF TypeInv, TypeOK, graphVars, chunkVars, poolVars, gitVars, mergeVars,
             Running, Threads, Nodes, Statuses
<1>1. CASE Groomer
  BY <1>1, PipelineAssumption DEF Groomer, Persona, Raise
<1>2. CASE Architect
  BY <1>2, PipelineAssumption DEF Architect, Persona, Raise
<1>3. CASE Develop
  BY <1>3 DEF Develop
<1>4. CASE Integrate
  BY <1>4 DEF Integrate
<1>5. CASE MergeEnd
  BY <1>5 DEF MergeEnd
<1>6. CASE Critic
  BY <1>6 DEF Critic, Raise
<1>7. CASE Hitl
  BY <1>7 DEF Hitl
<1>8. ASSUME NEW c \in Chunks, Merge(c) PROVE TypeInv'
  BY <1>8 DEF Merge, Raise, First
<1>9. CASE Scan
  BY <1>9 DEF Scan, ready_chunks
<1>10. CASE ClaimEnd
  BY <1>10 DEF ClaimEnd
<1>11. CASE Wait
  BY <1>11 DEF Wait, Finished
<1>12. CASE Close
  <2>1. e2e' \in Nat /\ node' \in Nodes
    BY <1>12 DEF Close, RouteAfterDevelop
  <2>2. thread' \in [Chunks -> Threads] /\ \A c \in Chunks : thread'[c] \notin Running
    BY <1>12 DEF Close
  <2>3. /\ sched' = "off" /\ failed' = FALSE /\ ready' = {} /\ in_flight' = {}
        /\ done' = {} /\ in_use' = {} /\ completed' = 0
        /\ UNCHANGED <<repairs, gate, error, status, worker, gitVars, mergeVars, verdict>>
    BY <1>12 DEF Close
  <2>. QED BY <2>1, <2>2, <2>3
<1>13. ASSUME NEW c \in Chunks, NEW w \in Workers, Claim(c, w) PROVE TypeInv'
  BY <1>13 DEF Claim
<1>14. ASSUME NEW c \in Chunks, SettleOk(c) PROVE TypeInv'
  BY <1>14 DEF SettleOk
<1>15. ASSUME NEW c \in Chunks, SettleErr(c) PROVE TypeInv'
  BY <1>15 DEF SettleErr
<1>16. ASSUME NEW c \in Chunks, Bind(c) PROVE TypeInv'
  BY <1>16 DEF Bind, ThreadGoes
<1>17. ASSUME NEW c \in Chunks, DeveloperOk(c) PROVE TypeInv'
  BY <1>17 DEF DeveloperOk, ThreadGoes
<1>18. ASSUME NEW c \in Chunks, DeveloperErr(c) PROVE TypeInv'
  <2>1. dirty' \in [Workers -> SUBSET Chunks]
    BY <1>18 DEF DeveloperErr
  <2>2. thread' = [thread EXCEPT ![c] = "err"] /\ UNCHANGED worker
    BY <1>18 DEF DeveloperErr, ThreadGoes
  <2>3. UNCHANGED <<graphVars, poolVars, mergeVars, status, paths, roots, branches,
                    commits, verdict>>
    BY <1>18 DEF DeveloperErr, ThreadGoes
  <2>. QED BY <2>1, <2>2, <2>3
<1>19. ASSUME NEW c \in Chunks, Tester(c) PROVE TypeInv'
  BY <1>19 DEF Tester, ThreadGoes
<1>20. ASSUME NEW c \in Chunks, CommitChunk(c) PROVE TypeInv'
  BY <1>20 DEF CommitChunk, ThreadGoes
<1>21. CASE UNCHANGED vars
  BY <1>21 DEF vars
<1>. QED BY <1>1, <1>2, <1>3, <1>4, <1>5, <1>6, <1>7, <1>8, <1>9, <1>10, <1>11,
            <1>12, <1>13, <1>14, <1>15, <1>16, <1>17, <1>18, <1>19, <1>20, <1>21
         DEF Next, Graph, Scheduler, Executor

\* Every reachable state is well typed, and a running thread has a worker.
LEMMA TypeAlways == Spec => []TypeInv
<1>1. Init => TypeInv
  <2>. SUFFICES ASSUME Init PROVE TypeInv
    OBVIOUS
  <2>1. /\ status \in [Chunks -> Statuses] /\ worker \in [Chunks -> Workers \cup {None}]
        /\ thread \in [Chunks -> Threads] /\ roots \in [Workers -> Chunks \cup {None}]
        /\ verdict \in [Chunks -> {"none", "green", "red"}]
    BY DEF Init, Statuses, Threads
  <2>2. dirty \in [Workers -> SUBSET Chunks] /\ commits \in [Chunks -> SUBSET Chunks]
    BY DEF Init
  <2>3. \A c \in Chunks : thread[c] \notin Running
    BY DEF Init, Running
  <2>4. /\ node \in Nodes /\ repairs \in 0..MaxRepairs /\ e2e \in Nat
        /\ gate = "READY" /\ error = "none" /\ sched = "off" /\ completed \in Nat
    BY PipelineAssumption DEF Init, Nodes
  <2>5. /\ ready = {} /\ in_flight = {} /\ done = {} /\ in_use = {}
        /\ paths \subseteq Workers /\ branches \subseteq Chunks /\ failed = FALSE
        /\ todo = {} /\ primary = {} /\ start = {}
    BY PipelineAssumption DEF Init
  <2>. QED BY <2>1, <2>2, <2>3, <2>4, <2>5 DEF TypeInv, TypeOK
<1>. QED BY <1>1, TypeStep, PTL DEF Spec

\* Every reachable state of the pipeline is well typed.
THEOREM TypeCorrect == Spec => []TypeOK
<1>1. TypeInv => TypeOK
  BY DEF TypeInv
<1>. QED BY <1>1, TypeAlways, PTL

-----------------------------------------------------------------------------
(* Isolation of the workers                                                *)

\* Only futures in flight run, each with a slot of its own; what waits to be
\* claimed is still PENDING, so a claim never takes a chunk that runs.
PoolInv ==
    /\ sched = "off" => /\ in_flight = {} /\ in_use = {} /\ completed = 0
                        /\ \A c \in Chunks : thread[c] = "none"
    /\ \A c \in Chunks : thread[c] \in Running => c \in in_flight
    /\ \A c \in in_flight : worker[c] \in in_use /\ status[c] # "PENDING"
    /\ \A c, d \in in_flight : c # d => worker[c] # worker[d]
    /\ \A c \in ready : status[c] = "PENDING"

\* Every step preserves it.
LEMMA PoolStep == TypeInv /\ PoolInv /\ [Next]_vars => PoolInv'
<1>. SUFFICES ASSUME TypeInv, PoolInv, [Next]_vars PROVE PoolInv'
  OBVIOUS
<1>. USE DEF TypeInv, TypeOK, PoolInv, graphVars, chunkVars, poolVars, gitVars,
             mergeVars, Running, Threads, Statuses
<1>1. CASE Groomer \/ Architect
  BY <1>1 DEF Groomer, Architect, Persona
<1>2. CASE Develop
  BY <1>2 DEF Develop
<1>3. CASE Integrate \/ MergeEnd
  BY <1>3 DEF Integrate, MergeEnd
<1>4. CASE Critic \/ Hitl
  BY <1>4 DEF Critic, Hitl
<1>5. ASSUME NEW c \in Chunks, Merge(c) PROVE PoolInv'
  BY <1>5 DEF Merge
<1>6. CASE Scan
  BY <1>6 DEF Scan, ready_chunks
<1>7. CASE ClaimEnd \/ Wait
  BY <1>7 DEF ClaimEnd, Wait
<1>8. CASE Close
  BY <1>8 DEF Close
<1>9. ASSUME NEW c \in Chunks, NEW w \in Workers, Claim(c, w) PROVE PoolInv'
  <2>1. c \notin in_flight /\ w \notin in_use
    BY <1>9 DEF Claim, First, Lowest, FreeSlots
  <2>2. \A d \in in_flight : worker'[d] = worker[d] /\ status'[d] = status[d]
    BY <1>9, <2>1 DEF Claim
  <2>3. worker'[c] = w /\ status'[c] = "IN_PROGRESS"
    BY <1>9 DEF Claim
  <2>4. in_flight' = in_flight \cup {c} /\ in_use' = in_use \cup {w} /\ sched' = "claim"
    BY <1>9 DEF Claim
  <2>5. \A d \in Chunks : thread'[d] \in Running => d \in in_flight'
    BY <1>9, <2>4 DEF Claim
  <2>6. \A d \in ready' : status'[d] = "PENDING"
    BY <1>9 DEF Claim
  <2>. QED BY <2>1, <2>2, <2>3, <2>4, <2>5, <2>6
<1>10. ASSUME NEW c \in Chunks, SettleOk(c) PROVE PoolInv'
  BY <1>10 DEF SettleOk
<1>11. ASSUME NEW c \in Chunks, SettleErr(c) PROVE PoolInv'
  BY <1>11 DEF SettleErr
<1>12. ASSUME NEW c \in Chunks, Bind(c) PROVE PoolInv'
  BY <1>12 DEF Bind, ThreadGoes
<1>13. ASSUME NEW c \in Chunks, DeveloperOk(c) \/ DeveloperErr(c) PROVE PoolInv'
  BY <1>13 DEF DeveloperOk, DeveloperErr, ThreadGoes
<1>14. ASSUME NEW c \in Chunks, Tester(c) PROVE PoolInv'
  BY <1>14 DEF Tester, ThreadGoes
<1>15. ASSUME NEW c \in Chunks, CommitChunk(c) PROVE PoolInv'
  BY <1>15 DEF CommitChunk, ThreadGoes
<1>16. CASE UNCHANGED vars
  BY <1>16 DEF vars
<1>. QED BY <1>1, <1>2, <1>3, <1>4, <1>5, <1>6, <1>7, <1>8, <1>9, <1>10, <1>11,
            <1>12, <1>13, <1>14, <1>15, <1>16
         DEF Next, Graph, Scheduler, Executor

\* The pool invariant holds in every reachable state.
LEMMA PoolAlways == Spec => []PoolInv
<1>1. Init => PoolInv
  BY DEF Init, PoolInv, Running
<1>. QED BY <1>1, PoolStep, TypeAlways, PTL DEF Spec

\* Two chunks that run at the same time never share a worker, hence a worktree:
\* whatever the DAG, the number of workers, the order in which threads finish
\* and the pass in which they do.
THEOREM WorkersIsolated == Spec => []Isolated
<1>1. TypeInv /\ PoolInv => Isolated
  BY DEF TypeInv, TypeOK, PoolInv, Isolated
<1>. QED BY <1>1, TypeAlways, PoolAlways, PTL

-----------------------------------------------------------------------------
(* The claim loop always finds a slot                                      *)

\* Until a failure ends the loop, as many slots are in use as futures in flight.
SlotInv == sched # "closing" => Cardinality(in_use) = Cardinality(in_flight)

\* Subsets of the slots and of the chunks are finite.
LEMMA Finite ==
    ASSUME TypeInv
    PROVE  /\ IsFiniteSet(Workers) /\ Cardinality(Workers) = MaxParallel
           /\ IsFiniteSet(in_use) /\ IsFiniteSet(in_flight) /\ IsFiniteSet(Chunks)
           /\ Cardinality(in_use) \in Nat /\ Cardinality(in_flight) \in Nat
<1>1. IsFiniteSet(Workers) /\ Cardinality(Workers) = MaxParallel
  BY FS_Interval, PipelineAssumption DEF Workers
<1>2. in_use \in SUBSET Workers /\ in_flight \in SUBSET Chunks
  BY DEF TypeInv, TypeOK
<1>3. IsFiniteSet(in_use) /\ IsFiniteSet(in_flight)
  BY <1>1, <1>2, FS_Subset, PipelineAssumption
<1>. QED BY <1>1, <1>3, FS_CardinalityType, PipelineAssumption

\* A claim adds one slot and one future, a settled future takes both away, and
\* nothing else changes either while the loop runs.
LEMMA SlotStep == TypeInv /\ PoolInv /\ SlotInv /\ [Next]_vars => SlotInv'
<1>. SUFFICES ASSUME TypeInv, PoolInv, SlotInv, [Next]_vars PROVE SlotInv'
  OBVIOUS
<1>1. ASSUME NEW c \in Chunks, NEW w \in Workers, Claim(c, w) PROVE SlotInv'
  <2>1. c \notin in_flight /\ w \notin in_use
    BY <1>1 DEF Claim, First, Lowest, FreeSlots, PoolInv
  <2>2. in_flight' = in_flight \cup {c} /\ in_use' = in_use \cup {w} /\ sched = "claim"
    BY <1>1 DEF Claim
  <2>3. Cardinality(in_flight \cup {c}) = Cardinality(in_flight) + 1
    BY <2>1, Finite, FS_AddElement
  <2>4. Cardinality(in_use \cup {w}) = Cardinality(in_use) + 1
    BY <2>1, Finite, FS_AddElement
  <2>. QED BY <2>2, <2>3, <2>4 DEF SlotInv
<1>2. ASSUME NEW c \in Chunks, SettleOk(c) PROVE SlotInv'
  <2>1. c \in in_flight /\ worker[c] \in in_use
    BY <1>2 DEF SettleOk, TypeInv, TypeOK, PoolInv
  <2>2. /\ in_flight' = in_flight \ {c} /\ in_use' = in_use \ {worker[c]}
        /\ sched = "settle"
    BY <1>2 DEF SettleOk
  <2>3. Cardinality(in_flight \ {c}) = Cardinality(in_flight) - 1
    BY <2>1, Finite, FS_RemoveElement
  <2>4. Cardinality(in_use \ {worker[c]}) = Cardinality(in_use) - 1
    BY <2>1, Finite, FS_RemoveElement
  <2>. QED BY <2>2, <2>3, <2>4 DEF SlotInv
<1>3. ASSUME NEW c \in Chunks, SettleErr(c) PROVE SlotInv'
  BY <1>3 DEF SettleErr, SlotInv
<1>4. CASE Close
  BY <1>4, FS_EmptySet DEF Close, SlotInv
<1>5. CASE Develop \/ Scan \/ ClaimEnd \/ Wait
  BY <1>5 DEF Develop, Scan, ClaimEnd, Wait, SlotInv, graphVars
<1>6. CASE Groomer \/ Architect \/ Integrate \/ MergeEnd \/ Critic \/ Hitl
  BY <1>6 DEF Groomer, Architect, Persona, Integrate, MergeEnd, Critic, Hitl, SlotInv,
              poolVars
<1>7. ASSUME NEW c \in Chunks, Merge(c) \/ Executor(c) PROVE SlotInv'
  BY <1>7 DEF Merge, Executor, Bind, DeveloperOk, DeveloperErr, Tester, CommitChunk,
              ThreadGoes, SlotInv, poolVars
<1>8. CASE UNCHANGED vars
  BY <1>8 DEF vars, poolVars, SlotInv
<1>. QED BY <1>1, <1>2, <1>3, <1>4, <1>5, <1>6, <1>7, <1>8 DEF Next, Graph, Scheduler

\* _acquire_worker_id never runs out of slots: fewer futures in flight than
\* workers means fewer slots in use than there are.
THEOREM SlotSafe == Spec => []SlotAvailable
<1>1. Init => SlotInv
  BY DEF Init, SlotInv
<1>2. TypeInv /\ SlotInv => SlotAvailable
  <2>. SUFFICES ASSUME TypeInv, SlotInv, sched = "claim", CanClaim PROVE FreeSlots # {}
    BY DEF SlotAvailable
  <2>1. Cardinality(in_use) < Cardinality(Workers)
    BY Finite DEF SlotInv, CanClaim
  <2>2. in_use # Workers /\ in_use \subseteq Workers
    BY <2>1, Finite DEF TypeInv, TypeOK
  <2>. QED BY <2>2 DEF FreeSlots
<1>. QED BY <1>1, <1>2, SlotStep, TypeAlways, PoolAlways, PTL DEF Spec

-----------------------------------------------------------------------------
(* The retry loop                                                          *)

\* A pass starts, and the pool runs, only below the ceiling.
RetryInv ==
    /\ sched # "off" => node = "developer"
    /\ node \in {"groomer", "architect", "developer"} => e2e < E2ECeiling
    /\ e2e <= E2ECeiling

\* The counter moves only when a pass ends, by at most one.
LEMMA RetryStep == TypeInv /\ RetryInv /\ [Next]_vars => RetryInv'
<1>. SUFFICES ASSUME TypeInv, RetryInv, [Next]_vars PROVE RetryInv'
  OBVIOUS
<1>. USE PipelineAssumption DEF TypeInv, TypeOK, RetryInv, graphVars, poolVars
<1>1. CASE Close
  <2>1. node = "developer" /\ e2e' <= e2e + 1 /\ e2e' \in Nat /\ sched' = "off"
    BY <1>1 DEF Close
  <2>2. /\ node' \in {"integrate", "developer", "hitl"}
        /\ node' = "developer" => e2e' < E2ECeiling
    BY <1>1 DEF Close, RouteAfterDevelop
  <2>. QED BY <2>1, <2>2
<1>2. CASE Groomer \/ Architect \/ Integrate \/ MergeEnd \/ Critic \/ Hitl
  BY <1>2 DEF Groomer, Architect, Persona, Integrate, MergeEnd, Critic, Hitl, Raise
<1>3. ASSUME NEW c \in Chunks, Merge(c) PROVE RetryInv'
  BY <1>3 DEF Merge, Raise
<1>4. CASE Develop \/ Scan \/ ClaimEnd \/ Wait
  BY <1>4 DEF Develop, Scan, ClaimEnd, Wait
<1>5. ASSUME NEW c \in Chunks, SettleOk(c) \/ SettleErr(c) PROVE RetryInv'
  BY <1>5 DEF SettleOk, SettleErr
<1>6. ASSUME NEW c \in Chunks, NEW w \in Workers, Claim(c, w) PROVE RetryInv'
  BY <1>6 DEF Claim
<1>7. ASSUME NEW c \in Chunks, Executor(c) PROVE RetryInv'
  BY <1>7 DEF Executor, Bind, DeveloperOk, DeveloperErr, Tester, CommitChunk, ThreadGoes
<1>8. CASE UNCHANGED vars
  BY <1>8 DEF vars
<1>. QED BY <1>1, <1>2, <1>3, <1>4, <1>5, <1>6, <1>7, <1>8 DEF Next, Graph, Scheduler

\* The e2e loop is bounded by its ceiling, whatever fails and in which order.
THEOREM RetrySafe == Spec => []RetriesBounded
<1>1. Init => RetryInv
  BY PipelineAssumption DEF Init, RetryInv
<1>2. RetryInv => RetriesBounded
  BY DEF RetryInv, RetriesBounded
<1>. QED BY <1>1, <1>2, RetryStep, TypeAlways, PTL DEF Spec

-----------------------------------------------------------------------------
(* A pool that returns has verified every chunk                            *)

Settled == {c \in Chunks : thread[c] = "ok" /\ c \notin in_flight}

\* A thread reaches its commit only over a green suite and leaves nothing of its
\* chunk uncommitted; the counter of the loop counts the settled chunks.
PassInv ==
    /\ \A c \in Chunks : thread[c] \in {"commit", "ok"}
                            => status[c] = "COMPLETED" /\ verdict[c] = "green"
    /\ \A c \in Chunks : thread[c] = "ok"
                            => worker[c] \in Workers /\ c \notin dirty[worker[c]]
    /\ completed = Cardinality(Settled)
    /\ sched = "closing" /\ ~failed => completed = Cardinality(Chunks)
    /\ failed => sched = "closing"

\* Steps that touch neither the threads, nor what they wrote, nor the pool.
LEMMA PassKept ==
    ASSUME PassInv, UNCHANGED <<status, worker, in_flight, completed, thread, dirty,
                                verdict>>,
           sched' = "closing" /\ ~failed' => completed = Cardinality(Chunks),
           failed' => sched' = "closing"
    PROVE  PassInv'
BY DEF PassInv, Settled

\* Every step preserves it.
LEMMA PassStep == TypeInv /\ PoolInv /\ PassInv /\ [Next]_vars => PassInv'
<1>. SUFFICES ASSUME TypeInv, PoolInv, PassInv, [Next]_vars PROVE PassInv'
  OBVIOUS
<1>. USE DEF graphVars, chunkVars, poolVars, gitVars, mergeVars
<1>0. \A c \in Chunks : thread[c] \in Running => c \in in_flight
  BY DEF PoolInv
<1>1. CASE Groomer \/ Architect \/ Integrate \/ MergeEnd \/ Critic \/ Hitl \/ UNCHANGED vars
  <2>1. UNCHANGED <<status, worker, in_flight, completed, sched, failed, thread, dirty,
                    verdict>>
    BY <1>1 DEF Groomer, Architect, Persona, Integrate, MergeEnd, Critic, Hitl, vars
  <2>. QED BY <2>1, PassKept DEF PassInv
<1>2. ASSUME NEW c \in Chunks, Merge(c) PROVE PassInv'
  BY <1>2 DEF Merge, PassInv, Settled
<1>3. CASE Develop
  BY <1>3 DEF Develop, PassInv, PoolInv, Settled, TypeInv, TypeOK
<1>4. CASE Scan
  BY <1>4, PassKept DEF Scan, PassInv
<1>5. CASE ClaimEnd \/ Wait
  BY <1>5, PassKept DEF ClaimEnd, Wait, PassInv
<1>6. CASE Close
  <2>1. Settled' = {} /\ completed' = 0 /\ sched' = "off" /\ failed' = FALSE
    BY <1>6 DEF Close, Settled
  <2>2. \A c \in Chunks : thread'[c] = "none"
    BY <1>6 DEF Close
  <2>. QED BY <2>1, <2>2, FS_EmptySet DEF PassInv
<1>7. ASSUME NEW c \in Chunks, NEW w \in Workers, Claim(c, w) PROVE PassInv'
  <2>1. status[c] = "PENDING" /\ c \notin in_flight
    BY <1>7 DEF Claim, First, PoolInv
  <2>2. thread[c] \notin {"commit", "ok"}
    BY <2>1 DEF PassInv
  <2>3. /\ thread' = [thread EXCEPT ![c] = "bind"] /\ in_flight' = in_flight \cup {c}
        /\ status' = [status EXCEPT ![c] = "IN_PROGRESS"]
        /\ worker' = [worker EXCEPT ![c] = w]
        /\ verdict' = [verdict EXCEPT ![c] = "none"]
        /\ UNCHANGED <<dirty, completed, sched, failed>> /\ sched = "claim"
    BY <1>7 DEF Claim
  <2>4. Settled' = Settled
    BY <2>2, <2>3 DEF Settled, TypeInv, TypeOK
  <2>. QED BY <2>2, <2>3, <2>4 DEF PassInv, TypeInv, TypeOK
<1>8. ASSUME NEW c \in Chunks, SettleOk(c) PROVE PassInv'
  <2>1. c \in in_flight /\ thread[c] = "ok" /\ UNCHANGED <<worker, thread, dirty, verdict>>
    BY <1>8 DEF SettleOk, TypeInv, TypeOK
  <2>2. /\ in_flight' = in_flight \ {c} /\ completed' = completed + 1
        /\ status' = [status EXCEPT ![c] = "COMPLETED"]
        /\ sched = "settle" /\ sched' \in {"scan", "settle"} /\ failed' = failed
    BY <1>8 DEF SettleOk
  <2>3. Settled' = Settled \cup {c} /\ c \notin Settled
    BY <2>1, <2>2 DEF Settled
  <2>4. IsFiniteSet(Settled)
    BY FS_Subset, PipelineAssumption DEF Settled
  <2>5. Cardinality(Settled') = Cardinality(Settled) + 1
    BY <2>3, <2>4, FS_AddElement
  <2>. QED BY <2>1, <2>2, <2>5 DEF PassInv, TypeInv, TypeOK
<1>9. ASSUME NEW c \in Chunks, SettleErr(c) PROVE PassInv'
  <2>1. /\ thread[c] = "err" /\ UNCHANGED <<worker, thread, dirty, verdict, completed>>
        /\ in_flight' = in_flight \ {c} /\ failed' = TRUE /\ sched' = "closing"
        /\ status' = [status EXCEPT ![c] = "FAILED"]
    BY <1>9 DEF SettleErr
  <2>2. Settled' = Settled
    BY <2>1 DEF Settled
  <2>. QED BY <2>1, <2>2 DEF PassInv, TypeInv, TypeOK
<1>10. ASSUME NEW c \in Chunks, Executor(c) PROVE PassInv'
  <2>. USE <1>0 DEF TypeInv, TypeOK, ThreadGoes, Running, Threads
  <2>1. thread[c] \in Running /\ c \in in_flight
    BY <1>10 DEF Executor, Bind, DeveloperOk, DeveloperErr, Tester, CommitChunk
  <2>2. /\ UNCHANGED <<worker, in_flight, completed, sched, failed>>
        /\ \A d \in Chunks : d # c => thread'[d] = thread[d]
    BY <1>10 DEF Executor, Bind, DeveloperOk, DeveloperErr, Tester, CommitChunk
  <2>3. Settled' = Settled
    BY <2>1, <2>2 DEF Settled
  <2>4. \A d \in Chunks : d # c => status'[d] = status[d] /\ verdict'[d] = verdict[d]
    BY <1>10 DEF Executor, Bind, DeveloperOk, DeveloperErr, Tester, CommitChunk
  <2>5. \A w \in Workers : dirty'[w] \subseteq dirty[w] \cup {c}
    BY <1>10 DEF Executor, Bind, DeveloperOk, DeveloperErr, Tester, CommitChunk
  <2>6. thread'[c] \in {"commit", "ok"} => status'[c] = "COMPLETED" /\ verdict'[c] = "green"
    BY <1>10 DEF Executor, Bind, DeveloperOk, DeveloperErr, Tester, CommitChunk, PassInv
  <2>7. thread'[c] = "ok" => worker'[c] \in Workers /\ c \notin dirty'[worker'[c]]
    BY <1>10 DEF Executor, Bind, DeveloperOk, DeveloperErr, Tester, CommitChunk
  <2>. QED BY <2>2, <2>3, <2>4, <2>5, <2>6, <2>7 DEF PassInv
<1>. QED BY <1>1, <1>2, <1>3, <1>4, <1>5, <1>6, <1>7, <1>8, <1>9, <1>10
         DEF Next, Graph, Scheduler

\* When WorkerPool.run returns, every chunk was run in this pass, its suite was
\* green and its work is committed.
THEOREM PassSafe == Spec => []CleanPassVerified
<1>1. Init => PassInv
  <2>. SUFFICES ASSUME Init PROVE PassInv
    OBVIOUS
  <2>1. Settled = {} /\ completed = 0
    BY DEF Init, Settled
  <2>. QED BY <2>1, FS_EmptySet DEF Init, PassInv
<1>2. PassInv => CleanPassVerified
  <2>. SUFFICES ASSUME PassInv, sched = "closing", ~failed
                PROVE  \A c \in Chunks : /\ status[c] = "COMPLETED" /\ verdict[c] = "green"
                                         /\ c \notin dirty[worker[c]]
    BY DEF CleanPassVerified
  <2>1. Settled = Chunks
    BY FS_Subset, PipelineAssumption DEF PassInv, Settled
  <2>. QED BY <2>1 DEF PassInv, Settled
<1>. QED BY <1>1, <1>2, PassStep, TypeAlways, PoolAlways, PTL DEF Spec

-----------------------------------------------------------------------------
(* The primary branch                                                      *)

\* Nothing is merged before integration, which starts from the untouched branch.
PrimaryInv ==
    /\ node \in {"groomer", "architect", "developer", "hitl", "integrate"} => primary = {}
    /\ start = {}
    /\ error = "conflict" => node = "raised" /\ primary = {}

\* Every step preserves it.
LEMMA PrimaryStep == RetryInv /\ PrimaryInv /\ [Next]_vars => PrimaryInv'
<1>. SUFFICES ASSUME RetryInv, PrimaryInv, [Next]_vars PROVE PrimaryInv'
  OBVIOUS
<1>. USE DEF PrimaryInv, graphVars, mergeVars
<1>1. CASE Groomer \/ Architect \/ Integrate \/ MergeEnd \/ Critic \/ Hitl
  BY <1>1 DEF Groomer, Architect, Persona, Integrate, MergeEnd, Critic, Hitl, Raise
<1>2. ASSUME NEW c \in Chunks, Merge(c) PROVE PrimaryInv'
  BY <1>2 DEF Merge, Raise
<1>3. CASE Close
  BY <1>3 DEF Close, RetryInv
<1>4. CASE Develop \/ Scan \/ ClaimEnd \/ Wait
  BY <1>4 DEF Develop, Scan, ClaimEnd, Wait
<1>5. ASSUME NEW c \in Chunks, SettleOk(c) \/ SettleErr(c) \/ Executor(c) PROVE PrimaryInv'
  BY <1>5 DEF SettleOk, SettleErr, Executor, Bind, DeveloperOk, DeveloperErr, Tester,
              CommitChunk, ThreadGoes
<1>6. ASSUME NEW c \in Chunks, NEW w \in Workers, Claim(c, w) PROVE PrimaryInv'
  BY <1>6 DEF Claim
<1>7. CASE UNCHANGED vars
  BY <1>7 DEF vars
<1>. QED BY <1>1, <1>2, <1>3, <1>4, <1>5, <1>6, <1>7 DEF Next, Graph, Scheduler

\* Integration is atomic over conflicts: one on any chunk leaves the primary
\* branch as it was, whatever was merged before it.
THEOREM PrimarySafe == Spec => []PrimaryUntouched
<1>1. Init => PrimaryInv /\ RetryInv
  BY PipelineAssumption DEF Init, PrimaryInv, RetryInv
<1>2. PrimaryInv => PrimaryUntouched
  BY DEF PrimaryInv, PrimaryUntouched
<1>. QED BY <1>1, <1>2, PrimaryStep, RetryStep, TypeAlways, PTL DEF Spec

=============================================================================
