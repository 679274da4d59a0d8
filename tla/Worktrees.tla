----------------------------- MODULE Worktrees -----------------------------
(***************************************************************************)
(* What the harness keeps of uncommitted work.                             *)
(*                                                                         *)
(* "resume": workers edit and commit in worktrees; capture_map records     *)
(* each one's HEAD and diff for the checkpoint; the engine dies; resume    *)
(* reclaims the worktrees, binds new ones and replays the records.         *)
(*                                                                         *)
(* "restore": Restorer checks out a stored commit in the primary tree,     *)
(* stashing what is uncommitted, while the user goes on working.           *)
(*                                                                         *)
(* A commit is identified with its content.  One git command is one step.  *)
(***************************************************************************)
EXTENDS Integers, Sequences, FiniteSets

CONSTANTS
    Files,
    Values,      \* what commits hold
    Ignored,     \* the files that .gitignore names
    Edits,       \* contents that are not committed anywhere when they are written
    Written,     \* those among them that are written to a file
    Unix,        \* each of them with LF line ends
    Undecodable, \* those that are no UTF-8
    Workers,
    MaxEdits,    \* bound: edits
    MaxCrashes   \* bound: crashes

Absent   == "absent"
Intent   == "intent to add"
Conflict == "conflict markers"
Nobody   == "nobody"
Commits  == {c \in [Files -> Values \cup {Absent}] : \A f \in Ignored : c[f] = Absent}

ASSUME WorktreesAssumption ==
    /\ MaxEdits \in Nat /\ MaxCrashes \in Nat /\ Values \cap Edits = {}
    /\ Ignored \subseteq Files /\ Undecodable \subseteq Edits
    /\ Unix \in [Edits -> Edits] /\ Written \in [Files -> SUBSET Edits]
    /\ {Absent, Intent, Conflict} \cap (Values \cup Edits) = {}

VARIABLES
    job,       \* which of the two this behaviour is about
    edits, crashes,
    primary,   \* the primary tree: [head, files, unmerged]
    stash,     \* its stash, newest first: [base, files]
    work,      \* <<file, value>> that the user wrote there and did not undo
    restorer,  \* Restorer.restore: [pc, sha, autostash]
    trees,     \* each worker's worktree
    owned,     \* workers whose branch chunk/<worker> exists
    engine,    \* the engine process: [pc, todo, at]
    snaps,     \* what capture_map has so far
    saved,     \* the worktrees of the checkpoint
    same       \* restored workers whose worktree nobody has touched since

resumeVars  == <<trees, owned, engine, snaps, saved, same>>
restoreVars == <<stash, work, restorer>>
vars == <<job, edits, crashes, primary, resumeVars, restoreVars>>

\* A worktree that git has just added.
Fresh(head, branch) ==
    [dir |-> TRUE, registered |-> TRUE, branch |-> branch, step |-> "free",
     head |-> head, index |-> head, files |-> head]
NoTree == [dir |-> FALSE, registered |-> FALSE]

Init ==
    /\ job \in {"resume", "restore"}
    /\ edits = 0 /\ crashes = 0
    /\ \E c \in Commits : primary = [head |-> c, files |-> c, unmerged |-> FALSE]
    /\ stash = <<>> /\ work = {}
    /\ restorer = [pc |-> "idle"]
    /\ trees = [w \in Workers |-> NoTree]
    /\ owned = {}
    /\ engine = [pc |-> "run", todo |-> {}, at |-> Nobody]
    /\ snaps = <<>> /\ saved = <<>> /\ same = {}

----------------------------------------------------------------------------
(* Workers.                                                                 *)

IsTree(w) == trees[w].dir /\ trees[w].registered
Working(w) == job = "resume" /\ engine.pc = "run" /\ IsTree(w)
Free(w)    == Working(w) /\ trees[w].step = "free"

\* create on the chunk's branch, in the first run.
Bind(w) ==
    /\ job = "resume" /\ engine.pc = "run" /\ trees[w] = NoTree
    /\ trees' = [trees EXCEPT ![w] = Fresh(primary.head, "chunk")]
    /\ UNCHANGED <<job, edits, crashes, primary, owned, engine, snaps, saved,
                   same, restoreVars>>

\* The developer node writes or deletes a file.
Edit(w, f, v) ==
    /\ Free(w) /\ edits < MaxEdits
    /\ v # trees[w].files[f]
    /\ trees' = [trees EXCEPT ![w].files[f] = v]
    /\ edits' = edits + 1
    /\ same' = same \ {w}
    /\ UNCHANGED <<job, crashes, primary, owned, engine, snaps, saved, restoreVars>>

\* add -A: what is ignored is not added.
Added(t) == [f \in Files |-> IF f \in Ignored THEN t.index[f] ELSE t.files[f]]

\* _commit_chunk: add -A, then commit, which may fail and leave the index.
StageAll(w) ==
    /\ Free(w) /\ trees[w].index # Added(trees[w])
    /\ trees' = [trees EXCEPT ![w].step = "staged", ![w].index = Added(trees[w])]
    /\ same' = same \ {w}
    /\ UNCHANGED <<job, edits, crashes, primary, owned, engine, snaps, saved,
                   restoreVars>>

Commit(w) ==
    /\ Working(w) /\ trees[w].step = "staged"
    /\ \E head \in {trees[w].index, trees[w].head} :
          trees' = [trees EXCEPT ![w].step = "free", ![w].head = head]
    /\ UNCHANGED <<job, edits, crashes, primary, owned, engine, snaps, saved, same,
                   restoreVars>>

\* The integrator merges a worker's branch.
PrimaryMoves(w) ==
    /\ Working(w) /\ primary.head # trees[w].head
    /\ primary' = [primary EXCEPT !.head = trees[w].head, !.files = trees[w].head]
    /\ UNCHANGED <<job, edits, crashes, resumeVars, restoreVars>>

(* add -N -A: new files are marked, deletions are staged.                   *)
IntentToAdd(t) ==
    [f \in Files |->
        IF f \in Ignored THEN t.index[f]
        ELSE IF t.files[f] = Absent THEN Absent
        ELSE IF t.index[f] = Absent THEN Intent ELSE t.index[f]]

\* diff --binary: the index against the files, so without what is staged.
Diff(index, files) ==
    [f \in {g \in Files \ Ignored : index[g] # files[g]} |->
        [old |-> IF index[f] = Intent THEN Absent ELSE index[f], new |-> files[f]]]

\* text=True: git's output is decoded, and its line ends become LF.
Decodes(diff) ==
    \A f \in DOMAIN diff : diff[f].old \notin Undecodable /\ diff[f].new \notin Undecodable
Text(v) == IF v \in Edits THEN Unix[v] ELSE v
Decoded(diff) ==
    [f \in DOMAIN diff |-> [old |-> Text(diff[f].old), new |-> Text(diff[f].new)]]

\* capture_map goes over the workers one by one.
Capturing == {w \in Workers : IsTree(w) /\ trees[w].step \in {"marked", "taken"}}

(* capture, between two steps of the worker.  First rev-parse and add -N    *)
(* -A; `tree` keeps what the worktree was then, for the properties.         *)
CaptureMark(w) ==
    /\ Free(w) /\ w \notin DOMAIN snaps /\ Capturing = {}
    /\ snaps' = [x \in DOMAIN snaps \cup {w} |->
          IF x # w THEN snaps[x]
          ELSE [head |-> trees[w].head, diff |-> <<>>, tree |-> trees[w]]]
    /\ trees' = [trees EXCEPT ![w].step = "marked", ![w].index = IntentToAdd(trees[w])]
    /\ UNCHANGED <<job, edits, crashes, primary, owned, engine, saved, same,
                   restoreVars>>

\* Then the diff.  One that is no UTF-8 raises, out of capture_map.
CaptureDiff(w) ==
    /\ Working(w) /\ trees[w].step = "marked"
    /\ LET d == Diff(trees[w].index, trees[w].files) IN
       \/ /\ Decodes(d)
          /\ snaps' = [snaps EXCEPT ![w].diff = Decoded(d)]
          /\ trees' = [trees EXCEPT ![w].step = "taken"]
       \/ /\ ~Decodes(d)
          /\ snaps' = <<>>
          /\ trees' = [trees EXCEPT ![w].step = "free"]
    /\ UNCHANGED <<job, edits, crashes, primary, owned, engine, saved, same,
                   restoreVars>>

\* reset --quiet takes back what was marked, and what had been staged before.
CaptureReset(w) ==
    /\ Working(w) /\ trees[w].step = "taken"
    /\ trees' = [trees EXCEPT ![w].step = "free", ![w].index = trees[w].head]
    /\ UNCHANGED <<job, edits, crashes, primary, owned, engine, snaps, saved, same,
                   restoreVars>>

\* put_bound with the whole map.
PutBound ==
    /\ job = "resume" /\ engine.pc = "run"
    /\ snaps # <<>> /\ DOMAIN snaps = {w \in Workers : IsTree(w)}
    /\ Capturing = {}
    /\ saved' = snaps /\ snaps' = <<>> /\ same' = {}
    /\ UNCHANGED <<job, edits, crashes, primary, trees, owned, engine, restoreVars>>

----------------------------------------------------------------------------
(* The crash, and resume.                                                   *)

\* Killed, or ended by the RecoveryError of a failed resume.
EngineDies ==
    /\ job = "resume" /\ engine.pc # "down" /\ crashes < MaxCrashes
    /\ engine' = [pc |-> "down", todo |-> {}, at |-> Nobody]
    /\ crashes' = crashes + 1
    /\ snaps' = <<>> /\ same' = {}
    /\ UNCHANGED <<job, edits, primary, trees, owned, saved, restoreVars>>

\* Meanwhile: someone deletes the directory, or git's administration of it.
Tampered(w) ==
    /\ engine.pc = "down" /\ IsTree(w) /\ edits < MaxEdits
    /\ \/ trees' = [trees EXCEPT ![w].dir = FALSE]
       \/ trees' = [trees EXCEPT ![w].registered = FALSE]
    /\ edits' = edits + 1
    /\ UNCHANGED <<job, crashes, primary, owned, engine, snaps, saved, same,
                   restoreVars>>

\* resume is called with the checkpoint's plan.
Resume ==
    /\ engine.pc = "down" /\ saved # <<>>
    /\ engine' = [engine EXCEPT !.pc = "reclaim", !.todo = DOMAIN saved]
    /\ UNCHANGED <<job, edits, crashes, primary, trees, owned, snaps, saved, same,
                   restoreVars>>

(* _reclaim_worktrees: no .pid file is ever written, so every directory is  *)
(* destroyed; one that git does not know is removed as a directory.         *)
Reclaim(w) ==
    /\ engine.pc = "reclaim" /\ trees[w].dir
    /\ trees' = [trees EXCEPT ![w] = NoTree]
    /\ UNCHANGED <<job, edits, crashes, primary, owned, engine, snaps, saved, same,
                   restoreVars>>

Step(from, to, w) ==
    engine.pc = from /\ engine' = [engine EXCEPT !.pc = to, !.at = w]
Fail == engine' = [engine EXCEPT !.pc = "failed", !.todo = {}, !.at = Nobody]

(* _delete_branch for the next worker: git refuses while a registered       *)
(* worktree, present or not, has the branch checked out.                    *)
DeleteBranch(w) ==
    /\ w \in engine.todo
    /\ \/ Step("reclaim", "bind", w) /\ \A x \in Workers : ~trees[x].dir
       \/ Step("next", "bind", w)
    /\ owned' = IF trees[w].registered /\ trees[w].branch = "worker"
                THEN owned ELSE owned \ {w}
    /\ UNCHANGED <<job, edits, crashes, primary, trees, snaps, saved, same,
                   restoreVars>>

(* bind to a chunk named like the worker: worktree add -b fails when the    *)
(* branch exists or the path is still registered.                           *)
Rebind ==
    /\ engine.pc = "bind"
    /\ LET w == engine.at IN
       \/ /\ w \notin owned /\ trees[w] = NoTree
          /\ trees' = [trees EXCEPT ![w] = Fresh(primary.head, "worker")]
          /\ owned' = owned \cup {w}
          /\ Step("bind", "reset", w)
       \/ /\ w \in owned \/ trees[w] # NoTree
          /\ Fail
          /\ UNCHANGED <<trees, owned>>
    /\ UNCHANGED <<job, edits, crashes, primary, snaps, saved, same, restoreVars>>

\* Mutant of ResetHard: the recorded HEAD is not looked at.
ResetNot ==
    /\ Step("reset", "apply", engine.at)
    /\ UNCHANGED <<job, edits, crashes, primary, trees, owned, snaps, saved, same,
                   restoreVars>>

\* restore: reset --hard when the HEAD differs.
ResetHard ==
    /\ Step("reset", "apply", engine.at)
    /\ trees' = [trees EXCEPT ![engine.at].head = saved[engine.at].head,
                              ![engine.at].index = saved[engine.at].head,
                              ![engine.at].files = saved[engine.at].head]
    /\ UNCHANGED <<job, edits, crashes, primary, owned, snaps, saved, same,
                   restoreVars>>

\* git apply: all of the patch, or nothing when a preimage does not match.
Applies(diff, files) == \A f \in DOMAIN diff : files[f] = diff[f].old

Apply ==
    /\ engine.pc = "apply"
    /\ LET w == engine.at d == saved[w].diff IN
       \/ /\ Applies(d, trees[w].files)
          /\ trees' = [trees EXCEPT ![w].files =
                [f \in Files |-> IF f \in DOMAIN d THEN d[f].new ELSE @[f]]]
          /\ same' = same \cup {w}
          /\ engine' = [pc |-> IF engine.todo = {w} THEN "run" ELSE "next",
                        todo |-> engine.todo \ {w}, at |-> Nobody]
       \/ /\ ~Applies(d, trees[w].files)
          /\ Fail
          /\ UNCHANGED <<trees, same>>
    /\ UNCHANGED <<job, edits, crashes, primary, owned, snaps, saved, restoreVars>>

----------------------------------------------------------------------------
(* Restorer.restore on the primary tree, and its user.                      *)

UserEdit(f, v) ==
    /\ job = "restore" /\ edits < MaxEdits /\ v # primary.files[f]
    /\ primary' = [primary EXCEPT !.files[f] = v]
    /\ work' = (work \ {<<f, primary.files[f]>>}) \cup {<<f, v>>}
    /\ edits' = edits + 1
    /\ UNCHANGED <<job, crashes, stash, restorer, resumeVars>>

Tracked == {f \in Files : primary.head[f] # Absent}
Changed == {f \in Tracked : primary.files[f] # primary.head[f]}
\* status --porcelain prints something; untracked files count, ignored ones do not.
Dirty   == primary.unmerged
           \/ \E f \in Files \ Ignored : primary.files[f] # primary.head[f]

\* stash push, without -u: untracked files stay where they are.
Push ==
    /\ IF Changed = {} THEN UNCHANGED stash
       ELSE stash' = <<[base |-> primary.head,
                        files |-> [f \in Changed |-> primary.files[f]]]>> \o stash
    /\ primary' = [primary EXCEPT !.files =
          [f \in Files |-> IF f \in Changed THEN primary.head[f] ELSE @[f]]]

UserStash ==
    /\ job = "restore" /\ edits < MaxEdits /\ Changed # {} /\ ~primary.unmerged
    /\ Push
    /\ edits' = edits + 1
    /\ UNCHANGED <<job, crashes, work, restorer, resumeVars>>

(* The first look: DirtyWorktreeError without autostash.                    *)
Restore(sha, autostash) ==
    /\ job = "restore" /\ restorer.pc = "idle" /\ sha # primary.head
    /\ autostash \/ ~Dirty
    /\ restorer' = [pc |-> IF Dirty THEN "stash" ELSE "checkout", sha |-> sha,
                    autostash |-> autostash]
    /\ UNCHANGED <<job, edits, crashes, primary, stash, work, resumeVars>>

\* stash push raises on unmerged files, before the try.
StashPush ==
    /\ restorer.pc = "stash"
    /\ \/ ~primary.unmerged /\ Push /\ restorer' = [restorer EXCEPT !.pc = "checkout"]
       \/ primary.unmerged /\ restorer' = [pc |-> "idle"] /\ UNCHANGED <<primary, stash>>
    /\ UNCHANGED <<job, edits, crashes, work, resumeVars>>

\* What the checkout would have to overwrite must be as the HEAD has it.
Moves == {f \in Files : primary.head[f] # restorer.sha[f]}
CanCheckout ==
    ~primary.unmerged /\ \A f \in Moves : primary.files[f] = primary.head[f]

\* Mutant of Checkout: checkout --force.
CheckoutForce ==
    /\ restorer.pc = "checkout"
    /\ primary' = [head |-> restorer.sha, unmerged |-> FALSE,
                   files |-> [f \in Files |->
                      IF f \in Moves \cup Changed THEN restorer.sha[f]
                      ELSE primary.files[f]]]
    /\ restorer' = [restorer EXCEPT !.pc = "finally"]
    /\ UNCHANGED <<job, edits, crashes, stash, work, resumeVars>>

\* A refused checkout raises, through the finally clause.
Checkout ==
    /\ restorer.pc = "checkout"
    /\ primary' = IF ~CanCheckout THEN primary ELSE
          [head |-> restorer.sha, unmerged |-> FALSE,
           files |-> [f \in Files |->
              IF f \in Moves THEN restorer.sha[f] ELSE primary.files[f]]]
    /\ restorer' = [restorer EXCEPT !.pc = "finally"]
    /\ UNCHANGED <<job, edits, crashes, stash, work, resumeVars>>

\* The stash is looked at only if the tree is clean, untracked files included.
Finally ==
    /\ restorer.pc = "finally"
    /\ restorer' = IF restorer.autostash /\ ~Dirty /\ stash # <<>>
                   THEN [restorer EXCEPT !.pc = "pop"] ELSE [pc |-> "idle"]
    /\ UNCHANGED <<job, edits, crashes, primary, stash, work, resumeVars>>

(* stash pop of the newest entry, whoever pushed it.  It refuses to touch a *)
(* file with local changes; a file that the commits changed too conflicts,  *)
(* and then the entry is kept.                                              *)
StashPop ==
    /\ restorer.pc = "pop"
    /\ LET s == stash[1]
           touched == DOMAIN s.files
           conflicts == {f \in touched : primary.files[f] \notin {s.base[f], s.files[f]}}
       IN  \/ /\ stash # <<>> /\ ~primary.unmerged
              /\ \A f \in touched : primary.files[f] = primary.head[f]
              /\ primary' = [primary EXCEPT
                    !.unmerged = (conflicts # {}),
                    !.files = [f \in Files |->
                       IF f \in conflicts THEN Conflict
                       ELSE IF f \in touched THEN s.files[f] ELSE @[f]]]
              /\ stash' = IF conflicts = {} THEN Tail(stash) ELSE stash
           \/ /\ stash # <<>>
              /\ primary.unmerged
                   \/ \E f \in touched : primary.files[f] # primary.head[f]
              /\ UNCHANGED <<primary, stash>>
    /\ restorer' = [pc |-> "idle"]
    /\ UNCHANGED <<job, edits, crashes, work, resumeVars>>

RestorerDies ==
    /\ restorer.pc # "idle" /\ crashes < MaxCrashes
    /\ restorer' = [pc |-> "idle"]
    /\ crashes' = crashes + 1
    /\ UNCHANGED <<job, edits, primary, stash, work, resumeVars>>

----------------------------------------------------------------------------
Next ==
    \/ \E w \in Workers :
          \/ Bind(w) \/ StageAll(w) \/ Commit(w) \/ PrimaryMoves(w)
          \/ CaptureMark(w) \/ CaptureDiff(w) \/ CaptureReset(w)
          \/ Tampered(w) \/ Reclaim(w) \/ DeleteBranch(w)
          \/ \E f \in Files : \E v \in Written[f] \cup {Absent} : Edit(w, f, v)
    \/ PutBound \/ EngineDies \/ Resume \/ Rebind \/ ResetHard \/ Apply
    \/ \E f \in Files : \E v \in Written[f] : UserEdit(f, v)
    \/ UserStash
    \/ \E c \in Commits : \E b \in BOOLEAN : Restore(c, b)
    \/ StashPush \/ Checkout \/ Finally \/ StashPop \/ RestorerDies

Spec == Init /\ [][Next]_vars

----------------------------------------------------------------------------
(* capture keeps neither what was staged nor what was deleted: it stages    *)
(* deletions before it takes the diff, and the diff is against the index.   *)
Recorded(t) ==
    /\ \A f \in Files : \/ t.index[f] = t.head[f]
                        \/ t.index[f] = Intent /\ t.head[f] = Absent
    /\ \A f \in Files : t.files[f] = Absent => t.head[f] = Absent

(* After a resume every worktree has the HEAD it had when it was captured,  *)
(* and, unless a change was staged or a file deleted by then, the same      *)
(* files: an uncommitted one with the line ends that text mode makes of     *)
(* them, and without the ignored ones.  Whatever was edited, committed,     *)
(* merged, crashed or half restored in between (capture and restore of      *)
(* WorkerWorkspace, reclaim, resume).                                       *)
RestoredAsCaptured ==
    \A w \in same :
        LET t == saved[w].tree IN
        /\ trees[w].head = t.head
        /\ Recorded(t) => \A f \in Files \ Ignored :
              trees[w].files[f] = IF t.files[f] = t.head[f] THEN t.head[f]
                                  ELSE Text(t.files[f])

(* Restoring a commit never costs the user uncommitted work: all of it is   *)
(* in the tree or in the stash, over refusals, conflicts, kills and edits   *)
(* between any two of restore's commands.                                   *)
AutostashKept ==
    \A p \in work :
        \/ primary.files[p[1]] = p[2]
        \/ \E i \in DOMAIN stash :
              p[1] \in DOMAIN stash[i].files /\ stash[i].files[p[1]] = p[2]
=============================================================================
