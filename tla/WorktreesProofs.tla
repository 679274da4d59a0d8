-------------------------- MODULE WorktreesProofs --------------------------
(* Theorems about uncommitted work, for any files, workers and edits: a     *)
(* restore keeps the user's work, and a resume brings back what capture     *)
(* recorded.                                                                *)
EXTENDS Worktrees, SequenceTheorems, TLAPS

----------------------------------------------------------------------------
(* Restoring the primary tree                                               *)

Held      == Values \cup Edits \cup {Absent, Conflict}
Main      == [head : Commits, files : [Files -> Held], unmerged : BOOLEAN]
Entry     == [base : Commits, files : UNION {[A -> Held] : A \in SUBSET Files}]
Restoring == [pc : {"stash", "checkout", "finally", "pop"}, sha : Commits,
              autostash : BOOLEAN]

\* A piece of work that the tree or the stash has.
Kept(p) ==
    \/ primary.files[p[1]] = p[2]
    \/ \E i \in DOMAIN stash :
          p[1] \in DOMAIN stash[i].files /\ stash[i].files[p[1]] = p[2]

\* Work is on files and not in commits; a behaviour about resume has none.
UserInv ==
    /\ job \in {"resume", "restore"}
    /\ job = "resume" => work = {} /\ restorer.pc = "idle"
    /\ restorer \in [pc : {"idle"}] \cup Restoring
    /\ job = "restore" => primary \in Main /\ stash \in Seq(Entry)
    /\ work \subseteq Files \X Edits
    /\ \A p \in work : Kept(p)

\* No commit holds what was edited.
LEMMA NotCommitted == ASSUME NEW c \in Commits, NEW f \in Files PROVE c[f] \notin Edits
BY WorktreesAssumption DEF Commits

\* A step that is not the user's or the restorer's.
LEMMA UserFrame ==
    ASSUME UserInv, UNCHANGED <<job, primary, stash, work, restorer>> PROVE UserInv'
<1>1. ASSUME NEW p PROVE Kept(p)' <=> Kept(p)
  BY DEF Kept
<1>. QED BY <1>1 DEF UserInv

\* A step of the restorer that touches neither the tree nor the stash.
LEMMA RestorerFrame ==
    ASSUME UserInv, UNCHANGED <<job, primary, stash, work>>, job = "restore",
           restorer' \in [pc : {"idle"}] \cup Restoring
    PROVE  UserInv'
<1>1. ASSUME NEW p PROVE Kept(p)' <=> Kept(p)
  BY DEF Kept
<1>. QED BY <1>1 DEF UserInv

\* A restorer under way is restoring.
LEMMA RestorerIs ==
    ASSUME UserInv, restorer.pc # "idle"
    PROVE  job = "restore" /\ restorer \in Restoring /\ primary \in Main /\ stash \in Seq(Entry)
<1>1. job = "restore"
  BY DEF UserInv
<1>2. restorer \in Restoring
  BY DEF UserInv
<1>. QED BY <1>1, <1>2 DEF UserInv

\* An entry in front of the stash leaves the others in it.
LEMMA Deeper ==
    ASSUME NEW s \in Seq(Entry), NEW e \in Entry
    PROVE  /\ <<e>> \o s \in Seq(Entry) /\ 1 \in DOMAIN (<<e>> \o s) /\ (<<e>> \o s)[1] = e
           /\ \A i \in DOMAIN s : i + 1 \in DOMAIN (<<e>> \o s) /\ (<<e>> \o s)[i + 1] = s[i]
<1>. DEFINE h == <<e>>
            t == h \o s
<1>1. h \in Seq(Entry) /\ Len(h) = 1 /\ h[1] = e /\ Len(s) \in Nat /\ DOMAIN s = 1..Len(s)
  OBVIOUS
<1>. HIDE DEF h
<1>2. /\ t \in Seq(Entry) /\ Len(t) = Len(h) + Len(s)
      /\ \A i \in 1..(Len(h) + Len(s)) : t[i] = IF i <= Len(h) THEN h[i] ELSE s[i - Len(h)]
  BY <1>1, ConcatProperties
<1>. HIDE DEF t
<1>3. DOMAIN t = 1..(1 + Len(s))
  BY <1>1, <1>2
<1>4. 1 \in DOMAIN t /\ t[1] = e
  BY <1>1, <1>2, <1>3
<1>5. ASSUME NEW i \in DOMAIN s PROVE i + 1 \in DOMAIN t /\ t[i + 1] = s[i]
  <2>1. i + 1 \in 1..(1 + Len(s)) /\ ~(i + 1 <= 1) /\ (i + 1) - 1 = i
    BY <1>1
  <2>. QED BY <1>1, <1>2, <1>3, <2>1
<1>. QED BY <1>2, <1>4, <1>5 DEF t, h

\* stash push moves what it takes out of the tree into the stash.
LEMMA PushKeeps ==
    ASSUME primary \in Main, stash \in Seq(Entry), Push
    PROVE  /\ primary' \in Main /\ stash' \in Seq(Entry)
           /\ \A p \in Files \X Edits : Kept(p) => Kept(p)'
<1>. DEFINE e == [base |-> primary.head, files |-> [f \in Changed |-> primary.files[f]]]
            u == [f \in Files |-> IF f \in Changed THEN primary.head[f] ELSE primary.files[f]]
<1>1. /\ Changed \subseteq Files /\ primary.head \in Commits
      /\ primary.files \in [Files -> Held] /\ \A f \in Files : primary.head[f] \in Held
  BY DEF Changed, Tracked, Main, Commits, Held
<1>2. primary' = [primary EXCEPT !.files = u]
  BY DEF Push
<1>3. u \in [Files -> Held]
  BY <1>1
<1>4. e \in Entry /\ e.files = [f \in Changed |-> primary.files[f]]
  <2>1. [f \in Changed |-> primary.files[f]] \in [Changed -> Held]
    BY <1>1
  <2>2. [f \in Changed |-> primary.files[f]] \in UNION {[A -> Held] : A \in SUBSET Files}
    BY <1>1, <2>1
  <2>. QED BY <1>1, <2>2 DEF Entry
<1>5. primary' \in Main /\ primary'.files = u
  <2>. HIDE DEF u
  <2>. QED BY <1>2, <1>3 DEF Main
<1>6. stash' = IF Changed = {} THEN stash ELSE <<e>> \o stash
  BY DEF Push
<1>. HIDE DEF e
<1>7. stash' \in Seq(Entry)
  BY <1>4, <1>6, Deeper
<1>8. ASSUME NEW i \in DOMAIN stash PROVE \E j \in DOMAIN stash' : stash'[j] = stash[i]
  BY <1>4, <1>6, Deeper
<1>9. ASSUME NEW p \in Files \X Edits, Kept(p) PROVE Kept(p)'
  <2>1. CASE primary.files[p[1]] = p[2] /\ p[1] \in Changed
    <3>1. Changed # {} /\ 1 \in DOMAIN stash' /\ stash'[1] = e
      BY <1>4, <1>6, <2>1, Deeper
    <3>2. p[1] \in DOMAIN e.files /\ e.files[p[1]] = p[2]
      BY <1>4, <2>1
    <3>. QED BY <3>1, <3>2 DEF Kept
  <2>2. CASE primary.files[p[1]] = p[2] /\ p[1] \notin Changed
    <3>1. u[p[1]] = p[2]
      BY <2>2
    <3>. HIDE DEF u
    <3>. QED BY <1>5, <3>1 DEF Kept
  <2>3. CASE \E i \in DOMAIN stash : p[1] \in DOMAIN stash[i].files /\ stash[i].files[p[1]] = p[2]
    BY <1>8, <2>3 DEF Kept
  <2>. QED BY <1>9, <2>1, <2>2, <2>3 DEF Kept
<1>. QED BY <1>5, <1>7, <1>9

\* The user's steps.
LEMMA UserStep ==
    ASSUME UserInv, (\E f \in Files : \E v \in Written[f] : UserEdit(f, v)) \/ UserStash
    PROVE  UserInv'
<1>1. ASSUME NEW f \in Files, NEW v \in Written[f], UserEdit(f, v) PROVE UserInv'
  <2>. v \in Edits
    BY WorktreesAssumption
  <2>1. /\ job = "restore" /\ primary \in Main /\ stash \in Seq(Entry)
        /\ UNCHANGED <<job, stash, restorer>>
        /\ primary' = [primary EXCEPT !.files[f] = v]
        /\ work' = (work \ {<<f, primary.files[f]>>}) \cup {<<f, v>>}
    BY <1>1 DEF UserEdit, UserInv
  <2>2. primary' \in Main /\ primary'.files = [primary.files EXCEPT ![f] = v]
    BY <2>1 DEF Main, Held
  <2>3. work' \subseteq Files \X Edits
    BY <2>1 DEF UserInv
  <2>4. ASSUME NEW p \in work' PROVE Kept(p)'
    <3>1. CASE p = <<f, v>>
      BY <2>1, <2>2, <3>1 DEF Kept, Main
    <3>2. CASE p \in work /\ p # <<f, primary.files[f]>>
      <4>1. p \in Files \X Edits /\ Kept(p)
        BY <3>2 DEF UserInv
      <4>2. p[1] = f => primary.files[p[1]] # p[2]
        BY <3>2, <4>1
      <4>. QED BY <2>1, <2>2, <4>1, <4>2 DEF Kept, Main
    <3>. QED BY <2>1, <2>4, <3>1, <3>2
  <2>. QED BY <2>1, <2>2, <2>3, <2>4 DEF UserInv
<1>2. CASE UserStash
  <2>1. job = "restore" /\ Push /\ UNCHANGED <<job, work, restorer>>
    BY <1>2 DEF UserStash
  <2>2. /\ primary' \in Main /\ stash' \in Seq(Entry)
        /\ \A p \in Files \X Edits : Kept(p) => Kept(p)'
    BY <2>1, PushKeeps DEF UserInv
  <2>. QED BY <2>1, <2>2 DEF UserInv
<1>. QED BY <1>1, <1>2

\* checkout touches only files that are as the HEAD has them.
LEMMA CheckoutStep == ASSUME UserInv, Checkout PROVE UserInv'
<1>1. /\ job = "restore" /\ restorer \in Restoring /\ primary \in Main /\ stash \in Seq(Entry)
      /\ UNCHANGED <<job, stash, work>> /\ restorer' = [restorer EXCEPT !.pc = "finally"]
  BY RestorerIs DEF Checkout
<1>2. restorer' \in Restoring
  BY <1>1 DEF Restoring
<1>3. CASE ~CanCheckout
  <2>1. primary' = primary
    BY <1>3 DEF Checkout
  <2>. QED BY <1>1, <1>2, <2>1, RestorerFrame
<1>4. CASE CanCheckout
  <2>. DEFINE u == [f \in Files |-> IF f \in Moves THEN restorer.sha[f] ELSE primary.files[f]]
  <2>1. primary' = [head |-> restorer.sha, unmerged |-> FALSE, files |-> u]
    BY <1>4 DEF Checkout
  <2>2. restorer.sha \in Commits /\ primary.head \in Commits
    BY <1>1 DEF Restoring, Main
  <2>3. u \in [Files -> Held]
    BY <1>1, <2>2 DEF Main, Held, Commits
  <2>. HIDE DEF u
  <2>4. primary' \in Main /\ primary'.files = u
    BY <2>1, <2>2, <2>3 DEF Main
  <2>5. ASSUME NEW p \in work PROVE Kept(p)'
    <3>1. p \in Files \X Edits /\ Kept(p)
      BY DEF UserInv
    <3>2. CASE primary.files[p[1]] = p[2]
      <4>1. p[1] \in Files /\ p[2] \in Edits
        BY <3>1
      <4>2. primary.head[p[1]] # p[2]
        BY <2>2, <4>1, NotCommitted
      <4>3. p[1] \notin Moves
        BY <1>4, <3>2, <4>2 DEF CanCheckout
      <4>4. u[p[1]] = p[2]
        BY <3>2, <4>1, <4>3 DEF u
      <4>. QED BY <2>4, <4>4 DEF Kept
    <3>3. CASE primary.files[p[1]] # p[2]
      BY <1>1, <3>1, <3>3 DEF Kept
    <3>. QED BY <3>2, <3>3
  <2>. QED BY <1>1, <1>2, <2>4, <2>5 DEF UserInv
<1>. QED BY <1>3, <1>4

\* stash pop: what leaves the stash is in the tree.
LEMMA StashPopStep == ASSUME UserInv, StashPop PROVE UserInv'
<1>. DEFINE s == stash[1]
            touched == DOMAIN s.files
            conflicts == {f \in touched : primary.files[f] \notin {s.base[f], s.files[f]}}
            u == [f \in Files |-> IF f \in conflicts THEN Conflict
                                  ELSE IF f \in touched THEN s.files[f] ELSE primary.files[f]]
<1>1. /\ job = "restore" /\ primary \in Main /\ stash \in Seq(Entry)
      /\ UNCHANGED <<job, work>> /\ restorer' = [pc |-> "idle"]
  BY RestorerIs DEF StashPop
<1>2. restorer' \in [pc : {"idle"}]
  BY <1>1
<1>3. CASE UNCHANGED <<primary, stash>>
  BY <1>1, <1>2, <1>3, RestorerFrame
<1>4. CASE /\ stash # <<>> /\ ~primary.unmerged
           /\ \A f \in touched : primary.files[f] = primary.head[f]
           /\ primary' = [primary EXCEPT !.unmerged = (conflicts # {}), !.files = u]
           /\ stash' = IF conflicts = {} THEN Tail(stash) ELSE stash
  <2>1. /\ Len(stash) \in Nat /\ Len(stash) >= 1 /\ DOMAIN stash = 1..Len(stash)
    BY <1>1, <1>4, EmptySeq
  <2>2. s \in Entry
    BY <1>1, <2>1, ElementOfSeq
  <2>3. touched \subseteq Files /\ \A f \in touched : s.files[f] \in Held
    <3>1. s.files \in UNION {[A -> Held] : A \in SUBSET Files}
      BY <2>2 DEF Entry
    <3>2. PICK A \in SUBSET Files : s.files \in [A -> Held]
      BY <3>1
    <3>. QED BY <3>2
  <2>4. conflicts \subseteq touched
    OBVIOUS
  <2>5. u \in [Files -> Held]
    <3>. HIDE DEF s, touched, conflicts
    <3>. QED BY <1>1, <2>3 DEF Main, Held
  <2>6. (conflicts # {}) \in BOOLEAN
    OBVIOUS
  <2>7. primary' \in Main /\ primary'.files = u
    <3>. DEFINE b == conflicts # {}
    <3>1. b \in BOOLEAN
      BY <2>6
    <3>2. primary' = [primary EXCEPT !.unmerged = b, !.files = u]
      BY <1>4
    <3>. HIDE DEF b, u
    <3>. QED BY <1>1, <2>5, <3>1, <3>2 DEF Main
  <2>8. /\ stash' \in Seq(Entry)
        /\ \A i \in DOMAIN stash : i # 1 \/ conflicts # {} =>
              \E j \in DOMAIN stash' : stash'[j] = stash[i]
    <3>1. CASE conflicts # {}
      BY <1>1, <1>4, <3>1
    <3>2. CASE conflicts = {}
      <4>. DEFINE t == Tail(stash)
      <4>1. /\ t \in Seq(Entry) /\ Len(t) = Len(stash) - 1
            /\ \A i \in 1..Len(t) : t[i] = stash[i + 1]
        BY <1>1, <1>4, HeadTailProperties
      <4>2. stash' = t
        BY <1>4, <3>2
      <4>. HIDE DEF t
      <4>3. ASSUME NEW i \in DOMAIN stash, i # 1 PROVE \E j \in DOMAIN t : t[j] = stash[i]
        <5>1. i - 1 \in 1..Len(t) /\ (i - 1) + 1 = i /\ DOMAIN t = 1..Len(t)
          BY <2>1, <4>1, <4>3
        <5>. QED BY <4>1, <5>1
      <4>. QED BY <3>2, <4>1, <4>2, <4>3
    <3>. QED BY <3>1, <3>2
  <2>9. ASSUME NEW p \in work PROVE Kept(p)'
    <3>1. p \in Files \X Edits /\ Kept(p)
      BY DEF UserInv
    <3>2. p[1] \in Files /\ p[2] \in Edits /\ primary.head \in Commits
      BY <1>1, <3>1 DEF Main
    <3>3. CASE primary.files[p[1]] = p[2]
      <4>1. p[1] \notin touched
        BY <1>4, <3>2, <3>3, NotCommitted
      <4>2. u[p[1]] = p[2]
        BY <2>4, <3>2, <3>3, <4>1
      <4>. HIDE DEF u
      <4>. QED BY <2>7, <4>2 DEF Kept
    <3>4. ASSUME NEW i \in DOMAIN stash,
                 p[1] \in DOMAIN stash[i].files, stash[i].files[p[1]] = p[2]
          PROVE  Kept(p)'
      <4>1. CASE i # 1 \/ conflicts # {}
        <5>1. PICK j \in DOMAIN stash' : stash'[j] = stash[i]
          BY <2>8, <4>1
        <5>. QED BY <3>4, <5>1 DEF Kept
      <4>2. CASE i = 1 /\ conflicts = {}
        <5>1. u[p[1]] = p[2]
          BY <3>2, <3>4, <4>2
        <5>. HIDE DEF u
        <5>. QED BY <2>7, <5>1 DEF Kept
      <4>. QED BY <4>1, <4>2
    <3>. QED BY <3>1, <3>3, <3>4 DEF Kept
  <2>. QED BY <1>1, <1>2, <2>7, <2>8, <2>9 DEF UserInv
<1>. QED BY <1>3, <1>4 DEF StashPop

\* The restorer's other steps.
LEMMA RestorerStep ==
    ASSUME UserInv,
           \/ \E c \in Commits : \E b \in BOOLEAN : Restore(c, b)
           \/ StashPush \/ Finally \/ RestorerDies
    PROVE  UserInv'
<1>1. ASSUME NEW c \in Commits, NEW b \in BOOLEAN, Restore(c, b) PROVE UserInv'
  <2>1. restorer' \in Restoring
    BY <1>1 DEF Restore, Restoring
  <2>. QED BY <1>1, <2>1, RestorerFrame DEF Restore
<1>2. CASE StashPush
  <2>1. /\ job = "restore" /\ restorer \in Restoring /\ primary \in Main /\ stash \in Seq(Entry)
        /\ UNCHANGED <<job, work>>
    BY <1>2, RestorerIs DEF StashPush
  <2>2. CASE Push /\ restorer' = [restorer EXCEPT !.pc = "checkout"]
    <3>1. /\ primary' \in Main /\ stash' \in Seq(Entry)
          /\ \A p \in Files \X Edits : Kept(p) => Kept(p)'
      BY <2>1, <2>2, PushKeeps
    <3>2. restorer' \in Restoring
      BY <2>1, <2>2 DEF Restoring
    <3>. QED BY <2>1, <3>1, <3>2 DEF UserInv
  <2>3. CASE restorer' = [pc |-> "idle"] /\ UNCHANGED <<primary, stash>>
    BY <2>1, <2>3, RestorerFrame
  <2>. QED BY <1>2, <2>2, <2>3 DEF StashPush
<1>3. CASE Finally
  <2>1. /\ job = "restore" /\ restorer \in Restoring /\ UNCHANGED <<job, primary, stash, work>>
    BY <1>3, RestorerIs DEF Finally
  <2>2. restorer' \in [pc : {"idle"}] \cup Restoring
    BY <1>3, <2>1 DEF Finally, Restoring
  <2>. QED BY <2>1, <2>2, RestorerFrame
<1>4. CASE RestorerDies
  <2>1. /\ job = "restore" /\ restorer' = [pc |-> "idle"] /\ UNCHANGED <<job, primary, stash, work>>
    BY <1>4, RestorerIs DEF RestorerDies
  <2>. QED BY <2>1, RestorerFrame
<1>. QED BY <1>1, <1>2, <1>3, <1>4

\* The steps of workers and of the engine leave the user alone.
LEMMA OthersStep ==
    ASSUME UserInv, Next,
           ~((\E f \in Files : \E v \in Written[f] : UserEdit(f, v)) \/ UserStash),
           ~(\/ \E c \in Commits : \E b \in BOOLEAN : Restore(c, b)
             \/ StashPush \/ Finally \/ RestorerDies),
           ~Checkout, ~StashPop
    PROVE  UserInv'
<1>1. ASSUME NEW w \in Workers, PrimaryMoves(w) PROVE UserInv'
  <2>1. job = "resume" /\ UNCHANGED <<job, stash, work, restorer>>
    BY <1>1 DEF PrimaryMoves, Working, restoreVars
  <2>. QED BY <2>1 DEF UserInv
<1>2. ASSUME NEW w \in Workers,
             \/ Bind(w) \/ StageAll(w) \/ Commit(w)
             \/ CaptureMark(w) \/ CaptureDiff(w) \/ CaptureReset(w)
             \/ Tampered(w) \/ Reclaim(w) \/ DeleteBranch(w)
             \/ \E f \in Files : \E v \in Written[f] \cup {Absent} : Edit(w, f, v)
      PROVE  UserInv'
  <2>1. UNCHANGED <<job, primary, stash, work, restorer>>
    BY <1>2 DEF Bind, StageAll, Commit, CaptureMark, CaptureDiff, CaptureReset, Tampered,
       Reclaim, DeleteBranch, Edit, restoreVars
  <2>. QED BY <2>1, UserFrame
<1>3. CASE PutBound \/ EngineDies \/ Resume \/ Rebind \/ ResetHard \/ Apply
  <2>1. UNCHANGED <<job, primary, stash, work, restorer>>
    BY <1>3 DEF PutBound, EngineDies, Resume, Rebind, ResetHard, Apply, restoreVars
  <2>. QED BY <2>1, UserFrame
<1>. QED BY <1>1, <1>2, <1>3 DEF Next

\* The user's work is kept, and the restorer is where it may be.
LEMMA UserAlways == Spec => []UserInv
<1>1. Init => UserInv
  <2>. SUFFICES ASSUME Init PROVE UserInv
    OBVIOUS
  <2>1. PICK c \in Commits : primary = [head |-> c, files |-> c, unmerged |-> FALSE]
    BY DEF Init
  <2>2. primary \in Main
    <3>1. c \in [Files -> Held]
      BY DEF Commits, Held
    <3>. QED BY <2>1, <3>1 DEF Main
  <2>. QED BY <2>2 DEF Init, UserInv
<1>2. UserInv /\ [Next]_vars => UserInv'
  <2>. SUFFICES ASSUME UserInv, [Next]_vars PROVE UserInv'
    OBVIOUS
  <2>1. CASE UNCHANGED vars
    BY <2>1, UserFrame DEF vars, restoreVars
  <2>2. CASE Next
    BY <2>2, UserStep, CheckoutStep, StashPopStep, RestorerStep, OthersStep
  <2>. QED BY <2>1, <2>2
<1>. QED BY <1>1, <1>2, PTL DEF Spec

\* AutostashKept: whatever restore does between the user's edits, and wherever it
\* is refused, conflicts or is killed, all the user's uncommitted work is in the
\* tree or in the stash.
THEOREM NoWorkIsLost == Spec => []AutostashKept
<1>1. UserInv => AutostashKept
  BY DEF UserInv, Kept, AutostashKept
<1>. QED BY <1>1, UserAlways, PTL

----------------------------------------------------------------------------
(* Resuming the workers                                                     *)

Contents == [Files -> Values \cup Edits \cup {Absent}]
Steps    == {"free", "staged", "marked", "taken"}
Worktree == [dir : BOOLEAN, registered : BOOLEAN, branch : {"chunk", "worker"},
             step : Steps, head : Contents,
             index : [Files -> Values \cup Edits \cup {Absent, Intent}],
             files : Contents]

\* A mark that a capture left in the index is never committed.
Tree == {t \in Worktree : /\ \A f \in Ignored : t.index[f] # Intent
                          /\ t.step = "staged" => t.index \in Contents}
Labels == {"run", "down", "reclaim", "next", "bind", "reset", "apply", "failed"}

\* What capture wrote down of a tree.
RecordOf(r) ==
    /\ r.tree \in Tree /\ r.head = r.tree.head
    /\ r.diff = Decoded(Diff(IntentToAdd(r.tree), r.tree.files))
MapInv(m) == DOMAIN m \subseteq Workers /\ \A w \in DOMAIN m : RecordOf(m[w])

TreesInv == trees \in [Workers -> {NoTree} \cup Tree]

\* A worktree of which capture has not taken the diff yet.
IsMarked(w) == IsTree(w) /\ trees[w].step = "marked"
MarkOf(r, t) ==
    /\ r.tree \in Tree /\ r.head = r.tree.head
    /\ t.files = r.tree.files /\ t.index = IntentToAdd(r.tree)

\* What capture_map has so far, and the one worktree it is at.
SnapsInv ==
    /\ DOMAIN snaps \subseteq Workers
    /\ engine.pc # "run" => snaps = <<>>
    /\ engine.pc = "run" => /\ \A w, x \in Capturing : w = x
                            /\ \A w \in Workers : IsMarked(w) => w \in DOMAIN snaps
    /\ \A w \in DOMAIN snaps : IF IsMarked(w) THEN MarkOf(snaps[w], trees[w])
                               ELSE RecordOf(snaps[w])

\* The engine restores the workers of the checkpoint one by one, each from its
\* recorded HEAD; by then no worktree of the dead engine is left.
EngineInv ==
    /\ engine \in [pc : Labels, todo : SUBSET Workers, at : Workers \cup {Nobody}]
    /\ IF engine.pc = "run" THEN engine.todo = {} ELSE job = "resume"
    /\ engine.todo \subseteq DOMAIN saved
    /\ engine.pc \in {"bind", "reset", "apply"} => engine.at \in engine.todo
    /\ engine.pc \in {"next", "bind", "reset", "apply"} =>
          \A x \in Workers : trees[x].dir => trees[x].step = "free"
    /\ engine.pc \in {"reset", "apply"} => /\ trees[engine.at] \in Tree
                                           /\ trees[engine.at].step = "free"
    /\ engine.pc = "apply" => /\ trees[engine.at].head = saved[engine.at].head
                              /\ trees[engine.at].files = saved[engine.at].head

\* The files of a tree as the text of a diff brings them back.
Reads(t, f) == IF t.files[f] = t.head[f] THEN t.head[f] ELSE Text(t.files[f])

\* A worker that is restored and was not touched since is as it was recorded.
Restored(w) ==
    /\ trees[w] \in Tree /\ trees[w].step # "staged" /\ trees[w].head = saved[w].head
    /\ Recorded(saved[w].tree) =>
          \A f \in Files \ Ignored : trees[w].files[f] = Reads(saved[w].tree, f)

\* Such workers are not in the engine's way again before the next crash.
SameInv ==
    /\ engine.pc \in {"down", "reclaim"} => same = {}
    /\ same \subseteq DOMAIN saved \ engine.todo
    /\ \A w \in same : Restored(w)

ResumeInv ==
    /\ job = "resume" => primary.head \in Contents
    /\ TreesInv /\ SnapsInv /\ MapInv(saved) /\ EngineInv /\ SameInv

\* Text mode changes an edit to an edit.
LEMMA TextIs ==
    ASSUME NEW v \in Values \cup Edits \cup {Absent} PROVE Text(v) \in Values \cup Edits \cup {Absent}
BY WorktreesAssumption DEF Text

\* Applying a recorded diff to the recorded HEAD gives back the recorded files, as
\* text, unless something was staged or deleted: capture's add -N marks the new
\* files, so that the diff creates them.
LEMMA Replayed ==
    ASSUME NEW r, RecordOf(r), Recorded(r.tree), NEW f \in Files \ Ignored
    PROVE  (IF f \in DOMAIN r.diff THEN r.diff[f].new ELSE r.head[f]) = Reads(r.tree, f)
<1>. DEFINE t == r.tree
            ix == IntentToAdd(t)
<1>1. /\ t \in Tree /\ r.head = t.head
      /\ t.index[f] = t.head[f] \/ (t.index[f] = Intent /\ t.head[f] = Absent)
      /\ t.files[f] = Absent => t.head[f] = Absent
  <2>1. t \in Tree /\ r.head = t.head
    BY DEF RecordOf
  <2>2. Recorded(t) /\ f \in Files
    OBVIOUS
  <2>. HIDE DEF t
  <2>. QED BY <2>1, <2>2 DEF Recorded
<1>2. t.files \in Contents /\ t.head \in Contents
  BY <1>1 DEF Tree, Worktree
<1>3. /\ f \in DOMAIN r.diff <=> ix[f] # t.files[f]
      /\ f \in DOMAIN r.diff => r.diff[f].new = Text(t.files[f])
  BY DEF RecordOf, Diff, Decoded
<1>4. ix[f] = IF t.files[f] = Absent THEN Absent
              ELSE IF t.index[f] = Absent THEN Intent ELSE t.index[f]
  BY DEF IntentToAdd
<1>5. t.files[f] # Intent /\ Absent # Intent
  BY <1>2, WorktreesAssumption DEF Contents, Absent, Intent
<1>6. Reads(t, f) = IF t.files[f] = t.head[f] THEN t.head[f] ELSE Text(t.files[f])
  BY DEF Reads
<1>. HIDE DEF t, ix
<1>7. ix[f] # t.files[f] <=> t.files[f] # t.head[f]
  BY <1>1, <1>4, <1>5
<1>. QED BY <1>1, <1>3, <1>6, <1>7 DEF t

\* A step of a worker while the engine runs.
LEMMA WorkerFrame ==
    ASSUME ResumeInv, engine.pc = "run", NEW w \in Workers, NEW t \in Tree,
           trees' = [trees EXCEPT ![w] = t], UNCHANGED <<job, engine, saved, primary>>,
           same' \subseteq same, SnapsInv',
           w \in same' => t.head = trees[w].head /\ t.files = trees[w].files /\ t.step # "staged"
    PROVE  ResumeInv'
<1>1. TreesInv' /\ EngineInv'
  BY DEF ResumeInv, TreesInv, EngineInv
<1>2. ASSUME NEW x \in same' PROVE Restored(x)'
  <2>1. x \in Workers /\ Restored(x)
    BY DEF ResumeInv, SameInv, MapInv
  <2>2. CASE x = w
    BY <2>1, <2>2 DEF ResumeInv, TreesInv, Restored
  <2>3. CASE x # w
    BY <2>1, <2>3 DEF ResumeInv, TreesInv, Restored
  <2>. QED BY <2>2, <2>3
<1>3. SameInv'
  BY <1>2 DEF ResumeInv, SameInv
<1>4. MapInv(saved)'
  BY DEF ResumeInv, MapInv
<1>. QED BY <1>1, <1>3, <1>4 DEF ResumeInv

\* A step of a worker that is not being captured, or whose capture ends.
LEMMA QuietFrame ==
    ASSUME ResumeInv, engine.pc = "run", NEW w \in Workers, NEW t \in Tree,
           trees' = [trees EXCEPT ![w] = t], UNCHANGED <<engine, snaps>>,
           ~IsMarked(w), t.step \in {"free", "staged"}
    PROVE  SnapsInv'
<1>0. trees \in [Workers -> {NoTree} \cup Tree] /\ DOMAIN snaps \subseteq Workers
  BY DEF ResumeInv, TreesInv, SnapsInv
<1>1. trees'[w] = t /\ \A x \in Workers : x # w => trees'[x] = trees[x]
  BY <1>0
<1>2. ASSUME NEW x \in Workers PROVE IsMarked(x)' <=> IsMarked(x)
  BY <1>1 DEF IsMarked, IsTree
<1>3. Capturing' \subseteq Capturing
  BY <1>1 DEF Capturing, IsTree
<1>4. ASSUME NEW x \in Workers, IsMarked(x) PROVE trees'[x] = trees[x]
  BY <1>1, <1>4
<1>5. \A x, y \in Capturing' : x = y
  BY <1>3 DEF ResumeInv, SnapsInv
<1>6. ASSUME NEW x \in DOMAIN snaps
      PROVE  IF IsMarked(x)' THEN MarkOf(snaps[x], trees'[x]) ELSE RecordOf(snaps[x])
  BY <1>0, <1>2, <1>4 DEF ResumeInv, SnapsInv
<1>. QED BY <1>0, <1>2, <1>5, <1>6 DEF ResumeInv, SnapsInv

\* A tree that git knows and that is there.
LEMMA WorkingIs ==
    ASSUME ResumeInv, NEW w \in Workers, IsTree(w)
    PROVE  trees[w] \in Tree /\ trees[w] \in Worktree
<1>1. trees[w] # NoTree
  BY DEF IsTree, NoTree
<1>. QED BY <1>1 DEF ResumeInv, TreesInv, Tree

\* A new worktree is a tree.
LEMMA FreshIs ==
    ASSUME NEW c \in Contents, NEW b \in {"chunk", "worker"}
    PROVE  Fresh(c, b) \in Tree /\ Fresh(c, b).step = "free"
<1>1. Fresh(c, b) \in Worktree
  BY DEF Fresh, Worktree, Contents, Steps
<1>2. \A f \in Ignored : c[f] # Intent
  BY WorktreesAssumption DEF Contents, Absent, Intent
<1>. QED BY <1>1, <1>2 DEF Fresh, Tree

\* The steps of a worker that is not being captured.
LEMMA WorkerStep ==
    ASSUME ResumeInv, NEW w \in Workers,
           \/ Bind(w) \/ StageAll(w) \/ Commit(w) \/ PrimaryMoves(w)
           \/ \E f \in Files : \E v \in Written[f] \cup {Absent} : Edit(w, f, v)
    PROVE  ResumeInv'
<1>0. /\ trees \in [Workers -> {NoTree} \cup Tree] /\ job = "resume" /\ engine.pc = "run"
      /\ primary.head \in Contents
  BY DEF ResumeInv, TreesInv, Bind, StageAll, Commit, PrimaryMoves, Edit, Working, Free
<1>1. CASE Bind(w)
  <2>1. w \notin same
    <3>1. NoTree \notin Tree
      BY DEF NoTree, Tree, Worktree
    <3>. QED BY <1>1, <3>1 DEF Bind, ResumeInv, SameInv, Restored
  <2>. DEFINE t == Fresh(primary.head, "chunk")
  <2>2. t \in Tree /\ t.step = "free"
    BY <1>0, FreshIs
  <2>3. /\ trees' = [trees EXCEPT ![w] = t]
        /\ UNCHANGED <<job, engine, saved, primary, same, snaps>>
    BY <1>1 DEF Bind
  <2>4. ~IsMarked(w)
    BY <1>1 DEF Bind, NoTree, IsMarked, IsTree
  <2>. HIDE DEF t
  <2>5. SnapsInv'
    BY <1>0, <2>2, <2>3, <2>4, QuietFrame
  <2>. QED BY <1>0, <2>1, <2>2, <2>3, <2>5, WorkerFrame
<1>2. ASSUME NEW f \in Files, NEW v \in Written[f] \cup {Absent}, Edit(w, f, v) PROVE ResumeInv'
  <2>. v \in Edits \cup {Absent}
    BY WorktreesAssumption
  <2>. DEFINE t == [trees[w] EXCEPT !.files[f] = v]
  <2>1. trees[w] \in Tree /\ trees[w] \in Worktree /\ trees[w].step = "free"
    BY <1>2, WorkingIs DEF Edit, Free, Working
  <2>2. t \in Worktree /\ t.index = trees[w].index /\ t.step = "free"
    BY <2>1 DEF Worktree, Contents
  <2>3. t \in Tree
    BY <2>1, <2>2 DEF Tree
  <2>4. trees' = [trees EXCEPT ![w] = t]
    BY <1>0, <1>2, <2>1 DEF Edit
  <2>5. UNCHANGED <<job, engine, saved, primary, snaps>> /\ same' = same \ {w}
    BY <1>2 DEF Edit
  <2>. HIDE DEF t
  <2>6. SnapsInv'
    BY <1>0, <2>1, <2>2, <2>3, <2>4, <2>5, QuietFrame DEF IsMarked
  <2>. QED BY <1>0, <2>3, <2>4, <2>5, <2>6, WorkerFrame
<1>3. CASE StageAll(w)
  <2>. DEFINE ix == Added(trees[w])
              t == [trees[w] EXCEPT !.step = "staged", !.index = ix]
  <2>1. trees[w] \in Tree /\ trees[w] \in Worktree /\ trees[w].step = "free"
    BY <1>3, WorkingIs DEF StageAll, Free, Working
  <2>2. ix \in Contents /\ \A f \in Ignored : ix[f] # Intent
    <3>1. \A f \in Files : ix[f] = IF f \in Ignored THEN trees[w].index[f] ELSE trees[w].files[f]
      BY DEF Added
    <3>2. \A f \in Ignored : f \in Files /\ trees[w].index[f] # Intent
      BY <2>1, WorktreesAssumption DEF Tree
    <3>3. \A f \in Files : ix[f] \in Values \cup Edits \cup {Absent}
      BY <2>1, <3>1, <3>2 DEF Worktree, Contents
    <3>4. ix = [f \in Files |-> ix[f]]
      BY DEF Added
    <3>. HIDE DEF ix
    <3>. QED BY <3>1, <3>2, <3>3, <3>4 DEF Contents
  <2>3. trees' = [trees EXCEPT ![w].step = "staged", ![w].index = ix]
    BY <1>3 DEF StageAll
  <2>. HIDE DEF ix
  <2>4. t \in Worktree /\ t.index = ix /\ t.step = "staged"
    BY <2>1, <2>2 DEF Worktree, Contents, Steps
  <2>5. t \in Tree
    BY <2>2, <2>4 DEF Tree
  <2>6. trees' = [trees EXCEPT ![w] = t]
    BY <1>0, <2>1, <2>3
  <2>7. UNCHANGED <<job, engine, saved, primary, snaps>> /\ same' = same \ {w}
    BY <1>3 DEF StageAll
  <2>. HIDE DEF t
  <2>8. SnapsInv'
    BY <1>0, <2>1, <2>4, <2>5, <2>6, <2>7, QuietFrame DEF IsMarked
  <2>. QED BY <1>0, <2>5, <2>6, <2>7, <2>8, WorkerFrame
<1>4. CASE Commit(w)
  <2>1. trees[w] \in Tree /\ trees[w] \in Worktree /\ trees[w].step = "staged"
    BY <1>4, WorkingIs DEF Commit, Working
  <2>2. PICK head \in {trees[w].index, trees[w].head} :
             trees' = [trees EXCEPT ![w].step = "free", ![w].head = head]
    BY <1>4 DEF Commit
  <2>. DEFINE t == [trees[w] EXCEPT !.step = "free", !.head = head]
  <2>3. head \in Contents
    BY <2>1, <2>2 DEF Tree, Worktree
  <2>4. t \in Worktree /\ t.step = "free" /\ t.index = trees[w].index
    BY <2>1, <2>3 DEF Worktree, Steps
  <2>5. t \in Tree
    BY <2>1, <2>4 DEF Tree
  <2>6. trees' = [trees EXCEPT ![w] = t]
    BY <1>0, <2>1, <2>2
  <2>7. w \notin same
    BY <2>1 DEF ResumeInv, SameInv, Restored
  <2>8. UNCHANGED <<job, engine, saved, primary, snaps, same>>
    BY <1>4 DEF Commit
  <2>. HIDE DEF t
  <2>9. SnapsInv'
    BY <1>0, <2>1, <2>4, <2>5, <2>6, <2>8, QuietFrame DEF IsMarked
  <2>. QED BY <1>0, <2>5, <2>6, <2>7, <2>8, <2>9, WorkerFrame
<1>5. CASE PrimaryMoves(w)
  <2>1. trees[w] \in Worktree
    BY <1>5, WorkingIs DEF PrimaryMoves, Working
  <2>2. primary' = [primary EXCEPT !.head = trees[w].head, !.files = trees[w].head]
    BY <1>5 DEF PrimaryMoves
  <2>3. UNCHANGED <<job, trees, owned, engine, snaps, saved, same>>
    BY <1>5 DEF PrimaryMoves, resumeVars
  <2>4. job' = "resume" => primary'.head \in Contents
    <3>1. trees[w].head \in Contents
      BY <2>1 DEF Worktree
    <3>2. CASE primary'.head = trees[w].head
      BY <3>1, <3>2
    <3>3. CASE primary'.head # trees[w].head
      BY <1>0, <2>2, <3>3
    <3>. QED BY <3>2, <3>3
  <2>5. SnapsInv' /\ TreesInv' /\ MapInv(saved)' /\ EngineInv'
    BY <2>3 DEF ResumeInv, SnapsInv, TreesInv, MapInv, EngineInv, IsMarked, IsTree, Capturing
  <2>6. SameInv'
    BY <2>3 DEF ResumeInv, SameInv, Restored
  <2>. QED BY <2>4, <2>5, <2>6 DEF ResumeInv
<1>. QED BY <1>1, <1>2, <1>3, <1>4, <1>5

\* The steps of capture.
LEMMA CaptureStep ==
    ASSUME ResumeInv, NEW w \in Workers, CaptureMark(w) \/ CaptureDiff(w) \/ CaptureReset(w)
    PROVE  ResumeInv'
<1>0. /\ trees \in [Workers -> {NoTree} \cup Tree] /\ job = "resume" /\ engine.pc = "run"
      /\ trees[w] \in Tree /\ trees[w] \in Worktree /\ IsTree(w)
      /\ UNCHANGED <<job, engine, saved, primary, same>> /\ DOMAIN snaps \subseteq Workers
  BY WorkingIs DEF ResumeInv, TreesInv, SnapsInv, CaptureMark, CaptureDiff, CaptureReset, Working, Free
<1>1. CASE CaptureMark(w)
  <2>. DEFINE ix == IntentToAdd(trees[w])
              t == [trees[w] EXCEPT !.step = "marked", !.index = ix]
              r == [head |-> trees[w].head, diff |-> <<>>, tree |-> trees[w]]
  <2>1. /\ trees' = [trees EXCEPT ![w].step = "marked", ![w].index = ix] /\ Capturing = {}
        /\ snaps' = [x \in DOMAIN snaps \cup {w} |-> IF x # w THEN snaps[x] ELSE r]
        /\ w \notin DOMAIN snaps /\ trees[w].step = "free"
    BY <1>1 DEF CaptureMark, Free
  <2>2. /\ ix \in [Files -> Values \cup Edits \cup {Absent, Intent}]
        /\ \A f \in Ignored : ix[f] # Intent
    <3>1. \A f \in Files : trees[w].index[f] \in Values \cup Edits \cup {Absent, Intent}
      BY <1>0 DEF Worktree
    <3>2. \A f \in Ignored : f \in Files /\ trees[w].index[f] # Intent
      BY <1>0, WorktreesAssumption DEF Tree
    <3>. QED BY <3>1, <3>2 DEF IntentToAdd
  <2>3. MarkOf(r, [files |-> trees[w].files, index |-> ix])
    BY <1>0 DEF MarkOf
  <2>. HIDE DEF ix
  <2>4. /\ t \in Worktree /\ t.index = ix /\ t.step = "marked" /\ t.files = trees[w].files
        /\ t.head = trees[w].head /\ t.dir /\ t.registered
    BY <1>0, <2>2 DEF Worktree, Steps, IsTree
  <2>5. t \in Tree
    BY <2>2, <2>4 DEF Tree
  <2>6. trees' = [trees EXCEPT ![w] = t]
    BY <1>0, <2>1
  <2>7. MarkOf(r, t)
    BY <2>3, <2>4 DEF MarkOf
  <2>. HIDE DEF t, r
  <2>8. trees'[w] = t /\ \A x \in Workers : x # w => trees'[x] = trees[x]
    BY <1>0, <2>6
  <2>9. \A x \in Capturing' : x = w
    BY <2>1, <2>8 DEF Capturing, IsTree
  <2>10. ASSUME NEW x \in Workers PROVE x # w => ~IsMarked(x)' /\ ~IsMarked(x)
    BY <2>1, <2>8 DEF Capturing, IsMarked, IsTree
  <2>11. IsMarked(w)'
    BY <2>4, <2>8 DEF IsMarked, IsTree
  <2>12. ASSUME NEW x \in DOMAIN snaps'
         PROVE  IF IsMarked(x)' THEN MarkOf(snaps'[x], trees'[x]) ELSE RecordOf(snaps'[x])
    <3>1. CASE x = w
      BY <2>1, <2>7, <2>8, <2>11, <3>1
    <3>2. CASE x # w
      BY <1>0, <2>1, <2>10, <3>2 DEF ResumeInv, SnapsInv
    <3>. QED BY <3>1, <3>2
  <2>13. SnapsInv'
    BY <1>0, <2>1, <2>9, <2>10, <2>12 DEF SnapsInv
  <2>. QED BY <1>0, <2>4, <2>5, <2>6, <2>13, WorkerFrame
<1>2. CASE CaptureDiff(w)
  <2>1. trees[w].step = "marked" /\ IsMarked(w)
    BY <1>0, <1>2 DEF CaptureDiff, IsMarked
  <2>2. w \in DOMAIN snaps /\ MarkOf(snaps[w], trees[w]) /\ w \in Capturing
    BY <1>0, <2>1 DEF ResumeInv, SnapsInv, IsMarked, Capturing
  <2>3. ASSUME NEW x \in Workers, x # w PROVE ~IsMarked(x) /\ x \notin Capturing
    BY <1>0, <2>2, <2>3 DEF ResumeInv, SnapsInv, IsMarked, Capturing
  <2>4. ASSUME NEW s \in {"free", "taken"}, trees' = [trees EXCEPT ![w].step = s],
               DOMAIN snaps' \subseteq Workers, \A x \in DOMAIN snaps' : RecordOf(snaps'[x])
        PROVE  ResumeInv'
    <3>. DEFINE t == [trees[w] EXCEPT !.step = s]
    <3>1. /\ t \in Worktree /\ t.index = trees[w].index /\ t.step = s
          /\ t.files = trees[w].files /\ t.head = trees[w].head
      BY <1>0, <2>4 DEF Worktree, Steps
    <3>2. t \in Tree
      BY <1>0, <2>4, <3>1 DEF Tree
    <3>3. trees' = [trees EXCEPT ![w] = t]
      BY <1>0, <2>4
    <3>. HIDE DEF t
    <3>4. trees'[w] = t /\ \A x \in Workers : x # w => trees'[x] = trees[x]
      BY <1>0, <3>3
    <3>5. \A x \in Workers : ~IsMarked(x)'
      BY <2>3, <2>4, <3>1, <3>4 DEF IsMarked, IsTree
    <3>6. \A x \in Capturing' : x = w
      BY <2>3, <3>4 DEF Capturing, IsTree
    <3>7. SnapsInv'
      BY <1>0, <2>4, <3>5, <3>6 DEF SnapsInv
    <3>. QED BY <1>0, <2>4, <3>1, <3>2, <3>3, <3>7, WorkerFrame
  <2>. DEFINE d == Diff(trees[w].index, trees[w].files)
              e == Decoded(d)
  <2>5. CASE snaps' = [snaps EXCEPT ![w].diff = e] /\ trees' = [trees EXCEPT ![w].step = "taken"]
    <3>1. e = Decoded(Diff(IntentToAdd(snaps[w].tree), snaps[w].tree.files))
      BY <2>2 DEF MarkOf
    <3>. HIDE DEF e
    <3>2. DOMAIN snaps' = DOMAIN snaps /\ \A x \in DOMAIN snaps : x # w => snaps'[x] = snaps[x]
      BY <2>5
    <3>3. snaps'[w] = [snaps[w] EXCEPT !.diff = e]
      BY <2>2, <2>5
    <3>4. RecordOf(snaps'[w])
      BY <2>2, <3>1, <3>3 DEF MarkOf, RecordOf
    <3>5. ASSUME NEW x \in DOMAIN snaps' PROVE RecordOf(snaps'[x])
      BY <1>0, <2>3, <3>2, <3>4 DEF ResumeInv, SnapsInv
    <3>. QED BY <1>0, <2>4, <2>5, <3>2, <3>5
  <2>6. CASE snaps' = <<>> /\ trees' = [trees EXCEPT ![w].step = "free"]
    BY <2>4, <2>6
  <2>. QED BY <1>2, <2>5, <2>6 DEF CaptureDiff
<1>3. CASE CaptureReset(w)
  <2>. DEFINE h == trees[w].head
              t == [trees[w] EXCEPT !.step = "free", !.index = h]
  <2>1. trees[w].step = "taken" /\ snaps' = snaps
    BY <1>3 DEF CaptureReset
  <2>2. h \in Contents
    BY <1>0 DEF Worktree
  <2>3. h \in [Files -> Values \cup Edits \cup {Absent, Intent}] /\ \A f \in Ignored : h[f] # Intent
    BY <2>2, WorktreesAssumption DEF Contents, Absent, Intent
  <2>4. trees' = [trees EXCEPT ![w].step = "free", ![w].index = h]
    BY <1>3 DEF CaptureReset
  <2>5. /\ t \in Worktree /\ t.step = "free" /\ t.index = h
        /\ t.head = trees[w].head /\ t.files = trees[w].files
    <3>. HIDE DEF h
    <3>. QED BY <1>0, <2>3 DEF Worktree, Steps
  <2>6. t \in Tree
    BY <2>3, <2>5 DEF Tree
  <2>7. trees' = [trees EXCEPT ![w] = t]
    BY <1>0, <2>4
  <2>. HIDE DEF t
  <2>8. SnapsInv'
    BY <1>0, <2>1, <2>5, <2>6, <2>7, QuietFrame DEF IsMarked
  <2>. QED BY <1>0, <2>5, <2>6, <2>7, <2>8, WorkerFrame
<1>. QED BY <1>1, <1>2, <1>3

\* A step that changes the engine's place only.
LEMMA EngineFrame ==
    ASSUME ResumeInv, UNCHANGED <<job, primary, trees, saved, same, snaps>>, EngineInv', SnapsInv',
           engine'.todo \subseteq engine.todo \/ same = {},
           engine'.pc \in {"down", "reclaim"} => same = {}
    PROVE  ResumeInv'
<1>1. MapInv(saved)' /\ TreesInv'
  BY DEF ResumeInv, MapInv, TreesInv
<1>2. \A w \in same : Restored(w)'
  BY DEF ResumeInv, SameInv, Restored
<1>3. SameInv'
  BY <1>2 DEF ResumeInv, SameInv
<1>. QED BY <1>1, <1>3 DEF ResumeInv

\* Without an engine that runs, nothing is captured.
LEMMA NothingCaptured ==
    ASSUME snaps' = <<>>, engine'.pc # "run" PROVE SnapsInv'
BY DEF SnapsInv

\* The checkpoint, the crash and the start of a resume.
LEMMA CrashStep ==
    ASSUME ResumeInv,
           \/ PutBound \/ EngineDies \/ Resume
           \/ \E w \in Workers : Tampered(w) \/ Reclaim(w) \/ DeleteBranch(w)
    PROVE  ResumeInv'
<1>0. /\ trees \in [Workers -> {NoTree} \cup Tree] /\ engine.todo \subseteq DOMAIN saved
      /\ DOMAIN saved \subseteq Workers /\ DOMAIN snaps \subseteq Workers
      /\ engine \in [pc : Labels, todo : SUBSET Workers, at : Workers \cup {Nobody}]
      /\ engine.pc # "run" => snaps = <<>>
  BY DEF ResumeInv, TreesInv, EngineInv, MapInv, SnapsInv
<1>1. CASE PutBound
  <2>1. /\ engine.pc = "run" /\ saved' = snaps /\ snaps' = <<>> /\ same' = {}
        /\ UNCHANGED <<job, primary, trees, engine>> /\ job = "resume" /\ Capturing = {}
    BY <1>1 DEF PutBound
  <2>2. \A w \in Workers : ~IsMarked(w)
    BY <2>1 DEF Capturing, IsMarked
  <2>3. MapInv(saved)'
    BY <1>0, <2>1, <2>2 DEF ResumeInv, SnapsInv, MapInv
  <2>4. SnapsInv'
    BY <2>1, <2>2 DEF SnapsInv, Capturing, IsTree, IsMarked
  <2>5. engine.todo = {}
    BY <2>1 DEF ResumeInv, EngineInv
  <2>6. EngineInv'
    BY <2>1, <2>5 DEF ResumeInv, EngineInv
  <2>7. SameInv' /\ TreesInv'
    BY <2>1 DEF ResumeInv, SameInv, TreesInv
  <2>. QED BY <2>1, <2>3, <2>4, <2>6, <2>7 DEF ResumeInv
<1>2. CASE EngineDies
  <2>1. /\ engine' = [pc |-> "down", todo |-> {}, at |-> Nobody] /\ snaps' = <<>> /\ same' = {}
        /\ UNCHANGED <<job, primary, trees, saved>> /\ job = "resume"
    BY <1>2 DEF EngineDies
  <2>2. EngineInv'
    BY <2>1 DEF EngineInv, Labels
  <2>3. SnapsInv'
    BY <2>1, NothingCaptured
  <2>4. MapInv(saved)' /\ SameInv' /\ TreesInv'
    BY <2>1 DEF ResumeInv, MapInv, SameInv, TreesInv
  <2>. QED BY <2>1, <2>2, <2>3, <2>4 DEF ResumeInv
<1>3. CASE Resume
  <2>1. /\ engine.pc = "down" /\ engine' = [engine EXCEPT !.pc = "reclaim", !.todo = DOMAIN saved]
        /\ UNCHANGED <<job, primary, trees, saved, same, snaps>>
    BY <1>3 DEF Resume
  <2>2. same = {} /\ job = "resume"
    BY <2>1 DEF ResumeInv, SameInv, EngineInv
  <2>3. EngineInv' /\ engine'.pc = "reclaim"
    BY <1>0, <2>1, <2>2 DEF EngineInv, Labels
  <2>4. SnapsInv'
    BY <1>0, <2>1, <2>3, NothingCaptured
  <2>. QED BY <2>1, <2>2, <2>3, <2>4, EngineFrame
<1>4. ASSUME NEW w \in Workers, Tampered(w) \/ Reclaim(w) PROVE ResumeInv'
  <2>1. /\ engine.pc \in {"down", "reclaim"} /\ UNCHANGED <<job, primary, engine, saved, same, snaps>>
    BY <1>4 DEF Tampered, Reclaim
  <2>2. TreesInv'
    <3>1. ASSUME Tampered(w) PROVE TreesInv'
      <4>1. trees[w] \in Tree /\ trees[w] \in Worktree
        BY <3>1, WorkingIs DEF Tampered
      <4>2. ASSUME NEW t \in Tree, trees' = [trees EXCEPT ![w] = t] PROVE TreesInv'
        BY <1>0, <4>2 DEF TreesInv
      <4>3. CASE trees' = [trees EXCEPT ![w].dir = FALSE]
        <5>. DEFINE t == [trees[w] EXCEPT !.dir = FALSE]
        <5>1. t \in Worktree /\ t.index = trees[w].index /\ t.step = trees[w].step
          BY <4>1 DEF Worktree
        <5>2. t \in Tree
          BY <4>1, <5>1 DEF Tree
        <5>3. trees' = [trees EXCEPT ![w] = t]
          BY <1>0, <4>1, <4>3
        <5>. HIDE DEF t
        <5>. QED BY <4>2, <5>2, <5>3
      <4>4. CASE trees' = [trees EXCEPT ![w].registered = FALSE]
        <5>. DEFINE t == [trees[w] EXCEPT !.registered = FALSE]
        <5>1. t \in Worktree /\ t.index = trees[w].index /\ t.step = trees[w].step
          BY <4>1 DEF Worktree
        <5>2. t \in Tree
          BY <4>1, <5>1 DEF Tree
        <5>3. trees' = [trees EXCEPT ![w] = t]
          BY <1>0, <4>1, <4>4
        <5>. HIDE DEF t
        <5>. QED BY <4>2, <5>2, <5>3
      <4>. QED BY <3>1, <4>3, <4>4 DEF Tampered
    <3>2. CASE Reclaim(w)
      BY <1>0, <3>2 DEF Reclaim, TreesInv
    <3>. QED BY <1>4, <3>1, <3>2
  <2>3. same = {}
    BY <2>1 DEF ResumeInv, SameInv
  <2>4. SnapsInv'
    BY <1>0, <2>1, NothingCaptured
  <2>5. MapInv(saved)' /\ SameInv'
    BY <2>1, <2>3 DEF ResumeInv, MapInv, SameInv
  <2>6. EngineInv'
    BY <2>1 DEF ResumeInv, EngineInv
  <2>. QED BY <2>1, <2>2, <2>4, <2>5, <2>6 DEF ResumeInv
<1>5. ASSUME NEW w \in Workers, DeleteBranch(w) PROVE ResumeInv'
  <2>1. /\ engine.pc \in {"reclaim", "next"} /\ w \in engine.todo
        /\ engine.pc = "reclaim" => \A x \in Workers : ~trees[x].dir
        /\ engine' = [engine EXCEPT !.pc = "bind", !.at = w]
        /\ UNCHANGED <<job, primary, trees, saved, same, snaps>>
    BY <1>5 DEF DeleteBranch, Step
  <2>2. /\ engine'.pc = "bind" /\ engine'.at = w /\ engine'.todo = engine.todo
        /\ engine' \in [pc : Labels, todo : SUBSET Workers, at : Workers \cup {Nobody}]
    BY <1>0, <2>1 DEF Labels
  <2>3. EngineInv'
    BY <2>1, <2>2 DEF ResumeInv, EngineInv
  <2>4. SnapsInv'
    BY <1>0, <2>1, <2>2, NothingCaptured
  <2>. QED BY <2>1, <2>2, <2>3, <2>4, EngineFrame
<1>. QED BY <1>1, <1>2, <1>3, <1>4, <1>5

\* A step that changes the tree of the worker the engine is at.
LEMMA AtFrame ==
    ASSUME ResumeInv, engine.pc \in {"bind", "reset", "apply"}, NEW w, w = engine.at,
           NEW t \in Tree, trees' = [trees EXCEPT ![w] = t],
           UNCHANGED <<job, primary, saved, snaps>>, EngineInv', SnapsInv',
           engine'.todo \subseteq engine.todo, engine'.pc \notin {"down", "reclaim"},
           \/ same' = same
           \/ same' = same \cup {w} /\ w \notin engine'.todo /\ Restored(w)'
    PROVE  ResumeInv'
<1>1. /\ w \in engine.todo /\ w \in Workers /\ w \in DOMAIN saved
      /\ trees \in [Workers -> {NoTree} \cup Tree]
  BY DEF ResumeInv, EngineInv, MapInv, TreesInv
<1>2. MapInv(saved)' /\ TreesInv'
  BY <1>1 DEF ResumeInv, MapInv, TreesInv
<1>3. ASSUME NEW x \in same PROVE Restored(x)'
  <2>1. x # w /\ x \in Workers /\ Restored(x)
    BY <1>1 DEF ResumeInv, SameInv, MapInv
  <2>2. trees'[x] = trees[x]
    BY <1>1, <2>1
  <2>. QED BY <2>1, <2>2 DEF Restored
<1>4. SameInv'
  BY <1>1, <1>3 DEF ResumeInv, SameInv
<1>. QED BY <1>2, <1>4 DEF ResumeInv

\* A resume that fails.
LEMMA FailStep ==
    ASSUME ResumeInv, Fail, UNCHANGED <<job, primary, trees, saved, same, snaps>>,
           engine.pc # "run"
    PROVE  ResumeInv'
<1>1. /\ engine'.pc = "failed" /\ engine'.todo = {} /\ job = "resume"
      /\ engine' \in [pc : Labels, todo : SUBSET Workers, at : Workers \cup {Nobody}]
  BY DEF Fail, ResumeInv, EngineInv, Labels
<1>2. EngineInv'
  BY <1>1 DEF EngineInv
<1>3. SnapsInv'
  BY <1>1, NothingCaptured DEF ResumeInv, SnapsInv
<1>. QED BY <1>1, <1>2, <1>3, EngineFrame

\* The engine brings back one worker.
LEMMA ReplayStep == ASSUME ResumeInv, Rebind \/ ResetHard \/ Apply PROVE ResumeInv'
<1>. DEFINE Place == [pc : Labels, todo : SUBSET Workers, at : Workers \cup {Nobody}]
<1>0. /\ engine.pc \in {"bind", "reset", "apply"} /\ engine \in Place
      /\ trees \in [Workers -> {NoTree} \cup Tree] /\ job = "resume" /\ primary.head \in Contents
      /\ UNCHANGED <<job, primary, saved, snaps>> /\ snaps = <<>>
      /\ \A x \in Workers : trees[x].dir => trees[x].step = "free"
  BY DEF ResumeInv, EngineInv, SnapsInv, TreesInv, Rebind, ResetHard, Apply, Step
<1>w. PICK w : w = engine.at
  OBVIOUS
<1>1. /\ w \in Workers /\ w \in engine.todo /\ engine.todo \subseteq DOMAIN saved /\ RecordOf(saved[w])
      /\ w \in DOMAIN saved
  BY <1>0, <1>w DEF ResumeInv, EngineInv, MapInv
<1>f. ASSUME NEW t, t.step = "free", trees' = [trees EXCEPT ![w] = t]
      PROVE  /\ trees'[w] = t /\ \A x \in Workers : trees'[x].dir => trees'[x].step = "free"
             /\ SnapsInv'
  <2>1. trees'[w] = t /\ \A x \in Workers : x # w => trees'[x] = trees[x]
    BY <1>0, <1>1, <1>f
  <2>2. \A x \in Workers : trees'[x].dir => trees'[x].step = "free"
    BY <1>0, <1>f, <2>1
  <2>3. Capturing' = {} /\ \A x \in Workers : ~IsMarked(x)'
    BY <2>2 DEF Capturing, IsMarked, IsTree
  <2>. QED BY <1>0, <2>1, <2>2, <2>3 DEF SnapsInv
<1>2. CASE Rebind
  <2>1. CASE Fail /\ UNCHANGED <<trees, owned>>
    BY <1>0, <1>2, <2>1, FailStep DEF Rebind
  <2>2. CASE /\ trees' = [trees EXCEPT ![w] = Fresh(primary.head, "worker")]
             /\ Step("bind", "reset", w)
    <3>. DEFINE t == Fresh(primary.head, "worker")
    <3>1. t \in Tree /\ t.step = "free"
      BY <1>0, FreshIs
    <3>2. trees' = [trees EXCEPT ![w] = t] /\ same' = same
      BY <1>2, <2>2 DEF Rebind
    <3>. HIDE DEF t
    <3>3. engine'.pc = "reset" /\ engine'.at = w /\ engine'.todo = engine.todo /\ engine' \in Place
      BY <1>0, <1>1, <2>2 DEF Step, Labels
    <3>4. /\ trees'[w] = t /\ SnapsInv'
          /\ \A x \in Workers : trees'[x].dir => trees'[x].step = "free"
      BY <3>1, <3>2, <1>f
    <3>5. EngineInv'
      BY <1>0, <1>1, <3>1, <3>3, <3>4 DEF EngineInv
    <3>. QED BY <1>0, <3>1, <3>2, <3>3, <3>4, <3>5, <1>w, AtFrame
  <2>. QED BY <1>2, <1>w, <2>1, <2>2 DEF Rebind
<1>3. CASE ResetHard
  <2>. DEFINE h == saved[w].head
              t == [trees[w] EXCEPT !.head = h, !.index = h, !.files = h]
  <2>1. /\ trees[w] \in Tree /\ trees[w] \in Worktree /\ trees[w].step = "free"
        /\ engine.pc = "reset"
    BY <1>3, <1>w DEF ResetHard, Step, ResumeInv, EngineInv, Tree
  <2>2. h \in Contents
    BY <1>1 DEF RecordOf, Tree, Worktree
  <2>a. h \in [Files -> Values \cup Edits \cup {Absent, Intent}] /\ \A f \in Ignored : h[f] # Intent
    BY <2>2, WorktreesAssumption DEF Contents, Absent, Intent
  <2>3. trees' = [trees EXCEPT ![w].head = h, ![w].index = h, ![w].files = h] /\ same' = same
    BY <1>3, <1>w DEF ResetHard
  <2>4. engine'.pc = "apply" /\ engine'.at = w /\ engine'.todo = engine.todo /\ engine' \in Place
    BY <1>0, <1>1, <1>3, <1>w DEF ResetHard, Step, Labels
  <2>. HIDE DEF h
  <2>5. t \in Worktree /\ t.head = h /\ t.files = h /\ t.index = h /\ t.step = "free"
    BY <2>1, <2>2, <2>a DEF Worktree
  <2>b. t \in Tree
    BY <2>a, <2>5 DEF Tree
  <2>6. trees' = [trees EXCEPT ![w] = t]
    BY <1>0, <1>1, <2>1, <2>3
  <2>. HIDE DEF t
  <2>7. /\ trees'[w] = t /\ SnapsInv'
        /\ \A x \in Workers : trees'[x].dir => trees'[x].step = "free"
    BY <2>5, <2>6, <1>f
  <2>8. EngineInv'
    BY <1>0, <1>1, <2>4, <2>5, <2>b, <2>7 DEF EngineInv, h
  <2>. QED BY <1>0, <2>3, <2>4, <2>b, <2>6, <2>7, <2>8, <1>w, AtFrame
<1>4. CASE Apply
  <2>. DEFINE d == saved[w].diff
              u == [f \in Files |-> IF f \in DOMAIN d THEN d[f].new ELSE trees[w].files[f]]
              t == [trees[w] EXCEPT !.files = u]
  <2>1. /\ trees[w] \in Tree /\ trees[w].head = saved[w].head /\ trees[w].files = saved[w].head
        /\ engine.pc = "apply" /\ trees[w].step = "free" /\ trees[w] \in Worktree
    BY <1>4, <1>w DEF Apply, ResumeInv, EngineInv, Tree
  <2>2. CASE Fail /\ UNCHANGED <<trees, same>>
    BY <1>0, <2>1, <2>2, FailStep
  <2>3. CASE /\ trees' = [trees EXCEPT ![w].files = u] /\ same' = same \cup {w}
             /\ engine' = [pc |-> IF engine.todo = {w} THEN "run" ELSE "next",
                           todo |-> engine.todo \ {w}, at |-> Nobody]
    <3>1. u \in Contents
      <4>1. /\ saved[w].tree \in Worktree /\ trees[w].files \in Contents
            /\ d = Decoded(Diff(IntentToAdd(saved[w].tree), saved[w].tree.files))
        BY <1>1, <2>1 DEF RecordOf, Tree, Worktree
      <4>2. \A f \in DOMAIN d : f \in Files /\ d[f].new = Text(saved[w].tree.files[f])
        <5>. DEFINE b == IntentToAdd(saved[w].tree)
                    c == saved[w].tree.files
                    e == Diff(b, c)
        <5>1. d = Decoded(e)
          BY <4>1
        <5>. HIDE DEF d, b, c
        <5>2. \A f \in DOMAIN e : f \in Files /\ e[f].new = c[f]
          BY DEF Diff
        <5>. HIDE DEF e
        <5>3. \A f \in DOMAIN d : f \in DOMAIN e /\ d[f].new = Text(e[f].new)
          BY <5>1 DEF Decoded
        <5>. QED BY <5>2, <5>3 DEF c
      <4>3. saved[w].tree.files \in Contents
        BY <4>1 DEF Worktree
      <4>4. \A f \in Files : Text(saved[w].tree.files[f]) \in Values \cup Edits \cup {Absent}
        BY <4>3, TextIs DEF Contents
      <4>. HIDE DEF d
      <4>. QED BY <4>1, <4>2, <4>4 DEF Contents
    <3>2. Recorded(saved[w].tree) => \A f \in Files \ Ignored : u[f] = Reads(saved[w].tree, f)
      <4>1. \A f \in Files : u[f] = IF f \in DOMAIN saved[w].diff THEN saved[w].diff[f].new
                                   ELSE saved[w].head[f]
        BY <2>1
      <4>. QED BY <1>1, <4>1, Replayed
    <3>. HIDE DEF u
    <3>a. /\ t \in Worktree /\ t.head = saved[w].head /\ t.files = u /\ t.step = "free"
          /\ t.index = trees[w].index
      BY <2>1, <3>1 DEF Worktree
    <3>3. t \in Tree
      BY <2>1, <3>a DEF Tree
    <3>4. trees' = [trees EXCEPT ![w] = t]
      BY <1>0, <1>1, <2>1, <2>3
    <3>. HIDE DEF t
    <3>5. /\ trees'[w] = t /\ SnapsInv'
          /\ \A x \in Workers : trees'[x].dir => trees'[x].step = "free"
      BY <3>a, <3>4, <1>f
    <3>6. /\ engine'.pc \in {"run", "next"} /\ engine'.todo = engine.todo \ {w}
          /\ engine' \in Place
          /\ engine'.pc = "run" => engine'.todo = {}
      BY <1>0, <2>3 DEF Labels
    <3>7. EngineInv'
      BY <1>0, <1>1, <3>5, <3>6 DEF EngineInv
    <3>8. Restored(w)'
      BY <1>0, <3>2, <3>3, <3>a, <3>5 DEF Restored, Reads
    <3>9. /\ engine'.todo \subseteq engine.todo /\ w \notin engine'.todo
          /\ engine'.pc \notin {"down", "reclaim"} /\ same' = same \cup {w}
      BY <2>3, <3>6
    <3>10. engine.pc \in {"bind", "reset", "apply"} /\ UNCHANGED <<job, primary, saved, snaps>>
      BY <1>0
    <3>. QED BY <1>w, <3>3, <3>4, <3>5, <3>7, <3>8, <3>9, <3>10, AtFrame
  <2>. QED BY <1>4, <1>w, <2>2, <2>3 DEF Apply
<1>. QED BY <1>2, <1>3, <1>4

\* A resume brings every worker back, and nothing disturbs it until it is touched.
LEMMA ResumeAlways == Spec => []ResumeInv
<1>1. Init => ResumeInv
  <2>. SUFFICES ASSUME Init PROVE ResumeInv
    OBVIOUS
  <2>1. primary.head \in Contents
    BY DEF Init, Commits, Contents
  <2>2. TreesInv /\ MapInv(saved)
    BY DEF Init, TreesInv, MapInv
  <2>a. SnapsInv
    BY DEF Init, SnapsInv, Capturing, IsMarked, IsTree, NoTree
  <2>3. EngineInv /\ SameInv
    BY DEF Init, EngineInv, SameInv, Labels
  <2>. QED BY <2>1, <2>2, <2>a, <2>3 DEF ResumeInv
<1>2. UserInv /\ ResumeInv /\ [Next]_vars => ResumeInv'
  <2>. SUFFICES ASSUME UserInv, ResumeInv, [Next]_vars PROVE ResumeInv'
    OBVIOUS
  <2>0. ASSUME UNCHANGED <<trees, engine, snaps, saved, same, job>>,
               job = "resume" => primary' = primary
        PROVE  ResumeInv'
    <3>1. TreesInv' /\ SnapsInv' /\ MapInv(saved)' /\ EngineInv'
      BY <2>0 DEF ResumeInv, TreesInv, SnapsInv, MapInv, EngineInv, Capturing, IsMarked, IsTree
    <3>2. SameInv'
      BY <2>0 DEF ResumeInv, SameInv, Restored
    <3>. QED BY <2>0, <3>1, <3>2 DEF ResumeInv
  <2>1. CASE UNCHANGED vars
    BY <2>0, <2>1 DEF vars, resumeVars
  <2>2. ASSUME NEW w \in Workers,
               \/ Bind(w) \/ StageAll(w) \/ Commit(w) \/ PrimaryMoves(w)
               \/ CaptureMark(w) \/ CaptureDiff(w) \/ CaptureReset(w)
               \/ \E f \in Files : \E v \in Written[f] \cup {Absent} : Edit(w, f, v)
        PROVE  ResumeInv'
    BY <2>2, WorkerStep, CaptureStep
  <2>3. CASE \/ PutBound \/ EngineDies \/ Resume
             \/ \E w \in Workers : Tampered(w) \/ Reclaim(w) \/ DeleteBranch(w)
    BY <2>3, CrashStep
  <2>4. CASE Rebind \/ ResetHard \/ Apply
    BY <2>4, ReplayStep
  <2>5. CASE \/ \E f \in Files : \E v \in Written[f] : UserEdit(f, v)
             \/ UserStash
             \/ \E c \in Commits : \E b \in BOOLEAN : Restore(c, b)
    <3>1. UNCHANGED <<trees, engine, snaps, saved, same, job>> /\ job = "restore"
      BY <2>5 DEF UserEdit, UserStash, Restore, resumeVars
    <3>. QED BY <2>0, <3>1
  <2>6. CASE StashPush \/ Checkout \/ Finally \/ StashPop \/ RestorerDies
    <3>1. UNCHANGED <<trees, engine, snaps, saved, same, job>> /\ job = "restore"
      BY <2>6, RestorerIs DEF StashPush, Checkout, Finally, StashPop, RestorerDies, resumeVars
    <3>. QED BY <2>0, <3>1
  <2>. QED BY <2>1, <2>2, <2>3, <2>4, <2>5, <2>6 DEF Next
<1>. QED BY <1>1, <1>2, UserAlways, PTL DEF Spec

\* RestoredAsCaptured: whatever was edited, committed, merged, deleted, killed or
\* half restored in between, a worktree that resume brought back has the HEAD that
\* capture recorded, and its files as the text of the recorded diff.
THEOREM ResumeRestores == Spec => []RestoredAsCaptured
<1>1. ResumeInv => RestoredAsCaptured
  <2>. SUFFICES ASSUME ResumeInv, NEW w \in same
                PROVE  LET t == saved[w].tree IN
                       /\ trees[w].head = t.head
                       /\ Recorded(t) => \A f \in Files \ Ignored : trees[w].files[f] = Reads(t, f)
    BY DEF RestoredAsCaptured, Reads
  <2>1. Restored(w) /\ RecordOf(saved[w])
    BY DEF ResumeInv, SameInv, MapInv
  <2>. QED BY <2>1 DEF Restored, RecordOf
<1>. QED BY <1>1, ResumeAlways, PTL
=============================================================================
