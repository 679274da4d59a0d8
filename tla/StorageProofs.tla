--------------------------- MODULE StorageProofs ---------------------------
(* Theorems about the checkpoint store, for any number of processes,        *)
(* sessions, writes and damaged rows, and for every retention.              *)
EXTENDS Storage, FiniteSetTheorems, SequenceTheorems, TLAPS

----------------------------------------------------------------------------
(* The newest row of a set exists                                           *)

\* A non-empty set of naturals has a least element.
LEMMA LeastExists ==
    ASSUME NEW T \in SUBSET Nat, T # {} PROVE \E t \in T : \A y \in T : t <= y
<1>. DEFINE R == {ss \in Nat \X Nat : ss[1] < ss[2]}
<1>1. IsWellFoundedOn(R, Nat)
  BY NatLessThanWellFounded DEF OpToRel
<1>2. PICK t \in T : \A y \in T : ~ (<<y, t>> \in R)
  <2>. HIDE DEF R
  <2>. QED BY <1>1, WFMin
<1>3. ASSUME NEW y \in T PROVE t <= y
  <2>1. <<y, t>> \in Nat \X Nat /\ <<y, t>>[1] = y /\ <<y, t>>[2] = t
    OBVIOUS
  <2>2. ~(y < t)
    BY <1>2, <2>1
  <2>. QED BY <2>2
<1>. QED BY <1>3

\* Where the text of an id comes: that of the seal is the last.
LEMMA TextIs ==
    ASSUME NEW i \in Ids PROVE Text(i) \in 0..110 /\ (Text(i) = 110 <=> i = SealId)
<1>1. i \in Nat /\ i <= 99
  BY StorageAssumption DEF Ids, SealId
<1>2. CASE i = SealId
  BY <1>2 DEF Text
<1>3. CASE i # SealId /\ i < 10
  BY <1>1, <1>3 DEF Text
<1>4. CASE i # SealId /\ i >= 10
  <2>1. i \div 10 \in 0..9 /\ i % 10 \in 0..9
    BY <1>1
  <2>2. Text(i) = 11 * (i \div 10) + (i % 10) + 1
    BY <1>1, <1>4 DEF Text
  <2>. QED BY <1>4, <2>1, <2>2
<1>. QED BY <1>1, <1>2, <1>3, <1>4

\* What NewestOf chooses: ids are bounded, so a non-empty set of rows has a
\* row that none exceeds.
LEMMA NewestExists ==
    ASSUME NEW R, R # {}, \A r \in R : r.id \in Ids
    PROVE  NewestOf(R) \in R /\ \A x \in R : Text(x.id) <= Text(NewestOf(R).id)
<1>. DEFINE T == {110 - Text(r.id) : r \in R}
<1>0. \A r \in R : Text(r.id) \in 0..110
  BY TextIs
<1>1. T \in SUBSET Nat /\ T # {}
  BY <1>0
<1>2. PICK t \in T : \A y \in T : t <= y
  <2>. HIDE DEF T
  <2>. QED BY <1>1, LeastExists
<1>3. PICK m \in R : t = 110 - Text(m.id)
  OBVIOUS
<1>4. ASSUME NEW x \in R PROVE Text(x.id) <= Text(m.id)
  <2>1. 110 - Text(x.id) \in T
    OBVIOUS
  <2>2. 110 - Text(m.id) <= 110 - Text(x.id)
    BY <2>1, <1>2, <1>3
  <2>. QED BY <1>0, <2>2
<1>. QED BY <1>4 DEF NewestOf

----------------------------------------------------------------------------
(* The invariant                                                            *)

Kinds == {"none", "put", "seal", "read", "sweep", "detect", "prune"}
Labels == {"idle", "dead", "open", "lock", "owner", "held", "stale", "steal", "wait",
           "unlock", "unlink", "reclaim", "reclaimUnlink", "saver", "migrate", "count",
           "insert", "fetch", "copy", "delete", "fallback", "serve", "plan", "prune"}
Rows == [scope : Scopes, id : Ids, seq : 1..MaxWrites, ok : BOOLEAN]
Ops  == [kind : Kinds, scope : Scopes \cup {None}, id : Ids, sealed : SUBSET Scopes]

TypeInv ==
    /\ pc \in [Procs -> Labels]
    /\ op \in [Procs -> Ops]
    /\ seen \in [Procs -> SUBSET Rows] /\ left \in [Procs -> SUBSET Ids]
    /\ DOMAIN todo = Procs
    /\ rows \subseteq Rows /\ writes \in Nat

\* Where a process can be in the operation it performs.
Where(p) ==
    /\ op[p].kind = "none" => pc[p] \in {"idle", "dead", "unlock", "unlink", "reclaim",
                                         "reclaimUnlink"}
    /\ op[p].kind = "seal" => pc[p] \in {"open", "lock", "owner", "held", "stale",
                                         "steal", "wait", "migrate", "insert"}
    /\ op[p].kind = "put" => pc[p] \in {"saver", "migrate", "count", "insert"}
    /\ op[p].kind = "read" => pc[p] \in {"fetch", "copy", "delete", "fallback", "serve"}
    /\ op[p].kind = "sweep" => pc[p] \in {"fetch", "copy", "delete"}
    /\ op[p].kind = "detect" => pc[p] \in {"saver", "migrate", "fetch", "copy", "delete",
                                           "fallback", "serve", "plan"}
    /\ op[p].kind = "prune" => pc[p] = "prune"
    /\ op[p].kind # "none" => op[p].scope \in Scopes

\* How far a migration has come: what is not on the list has been done.
Migrating(p) ==
    \/ todo[p] = <<"table", "0001", "head", "diff", "0002">>
    \/ todo[p] = <<"0001", "head", "diff", "0002">> /\ "table" \in schema
    \/ todo[p] = <<"head", "diff", "0002">> /\ "table" \in schema
    \/ todo[p] = <<"diff", "0002">> /\ {"table", "head"} \subseteq schema
    \/ todo[p] = <<"0002">> /\ Columns \subseteq schema
    \/ todo[p] = <<"table", "0001">> /\ {"head", "diff"} \subseteq schema
    \/ todo[p] = <<"0001">> /\ Columns \subseteq schema

Opened == {"count", "insert", "fetch", "copy", "delete", "fallback", "serve"}

SchemaInv(p) ==
    /\ pc[p] = "migrate" => Migrating(p)
    /\ pc[p] \in Opened => Columns \subseteq schema

\* What a process has fetched: rows of its scope, one per id, of states that
\* were written; a row of today with the same state has the same key.
SeenInv(p) ==
    /\ \A r \in seen[p] : /\ r.scope = op[p].scope /\ r.seq <= writes
                          /\ ~r.ok => r.seq \in rotted
    /\ \A r, x \in seen[p] : r.id = x.id => r = x
    /\ \A r \in seen[p], x \in rows : r.seq = x.seq => SameKey(r, x)

\* A row that is still there, and no stale quarantine has touched its id.
Undisturbed(m) == <<m.scope, m.id>> \notin raced /\ \E x \in rows : x.seq = m.seq

\* What it still has to do with them.
WorkInv(p) ==
    /\ pc[p] \notin {"copy", "delete", "fallback", "serve", "plan"} => seen[p] = {}
    /\ pc[p] \in {"copy", "delete"} => left[p] # {} /\ left[p] \subseteq IdsOf(Corrupt(seen[p]))
    /\ op[p].kind = "sweep" => \A r \in Corrupt(seen[p]) :
          r.id \in left[p] \/ \A x \in rows : x.seq # r.seq
    /\ pc[p] = "delete" /\ Undisturbed(Moving(p)) =>
          \E q \in quarantine : q.seq = Moving(p).seq
    /\ pc[p] = "serve" => \A r \in Corrupt(seen[p]) : r.id # op[p].id
    /\ op[p].kind = "detect" => op[p].sealed = {}

ProcInv(p) == Where(p) /\ SchemaInv(p) /\ SeenInv(p) /\ WorkInv(p)

\* The tables: the primary key, one row per state, damage is on record, evidence
\* has the key of its row; a ledger row comes after its statements; and the
\* bound on writes.
TableInv ==
    /\ \A r, x \in rows : r.seq = x.seq \/ SameKey(r, x) => r = x
    /\ \A r \in rows : r.seq <= writes /\ (~r.ok => r.seq \in rotted)
    /\ EvidenceIsCorrupt
    /\ \A q \in quarantine : /\ q.seq \in Nat /\ q.seq <= writes
                              /\ \A x \in rows : q.seq = x.seq => SameKey(q, x)
    /\ "0001" \in schema => "table" \in schema
    /\ "0002" \in schema => {"head", "diff"} \subseteq schema
    /\ Written <= MaxWrites

StorageInv == TypeInv /\ TableInv /\ \A p \in Procs : ProcInv(p)

----------------------------------------------------------------------------
(* Frames: what a step of one process leaves of the invariant of another    *)

\* How a step may change the tables: statements of the schema, states and
\* damage stay; a row is an earlier one or holds a new state; evidence of a row
\* that is in the table stays, unless a stale quarantine touches the id.
Evolves ==
    /\ schema \subseteq schema' /\ writes <= writes' /\ rotted \subseteq rotted'
    /\ raced \subseteq raced'
    /\ \A x \in rows' : x.seq > writes \/ \E r \in rows : r.seq = x.seq /\ SameKey(r, x)
    /\ \A q \in quarantine :
          \/ \E y \in quarantine' : y.seq = q.seq
          \/ \A x \in rows' : x.seq = q.seq => <<x.scope, x.id>> \in raced'

Same(q) ==
    /\ pc'[q] = pc[q] /\ op'[q] = op[q] /\ todo'[q] = todo[q]
    /\ seen'[q] = seen[q] /\ left'[q] = left[q]

Others(p) == \A q \in Procs \ {p} : Same(q)

\* The row a process moves aside is a corrupt one it has fetched.
LEMMA MovingIn ==
    ASSUME TypeInv, NEW p \in Procs, WorkInv(p), pc[p] \in {"copy", "delete"}
    PROVE  Moving(p) \in seen[p] /\ Moving(p).id \in left[p]
<1>. DEFINE R == {r \in seen[p] : r.id \in left[p]}
<1>1. left[p] # {} /\ left[p] \subseteq IdsOf(Corrupt(seen[p]))
  BY DEF WorkInv
<1>2. R # {} /\ \A r \in R : r.id \in Ids
  BY <1>1 DEF IdsOf, Corrupt, TypeInv, Rows
<1>3. NewestOf(R) \in R
  <2>. HIDE DEF R
  <2>. QED BY <1>2, NewestExists
<1>. QED BY <1>3 DEF Moving

\* A process that does not move keeps its invariant, however the tables evolve.
LEMMA FrameInv ==
    ASSUME TypeInv, TypeInv', NEW q \in Procs, ProcInv(q), Evolves, Same(q)
    PROVE  ProcInv(q)'
<1>1. Where(q)'
  BY DEF ProcInv, Where, Same
<1>2. SchemaInv(q)'
  BY DEF ProcInv, SchemaInv, Migrating, Same, Evolves
<1>3. SeenInv(q)'
  <2>1. \A r \in seen[q] : r.seq \in Nat
    BY StorageAssumption DEF TypeInv, Rows
  <2>2. \A r \in seen'[q] : /\ r.scope = op'[q].scope /\ r.seq <= writes'
                            /\ ~r.ok => r.seq \in rotted'
    BY <2>1 DEF ProcInv, SeenInv, Same, Evolves, TypeInv
  <2>3. ASSUME NEW r \in seen[q], NEW x \in rows', r.seq = x.seq PROVE SameKey(r, x)
    <3>1. PICK y \in rows : y.seq = x.seq /\ SameKey(y, x)
      BY <2>1, <2>3 DEF ProcInv, SeenInv, Evolves, TypeInv
    <3>2. SameKey(r, y)
      BY <2>3, <3>1 DEF ProcInv, SeenInv
    <3>. QED BY <3>1, <3>2 DEF SameKey
  <2>. QED BY <2>2, <2>3 DEF ProcInv, SeenInv, Same
<1>4. WorkInv(q)'
  <2>1. Moving(q)' = Moving(q) /\ Corrupt(seen[q])' = Corrupt(seen[q])
    BY DEF Moving, Corrupt, Same
  <2>2. ASSUME NEW r \in seen[q], \A x \in rows : x.seq # r.seq, NEW x \in rows'
        PROVE  x.seq # r.seq
    <3>1. r.seq \in Nat /\ r.seq <= writes
      BY StorageAssumption DEF TypeInv, Rows, ProcInv, SeenInv
    <3>. QED BY <2>2, <3>1 DEF Evolves, TypeInv
  <2>3. op'[q].kind = "sweep" => \A r \in Corrupt(seen[q]) :
           r.id \in left'[q] \/ \A x \in rows' : x.seq # r.seq
    BY <2>2 DEF ProcInv, WorkInv, Same, Corrupt
  <2>4. pc'[q] = "delete" /\ Undisturbed(Moving(q))' => \E y \in quarantine' : y.seq = Moving(q).seq
    <3>. DEFINE m == Moving(q)
    <3>. SUFFICES ASSUME pc[q] = "delete", <<m.scope, m.id>> \notin raced',
                         NEW x \in rows', x.seq = m.seq
                  PROVE  \E y \in quarantine' : y.seq = m.seq
      BY <2>1 DEF Same, Undisturbed
    <3>1. m \in seen[q] /\ m.seq \in Nat /\ m.seq <= writes
      BY MovingIn, StorageAssumption DEF TypeInv, Rows, ProcInv, SeenInv
    <3>. HIDE DEF m
    <3>2. SameKey(m, x) /\ seen'[q] = seen[q]
      BY <1>3, <3>1 DEF SeenInv, Same
    <3>3. \E y \in rows : y.seq = m.seq
      BY <3>1 DEF Evolves, TypeInv
    <3>4. PICK z \in quarantine : z.seq = m.seq
      BY <3>3 DEF ProcInv, WorkInv, Undisturbed, Evolves, m
    <3>. QED BY <3>2, <3>4 DEF Evolves, SameKey
  <2>. QED BY <2>1, <2>3, <2>4 DEF ProcInv, WorkInv, Same
<1>. QED BY <1>1, <1>2, <1>3, <1>4 DEF ProcInv

\* So a step of p preserves the invariant if it does so for p and the tables.
LEMMA StepInv ==
    ASSUME StorageInv, NEW p \in Procs, Others(p), Evolves, TypeInv', TableInv', ProcInv(p)'
    PROVE  StorageInv'
BY FrameInv DEF StorageInv, Others

\* A process that has returned to its caller has nothing left to keep.
LEMMA ForgottenInv ==
    ASSUME TypeInv, NEW p \in Procs, Forget(p),
           pc'[p] \in {"idle", "dead", "unlock", "reclaim"}
    PROVE  ProcInv(p)' /\ op'[p].kind = "none"
<1>1. op'[p] = NoOp /\ seen'[p] = {}
  BY DEF Forget, TypeInv
<1>2. op'[p].kind = "none"
  BY <1>1 DEF NoOp, Op
<1>. QED BY <1>1, <1>2 DEF ProcInv, Where, SchemaInv, Opened, SeenInv, WorkInv, Corrupt

\* Processes with a write under way.
Writers == {q \in Procs : op[q].kind \in {"put", "seal"}}

\* A step that finishes a write, or starts one that is still allowed, keeps the
\* bound on writes.
LEMMA WrittenBound ==
    ASSUME StorageInv, NEW p \in Procs, Others(p), writes' \in Nat,
           \/ writes' = writes /\ (p \in Writers' => p \in Writers \/ MayWrite)
           \/ writes' = writes + 1 /\ p \in Writers /\ p \notin Writers'
    PROVE  Written' <= MaxWrites
<1>0. MaxWrites \in Nat /\ writes \in Nat /\ Written <= MaxWrites
  BY StorageAssumption DEF StorageInv, TypeInv, TableInv
<1>1. IsFiniteSet(Writers) /\ Cardinality(Writers) \in Nat
  BY LockAssumption, FS_Subset, FS_CardinalityType DEF Writers
<1>2. Written = writes + Cardinality(Writers) /\ Written' = writes' + Cardinality(Writers')
  BY DEF Written, Writers
<1>3. Writers' \ {p} = Writers \ {p}
  BY DEF Writers, Others, Same
<1>4. CASE p \in Writers' /\ p \in Writers
  <2>1. Writers' = Writers
    BY <1>3, <1>4
  <2>. QED BY <1>0, <1>2, <1>4, <2>1
<1>5. CASE p \in Writers' /\ p \notin Writers
  <2>1. Writers' = Writers \cup {p}
    BY <1>3, <1>5
  <2>2. Cardinality(Writers \cup {p}) = Cardinality(Writers) + 1
    BY <1>1, <1>5, FS_AddElement
  <2>3. Written < MaxWrites
    BY <1>5 DEF MayWrite
  <2>. QED BY <1>0, <1>1, <1>2, <1>5, <2>1, <2>2, <2>3
<1>6. CASE p \notin Writers' /\ p \in Writers
  <2>1. Writers' = Writers \ {p}
    BY <1>3, <1>6
  <2>2. Cardinality(Writers \ {p}) = Cardinality(Writers) - 1
    BY <1>1, <1>6, FS_RemoveElement
  <2>. QED BY <1>0, <1>1, <1>2, <2>1, <2>2
<1>7. CASE p \notin Writers' /\ p \notin Writers
  <2>1. Writers' = Writers
    BY <1>3, <1>7
  <2>. QED BY <1>0, <1>2, <1>7, <2>1
<1>. QED BY <1>4, <1>5, <1>6, <1>7

\* A step that writes no table: only p's own invariant is at stake.
LEMMA QuietInv ==
    ASSUME StorageInv, NEW p \in Procs, Others(p), TypeInv', ProcInv(p)',
           UNCHANGED <<schema, tableVars, writes, rotted, raced>>,
           p \in Writers' => p \in Writers \/ MayWrite
    PROVE  StorageInv'
<1>1. Written' <= MaxWrites
  BY WrittenBound DEF StorageInv, TypeInv
<1>2. Evolves
  BY DEF Evolves, tableVars, SameKey, StorageInv, TypeInv
<1>3. TableInv'
  BY <1>1 DEF StorageInv, TableInv, EvidenceIsCorrupt, tableVars
<1>. QED BY <1>2, <1>3, StepInv

\* An operation that ends, however it does, without a last write.
LEMMA QuitInv ==
    ASSUME StorageInv, NEW p \in Procs, Forget(p), NEW l, Goto(p, l),
           l \in {"idle", "dead", "unlock", "reclaim"},
           UNCHANGED <<schema, tableVars, writes, rotted, raced>>
    PROVE  StorageInv'
<1>1. TypeInv'
  BY StorageAssumption DEF StorageInv, TypeInv, Forget, Goto, NoOp, Op, Ops, Kinds, Ids,
                           SealId, Labels, tableVars
<1>2. pc'[p] = l
  BY DEF StorageInv, TypeInv, Goto
<1>3. ProcInv(p)' /\ op'[p].kind = "none"
  BY <1>2, ForgottenInv DEF StorageInv
<1>4. Others(p)
  BY DEF Others, Same, Forget, Goto, StorageInv, TypeInv
<1>. QED BY <1>1, <1>3, <1>4, QuietInv DEF Writers
----------------------------------------------------------------------------
(* The lock, crashes and the beginnings of operations                       *)

\* The steps of acquire, release and reclaim stay within their operation.
LEMMA LockStepInv == ASSUME StorageInv, NEW p \in Procs, LockStep(p) PROVE StorageInv'
<1>1. UNCHANGED <<schema, tableVars, writes, rotted, raced>>
  BY DEF LockStep
<1>2. CASE LockTimeout(p) /\ Forget(p)
  BY <1>1, <1>2, QuitInv DEF LockTimeout
<1>3. CASE ~(LockTimeout(p) /\ Forget(p))
  <2>. DEFINE Acquiring == {"open", "lock", "owner", "held", "stale", "steal", "wait"}
              Releasing == {"unlock", "unlink", "reclaim", "reclaimUnlink", "idle"}
  <2>1. /\ UNCHANGED localVars
        /\ \E l \in Labels :
              /\ Goto(p, l)
              /\ \/ pc[p] \in Acquiring /\ l \in Acquiring
                 \/ pc[p] \in Releasing \ {"idle"} /\ l \in Releasing
    BY <1>3 DEF LockStep, Open, TryLock, LockBusy, WriteOwner, ReadOwner, UnlinkStale,
                Retry, Unlock, Unlink, ReclaimLock, ReclaimUnlink, Labels, Goto
  <2>2. PICK l \in Labels :
              /\ Goto(p, l)
              /\ \/ pc[p] \in Acquiring /\ l \in Acquiring
                 \/ pc[p] \in Releasing \ {"idle"} /\ l \in Releasing
    BY <2>1
  <2>3. UNCHANGED <<op, todo, seen, left>>
    BY <2>1 DEF localVars
  <2>4. pc' = [pc EXCEPT ![p] = l] /\ pc'[p] = l
    BY <2>2 DEF Goto, StorageInv, TypeInv
  <2>5. TypeInv'
    BY <1>1, <2>3, <2>4 DEF StorageInv, TypeInv, tableVars
  <2>6. Others(p)
    BY <2>3, <2>4 DEF Others, Same, StorageInv, TypeInv
  <2>7. Where(p)'
    BY <2>2, <2>3, <2>4 DEF StorageInv, ProcInv, Where, TypeInv, Ops, Kinds
  <2>8. seen[p] = {} /\ seen'[p] = {}
    BY <2>2, <2>3 DEF StorageInv, ProcInv, WorkInv
  <2>9. ProcInv(p)'
    BY <2>2, <2>3, <2>4, <2>7, <2>8 DEF StorageInv, ProcInv, SchemaInv, Opened, SeenInv,
                                        WorkInv, Corrupt
  <2>. QED BY <1>1, <2>3, <2>5, <2>6, <2>9, QuietInv DEF Writers
<1>. QED BY <1>2, <1>3

\* A process may die anywhere.
LEMMA CrashInv == ASSUME StorageInv, NEW p \in Procs, Crash(p) PROVE StorageInv'
BY QuitInv DEF Crash, Die

\* An operation begins in an idle process.
LEMMA BeginInv ==
    ASSUME StorageInv, NEW p \in Procs, NEW l, NEW o \in Ops, Begin(p, l, o),
           UNCHANGED writes, o.scope \in Scopes,
           \/ o.kind = "seal" /\ l = "open" /\ MayWrite
           \/ o.kind = "put" /\ l = "saver" /\ MayWrite
           \/ o.kind \in {"read", "sweep"} /\ l = "fetch" /\ Columns \subseteq schema
           \/ o.kind = "detect" /\ l = "saver" /\ o.sealed = {}
           \/ o.kind = "prune" /\ l = "prune"
    PROVE  StorageInv'
<1>1. /\ op' = [op EXCEPT ![p] = o] /\ pc' = [pc EXCEPT ![p] = l] /\ pc[p] = "idle"
      /\ UNCHANGED <<schema, tableVars, todo, seen, left, rotted, raced>>
  BY DEF Begin, Goto, Ready
<1>2. TypeInv'
  BY <1>1 DEF StorageInv, TypeInv, tableVars, Labels
<1>3. Others(p)
  BY <1>1 DEF Others, Same, StorageInv, TypeInv
<1>4. op'[p] = o /\ pc'[p] = l
  BY <1>1 DEF StorageInv, TypeInv
<1>5. seen'[p] = {}
  BY <1>1 DEF StorageInv, ProcInv, WorkInv
<1>6. Where(p)' /\ SchemaInv(p)' /\ SeenInv(p)'
  BY <1>1, <1>4, <1>5 DEF Where, SchemaInv, Opened, SeenInv
<1>7. WorkInv(p)'
  BY <1>4, <1>5 DEF WorkInv, Corrupt
<1>. QED BY <1>1, <1>2, <1>3, <1>4, <1>6, <1>7, QuietInv DEF ProcInv, Writers

\* If the newest row of the store is no seal, the store holds no seal.
LEMMA NewestIsNoSeal ==
    ASSUME TypeInv, NEW r \in Newest, ~IsSeal(r)
    PROVE  Sealed = {}
<1>1. \A x \in rows : Text(x.id) \in 0..110 /\ (Text(x.id) = 110 <=> x.id = SealId)
  BY TextIs DEF TypeInv, Rows
<1>2. r \in rows /\ \A x \in rows : Text(x.id) <= Text(r.id)
  BY DEF Newest
<1>3. \A x \in rows : x.id # SealId
  BY <1>1, <1>2 DEF IsSeal
<1>. QED BY <1>3 DEF Sealed, IsSeal

\* Every operation begins well.
LEMMA BeginningsInv ==
    ASSUME StorageInv, NEW p \in Procs,
           \/ Shutdown(p) \/ VerifiedRead(p) \/ Detect(p)
           \/ \E s \in Scopes : Put(p, s) \/ QuarantineCorrupt(p, s) \/ PruneCheck(p, s)
    PROVE  StorageInv'
<1>. USE DEF Op, Ops, Kinds
<1>0. 0 \in Ids /\ SealId \in Ids
  BY StorageAssumption DEF Ids, SealId
<1>1. CASE Shutdown(p)
  <2>1. Session[p] \in Scopes
    BY <1>1, StorageAssumption DEF Shutdown
  <2>2. CASE MayWrite /\ Begin(p, "open", Op("seal", Session[p], SealId, {}))
    BY <1>0, <1>1, <2>1, <2>2, BeginInv DEF Shutdown
  <2>3. CASE UNCHANGED <<lockVars, schema, tableVars, localVars, rotted, raced>>
    <3>1. UNCHANGED <<pc, op, todo, seen, left, schema, tableVars, writes, rotted, raced>>
      BY <1>1, <2>3 DEF Shutdown, lockVars, localVars
    <3>2. TypeInv' /\ Others(p) /\ Same(p)
      BY <3>1 DEF StorageInv, TypeInv, tableVars, Others, Same
    <3>3. Evolves
      BY <3>1 DEF Evolves, tableVars, SameKey, StorageInv, TypeInv
    <3>4. ProcInv(p)'
      BY <3>2, <3>3, FrameInv DEF StorageInv
    <3>. QED BY <3>1, <3>2, <3>4, QuietInv DEF Writers
  <2>. QED BY <1>1, <2>2, <2>3 DEF Shutdown
<1>2. CASE VerifiedRead(p)
  <2>1. PICK r \in rows : Begin(p, "fetch", Op("read", r.scope, r.id, {}))
    BY <1>2 DEF VerifiedRead
  <2>2. r.scope \in Scopes /\ r.id \in Ids
    BY DEF StorageInv, TypeInv, Rows
  <2>. QED BY <1>2, <2>1, <2>2, BeginInv DEF VerifiedRead
<1>3. CASE Detect(p)
  <2>1. PICK r \in Newest : ~IsSeal(r) /\ Begin(p, "saver", Op("detect", r.scope, r.id, Sealed))
    BY <1>3 DEF Detect
  <2>2. r.scope \in Scopes /\ r.id \in Ids
    BY DEF StorageInv, TypeInv, Rows, Newest
  <2>3. Sealed = {}
    BY <2>1, NewestIsNoSeal DEF StorageInv
  <2>. QED BY <1>3, <2>1, <2>2, <2>3, BeginInv DEF Detect
<1>4. ASSUME NEW s \in Scopes, Put(p, s) PROVE StorageInv'
  BY <1>0, <1>4, BeginInv DEF Put
<1>5. ASSUME NEW s \in Scopes, QuarantineCorrupt(p, s) PROVE StorageInv'
  BY <1>0, <1>5, BeginInv DEF QuarantineCorrupt
<1>6. ASSUME NEW s \in Scopes, PruneCheck(p, s) PROVE StorageInv'
  BY <1>0, <1>6, BeginInv DEF PruneCheck
<1>. QED BY <1>1, <1>2, <1>3, <1>4, <1>5, <1>6

----------------------------------------------------------------------------
(* Opening the store                                                        *)

\* Two statements before three.
LEMMA TwoThenThree ==
    ASSUME NEW a, NEW b, NEW c, NEW d, NEW e
    PROVE  <<a, b>> \o <<c, d, e>> = <<a, b, c, d, e>>
<1>. DEFINE S == {a, b, c, d, e}
            u == <<a, b>>
            v == <<c, d, e>>
            w == <<a, b, c, d, e>>
<1>1. u \in Seq(S) /\ v \in Seq(S) 
  OBVIOUS
<1>2. w \in Seq(S)
  OBVIOUS
<1>3. Len(u) = 2 /\ Len(v) = 3 /\ Len(w) = 5
  OBVIOUS
<1>4. u[1] = a /\ u[2] = b /\ v[1] = c /\ v[2] = d /\ v[3] = e
  OBVIOUS
<1>5. w[1] = a /\ w[2] = b /\ w[3] = c /\ w[4] = d /\ w[5] = e
  OBVIOUS
<1>. HIDE DEF S, u, v, w
<1>6. Len(u \o v) = Len(u) + Len(v) /\ u \o v \in Seq(S)
  BY <1>1, ConcatProperties
<1>7. \A i \in 1 .. Len(u) + Len(v) : (u \o v)[i] = IF i <= Len(u) THEN u[i] ELSE v[i - Len(u)]
  BY <1>1, ConcatProperties
<1>8. \A i \in 1..5 : (u \o v)[i] = w[i]
  <2>. DEFINE x == u \o v
  <2>1. \A i \in 1 .. 5 : x[i] = IF i <= 2 THEN u[i] ELSE v[i - 2]
    <3>1. Len(u) + Len(v) = 5 /\ Len(u) = 2
      BY <1>3
    <3>. QED BY <1>7, <3>1, Zenon
  <2>. HIDE DEF x
  <2>2. x[1] = u[1] /\ x[2] = u[2]
    BY <2>1
  <2>3. x[3] = v[1] /\ x[4] = v[2] /\ x[5] = v[3]
    BY <2>1
  <2>4. x[1] = w[1] /\ x[2] = w[2] /\ x[3] = w[3] /\ x[4] = w[4] /\ x[5] = w[5]
    BY <2>2, <2>3, <1>4, <1>5
  <2>5. \A i \in 1..5 : i = 1 \/ i = 2 \/ i = 3 \/ i = 4 \/ i = 5
    OBVIOUS
  <2>6. \A i \in 1..5 : x[i] = w[i]
    BY <2>4, <2>5, Zenon
  <2>. QED BY <2>6 DEF x
<1>9. u \o v = w
  <2>1. Len(u \o v) = Len(w) /\ \A i \in 1 .. Len(u \o v) : (u \o v)[i] = w[i]
     BY <1>3, <1>6, <1>8
  <2>. QED BY <1>2, <1>6, <2>1, SeqEqual
<1>. QED BY <1>9 DEF u, v, w

\* What a process has to run, by what the ledger it reads says.
LEMMA PendingIs ==
    /\ "0001" \notin schema /\ "0002" \notin schema =>
          Pending("0001") \o Pending("0002") = <<"table", "0001", "head", "diff", "0002">>
    /\ "0001" \in schema /\ "0002" \notin schema =>
          Pending("0001") \o Pending("0002") = <<"head", "diff", "0002">>
    /\ "0001" \notin schema /\ "0002" \in schema =>
          Pending("0001") \o Pending("0002") = <<"table", "0001">>
    /\ "0001" \in schema /\ "0002" \in schema =>
          Pending("0001") \o Pending("0002") = <<>>
<1>1. Script("0001") = <<"table", "0001">> /\ Script("0002") = <<"head", "diff", "0002">>
  BY DEF Script
<1>2. <<"table", "0001">> \o <<"head", "diff", "0002">>
         = <<"table", "0001", "head", "diff", "0002">>
  BY TwoThenThree
<1>3. <<>> \o <<"head", "diff", "0002">> = <<"head", "diff", "0002">>
  OBVIOUS
<1>4. <<"table", "0001">> \o <<>> = <<"table", "0001">> /\ <<>> \o <<>> = <<>>
  OBVIOUS
<1>. QED BY <1>1, <1>2, <1>3, <1>4 DEF Pending

\* The next operation's first step.
LEMMA BodyIs ==
    ASSUME StorageInv, NEW p \in Procs, op[p].kind \in {"put", "seal", "detect"}
    PROVE  /\ op[p].kind = "put" => Body(p) = "count"
           /\ op[p].kind = "seal" => Body(p) = "insert"
           /\ op[p].kind = "detect" => Body(p) = "fetch"
BY DEF Body

\* Once a process is through with its migrations, or has none to run, the
\* columns are there.
LEMMA OpenedInv ==
    ASSUME StorageInv, NEW p \in Procs, pc[p] \in {"saver", "held", "migrate"},
           NEW l, pc' = [pc EXCEPT ![p] = l],
           NEW t, todo' = [todo EXCEPT ![p] = t],
           UNCHANGED <<op, seen, left, tableVars, writes, rotted, raced>>,
           schema \subseteq schema',
           "0001" \in schema' => "table" \in schema',
           "0002" \in schema' => {"head", "diff"} \subseteq schema',
           \/ l = "migrate" /\ Migrating(p)'
           \/ l = Body(p) /\ Columns \subseteq schema'
    PROVE  StorageInv'
<1>1. op[p].kind \in {"put", "seal", "detect"} /\ seen[p] = {}
  BY DEF StorageInv, ProcInv, Where, WorkInv, TypeInv, Ops, Kinds
<1>2. /\ op[p].kind = "put" => Body(p) = "count"
      /\ op[p].kind = "seal" => Body(p) = "insert"
      /\ op[p].kind = "detect" => Body(p) = "fetch"
  BY <1>1, BodyIs
<1>3. l \in {"migrate", "count", "insert", "fetch"}
  BY <1>1, <1>2
<1>4. TypeInv'
  BY <1>3 DEF StorageInv, TypeInv, Labels, tableVars
<1>5. pc'[p] = l /\ todo'[p] = t /\ Others(p)
  BY DEF StorageInv, TypeInv, Others, Same
<1>6. Where(p)'
  BY <1>1, <1>2, <1>5 DEF StorageInv, ProcInv, Where
<1>7. SchemaInv(p)'
  BY <1>1, <1>2, <1>5 DEF SchemaInv, Opened
<1>8. SeenInv(p)' /\ WorkInv(p)'
  BY <1>1, <1>3, <1>5 DEF SeenInv, WorkInv, Corrupt, StorageInv, ProcInv
<1>9. Evolves
  BY DEF Evolves, SameKey, tableVars, StorageInv, TypeInv
<1>10. TableInv'
  <2>1. Written' <= MaxWrites
    BY <1>5, WrittenBound DEF Writers, StorageInv, TypeInv
  <2>. QED BY <2>1 DEF TableInv, EvidenceIsCorrupt, StorageInv, tableVars
<1>. QED BY <1>4, <1>5, <1>6, <1>7, <1>8, <1>9, <1>10, StepInv DEF ProcInv

\* Reading the ledger says what is missing.
LEMMA ReadLedgerInv == ASSUME StorageInv, NEW p \in Procs, ReadLedger(p) PROVE StorageInv'
<1>. DEFINE t == Pending("0001") \o Pending("0002")
            l == IF t = <<>> THEN Body(p) ELSE "migrate"
<1>1. todo'[p] = t
  BY DEF ReadLedger, StorageInv, TypeInv
<1>2. /\ pc' = [pc EXCEPT ![p] = l] /\ todo' = [todo EXCEPT ![p] = t]
      /\ pc[p] \in {"saver", "held"}
      /\ UNCHANGED <<op, seen, left, schema, tableVars, writes, rotted, raced>>
  BY <1>1 DEF ReadLedger, Goto
<1>3. /\ "0001" \in schema => "table" \in schema
      /\ "0002" \in schema => {"head", "diff"} \subseteq schema
  BY DEF StorageInv, TableInv
<1>4. \/ t # <<>> /\ Migrating(p)'
      \/ t = <<>> /\ Columns \subseteq schema
  <2>1. CASE "0001" \in schema /\ "0002" \in schema
    BY <1>3, <2>1, PendingIs DEF Columns
  <2>2. CASE ~("0001" \in schema /\ "0002" \in schema)
    BY <1>1, <1>2, <1>3, <2>2, PendingIs DEF Migrating
  <2>. QED BY <2>1, <2>2
<1>. HIDE DEF t
<1>. QED BY <1>2, <1>3, <1>4, OpenedInv

\* One statement of a migration brings it closer to its end; the provers are
\* told what is left of each list.
LEMMA MigrateInv == ASSUME StorageInv, NEW p \in Procs, Migrate(p) PROVE StorageInv'
<1>. DEFINE x == Head(todo[p])
            l == IF Tail(todo[p]) = <<>> THEN Body(p) ELSE "migrate"
<1>1. pc[p] = "migrate" /\ Migrating(p)
  BY DEF Migrate, StorageInv, ProcInv, SchemaInv
<1>2. CASE x \in {"head", "diff"} \cap schema
  <2>1. Finish(p) /\ UNCHANGED <<schema, tableVars, writes, rotted, raced>>
    BY <1>2 DEF Migrate
  <2>2. Done(p) \in {"idle", "unlock"}
    BY DEF Done
  <2>. QED BY <2>1, <2>2, QuitInv DEF Finish
<1>3. CASE x \notin {"head", "diff"} \cap schema
  <2>1. /\ schema' = schema \cup {x} /\ todo' = [todo EXCEPT ![p] = Tail(todo[p])]
        /\ todo'[p] = Tail(todo[p])
        /\ UNCHANGED <<op, seen, left, tableVars, writes, rotted, raced>>
    BY <1>3 DEF Migrate, StorageInv, TypeInv
  <2>2. pc' = [pc EXCEPT ![p] = l]
    BY <1>3, <2>1 DEF Migrate, Goto
  <2>3. /\ "0001" \in schema => "table" \in schema
        /\ "0002" \in schema => {"head", "diff"} \subseteq schema
    BY DEF StorageInv, TableInv
  <2>4. /\ "0001" \in schema' => "table" \in schema'
        /\ "0002" \in schema' => {"head", "diff"} \subseteq schema'
        /\ \/ Tail(todo[p]) # <<>> /\ Migrating(p)'
           \/ Tail(todo[p]) = <<>> /\ Columns \subseteq schema'
    <3>1. CASE todo[p] = <<"table", "0001", "head", "diff", "0002">>
      <4>1. x = "table" /\ Tail(todo[p]) = <<"0001", "head", "diff", "0002">>
        BY <3>1
      <4>2. Tail(todo[p]) # <<>>
        BY <4>1
      <4>3. Migrating(p)'
        BY <2>1, <4>1 DEF Migrating
      <4>4. schema' = schema \cup {"table"}
        BY <2>1, <4>1
      <4>. QED BY <2>3, <4>2, <4>3, <4>4
    <3>2. CASE todo[p] = <<"0001", "head", "diff", "0002">> /\ "table" \in schema
      <4>1. x = "0001" /\ Tail(todo[p]) = <<"head", "diff", "0002">>
        BY <3>2
      <4>. QED BY <2>1, <2>3, <3>2, <4>1 DEF Migrating
    <3>3. CASE todo[p] = <<"head", "diff", "0002">> /\ "table" \in schema
      <4>1. x = "head" /\ Tail(todo[p]) = <<"diff", "0002">>
        BY <3>3
      <4>. QED BY <2>1, <2>3, <3>3, <4>1 DEF Migrating
    <3>4. CASE todo[p] = <<"diff", "0002">> /\ {"table", "head"} \subseteq schema
      <4>1. x = "diff" /\ Tail(todo[p]) = <<"0002">>
        BY <3>4
      <4>. QED BY <2>1, <2>3, <3>4, <4>1 DEF Migrating, Columns
    <3>5. CASE todo[p] = <<"0002">> /\ Columns \subseteq schema
      <4>1. x = "0002" /\ Tail(todo[p]) = <<>>
        BY <3>5
      <4>. QED BY <2>1, <2>3, <3>5, <4>1 DEF Columns
    <3>6. CASE todo[p] = <<"table", "0001">> /\ {"head", "diff"} \subseteq schema
      <4>1. x = "table" /\ Tail(todo[p]) = <<"0001">>
        BY <3>6
      <4>. QED BY <2>1, <2>3, <3>6, <4>1 DEF Migrating, Columns
    <3>7. CASE todo[p] = <<"0001">> /\ Columns \subseteq schema
      <4>1. x = "0001" /\ Tail(todo[p]) = <<>>
        BY <3>7
      <4>. QED BY <2>1, <2>3, <3>7, <4>1 DEF Columns
    <3>. QED BY <1>1, <3>1, <3>2, <3>3, <3>4, <3>5, <3>6, <3>7 DEF Migrating
  <2>. HIDE DEF x
  <2>. QED BY <1>1, <2>1, <2>2, <2>4, OpenedInv
<1>. QED BY <1>2, <1>3

\* Without a HEAD there is nothing to write.
LEMMA HeadFailsInv == ASSUME StorageInv, NEW p \in Procs, HeadFails(p) PROVE StorageInv'
<1>1. Done(p) \in {"idle", "unlock"}
  BY DEF Done
<1>. QED BY <1>1, QuitInv DEF HeadFails, Finish

----------------------------------------------------------------------------
(* Writing a checkpoint                                                     *)

\* A row is known by the number of its state, so a table never holds more rows
\* than states were written.
LEMMA RowsFinite ==
    ASSUME TypeInv, TableInv, NEW R \in SUBSET rows
    PROVE  IsFiniteSet(R) /\ Cardinality(R) \in Nat /\ Cardinality(R) <= writes
<1>. DEFINE f == [r \in R |-> r.seq]
<1>1. writes \in Nat /\ IsFiniteSet(1..writes) /\ Cardinality(1..writes) = writes
  BY FS_Interval DEF TypeInv
<1>2. \A r \in R : r.seq \in 1..writes
  BY StorageAssumption, <1>1 DEF TypeInv, TableInv, Rows
<1>3. f \in Injection(R, 1..writes)
  BY <1>2 DEF Injection, IsInjective, TableInv
<1>. QED BY <1>1, <1>3, FS_Injection, FS_CardinalityType

\* The id that the row count gives is an id.
LEMMA CountInv == ASSUME StorageInv, NEW p \in Procs, Count(p) PROVE StorageInv'
<1>. DEFINE n == Cardinality(In(op[p].scope))
<1>1. n \in Ids
  <2>1. writes \in Nat /\ Cardinality(Writers) \in Nat /\ writes + Cardinality(Writers) <= MaxWrites
    BY LockAssumption, FS_Subset, FS_CardinalityType
       DEF Writers, Written, StorageInv, TypeInv, TableInv
  <2>2. n \in Nat /\ n <= writes
    BY RowsFinite DEF StorageInv, In
  <2>. QED BY <2>1, <2>2, StorageAssumption DEF Ids, SealId
<1>. HIDE DEF n
<1>2. /\ op' = [op EXCEPT ![p].id = n] /\ pc' = [pc EXCEPT ![p] = "insert"] /\ pc[p] = "count"
      /\ UNCHANGED <<schema, tableVars, todo, seen, left, writes, rotted, raced>>
  BY DEF Count, Goto, n
<1>3. op[p] \in Ops /\ op[p].kind = "put" /\ seen[p] = {} /\ Columns \subseteq schema
  BY <1>2 DEF StorageInv, TypeInv, ProcInv, Where, WorkInv, SchemaInv, Opened, Ops, Kinds
<1>4. /\ op'[p] = [op[p] EXCEPT !.id = n] /\ op'[p] \in Ops /\ op'[p].kind = "put"
      /\ op'[p].scope = op[p].scope /\ pc'[p] = "insert" /\ seen'[p] = {}
  BY <1>1, <1>2, <1>3 DEF StorageInv, TypeInv, Ops
<1>5. TypeInv'
  BY <1>1, <1>2 DEF StorageInv, TypeInv, tableVars, Labels, Ops
<1>6. Others(p)
  BY <1>2 DEF Others, Same, StorageInv, TypeInv
<1>7. Where(p)' /\ SchemaInv(p)' /\ SeenInv(p)'
  BY <1>2, <1>3, <1>4 DEF Where, SchemaInv, SeenInv, StorageInv, ProcInv
<1>8. WorkInv(p)'
  BY <1>4 DEF WorkInv, Corrupt
<1>. QED BY <1>2, <1>3, <1>5, <1>6, <1>7, <1>8, QuietInv DEF ProcInv, Writers

\* An operation ends with a step that changes the tables.
LEMMA LastStepInv ==
    ASSUME StorageInv, NEW p \in Procs, Forget(p), NEW l, Goto(p, l), l \in {"idle", "unlock"},
           Evolves, rows' \subseteq Rows, writes' \in Nat, Written' <= MaxWrites => TableInv',
           writes' = writes \/ (writes' = writes + 1 /\ p \in Writers)
    PROVE  StorageInv'
<1>1. TypeInv'
  BY StorageAssumption DEF StorageInv, TypeInv, Forget, Goto, NoOp, Op, Ops, Kinds, Ids,
                           SealId, Labels
<1>2. pc'[p] = l
  BY DEF StorageInv, TypeInv, Goto
<1>3. ProcInv(p)' /\ op'[p].kind = "none"
  BY <1>2, ForgottenInv DEF StorageInv
<1>4. Others(p)
  BY DEF Others, Same, Forget, Goto, StorageInv, TypeInv
<1>5. Written' <= MaxWrites
  BY <1>3, <1>4, WrittenBound DEF Writers
<1>. QED BY <1>1, <1>3, <1>4, <1>5, StepInv

\* The primary key and the fresh number keep rows apart.
LEMMA InsertInv == ASSUME StorageInv, NEW p \in Procs, Insert(p) PROVE StorageInv'
<1>. DEFINE o == op[p]
            new == Row(o.scope, o.id, writes + 1)
<1>1. Done(p) \in {"idle", "unlock"} /\ Finish(p)
  BY DEF Done, Insert
<1>2. UNCHANGED <<schema, quarantine, rotted, raced>> /\ pc[p] = "insert"
  BY DEF Insert
<1>3. CASE At(o.scope, o.id) # {}
  BY <1>1, <1>2, <1>3, QuitInv DEF Insert, Finish, tableVars
<1>4. CASE At(o.scope, o.id) = {}
  <2>1. rows' = rows \cup {new} /\ writes' = writes + 1
    BY <1>4 DEF Insert
  <2>2. /\ new.scope = o.scope /\ new.id = o.id /\ new.seq = writes + 1 /\ new.ok = TRUE
    BY DEF Row
  <2>3. p \in Writers /\ o \in Ops /\ o.scope \in Scopes
    BY <1>2 DEF StorageInv, TypeInv, ProcInv, Where, Writers, Ops, Kinds
  <2>4. writes \in Nat /\ writes + 1 <= MaxWrites
    <3>1. IsFiniteSet(Writers) /\ Cardinality(Writers) \in Nat /\ Cardinality(Writers) # 0
      BY <2>3, LockAssumption, FS_Subset, FS_CardinalityType, FS_EmptySet DEF Writers
    <3>2. writes \in Nat /\ writes + Cardinality(Writers) <= MaxWrites
      BY DEF StorageInv, TypeInv, TableInv, Written, Writers
    <3>. QED BY <3>1, <3>2, StorageAssumption
  <2>5. new \in Rows
    BY <2>3, <2>4, StorageAssumption DEF Row, Rows, Ops
  <2>. HIDE DEF new
  <2>6. rows' \subseteq Rows
    BY <2>1, <2>5 DEF StorageInv, TypeInv
  <2>7. \A r \in rows : r.seq \in Nat /\ r.seq <= writes /\ ~SameKey(r, new)
    BY <1>4, <2>2, StorageAssumption DEF StorageInv, TypeInv, TableInv, Rows, At, SameKey
  <2>8. Evolves
    BY <1>2, <2>1, <2>2, <2>4, <2>7 DEF Evolves, SameKey
  <2>9. /\ \A r, x \in rows' : r.seq = x.seq \/ SameKey(r, x) => r = x
        /\ \A r \in rows' : r.seq <= writes' /\ (~r.ok => r.seq \in rotted')
    <3>1. \A r, x \in rows : r.seq = x.seq \/ SameKey(r, x) => r = x
      BY DEF StorageInv, TableInv
    <3>2. \A r \in rows : r.seq <= writes /\ (~r.ok => r.seq \in rotted)
      BY DEF StorageInv, TableInv
    <3>3. \A r \in rows : ~SameKey(new, r) /\ r.seq # writes + 1
      BY <2>4, <2>7 DEF SameKey
    <3>4. \A r, x \in rows' : r.seq = x.seq \/ SameKey(r, x) => r = x
      BY <2>1, <2>2, <2>7, <3>1, <3>3
    <3>. QED BY <1>2, <2>1, <2>2, <2>4, <2>7, <3>2, <3>4
  <2>a. \A q \in quarantine' : /\ q.seq \in Nat /\ q.seq <= writes'
                                /\ \A x \in rows' : q.seq = x.seq => SameKey(q, x)
    BY <1>2, <2>1, <2>2, <2>4 DEF StorageInv, TableInv
  <2>10. Written' <= MaxWrites => TableInv'
    BY <1>2, <2>9, <2>a DEF StorageInv, TableInv, EvidenceIsCorrupt
  <2>. QED BY <1>1, <2>1, <2>3, <2>4, <2>6, <2>8, <2>10, LastStepInv DEF Finish
<1>. QED BY <1>3, <1>4

----------------------------------------------------------------------------
(* Verified reads and quarantine                                            *)

\* A fetch sees rows as they are in the table.
LEMMA FetchInv ==
    ASSUME StorageInv, NEW p \in Procs, NEW bad, NEW l, Fetch(p, bad, l), pc[p] = "fetch",
           UNCHANGED <<schema, tableVars, writes, rotted, raced>>,
           bad \subseteq IdsOf(Corrupt(In(op[p].scope))),
           \/ /\ l = "copy" /\ bad # {} /\ op[p].kind \in {"sweep", "read", "detect"}
              /\ op[p].kind = "sweep" => bad = IdsOf(Corrupt(In(op[p].scope)))
           \/ /\ l = "serve" /\ op[p].kind \in {"read", "detect"}
              /\ Corrupt(At(op[p].scope, op[p].id)) = {}
    PROVE  StorageInv'
<1>. DEFINE R == In(op[p].scope)
<1>1. /\ seen' = [seen EXCEPT ![p] = R] /\ left' = [left EXCEPT ![p] = bad]
      /\ pc' = [pc EXCEPT ![p] = l] /\ UNCHANGED <<op, todo>>
  BY DEF Fetch, Goto
<1>2. R \subseteq rows /\ \A r \in R : r \in Rows /\ r.scope = op[p].scope
  BY DEF In, StorageInv, TypeInv
<1>3. IdsOf(Corrupt(R)) \subseteq Ids
  BY <1>2 DEF IdsOf, Corrupt, Rows
<1>4. \A r \in Corrupt(R) : r.id \in IdsOf(Corrupt(R))
  BY DEF IdsOf
<1>5. \A r \in Corrupt(R) : r.id = op[p].id => r \in Corrupt(At(op[p].scope, op[p].id))
  BY DEF Corrupt, In, At
<1>. HIDE DEF R
<1>6. TypeInv'
  BY <1>1, <1>2, <1>3 DEF StorageInv, TypeInv, tableVars, Labels, R
<1>7. Others(p)
  BY <1>1 DEF Others, Same, StorageInv, TypeInv
<1>8. pc'[p] = l /\ seen'[p] = R /\ left'[p] = bad /\ op'[p] = op[p]
  BY <1>1 DEF StorageInv, TypeInv
<1>9. Where(p)' /\ SchemaInv(p)'
  BY <1>8 DEF StorageInv, ProcInv, Where, SchemaInv, Opened
<1>10. SeenInv(p)'
  <2>1. \A r \in R : r \in rows /\ r.scope = op[p].scope
    BY <1>2
  <2>2. \A r \in R : r.seq <= writes /\ (~r.ok => r.seq \in rotted)
    BY <2>1 DEF StorageInv, TableInv
  <2>3. \A r, x \in R : r.id = x.id => r = x
    BY <2>1 DEF StorageInv, TableInv, SameKey
  <2>4. \A r \in R, x \in rows : r.seq = x.seq => SameKey(r, x)
    BY <2>1 DEF StorageInv, TableInv, SameKey
  <2>. QED BY <1>8, <2>1, <2>2, <2>3, <2>4 DEF SeenInv, tableVars
<1>11. WorkInv(p)'
  <2>1. bad \subseteq IdsOf(Corrupt(R))
    BY DEF R
  <2>2. op[p].kind = "sweep" => \A r \in Corrupt(R) : r.id \in bad
    BY <1>4 DEF R
  <2>3. l = "serve" => \A r \in Corrupt(R) : r.id # op[p].id
    BY <1>5
  <2>4. op[p].kind = "detect" => op[p].sealed = {}
    BY DEF StorageInv, ProcInv, WorkInv
  <2>5. Corrupt(seen[p])' = Corrupt(R) /\ IdsOf(Corrupt(seen[p]))' = IdsOf(Corrupt(R))
    BY <1>8 DEF Corrupt, IdsOf
  <2>. QED BY <1>8, <2>1, <2>2, <2>3, <2>4, <2>5 DEF WorkInv
<1>. QED BY <1>6, <1>7, <1>8, <1>9, <1>10, <1>11, QuietInv DEF ProcInv, Writers

\* quarantine_corrupt and get_verified_tuple fetch their rows.
LEMMA FetchesInv ==
    ASSUME StorageInv, NEW p \in Procs, FetchSweep(p) \/ FetchTarget(p) PROVE StorageInv'
<1>1. CASE FetchSweep(p)
  <2>. DEFINE bad == IdsOf(Corrupt(In(op[p].scope)))
  <2>1. /\ UNCHANGED <<schema, tableVars, writes, rotted, raced>> /\ pc[p] = "fetch"
        /\ op[p].kind = "sweep"
    BY <1>1 DEF FetchSweep, KeepStore
  <2>2. CASE Stop(p)
    BY <2>1, <2>2, QuitInv DEF Stop
  <2>3. CASE bad # {} /\ Fetch(p, bad, "copy")
    <3>. HIDE DEF bad
    <3>. QED BY <2>1, <2>3, FetchInv DEF bad
  <2>. QED BY <1>1, <2>2, <2>3 DEF FetchSweep
<1>2. CASE FetchTarget(p)
  <2>. DEFINE target == At(op[p].scope, op[p].id)
              bad == IdsOf(Corrupt(target))
  <2>1. /\ UNCHANGED <<schema, tableVars, writes, rotted, raced>> /\ pc[p] = "fetch"
        /\ op[p].kind \in {"read", "detect"}
    BY <1>2 DEF FetchTarget, KeepStore
  <2>2. bad \subseteq IdsOf(Corrupt(In(op[p].scope)))
    BY DEF IdsOf, Corrupt, At, In
  <2>3. bad = {} => Corrupt(target) = {}
    BY DEF IdsOf
  <2>4. \/ Stop(p)
        \/ bad = {} /\ Fetch(p, {}, "serve")
        \/ bad # {} /\ Fetch(p, bad, "copy")
    BY <1>2 DEF FetchTarget
  <2>. HIDE DEF bad, target
  <2>5. CASE Stop(p)
    BY <2>1, <2>5, QuitInv DEF Stop
  <2>6. CASE bad = {} /\ Fetch(p, {}, "serve")
    <3>1. Corrupt(At(op[p].scope, op[p].id)) = {}
      BY <2>3, <2>6 DEF target
    <3>. QED BY <2>1, <2>6, <3>1, FetchInv
  <2>7. CASE bad # {} /\ Fetch(p, bad, "copy")
    BY <2>1, <2>2, <2>7, FetchInv
  <2>. QED BY <2>4, <2>5, <2>6, <2>7
<1>. QED BY <1>1, <1>2

\* That row is a corrupt one.
LEMMA MovingIs ==
    ASSUME StorageInv, NEW p \in Procs, pc[p] \in {"copy", "delete"}
    PROVE  /\ Moving(p) \in seen[p] /\ Moving(p).id \in left[p] /\ ~Moving(p).ok
           /\ Moving(p).seq \in rotted
<1>1. left[p] \subseteq IdsOf(Corrupt(seen[p]))
  BY DEF StorageInv, ProcInv, WorkInv
<1>4. Moving(p) \in seen[p] /\ Moving(p).id \in left[p]
  BY MovingIn DEF StorageInv, ProcInv
<1>5. PICK y \in Corrupt(seen[p]) : y.id = Moving(p).id
  BY <1>1, <1>4 DEF IdsOf
<1>6. y = Moving(p)
  BY <1>4, <1>5 DEF Corrupt, StorageInv, ProcInv, SeenInv
<1>7. ~Moving(p).ok
  BY <1>5, <1>6 DEF Corrupt
<1>. QED BY <1>4, <1>7 DEF StorageInv, ProcInv, SeenInv

\* The copy is put aside before the row is deleted.
LEMMA CopyAsideInv == ASSUME StorageInv, NEW p \in Procs, CopyAside(p) PROVE StorageInv'
<1>. DEFINE m == Moving(p)
<1>1. /\ pc[p] = "copy" /\ pc' = [pc EXCEPT ![p] = "delete"]
      /\ quarantine' = {q \in quarantine : ~SameKey(q, m)} \cup {Evidence(m)}
      /\ raced' = IF \E r \in rows : r.seq = m.seq THEN raced ELSE raced \cup {<<m.scope, m.id>>}
      /\ UNCHANGED <<schema, rows, op, todo, seen, left, writes, rotted>>
  BY DEF CopyAside, Goto, KeepStore, localVars, Raced
<1>2. m \in seen[p] /\ m.id \in left[p] /\ m.seq \in rotted
  BY <1>1, MovingIs
<1>3. m' = m
  BY <1>1 DEF Moving
<1>. HIDE DEF m
<1>a. m.seq \in Nat /\ m.seq <= writes /\ \A x \in rows : m.seq = x.seq => SameKey(m, x)
  BY <1>2, StorageAssumption DEF StorageInv, ProcInv, SeenInv, TypeInv, Rows
<1>4. SameKey(Evidence(m), m) /\ Evidence(m).seq = m.seq /\ Evidence(m) \in quarantine'
  BY <1>1 DEF SameKey, Evidence
<1>5. TypeInv'
  BY <1>1 DEF StorageInv, TypeInv, Labels
<1>6. Others(p) /\ pc'[p] = "delete"
  BY <1>1 DEF Others, Same, StorageInv, TypeInv
<1>7. Evolves
  <2>1. ASSUME NEW q \in quarantine
        PROVE  \/ \E y \in quarantine' : y.seq = q.seq
               \/ \A x \in rows' : x.seq = q.seq => <<x.scope, x.id>> \in raced'
    <3>1. CASE ~SameKey(q, m)
      BY <1>1, <3>1
    <3>2. CASE q.seq = m.seq
      BY <1>4, <3>2
    <3>3. ASSUME SameKey(q, m), q.seq # m.seq, NEW x \in rows, x.seq = q.seq
          PROVE  <<x.scope, x.id>> \in raced'
      <4>1. SameKey(q, x)
        BY <3>3 DEF StorageInv, TableInv
      <4>2. SameKey(m, x)
        BY <3>3, <4>1 DEF SameKey
      <4>3. ~ \E r \in rows : r.seq = m.seq
        BY <1>a, <3>3, <4>2 DEF StorageInv, TableInv, SameKey
      <4>. QED BY <1>1, <4>2, <4>3 DEF SameKey
    <3>. QED BY <1>1, <3>1, <3>2, <3>3
  <2>. QED BY <1>1, <2>1 DEF Evolves, SameKey, StorageInv, TypeInv
<1>8. TableInv'
  <2>1. Written' <= MaxWrites
    BY <1>1, <1>6, WrittenBound DEF StorageInv, TypeInv, Writers
  <2>2. EvidenceIsCorrupt'
    BY <1>1, <1>2, <1>4 DEF EvidenceIsCorrupt, StorageInv, TableInv
  <2>3. ASSUME NEW q \in quarantine'
        PROVE  q.seq \in Nat /\ q.seq <= writes /\ \A x \in rows : q.seq = x.seq => SameKey(q, x)
    <3>1. CASE q = Evidence(m)
      BY <1>a, <1>4, <3>1 DEF SameKey
    <3>2. CASE q \in quarantine
      BY <3>2 DEF StorageInv, TableInv
    <3>. QED BY <1>1, <3>1, <3>2
  <2>. QED BY <1>1, <2>1, <2>2, <2>3 DEF StorageInv, TableInv
<1>9. Where(p)' /\ SchemaInv(p)' /\ SeenInv(p)'
  BY <1>1, <1>6 DEF StorageInv, ProcInv, Where, SchemaInv, Opened, SeenInv
<1>10. WorkInv(p)'
  <2>1. \E q \in quarantine' : q.seq = Moving(p)'.seq
    BY <1>3, <1>4 DEF m
  <2>. QED BY <1>1, <1>6, <2>1 DEF StorageInv, ProcInv, WorkInv, Corrupt
<1>. QED BY <1>5, <1>6, <1>7, <1>8, <1>9, <1>10, StepInv DEF ProcInv

\* What a sweep has dealt with is no longer in the table.
LEMMA SweptRow ==
    ASSUME StorageInv, NEW p \in Procs, DeleteRow(p), op[p].kind = "sweep",
           NEW r \in Corrupt(seen[p]), r.id \notin left[p] \ {Moving(p).id}, NEW x \in rows'
    PROVE  x.seq # r.seq
<1>. DEFINE m == Moving(p)
<1>1. pc[p] = "delete" /\ rows' = {y \in rows : ~SameKey(y, m)}
  BY DEF DeleteRow
<1>2. m \in seen[p]
  BY <1>1, MovingIs
<1>3. CASE r.id \in left[p]
  <2>1. r = m
    BY <1>2, <1>3 DEF Corrupt, StorageInv, ProcInv, SeenInv
  <2>2. x \in rows /\ ~SameKey(x, m)
    BY <1>1
  <2>3. m.seq = x.seq => SameKey(m, x)
    BY <1>2, <2>2 DEF StorageInv, ProcInv, SeenInv
  <2>. QED BY <2>1, <2>2, <2>3 DEF SameKey
<1>4. CASE r.id \notin left[p]
  BY <1>1, <1>4 DEF StorageInv, ProcInv, WorkInv
<1>. QED BY <1>3, <1>4

\* The row goes, whatever it has become meanwhile.
LEMMA DeleteRowInv == ASSUME StorageInv, NEW p \in Procs, DeleteRow(p) PROVE StorageInv'
<1>. DEFINE m == Moving(p)
            rest == left[p] \ {m.id}
<1>1. /\ pc[p] = "delete" /\ rows' = {r \in rows : ~SameKey(r, m)}
      /\ UNCHANGED <<schema, quarantine, writes, rotted>> /\ raced \subseteq raced'
  BY DEF DeleteRow, KeepStore, Raced
<1>2. m \in seen[p] /\ m.id \in left[p] /\ ~m.ok
  BY <1>1, MovingIs
<1>3. rows' \subseteq rows
  BY <1>1
<1>4. Evolves
  BY <1>1, <1>3 DEF Evolves, SameKey, StorageInv, TypeInv
<1>5. Written' <= MaxWrites => TableInv'
  BY <1>1, <1>3 DEF StorageInv, TableInv, EvidenceIsCorrupt
<1>6. \/ Stop(p)
      \/ /\ op[p].kind # "sweep" \/ rest # {}
         /\ left' = [left EXCEPT ![p] = rest]
         /\ Goto(p, IF rest = {} THEN "fallback" ELSE "copy")
         /\ UNCHANGED <<op, todo, seen>>
  BY DEF DeleteRow
<1>7. CASE Stop(p)
  BY <1>1, <1>3, <1>4, <1>5, <1>7, LastStepInv DEF Stop, StorageInv, TypeInv
<1>8. CASE /\ op[p].kind # "sweep" \/ rest # {}
           /\ left' = [left EXCEPT ![p] = rest]
           /\ Goto(p, IF rest = {} THEN "fallback" ELSE "copy")
           /\ UNCHANGED <<op, todo, seen>>
  <2>. DEFINE l == IF rest = {} THEN "fallback" ELSE "copy"
  <2>0. rest \subseteq left[p]
    OBVIOUS
  <2>1. pc' = [pc EXCEPT ![p] = l] /\ pc'[p] = l /\ left'[p] = rest
    BY <1>8 DEF Goto, StorageInv, TypeInv
  <2>. HIDE DEF m, rest
  <2>2. TypeInv'
    BY <1>1, <1>3, <1>8, <2>0, <2>1 DEF StorageInv, TypeInv, Labels
  <2>3. Others(p)
    BY <1>8, <2>1 DEF Others, Same, StorageInv, TypeInv
  <2>4. Written' <= MaxWrites
    BY <1>1, <1>8, <2>3, WrittenBound DEF StorageInv, TypeInv, Writers
  <2>5. Where(p)' /\ SchemaInv(p)'
    BY <1>1, <1>8, <2>1 DEF StorageInv, ProcInv, Where, SchemaInv, Opened, TypeInv, Ops, Kinds
  <2>6. SeenInv(p)'
    BY <1>1, <1>3, <1>8 DEF StorageInv, ProcInv, SeenInv
  <2>7. left[p] \subseteq IdsOf(Corrupt(seen[p]))
    BY <1>1 DEF StorageInv, ProcInv, WorkInv
  <2>8. ASSUME op[p].kind = "sweep", NEW r \in Corrupt(seen[p]), r.id \notin rest, NEW x \in rows'
        PROVE  x.seq # r.seq
    BY <2>8, SweptRow DEF rest, m
  <2>9. WorkInv(p)'
    BY <1>8, <2>0, <2>1, <2>7, <2>8, <1>1 DEF StorageInv, ProcInv, WorkInv, Corrupt, IdsOf
  <2>. QED BY <1>4, <1>5, <2>2, <2>3, <2>4, <2>5, <2>6, <2>9, StepInv DEF ProcInv
<1>. QED BY <1>6, <1>7, <1>8

\* The row served instead was valid when it was fetched.
LEMMA FallbackInv == ASSUME StorageInv, NEW p \in Procs, Fallback(p) PROVE StorageInv'
<1>. DEFINE valid == {r \in seen[p] : r.ok /\ r.id # op[p].id}
            n == NewestOf(valid)
<1>1. pc[p] = "fallback" /\ UNCHANGED <<schema, tableVars, writes, rotted, raced>>
  BY DEF Fallback, KeepStore
<1>2. CASE Stop(p)
  BY <1>1, <1>2, QuitInv DEF Stop
<1>3. CASE /\ valid # {} /\ op' = [op EXCEPT ![p].id = n.id] /\ Goto(p, "serve")
           /\ UNCHANGED <<todo, seen, left>>
  <2>1. \A r \in valid : r.id \in Ids
    BY DEF StorageInv, TypeInv, Rows
  <2>2. n \in valid
    <3>. HIDE DEF valid
    <3>. QED BY <1>3, <2>1, NewestExists
  <2>3. n \in seen[p] /\ n.ok /\ n.id \in Ids
    BY <2>1, <2>2
  <2>. HIDE DEF n, valid
  <2>4. pc' = [pc EXCEPT ![p] = "serve"] /\ pc'[p] = "serve"
    BY <1>3 DEF Goto, StorageInv, TypeInv
  <2>5. op[p] \in Ops /\ op[p].kind \in {"read", "detect"} /\ Columns \subseteq schema
    BY <1>1 DEF StorageInv, TypeInv, ProcInv, Where, SchemaInv, Opened, Ops, Kinds
  <2>6. /\ op'[p] = [op[p] EXCEPT !.id = n.id] /\ op'[p] \in Ops
        /\ op'[p].kind = op[p].kind /\ op'[p].scope = op[p].scope
        /\ op'[p].sealed = op[p].sealed /\ op'[p].id = n.id
    BY <1>3, <2>3, <2>5 DEF StorageInv, TypeInv, Ops
  <2>7. TypeInv'
    BY <1>1, <1>3, <2>3, <2>4 DEF StorageInv, TypeInv, tableVars, Labels, Ops
  <2>8. Others(p)
    BY <1>3, <2>4 DEF Others, Same, StorageInv, TypeInv
  <2>9. Where(p)' /\ SchemaInv(p)'
    BY <1>1, <2>4, <2>5, <2>6 DEF StorageInv, ProcInv, Where, SchemaInv, Opened
  <2>10. SeenInv(p)'
    BY <1>1, <1>3, <2>6 DEF StorageInv, ProcInv, SeenInv, tableVars
  <2>11. \A r \in Corrupt(seen[p]) : r.id # n.id
    BY <2>3 DEF Corrupt, StorageInv, ProcInv, SeenInv
  <2>12. WorkInv(p)'
    BY <1>3, <2>4, <2>5, <2>6, <2>11 DEF StorageInv, ProcInv, WorkInv, Corrupt
  <2>. QED BY <1>1, <2>5, <2>6, <2>7, <2>8, <2>9, <2>10, <2>12, QuietInv DEF ProcInv, Writers
<1>. QED BY <1>2, <1>3 DEF Fallback

\* A read ends, or a detection makes its offer.
LEMMA GetTupleInv == ASSUME StorageInv, NEW p \in Procs, GetTuple(p) PROVE StorageInv'
<1>1. pc[p] = "serve" /\ UNCHANGED <<schema, tableVars, writes, rotted, raced>>
  BY DEF GetTuple, KeepStore
<1>2. CASE Stop(p)
  BY <1>1, <1>2, QuitInv DEF Stop
<1>3. CASE op[p].kind = "detect" /\ Goto(p, "plan") /\ UNCHANGED localVars
  <2>1. pc' = [pc EXCEPT ![p] = "plan"] /\ pc'[p] = "plan" /\ UNCHANGED <<op, todo, seen, left>>
    BY <1>3 DEF Goto, localVars, StorageInv, TypeInv
  <2>2. TypeInv' /\ Others(p)
    BY <1>1, <2>1 DEF StorageInv, TypeInv, tableVars, Labels, Others, Same
  <2>3. ProcInv(p)'
    BY <1>1, <1>3, <2>1 DEF StorageInv, ProcInv, Where, SchemaInv, Opened, SeenInv, WorkInv,
                            Corrupt, tableVars
  <2>. QED BY <1>1, <2>1, <2>2, <2>3, QuietInv DEF Writers
<1>. QED BY <1>2, <1>3 DEF GetTuple

----------------------------------------------------------------------------
(* Retention, recovery, damage                                              *)

\* Retention only removes rows.
LEMMA PruneDeleteInv == ASSUME StorageInv, NEW p \in Procs, PruneDelete(p) PROVE StorageInv'
<1>1. /\ rows' \subseteq rows /\ UNCHANGED <<schema, quarantine, writes, rotted, raced>>
      /\ Finish(p) /\ Done(p) \in {"idle", "unlock"}
  BY DEF PruneDelete, Done
<1>2. Evolves
  BY <1>1 DEF Evolves, SameKey, StorageInv, TypeInv
<1>3. Written' <= MaxWrites => TableInv'
  BY <1>1 DEF StorageInv, TableInv, EvidenceIsCorrupt
<1>. QED BY <1>1, <1>2, <1>3, LastStepInv DEF Finish, StorageInv, TypeInv

\* The answer to an offer ends the detection.
LEMMA AnswerInv == ASSUME StorageInv, NEW p \in Procs, Answer(p) PROVE StorageInv'
BY QuitInv DEF Answer

\* Damage keeps the key and the number of a row, and is on record.
LEMMA RotInv == ASSUME StorageInv, Rot PROVE StorageInv'
<1>1. UNCHANGED <<pc, op, todo, seen, left, schema, quarantine, writes, raced>>
  BY DEF Rot, lockVars, localVars
<1>2. PICK r \in rows : /\ rows' = (rows \ {r}) \cup {[r EXCEPT !.ok = FALSE]}
                        /\ rotted' = rotted \cup {r.seq}
  BY DEF Rot
<1>. DEFINE d == [r EXCEPT !.ok = FALSE]
<1>3. r \in Rows
  BY DEF StorageInv, TypeInv
<1>4. d \in Rows /\ d.seq = r.seq /\ d.id = r.id /\ d.scope = r.scope /\ d.ok = FALSE
  BY <1>3 DEF Rows
<1>. HIDE DEF d
<1>5. rows' = (rows \ {r}) \cup {d}
  BY <1>2 DEF d
<1>6. TypeInv'
  BY <1>1, <1>4, <1>5 DEF StorageInv, TypeInv
<1>7. Evolves
  BY <1>1, <1>2, <1>4, <1>5 DEF Evolves, SameKey, StorageInv, TypeInv
<1>8. TableInv'
  <2>1. Written' <= MaxWrites
    BY <1>1 DEF Written, StorageInv, TableInv
  <2>2. \A y, x \in rows' : y.seq = x.seq \/ SameKey(y, x) => y = x
    BY <1>4, <1>5 DEF StorageInv, TableInv, SameKey
  <2>3. \A y \in rows' : y.seq <= writes /\ (~y.ok => y.seq \in rotted')
    BY <1>2, <1>4, <1>5 DEF StorageInv, TableInv
  <2>4. EvidenceIsCorrupt'
    BY <1>1, <1>2 DEF EvidenceIsCorrupt, StorageInv, TableInv
  <2>5. \A q \in quarantine' : /\ q.seq \in Nat /\ q.seq <= writes'
                                /\ \A x \in rows' : q.seq = x.seq => SameKey(q, x)
    BY <1>1, <1>4, <1>5 DEF StorageInv, TableInv, SameKey
  <2>. QED BY <1>1, <2>1, <2>2, <2>3, <2>4, <2>5 DEF StorageInv, TableInv
<1>9. \A q \in Procs : Same(q)
  BY <1>1 DEF Same
<1>. QED BY <1>6, <1>7, <1>8, <1>9, FrameInv DEF StorageInv

----------------------------------------------------------------------------
(* The invariant holds                                                      *)

\* The table an earlier run has left satisfies it.
LEMMA StorageStart == ASSUME Init PROVE StorageInv
<1>1. /\ rows \in Stores /\ quarantine = {} /\ writes = Earlier /\ Earlier \in 0..MaxWrites
      /\ MaxWrites \in Nat
      /\ rows \subseteq [scope : Scopes, id : 0..(MaxWrites + 1), seq : 1..Earlier, ok : BOOLEAN]
      /\ \A r, x \in rows : r.seq = x.seq \/ (r.scope = x.scope /\ r.id = x.id) => r = x
  BY StorageAssumption DEF Init
<1>2. op = [p \in Procs |-> NoOp] /\ seen = [p \in Procs |-> {}] /\ left = [p \in Procs |-> {}]
  BY DEF Init
<1>3. NoOp \in Ops /\ NoOp.kind = "none"
  BY <1>1 DEF NoOp, Op, Ops, Kinds, Ids, SealId
<1>4. \A r \in rows : r \in Rows /\ r.seq <= writes
  BY <1>1 DEF Rows, Ids, SealId
<1>5. pc \in [Procs -> {"idle", "dead"}]
  BY DEF Init, LockInit
<1>6. TypeInv
  BY <1>1, <1>2, <1>3, <1>4, <1>5 DEF TypeInv, Init, Labels
<1>7. TableInv
  <2>1. Writers = {}
    BY <1>2, <1>3 DEF Writers
  <2>2. Written <= MaxWrites
    <3>1. Written = writes + Cardinality(Writers)
      BY DEF Written, Writers
    <3>2. Cardinality(Writers) = 0
      BY <2>1, FS_EmptySet
    <3>. QED BY <1>1, <3>1, <3>2
  <2>3. \A r \in rows : ~r.ok => r.seq \in rotted
    BY DEF Init
  <2>4. schema \in {{}, {"table", "0001"}, Columns \cup Versions}
    BY DEF Init
  <2>5. ("0001" \in schema => "table" \in schema) /\ ("0002" \in schema => {"head", "diff"} \subseteq schema)
    BY <2>4 DEF Columns, Versions
  <2>. QED BY <1>1, <1>4, <2>2, <2>3, <2>5 DEF TableInv, SameKey, EvidenceIsCorrupt
<1>8. ASSUME NEW p \in Procs PROVE ProcInv(p)
  <2>1. op[p].kind = "none" /\ seen[p] = {} /\ pc[p] \in {"idle", "dead"}
    BY <1>2, <1>3, <1>5
  <2>. QED BY <2>1 DEF ProcInv, Where, SchemaInv, Opened, SeenInv, WorkInv, Corrupt
<1>. QED BY <1>6, <1>7, <1>8 DEF StorageInv

\* A step in which nothing changes.
LEMMA StorageStutter == ASSUME StorageInv, UNCHANGED vars PROVE StorageInv'
<1>1. UNCHANGED <<pc, op, todo, seen, left, schema, rows, quarantine, writes, rotted, raced>>
  BY DEF vars, lockVars, localVars, tableVars
<1>2. TypeInv'
  BY <1>1 DEF StorageInv, TypeInv
<1>3. TableInv'
  BY <1>1 DEF StorageInv, TableInv, EvidenceIsCorrupt, Written
<1>4. Evolves /\ \A q \in Procs : Same(q)
  BY <1>1 DEF Evolves, Same, SameKey, StorageInv, TypeInv
<1>. QED BY <1>2, <1>3, <1>4, FrameInv DEF StorageInv

\* Every step preserves it.
LEMMA StorageStep == ASSUME StorageInv, Next PROVE StorageInv'
<1>1. CASE Rot
  BY <1>1, RotInv
<1>2. ASSUME NEW p \in Procs,
             \/ Shutdown(p) \/ VerifiedRead(p) \/ Detect(p)
             \/ \E s \in Scopes : Put(p, s) \/ QuarantineCorrupt(p, s) \/ PruneCheck(p, s)
      PROVE  StorageInv'
  BY <1>2, BeginningsInv
<1>3. ASSUME NEW p \in Procs,
             Crash(p) \/ LockStep(p) \/ ReadLedger(p) \/ HeadFails(p) \/ Migrate(p)
      PROVE  StorageInv'
  BY <1>3, CrashInv, LockStepInv, ReadLedgerInv, HeadFailsInv, MigrateInv
<1>4. ASSUME NEW p \in Procs, Count(p) \/ Insert(p) \/ PruneDelete(p) \/ Answer(p)
      PROVE  StorageInv'
  BY <1>4, CountInv, InsertInv, PruneDeleteInv, AnswerInv
<1>5. ASSUME NEW p \in Procs,
             \/ FetchSweep(p) \/ FetchTarget(p) \/ CopyAside(p) \/ DeleteRow(p)
             \/ Fallback(p) \/ GetTuple(p)
      PROVE  StorageInv'
  BY <1>5, FetchesInv, CopyAsideInv, DeleteRowInv, FallbackInv, GetTupleInv
<1>. QED BY <1>1, <1>2, <1>3, <1>4, <1>5 DEF Next

\* So it holds at all times.
LEMMA StorageAlways == Spec => []StorageInv
<1>1. Init => StorageInv
  BY StorageStart
<1>2. StorageInv /\ [Next]_vars => StorageInv'
  BY StorageStep, StorageStutter
<1>. QED BY <1>1, <1>2, PTL DEF Spec

----------------------------------------------------------------------------
(* Theorems                                                                 *)

\* SchemaReady: processes migrate the same file at once and die between two
\* statements of migrate_up, yet whoever has opened the store finds every
\* column that SqliteSaver uses.
THEOREM OpenedStoreIsMigrated == Spec => []SchemaReady
<1>1. StorageInv => SchemaReady
  BY DEF StorageInv, ProcInv, SchemaInv, Opened, SchemaReady
<1>. QED BY <1>1, StorageAlways, PTL

\* EvidenceIsCorrupt: _quarantine moves no healthy state aside, in no
\* interleaving of reads, sweeps and puts that use an id again.
THEOREM QuarantineIsEvidence == Spec => []EvidenceIsCorrupt
<1>1. StorageInv => EvidenceIsCorrupt
  BY DEF StorageInv, TableInv
<1>. QED BY <1>1, StorageAlways, PTL

\* NoKnownCorrupt: get_verified_tuple serves no state that its own fetch saw
\* to be corrupt, though get_tuple reads the table once more.
THEOREM VerifiedReadsVerify == Spec => []NoKnownCorrupt
<1>1. ASSUME StorageInv PROVE NoKnownCorrupt
  <2>. SUFFICES ASSUME NEW p \in Procs, pc[p] = "serve", NEW r \in Corrupt(seen[p]),
                       NEW x \in At(op[p].scope, op[p].id), x.seq = r.seq
                PROVE  FALSE
    BY DEF NoKnownCorrupt
  <2>1. r.id # op[p].id
    BY <1>1 DEF StorageInv, ProcInv, WorkInv
  <2>2. r \in seen[p] /\ x \in rows /\ x.id = op[p].id
    BY DEF Corrupt, At
  <2>3. SameKey(r, x)
    BY <1>1, <2>2 DEF StorageInv, ProcInv, SeenInv
  <2>. QED BY <2>1, <2>2, <2>3 DEF SameKey
<1>. QED BY <1>1, StorageAlways, PTL

\* SealedNotResumed: detect_unfinalized_session offers no session whose seal
\* was in the table when _newest_checkpoint looked.
THEOREM SealedSessionsRest == Spec => []SealedNotResumed
<1>1. ASSUME StorageInv PROVE SealedNotResumed
  <2>. SUFFICES ASSUME NEW p \in Procs, pc[p] = "plan" PROVE op[p].scope \notin op[p].sealed
    BY DEF SealedNotResumed
  <2>1. op[p].kind = "detect"
    BY <1>1 DEF StorageInv, TypeInv, ProcInv, Where, Ops, Kinds
  <2>. QED BY <1>1, <2>1 DEF StorageInv, ProcInv, WorkInv
<1>. QED BY <1>1, StorageAlways, PTL

\* What prune deletes leaves Keep newer rows of the scope in place: those newer
\* than the newest row deleted stay.
LEMMA PruneKeeps ==
    ASSUME StorageInv, NEW p \in Procs, PruneDelete(p), NEW r \in rows, r \notin rows'
    PROVE  ~IsSeal(r) /\ Cardinality(Newer(r) \cap rows') >= Keep
<1>. DEFINE D == {x \in NonSeals(op[p].scope) : Cardinality(Newer(x)) >= Keep}
            m == NewestOf(D)
<1>1. rows' = rows \ D /\ r \in D
  BY DEF PruneDelete
<1>2. D # {} /\ \A x \in D : x.id \in Ids /\ x \in rows /\ x.scope = op[p].scope /\ ~IsSeal(x)
  BY <1>1 DEF NonSeals, In, StorageInv, TypeInv, Rows
<1>3. m \in D /\ \A x \in D : Text(x.id) <= Text(m.id)
  <2>. HIDE DEF D
  <2>. QED BY <1>2, NewestExists
<1>4. Cardinality(Newer(m)) >= Keep
  BY <1>3
<1>5. Text(r.id) <= Text(m.id) /\ m.scope = r.scope /\ m.id \in Ids /\ r.id \in Ids
  BY <1>1, <1>2, <1>3
<1>. HIDE DEF D, m
<1>6. \A x \in rows : Text(x.id) \in Int
  BY TextIs DEF StorageInv, TypeInv, Rows
<1>7. Text(m.id) \in Int /\ Text(r.id) \in Int
  BY <1>5, TextIs
<1>8. ASSUME NEW x \in Newer(m) PROVE x \in Newer(r) /\ x \in rows'
  <2>1. x \in rows /\ Text(x.id) > Text(m.id) /\ x \in NonSeals(r.scope)
    BY <1>5 DEF Newer, NonSeals, In
  <2>2. x \notin D
    BY <1>3, <1>6, <1>7, <2>1
  <2>3. Text(x.id) > Text(r.id)
    BY <1>5, <1>6, <1>7, <2>1
  <2>. QED BY <1>1, <2>1, <2>2, <2>3 DEF Newer
<1>9. Newer(m) \subseteq Newer(r) \cap rows' /\ Newer(r) \cap rows' \subseteq rows
  BY <1>1, <1>8 DEF Newer, NonSeals, In
<1>10. IsFiniteSet(Newer(r) \cap rows') /\ Cardinality(Newer(r) \cap rows') \in Nat
  BY <1>9, RowsFinite DEF StorageInv
<1>11. Cardinality(Newer(m)) \in Nat /\ Cardinality(Newer(m)) <= Cardinality(Newer(r) \cap rows')
  BY <1>9, <1>10, FS_Subset, FS_CardinalityType
<1>. QED BY <1>1, <1>2, <1>4, <1>10, <1>11, StorageAssumption

\* Which steps take rows out of the table.
LEMMA RemovesRows ==
    ASSUME TypeInv, Next, NEW r \in rows, \A x \in rows' : x.seq # r.seq
    PROVE  \E p \in Procs : DeleteRow(p) \/ PruneDelete(p)
<1>1. CASE Rot
  <2>1. PICK y \in rows : rows' = (rows \ {y}) \cup {[y EXCEPT !.ok = FALSE]}
    BY <1>1 DEF Rot
  <2>2. r \in rows' \/ [r EXCEPT !.ok = FALSE] \in rows'
    BY <2>1
  <2>3. [r EXCEPT !.ok = FALSE].seq = r.seq
    BY DEF TypeInv, Rows
  <2>. QED BY <2>2, <2>3
<1>2. ASSUME NEW p \in Procs, Insert(p) PROVE FALSE
  BY <1>2 DEF Insert
<1>3. ASSUME NEW p \in Procs,
             \/ Shutdown(p) \/ Crash(p) \/ LockStep(p) \/ ReadLedger(p) \/ HeadFails(p)
             \/ Migrate(p) \/ Count(p) \/ VerifiedRead(p) \/ Answer(p) \/ Detect(p)
             \/ \E s \in Scopes : Put(p, s) \/ QuarantineCorrupt(p, s) \/ PruneCheck(p, s)
      PROVE  FALSE
  <2>1. rows' = rows
    BY <1>3 DEF Shutdown, Crash, LockStep, ReadLedger, HeadFails, Migrate, Count, VerifiedRead,
                Answer, Detect, Put, QuarantineCorrupt, PruneCheck, Begin, tableVars
  <2>. QED BY <2>1
<1>4. ASSUME NEW p \in Procs,
             FetchSweep(p) \/ FetchTarget(p) \/ CopyAside(p) \/ Fallback(p) \/ GetTuple(p)
      PROVE  FALSE
  <2>1. rows' = rows
    BY <1>4 DEF FetchSweep, FetchTarget, CopyAside, Fallback, GetTuple, tableVars
  <2>. QED BY <2>1
<1>. QED BY <1>1, <1>2, <1>3, <1>4 DEF Next

\* RemovalAccounted: what _quarantine removes it has set aside, content and all,
\* unless a quarantine of that id worked on a row that was already gone; and prune
\* deletes no seal and leaves Keep rows that sort after, whatever the others do
\* between the SELECT and the DELETE and whoever crashes when.
THEOREM NothingVanishes == Spec => RemovalAccounted
<1>1. ASSUME StorageInv, Next, NEW r \in rows
      PROVE  Stays(r) \/ SetAside(r) \/ PrunedOut(r) \/ <<r.scope, r.id>> \in raced'
  <2>. SUFFICES ASSUME \A x \in rows' : x.seq # r.seq
                PROVE  SetAside(r) \/ PrunedOut(r) \/ <<r.scope, r.id>> \in raced'
    BY DEF Stays
  <2>1. r \notin rows'
    OBVIOUS
  <2>2. PICK p \in Procs : DeleteRow(p) \/ PruneDelete(p)
    BY <1>1, RemovesRows DEF StorageInv
  <2>3. CASE PruneDelete(p)
    BY <1>1, <2>1, <2>3, PruneKeeps DEF PrunedOut
  <2>4. CASE DeleteRow(p)
    <3>. DEFINE m == Moving(p)
    <3>1. /\ pc[p] = "delete" /\ rows' = {y \in rows : ~SameKey(y, m)}
          /\ quarantine' = quarantine
          /\ raced' = IF \E x \in rows : x.seq = m.seq THEN raced ELSE raced \cup {<<m.scope, m.id>>}
      BY <2>4 DEF DeleteRow, Raced
    <3>2. SameKey(r, m) /\ m \in seen[p]
      BY <1>1, <2>1, <3>1, MovingIs
    <3>3. CASE \A x \in rows : x.seq # m.seq
      BY <3>1, <3>2, <3>3 DEF SameKey
    <3>4. ASSUME NEW x \in rows, x.seq = m.seq, <<m.scope, m.id>> \notin raced PROVE SetAside(r)
      <4>1. SameKey(m, x)
        BY <1>1, <3>2, <3>4 DEF StorageInv, ProcInv, SeenInv
      <4>2. x = r
        BY <1>1, <3>2, <4>1 DEF StorageInv, TableInv, SameKey
      <4>3. PICK q \in quarantine : q.seq = m.seq
        BY <1>1, <3>1, <3>4 DEF StorageInv, ProcInv, WorkInv, Undisturbed
      <4>. QED BY <3>1, <3>4, <4>2, <4>3 DEF SetAside
    <3>5. CASE <<m.scope, m.id>> \in raced
      BY <3>1, <3>2, <3>5 DEF SameKey
    <3>. QED BY <3>3, <3>4, <3>5
  <2>. QED BY <2>2, <2>3, <2>4
<1>2. StorageInv /\ [Next]_vars =>
         [\A r \in rows : \/ Stays(r) \/ SetAside(r) \/ PrunedOut(r)
                         \/ <<r.scope, r.id>> \in raced']_vars
  BY <1>1
<1>. QED BY <1>2, StorageAlways, PTL DEF Spec, RemovalAccounted

\* Only a process's own steps move it.
LEMMA OwnSteps ==
    ASSUME TypeInv, NEW p \in Procs, NEW q \in Procs, p # q,
           \/ Shutdown(q) \/ Crash(q) \/ LockStep(q)
           \/ ReadLedger(q) \/ HeadFails(q) \/ Migrate(q) \/ Count(q) \/ Insert(q)
           \/ VerifiedRead(q) \/ FetchSweep(q) \/ FetchTarget(q)
           \/ CopyAside(q) \/ DeleteRow(q) \/ Fallback(q) \/ GetTuple(q)
           \/ PruneDelete(q) \/ Detect(q) \/ Answer(q)
           \/ \E s \in Scopes : Put(q, s) \/ QuarantineCorrupt(q, s) \/ PruneCheck(q, s)
    PROVE  pc'[p] = pc[p]
<1>1. (\E l : Goto(q, l)) => pc'[p] = pc[p]
  BY DEF Goto, TypeInv
<1>2. CASE LockStep(q)
  <2>1. pc' = pc \/ \E l : Goto(q, l)
    BY <1>2 DEF LockStep, Open, TryLock, LockBusy, WriteOwner, ReadOwner, UnlinkStale, Retry,
                Unlock, Unlink, ReclaimLock, ReclaimUnlink, LockTimeout
  <2>. QED BY <1>1, <2>1
<1>3. CASE Shutdown(q)
  BY <1>1, <1>3 DEF Shutdown, Begin, lockVars
<1>4. CASE \/ VerifiedRead(q) \/ Detect(q)
           \/ \E s \in Scopes : Put(q, s) \/ QuarantineCorrupt(q, s) \/ PruneCheck(q, s)
  BY <1>1, <1>4 DEF VerifiedRead, Detect, Put, QuarantineCorrupt, PruneCheck, Begin
<1>5. CASE \/ Crash(q) \/ ReadLedger(q) \/ HeadFails(q) \/ Migrate(q) \/ Count(q) \/ Insert(q)
           \/ PruneDelete(q) \/ Answer(q)
  BY <1>1, <1>5 DEF Crash, Die, ReadLedger, HeadFails, Migrate, Count, Insert, PruneDelete,
                    Answer, Finish
<1>6. CASE FetchSweep(q) \/ FetchTarget(q)
  BY <1>1, <1>6 DEF FetchSweep, FetchTarget, Stop, Fetch
<1>7. CASE CopyAside(q) \/ DeleteRow(q) \/ Fallback(q) \/ GetTuple(q)
  BY <1>1, <1>7 DEF CopyAside, DeleteRow, Fallback, GetTuple, Stop
<1>. QED BY <1>2, <1>3, <1>4, <1>5, <1>6, <1>7

\* How a sweep can come to its end.
LEMMA SweepEnds ==
    ASSUME StorageInv, Next, NEW p \in Procs, op[p].kind = "sweep", pc'[p] = "idle"
    PROVE  FetchSweep(p) \/ (DeleteRow(p) /\ left[p] \ {Moving(p).id} = {})
<1>1. pc[p] \in {"fetch", "copy", "delete"} /\ pc \in [Procs -> Labels]
  BY DEF StorageInv, ProcInv, Where, TypeInv
<1>2. ~Rot
  BY <1>1 DEF Rot, lockVars
<1>3. PICK q \in Procs :
           \/ Shutdown(q) \/ Crash(q) \/ LockStep(q)
           \/ ReadLedger(q) \/ HeadFails(q) \/ Migrate(q) \/ Count(q) \/ Insert(q)
           \/ VerifiedRead(q) \/ FetchSweep(q) \/ FetchTarget(q)
           \/ CopyAside(q) \/ DeleteRow(q) \/ Fallback(q) \/ GetTuple(q)
           \/ PruneDelete(q) \/ Detect(q) \/ Answer(q)
           \/ \E s \in Scopes : Put(q, s) \/ QuarantineCorrupt(q, s) \/ PruneCheck(q, s)
  BY <1>2 DEF Next
<1>4. p = q
  BY <1>1, <1>3, OwnSteps DEF StorageInv
<1>5. ~Shutdown(p) /\ ~VerifiedRead(p) /\ ~Detect(p)
  BY <1>1 DEF Shutdown, VerifiedRead, Detect, Begin, Ready
<1>6. \A s \in Scopes : ~Put(p, s) /\ ~QuarantineCorrupt(p, s) /\ ~PruneCheck(p, s)
  BY <1>1 DEF Put, QuarantineCorrupt, PruneCheck, Begin, Ready
<1>7. ~Crash(p)
  BY <1>1 DEF Crash, Die, Goto
<1>8. ~LockStep(p)
  BY <1>1 DEF LockStep, Open, TryLock, LockBusy, WriteOwner, ReadOwner, UnlinkStale, Retry,
              Unlock, Unlink, ReclaimLock, ReclaimUnlink, LockTimeout
<1>9. ~ReadLedger(p) /\ ~HeadFails(p) /\ ~Migrate(p) /\ ~Count(p) /\ ~Insert(p)
  BY <1>1 DEF ReadLedger, HeadFails, Migrate, Count, Insert
<1>10. ~FetchTarget(p) /\ ~Fallback(p) /\ ~GetTuple(p) /\ ~PruneDelete(p) /\ ~Answer(p)
  BY <1>1 DEF FetchTarget, Fallback, GetTuple, PruneDelete, Answer
<1>11. ~CopyAside(p)
  BY <1>1 DEF CopyAside, Goto
<1>12. DeleteRow(p) => left[p] \ {Moving(p).id} = {}
  BY <1>1 DEF DeleteRow, Goto
<1>. QED BY <1>3, <1>4, <1>5, <1>6, <1>7, <1>8, <1>9, <1>10, <1>11, <1>12

\* SweepCleans: when quarantine_corrupt returns, none of the corrupt rows it
\* found is in the table, though others write, prune and quarantine meanwhile.
THEOREM SweepsFinish == Spec => SweepCleans
<1>1. ASSUME StorageInv, Next, NEW p \in Procs, op[p].kind = "sweep", pc'[p] = "idle",
             NEW r \in Corrupt(seen[p]), NEW x \in rows'
      PROVE  x.seq # r.seq
  <2>1. CASE FetchSweep(p)
    <3>1. seen[p] = {}
      BY <1>1, <2>1 DEF FetchSweep, StorageInv, ProcInv, WorkInv
    <3>. QED BY <3>1 DEF Corrupt
  <2>2. CASE DeleteRow(p) /\ left[p] \ {Moving(p).id} = {}
    BY <1>1, <2>2, SweptRow
  <2>. QED BY <1>1, <2>1, <2>2, SweepEnds
<1>2. StorageInv /\ [Next]_vars =>
         [\A p \in Procs :
            op[p].kind = "sweep" /\ pc'[p] = "idle" =>
                \A r \in Corrupt(seen[p]), x \in rows' : x.seq # r.seq]_vars
  BY <1>1
<1>. QED BY <1>2, StorageAlways, PTL DEF Spec, SweepCleans
=============================================================================
