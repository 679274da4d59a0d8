------------------------------- MODULE Storage -------------------------------
(***************************************************************************)
(* The checkpoint store of a workspace (storage/), the seal an engine      *)
(* writes when it shuts down (engine/shutdown.py) and the recovery of a    *)
(* session that ended without one (recovery/session_recovery.py).          *)
(*                                                                         *)
(* Several processes use the store at once: an engine that shuts down, the *)
(* storage command line, a recovery.  Connections are in autocommit mode   *)
(* (isolation_level=None), so a step is one SQL statement, except that put *)
(* wraps its INSERT in a transaction of its own.                           *)
(*                                                                         *)
(* A written state is known by its number (seq).  A checkpoint id cp_n is  *)
(* n and "shutdown" is SealId; both are compared as text.  No caller of    *)
(* put passes created_at, so every row has created_at 0 and the id alone   *)
(* orders rows: from cp_10 on that is not the order they were written in.  *)
(***************************************************************************)
EXTENDS WorkspaceLock, Sequences

CONSTANTS
    Scopes,      \* (project_id, thread_id) pairs
    Session,     \* scope of each engine's session, None for other processes
    Keep,        \* RetentionPolicy.keep
    Stores,      \* tables that earlier runs may have left
    Earlier,     \* how many states those runs wrote
    MaxWrites,   \* bound: checkpoints ever written, below list's limit of 100
    MaxChanges   \* bound: checkpoints written and rows damaged, together

ASSUME StorageAssumption ==
    /\ None \notin Scopes /\ Session \in [Procs -> Scopes \cup {None}]
    /\ Keep \in Nat /\ MaxChanges \in Nat /\ MaxWrites \in 0..98
    /\ Earlier \in 0..MaxWrites
    /\ Stores \subseteq SUBSET [scope : Scopes, id : 0..(MaxWrites + 1),
                               seq : 1..Earlier, ok : BOOLEAN]
    /\ \A R \in Stores : \A r, x \in R :
          r.seq = x.seq \/ (r.scope = x.scope /\ r.id = x.id) => r = x

VARIABLES
    schema,      \* statements of the migrations and ledger rows done so far
    rows,        \* table checkpoints
    quarantine,  \* table checkpoint_quarantine
    ended,       \* engines whose GracefulShutdown is _finished
    op,          \* arguments of the operation a process is in
    todo,        \* migration statements it has yet to run
    seen,        \* rows its _fetch_rows returned
    left,        \* ids of those it has yet to quarantine
    writes,      \* number of the latest written state
    rotted,      \* history: states whose row was damaged
    raced        \* history: <<scope, id>> at which _quarantine copied or deleted
                 \* when the row it had fetched was no longer there

localVars == <<op, todo, seen, left>>
tableVars == <<rows, quarantine>>
vars == <<lockVars, schema, tableVars, ended, localVars, writes, rotted, raced>>

SealId == MaxWrites + 1
Ids    == 0..SealId

\* A row as it is written, and what the quarantine table keeps of one.
Row(s, i, n) == [scope |-> s, id |-> i, seq |-> n, ok |-> TRUE]
Evidence(r)  == [scope |-> r.scope, id |-> r.id, seq |-> r.seq]
Op(k, s, i, z) == [kind |-> k, scope |-> s, id |-> i, sealed |-> z]
NoOp == Op("none", None, 0, {})

Columns  == {"table", "head", "diff"}
Versions == {"0001", "0002"}

\* Only the graceful shutdown passes is_paused and it names its row "shutdown".
IsSeal(r) == r.id = SealId

Init ==
    /\ LockInit
    /\ rows \in Stores /\ quarantine = {}
    /\ schema \in IF rows = {} THEN {{}}
                 ELSE {{"table", "0001"}, Columns \cup Versions}
    /\ ended = {}
    /\ op = [p \in Procs |-> NoOp]
    /\ todo = [p \in Procs |-> <<>>]
    /\ seen = [p \in Procs |-> {}]
    /\ left = [p \in Procs |-> {}]
    /\ writes = Earlier /\ rotted = {r.seq : r \in {x \in rows : ~x.ok}}
    /\ raced = {}

\* Place of an id among the texts: cp_1, cp_10, ..., cp_19, cp_2, ..., shutdown.
Text(i) == CASE i = SealId            -> 110
             [] i # SealId /\ i < 10  -> 11 * i
             [] i # SealId /\ i >= 10 -> 11 * (i \div 10) + (i % 10) + 1

In(s) == {r \in rows : r.scope = s}
At(s, i) == {r \in rows : r.scope = s /\ r.id = i}
NewestOf(R) == CHOOSE r \in R : \A x \in R : Text(x.id) <= Text(r.id)

\* Back to the caller; nothing of the operation survives it.
Forget(p) ==
    /\ op' = [op EXCEPT ![p] = NoOp]
    /\ todo' = [todo EXCEPT ![p] = <<>>]
    /\ seen' = [seen EXCEPT ![p] = {}]
    /\ left' = [left EXCEPT ![p] = {}]

Ready(p) == p \in live /\ pc[p] = "idle"

\* Keep the writes within the bounds, those under way included.
Written  == writes + Cardinality({q \in Procs : op[q].kind \in {"put", "seal"}})
Changes  == Written + Cardinality(rotted)
MayWrite == Written < MaxWrites /\ Changes < MaxChanges

Begin(p, label, o) ==
    /\ Ready(p)
    /\ op' = [op EXCEPT ![p] = o]
    /\ Goto(p, label)
    /\ UNCHANGED <<live, fileVars, schema, tableVars, todo, seen, left, rotted, raced>>

\* put_bound works inside the lock, the other operations do not take it.
Done(p) == IF op[p].kind = "seal" THEN "unlock" ELSE "idle"
Finish(p) == Goto(p, Done(p)) /\ Forget(p)

-----------------------------------------------------------------------------
(* Graceful shutdown of an engine (engine/shutdown.py) *)

\* shutdown: once; the seal is written only if the queues drain in time.
Shutdown(p) ==
    /\ Session[p] # None /\ p \notin ended
    /\ ended' = ended \cup {p}
    /\ \/ MayWrite /\ Begin(p, "open", Op("seal", Session[p], SealId, {}))
       \/ Ready(p) /\ UNCHANGED <<lockVars, schema, tableVars, localVars, rotted, raced>>
    /\ UNCHANGED writes

-----------------------------------------------------------------------------
(* Opening the store: SqliteSaver.__init__ runs migrate_up *)

\* Mutant: the ledger row is written before the statements.
ScriptEarly(v) == IF v = "0001" THEN <<"0001", "table">> ELSE <<"0002", "head", "diff">>

\* Statements of migration v followed by its ledger row.
Script(v) == IF v = "0001" THEN <<"table", "0001">> ELSE <<"head", "diff", "0002">>
Pending(v) == IF v \in schema THEN <<>> ELSE Script(v)

\* First step of an operation once it has a saver.
Body(p) ==
    CASE op[p].kind = "put" -> "count"
      [] op[p].kind = "seal" -> "insert"
      [] OTHER -> "fetch"

\* The ledger is read once, before the first migration.
ReadLedger(p) ==
    /\ pc[p] \in {"saver", "held"}
    /\ todo' = [todo EXCEPT ![p] = Pending("0001") \o Pending("0002")]
    /\ Goto(p, IF todo'[p] = <<>> THEN Body(p) ELSE "migrate")
    /\ UNCHANGED <<live, fileVars, schema, tableVars, ended, op, seen,
                   left, writes, rotted, raced>>

\* put_bound: head_sha raises between taking the lock and opening the store.
HeadFails(p) ==
    /\ pc[p] = "held"
    /\ Finish(p)
    /\ UNCHANGED <<live, fileVars, schema, tableVars, ended, writes, rotted, raced>>

\* One statement.  CREATE ... IF NOT EXISTS and INSERT OR IGNORE may be
\* repeated; ALTER TABLE ... ADD COLUMN raises if the column is there.
Migrate(p) ==
    /\ pc[p] = "migrate"
    /\ LET x == Head(todo[p])
       IN  \/ /\ x \in {"head", "diff"} \cap schema
              /\ Finish(p)
              /\ UNCHANGED schema
           \/ /\ x \notin {"head", "diff"} \cap schema
              /\ schema' = schema \cup {x}
              /\ todo' = [todo EXCEPT ![p] = Tail(@)]
              /\ Goto(p, IF todo'[p] = <<>> THEN Body(p) ELSE "migrate")
              /\ UNCHANGED <<op, seen, left>>
    /\ UNCHANGED <<live, fileVars, tableVars, ended, writes, rotted, raced>>

-----------------------------------------------------------------------------
(* SqliteSaver.put, by itself (storage/cli.py) or through put_bound, whose *)
(* only caller is the shutdown                                            *)

Put(p, s) ==
    /\ MayWrite
    /\ Begin(p, "saver", Op("put", s, 0, {}))
    /\ UNCHANGED <<ended, writes>>

\* The id of a row without one: cp_{len(list)}, before the transaction.  The
\* limit of list (100) is above MaxWrites.
Count(p) ==
    /\ pc[p] = "count"
    /\ op' = [op EXCEPT ![p].id = Cardinality(In(op[p].scope))]
    /\ Goto(p, "insert")
    /\ UNCHANGED <<live, fileVars, schema, tableVars, ended, todo, seen,
                   left, writes, rotted, raced>>

\* The primary key refuses a second row of the same id: put raises.
Insert(p) ==
    /\ pc[p] = "insert"
    /\ LET o == op[p]
       IN  \/ /\ At(o.scope, o.id) = {}
              /\ rows' = rows \cup {Row(o.scope, o.id, writes + 1)}
              /\ writes' = writes + 1
           \/ /\ At(o.scope, o.id) # {}
              /\ UNCHANGED <<rows, writes>>
    /\ Finish(p)
    /\ UNCHANGED <<live, fileVars, schema, quarantine, ended, rotted, raced>>

-----------------------------------------------------------------------------
(* Verified reads and quarantine (storage/integrity.py) *)

\* get_verified_tuple and quarantine_corrupt as their callers start them, with
\* a saver that is open.
VerifiedRead(p) ==
    /\ Columns \subseteq schema
    /\ \E r \in rows : Begin(p, "fetch", Op("read", r.scope, r.id, {}))
    /\ UNCHANGED <<ended, writes>>

QuarantineCorrupt(p, s) ==
    /\ Columns \subseteq schema
    /\ Begin(p, "fetch", Op("sweep", s, 0, {}))
    /\ UNCHANGED <<ended, writes>>

Corrupt(R) == {r \in R : ~r.ok}
IdsOf(R)   == {r.id : r \in R}
KeepStore  == <<live, fileVars, schema, ended, writes, rotted>>
Stop(p)    == Goto(p, "idle") /\ Forget(p)

\* _fetch_rows; bad are the ids to quarantine.
Fetch(p, bad, label) ==
    /\ seen' = [seen EXCEPT ![p] = In(op[p].scope)]
    /\ left' = [left EXCEPT ![p] = bad]
    /\ Goto(p, label)
    /\ UNCHANGED <<op, todo>>

\* quarantine_corrupt goes through every corrupt row it fetched.
FetchSweep(p) ==
    /\ pc[p] = "fetch" /\ op[p].kind = "sweep"
    /\ LET bad == IdsOf(Corrupt(In(op[p].scope)))
       IN  \/ bad = {} /\ Stop(p)
           \/ bad # {} /\ Fetch(p, bad, "copy")
    /\ UNCHANGED <<KeepStore, tableVars, raced>>

\* get_verified_tuple: a missing row is None, a valid one is read again.
FetchTarget(p) ==
    /\ pc[p] = "fetch" /\ op[p].kind \in {"read", "detect"}
    /\ LET target == At(op[p].scope, op[p].id)
           bad == IdsOf(Corrupt(target))
       IN  \/ target = {} /\ Stop(p)
           \/ target # {} /\ bad = {} /\ Fetch(p, {}, "serve")
           \/ bad # {} /\ Fetch(p, bad, "copy")
    /\ UNCHANGED <<KeepStore, tableVars, raced>>

\* The row of seen[p] that _quarantine works on: newest first.
Moving(p) == NewestOf({r \in seen[p] : r.id \in left[p]})
SameKey(a, b) == a.scope = b.scope /\ a.id = b.id

\* Whether what _quarantine works on has been removed since the fetch.
Raced(m) == raced' = IF \E r \in rows : r.seq = m.seq THEN raced
                     ELSE raced \cup {<<m.scope, m.id>>}

\* Mutant: the copy is selected from the table instead of the row fetched.
CopyAsideCurrent(p) ==
    /\ pc[p] = "copy"
    /\ LET m == Moving(p)
       IN  /\ quarantine' = {q \in quarantine : ~SameKey(q, m)}
                            \cup {Evidence(r) : r \in At(m.scope, m.id)}
           /\ Raced(m)
    /\ Goto(p, "delete")
    /\ UNCHANGED <<KeepStore, rows, localVars>>

\* Mutant: INSERT OR IGNORE.
CopyAsideIgnore(p) ==
    /\ pc[p] = "copy"
    /\ LET m == Moving(p)
       IN  /\ quarantine' = IF \E q \in quarantine : SameKey(q, m) THEN quarantine
                            ELSE quarantine \cup {Evidence(m)}
           /\ Raced(m)
    /\ Goto(p, "delete")
    /\ UNCHANGED <<KeepStore, rows, localVars>>

\* INSERT OR REPLACE INTO checkpoint_quarantine.
CopyAside(p) ==
    /\ pc[p] = "copy"
    /\ LET m == Moving(p)
       IN  /\ quarantine' = {q \in quarantine : ~SameKey(q, m)} \cup {Evidence(m)}
           /\ Raced(m)
    /\ Goto(p, "delete")
    /\ UNCHANGED <<KeepStore, rows, localVars>>

\* Mutant: the sweep stops after one row.
DeleteRowOnce(p) ==
    /\ pc[p] = "delete"
    /\ rows' = {r \in rows : ~SameKey(r, Moving(p))} /\ Raced(Moving(p))
    /\ \/ op[p].kind = "sweep" /\ Stop(p)
       \/ /\ op[p].kind # "sweep"
          /\ left' = [left EXCEPT ![p] = {}]
          /\ Goto(p, "fallback")
          /\ UNCHANGED <<op, todo, seen>>
    /\ UNCHANGED <<KeepStore, quarantine>>

\* DELETE FROM checkpoints, by key.
DeleteRow(p) ==
    /\ pc[p] = "delete"
    /\ LET m == Moving(p)
           rest == left[p] \ {m.id}
       IN  /\ rows' = {r \in rows : ~SameKey(r, m)} /\ Raced(m)
           /\ \/ op[p].kind = "sweep" /\ rest = {} /\ Stop(p)
              \/ /\ op[p].kind # "sweep" \/ rest # {}
                 /\ left' = [left EXCEPT ![p] = rest]
                 /\ Goto(p, IF rest = {} THEN "fallback" ELSE "copy")
                 /\ UNCHANGED <<op, todo, seen>>
    /\ UNCHANGED <<KeepStore, quarantine>>

\* Mutant: the row served instead is not verified.
FallbackUnverified(p) ==
    /\ pc[p] = "fallback"
    /\ LET valid == {r \in seen[p] : r.id # op[p].id}
       IN  \/ valid = {} /\ Stop(p)
           \/ /\ valid # {}
              /\ op' = [op EXCEPT ![p].id = NewestOf(valid).id]
              /\ Goto(p, "serve")
              /\ UNCHANGED <<todo, seen, left>>
    /\ UNCHANGED <<KeepStore, tableVars, raced>>

\* The newest valid row among those fetched before, or CorruptCheckpointError.
Fallback(p) ==
    /\ pc[p] = "fallback"
    /\ LET valid == {r \in seen[p] : r.ok /\ r.id # op[p].id}
       IN  \/ valid = {} /\ Stop(p)
           \/ /\ valid # {}
              /\ op' = [op EXCEPT ![p].id = NewestOf(valid).id]
              /\ Goto(p, "serve")
              /\ UNCHANGED <<todo, seen, left>>
    /\ UNCHANGED <<KeepStore, tableVars, raced>>

\* SqliteSaver.get_tuple, which verifies nothing and may find no row any more.
\* detect_unfinalized_session offers to resume from what it gets, if that is a
\* checkpoint and not the seal.
GetTuple(p) ==
    /\ pc[p] = "serve"
    /\ LET R == At(op[p].scope, op[p].id)
       IN  \/ /\ op[p].kind = "detect" /\ \E r \in R : ~IsSeal(r)
              /\ Goto(p, "plan")
              /\ UNCHANGED localVars
           \/ /\ op[p].kind = "read" \/ \A r \in R : IsSeal(r)
              /\ Stop(p)
    /\ UNCHANGED <<KeepStore, tableVars, raced>>

-----------------------------------------------------------------------------
(* Retention (storage/retention.py) *)

NonSeals(s) == {r \in In(s) : ~IsSeal(r)}
Newer(r)    == {x \in NonSeals(r.scope) : Text(x.id) > Text(r.id)}

\* The SELECT that finds a (keep+1)-th row; without one prune returns 0.
PruneCheck(p, s) ==
    /\ Cardinality(NonSeals(s)) > Keep
    /\ Begin(p, "prune", Op("prune", s, 0, {}))
    /\ UNCHANGED <<ended, writes>>

\* The DELETE, with its own subquery.
PruneDelete(p) ==
    /\ pc[p] = "prune"
    /\ rows' = rows \ {r \in NonSeals(op[p].scope) : Cardinality(Newer(r)) >= Keep}
    /\ Finish(p)
    /\ UNCHANGED <<live, fileVars, schema, quarantine, ended, writes, rotted, raced>>

-----------------------------------------------------------------------------
(* Recovery (recovery/session_recovery.py) *)

Sealed == {r.scope : r \in {x \in rows : IsSeal(x)}}

\* Mutant: the query orders by created_at only.
DetectUnordered(p) ==
    /\ \E r \in rows :
          /\ ~IsSeal(r)
          /\ Begin(p, "saver", Op("detect", r.scope, r.id, Sealed))
    /\ UNCHANGED <<ended, writes>>

\* _newest_checkpoint looks at every scope; rows of equal ids come in any
\* order.
Newest == {r \in rows : \A x \in rows : Text(x.id) <= Text(r.id)}

\* detect_unfinalized_session; without a row, or with a seal on top, it returns
\* None at once and nothing changes.
Detect(p) ==
    /\ \E r \in Newest :
          /\ ~IsSeal(r)
          /\ Begin(p, "saver", Op("detect", r.scope, r.id, Sealed))
    /\ UNCHANGED <<ended, writes>>

\* The user answers the offer; resume starts with reclaim().  Restoring the
\* worktrees is Pipeline's bind.
Answer(p) ==
    /\ pc[p] = "plan"
    /\ Goto(p, "reclaim") \/ Goto(p, "idle")
    /\ Forget(p)
    /\ UNCHANGED <<live, fileVars, schema, tableVars, ended, writes, rotted, raced>>

-----------------------------------------------------------------------------

\* Damage to a row's state_json: its digest does not match any more.
Rot ==
    /\ Changes < MaxChanges
    /\ \E r \in rows :
          /\ r.ok
          /\ rows' = (rows \ {r}) \cup {[r EXCEPT !.ok = FALSE]}
          /\ rotted' = rotted \cup {r.seq}
    /\ UNCHANGED <<lockVars, schema, quarantine, ended, localVars, writes, raced>>

Crash(p) ==
    /\ Die(p) /\ Forget(p)
    /\ UNCHANGED <<schema, tableVars, ended, writes, rotted, raced>>

LockStep(p) ==
    /\ \/ /\ \/ Open(p) \/ TryLock(p) \/ LockBusy(p) \/ WriteOwner(p)
             \/ ReadOwner(p) \/ UnlinkStale(p) \/ Retry(p)
             \/ Unlock(p) \/ Unlink(p) \/ ReclaimLock(p) \/ ReclaimUnlink(p)
          /\ UNCHANGED localVars
       \/ LockTimeout(p) /\ Forget(p)
    /\ UNCHANGED <<schema, tableVars, ended, writes, rotted, raced>>

Next ==
    \/ Rot
    \/ \E p \in Procs :
          \/ Shutdown(p) \/ Crash(p) \/ LockStep(p)
          \/ ReadLedger(p) \/ HeadFails(p) \/ Migrate(p) \/ Count(p) \/ Insert(p)
          \/ VerifiedRead(p) \/ FetchSweep(p) \/ FetchTarget(p)
          \/ CopyAside(p) \/ DeleteRow(p) \/ Fallback(p) \/ GetTuple(p)
          \/ PruneDelete(p) \/ Detect(p) \/ Answer(p)
          \/ \E s \in Scopes :
                Put(p, s) \/ QuarantineCorrupt(p, s) \/ PruneCheck(p, s)

Spec == Init /\ [][Next]_vars

-----------------------------------------------------------------------------
(* Properties *)

\* Processes migrate the same file at once and die between two statements;
\* yet a process that has opened the store finds every column it uses.
SchemaReady ==
    \A p \in Procs :
        pc[p] \in {"count", "insert", "fetch", "copy", "delete", "serve"}
            => Columns \subseteq schema

Stays(r)     == \E x \in rows' : x.seq = r.seq
SetAside(r)  == \E q \in quarantine' : q.seq = r.seq
PrunedOut(r) == ~IsSeal(r) /\ Cardinality(Newer(r) \cap rows') >= Keep

\* A row that leaves the table was copied aside with its content, or it is no
\* seal and Keep rows of its scope that sort after it stay.  Whoever crashes
\* when, nothing else is lost, unless somebody quarantined a row of that id that
\* was already gone: the copy replaces and the delete goes by the id alone.
RemovalAccounted ==
    [][\A r \in rows : \/ Stays(r) \/ SetAside(r) \/ PrunedOut(r)
                      \/ <<r.scope, r.id>> \in raced']_vars

\* "Nothing is lost": quarantine is a move-aside, not a delete.
MovedAside == [][\A r \in rows : Stays(r) \/ SetAside(r) \/ PrunedOut(r)]_vars

\* Quarantine holds nothing but states whose digest failed: no interleaving of
\* reads, sweeps and re-written ids moves a healthy state aside.
EvidenceIsCorrupt == \A q \in quarantine : q.seq \in rotted

\* A verified read serves no state that its own fetch saw to be corrupt, be it
\* the row asked for or the one served in its place.
NoKnownCorrupt ==
    \A p \in Procs :
        pc[p] = "serve" =>
            \A r \in Corrupt(seen[p]), x \in At(op[p].scope, op[p].id) :
                x.seq # r.seq

\* quarantine_corrupt leaves behind none of the corrupt rows it found, though
\* others write, prune and quarantine meanwhile.
SweepCleans ==
    [][\A p \in Procs :
          op[p].kind = "sweep" /\ pc'[p] = "idle" =>
              \A r \in Corrupt(seen[p]), x \in rows' : x.seq # r.seq]_vars

\* A session whose seal was there when the detection looked for the newest
\* checkpoint is not offered for resumption.
SealedNotResumed ==
    \A p \in Procs : pc[p] = "plan" => op[p].scope \notin op[p].sealed
=============================================================================
