---------------------------- MODULE EventFanout ----------------------------
(***************************************************************************)
(* Fanout: one BackpressureQueue per attached client, filled by publisher  *)
(* threads (the workspace watcher, the metrics feed, the model gateway,    *)
(* the token streams), and StateBroadcast, which puts a SNAPSHOT into the  *)
(* queue of a client that attaches.  Nothing is locked: a step is one      *)
(* access to the dict of queues, to a deque or to dropped_frames, and all  *)
(* threads meet between the steps.                                         *)
(***************************************************************************)
EXTENDS Integers, Sequences, FiniteSets, SequencesExt

CONSTANTS
    Clients,
    Publishers,
    Guarded,     \* publishers whose loop swallows exceptions (MetricsFeed)
    Capacity,    \* of a BackpressureQueue
    MaxEvents,   \* bound: envelopes each publisher emits
    MaxAttach    \* bound: times a client attaches

Snapshot == "snapshot"

ASSUME FanoutAssumption ==
    /\ Guarded \subseteq Publishers /\ IsFiniteSet(Publishers)
    /\ Snapshot \notin Publishers /\ Clients \cap Publishers = {}
    /\ Capacity \in Nat \ {0} /\ MaxEvents \in [Publishers -> Nat] /\ MaxAttach \in Nat

\* A client's thread is the one that attaches it.
Threads  == Publishers \cup Clients
Sources  == Publishers \cup {Snapshot}
\* AGENT_TOKEN_STREAM is the only droppable type; all others are control.
Types    == {"token", "control"}
Envelope(s, i, t) == [from |-> s, n |-> i, type |-> t]
Token(e) == e.type = "token"

VARIABLES
    phase,    \* "out", "attached" (on_attach has not returned), "in"
    attaches, \* times each client has attached; names its current queue
    items,    \* _items and dropped_frames of each attached client's queue
    dropped,
    pc, env,  \* what each thread is doing, and the envelope it does it with
    keys, seen, \* a publisher's iterator: the queues at its start, those visited
    at,       \* the queue of the put under way
    aim,      \* what its scan found, and the items it found it in
    load,     \* the value of dropped_frames it is about to add one to
    \* History.
    emitted,  \* envelopes emitted by each source
    evicted, got,     \* what left each current queue, by eviction and by get
    refused, before,  \* put did not store the snapshot; emitted when it returned
    last      \* number of the last envelope of each source got from a queue

queueVars  == <<items, dropped, evicted>>
clientVars == <<phase, attaches, got, refused, before, last>>
iterVars   == <<keys, seen>>
putVars    == <<at, aim, load>>
vars == <<queueVars, clientVars, iterVars, putVars, pc, env, emitted>>

Nowhere  == <<>>
NoAim    == [i |-> 0, saw |-> <<>>]
Attached == {c \in Clients : phase[c] # "out"}
Key(c)   == <<c, attaches[c]>>
Keys     == {Key(c) : c \in Attached}

Init ==
    /\ phase = [c \in Clients |-> "out"] /\ attaches = [c \in Clients |-> 0]
    /\ items = [c \in Clients |-> <<>>] /\ dropped = [c \in Clients |-> 0]
    /\ pc = [t \in Threads |-> "idle"]
    /\ env = [t \in Threads |-> Envelope(Snapshot, 0, "control")]
    /\ keys = [p \in Publishers |-> {}] /\ seen = [p \in Publishers |-> {}]
    /\ at = [t \in Threads |-> Nowhere] /\ aim = [t \in Threads |-> NoAim]
    /\ load = [t \in Threads |-> 0]
    /\ emitted = [s \in Sources |-> 0]
    /\ evicted = [c \in Clients |-> <<>>] /\ got = [c \in Clients |-> <<>>]
    /\ refused = [c \in Clients |-> FALSE]
    /\ before = [c \in Clients |-> [s \in Sources |-> 0]]
    /\ last = [k \in Clients \X (1..MaxAttach) |-> [s \in Sources |-> 0]]

----------------------------------------------------------------------------
(* BackpressureQueue.put, by thread t on the queue at[t].                   *)

PutSteps == {"pop", "scan", "found", "count", "store", "append"}
On(t, c) == pc[t] \in PutSteps /\ c \in Attached /\ at[t] = Key(c)
Goto(t, l) == pc' = [pc EXCEPT ![t] = l]

\* put is over.  When it was on_attach's, the client is in.
Leave(t, l, stored) ==
    /\ Goto(t, l)
    /\ at' = [at EXCEPT ![t] = Nowhere] /\ aim' = [aim EXCEPT ![t] = NoAim]
    /\ load' = [load EXCEPT ![t] = 0]
    /\ \/ t \in Publishers /\ UNCHANGED <<phase, refused, before>>
       \/ /\ t \in Clients
          /\ phase' = [phase EXCEPT ![t] = "in"]
          /\ refused' = [refused EXCEPT ![t] = ~stored]
          /\ before' = [before EXCEPT ![t] = emitted]
    /\ UNCHANGED <<attaches, got, last, iterVars, env, emitted>>

Returns(t, stored) == Leave(t, IF t \in Publishers THEN "next" ELSE "idle", stored)

\* A guarded loop swallows the exception, any other publisher dies of it.
Raises(t) == Leave(t, IF t \in Publishers \ Guarded THEN "dead" ELSE "idle", FALSE)

\* A step of put that stays in it.
Moves(t, l) == Goto(t, l) /\ UNCHANGED <<clientVars, iterVars, env, emitted, at>>

Full(c) == Len(items[c]) >= Capacity

\* The length test: where put goes on.
AfterTest(e, c) ==
    IF ~Full(c) THEN "append" ELSE IF Token(e) THEN "pop" ELSE "scan"

Evict(c, i) ==
    /\ evicted' = [evicted EXCEPT ![c] = Append(@, items[c][i])]
    /\ items' = [items EXCEPT ![c] = RemoveAt(@, i)]

\* A token displaces the oldest item whatever it is; popleft raises when other
\* threads and the client have emptied the queue since the test.
Pop(t, c) ==
    /\ pc[t] = "pop" /\ On(t, c)
    /\ \/ /\ items[c] # <<>> /\ Evict(c, 1)
          /\ Moves(t, "count") /\ UNCHANGED <<dropped, aim, load>>
       \/ items[c] = <<>> /\ Raises(t) /\ UNCHANGED queueVars

\* A control event looks for the oldest token; 0 if there is none.
Scan(t, c) ==
    /\ pc[t] = "scan" /\ On(t, c)
    /\ aim' = [aim EXCEPT ![t] = [i |-> SelectInSeq(items[c], Token), saw |-> items[c]]]
    /\ Moves(t, "found") /\ UNCHANGED <<queueVars, load>>

(* It deletes by the index it found, or is refused.  When the deque changed *)
(* meanwhile, the loop may raise (mutated during iteration, or an index out *)
(* of range), or go on and delete what is at that index now.                *)
Found(t, c) ==
    /\ pc[t] = "found" /\ On(t, c)
    /\ \/ aim[t].i = 0 /\ Returns(t, FALSE) /\ UNCHANGED queueVars
       \/ /\ aim[t].i \in 1..Len(items[c]) /\ Evict(c, aim[t].i)
          /\ aim' = [aim EXCEPT ![t] = NoAim]
          /\ Moves(t, "count") /\ UNCHANGED <<dropped, load>>
       \/ items[c] # aim[t].saw /\ Raises(t) /\ UNCHANGED queueVars

\* dropped_frames += 1 reads,
Count(t, c) ==
    /\ pc[t] = "count" /\ On(t, c)
    /\ load' = [load EXCEPT ![t] = dropped[c]]
    /\ Moves(t, "store") /\ UNCHANGED <<queueVars, aim>>

\* Mutant of Store: the counter is not written.
StoreForgotten(t, c) ==
    /\ pc[t] = "store" /\ On(t, c)
    /\ load' = [load EXCEPT ![t] = 0]
    /\ Moves(t, "append") /\ UNCHANGED <<queueVars, aim>>

\* adds and writes.
Store(t, c) ==
    /\ pc[t] = "store" /\ On(t, c)
    /\ dropped' = [dropped EXCEPT ![c] = load[t] + 1]
    /\ load' = [load EXCEPT ![t] = 0]
    /\ Moves(t, "append") /\ UNCHANGED <<items, evicted, aim>>

\* Mutant of PutAppend: deque.appendleft.
AppendLeft(t, c) ==
    /\ pc[t] = "append" /\ On(t, c)
    /\ items' = [items EXCEPT ![c] = <<env[t]>> \o @]
    /\ Returns(t, TRUE) /\ UNCHANGED <<dropped, evicted>>

PutAppend(t, c) ==
    /\ pc[t] = "append" /\ On(t, c)
    /\ items' = [items EXCEPT ![c] = Append(@, env[t])]
    /\ Returns(t, TRUE) /\ UNCHANGED <<dropped, evicted>>

\* A queue that was detached meanwhile is garbage that only such threads share.
PutGarbage(p) ==
    /\ pc[p] \in PutSteps /\ \A c \in Clients : ~On(p, c)
    /\ Returns(p, TRUE) \/ Raises(p)
    /\ UNCHANGED queueVars

----------------------------------------------------------------------------
(* Clients.                                                                 *)

Attach(c) ==
    /\ phase[c] = "out" /\ attaches[c] < MaxAttach
    /\ phase' = [phase EXCEPT ![c] = "attached"]
    /\ attaches' = [attaches EXCEPT ![c] = @ + 1]
    /\ UNCHANGED <<queueVars, got, refused, before, last, iterVars, putVars, pc, env, emitted>>

\* Mutant of OnAttach: the snapshot is built and put nowhere.
OnAttachLost(c) ==
    /\ phase[c] = "attached" /\ pc[c] = "idle"
    /\ phase' = [phase EXCEPT ![c] = "in"]
    /\ emitted' = [emitted EXCEPT ![Snapshot] = @ + 1]
    /\ before' = [before EXCEPT ![c] = emitted]
    /\ UNCHANGED <<queueVars, attaches, got, refused, last, iterVars, putVars, pc, env>>

(* StateBroadcast.on_attach, called right after attach: publish_to puts the *)
(* SNAPSHOT into this client's queue only.                                  *)
OnAttach(c) ==
    LET e == Envelope(Snapshot, emitted[Snapshot] + 1, "control") IN
    /\ phase[c] = "attached" /\ pc[c] = "idle"
    /\ emitted' = [emitted EXCEPT ![Snapshot] = @ + 1]
    /\ env' = [env EXCEPT ![c] = e]
    /\ at' = [at EXCEPT ![c] = Key(c)]
    /\ Goto(c, AfterTest(e, c))
    /\ UNCHANGED <<queueVars, clientVars, iterVars, aim, load>>

Detach(c) ==
    /\ phase[c] = "in"
    /\ phase' = [phase EXCEPT ![c] = "out"]
    /\ items' = [items EXCEPT ![c] = <<>>] /\ dropped' = [dropped EXCEPT ![c] = 0]
    /\ evicted' = [evicted EXCEPT ![c] = <<>>] /\ got' = [got EXCEPT ![c] = <<>>]
    /\ refused' = [refused EXCEPT ![c] = FALSE]
    /\ before' = [before EXCEPT ![c] = [s \in Sources |-> 0]]
    /\ UNCHANGED <<attaches, last, iterVars, putVars, pc, env, emitted>>

(* drain: one get of its loop; None ends it, and so does the IndexError of  *)
(* a queue that was emptied after get had tested it.                        *)
Get(c) ==
    /\ c \in Attached /\ items[c] # <<>>
    /\ LET e == Head(items[c]) IN
       /\ got' = [got EXCEPT ![c] = Append(@, e)]
       /\ last' = [last EXCEPT ![Key(c)][e.from] = e.n]
    /\ items' = [items EXCEPT ![c] = Tail(@)]
    /\ UNCHANGED <<phase, attaches, refused, before, dropped, evicted, iterVars, putVars,
                   pc, env, emitted>>

----------------------------------------------------------------------------
(* Publishers.                                                              *)

\* publish: the iterator over the dict of queues.
Publish(p) ==
    /\ pc[p] = "idle" /\ emitted[p] < MaxEvents[p]
    /\ \E t \in Types : env' = [env EXCEPT ![p] = Envelope(p, emitted[p] + 1, t)]
    /\ emitted' = [emitted EXCEPT ![p] = @ + 1]
    /\ keys' = [keys EXCEPT ![p] = Keys] /\ seen' = [seen EXCEPT ![p] = {}]
    /\ Goto(p, "next")
    /\ UNCHANGED <<queueVars, clientVars, putVars>>

SameSize(p) == Cardinality(keys[p]) = Cardinality(Keys)
Yielded(p)  == Cardinality(seen[p]) = Cardinality(keys[p])

(* RuntimeError: the dict changed its size during the iteration, or yields  *)
(* more queues than it had because clients came and went.                   *)
NextRaises(p) ==
    /\ pc[p] = "next"
    /\ ~SameSize(p) \/ (Yielded(p) /\ ~(Keys \subseteq seen[p]))
    /\ Raises(p) /\ UNCHANGED queueVars

\* The next queue, and put's length test on it.
NextQueue(p, c) ==
    /\ pc[p] = "next" /\ SameSize(p) /\ ~Yielded(p)
    /\ c \in Attached /\ Key(c) \notin seen[p]
    /\ seen' = [seen EXCEPT ![p] = @ \cup {Key(c)}]
    /\ at' = [at EXCEPT ![p] = Key(c)]
    /\ Goto(p, AfterTest(env[p], c))
    /\ UNCHANGED <<queueVars, clientVars, keys, aim, load, env, emitted>>

\* The iterator ends.  It may skip queues after the dict was rebuilt.
Published(p) ==
    /\ pc[p] = "next" /\ SameSize(p)
    /\ Keys \subseteq seen[p] \/ keys[p] # Keys
    /\ Goto(p, "idle")
    /\ keys' = [keys EXCEPT ![p] = {}] /\ seen' = [seen EXCEPT ![p] = {}]
    /\ UNCHANGED <<queueVars, clientVars, putVars, env, emitted>>

Put(t, c) == \/ Pop(t, c) \/ Scan(t, c) \/ Found(t, c)
             \/ Count(t, c) \/ Store(t, c) \/ PutAppend(t, c)

Next ==
    \/ \E c \in Clients : Attach(c) \/ OnAttach(c) \/ Detach(c) \/ Get(c)
    \/ \E p \in Publishers :
          \/ Publish(p) \/ NextRaises(p) \/ PutGarbage(p) \/ Published(p)
          \/ \E c \in Clients : NextQueue(p, c)
    \/ \E t \in Threads, c \in Clients : Put(t, c)

Spec == Init /\ [][Next]_vars

----------------------------------------------------------------------------
\* The threads that have made room in a client's queue or found some.
Entering(c) == {t \in Threads : On(t, c) /\ pc[t] \in {"count", "store", "append"}}
\* Those that have evicted and not yet counted.
Counting(c) == {t \in Threads : On(t, c) /\ pc[t] \in {"count", "store"}}

(* The bound of a queue, although its test and its append are apart: it is  *)
(* exceeded by at most one envelope for each other thread that can be in    *)
(* put at the same time, however many envelopes are published.              *)
QueueBounded ==
    \A c \in Attached : Len(items[c]) <= Capacity + Cardinality(Publishers)

(* What the status bar is told of losses.  The unlocked increments may lose *)
(* counts, also of earlier losses, but dropped_frames never exceeds what    *)
(* was evicted, and once all threads are done it is not 0 if anything was.  *)
DropsShow ==
    \A c \in Attached :
        /\ dropped[c] <= Len(evicted[c])
        /\ evicted[c] # <<>> => dropped[c] > 0 \/ Counting(c) # {}

(* What a queue promises while publishers race in put without a lock: its   *)
(* length stays bounded, and dropped_frames tells of what that cost.        *)
QueueHonest == QueueBounded /\ DropsShow

\* The client's envelopes of this attachment, delivered and queued.
Stream(c) == got[c] \o items[c]

(* A client whose queue took the SNAPSHOT and evicted nothing has it, and   *)
(* no delta that was published after on_attach returned comes before it.    *)
(* (One published between attach and that may.)                             *)
SnapshotFirst ==
    \A c \in Clients :
        phase[c] = "in" /\ ~refused[c] /\ evicted[c] = <<>> =>
            \E i \in DOMAIN Stream(c) :
                /\ Stream(c)[i].from = Snapshot
                /\ \A j \in 1..(i - 1) :
                      Stream(c)[j].n <= before[c][Stream(c)[j].from]

(* Every queue yields each publisher's envelopes in order and at most once, *)
(* although evictions, raising threads and iterators that miss queues lose  *)
(* some: the fan-out implements the lossy channel.                          *)
Channel == INSTANCE LossyFifo
    WITH Receivers <- Clients \X (1..MaxAttach), sent <- emitted, got <- last
FanoutInOrder == Channel!Spec

(* "control events never drop" (the queue's own words): what a queue evicts *)
(* is a token.                                                              *)
ControlKept == \A c \in Clients : \A i \in DOMAIN evicted[c] : Token(evicted[c][i])
=============================================================================
