---------------------------- MODULE FanoutProofs ----------------------------
(* Theorems about the fan-out, for any number of clients and publishers and *)
(* every capacity, although no queue is locked: how far a queue can exceed  *)
(* its capacity, what dropped_frames says of the losses, that a client that *)
(* lost nothing has its snapshot, and that the fan-out implements the lossy *)
(* channel.                                                                 *)
EXTENDS EventFanout, FiniteSetTheorems, SequenceTheorems, TLAPS

----------------------------------------------------------------------------
(* Sequences                                                                *)

Env == [from : Sources, n : Nat, type : Types]

\* A non-empty set of naturals has a least element.
LEMMA LeastExists ==
    ASSUME NEW T \in SUBSET Nat, T # {} PROVE Min(T) \in T
<1>. DEFINE R == {ss \in Nat \X Nat : ss[1] < ss[2]}
<1>1. IsWellFoundedOn(R, Nat)
  BY NatLessThanWellFounded DEF OpToRel
<1>2. PICK t \in T : \A y \in T : ~ (<<y, t>> \in R)
  <2>. HIDE DEF R
  <2>. QED BY <1>1, WFMin
<1>3. ASSUME NEW y \in T PROVE t <= y
  <2>1. <<y, t>> \in Nat \X Nat /\ <<y, t>>[1] = y /\ <<y, t>>[2] = t
    OBVIOUS
  <2>2. ~(y < t)
    BY <1>2, <2>1
  <2>. QED BY <2>2
<1>. QED BY <1>3 DEF Min

\* Removing an element closes the gap and keeps the order of the others.
LEMMA RemoveAtIs ==
    ASSUME NEW S, NEW s \in Seq(S), NEW i \in 1..Len(s)
    PROVE  /\ RemoveAt(s, i) \in Seq(S) /\ Len(RemoveAt(s, i)) = Len(s) - 1
           /\ \A j \in 1..(Len(s) - 1) : RemoveAt(s, i)[j] = IF j < i THEN s[j] ELSE s[j + 1]
<1>. DEFINE a == SubSeq(s, 1, i - 1)
            b == SubSeq(s, i + 1, Len(s))
<1>0. Len(s) \in Nat /\ i \in Nat /\ i >= 1 /\ i <= Len(s)
  OBVIOUS
<1>1. \A k \in 1..Len(s) : s[k] \in S
  BY ElementOfSeq
<1>2. /\ a \in Seq(S) /\ Len(a) = i - 1
      /\ \A j \in 1..(i - 1) : a[j] = s[j]
  <2>1. \A k \in 1..(i - 1) : s[k] \in S
    BY <1>0, <1>1
  <2>2. /\ a \in Seq(S) /\ Len(a) = IF 1 <= i - 1 THEN (i - 1) - 1 + 1 ELSE 0
        /\ \A j \in 1..((i - 1) - 1 + 1) : a[j] = s[1 + j - 1]
    BY <1>0, <2>1, SubSeqProperties
  <2>. QED BY <1>0, <2>2
<1>3. /\ b \in Seq(S) /\ Len(b) = Len(s) - i
      /\ \A j \in 1..(Len(s) - i) : b[j] = s[i + j]
  <2>1. \A k \in (i + 1)..Len(s) : s[k] \in S
    BY <1>0, <1>1
  <2>2. /\ b \in Seq(S) /\ Len(b) = IF i + 1 <= Len(s) THEN Len(s) - (i + 1) + 1 ELSE 0
        /\ \A j \in 1..(Len(s) - (i + 1) + 1) : b[j] = s[(i + 1) + j - 1]
    BY <1>0, <2>1, SubSeqProperties
  <2>. QED BY <1>0, <2>2
<1>. HIDE DEF a, b
<1>4. /\ a \o b \in Seq(S) /\ Len(a \o b) = Len(a) + Len(b)
      /\ \A j \in 1..(Len(a) + Len(b)) : (a \o b)[j] = IF j <= Len(a) THEN a[j] ELSE b[j - Len(a)]
  BY <1>2, <1>3, ConcatProperties
<1>. DEFINE c == a \o b
<1>5. /\ c \in Seq(S) /\ Len(c) = Len(s) - 1
  BY <1>0, <1>2, <1>3, <1>4
<1>6. \A j \in 1..(Len(s) - 1) : c[j] = IF j <= i - 1 THEN a[j] ELSE b[j - (i - 1)]
  <2>1. Len(a) + Len(b) = Len(s) - 1 /\ Len(a) = i - 1
    BY <1>0, <1>2, <1>3
  <2>. QED BY <1>4, <2>1, Zenon
<1>. HIDE DEF c
<1>7. ASSUME NEW j \in 1..(Len(s) - 1) PROVE c[j] = IF j < i THEN s[j] ELSE s[j + 1]
  <2>1. CASE j < i
    BY <1>0, <1>2, <1>6, <2>1
  <2>2. CASE ~(j < i)
    <3>1. j - (i - 1) \in 1..(Len(s) - i) /\ i + (j - (i - 1)) = j + 1
      BY <1>0, <2>2
    <3>2. c[j] = b[j - (i - 1)]
      BY <1>0, <1>6, <2>2
    <3>. QED BY <1>3, <2>2, <3>1, <3>2
  <2>. QED BY <2>1, <2>2
<1>8. RemoveAt(s, i) = c
  BY DEF RemoveAt, a, b, c
<1>. QED BY <1>5, <1>7, <1>8

----------------------------------------------------------------------------
(* Types, and what a thread carries                                         *)

Phases  == {"out", "attached", "in"}
Labels  == {"idle", "dead", "next"} \cup PutSteps
Busy    == {"next"} \cup PutSteps
Numbers == [Sources -> Nat]

TypeInv ==
    /\ phase \in [Clients -> Phases] /\ attaches \in [Clients -> Nat]
    /\ items \in [Clients -> Seq(Env)] /\ dropped \in [Clients -> Nat]
    /\ pc \in [Threads -> Labels] /\ env \in [Threads -> Env]
    /\ keys \in [Publishers -> SUBSET (Clients \X Nat)]
    /\ seen \in [Publishers -> SUBSET (Clients \X Nat)]
    /\ at \in [Threads -> {Nowhere} \cup (Clients \X Nat)]
    /\ aim \in [Threads -> [i : Nat, saw : Seq(Env)]] /\ load \in [Threads -> Nat]
    /\ emitted \in Numbers
    /\ evicted \in [Clients -> Seq(Env)] /\ got \in [Clients -> Seq(Env)]
    /\ refused \in [Clients -> BOOLEAN] /\ before \in [Clients -> Numbers]
    /\ last \in [Clients \X (1..MaxAttach) -> Numbers]

\* A put is on a queue that a client has or had.  A publisher's envelope is the
\* latest it emitted, and the queue is one it has visited; a client's is a
\* snapshot for its own queue.
ThreadInv(t) ==
    /\ pc[t] \in PutSteps => \E c \in Clients, k \in Nat : at[t] = <<c, k>> /\ k <= attaches[c]
    /\ t \in Publishers /\ pc[t] \in Busy => env[t].from = t /\ env[t].n = emitted[t] /\ emitted[t] > 0
    /\ t \in Publishers /\ pc[t] \in PutSteps => at[t] \in seen[t]
    /\ t \in Clients => pc[t] \in PutSteps \cup {"idle"}
    /\ t \in Clients /\ pc[t] \in PutSteps =>
          /\ phase[t] = "attached" /\ at[t] = Key(t)
          /\ env[t].from = Snapshot /\ env[t].n <= emitted[Snapshot]

\* A client that is away has no queue, and nobody got anything from queues to come.
ClientInv(c) ==
    /\ attaches[c] <= MaxAttach /\ (phase[c] # "out" => attaches[c] > 0)
    /\ phase[c] = "out" => items[c] = <<>> /\ dropped[c] = 0 /\ evicted[c] = <<>> /\ got[c] = <<>>
    /\ \A k \in 1..MaxAttach, x \in Sources : k > attaches[c] => last[<<c, k>>][x] = 0

BookInv ==
    /\ TypeInv
    /\ \A t \in Threads : ThreadInv(t)
    /\ \A c \in Clients : ClientInv(c)

\* Sources and threads are told apart.
LEMMA Apart ==
    /\ Snapshot \in Sources /\ Snapshot \notin Publishers /\ Publishers \subseteq Sources
    /\ Publishers \subseteq Threads /\ Clients \subseteq Threads /\ Clients \cap Publishers = {}
    /\ \A t \in Threads : t \in Publishers \/ t \in Clients
BY FanoutAssumption DEF Sources, Threads

\* Only its own thread and publishers are ever at a client's queue.
LEMMA WhoIsOn ==
    ASSUME BookInv, NEW t \in Threads, NEW c \in Clients, On(t, c)
    PROVE  t \in Publishers \/ t = c
<1>1. CASE t \in Clients
  <2>1. at[t] = <<t, attaches[t]>> /\ at[t] = <<c, attaches[c]>>
    BY <1>1 DEF BookInv, ThreadInv, On, Key
  <2>. QED BY <2>1
<1>. QED BY <1>1, Apart

----------------------------------------------------------------------------
(* The kinds of steps                                                       *)

\* A put, or an iterator, ends without having stored or counted anything.
Quits(t) ==
    /\ pc[t] \in Busy /\ \A c \in Clients : On(t, c) => pc[t] \in {"pop", "found"}
    /\ \E l \in {"next", "idle", "dead"}, stored \in BOOLEAN :
          /\ Leave(t, l, stored)
          /\ t \in Clients => l = "idle" /\ ~stored
          /\ pc[t] = "next" => l # "next"
    /\ UNCHANGED queueVars

\* A put evicts the item at place i.
Evicts(t, c, i) ==
    /\ pc[t] \in {"pop", "found"} /\ On(t, c) /\ i \in 1..Len(items[c]) /\ Evict(c, i)
    /\ aim' \in [Threads -> [i : Nat, saw : Seq(Env)]]
    /\ Moves(t, "count") /\ UNCHANGED <<dropped, load>>

ClientStep(x) == Attach(x) \/ OnAttach(x) \/ Detach(x) \/ Get(x)
PublisherStep(p) == Publish(p) \/ Published(p) \/ \E c \in Clients : NextQueue(p, c)
ThreadStep(t) ==
    \/ Quits(t)
    \/ \E c \in Clients :
          \/ Scan(t, c) \/ Count(t, c) \/ Store(t, c) \/ PutAppend(t, c)
          \/ \E i \in Nat : Evicts(t, c, i)

\* Every step is of one of these kinds.
LEMMA StepKinds ==
    ASSUME BookInv, Next
    PROVE  \/ \E x \in Clients : ClientStep(x)
           \/ \E p \in Publishers : PublisherStep(p)
           \/ \E t \in Threads : ThreadStep(t)
<1>0. TypeInv
  BY DEF BookInv
<1>. DEFINE Goal == \/ \E x \in Clients : ClientStep(x)
                    \/ \E p \in Publishers : PublisherStep(p)
                    \/ \E t \in Threads : ThreadStep(t)
<1>1. ASSUME NEW t \in Threads, Raises(t), UNCHANGED queueVars, pc[t] \in Busy,
             \A c \in Clients : On(t, c) => pc[t] \in {"pop", "found"}
      PROVE  ThreadStep(t)
  <2>1. Leave(t, IF t \in Publishers \ Guarded THEN "dead" ELSE "idle", FALSE)
    BY <1>1 DEF Raises
  <2>2. t \in Clients => t \notin Publishers
    BY Apart
  <2>3. CASE t \in Publishers \ Guarded
    <3>1. Leave(t, "dead", FALSE)
      BY <2>1, <2>3
    <3>. QED BY <1>1, <2>2, <2>3, <3>1, Zenon DEF ThreadStep, Quits
  <2>4. CASE ~(t \in Publishers \ Guarded)
    <3>1. Leave(t, "idle", FALSE)
      BY <2>1, <2>4
    <3>. QED BY <1>1, <3>1, Zenon DEF ThreadStep, Quits
  <2>. QED BY <2>3, <2>4
<1>2. ASSUME NEW t \in Threads, NEW stored \in BOOLEAN, Returns(t, stored), UNCHANGED queueVars,
             pc[t] \in PutSteps, t \in Clients => ~stored,
             \A c \in Clients : On(t, c) => pc[t] \in {"pop", "found"}
      PROVE  ThreadStep(t)
  <2>1. Leave(t, IF t \in Publishers THEN "next" ELSE "idle", stored)
    BY <1>2 DEF Returns
  <2>2. pc[t] # "next" /\ pc[t] \in Busy
    BY <1>2 DEF PutSteps, Busy
  <2>3. CASE t \in Publishers
    <3>1. Leave(t, "next", stored) /\ t \notin Clients
      BY <2>1, <2>3, Apart
    <3>. QED BY <1>2, <2>2, <3>1, Zenon DEF ThreadStep, Quits
  <2>4. CASE t \notin Publishers
    <3>1. Leave(t, "idle", stored)
      BY <2>1, <2>4
    <3>. QED BY <1>2, <2>2, <3>1, Zenon DEF ThreadStep, Quits
  <2>. QED BY <2>3, <2>4
<1>3. ASSUME NEW t \in Threads, NEW c \in Clients, Pop(t, c) PROVE ThreadStep(t)
  <2>0. pc[t] = "pop" /\ On(t, c) /\ pc[t] \in Busy
    BY <1>3 DEF Pop, Busy, PutSteps
  <2>1. CASE items[c] # <<>> /\ Evict(c, 1) /\ Moves(t, "count") /\ UNCHANGED <<dropped, aim, load>>
    <3>1. 1 \in 1..Len(items[c])
      <4>1. items[c] \in Seq(Env)
        BY <1>0 DEF TypeInv
      <4>. QED BY <2>1, <4>1, EmptySeq
    <3>2. aim' \in [Threads -> [i : Nat, saw : Seq(Env)]]
      BY <1>0, <2>1 DEF TypeInv
    <3>3. Evicts(t, c, 1)
      BY <2>0, <2>1, <3>1, <3>2 DEF Evicts
    <3>. QED BY <3>3 DEF ThreadStep
  <2>2. CASE Raises(t) /\ UNCHANGED queueVars
    BY <1>1, <2>0, <2>2
  <2>. QED BY <1>3, <2>1, <2>2 DEF Pop
<1>4. ASSUME NEW t \in Threads, NEW c \in Clients, Found(t, c) PROVE ThreadStep(t)
  <2>0. pc[t] = "found" /\ On(t, c) /\ pc[t] \in Busy /\ pc[t] \in PutSteps
    BY <1>4 DEF Found, Busy, PutSteps
  <2>1. CASE /\ aim[t].i \in 1..Len(items[c]) /\ Evict(c, aim[t].i)
             /\ aim' = [aim EXCEPT ![t] = NoAim] /\ Moves(t, "count") /\ UNCHANGED <<dropped, load>>
    <3>1. NoAim \in [i : Nat, saw : Seq(Env)]
      BY DEF NoAim
    <3>2. aim' \in [Threads -> [i : Nat, saw : Seq(Env)]] /\ aim[t].i \in Nat
      BY <1>0, <2>1, <3>1 DEF TypeInv
    <3>3. Evicts(t, c, aim[t].i)
      BY <2>0, <2>1, <3>2 DEF Evicts
    <3>. QED BY <3>2, <3>3 DEF ThreadStep
  <2>2. CASE Raises(t) /\ UNCHANGED queueVars
    BY <1>1, <2>0, <2>2
  <2>3. CASE Returns(t, FALSE) /\ UNCHANGED queueVars
    BY <1>2, <2>0, <2>3
  <2>. QED BY <1>4, <2>1, <2>2, <2>3 DEF Found
<1>5. ASSUME NEW p \in Publishers, PutGarbage(p) PROVE ThreadStep(p)
  <2>1. pc[p] \in PutSteps /\ pc[p] \in Busy /\ p \in Threads /\ p \notin Clients
    BY <1>5, Apart DEF PutGarbage, Busy
  <2>. QED BY <1>1, <1>2, <1>5, <2>1 DEF PutGarbage
<1>6. ASSUME NEW p \in Publishers, NextRaises(p) PROVE ThreadStep(p)
  <2>1. pc[p] \in Busy /\ p \in Threads /\ \A c \in Clients : ~On(p, c)
    BY <1>6, Apart DEF NextRaises, Busy, On, PutSteps
  <2>. QED BY <1>1, <1>6, <2>1 DEF NextRaises
<1>7. CASE \E c \in Clients : Attach(c) \/ OnAttach(c) \/ Detach(c) \/ Get(c)
  BY <1>7 DEF ClientStep
<1>8. CASE \E p \in Publishers : \/ Publish(p) \/ NextRaises(p) \/ PutGarbage(p) \/ Published(p)
                                 \/ \E c \in Clients : NextQueue(p, c)
  BY <1>5, <1>6, <1>8, Apart DEF PublisherStep
<1>9. CASE \E t \in Threads, c \in Clients : Put(t, c)
  BY <1>3, <1>4, <1>9 DEF Put, ThreadStep
<1>. QED BY <1>7, <1>8, <1>9 DEF Next

----------------------------------------------------------------------------
(* The books hold                                                           *)

\* At the start.
LEMMA BookStart == ASSUME Init PROVE BookInv
<1>1. TypeInv
  <2>1. Envelope(Snapshot, 0, "control") \in Env
    BY Apart DEF Envelope, Env, Types
  <2>2. NoAim \in [i : Nat, saw : Seq(Env)]
    BY DEF NoAim
  <2>3. [s \in Sources |-> 0] \in Numbers
    BY DEF Numbers
  <2>4. refused \in [Clients -> BOOLEAN]
    BY Zenon DEF Init
  <2>5. /\ phase \in [Clients -> Phases] /\ pc \in [Threads -> Labels]
        /\ keys \in [Publishers -> SUBSET (Clients \X Nat)]
        /\ seen \in [Publishers -> SUBSET (Clients \X Nat)]
    BY DEF Init, Phases, Labels
  <2>6. /\ attaches \in [Clients -> Nat] /\ dropped \in [Clients -> Nat]
        /\ items \in [Clients -> Seq(Env)] /\ evicted \in [Clients -> Seq(Env)]
        /\ got \in [Clients -> Seq(Env)] /\ load \in [Threads -> Nat]
    BY DEF Init
  <2>7. /\ env \in [Threads -> Env] /\ aim \in [Threads -> [i : Nat, saw : Seq(Env)]]
        /\ at \in [Threads -> {Nowhere} \cup (Clients \X Nat)] /\ emitted \in Numbers
        /\ before \in [Clients -> Numbers] /\ last \in [Clients \X (1..MaxAttach) -> Numbers]
    BY <2>1, <2>2, <2>3 DEF Init
  <2>. QED BY <2>4, <2>5, <2>6, <2>7 DEF TypeInv
<1>2. \A t \in Threads : ThreadInv(t)
  BY DEF Init, ThreadInv, PutSteps, Busy
<1>3. \A c \in Clients : ClientInv(c)
  BY FanoutAssumption DEF Init, ClientInv
<1>. QED BY <1>1, <1>2, <1>3 DEF BookInv

\* The actions of a client.
LEMMA BookClient ==
    ASSUME BookInv, NEW x \in Clients, ClientStep(x) PROVE BookInv'
<1>0. TypeInv /\ (\A t \in Threads : ThreadInv(t)) /\ \A c \in Clients : ClientInv(c)
  BY DEF BookInv
<1>00. Key(x) \in Clients \X Nat /\ x \in Threads /\ x \notin Publishers
  BY <1>0, Apart DEF Key, TypeInv
<1>1. CASE Attach(x)
  <2>1. /\ phase[x] = "out" /\ attaches[x] < MaxAttach /\ phase' = [phase EXCEPT ![x] = "attached"]
        /\ attaches' = [attaches EXCEPT ![x] = attaches[x] + 1]
        /\ UNCHANGED <<items, dropped, evicted, got, refused, before, last, keys, seen, at, aim, load,
                       pc, env, emitted>>
    BY <1>1 DEF Attach, queueVars, iterVars, putVars
  <2>2. TypeInv'
    BY <1>0, <2>1 DEF TypeInv, Phases
  <2>3. ASSUME NEW t \in Threads PROVE ThreadInv(t)'
    <3>1. t = x => pc[t] \notin PutSteps
      BY <1>0, <2>1 DEF ThreadInv
    <3>2. t # x /\ t \in Clients => phase'[t] = phase[t] /\ Key(t)' = Key(t)
      BY <1>0, <2>1 DEF TypeInv, Key
    <3>3. \A c \in Clients : attaches[c] \in Nat /\ attaches'[c] >= attaches[c] /\ attaches'[c] \in Nat
      BY <1>0, <2>1 DEF TypeInv
    <3>4. pc[t] \in PutSteps =>
              \E c \in Clients, k \in Nat : at[t] = <<c, k>> /\ k <= attaches'[c]
      BY <1>0, <3>3 DEF ThreadInv
    <3>. QED BY <1>0, <2>1, <3>1, <3>2, <3>4 DEF ThreadInv
  <2>4. ASSUME NEW c \in Clients PROVE ClientInv(c)'
    BY <1>0, <2>1, FanoutAssumption DEF TypeInv, ClientInv
  <2>. QED BY <2>2, <2>3, <2>4 DEF BookInv
<1>2. CASE Detach(x)
  <2>1. /\ phase[x] = "in" /\ phase' = [phase EXCEPT ![x] = "out"]
        /\ items' = [items EXCEPT ![x] = <<>>] /\ dropped' = [dropped EXCEPT ![x] = 0]
        /\ evicted' = [evicted EXCEPT ![x] = <<>>] /\ got' = [got EXCEPT ![x] = <<>>]
        /\ refused' = [refused EXCEPT ![x] = FALSE]
        /\ before' = [before EXCEPT ![x] = [s \in Sources |-> 0]]
        /\ UNCHANGED <<attaches, last, keys, seen, at, aim, load, pc, env, emitted>>
    BY <1>2 DEF Detach, iterVars, putVars
  <2>2. TypeInv'
    <3>1. [s \in Sources |-> 0] \in Numbers
      BY DEF Numbers
    <3>. QED BY <1>0, <2>1, <3>1 DEF TypeInv, Phases
  <2>3. ASSUME NEW t \in Threads PROVE ThreadInv(t)'
    <3>1. t = x => pc[t] \notin PutSteps
      BY <1>0, <2>1 DEF ThreadInv
    <3>2. t # x /\ t \in Clients => phase'[t] = phase[t] /\ Key(t)' = Key(t)
      BY <1>0, <2>1 DEF TypeInv, Key
    <3>. QED BY <1>0, <2>1, <3>1, <3>2 DEF ThreadInv
  <2>4. ASSUME NEW c \in Clients PROVE ClientInv(c)'
    BY <1>0, <2>1 DEF TypeInv, ClientInv
  <2>. QED BY <2>2, <2>3, <2>4 DEF BookInv
<1>3. CASE OnAttach(x)
  <2>. DEFINE e == Envelope(Snapshot, emitted[Snapshot] + 1, "control")
              l == AfterTest(e, x)
  <2>1. /\ phase[x] = "attached" /\ emitted' = [emitted EXCEPT ![Snapshot] = emitted[Snapshot] + 1]
        /\ env' = [env EXCEPT ![x] = e] /\ at' = [at EXCEPT ![x] = Key(x)]
        /\ pc' = [pc EXCEPT ![x] = l]
        /\ UNCHANGED <<items, dropped, evicted, phase, attaches, got, refused, before, last,
                       keys, seen, aim, load>>
    BY <1>3 DEF OnAttach, Goto, queueVars, clientVars, iterVars
  <2>2. e \in Env /\ e.from = Snapshot /\ e.n = emitted[Snapshot] + 1 /\ emitted[Snapshot] \in Nat
    BY <1>0, Apart DEF Envelope, Env, Types, TypeInv, Numbers
  <2>3. l \in PutSteps /\ l \in Labels
    BY DEF AfterTest, PutSteps, Labels
  <2>. HIDE DEF e, l
  <2>4. /\ emitted' \in Numbers /\ emitted'[Snapshot] = emitted[Snapshot] + 1
        /\ \A s \in Sources : s # Snapshot => emitted'[s] = emitted[s]
    BY <1>0, <2>1, <2>2, Apart DEF TypeInv, Numbers
  <2>5. TypeInv'
    BY <1>0, <1>00, <2>1, <2>2, <2>3, <2>4 DEF TypeInv
  <2>6. ASSUME NEW t \in Threads PROVE ThreadInv(t)'
    <3>1. CASE t # x
      <4>1. /\ pc'[t] = pc[t] /\ at'[t] = at[t] /\ env'[t] = env[t] /\ Key(t)' = Key(t)
            /\ (t \in Publishers => emitted'[t] = emitted[t]) /\ env[t].n \in Nat
        BY <1>0, <2>1, <2>4, <3>1, Apart DEF TypeInv, Key, Env
      <4>. QED BY <1>0, <2>1, <2>2, <2>4, <4>1 DEF ThreadInv
    <3>2. CASE t = x
      <4>1. pc'[t] \in PutSteps /\ at'[t] = Key(t) /\ env'[t] = e /\ Key(t)' = Key(t)
        BY <1>0, <2>1, <2>3, <3>2 DEF TypeInv, Key
      <4>2. at'[t] = <<t, attaches[t]>> /\ attaches[t] \in Nat
        BY <1>0, <3>2, <4>1 DEF Key, TypeInv
      <4>. QED BY <1>00, <2>1, <2>2, <2>4, <3>2, <4>1, <4>2 DEF ThreadInv
    <3>. QED BY <3>1, <3>2
  <2>7. ASSUME NEW c \in Clients PROVE ClientInv(c)'
    BY <1>0, <2>1 DEF ClientInv
  <2>. QED BY <2>5, <2>6, <2>7 DEF BookInv
<1>4. CASE Get(x)
  <2>. DEFINE e == Head(items[x])
              k == Key(x)
  <2>1. /\ x \in Attached /\ items[x] # <<>> /\ got' = [got EXCEPT ![x] = Append(got[x], e)]
        /\ last' = [last EXCEPT ![k][e.from] = e.n] /\ items' = [items EXCEPT ![x] = Tail(items[x])]
        /\ UNCHANGED <<phase, attaches, refused, before, dropped, evicted, keys, seen, at, aim, load,
                       pc, env, emitted>>
    BY <1>4 DEF Get, iterVars, putVars
  <2>2. e \in Env /\ Tail(items[x]) \in Seq(Env) /\ e.from \in Sources /\ e.n \in Nat
    <3>1. items[x] \in Seq(Env)
      BY <1>0 DEF TypeInv
    <3>2. e \in Env /\ Tail(items[x]) \in Seq(Env)
      BY <2>1, <3>1, HeadTailProperties
    <3>. QED BY <3>2 DEF Env
  <2>3. /\ k \in Clients \X (1..MaxAttach) /\ k = <<x, attaches[x]>> /\ attaches[x] \in Nat
        /\ phase[x] # "out"
    <3>1. attaches[x] \in 1..MaxAttach /\ phase[x] # "out" /\ attaches[x] \in Nat
      BY <1>0, <2>1, FanoutAssumption DEF ClientInv, Attached, TypeInv
    <3>. QED BY <3>1 DEF Key
  <2>. HIDE DEF e, k
  <2>4. last[k] \in Numbers /\ [last[k] EXCEPT ![e.from] = e.n] \in Numbers
    BY <1>0, <2>2, <2>3 DEF TypeInv, Numbers
  <2>5. /\ last' = [last EXCEPT ![k] = [last[k] EXCEPT ![e.from] = e.n]]
        /\ last' \in [Clients \X (1..MaxAttach) -> Numbers]
    BY <1>0, <2>1, <2>3, <2>4 DEF TypeInv
  <2>6. TypeInv'
    <3>1. Append(got[x], e) \in Seq(Env)
      BY <1>0, <2>2 DEF TypeInv
    <3>. QED BY <1>0, <2>1, <2>2, <2>5, <3>1 DEF TypeInv
  <2>7. ASSUME NEW t \in Threads PROVE ThreadInv(t)'
    BY <1>0, <2>1 DEF ThreadInv, Key
  <2>8. ASSUME NEW c \in Clients PROVE ClientInv(c)'
    <3>1. phase[c] = "out" => c # x
      BY <2>3
    <3>2. phase[c] = "out" => items'[c] = items[c] /\ got'[c] = got[c]
      BY <1>0, <2>1, <3>1 DEF TypeInv
    <3>3. ASSUME NEW i \in 1..MaxAttach, i > attaches[c] PROVE last'[<<c, i>>] = last[<<c, i>>]
      <4>1. <<c, i>> # k
        BY <2>3, <3>3
      <4>. QED BY <1>0, <2>5, <4>1 DEF TypeInv
    <3>. QED BY <1>0, <2>1, <3>2, <3>3 DEF ClientInv
  <2>. QED BY <2>6, <2>7, <2>8 DEF BookInv
<1>. QED BY <1>1, <1>2, <1>3, <1>4 DEF ClientStep

\* The iterator of a publisher.
LEMMA BookPublisher ==
    ASSUME BookInv, NEW p \in Publishers, PublisherStep(p) PROVE BookInv'
<1>0. TypeInv /\ (\A t \in Threads : ThreadInv(t)) /\ \A c \in Clients : ClientInv(c)
  BY DEF BookInv
<1>00. p \in Threads /\ p \notin Clients /\ p \in Sources /\ p # Snapshot
  BY Apart
<1>1. CASE Publish(p)
  <2>1. PICK y \in Types : env' = [env EXCEPT ![p] = Envelope(p, emitted[p] + 1, y)]
    BY <1>1 DEF Publish
  <2>2. /\ emitted' = [emitted EXCEPT ![p] = emitted[p] + 1]
        /\ keys' = [keys EXCEPT ![p] = Keys] /\ seen' = [seen EXCEPT ![p] = {}]
        /\ pc' = [pc EXCEPT ![p] = "next"]
        /\ UNCHANGED <<items, dropped, evicted, phase, attaches, got, refused, before, last,
                       at, aim, load>>
    BY <1>1 DEF Publish, Goto, queueVars, clientVars, putVars
  <2>3. /\ emitted[p] \in Nat /\ emitted' \in Numbers /\ emitted'[p] = emitted[p] + 1
        /\ \A s \in Sources : s # p => emitted'[s] = emitted[s]
    BY <1>0, <1>00, <2>2 DEF TypeInv, Numbers
  <2>. DEFINE e == Envelope(p, emitted[p] + 1, y)
  <2>4. e \in Env /\ e.from = p /\ e.n = emitted[p] + 1
    BY <1>00, <2>3 DEF Envelope, Env
  <2>. HIDE DEF e
  <2>5. Keys \subseteq Clients \X Nat
    BY <1>0 DEF Keys, Key, Attached, TypeInv
  <2>6. "next" \in Labels /\ "next" \notin PutSteps
    BY DEF Labels, PutSteps
  <2>7. env' = [env EXCEPT ![p] = e]
    BY <2>1 DEF e
  <2>8. TypeInv'
    <3>1. keys' \in [Publishers -> SUBSET (Clients \X Nat)]
      BY <1>0, <2>2, <2>5 DEF TypeInv
    <3>2. seen' \in [Publishers -> SUBSET (Clients \X Nat)]
      BY <1>0, <2>2 DEF TypeInv
    <3>3. env' \in [Threads -> Env] /\ pc' \in [Threads -> Labels]
      BY <1>0, <1>00, <2>2, <2>4, <2>6, <2>7 DEF TypeInv
    <3>. QED BY <1>0, <2>2, <2>3, <3>1, <3>2, <3>3 DEF TypeInv
  <2>9. ASSUME NEW t \in Threads PROVE ThreadInv(t)'
    <3>1. CASE t = p
      <4>1. pc'[t] = "next" /\ env'[t] = e
        BY <1>0, <1>00, <2>2, <2>7, <3>1 DEF TypeInv
      <4>. QED BY <1>00, <2>3, <2>4, <2>6, <3>1, <4>1 DEF ThreadInv
    <3>2. CASE t # p
      <4>1. /\ pc'[t] = pc[t] /\ env'[t] = env[t] /\ Key(t)' = Key(t)
            /\ (t \in Publishers => emitted'[t] = emitted[t] /\ seen'[t] = seen[t])
            /\ emitted'[Snapshot] = emitted[Snapshot]
        BY <1>0, <1>00, <2>2, <2>3, <2>7, <3>2, Apart DEF TypeInv, Key
      <4>. QED BY <1>0, <2>2, <4>1 DEF ThreadInv
    <3>. QED BY <3>1, <3>2
  <2>10. ASSUME NEW c \in Clients PROVE ClientInv(c)'
    BY <1>0, <2>2 DEF ClientInv
  <2>. QED BY <2>8, <2>9, <2>10 DEF BookInv
<1>2. CASE Published(p)
  <2>1. /\ pc' = [pc EXCEPT ![p] = "idle"] /\ keys' = [keys EXCEPT ![p] = {}]
        /\ seen' = [seen EXCEPT ![p] = {}]
        /\ UNCHANGED <<items, dropped, evicted, phase, attaches, got, refused, before, last,
                       at, aim, load, env, emitted>>
    BY <1>2 DEF Published, Goto, queueVars, clientVars, putVars
  <2>2. "idle" \in Labels /\ "idle" \notin Busy /\ "idle" \notin PutSteps
    BY DEF Labels, PutSteps, Busy
  <2>3. TypeInv'
    <3>1. keys' \in [Publishers -> SUBSET (Clients \X Nat)] /\ pc' \in [Threads -> Labels]
          /\ seen' \in [Publishers -> SUBSET (Clients \X Nat)]
      BY <1>0, <2>1, <2>2 DEF TypeInv
    <3>. QED BY <1>0, <2>1, <3>1 DEF TypeInv
  <2>4. ASSUME NEW t \in Threads PROVE ThreadInv(t)'
    <3>1. CASE t = p
      <4>1. pc'[t] = "idle"
        BY <1>0, <1>00, <2>1, <3>1 DEF TypeInv
      <4>. QED BY <1>00, <2>2, <3>1, <4>1 DEF ThreadInv
    <3>2. CASE t # p
      <4>1. /\ pc'[t] = pc[t] /\ Key(t)' = Key(t) /\ (t \in Publishers => seen'[t] = seen[t])
        BY <1>0, <1>00, <2>1, <3>2 DEF TypeInv, Key
      <4>. QED BY <1>0, <2>1, <4>1 DEF ThreadInv
    <3>. QED BY <3>1, <3>2
  <2>5. ASSUME NEW c \in Clients PROVE ClientInv(c)'
    BY <1>0, <2>1 DEF ClientInv
  <2>. QED BY <2>3, <2>4, <2>5 DEF BookInv
<1>3. ASSUME NEW x \in Clients, NextQueue(p, x) PROVE BookInv'
  <2>. DEFINE l == AfterTest(env[p], x)
              k == Key(x)
  <2>1. /\ pc[p] = "next" /\ pc' = [pc EXCEPT ![p] = l] /\ at' = [at EXCEPT ![p] = k]
        /\ seen' = [seen EXCEPT ![p] = seen[p] \cup {k}]
        /\ UNCHANGED <<items, dropped, evicted, phase, attaches, got, refused, before, last,
                       keys, aim, load, env, emitted>>
    BY <1>3 DEF NextQueue, Goto, queueVars, clientVars
  <2>2. l \in PutSteps /\ l \in Labels /\ l \in Busy /\ "next" \in Busy
    BY DEF AfterTest, PutSteps, Labels, Busy
  <2>3. k = <<x, attaches[x]>> /\ k \in Clients \X Nat /\ attaches[x] \in Nat
    BY <1>0 DEF Key, TypeInv
  <2>. HIDE DEF l, k
  <2>4. TypeInv'
    <3>1. seen' \in [Publishers -> SUBSET (Clients \X Nat)]
      BY <1>0, <2>1, <2>3 DEF TypeInv
    <3>2. pc' \in [Threads -> Labels] /\ at' \in [Threads -> {Nowhere} \cup (Clients \X Nat)]
      BY <1>0, <2>1, <2>2, <2>3 DEF TypeInv
    <3>. QED BY <1>0, <2>1, <3>1, <3>2 DEF TypeInv
  <2>5. ASSUME NEW t \in Threads PROVE ThreadInv(t)'
    <3>1. CASE t = p
      <4>1. pc'[t] = l /\ at'[t] = k /\ k \in seen'[t]
        BY <1>0, <1>00, <2>1, <3>1 DEF TypeInv
      <4>2. env[t].from = t /\ env[t].n = emitted[t] /\ emitted[t] > 0
        BY <1>0, <2>1, <2>2, <3>1 DEF ThreadInv
      <4>. QED BY <1>00, <2>1, <2>2, <2>3, <3>1, <4>1, <4>2 DEF ThreadInv
    <3>2. CASE t # p
      <4>1. /\ pc'[t] = pc[t] /\ at'[t] = at[t] /\ Key(t)' = Key(t)
            /\ (t \in Publishers => seen'[t] = seen[t])
        BY <1>0, <1>00, <2>1, <3>2 DEF TypeInv, Key
      <4>. QED BY <1>0, <2>1, <4>1 DEF ThreadInv
    <3>. QED BY <3>1, <3>2
  <2>6. ASSUME NEW c \in Clients PROVE ClientInv(c)'
    BY <1>0, <2>1 DEF ClientInv
  <2>. QED BY <2>4, <2>5, <2>6 DEF BookInv
<1>. QED BY <1>1, <1>2, <1>3 DEF PublisherStep

\* What every end of a put does, stored or not: the thread is on no queue, and
\* a client's thread was, so that the client is in now.
LEMMA LeaveIs ==
    ASSUME BookInv, NEW t \in Threads, pc[t] \in Busy,
           NEW l \in {"next", "idle", "dead"}, NEW stored \in BOOLEAN, Leave(t, l, stored)
    PROVE  /\ pc' = [pc EXCEPT ![t] = l] /\ at' = [at EXCEPT ![t] = Nowhere]
           /\ aim' = [aim EXCEPT ![t] = NoAim] /\ load' = [load EXCEPT ![t] = 0]
           /\ UNCHANGED <<attaches, got, last, keys, seen, env, emitted>>
           /\ t \in Publishers => UNCHANGED <<phase, refused, before>>
           /\ t \in Clients => /\ phase[t] = "attached" /\ phase' = [phase EXCEPT ![t] = "in"]
                               /\ refused' = [refused EXCEPT ![t] = ~stored]
                               /\ before' = [before EXCEPT ![t] = emitted]
           /\ l \in Labels /\ l \notin PutSteps
<1>1. t \in Clients => phase[t] = "attached" /\ t \notin Publishers
  <2>1. t \in Clients => pc[t] \in PutSteps \cup {"idle"}
    BY DEF BookInv, ThreadInv
  <2>. QED BY <2>1, Apart DEF BookInv, ThreadInv, Busy
<1>2. t \in Publishers => t \notin Clients
  BY Apart
<1>3. l \in Labels /\ l \notin PutSteps
  BY DEF Labels, PutSteps
<1>. QED BY <1>1, <1>2, <1>3 DEF Leave, Goto, iterVars

\* The end of a put keeps the books, if the queues do.
LEMMA BookLeave ==
    ASSUME BookInv, NEW t \in Threads, pc[t] \in Busy,
           NEW l \in {"next", "idle", "dead"}, NEW stored \in BOOLEAN, Leave(t, l, stored),
           t \in Clients => l = "idle",
           items' \in [Clients -> Seq(Env)], UNCHANGED <<dropped, evicted>>,
           \A c \in Clients : phase[c] = "out" => items'[c] = items[c]
    PROVE  BookInv'
<1>0. TypeInv /\ (\A u \in Threads : ThreadInv(u)) /\ \A c \in Clients : ClientInv(c)
  BY DEF BookInv
<1>1. /\ pc' = [pc EXCEPT ![t] = l] /\ at' = [at EXCEPT ![t] = Nowhere]
      /\ aim' = [aim EXCEPT ![t] = NoAim] /\ load' = [load EXCEPT ![t] = 0]
      /\ UNCHANGED <<attaches, got, last, keys, seen, env, emitted>>
      /\ t \in Publishers => UNCHANGED <<phase, refused, before>>
      /\ t \in Clients => /\ phase[t] = "attached" /\ phase' = [phase EXCEPT ![t] = "in"]
                          /\ refused' = [refused EXCEPT ![t] = ~stored]
                          /\ before' = [before EXCEPT ![t] = emitted]
      /\ l \in Labels /\ l \notin PutSteps
  BY LeaveIs
<1>2. /\ phase' \in [Clients -> Phases]
      /\ \A c \in Clients : phase'[c] = phase[c] \/ (c = t /\ phase[c] = "attached" /\ phase'[c] = "in")
  <2>1. CASE t \in Publishers
    BY <1>0, <1>1, <2>1 DEF TypeInv
  <2>2. CASE t \in Clients
    BY <1>0, <1>1, <2>2 DEF TypeInv, Phases
  <2>. QED BY <2>1, <2>2, Apart
<1>3. refused' \in [Clients -> BOOLEAN]
  <2>1. CASE t \in Publishers
    BY <1>0, <1>1, <2>1 DEF TypeInv
  <2>2. CASE t \in Clients
    <3>1. refused' = [refused EXCEPT ![t] = ~stored] /\ refused \in [Clients -> BOOLEAN]
      BY <1>0, <1>1, <2>2 DEF TypeInv
    <3>. QED BY <3>1, Zenon
  <2>. QED BY <2>1, <2>2, Apart
<1>4. before' \in [Clients -> Numbers]
  <2>1. before \in [Clients -> Numbers] /\ emitted \in Numbers
    BY <1>0 DEF TypeInv
  <2>2. CASE t \in Publishers
    BY <1>1, <2>1, <2>2
  <2>3. CASE t \in Clients
    BY <1>1, <2>1, <2>3
  <2>. QED BY <2>2, <2>3, Apart
<1>5. TypeInv'
  <2>1. NoAim \in [i : Nat, saw : Seq(Env)]
    BY DEF NoAim
  <2>2. /\ aim' \in [Threads -> [i : Nat, saw : Seq(Env)]] /\ load' \in [Threads -> Nat]
        /\ pc' \in [Threads -> Labels] /\ at' \in [Threads -> {Nowhere} \cup (Clients \X Nat)]
    BY <1>0, <1>1, <2>1 DEF TypeInv
  <2>. QED BY <1>0, <1>1, <1>2, <1>3, <1>4, <2>2 DEF TypeInv
<1>6. ASSUME NEW u \in Threads PROVE ThreadInv(u)'
  <2>1. CASE u = t
    <3>1. pc'[u] = l
      BY <1>0, <1>1, <2>1 DEF TypeInv
    <3>2. u \in Publishers => env[u].from = u /\ env[u].n = emitted[u] /\ emitted[u] > 0
      BY <1>0, <2>1 DEF ThreadInv
    <3>3. pc'[u] \notin PutSteps /\ (u \in Clients => pc'[u] = "idle")
      BY <1>1, <2>1, <3>1
    <3>4. u \in Publishers => env'[u].from = u /\ env'[u].n = emitted'[u] /\ emitted'[u] > 0
      BY <1>1, <3>2
    <3>. QED BY <3>3, <3>4 DEF ThreadInv
  <2>2. CASE u # t
    <3>1. /\ pc'[u] = pc[u] /\ at'[u] = at[u] /\ Key(u)' = Key(u)
          /\ u \in Clients => phase'[u] = phase[u]
      BY <1>0, <1>1, <1>2, <2>2 DEF TypeInv, Key
    <3>2. UNCHANGED <<attaches, seen, env, emitted>> /\ ThreadInv(u)
      BY <1>0, <1>1
    <3>. QED BY <3>1, <3>2 DEF ThreadInv
  <2>. QED BY <2>1, <2>2
<1>7. ASSUME NEW c \in Clients PROVE ClientInv(c)'
  <2>1. phase'[c] = "out" => phase[c] = "out"
    BY <1>2
  <2>2. phase'[c] # "out" => phase[c] # "out"
    BY <1>2
  <2>. QED BY <1>0, <1>1, <2>1, <2>2 DEF ClientInv
<1>. QED BY <1>5, <1>6, <1>7 DEF BookInv

\* An eviction takes one item out, and keeps the order of the others.
LEMMA EvictIs ==
    ASSUME TypeInv, NEW c \in Clients, NEW i \in 1..Len(items[c]), Evict(c, i)
    PROVE  /\ items' = [items EXCEPT ![c] = RemoveAt(items[c], i)]
           /\ evicted' = [evicted EXCEPT ![c] = Append(evicted[c], items[c][i])]
           /\ items'[c] = RemoveAt(items[c], i) /\ evicted'[c] = Append(evicted[c], items[c][i])
           /\ items' \in [Clients -> Seq(Env)] /\ evicted' \in [Clients -> Seq(Env)]
           /\ Len(items'[c]) = Len(items[c]) - 1 /\ Len(evicted'[c]) = Len(evicted[c]) + 1
           /\ \A j \in 1..(Len(items[c]) - 1) :
                 items'[c][j] = IF j < i THEN items[c][j] ELSE items[c][j + 1]
<1>1. /\ items' = [items EXCEPT ![c] = RemoveAt(items[c], i)]
      /\ evicted' = [evicted EXCEPT ![c] = Append(evicted[c], items[c][i])]
  BY DEF Evict
<1>2. items[c] \in Seq(Env) /\ evicted[c] \in Seq(Env) /\ items[c][i] \in Env
  <2>1. items[c] \in Seq(Env) /\ evicted[c] \in Seq(Env)
    BY DEF TypeInv
  <2>. QED BY <2>1, ElementOfSeq
<1>3. /\ RemoveAt(items[c], i) \in Seq(Env) /\ Len(RemoveAt(items[c], i)) = Len(items[c]) - 1
      /\ \A j \in 1..(Len(items[c]) - 1) :
            RemoveAt(items[c], i)[j] = IF j < i THEN items[c][j] ELSE items[c][j + 1]
  BY <1>2, RemoveAtIs
<1>4. /\ Append(evicted[c], items[c][i]) \in Seq(Env)
      /\ Len(Append(evicted[c], items[c][i])) = Len(evicted[c]) + 1
  BY <1>2, AppendProperties
<1>5. /\ items'[c] = RemoveAt(items[c], i) /\ evicted'[c] = Append(evicted[c], items[c][i])
      /\ items' \in [Clients -> Seq(Env)] /\ evicted' \in [Clients -> Seq(Env)]
  BY <1>1, <1>3, <1>4 DEF TypeInv
<1>. QED BY <1>1, <1>3, <1>4, <1>5

\* A thread on a queue stays on it.
LEMMA BookMoves ==
    ASSUME BookInv, NEW t \in Threads, pc[t] \in PutSteps, NEW l \in PutSteps, Moves(t, l),
           items' \in [Clients -> Seq(Env)], dropped' \in [Clients -> Nat],
           evicted' \in [Clients -> Seq(Env)], load' \in [Threads -> Nat],
           aim' \in [Threads -> [i : Nat, saw : Seq(Env)]],
           \A c \in Clients : phase[c] = "out" =>
               items'[c] = items[c] /\ dropped'[c] = dropped[c] /\ evicted'[c] = evicted[c]
    PROVE  BookInv'
<1>0. TypeInv /\ (\A u \in Threads : ThreadInv(u)) /\ \A c \in Clients : ClientInv(c)
  BY DEF BookInv
<1>1. /\ pc' = [pc EXCEPT ![t] = l]
      /\ UNCHANGED <<phase, attaches, got, refused, before, last, keys, seen, env, emitted, at>>
  BY DEF Moves, Goto, clientVars, iterVars
<1>2. l \in Labels /\ l \in Busy /\ pc[t] \in Busy
  BY DEF Labels, Busy
<1>3. TypeInv'
  BY <1>0, <1>1, <1>2 DEF TypeInv
<1>4. ASSUME NEW u \in Threads PROVE ThreadInv(u)'
  <2>1. pc'[u] = pc[u] \/ (u = t /\ pc'[u] = l)
    BY <1>0, <1>1 DEF TypeInv
  <2>2. /\ pc'[u] \in PutSteps => pc[u] \in PutSteps
        /\ pc'[u] \in Busy => pc[u] \in Busy
        /\ pc[u] \in PutSteps \cup {"idle"} => pc'[u] \in PutSteps \cup {"idle"}
    BY <1>2, <2>1
  <2>3. Key(u)' = Key(u)
    BY <1>1 DEF Key
  <2>. QED BY <1>0, <1>1, <2>2, <2>3 DEF ThreadInv
<1>5. ASSUME NEW c \in Clients PROVE ClientInv(c)'
  BY <1>0, <1>1 DEF ClientInv
<1>. QED BY <1>3, <1>4, <1>5 DEF BookInv

\* The steps of put.
LEMMA BookThread ==
    ASSUME BookInv, NEW t \in Threads, ThreadStep(t) PROVE BookInv'
<1>0. TypeInv
  BY DEF BookInv
<1>1. CASE Quits(t)
  <2>1. PICK l \in {"next", "idle", "dead"}, stored \in BOOLEAN :
            Leave(t, l, stored) /\ (t \in Clients => l = "idle" /\ ~stored)
    BY <1>1 DEF Quits
  <2>2. pc[t] \in Busy /\ UNCHANGED <<items, dropped, evicted>>
    BY <1>1 DEF Quits, queueVars
  <2>3. items' \in [Clients -> Seq(Env)]
    BY <1>0, <2>2 DEF TypeInv
  <2>. QED BY <2>1, <2>2, <2>3, BookLeave
<1>2. ASSUME NEW c \in Clients, Scan(t, c) PROVE BookInv'
  <2>1. /\ pc[t] \in PutSteps /\ Moves(t, "found") /\ "found" \in PutSteps
        /\ UNCHANGED <<items, dropped, evicted, load>>
        /\ aim' = [aim EXCEPT ![t] = [i |-> SelectInSeq(items[c], Token), saw |-> items[c]]]
    BY <1>2 DEF Scan, On, queueVars, PutSteps
  <2>2. SelectInSeq(items[c], Token) \in Nat
    <3>. DEFINE I == {i \in 1..Len(items[c]) : Token(items[c][i])}
    <3>1. SelectInSeq(items[c], Token) = IF I # {} THEN Min(I) ELSE 0
      BY DEF SelectInSeq
    <3>2. I \in SUBSET Nat
      OBVIOUS
    <3>3. I # {} => Min(I) \in I
      <4>. HIDE DEF I
      <4>. QED BY <3>2, LeastExists
    <3>. QED BY <3>1, <3>2, <3>3
  <2>3. aim' \in [Threads -> [i : Nat, saw : Seq(Env)]]
    <3>. DEFINE n == SelectInSeq(items[c], Token)
    <3>1. n \in Nat
      BY <2>2
    <3>. HIDE DEF n
    <3>2. [i |-> n, saw |-> items[c]] \in [i : Nat, saw : Seq(Env)]
      BY <1>0, <3>1 DEF TypeInv
    <3>3. aim' = [aim EXCEPT ![t] = [i |-> n, saw |-> items[c]]]
      BY <2>1 DEF n
    <3>. QED BY <1>0, <3>2, <3>3 DEF TypeInv
  <2>4. /\ items' \in [Clients -> Seq(Env)] /\ dropped' \in [Clients -> Nat]
        /\ evicted' \in [Clients -> Seq(Env)] /\ load' \in [Threads -> Nat]
    BY <1>0, <2>1 DEF TypeInv
  <2>. QED BY <2>1, <2>3, <2>4, BookMoves
<1>3. ASSUME NEW c \in Clients, Count(t, c) PROVE BookInv'
  <2>1. /\ pc[t] \in PutSteps /\ Moves(t, "store") /\ "store" \in PutSteps
        /\ UNCHANGED <<items, dropped, evicted, aim>> /\ load' = [load EXCEPT ![t] = dropped[c]]
    BY <1>3 DEF Count, On, queueVars, PutSteps
  <2>2. /\ items' \in [Clients -> Seq(Env)] /\ dropped' \in [Clients -> Nat]
        /\ evicted' \in [Clients -> Seq(Env)] /\ load' \in [Threads -> Nat]
        /\ aim' \in [Threads -> [i : Nat, saw : Seq(Env)]]
    BY <1>0, <2>1 DEF TypeInv
  <2>. QED BY <2>1, <2>2, BookMoves
<1>4. ASSUME NEW c \in Clients, Store(t, c) PROVE BookInv'
  <2>1. /\ pc[t] \in PutSteps /\ Moves(t, "append") /\ "append" \in PutSteps /\ phase[c] # "out"
        /\ UNCHANGED <<items, evicted, aim>> /\ load' = [load EXCEPT ![t] = 0]
        /\ dropped' = [dropped EXCEPT ![c] = load[t] + 1]
    BY <1>4 DEF Store, On, PutSteps, Attached
  <2>2. /\ items' \in [Clients -> Seq(Env)] /\ dropped' \in [Clients -> Nat]
        /\ evicted' \in [Clients -> Seq(Env)] /\ load' \in [Threads -> Nat]
        /\ aim' \in [Threads -> [i : Nat, saw : Seq(Env)]]
        /\ \A d \in Clients : d # c => dropped'[d] = dropped[d]
    BY <1>0, <2>1 DEF TypeInv
  <2>. QED BY <2>1, <2>2, BookMoves
<1>5. ASSUME NEW c \in Clients, PutAppend(t, c) PROVE BookInv'
  <2>1. /\ pc[t] \in Busy /\ pc[t] = "append" /\ UNCHANGED <<dropped, evicted>> /\ phase[c] # "out"
        /\ items' = [items EXCEPT ![c] = Append(items[c], env[t])]
        /\ Leave(t, IF t \in Publishers THEN "next" ELSE "idle", TRUE)
    BY <1>5 DEF PutAppend, On, PutSteps, Busy, Attached, Returns
  <2>2. /\ items' \in [Clients -> Seq(Env)] /\ \A d \in Clients : d # c => items'[d] = items[d]
    <3>1. items[c] \in Seq(Env) /\ env[t] \in Env
      BY <1>0 DEF TypeInv
    <3>2. Append(items[c], env[t]) \in Seq(Env)
      BY <3>1
    <3>. QED BY <1>0, <2>1, <3>2 DEF TypeInv
  <2>3. CASE t \in Publishers
    <3>1. Leave(t, "next", TRUE) /\ t \notin Clients
      BY <2>1, <2>3, Apart
    <3>. QED BY <2>1, <2>2, <3>1, BookLeave
  <2>4. CASE t \notin Publishers
    <3>1. Leave(t, "idle", TRUE)
      BY <2>1, <2>4
    <3>. QED BY <2>1, <2>2, <3>1, BookLeave
  <2>. QED BY <2>3, <2>4
<1>6. ASSUME NEW c \in Clients, NEW i \in Nat, Evicts(t, c, i) PROVE BookInv'
  <2>1. /\ pc[t] \in PutSteps /\ Moves(t, "count") /\ "count" \in PutSteps /\ phase[c] # "out"
        /\ UNCHANGED <<dropped, load>> /\ i \in 1..Len(items[c]) /\ Evict(c, i)
        /\ aim' \in [Threads -> [i : Nat, saw : Seq(Env)]]
    BY <1>6 DEF Evicts, On, PutSteps, Attached
  <2>2. /\ items' \in [Clients -> Seq(Env)] /\ evicted' \in [Clients -> Seq(Env)]
        /\ items' = [items EXCEPT ![c] = RemoveAt(items[c], i)]
        /\ evicted' = [evicted EXCEPT ![c] = Append(evicted[c], items[c][i])]
    BY <1>0, <2>1, EvictIs
  <2>3. \A d \in Clients : d # c => items'[d] = items[d] /\ evicted'[d] = evicted[d]
    BY <1>0, <2>2 DEF TypeInv
  <2>4. dropped' \in [Clients -> Nat] /\ load' \in [Threads -> Nat]
    BY <1>0, <2>1 DEF TypeInv
  <2>. QED BY <2>1, <2>2, <2>3, <2>4, BookMoves
<1>. QED BY <1>1, <1>2, <1>3, <1>4, <1>5, <1>6 DEF ThreadStep

\* Always.
LEMMA BookAlways == Spec => []BookInv
<1>1. ASSUME BookInv, UNCHANGED vars PROVE BookInv'
  <2>1. UNCHANGED <<phase, attaches, items, dropped, pc, env, keys, seen, at, aim, load, emitted,
                    evicted, got, refused, before, last>>
    BY <1>1 DEF vars, queueVars, clientVars, iterVars, putVars
  <2>. QED BY <1>1, <2>1 DEF BookInv, TypeInv, ThreadInv, ClientInv, Key
<1>2. BookInv /\ [Next]_vars => BookInv'
  BY <1>1, StepKinds, BookClient, BookPublisher, BookThread
<1>. QED BY <1>2, BookStart, PTL DEF Spec

----------------------------------------------------------------------------
(* The bound of a queue, and what is counted of its losses                  *)

RoomInv(c) == Len(items[c]) + Cardinality(Entering(c)) <= Capacity + Cardinality(Publishers)

DropInv(c) ==
    /\ dropped[c] + Cardinality(Counting(c)) <= Len(evicted[c])
    /\ \A t \in Counting(c) :
          pc[t] = "store" => load[t] + Cardinality(Counting(c)) <= Len(evicted[c])
    /\ evicted[c] # <<>> => dropped[c] > 0 \/ Counting(c) # {}

CountInv(c) == c \in Attached => RoomInv(c) /\ DropInv(c)

\* The threads at a queue are finitely many, at most one of them no publisher.
LEMMA Few ==
    ASSUME NEW c \in Clients, NEW S \in SUBSET (Publishers \cup {c})
    PROVE  /\ IsFiniteSet(S) /\ Cardinality(S) \in Nat /\ Cardinality(Publishers) \in Nat
           /\ Cardinality(S) <= Cardinality(Publishers) + 1
<1>1. IsFiniteSet(Publishers) /\ Cardinality(Publishers) \in Nat /\ c \notin Publishers
  BY FanoutAssumption, FS_CardinalityType
<1>2. /\ IsFiniteSet(Publishers \cup {c})
      /\ Cardinality(Publishers \cup {c}) = Cardinality(Publishers) + 1
  BY <1>1, FS_AddElement
<1>3. IsFiniteSet(S) /\ Cardinality(S) <= Cardinality(Publishers \cup {c})
  BY <1>2, FS_Subset
<1>4. Cardinality(S) \in Nat
  BY <1>3, FS_CardinalityType
<1>. QED BY <1>1, <1>2, <1>3, <1>4

\* So those that are entering or counting.
LEMMA FewThreads ==
    ASSUME BookInv, NEW c \in Clients
    PROVE  /\ Entering(c) \subseteq Publishers \cup {c} /\ Counting(c) \subseteq Publishers \cup {c}
           /\ IsFiniteSet(Entering(c)) /\ IsFiniteSet(Counting(c))
           /\ Cardinality(Entering(c)) \in Nat /\ Cardinality(Counting(c)) \in Nat
           /\ Cardinality(Publishers) \in Nat
<1>1. Entering(c) \subseteq Publishers \cup {c} /\ Counting(c) \subseteq Publishers \cup {c}
  BY WhoIsOn DEF Entering, Counting
<1>. QED BY <1>1, Few

\* A step of one thread leaves the others where they are.
LEMMA Others ==
    ASSUME NEW t \in Threads, NEW c \in Clients, (c \in Attached)' <=> c \in Attached,
           attaches'[c] = attaches[c],
           \A u \in Threads : u # t => pc'[u] = pc[u] /\ at'[u] = at[u]
    PROVE  /\ Entering(c)' = (Entering(c) \ {t}) \cup (IF t \in Entering(c)' THEN {t} ELSE {})
           /\ Counting(c)' = (Counting(c) \ {t}) \cup (IF t \in Counting(c)' THEN {t} ELSE {})
           /\ \A u \in Threads : u # t => (On(u, c)' <=> On(u, c))
<1>1. \A u \in Threads : u # t => (On(u, c)' <=> On(u, c))
  BY DEF On, Key
<1>2. \A u \in Threads : u # t => /\ u \in Entering(c)' <=> u \in Entering(c)
                                  /\ u \in Counting(c)' <=> u \in Counting(c)
  BY <1>1 DEF Entering, Counting
<1>3. Entering(c)' \subseteq Threads /\ Counting(c)' \subseteq Threads
      /\ Entering(c) \subseteq Threads /\ Counting(c) \subseteq Threads
  BY DEF Entering, Counting
<1>4. \A u : u \in Entering(c)' <=> (u \in Entering(c) /\ u # t) \/ (u = t /\ t \in Entering(c)')
  BY <1>2, <1>3
<1>5. \A u : u \in Counting(c)' <=> (u \in Counting(c) /\ u # t) \/ (u = t /\ t \in Counting(c)')
  BY <1>2, <1>3
<1>. QED BY <1>1, <1>4, <1>5

\* A queue whose threads stay where they are, and which at most loses an item
\* to its client.
LEMMA CountFrame ==
    ASSUME BookInv, BookInv', NEW c \in Clients, CountInv(c), c \in Attached,
           Len(items'[c]) <= Len(items[c]),
           dropped'[c] = dropped[c], evicted'[c] = evicted[c],
           Entering(c)' = Entering(c), Counting(c)' = Counting(c),
           \A t \in Counting(c) : load'[t] = load[t] /\ pc'[t] = pc[t]
    PROVE  CountInv(c)'
<1>1. RoomInv(c) /\ DropInv(c)
  BY DEF CountInv
<1>2. Cardinality(Entering(c)) \in Nat /\ Cardinality(Publishers) \in Nat /\ Capacity \in Nat
  BY FewThreads, FanoutAssumption
<1>3. Len(items'[c]) \in Nat /\ Len(items[c]) \in Nat
  BY DEF BookInv, TypeInv
<1>4. RoomInv(c)'
  BY <1>1, <1>2, <1>3 DEF RoomInv
<1>5. DropInv(c)'
  BY <1>1 DEF DropInv
<1>. QED BY <1>4, <1>5 DEF CountInv

\* A put that begins finds room or has yet to make it.
LEMMA CountBegin ==
    ASSUME BookInv, BookInv', NEW c \in Clients, CountInv(c), c \in Attached, (c \in Attached)',
           NEW t \in Threads, t \in Publishers \/ t = c, pc[t] \notin PutSteps, NEW e,
           pc' = [pc EXCEPT ![t] = AfterTest(e, c)], at' = [at EXCEPT ![t] = Key(c)],
           UNCHANGED <<items, dropped, evicted, load, attaches>>
    PROVE  CountInv(c)'
<1>0. TypeInv /\ TypeInv'
  BY DEF BookInv
<1>1. \A u \in Threads : u # t => pc'[u] = pc[u] /\ at'[u] = at[u]
  BY <1>0 DEF TypeInv
<1>2. pc'[t] = AfterTest(e, c)
  BY <1>0 DEF TypeInv
<1>3. /\ Entering(c)' = (Entering(c) \ {t}) \cup (IF t \in Entering(c)' THEN {t} ELSE {})
      /\ Counting(c)' = (Counting(c) \ {t}) \cup (IF t \in Counting(c)' THEN {t} ELSE {})
  BY <1>1, Others
<1>4. t \notin Entering(c) /\ t \notin Counting(c) /\ t \notin Counting(c)'
  BY <1>2 DEF Entering, Counting, On, AfterTest
<1>5. Counting(c)' = Counting(c)
  BY <1>3, <1>4
<1>6. CASE Full(c)
  <2>1. t \notin Entering(c)'
    BY <1>2, <1>6 DEF AfterTest, Entering
  <2>2. Entering(c)' = Entering(c)
    BY <1>3, <1>4, <2>1
  <2>3. Len(items[c]) \in Nat /\ items'[c] = items[c]
    BY <1>0 DEF TypeInv
  <2>4. \A u \in Counting(c) : load'[u] = load[u] /\ pc'[u] = pc[u]
    BY <1>1, <1>4 DEF Counting
  <2>. QED BY <1>5, <2>2, <2>3, <2>4, CountFrame
<1>7. CASE ~Full(c)
  <2>0. Entering(c)' \subseteq Publishers \cup {c}
    BY <1>3, FewThreads
  <2>1. /\ Cardinality(Entering(c)') <= Cardinality(Publishers) + 1
        /\ Cardinality(Entering(c)') \in Nat /\ Cardinality(Publishers) \in Nat
    BY <2>0, Few
  <2>2. Len(items[c]) < Capacity /\ Len(items[c]) \in Nat /\ Capacity \in Nat
    BY <1>0, <1>7, FanoutAssumption DEF Full, TypeInv
  <2>3. RoomInv(c)'
    BY <2>1, <2>2 DEF RoomInv
  <2>4. \A u \in Counting(c) : load'[u] = load[u] /\ pc'[u] = pc[u]
    BY <1>1, <1>4 DEF Counting
  <2>5. DropInv(c)'
    BY <1>5, <2>4 DEF DropInv, CountInv
  <2>. QED BY <2>3, <2>5 DEF CountInv
<1>. QED BY <1>6, <1>7

\* No put is on the queue that the next attachment will make.
LEMMA NotYet ==
    ASSUME BookInv, NEW t \in Threads, NEW x \in Clients,
           pc[t] \in PutSteps, at[t] = <<x, attaches[x] + 1>>
    PROVE  FALSE
<1>1. PICK d \in Clients, k \in Nat : at[t] = <<d, k>> /\ k <= attaches[d]
  BY DEF BookInv, ThreadInv
<1>2. d = x /\ k = attaches[x] + 1
  BY <1>1
<1>. QED BY <1>1, <1>2 DEF BookInv, TypeInv

\* The actions of a client.
LEMMA CountClient ==
    ASSUME BookInv, BookInv', NEW x \in Clients, ClientStep(x), NEW c \in Clients, CountInv(c)
    PROVE  CountInv(c)'
<1>. SUFFICES ASSUME (c \in Attached)' PROVE CountInv(c)'
  BY DEF CountInv
<1>0. TypeInv /\ TypeInv' /\ x \in Threads
  BY Apart DEF BookInv
<1>1. ASSUME UNCHANGED <<pc, at, load>>, attaches'[c] = attaches[c], c \in Attached,
             items'[c] = items[c] \/ Len(items'[c]) <= Len(items[c]), dropped'[c] = dropped[c],
             evicted'[c] = evicted[c]
      PROVE  CountInv(c)'
  <2>1. Entering(c)' = Entering(c) /\ Counting(c)' = Counting(c)
    BY <1>1 DEF Entering, Counting, On, Key
  <2>2. Len(items'[c]) <= Len(items[c])
    BY <1>0, <1>1 DEF TypeInv
  <2>. QED BY <1>1, <2>1, <2>2, CountFrame
<1>2. CASE Attach(x)
  <2>1. /\ phase[x] = "out" /\ phase' = [phase EXCEPT ![x] = "attached"]
        /\ attaches' = [attaches EXCEPT ![x] = attaches[x] + 1]
        /\ UNCHANGED <<items, dropped, evicted, at, load, pc>>
    BY <1>2 DEF Attach, queueVars, putVars
  <2>2. CASE c = x
    <3>1. attaches'[c] = attaches[c] + 1
      BY <1>0, <2>1, <2>2 DEF TypeInv
    <3>2. \A t \in Threads : ~On(t, c)'
      BY <2>1, <3>1, NotYet DEF On, Key
    <3>3. Entering(c)' = {} /\ Counting(c)' = {}
      BY <3>2 DEF Entering, Counting
    <3>4. items'[c] = <<>> /\ dropped'[c] = 0 /\ evicted'[c] = <<>>
      BY <2>1, <2>2 DEF BookInv, ClientInv
    <3>5. Cardinality({}) = 0 /\ Cardinality(Publishers) \in Nat /\ Capacity \in Nat
      BY FS_EmptySet, FewThreads, FanoutAssumption
    <3>6. RoomInv(c)'
      BY <3>3, <3>4, <3>5 DEF RoomInv
    <3>7. DropInv(c)'
      BY <3>3, <3>4, <3>5 DEF DropInv
    <3>. QED BY <3>6, <3>7 DEF CountInv
  <2>3. CASE c # x
    <3>1. phase'[c] = phase[c] /\ attaches'[c] = attaches[c]
      BY <1>0, <2>1, <2>3 DEF TypeInv
    <3>. QED BY <1>1, <2>1, <3>1 DEF Attached
  <2>. QED BY <2>2, <2>3
<1>3. CASE Detach(x)
  <2>1. /\ phase' = [phase EXCEPT ![x] = "out"]
        /\ items' = [items EXCEPT ![x] = <<>>] /\ dropped' = [dropped EXCEPT ![x] = 0]
        /\ evicted' = [evicted EXCEPT ![x] = <<>>] /\ UNCHANGED <<attaches, at, load, pc>>
    BY <1>3 DEF Detach, putVars
  <2>2. c # x
    BY <1>0, <2>1 DEF Attached, TypeInv
  <2>3. /\ phase'[c] = phase[c] /\ items'[c] = items[c] /\ dropped'[c] = dropped[c]
        /\ evicted'[c] = evicted[c]
    BY <1>0, <2>1, <2>2 DEF TypeInv
  <2>. QED BY <1>1, <2>1, <2>3 DEF Attached
<1>4. CASE Get(x)
  <2>1. /\ items[x] # <<>> /\ items' = [items EXCEPT ![x] = Tail(items[x])]
        /\ UNCHANGED <<phase, attaches, dropped, evicted, at, load, pc>>
    BY <1>4 DEF Get, putVars
  <2>2. Len(Tail(items[x])) <= Len(items[x])
    <3>1. items[x] \in Seq(Env)
      BY <1>0 DEF TypeInv
    <3>2. Len(Tail(items[x])) = Len(items[x]) - 1 /\ Len(items[x]) \in Nat
      BY <2>1, <3>1, HeadTailProperties
    <3>. QED BY <3>2
  <2>3. items'[c] = items[c] \/ Len(items'[c]) <= Len(items[c])
    BY <1>0, <2>1, <2>2 DEF TypeInv
  <2>. QED BY <1>1, <2>1, <2>3 DEF Attached
<1>5. CASE OnAttach(x)
  <2>. DEFINE e == Envelope(Snapshot, emitted[Snapshot] + 1, "control")
  <2>1. /\ pc[x] = "idle" /\ pc' = [pc EXCEPT ![x] = AfterTest(e, x)]
        /\ at' = [at EXCEPT ![x] = Key(x)]
        /\ UNCHANGED <<items, dropped, evicted, load, attaches, phase>>
    BY <1>5 DEF OnAttach, Goto, queueVars, clientVars
  <2>2. c \in Attached
    BY <2>1 DEF Attached
  <2>3. CASE c = x
    <3>1. pc[x] \notin PutSteps
      BY <2>1 DEF PutSteps
    <3>. HIDE DEF e
    <3>. QED BY <1>0, <2>1, <2>2, <2>3, <3>1, CountBegin
  <2>4. CASE c # x
    <3>1. \A u \in Threads : u # x => pc'[u] = pc[u] /\ at'[u] = at[u]
      BY <1>0, <2>1 DEF TypeInv
    <3>2. ~On(x, c)' /\ ~On(x, c)
      <4>1. at'[x] = <<x, attaches[x]>> /\ pc[x] \notin PutSteps
        BY <1>0, <2>1 DEF TypeInv, Key, PutSteps
      <4>2. at'[x] # <<c, attaches'[c]>>
        BY <2>4, <4>1
      <4>. QED BY <4>1, <4>2 DEF On, Key
    <3>3. /\ Entering(c)' = (Entering(c) \ {x}) \cup (IF x \in Entering(c)' THEN {x} ELSE {})
          /\ Counting(c)' = (Counting(c) \ {x}) \cup (IF x \in Counting(c)' THEN {x} ELSE {})
      BY <1>0, <2>1, <2>2, <3>1, Others
    <3>4. /\ x \notin Entering(c)' /\ x \notin Counting(c)'
          /\ x \notin Entering(c) /\ x \notin Counting(c)
      BY <3>2 DEF Entering, Counting
    <3>5. Entering(c)' = Entering(c) /\ Counting(c)' = Counting(c)
      BY <3>3, <3>4
    <3>6. Len(items'[c]) <= Len(items[c])
      BY <1>0, <2>1 DEF TypeInv
    <3>7. \A u \in Counting(c) : load'[u] = load[u] /\ pc'[u] = pc[u]
      BY <2>1, <3>1, <3>4 DEF Counting
    <3>. QED BY <2>1, <2>2, <3>5, <3>6, <3>7, CountFrame
  <2>. QED BY <2>3, <2>4
<1>. QED BY <1>2, <1>3, <1>4, <1>5 DEF ClientStep

\* The iterator of a publisher.
LEMMA CountPublisher ==
    ASSUME BookInv, BookInv', NEW p \in Publishers, PublisherStep(p), NEW c \in Clients, CountInv(c)
    PROVE  CountInv(c)'
<1>. SUFFICES ASSUME (c \in Attached)' PROVE CountInv(c)'
  BY DEF CountInv
<1>0. TypeInv /\ TypeInv' /\ p \in Threads /\ p \notin Clients
  BY Apart DEF BookInv
<1>1. /\ UNCHANGED <<phase, attaches, items, dropped, evicted, load>>
      /\ \A u \in Threads : u # p => pc'[u] = pc[u] /\ at'[u] = at[u]
      /\ pc[p] \notin PutSteps
  <2>1. CASE Publish(p) \/ Published(p)
    <3>1. /\ UNCHANGED <<phase, attaches, items, dropped, evicted, load, at>>
          /\ \E l : pc' = [pc EXCEPT ![p] = l]
      BY <2>1 DEF Publish, Published, Goto, queueVars, clientVars, putVars
    <3>2. pc[p] \in {"idle", "next"}
      BY <2>1 DEF Publish, Published
    <3>. QED BY <1>0, <3>1, <3>2 DEF TypeInv, PutSteps
  <2>2. ASSUME NEW x \in Clients, NextQueue(p, x)
        PROVE  /\ UNCHANGED <<phase, attaches, items, dropped, evicted, load>>
               /\ \A u \in Threads : u # p => pc'[u] = pc[u] /\ at'[u] = at[u]
               /\ pc[p] \notin PutSteps
    <3>1. /\ UNCHANGED <<phase, attaches, items, dropped, evicted, load>> /\ pc[p] = "next"
          /\ at' = [at EXCEPT ![p] = Key(x)] /\ pc' = [pc EXCEPT ![p] = AfterTest(env[p], x)]
      BY <2>2 DEF NextQueue, Goto, queueVars, clientVars
    <3>. QED BY <1>0, <3>1 DEF TypeInv, PutSteps
  <2>. QED BY <2>1, <2>2 DEF PublisherStep
<1>2. c \in Attached
  BY <1>1 DEF Attached
<1>3. ASSUME ~On(p, c)' PROVE CountInv(c)'
  <2>1. /\ Entering(c)' = (Entering(c) \ {p}) \cup (IF p \in Entering(c)' THEN {p} ELSE {})
        /\ Counting(c)' = (Counting(c) \ {p}) \cup (IF p \in Counting(c)' THEN {p} ELSE {})
    BY <1>0, <1>1, <1>2, Others
  <2>2. /\ p \notin Entering(c)' /\ p \notin Counting(c)'
        /\ p \notin Entering(c) /\ p \notin Counting(c)
    BY <1>1, <1>3 DEF Entering, Counting, On
  <2>3. Entering(c)' = Entering(c) /\ Counting(c)' = Counting(c)
    BY <2>1, <2>2
  <2>4. Len(items'[c]) <= Len(items[c])
    BY <1>0, <1>1 DEF TypeInv
  <2>5. \A u \in Counting(c) : load'[u] = load[u] /\ pc'[u] = pc[u]
    BY <1>1, <2>2 DEF Counting
  <2>. QED BY <1>1, <1>2, <2>3, <2>4, <2>5, CountFrame
<1>4. CASE Publish(p) \/ Published(p)
  <2>1. pc'[p] \in {"idle", "next"}
    BY <1>0, <1>4 DEF Publish, Published, Goto, TypeInv
  <2>. QED BY <1>3, <2>1 DEF On, PutSteps
<1>5. ASSUME NEW x \in Clients, NextQueue(p, x) PROVE CountInv(c)'
  <2>1. /\ at' = [at EXCEPT ![p] = Key(x)] /\ pc' = [pc EXCEPT ![p] = AfterTest(env[p], x)]
    BY <1>5 DEF NextQueue, Goto
  <2>2. CASE c = x
    BY <1>0, <1>1, <1>2, <2>1, <2>2, CountBegin
  <2>3. CASE c # x
    <3>1. at'[p] = <<x, attaches[x]>>
      BY <1>0, <2>1 DEF TypeInv, Key
    <3>2. at'[p] # <<c, attaches'[c]>>
      BY <2>3, <3>1
    <3>. QED BY <1>3, <3>2 DEF On, Key
  <2>. QED BY <2>2, <2>3
<1>. QED BY <1>4, <1>5 DEF PublisherStep

\* The steps of put.
LEMMA CountThread ==
    ASSUME BookInv, BookInv', NEW t \in Threads, ThreadStep(t), NEW c \in Clients, CountInv(c)
    PROVE  CountInv(c)'
<1>. SUFFICES ASSUME (c \in Attached)' PROVE CountInv(c)'
  BY DEF CountInv
<1>0. TypeInv /\ TypeInv'
  BY DEF BookInv
<1>00. /\ Cardinality(Entering(c)) \in Nat /\ Cardinality(Counting(c)) \in Nat
       /\ Cardinality(Publishers) \in Nat /\ Capacity \in Nat
       /\ IsFiniteSet(Entering(c)) /\ IsFiniteSet(Counting(c))
       /\ Len(items[c]) \in Nat /\ Len(evicted[c]) \in Nat /\ dropped[c] \in Nat /\ load[t] \in Nat
  <2>1. Len(items[c]) \in Nat /\ Len(evicted[c]) \in Nat /\ dropped[c] \in Nat /\ load[t] \in Nat
    BY <1>0 DEF TypeInv
  <2>. QED BY <2>1, FewThreads, FanoutAssumption
<1>1. CASE Quits(t)
  <2>1. PICK l \in {"next", "idle", "dead"}, stored \in BOOLEAN : Leave(t, l, stored)
    BY <1>1 DEF Quits
  <2>2. /\ pc[t] \in Busy /\ UNCHANGED <<items, dropped, evicted>>
        /\ On(t, c) => pc[t] \in {"pop", "found"}
    BY <1>1 DEF Quits, queueVars
  <2>3. /\ pc' = [pc EXCEPT ![t] = l] /\ at' = [at EXCEPT ![t] = Nowhere]
        /\ load' = [load EXCEPT ![t] = 0] /\ UNCHANGED attaches
        /\ t \in Publishers => UNCHANGED phase
        /\ t \in Clients => phase[t] = "attached" /\ phase' = [phase EXCEPT ![t] = "in"]
        /\ l \notin PutSteps
    BY <2>1, <2>2, LeaveIs
  <2>4. c \in Attached
    BY <1>0, <2>3, Apart DEF Attached, TypeInv
  <2>5. \A u \in Threads : u # t => pc'[u] = pc[u] /\ at'[u] = at[u] /\ load'[u] = load[u]
    BY <1>0, <2>3 DEF TypeInv
  <2>6. /\ t \notin Entering(c)' /\ t \notin Counting(c)'
        /\ t \notin Entering(c) /\ t \notin Counting(c)
    <3>1. pc'[t] \notin PutSteps
      BY <1>0, <2>3 DEF TypeInv
    <3>. QED BY <2>2, <3>1 DEF Entering, Counting, On
  <2>7. /\ Entering(c)' = (Entering(c) \ {t}) \cup (IF t \in Entering(c)' THEN {t} ELSE {})
        /\ Counting(c)' = (Counting(c) \ {t}) \cup (IF t \in Counting(c)' THEN {t} ELSE {})
    BY <2>3, <2>4, <2>5, Others
  <2>8. Entering(c)' = Entering(c) /\ Counting(c)' = Counting(c)
    BY <2>6, <2>7
  <2>9. Len(items'[c]) <= Len(items[c])
    BY <1>00, <2>2
  <2>10. \A u \in Counting(c) : load'[u] = load[u] /\ pc'[u] = pc[u]
    BY <2>5, <2>6 DEF Counting
  <2>. QED BY <2>2, <2>4, <2>8, <2>9, <2>10, CountFrame
<1>2. ASSUME NEW x \in Clients, NEW l, On(t, x), Moves(t, l), l \in PutSteps
      PROVE  /\ c \in Attached
             /\ \A u \in Threads : u # t => pc'[u] = pc[u]
             /\ pc'[t] = l /\ (On(t, c) <=> c = x) /\ (On(t, c)' <=> c = x)
             /\ Entering(c)' = (Entering(c) \ {t}) \cup (IF t \in Entering(c)' THEN {t} ELSE {})
             /\ Counting(c)' = (Counting(c) \ {t}) \cup (IF t \in Counting(c)' THEN {t} ELSE {})
  <2>1. pc' = [pc EXCEPT ![t] = l] /\ UNCHANGED <<phase, attaches, at>>
    BY <1>2 DEF Moves, Goto, clientVars
  <2>2. /\ \A u \in Threads : u # t => pc'[u] = pc[u] /\ at'[u] = at[u]
        /\ pc'[t] = l /\ c \in Attached
    BY <1>0, <2>1 DEF TypeInv, Attached
  <2>3. at[t] = <<x, attaches[x]>> /\ pc[t] \in PutSteps
    BY <1>2 DEF On, Key
  <2>4. On(t, c) <=> c = x
    BY <1>2, <2>3 DEF On, Key
  <2>5. On(t, c)' <=> c = x
    BY <1>2, <2>1, <2>2, <2>3 DEF On, Key, Attached
  <2>. QED BY <2>1, <2>2, <2>4, <2>5, Others
<1>3. ASSUME NEW x \in Clients, Scan(t, x) PROVE CountInv(c)'
  <2>1. /\ pc[t] = "scan" /\ On(t, x) /\ Moves(t, "found") /\ "found" \in PutSteps
        /\ UNCHANGED <<items, dropped, evicted, load>>
    BY <1>3 DEF Scan, queueVars, PutSteps
  <2>2. /\ c \in Attached /\ (\A u \in Threads : u # t => pc'[u] = pc[u]) /\ pc'[t] = "found"
        /\ Entering(c)' = (Entering(c) \ {t}) \cup (IF t \in Entering(c)' THEN {t} ELSE {})
        /\ Counting(c)' = (Counting(c) \ {t}) \cup (IF t \in Counting(c)' THEN {t} ELSE {})
    BY <1>2, <2>1
  <2>3. /\ t \notin Entering(c)' /\ t \notin Counting(c)'
        /\ t \notin Entering(c) /\ t \notin Counting(c)
    BY <2>1, <2>2 DEF Entering, Counting
  <2>4. Entering(c)' = Entering(c) /\ Counting(c)' = Counting(c)
    BY <2>2, <2>3
  <2>5. Len(items'[c]) <= Len(items[c])
    BY <1>00, <2>1
  <2>6. \A u \in Counting(c) : load'[u] = load[u] /\ pc'[u] = pc[u]
    BY <2>1, <2>2, <2>3 DEF Counting
  <2>. QED BY <2>1, <2>2, <2>4, <2>5, <2>6, CountFrame
<1>4. ASSUME NEW x \in Clients, Count(t, x) PROVE CountInv(c)'
  <2>1. /\ pc[t] = "count" /\ On(t, x) /\ Moves(t, "store") /\ "store" \in PutSteps
        /\ UNCHANGED <<items, dropped, evicted>> /\ load' = [load EXCEPT ![t] = dropped[x]]
    BY <1>4 DEF Count, queueVars, PutSteps
  <2>2. /\ c \in Attached /\ (\A u \in Threads : u # t => pc'[u] = pc[u]) /\ pc'[t] = "store"
        /\ (On(t, c) <=> c = x) /\ (On(t, c)' <=> c = x)
        /\ Entering(c)' = (Entering(c) \ {t}) \cup (IF t \in Entering(c)' THEN {t} ELSE {})
        /\ Counting(c)' = (Counting(c) \ {t}) \cup (IF t \in Counting(c)' THEN {t} ELSE {})
    BY <1>2, <2>1
  <2>3. /\ t \in Entering(c)' <=> c = x
        /\ t \in Entering(c) <=> c = x
        /\ t \in Counting(c)' <=> c = x
        /\ t \in Counting(c) <=> c = x
    BY <2>1, <2>2 DEF Entering, Counting
  <2>4. Entering(c)' = Entering(c) /\ Counting(c)' = Counting(c)
    BY <2>2, <2>3
  <2>5. Len(items'[c]) <= Len(items[c])
    BY <1>00, <2>1
  <2>6. \A u \in Threads : u # t => load'[u] = load[u]
    BY <1>0, <2>1 DEF TypeInv
  <2>7. CASE c # x
    <3>1. \A u \in Counting(c) : load'[u] = load[u] /\ pc'[u] = pc[u]
      BY <2>2, <2>3, <2>6, <2>7 DEF Counting
    <3>. QED BY <2>1, <2>2, <2>4, <2>5, <3>1, CountFrame
  <2>8. CASE c = x
    <3>1. load'[t] = dropped[c]
      BY <1>0, <2>1, <2>8 DEF TypeInv
    <3>2. RoomInv(c) /\ DropInv(c)
      BY <2>2 DEF CountInv
    <3>3. \A u \in Counting(c) : u = t \/ (load'[u] = load[u] /\ pc'[u] = pc[u])
      BY <2>2, <2>6 DEF Counting
    <3>4. DropInv(c)'
      BY <2>1, <2>4, <3>1, <3>2, <3>3 DEF DropInv
    <3>5. RoomInv(c)'
      BY <2>1, <2>4, <3>2 DEF RoomInv
    <3>. QED BY <3>4, <3>5 DEF CountInv
  <2>. QED BY <2>7, <2>8
<1>5. ASSUME NEW x \in Clients, Store(t, x) PROVE CountInv(c)'
  <2>1. /\ pc[t] = "store" /\ On(t, x) /\ Moves(t, "append") /\ "append" \in PutSteps
        /\ UNCHANGED <<items, evicted>> /\ load' = [load EXCEPT ![t] = 0]
        /\ dropped' = [dropped EXCEPT ![x] = load[t] + 1]
    BY <1>5 DEF Store, PutSteps
  <2>2. /\ c \in Attached /\ (\A u \in Threads : u # t => pc'[u] = pc[u]) /\ pc'[t] = "append"
        /\ (On(t, c) <=> c = x) /\ (On(t, c)' <=> c = x)
        /\ Entering(c)' = (Entering(c) \ {t}) \cup (IF t \in Entering(c)' THEN {t} ELSE {})
        /\ Counting(c)' = (Counting(c) \ {t}) \cup (IF t \in Counting(c)' THEN {t} ELSE {})
    BY <1>2, <2>1
  <2>3. /\ t \in Entering(c)' <=> c = x
        /\ t \in Entering(c) <=> c = x
        /\ t \notin Counting(c)'
        /\ t \in Counting(c) <=> c = x
    BY <2>1, <2>2 DEF Entering, Counting
  <2>4. Entering(c)' = Entering(c) /\ Counting(c)' = Counting(c) \ {t}
    BY <2>2, <2>3
  <2>5. Len(items'[c]) <= Len(items[c])
    BY <1>00, <2>1
  <2>6. \A u \in Threads : u # t => load'[u] = load[u]
    BY <1>0, <2>1 DEF TypeInv
  <2>7. CASE c # x
    <3>1. \A u \in Counting(c) : load'[u] = load[u] /\ pc'[u] = pc[u]
      BY <2>2, <2>3, <2>6, <2>7 DEF Counting
    <3>2. dropped'[c] = dropped[c]
      BY <1>0, <2>1, <2>7 DEF TypeInv
    <3>3. Counting(c)' = Counting(c)
      BY <2>3, <2>4, <2>7
    <3>. QED BY <2>1, <2>2, <2>4, <2>5, <3>1, <3>2, <3>3, CountFrame
  <2>8. CASE c = x
    <3>1. dropped'[c] = load[t] + 1 /\ t \in Counting(c)
      BY <1>0, <2>1, <2>3, <2>8 DEF TypeInv
    <3>2. RoomInv(c) /\ DropInv(c)
      BY <2>2 DEF CountInv
    <3>3. \A u \in Counting(c)' : u \in Counting(c) /\ load'[u] = load[u] /\ pc'[u] = pc[u]
      BY <2>2, <2>4, <2>6 DEF Counting
    <3>4. Cardinality(Counting(c)') = Cardinality(Counting(c)) - 1
      BY <1>00, <2>4, <3>1, FS_RemoveElement
    <3>5. \A u \in Counting(c) : load[u] \in Nat
      BY <1>0 DEF Counting, TypeInv
    <3>6. load[t] + Cardinality(Counting(c)) <= Len(evicted[c])
      BY <2>1, <3>1, <3>2 DEF DropInv
    <3>7. DropInv(c)'
      <4>1. dropped'[c] + Cardinality(Counting(c)') <= Len(evicted'[c])
        BY <1>00, <2>1, <3>1, <3>4, <3>6
      <4>2. ASSUME NEW u \in Counting(c)', pc'[u] = "store"
            PROVE  load'[u] + Cardinality(Counting(c)') <= Len(evicted'[c])
        <5>1. load[u] + Cardinality(Counting(c)) <= Len(evicted[c])
          BY <3>2, <3>3, <4>2 DEF DropInv
        <5>. QED BY <1>00, <2>1, <3>3, <3>4, <3>5, <5>1
      <4>3. dropped'[c] > 0
        BY <1>00, <3>1
      <4>. QED BY <4>1, <4>2, <4>3 DEF DropInv
    <3>8. RoomInv(c)'
      BY <2>1, <2>4, <3>2 DEF RoomInv
    <3>. QED BY <3>7, <3>8 DEF CountInv
  <2>. QED BY <2>7, <2>8
<1>6. ASSUME NEW x \in Clients, NEW i \in Nat, Evicts(t, x, i) PROVE CountInv(c)'
  <2>1. /\ pc[t] \in {"pop", "found"} /\ On(t, x) /\ Moves(t, "count") /\ "count" \in PutSteps
        /\ UNCHANGED <<dropped, load>> /\ i \in 1..Len(items[x]) /\ Evict(x, i)
    BY <1>6 DEF Evicts, PutSteps
  <2>2. /\ c \in Attached /\ (\A u \in Threads : u # t => pc'[u] = pc[u]) /\ pc'[t] = "count"
        /\ (On(t, c) <=> c = x) /\ (On(t, c)' <=> c = x)
        /\ Entering(c)' = (Entering(c) \ {t}) \cup (IF t \in Entering(c)' THEN {t} ELSE {})
        /\ Counting(c)' = (Counting(c) \ {t}) \cup (IF t \in Counting(c)' THEN {t} ELSE {})
    BY <1>2, <2>1
  <2>3. /\ items' = [items EXCEPT ![x] = RemoveAt(items[x], i)]
        /\ evicted' = [evicted EXCEPT ![x] = Append(evicted[x], items[x][i])]
        /\ Len(items'[x]) = Len(items[x]) - 1 /\ Len(evicted'[x]) = Len(evicted[x]) + 1
    BY <1>0, <2>1, EvictIs
  <2>4. /\ t \in Entering(c)' <=> c = x
        /\ t \notin Entering(c)
        /\ t \in Counting(c)' <=> c = x
        /\ t \notin Counting(c)
    BY <2>1, <2>2 DEF Entering, Counting
  <2>5. CASE c # x
    <3>1. Entering(c)' = Entering(c) /\ Counting(c)' = Counting(c)
      BY <2>2, <2>4, <2>5
    <3>2. items'[c] = items[c] /\ evicted'[c] = evicted[c] /\ Len(items'[c]) <= Len(items[c])
      BY <1>0, <1>00, <2>3, <2>5 DEF TypeInv
    <3>3. \A u \in Counting(c) : load'[u] = load[u] /\ pc'[u] = pc[u]
      BY <2>1, <2>2, <2>4 DEF Counting
    <3>. QED BY <2>1, <2>2, <3>1, <3>2, <3>3, CountFrame
  <2>6. CASE c = x
    <3>1. Entering(c)' = Entering(c) \cup {t} /\ Counting(c)' = Counting(c) \cup {t}
      BY <2>2, <2>4, <2>6
    <3>2. /\ Cardinality(Entering(c)') = Cardinality(Entering(c)) + 1
          /\ Cardinality(Counting(c)') = Cardinality(Counting(c)) + 1
      BY <1>00, <2>4, <3>1, FS_AddElement
    <3>3. RoomInv(c) /\ DropInv(c)
      BY <2>2 DEF CountInv
    <3>4. \A u \in Counting(c)' : u = t \/ (u \in Counting(c) /\ load'[u] = load[u] /\ pc'[u] = pc[u])
      BY <2>1, <2>2, <3>1 DEF Counting
    <3>5. RoomInv(c)'
      BY <1>00, <2>3, <2>6, <3>2, <3>3 DEF RoomInv
    <3>6. DropInv(c)'
      <4>1. dropped'[c] + Cardinality(Counting(c)') <= Len(evicted'[c])
        BY <1>00, <2>1, <2>3, <2>6, <3>2, <3>3 DEF DropInv
      <4>2. ASSUME NEW u \in Counting(c)', pc'[u] = "store"
            PROVE  load'[u] + Cardinality(Counting(c)') <= Len(evicted'[c])
        <5>1. u \in Counting(c) /\ load'[u] = load[u] /\ pc[u] = "store"
          BY <2>2, <3>4, <4>2
        <5>2. load[u] + Cardinality(Counting(c)) <= Len(evicted[c]) /\ load[u] \in Nat
          BY <1>0, <3>3, <5>1 DEF DropInv, TypeInv, Counting
        <5>. QED BY <1>00, <2>3, <2>6, <3>2, <5>1, <5>2
      <4>. QED BY <3>1, <4>1, <4>2 DEF DropInv
    <3>. QED BY <3>5, <3>6 DEF CountInv
  <2>. QED BY <2>5, <2>6
<1>7. ASSUME NEW x \in Clients, PutAppend(t, x) PROVE CountInv(c)'
  <2>1. /\ pc[t] = "append" /\ pc[t] \in Busy /\ On(t, x) /\ UNCHANGED <<dropped, evicted>>
        /\ items' = [items EXCEPT ![x] = Append(items[x], env[t])]
        /\ Leave(t, IF t \in Publishers THEN "next" ELSE "idle", TRUE)
    BY <1>7 DEF PutAppend, PutSteps, Busy, Returns
  <2>2. PICK l \in {"next", "idle", "dead"} : Leave(t, l, TRUE)
    BY <2>1
  <2>3. /\ pc' = [pc EXCEPT ![t] = l] /\ at' = [at EXCEPT ![t] = Nowhere]
        /\ load' = [load EXCEPT ![t] = 0] /\ UNCHANGED attaches
        /\ t \in Publishers => UNCHANGED phase
        /\ t \in Clients => phase[t] = "attached" /\ phase' = [phase EXCEPT ![t] = "in"]
        /\ l \notin PutSteps
    BY <2>1, <2>2, LeaveIs
  <2>4. c \in Attached
    BY <1>0, <2>3, Apart DEF Attached, TypeInv
  <2>5. \A u \in Threads : u # t => pc'[u] = pc[u] /\ at'[u] = at[u] /\ load'[u] = load[u]
    BY <1>0, <2>3 DEF TypeInv
  <2>6. /\ Entering(c)' = (Entering(c) \ {t}) \cup (IF t \in Entering(c)' THEN {t} ELSE {})
        /\ Counting(c)' = (Counting(c) \ {t}) \cup (IF t \in Counting(c)' THEN {t} ELSE {})
    BY <2>3, <2>4, <2>5, Others
  <2>7. On(t, c) <=> c = x
    BY <2>1 DEF On, Key
  <2>8. /\ t \notin Entering(c)' /\ t \notin Counting(c)' /\ t \notin Counting(c)
        /\ t \in Entering(c) <=> c = x
    <3>1. pc'[t] \notin PutSteps
      BY <1>0, <2>3 DEF TypeInv
    <3>. QED BY <2>1, <2>7, <3>1 DEF Entering, Counting, On
  <2>9. Counting(c)' = Counting(c) /\ Entering(c)' = Entering(c) \ {t}
    BY <2>6, <2>8
  <2>10. \A u \in Counting(c) : load'[u] = load[u] /\ pc'[u] = pc[u]
    BY <2>5, <2>8 DEF Counting
  <2>11. RoomInv(c) /\ DropInv(c)
    BY <2>4 DEF CountInv
  <2>12. DropInv(c)'
    BY <2>1, <2>9, <2>10, <2>11 DEF DropInv
  <2>13. CASE c # x
    <3>1. items'[c] = items[c]
      BY <1>0, <2>1, <2>13 DEF TypeInv
    <3>2. Entering(c)' = Entering(c)
      BY <2>8, <2>9, <2>13
    <3>. QED BY <2>11, <2>12, <3>1, <3>2 DEF CountInv, RoomInv
  <2>14. CASE c = x
    <3>1. Cardinality(Entering(c)') = Cardinality(Entering(c)) - 1
      <4>1. t \in Entering(c) /\ Entering(c)' = Entering(c) \ {t}
        BY <2>8, <2>9, <2>14
      <4>. QED BY <1>00, <4>1, FS_RemoveElement
    <3>2. Len(items'[c]) = Len(items[c]) + 1
      <4>1. items[c] \in Seq(Env) /\ env[t] \in Env /\ items'[c] = Append(items[c], env[t])
        BY <1>0, <2>1, <2>14 DEF TypeInv
      <4>. QED BY <4>1, AppendProperties
    <3>3. RoomInv(c)'
      BY <1>00, <2>11, <3>1, <3>2 DEF RoomInv
    <3>. QED BY <2>12, <3>3 DEF CountInv
  <2>. QED BY <2>13, <2>14
<1>. QED BY <1>1, <1>3, <1>4, <1>5, <1>6, <1>7 DEF ThreadStep

\* Always.
LEMMA CountAlways == Spec => []\A c \in Clients : CountInv(c)
<1>. DEFINE Inv == \A c \in Clients : CountInv(c)
<1>1. Init => Inv
  BY DEF Init, CountInv, Attached
<1>2. BookInv /\ BookInv' /\ Inv /\ [Next]_vars => Inv'
  <2>. SUFFICES ASSUME BookInv, BookInv', Inv, [Next]_vars, NEW c \in Clients PROVE CountInv(c)'
    OBVIOUS
  <2>1. CASE UNCHANGED vars
    <3>1. UNCHANGED <<phase, attaches, items, dropped, pc, at, load, evicted>>
      BY <2>1 DEF vars, queueVars, clientVars, putVars
    <3>. QED BY <3>1 DEF CountInv, RoomInv, DropInv, Entering, Counting, On, Key, Attached
  <2>2. CASE Next
    BY <2>2, StepKinds, CountClient, CountPublisher, CountThread
  <2>. QED BY <2>1, <2>2
<1>. QED BY <1>1, <1>2, BookAlways, PTL DEF Spec

\* QueueBounded: test and append of put are apart and unlocked, and still a queue
\* exceeds its capacity by at most the number of publishers.  Inductive: its items
\* and the threads that have room for one.
LEMMA QueuesAreBounded == Spec => []QueueBounded
<1>1. BookInv /\ (\A c \in Clients : CountInv(c)) => QueueBounded
  <2>. SUFFICES ASSUME BookInv, NEW c \in Clients, c \in Attached, CountInv(c)
                PROVE  Len(items[c]) <= Capacity + Cardinality(Publishers)
    BY DEF QueueBounded, Attached
  <2>1. /\ Cardinality(Entering(c)) \in Nat /\ Cardinality(Publishers) \in Nat /\ Capacity \in Nat
        /\ Len(items[c]) \in Nat
    <3>1. Len(items[c]) \in Nat
      BY DEF BookInv, TypeInv
    <3>. QED BY <3>1, FewThreads, FanoutAssumption
  <2>. QED BY <2>1 DEF CountInv, RoomInv
<1>. QED BY <1>1, BookAlways, CountAlways, PTL

\* DropsShow: the unlocked dropped_frames += 1 never counts more than was evicted,
\* and shows that something was, once no thread is about to count.
LEMMA DropsAreShown == Spec => []DropsShow
<1>1. BookInv /\ (\A c \in Clients : CountInv(c)) => DropsShow
  <2>. SUFFICES ASSUME BookInv, NEW c \in Clients, c \in Attached, CountInv(c)
                PROVE  /\ dropped[c] <= Len(evicted[c])
                       /\ evicted[c] # <<>> => dropped[c] > 0 \/ Counting(c) # {}
    BY DEF DropsShow, Attached
  <2>1. Cardinality(Counting(c)) \in Nat /\ Len(evicted[c]) \in Nat /\ dropped[c] \in Nat
    <3>1. Len(evicted[c]) \in Nat /\ dropped[c] \in Nat
      BY DEF BookInv, TypeInv
    <3>. QED BY <3>1, FewThreads
  <2>. QED BY <2>1 DEF CountInv, DropInv
<1>. QED BY <1>1, BookAlways, CountAlways, PTL

\* QueueHonest: both hold for every number of publishers and every capacity, with
\* the length test, the eviction, the increment and the append of put apart.
THEOREM QueuesStayHonest == Spec => []QueueHonest
BY QueuesAreBounded, DropsAreShown, PTL DEF QueueHonest

----------------------------------------------------------------------------
(* Order                                                                    *)

\* The envelopes of a queue are numbered upwards per source, above what the
\* client got and not above what was emitted.
InOrder(s, l, m) ==
    /\ \A i \in 1..Len(s) : l[s[i].from] < s[i].n /\ s[i].n <= m[s[i].from]
    /\ \A i, j \in 1..Len(s) : i < j /\ s[i].from = s[j].from => s[i].n < s[j].n

\* Those of source p are numbered below k.
Below(s, p, k) == \A i \in 1..Len(s) : s[i].from = p => s[i].n < k

\* t has lost some envelopes of s.
Thin(t, s) ==
    /\ \A j \in 1..Len(t) : \E i \in 1..Len(s) : t[j] = s[i]
    /\ \A j, k \in 1..Len(t) : j < k =>
          \E i, l \in 1..Len(s) : i < l /\ t[j] = s[i] /\ t[k] = s[l]

\* Losses keep the order.
LEMMA ThinInOrder ==
    ASSUME NEW s, NEW t, Thin(t, s), NEW l, NEW m, InOrder(s, l, m)
    PROVE  InOrder(t, l, m) /\ \A p, k : Below(s, p, k) => Below(t, p, k)
<1>1. ASSUME NEW j \in 1..Len(t) PROVE l[t[j].from] < t[j].n /\ t[j].n <= m[t[j].from]
  <2>1. PICK i \in 1..Len(s) : t[j] = s[i]
    BY DEF Thin
  <2>. QED BY <2>1 DEF InOrder
<1>2. ASSUME NEW j \in 1..Len(t), NEW k \in 1..Len(t), j < k, t[j].from = t[k].from
      PROVE  t[j].n < t[k].n
  <2>1. PICK i \in 1..Len(s), h \in 1..Len(s) : i < h /\ t[j] = s[i] /\ t[k] = s[h]
    BY <1>2 DEF Thin
  <2>. QED BY <1>2, <2>1 DEF InOrder
<1>3. ASSUME NEW p, NEW k, Below(s, p, k), NEW j \in 1..Len(t), t[j].from = p PROVE t[j].n < k
  <2>1. PICK i \in 1..Len(s) : t[j] = s[i]
    BY DEF Thin
  <2>. QED BY <1>3, <2>1 DEF Below
<1>. QED BY <1>1, <1>2, <1>3 DEF InOrder, Below

\* A queue has lost nothing to itself.
LEMMA ThinSelf == ASSUME NEW s PROVE Thin(s, s)
BY DEF Thin

\* What an eviction leaves of a queue is thin of it.
LEMMA EvictThin ==
    ASSUME TypeInv, NEW c \in Clients, NEW i \in 1..Len(items[c]), Evict(c, i)
    PROVE  Thin(items'[c], items[c])
<1>. DEFINE s == items[c]
            r == items'[c]
<1>1. /\ Len(r) = Len(s) - 1
      /\ \A j \in 1..(Len(s) - 1) : r[j] = IF j < i THEN s[j] ELSE s[j + 1]
  BY EvictIs
<1>2. Len(s) \in Nat
  BY DEF TypeInv
<1>3. i \in 1..Len(s)
  OBVIOUS
<1>. HIDE DEF s, r
<1>4. \A j \in 1..Len(r) : j \in Int /\ j <= Len(s) - 1
  BY <1>1, <1>2
<1>5. \A j \in 1..Len(r) : \E k \in 1..Len(s) : r[j] = s[k]
  BY <1>1, <1>2
<1>6. ASSUME NEW j \in 1..Len(r), NEW k \in 1..Len(r), j < k
      PROVE  \E h, l \in 1..Len(s) : h < l /\ r[j] = s[h] /\ r[k] = s[l]
  <2>. DEFINE f(x) == IF x < i THEN x ELSE x + 1
  <2>1. f(j) \in 1..Len(s) /\ f(k) \in 1..Len(s) /\ f(j) < f(k)
    BY <1>1, <1>2, <1>3, <1>4, <1>6
  <2>2. r[j] = s[f(j)] /\ r[k] = s[f(k)]
    BY <1>1
  <2>. HIDE DEF f
  <2>. QED BY <2>1, <2>2
<1>7. Thin(r, s)
  BY <1>5, <1>6 DEF Thin
<1>. QED BY <1>7 DEF r, s

\* Later emissions do not disturb the order.
LEMMA LaterInOrder ==
    ASSUME NEW s \in Seq(Env), NEW l \in Numbers, NEW m \in Numbers, NEW m1 \in Numbers,
           InOrder(s, l, m), \A x \in Sources : m[x] <= m1[x]
    PROVE  InOrder(s, l, m1)
<1>1. ASSUME NEW i \in 1..Len(s) PROVE l[s[i].from] < s[i].n /\ s[i].n <= m1[s[i].from]
  <2>1. s[i] \in Env
    BY ElementOfSeq
  <2>2. s[i].n \in Nat /\ s[i].from \in Sources
    BY <2>1 DEF Env
  <2>3. m[s[i].from] \in Nat /\ m1[s[i].from] \in Nat /\ m[s[i].from] <= m1[s[i].from]
    BY <2>2 DEF Numbers
  <2>. QED BY <2>2, <2>3 DEF InOrder
<1>. QED BY <1>1 DEF InOrder

\* An envelope above all others of its source goes to the end.
LEMMA AppendInOrder ==
    ASSUME NEW s \in Seq(Env), NEW l \in Numbers, NEW m \in Numbers, NEW e \in Env,
           InOrder(s, l, m), Below(s, e.from, e.n),
           l[e.from] < e.n, e.n <= m[e.from]
    PROVE  /\ InOrder(Append(s, e), l, m)
           /\ \A p, k : p # e.from /\ Below(s, p, k) => Below(Append(s, e), p, k)
<1>. DEFINE t == Append(s, e)
            n == Len(s)
<1>1. /\ Len(t) = n + 1 /\ (\A i \in 1..n : t[i] = s[i]) /\ t[n + 1] = e
  BY AppendProperties
<1>2. n \in Nat
  OBVIOUS
<1>3. InOrder(s, l, m) /\ Below(s, e.from, e.n)
  OBVIOUS
<1>. HIDE DEF t, n
<1>4. \A i \in 1..Len(t) : i \in 1..n \/ i = n + 1
  BY <1>1, <1>2
<1>5. ASSUME NEW i \in 1..Len(t) PROVE l[t[i].from] < t[i].n /\ t[i].n <= m[t[i].from]
  <2>1. CASE i \in 1..n
    BY <1>1, <1>3, <2>1 DEF InOrder, n
  <2>2. CASE i = n + 1
    BY <1>1, <2>2
  <2>. QED BY <1>4, <2>1, <2>2
<1>6. ASSUME NEW i \in 1..Len(t), NEW j \in 1..Len(t), i < j, t[i].from = t[j].from
      PROVE  t[i].n < t[j].n
  <2>1. i \in 1..n
    BY <1>1, <1>2, <1>6
  <2>2. CASE j \in 1..n
    BY <1>1, <1>3, <1>6, <2>1, <2>2 DEF InOrder, n
  <2>3. CASE j = n + 1
    <3>1. t[i] = s[i] /\ t[j] = e
      BY <1>1, <2>1, <2>3
    <3>. QED BY <1>3, <1>6, <2>1, <3>1 DEF Below, n
  <2>. QED BY <1>4, <2>2, <2>3
<1>7. ASSUME NEW p, NEW k, p # e.from, Below(s, p, k), NEW i \in 1..Len(t), t[i].from = p
      PROVE  t[i].n < k
  <2>1. CASE i \in 1..n
    BY <1>1, <1>7, <2>1 DEF Below, n
  <2>2. CASE i = n + 1
    BY <1>1, <1>7, <2>2
  <2>. QED BY <1>4, <2>1, <2>2
<1>8. InOrder(t, l, m)
  BY <1>5, <1>6 DEF InOrder
<1>9. \A p, k : p # e.from /\ Below(s, p, k) => Below(t, p, k)
  BY <1>7 DEF Below
<1>. QED BY <1>8, <1>9 DEF t

\* The envelope got is the next of its source, and the rest lies above it.
LEMMA TailInOrder ==
    ASSUME NEW s \in Seq(Env), s # <<>>, NEW l \in Numbers, NEW m \in Numbers, InOrder(s, l, m)
    PROVE  /\ Head(s) \in Env /\ l[Head(s).from] < Head(s).n /\ Head(s).n <= m[Head(s).from]
           /\ InOrder(Tail(s), [l EXCEPT ![Head(s).from] = Head(s).n], m)
           /\ \A p, k : Below(s, p, k) => Below(Tail(s), p, k)
<1>. DEFINE e == Head(s)
            t == Tail(s)
            l1 == [l EXCEPT ![e.from] = e.n]
<1>1. /\ e = s[1] /\ e \in Env /\ t \in Seq(Env) /\ Len(t) = Len(s) - 1
      /\ (\A i \in 1..Len(t) : t[i] = s[i + 1])
  BY HeadTailProperties
<1>2. Len(s) \in Nat /\ Len(s) >= 1
  BY EmptySeq
<1>3. \A x \in Sources : l1[x] = IF x = e.from THEN e.n ELSE l[x]
  BY DEF Numbers
<1>. HIDE DEF e, t, l1
<1>4. 1 \in 1..Len(s) /\ \A i \in 1..Len(t) : i + 1 \in 1..Len(s) /\ 1 < i + 1
  BY <1>1, <1>2
<1>5. l[e.from] < e.n /\ e.n <= m[e.from]
  BY <1>1, <1>4 DEF InOrder
<1>6. ASSUME NEW i \in 1..Len(t) PROVE l1[t[i].from] < t[i].n /\ t[i].n <= m[t[i].from]
  <2>1. t[i] = s[i + 1] /\ i + 1 \in 1..Len(s) /\ 1 < i + 1
    BY <1>1, <1>4
  <2>2. l[t[i].from] < t[i].n /\ t[i].n <= m[t[i].from]
    BY <2>1 DEF InOrder
  <2>3. t[i].from \in Sources
    <3>1. t[i] \in Env
      BY <1>1, ElementOfSeq
    <3>. QED BY <3>1 DEF Env
  <2>4. t[i].from = e.from => e.n < t[i].n
    BY <1>1, <1>4, <2>1 DEF InOrder
  <2>. QED BY <1>3, <2>2, <2>3, <2>4
<1>7. ASSUME NEW i \in 1..Len(t), NEW j \in 1..Len(t), i < j, t[i].from = t[j].from
      PROVE  t[i].n < t[j].n
  <2>1. /\ t[i] = s[i + 1] /\ t[j] = s[j + 1] /\ i + 1 \in 1..Len(s) /\ j + 1 \in 1..Len(s)
        /\ i + 1 < j + 1
    <3>1. i \in Int /\ j \in Int
      OBVIOUS
    <3>2. i + 1 < j + 1
      BY <1>7, <3>1
    <3>. QED BY <1>1, <1>4, <3>2
  <2>. QED BY <1>7, <2>1 DEF InOrder
<1>8. ASSUME NEW p, NEW k, Below(s, p, k), NEW i \in 1..Len(t), t[i].from = p PROVE t[i].n < k
  BY <1>1, <1>4, <1>8 DEF Below
<1>9. InOrder(t, l1, m)
  BY <1>6, <1>7 DEF InOrder
<1>10. \A p, k : Below(s, p, k) => Below(t, p, k)
  BY <1>8 DEF Below
<1>. QED BY <1>1, <1>5, <1>9, <1>10 DEF e, t, l1

\* A thread that is at the queue, or a publisher whose iterator may still visit it.
Owed(t, c) ==
    /\ c \in Attached
    /\ On(t, c) \/ (t \in Publishers /\ pc[t] \in Busy /\ Key(c) \notin seen[t])

\* Nothing in a client's queue, or got from it, is as new as what it is owed.
Fresh(t, c) ==
    Owed(t, c) => /\ last[Key(c)][env[t].from] < env[t].n
                  /\ Below(items[c], env[t].from, env[t].n)

OrderInv(c) ==
    /\ \A k \in 1..MaxAttach, x \in Sources : last[<<c, k>>][x] <= emitted[x]
    /\ \A i \in 1..Len(got[c]) : got[c][i].n <= emitted[got[c][i].from]
    /\ c \in Attached => InOrder(items[c], last[Key(c)], emitted)
    /\ \A t \in Threads : Fresh(t, c)

\* The key of an attached client names one of its queues.
LEMMA KeyIs ==
    ASSUME BookInv, NEW c \in Clients, c \in Attached
    PROVE  /\ attaches[c] \in 1..MaxAttach /\ Key(c) = <<c, attaches[c]>>
           /\ last[Key(c)] \in Numbers
<1>1. attaches[c] \in 1..MaxAttach
  BY FanoutAssumption DEF BookInv, TypeInv, ClientInv, Attached
<1>. QED BY <1>1 DEF BookInv, TypeInv, Key

\* Emissions, and a queue that at most lost something; what it is owed anew was
\* just emitted.
LEMMA OrderFrame ==
    ASSUME BookInv, NEW c \in Clients, OrderInv(c),
           \A k \in 1..MaxAttach : last'[<<c, k>>] = last[<<c, k>>],
           got'[c] = got[c] \/ got'[c] = <<>>, attaches'[c] = attaches[c],
           emitted' \in Numbers, \A x \in Sources : emitted[x] <= emitted'[x],
           (c \in Attached)' => c \in Attached /\ Thin(items'[c], items[c]),
           items'[c] \in Seq(Env),
           \A t \in Threads : Owed(t, c)' =>
               \/ Owed(t, c) /\ env'[t] = env[t]
               \/ env'[t].from \in Sources /\ env'[t].n \in Nat /\ env'[t].n > emitted[env'[t].from]
    PROVE  OrderInv(c)'
<1>0. TypeInv /\ emitted \in Numbers /\ got[c] \in Seq(Env) /\ items[c] \in Seq(Env)
  BY DEF BookInv, TypeInv
<1>1. ASSUME NEW k \in 1..MaxAttach, NEW x \in Sources PROVE last'[<<c, k>>][x] <= emitted'[x]
  <2>1. last[<<c, k>>] \in Numbers
    BY <1>0 DEF TypeInv
  <2>2. last[<<c, k>>][x] \in Nat /\ emitted[x] \in Nat /\ emitted'[x] \in Nat
    BY <1>0, <2>1 DEF Numbers
  <2>. QED BY <2>2 DEF OrderInv
<1>2. ASSUME NEW i \in 1..Len(got'[c]) PROVE got'[c][i].n <= emitted'[got'[c][i].from]
  <2>1. got'[c] = got[c]
    BY <1>2
  <2>2. got[c][i] \in Env
    BY <1>0, <1>2, <2>1, ElementOfSeq
  <2>3. got[c][i].from \in Sources /\ got[c][i].n \in Nat
    BY <2>2 DEF Env
  <2>4. emitted[got[c][i].from] \in Nat /\ emitted'[got[c][i].from] \in Nat
    BY <1>0, <2>3 DEF Numbers
  <2>5. got[c][i].n <= emitted[got[c][i].from]
    BY <1>2, <2>1 DEF OrderInv
  <2>6. emitted[got[c][i].from] <= emitted'[got[c][i].from]
    BY <2>3
  <2>. QED BY <2>1, <2>3, <2>4, <2>5, <2>6
<1>3. ASSUME (c \in Attached)'
      PROVE  /\ InOrder(items'[c], last'[Key(c)'], emitted')
             /\ \A t \in Threads : Fresh(t, c)'
  <2>1. c \in Attached /\ Thin(items'[c], items[c])
    BY <1>3
  <2>2. /\ attaches[c] \in 1..MaxAttach /\ Key(c) = <<c, attaches[c]>> /\ last[Key(c)] \in Numbers
    BY <2>1, KeyIs
  <2>3. Key(c)' = Key(c) /\ last'[Key(c)] = last[Key(c)]
    BY <2>2 DEF Key
  <2>4. InOrder(items[c], last[Key(c)], emitted)
    BY <2>1 DEF OrderInv
  <2>5. /\ InOrder(items'[c], last[Key(c)], emitted)
        /\ \A p, k : Below(items[c], p, k) => Below(items'[c], p, k)
    BY <2>1, <2>4, ThinInOrder
  <2>6. InOrder(items'[c], last[Key(c)], emitted')
    BY <1>0, <2>2, <2>5, LaterInOrder
  <2>7. ASSUME NEW t \in Threads, Owed(t, c)'
        PROVE  /\ last[Key(c)][env'[t].from] < env'[t].n
               /\ Below(items'[c], env'[t].from, env'[t].n)
    <3>1. CASE Owed(t, c) /\ env'[t] = env[t]
      BY <2>5, <3>1 DEF OrderInv, Fresh
    <3>2. CASE /\ env'[t].from \in Sources /\ env'[t].n \in Nat
               /\ env'[t].n > emitted[env'[t].from]
      <4>. DEFINE s == env'[t].from
                  n == env'[t].n
      <4>1. s \in Sources /\ n \in Nat /\ n > emitted[s]
        BY <3>2
      <4>. HIDE DEF s, n
      <4>2. last[Key(c)][s] <= emitted[s] /\ last[Key(c)][s] \in Nat /\ emitted[s] \in Nat
        BY <1>0, <2>2, <4>1 DEF OrderInv, Numbers
      <4>3. ASSUME NEW i \in 1..Len(items'[c]), items'[c][i].from = s PROVE items'[c][i].n < n
        <5>1. items'[c][i].n <= emitted[s]
          BY <2>5, <4>3 DEF InOrder
        <5>2. items'[c][i] \in Env
          BY ElementOfSeq
        <5>3. items'[c][i].n \in Nat
          BY <5>2 DEF Env
        <5>. QED BY <4>1, <4>2, <5>1, <5>3
      <4>4. last[Key(c)][s] < n
        BY <4>1, <4>2
      <4>. QED BY <4>3, <4>4 DEF Below, s, n
    <3>. QED BY <2>7, <3>1, <3>2
  <2>. QED BY <2>3, <2>6, <2>7 DEF Fresh
<1>4. (c \notin Attached)' => \A t \in Threads : Fresh(t, c)'
  BY DEF Fresh, Owed
<1>. QED BY <1>1, <1>2, <1>3, <1>4 DEF OrderInv

\* Where a step does not emit, or emits a snapshot or a publisher's next envelope.
LEMMA Emits ==
    ASSUME TypeInv, NEW s \in Sources, emitted' = [emitted EXCEPT ![s] = emitted[s] + 1]
    PROVE  /\ emitted' \in Numbers /\ emitted[s] \in Nat
           /\ \A x \in Sources : emitted[x] <= emitted'[x]
<1>1. emitted \in [Sources -> Nat]
  BY DEF TypeInv, Numbers
<1>2. emitted' \in [Sources -> Nat] /\ \A x \in Sources : emitted[x] <= emitted'[x]
  BY <1>1
<1>. QED BY <1>1, <1>2 DEF Numbers

\* Nothing is emitted.
LEMMA EmitsNot ==
    ASSUME TypeInv, emitted' = emitted
    PROVE  emitted' \in Numbers /\ \A x \in Sources : emitted[x] <= emitted'[x]
BY DEF TypeInv, Numbers

\* The actions of a client.
LEMMA OrderClient ==
    ASSUME BookInv, BookInv', NEW x \in Clients, ClientStep(x), NEW c \in Clients, OrderInv(c)
    PROVE  OrderInv(c)'
<1>0. TypeInv /\ TypeInv' /\ x \in Threads /\ x \notin Publishers
  BY Apart DEF BookInv
<1>00. items'[c] \in Seq(Env) /\ Thin(items[c], items[c])
  BY <1>0, ThinSelf DEF TypeInv
<1>1. CASE Attach(x)
  <2>1. /\ phase[x] = "out" /\ phase' = [phase EXCEPT ![x] = "attached"]
        /\ attaches' = [attaches EXCEPT ![x] = attaches[x] + 1]
        /\ UNCHANGED <<items, got, last, seen, at, pc, env, emitted>>
    BY <1>1 DEF Attach, queueVars, iterVars, putVars
  <2>2. CASE c # x
    <3>1. phase'[c] = phase[c] /\ attaches'[c] = attaches[c]
      BY <1>0, <2>1, <2>2 DEF TypeInv
    <3>2. (c \in Attached)' => c \in Attached
      BY <3>1 DEF Attached
    <3>3. \A t \in Threads : Owed(t, c)' => Owed(t, c) /\ env'[t] = env[t]
      BY <2>1, <3>1, <3>2 DEF Owed, On, Key
    <3>. QED BY <1>0, <1>00, <2>1, <3>1, <3>2, <3>3, EmitsNot, OrderFrame
  <2>3. CASE c = x
    <3>1. /\ attaches'[c] = attaches[c] + 1 /\ attaches[c] \in Nat /\ items'[c] = <<>>
          /\ got'[c] = <<>> /\ (c \in Attached)'
      BY <1>0, <2>1, <2>3 DEF TypeInv, BookInv, ClientInv, Attached
    <3>2. attaches'[c] \in 1..MaxAttach
      BY <1>0, <3>1, FanoutAssumption DEF BookInv, ClientInv
    <3>3. Key(c)' = <<c, attaches'[c]>> /\ \A y \in Sources : last'[Key(c)'][y] = 0
      <4>1. attaches'[c] > attaches[c]
        BY <3>1
      <4>2. \A y \in Sources : last[<<c, attaches'[c]>>][y] = 0
        BY <3>2, <4>1 DEF BookInv, ClientInv
      <4>. QED BY <2>1, <4>2 DEF Key
    <3>4. InOrder(items'[c], last'[Key(c)'], emitted') /\ \A y, n : Below(items'[c], y, n)
      BY <3>1 DEF InOrder, Below
    <3>5. ASSUME NEW t \in Threads, Owed(t, c)' PROVE last'[Key(c)'][env'[t].from] < env'[t].n
      <4>1. ~On(t, c)'
        BY <2>1, <2>3, <3>1, NotYet DEF On, Key
      <4>2. t \in Publishers /\ pc[t] \in Busy
        BY <2>1, <3>5, <4>1 DEF Owed
      <4>3. env[t].from = t /\ env[t].n = emitted[t] /\ emitted[t] > 0 /\ t \in Sources
        BY <4>2, Apart DEF BookInv, ThreadInv
      <4>. QED BY <2>1, <3>3, <4>3
    <3>6. \A k \in 1..MaxAttach, y \in Sources : last'[<<c, k>>][y] <= emitted'[y]
      BY <2>1 DEF OrderInv
    <3>. QED BY <3>1, <3>4, <3>5, <3>6 DEF OrderInv, Fresh
  <2>. QED BY <2>2, <2>3
<1>2. CASE Detach(x)
  <2>1. /\ phase' = [phase EXCEPT ![x] = "out"] /\ items' = [items EXCEPT ![x] = <<>>]
        /\ got' = [got EXCEPT ![x] = <<>>]
        /\ UNCHANGED <<attaches, last, seen, at, pc, env, emitted>>
    BY <1>2 DEF Detach, iterVars, putVars
  <2>2. (c \in Attached)' => c # x /\ c \in Attached
    BY <1>0, <2>1 DEF Attached, TypeInv
  <2>3. (c \in Attached)' => c \in Attached /\ Thin(items'[c], items[c])
    BY <1>0, <1>00, <2>1, <2>2 DEF TypeInv
  <2>4. got'[c] = got[c] \/ got'[c] = <<>>
    BY <1>0, <2>1 DEF TypeInv
  <2>5. \A t \in Threads : Owed(t, c)' => Owed(t, c) /\ env'[t] = env[t]
    BY <2>1, <2>2 DEF Owed, On, Key
  <2>. QED BY <1>0, <1>00, <2>1, <2>3, <2>4, <2>5, EmitsNot, OrderFrame
<1>3. CASE OnAttach(x)
  <2>. DEFINE e == Envelope(Snapshot, emitted[Snapshot] + 1, "control")
  <2>1. /\ emitted' = [emitted EXCEPT ![Snapshot] = emitted[Snapshot] + 1]
        /\ env' = [env EXCEPT ![x] = e] /\ at' = [at EXCEPT ![x] = Key(x)]
        /\ pc' = [pc EXCEPT ![x] = AfterTest(e, x)]
        /\ UNCHANGED <<items, phase, attaches, got, last, seen>>
    BY <1>3 DEF OnAttach, Goto, queueVars, clientVars, iterVars
  <2>2. /\ emitted' \in Numbers /\ emitted[Snapshot] \in Nat /\ Snapshot \in Sources
        /\ \A y \in Sources : emitted[y] <= emitted'[y]
    BY <1>0, <2>1, Apart, Emits
  <2>3. e.from = Snapshot /\ e.n = emitted[Snapshot] + 1
    BY DEF Envelope
  <2>. HIDE DEF e
  <2>4. ASSUME NEW t \in Threads, Owed(t, c)'
        PROVE  \/ Owed(t, c) /\ env'[t] = env[t]
               \/ env'[t].from \in Sources /\ env'[t].n \in Nat /\ env'[t].n > emitted[env'[t].from]
    <3>1. CASE t # x
      <4>1. env'[t] = env[t] /\ at'[t] = at[t] /\ pc'[t] = pc[t]
        BY <1>0, <2>1, <3>1 DEF TypeInv
      <4>. QED BY <2>1, <2>4, <4>1 DEF Owed, On, Key, Attached
    <3>2. CASE t = x
      <4>1. env'[t] = e
        BY <1>0, <2>1, <3>2 DEF TypeInv
      <4>. QED BY <2>2, <2>3, <4>1
    <3>. QED BY <3>1, <3>2
  <2>5. (c \in Attached)' => c \in Attached
    BY <2>1 DEF Attached
  <2>. QED BY <1>00, <2>1, <2>2, <2>4, <2>5, OrderFrame
<1>4. CASE Get(x)
  <2>. DEFINE s == items[x]
              e == Head(s)
              k == Key(x)
  <2>1. /\ x \in Attached /\ s # <<>> /\ got' = [got EXCEPT ![x] = Append(got[x], e)]
        /\ last' = [last EXCEPT ![k][e.from] = e.n] /\ items' = [items EXCEPT ![x] = Tail(s)]
        /\ UNCHANGED <<phase, attaches, seen, at, pc, env, emitted>>
    BY <1>4 DEF Get, iterVars, putVars
  <2>2. s \in Seq(Env) /\ emitted \in Numbers /\ got[x] \in Seq(Env)
    BY <1>0 DEF TypeInv
  <2>3. k = <<x, attaches[x]>> /\ attaches[x] \in 1..MaxAttach /\ last[k] \in Numbers
    BY <2>1, KeyIs
  <2>4. \A t \in Threads : Owed(t, c)' => Owed(t, c) /\ env'[t] = env[t]
    BY <2>1 DEF Owed, On, Key, Attached
  <2>5. CASE c # x
    <3>1. \A i \in 1..MaxAttach : last'[<<c, i>>] = last[<<c, i>>]
      <4>1. \A i \in 1..MaxAttach : <<c, i>> # k
        BY <2>3, <2>5
      <4>. HIDE DEF k
      <4>. QED BY <1>0, <2>1, <4>1 DEF TypeInv
    <3>2. items'[c] = items[c] /\ got'[c] = got[c] /\ ((c \in Attached)' => c \in Attached)
      BY <1>0, <2>1, <2>5 DEF TypeInv, Attached
    <3>. QED BY <1>0, <1>00, <2>1, <2>4, <3>1, <3>2, EmitsNot, OrderFrame
  <2>6. CASE c = x
    <3>1. InOrder(s, last[k], emitted)
      BY <2>1, <2>6 DEF OrderInv
    <3>. DEFINE l == [last[k] EXCEPT ![e.from] = e.n]
    <3>2. /\ e \in Env /\ last[k][e.from] < e.n /\ e.n <= emitted[e.from]
          /\ InOrder(Tail(s), l, emitted)
          /\ \A p, n : Below(s, p, n) => Below(Tail(s), p, n)
      BY <2>1, <2>2, <2>3, <3>1, TailInOrder
    <3>3. e.from \in Sources /\ e.n \in Nat /\ e = s[1] /\ 1 \in 1..Len(s)
      <4>1. Len(s) > 0 /\ e = s[1]
        BY <2>1, <2>2, HeadTailProperties, EmptySeq
      <4>. QED BY <3>2, <4>1 DEF Env
    <3>4. items'[c] = Tail(s) /\ got'[c] = Append(got[c], e) /\ Key(c)' = k /\ c \in Attached
      BY <1>0, <2>1, <2>6 DEF TypeInv, Key
    <3>. HIDE DEF e, s
    <3>5. last' = [last EXCEPT ![k] = l]
      BY <2>1 DEF l
    <3>6. /\ l \in Numbers /\ last'[k] = l
          /\ \A i \in 1..MaxAttach : <<c, i>> # k => last'[<<c, i>>] = last[<<c, i>>]
      <4>1. l \in Numbers
        BY <2>3, <3>3 DEF Numbers
      <4>2. k \in Clients \X (1..MaxAttach) /\ last \in [Clients \X (1..MaxAttach) -> Numbers]
        BY <1>0, <2>3 DEF TypeInv
      <4>. HIDE DEF k, l
      <4>. QED BY <3>5, <4>1, <4>2
    <3>7. \A y \in Sources : l[y] = IF y = e.from THEN e.n ELSE last[k][y]
      BY <2>3, <3>3 DEF Numbers
    <3>. HIDE DEF k, l
    <3>8. ASSUME NEW i \in 1..MaxAttach, NEW y \in Sources PROVE last'[<<c, i>>][y] <= emitted'[y]
      <4>1. CASE <<c, i>> = k
        <5>1. last[k][y] <= emitted[y]
          BY <4>1 DEF OrderInv
        <5>. QED BY <2>1, <3>2, <3>6, <3>7, <4>1, <5>1
      <4>2. CASE <<c, i>> # k
        BY <2>1, <3>6, <4>2 DEF OrderInv
      <4>. QED BY <4>1, <4>2
    <3>9. ASSUME NEW i \in 1..Len(got'[c]) PROVE got'[c][i].n <= emitted'[got'[c][i].from]
      <4>1. /\ Len(got'[c]) = Len(got[c]) + 1 /\ Len(got[c]) \in Nat
            /\ (\A j \in 1..Len(got[c]) : got'[c][j] = got[c][j]) /\ got'[c][Len(got[c]) + 1] = e
        BY <2>2, <2>6, <3>2, <3>4, AppendProperties
      <4>2. CASE i \in 1..Len(got[c])
        BY <2>1, <4>1, <4>2 DEF OrderInv
      <4>3. CASE i = Len(got[c]) + 1
        BY <2>1, <3>2, <4>1, <4>3
      <4>. QED BY <4>1, <4>2, <4>3
    <3>10. ASSUME NEW t \in Threads, Owed(t, c)'
           PROVE  last'[k][env'[t].from] < env'[t].n /\ Below(items'[c], env'[t].from, env'[t].n)
      <4>1. /\ Owed(t, c) /\ env'[t] = env[t] /\ last[k][env[t].from] < env[t].n
            /\ Below(s, env[t].from, env[t].n)
        BY <2>4, <2>6, <3>10 DEF OrderInv, Fresh, k, s
      <4>2. env[t].from = e.from => e.n < env[t].n
        BY <3>3, <4>1 DEF Below
      <4>3. env[t].from \in Sources
        BY <1>0 DEF TypeInv, Env
      <4>. QED BY <3>2, <3>4, <3>6, <3>7, <4>1, <4>2, <4>3
    <3>11. InOrder(items'[c], last'[Key(c)'], emitted')
      BY <2>1, <3>2, <3>4, <3>6
    <3>12. \A t \in Threads : Fresh(t, c)'
      BY <3>4, <3>10 DEF Fresh
    <3>. QED BY <3>8, <3>9, <3>11, <3>12 DEF OrderInv
  <2>. QED BY <2>5, <2>6
<1>. QED BY <1>1, <1>2, <1>3, <1>4 DEF ClientStep

\* The iterator of a publisher.
LEMMA OrderPublisher ==
    ASSUME BookInv, BookInv', NEW p \in Publishers, PublisherStep(p), NEW c \in Clients, OrderInv(c)
    PROVE  OrderInv(c)'
<1>0. TypeInv /\ TypeInv' /\ p \in Threads /\ p \notin Clients /\ p \in Sources
  BY Apart DEF BookInv
<1>00. items'[c] \in Seq(Env) /\ Thin(items[c], items[c])
  BY <1>0, ThinSelf DEF TypeInv
<1>1. CASE Publish(p)
  <2>1. PICK y \in Types : env' = [env EXCEPT ![p] = Envelope(p, emitted[p] + 1, y)]
    BY <1>1 DEF Publish
  <2>2. /\ emitted' = [emitted EXCEPT ![p] = emitted[p] + 1] /\ seen' = [seen EXCEPT ![p] = {}]
        /\ pc' = [pc EXCEPT ![p] = "next"]
        /\ UNCHANGED <<items, phase, attaches, got, last, at>>
    BY <1>1 DEF Publish, Goto, queueVars, clientVars, putVars
  <2>3. /\ emitted' \in Numbers /\ emitted[p] \in Nat /\ \A x \in Sources : emitted[x] <= emitted'[x]
    BY <1>0, <2>2, Emits
  <2>. DEFINE e == Envelope(p, emitted[p] + 1, y)
  <2>4. e.from = p /\ e.n = emitted[p] + 1 /\ env' = [env EXCEPT ![p] = e]
    BY <2>1 DEF Envelope
  <2>. HIDE DEF e
  <2>5. ASSUME NEW t \in Threads, Owed(t, c)'
        PROVE  \/ Owed(t, c) /\ env'[t] = env[t]
               \/ env'[t].from \in Sources /\ env'[t].n \in Nat /\ env'[t].n > emitted[env'[t].from]
    <3>1. CASE t # p
      <4>1. env'[t] = env[t] /\ pc'[t] = pc[t] /\ (t \in Publishers => seen'[t] = seen[t])
        BY <1>0, <2>2, <2>4, <3>1 DEF TypeInv
      <4>. QED BY <2>2, <2>5, <4>1 DEF Owed, On, Key, Attached
    <3>2. CASE t = p
      <4>1. env'[t] = e
        BY <1>0, <2>4, <3>2 DEF TypeInv
      <4>. QED BY <1>0, <2>3, <2>4, <4>1
    <3>. QED BY <3>1, <3>2
  <2>6. (c \in Attached)' => c \in Attached
    BY <2>2 DEF Attached
  <2>. QED BY <1>00, <2>2, <2>3, <2>5, <2>6, OrderFrame
<1>2. CASE Published(p)
  <2>1. /\ pc' = [pc EXCEPT ![p] = "idle"]  /\ seen' = [seen EXCEPT ![p] = {}]
        /\ UNCHANGED <<items, phase, attaches, got, last, at, env, emitted>>
    BY <1>2 DEF Published, Goto, queueVars, clientVars, putVars
  <2>2. ASSUME NEW t \in Threads, Owed(t, c)' PROVE Owed(t, c) /\ env'[t] = env[t]
    <3>1. CASE t # p
      <4>1. pc'[t] = pc[t] /\ (t \in Publishers => seen'[t] = seen[t])
        BY <1>0, <2>1, <3>1 DEF TypeInv
      <4>. QED BY <2>1, <2>2, <4>1 DEF Owed, On, Key, Attached
    <3>2. CASE t = p
      <4>1. pc'[t] = "idle"
        BY <1>0, <2>1, <3>2 DEF TypeInv
      <4>. QED BY <2>2, <4>1 DEF Owed, On, Busy, PutSteps
    <3>. QED BY <3>1, <3>2
  <2>3. (c \in Attached)' => c \in Attached
    BY <2>1 DEF Attached
  <2>. QED BY <1>0, <1>00, <2>1, <2>2, <2>3, EmitsNot, OrderFrame
<1>3. ASSUME NEW x \in Clients, NextQueue(p, x) PROVE OrderInv(c)'
  <2>1. /\ pc[p] = "next" /\ x \in Attached /\ Key(x) \notin seen[p]
        /\ pc' = [pc EXCEPT ![p] = AfterTest(env[p], x)] /\ at' = [at EXCEPT ![p] = Key(x)]
        /\ seen' = [seen EXCEPT ![p] = seen[p] \cup {Key(x)}]
        /\ UNCHANGED <<items, phase, attaches, got, last, env, emitted>>
    BY <1>3 DEF NextQueue, Goto, queueVars, clientVars
  <2>2. ASSUME NEW t \in Threads, Owed(t, c)' PROVE Owed(t, c) /\ env'[t] = env[t]
    <3>1. CASE t # p
      <4>1. /\ pc'[t] = pc[t] /\ at'[t] = at[t] /\ (t \in Publishers => seen'[t] = seen[t])
        BY <1>0, <2>1, <3>1 DEF TypeInv
      <4>. QED BY <2>1, <2>2, <4>1 DEF Owed, On, Key, Attached
    <3>2. CASE t = p
      <4>1. /\ at'[t] = Key(x) /\ seen'[t] = seen[t] \cup {Key(x)} /\ pc[t] \in Busy
            /\ c \in Attached /\ Key(c)' = Key(c)
        BY <1>0, <2>1, <2>2, <3>2 DEF TypeInv, Busy, Owed, Attached, Key
      <4>2. CASE c = x
        BY <2>1, <3>2, <4>1, <4>2 DEF Owed
      <4>3. CASE c # x
        <5>1. Key(c) # Key(x)
          BY <4>3 DEF Key
        <5>2. ~On(t, c)'
          BY <4>1, <5>1 DEF On
        <5>. QED BY <2>1, <2>2, <3>2, <4>1, <5>2 DEF Owed
      <4>. QED BY <4>2, <4>3
    <3>. QED BY <3>1, <3>2
  <2>3. (c \in Attached)' => c \in Attached
    BY <2>1 DEF Attached
  <2>. QED BY <1>0, <1>00, <2>1, <2>2, <2>3, EmitsNot, OrderFrame
<1>. QED BY <1>1, <1>2, <1>3 DEF PublisherStep

\* After a put is over, what its thread still owes to whom it did before.
LEMMA OwedLeave ==
    ASSUME BookInv, NEW t \in Threads, pc[t] \in Busy, NEW l \in {"next", "idle", "dead"},
           NEW stored \in BOOLEAN, Leave(t, l, stored), NEW c \in Clients
    PROVE  /\ (c \in Attached)' <=> c \in Attached
           /\ UNCHANGED <<attaches, got, last, env, emitted>>
           /\ \A u \in Threads : Owed(u, c)' => Owed(u, c) /\ ~(u = t /\ On(t, c))
<1>0. TypeInv
  BY DEF BookInv
<1>1. /\ pc' = [pc EXCEPT ![t] = l] /\ at' = [at EXCEPT ![t] = Nowhere]
      /\ UNCHANGED <<attaches, got, last, seen, env, emitted>>
      /\ t \in Publishers => UNCHANGED phase
      /\ t \in Clients => phase[t] = "attached" /\ phase' = [phase EXCEPT ![t] = "in"]
      /\ l \notin PutSteps
  BY LeaveIs
<1>2. (c \in Attached)' <=> c \in Attached
  BY <1>0, <1>1, Apart DEF Attached, TypeInv
<1>3. ASSUME NEW u \in Threads, Owed(u, c)' PROVE Owed(u, c) /\ ~(u = t /\ On(t, c))
  <2>1. CASE u # t
    <3>1. pc'[u] = pc[u] /\ at'[u] = at[u] /\ Key(c)' = Key(c)
      BY <1>0, <1>1, <2>1 DEF TypeInv, Key
    <3>2. On(u, c)' <=> On(u, c)
      BY <1>2, <3>1 DEF On
    <3>. QED BY <1>1, <1>2, <1>3, <2>1, <3>1, <3>2 DEF Owed
  <2>2. CASE u = t
    <3>1. ~On(u, c)' /\ Key(c)' = Key(c)
      BY <1>0, <1>1, <2>2 DEF TypeInv, Key, On
    <3>2. u \in Publishers /\ Key(c) \notin seen[u] /\ c \in Attached
      BY <1>1, <1>2, <1>3, <3>1 DEF Owed
    <3>3. ~On(t, c)
      BY <2>2, <3>2 DEF On, BookInv, ThreadInv
    <3>. QED BY <2>2, <3>2, <3>3 DEF Owed
  <2>. QED BY <2>1, <2>2
<1>. QED BY <1>1, <1>2, <1>3

\* The threads that a queue hears from have different sources.
LEMMA OneSource ==
    ASSUME BookInv, NEW c \in Clients, NEW t \in Threads, NEW u \in Threads, t # u,
           On(t, c), Owed(u, c)
    PROVE  env[u].from # env[t].from
<1>1. ASSUME NEW v \in Threads, Owed(v, c)
      PROVE  \/ v \in Publishers /\ env[v].from = v
             \/ v = c /\ env[v].from = Snapshot
  <2>1. CASE v \in Publishers
    <3>1. pc[v] \in Busy
      BY <1>1 DEF Owed, On, Busy
    <3>. QED BY <2>1, <3>1 DEF BookInv, ThreadInv
  <2>2. CASE v \notin Publishers
    <3>1. On(v, c) /\ v = c
      BY <1>1, <2>2, WhoIsOn DEF Owed
    <3>. QED BY <3>1 DEF BookInv, ThreadInv, On
  <2>. QED BY <2>1, <2>2
<1>2. Owed(t, c)
  BY DEF Owed, On
<1>. QED BY <1>1, <1>2, Apart

\* The steps of put.
LEMMA OrderThread ==
    ASSUME BookInv, BookInv', NEW t \in Threads, ThreadStep(t), NEW c \in Clients, OrderInv(c)
    PROVE  OrderInv(c)'
<1>0. TypeInv /\ TypeInv'
  BY DEF BookInv
<1>00. items'[c] \in Seq(Env) /\ Thin(items[c], items[c])
  BY <1>0, ThinSelf DEF TypeInv
<1>1. CASE Quits(t)
  <2>1. PICK l \in {"next", "idle", "dead"}, stored \in BOOLEAN : Leave(t, l, stored)
    BY <1>1 DEF Quits
  <2>2. pc[t] \in Busy /\ UNCHANGED items
    BY <1>1 DEF Quits, queueVars
  <2>3. /\ (c \in Attached)' <=> c \in Attached
        /\ UNCHANGED <<attaches, got, last, env, emitted>>
        /\ \A u \in Threads : Owed(u, c)' => Owed(u, c)
    BY <2>1, <2>2, OwedLeave
  <2>. QED BY <1>0, <1>00, <2>2, <2>3, EmitsNot, OrderFrame
<1>2. ASSUME NEW x \in Clients, NEW l \in PutSteps, On(t, x), Moves(t, l),
             Thin(items'[c], items[c])
      PROVE  OrderInv(c)'
  <2>1. /\ pc' = [pc EXCEPT ![t] = l]
        /\ UNCHANGED <<phase, attaches, got, last, seen, env, emitted, at>>
    BY <1>2 DEF Moves, Goto, clientVars, iterVars
  <2>2. \A u \in Threads : /\ pc'[u] \in PutSteps <=> pc[u] \in PutSteps
                           /\ pc'[u] \in Busy <=> pc[u] \in Busy
    <3>1. pc[t] \in PutSteps /\ pc[t] \in Busy /\ l \in Busy
      BY <1>2 DEF On, Busy
    <3>. QED BY <1>0, <2>1, <3>1 DEF TypeInv
  <2>3. \A u \in Threads : Owed(u, c)' => Owed(u, c)
    BY <2>1, <2>2 DEF Owed, On, Key, Attached
  <2>4. (c \in Attached)' => c \in Attached
    BY <2>1 DEF Attached
  <2>. QED BY <1>0, <1>00, <1>2, <2>1, <2>3, <2>4, EmitsNot, OrderFrame
<1>3. ASSUME NEW x \in Clients, Scan(t, x) PROVE OrderInv(c)'
  <2>1. On(t, x) /\ Moves(t, "found") /\ "found" \in PutSteps /\ UNCHANGED items
    BY <1>3 DEF Scan, queueVars, PutSteps
  <2>. QED BY <1>00, <1>2, <2>1
<1>4. ASSUME NEW x \in Clients, Count(t, x) PROVE OrderInv(c)'
  <2>1. On(t, x) /\ Moves(t, "store") /\ "store" \in PutSteps /\ UNCHANGED items
    BY <1>4 DEF Count, queueVars, PutSteps
  <2>. QED BY <1>00, <1>2, <2>1
<1>5. ASSUME NEW x \in Clients, Store(t, x) PROVE OrderInv(c)'
  <2>1. On(t, x) /\ Moves(t, "append") /\ "append" \in PutSteps /\ UNCHANGED items
    BY <1>5 DEF Store, PutSteps
  <2>. QED BY <1>00, <1>2, <2>1
<1>6. ASSUME NEW x \in Clients, NEW i \in Nat, Evicts(t, x, i) PROVE OrderInv(c)'
  <2>1. /\ On(t, x) /\ Moves(t, "count") /\ "count" \in PutSteps
        /\ i \in 1..Len(items[x]) /\ Evict(x, i)
    BY <1>6 DEF Evicts, PutSteps
  <2>2. items' = [items EXCEPT ![x] = RemoveAt(items[x], i)] /\ Thin(items'[x], items[x])
    BY <1>0, <2>1, EvictIs, EvictThin
  <2>3. Thin(items'[c], items[c])
    BY <1>0, <1>00, <2>2 DEF TypeInv
  <2>. QED BY <1>2, <2>1, <2>3
<1>7. ASSUME NEW x \in Clients, PutAppend(t, x) PROVE OrderInv(c)'
  <2>1. /\ pc[t] = "append" /\ pc[t] \in Busy /\ On(t, x)
        /\ items' = [items EXCEPT ![x] = Append(items[x], env[t])]
        /\ Leave(t, IF t \in Publishers THEN "next" ELSE "idle", TRUE)
    BY <1>7 DEF PutAppend, PutSteps, Busy, Returns
  <2>2. PICK l \in {"next", "idle", "dead"} : Leave(t, l, TRUE)
    BY <2>1
  <2>3. /\ (c \in Attached)' <=> c \in Attached
        /\ UNCHANGED <<attaches, got, last, env, emitted>>
        /\ \A u \in Threads : Owed(u, c)' => Owed(u, c) /\ ~(u = t /\ On(t, c))
    BY <2>1, <2>2, OwedLeave
  <2>4. CASE c # x
    <3>1. items'[c] = items[c]
      BY <1>0, <2>1, <2>4 DEF TypeInv
    <3>. QED BY <1>0, <1>00, <2>3, <3>1, EmitsNot, OrderFrame
  <2>5. CASE c = x
    <3>. DEFINE e == env[t]
                s == items[c]
                k == Key(c)
    <3>1. /\ s \in Seq(Env) /\ e \in Env /\ e.from \in Sources /\ items'[c] = Append(s, e)
          /\ emitted \in Numbers
      BY <1>0, <2>1, <2>5 DEF TypeInv, Env
    <3>2. c \in Attached /\ On(t, c) /\ Owed(t, c) /\ Key(c)' = k /\ last[k] \in Numbers
      BY <2>1, <2>3, <2>5, KeyIs DEF On, Owed, Key
    <3>3. /\ InOrder(s, last[k], emitted) /\ last[k][e.from] < e.n /\ Below(s, e.from, e.n)
      BY <3>2 DEF OrderInv, Fresh
    <3>4. e.n <= emitted[e.from]
      <4>1. CASE t \in Publishers
        <5>1. e.from = t /\ e.n = emitted[t]
          BY <2>1, <4>1 DEF BookInv, ThreadInv
        <5>2. emitted[t] \in Nat
          BY <3>1, <4>1, Apart DEF Numbers
        <5>. QED BY <5>1, <5>2
      <4>2. CASE t \in Clients
        BY <2>1, <4>2 DEF BookInv, ThreadInv, On
      <4>. QED BY <4>1, <4>2, Apart
    <3>. HIDE DEF e, s, k
    <3>5. /\ InOrder(Append(s, e), last[k], emitted)
          /\ \A y, n : y # e.from /\ Below(s, y, n) => Below(Append(s, e), y, n)
      BY <3>1, <3>2, <3>3, <3>4, AppendInOrder
    <3>6. ASSUME NEW u \in Threads, Owed(u, c)'
          PROVE  last[k][env[u].from] < env[u].n /\ Below(items'[c], env[u].from, env[u].n)
      <4>1. Owed(u, c) /\ u # t
        BY <2>3, <3>2, <3>6
      <4>2. env[u].from # e.from
        BY <3>2, <4>1, OneSource DEF e
      <4>3. last[k][env[u].from] < env[u].n /\ Below(s, env[u].from, env[u].n)
        BY <4>1 DEF OrderInv, Fresh, k, s
      <4>. QED BY <3>1, <3>5, <4>2, <4>3
    <3>7. InOrder(items'[c], last'[Key(c)'], emitted')
      BY <2>3, <3>1, <3>2, <3>5
    <3>8. \A u \in Threads : Fresh(u, c)'
      BY <2>3, <3>2, <3>6 DEF Fresh
    <3>9. /\ \A j \in 1..MaxAttach, y \in Sources : last'[<<c, j>>][y] <= emitted'[y]
          /\ \A i \in 1..Len(got'[c]) : got'[c][i].n <= emitted'[got'[c][i].from]
      BY <2>3 DEF OrderInv
    <3>. QED BY <3>7, <3>8, <3>9 DEF OrderInv
  <2>. QED BY <2>4, <2>5
<1>. QED BY <1>1, <1>3, <1>4, <1>5, <1>6, <1>7 DEF ThreadStep

\* Always.
LEMMA OrderAlways == Spec => []\A c \in Clients : OrderInv(c)
<1>. DEFINE Inv == \A c \in Clients : OrderInv(c)
<1>1. Init => Inv
  <2>. SUFFICES ASSUME Init, NEW c \in Clients PROVE OrderInv(c)
    OBVIOUS
  <2>1. /\ c \notin Attached /\ got[c] = <<>>
        /\ \A x \in Sources : emitted[x] = 0 /\ \A k \in 1..MaxAttach : last[<<c, k>>][x] = 0
    BY DEF Init, Attached
  <2>. QED BY <2>1 DEF OrderInv, Fresh, Owed
<1>2. BookInv /\ BookInv' /\ Inv /\ [Next]_vars => Inv'
  <2>. SUFFICES ASSUME BookInv, BookInv', Inv, [Next]_vars, NEW c \in Clients PROVE OrderInv(c)'
    OBVIOUS
  <2>1. CASE UNCHANGED vars
    <3>1. UNCHANGED <<phase, attaches, items, pc, env, seen, at, emitted, got, last>>
      BY <2>1 DEF vars, queueVars, clientVars, putVars, iterVars
    <3>. QED BY <3>1 DEF OrderInv, Fresh, Owed, On, Key, Attached
  <2>2. CASE Next
    BY <2>2, StepKinds, OrderClient, OrderPublisher, OrderThread
  <2>. QED BY <2>1, <2>2
<1>. QED BY <1>1, <1>2, BookAlways, PTL DEF Spec

----------------------------------------------------------------------------
(* The fan-out implements the lossy channel                                 *)

\* FanoutInOrder: every queue yields the envelopes of each publisher in order and
\* at most once, whatever evictions, dying publishers and re-attachments lose.
\* A get is a delivery, an emission an Emit, all else stutters.
THEOREM FanoutImplementsChannel == Spec => FanoutInOrder
<1>. DEFINE Inv == \A c \in Clients : OrderInv(c)
<1>1. Init => Channel!Init
  BY DEF Init, Channel!Init
<1>2. BookInv /\ Inv /\ [Next]_vars => [Channel!Next]_<<emitted, last>>
  <2>. SUFFICES ASSUME BookInv, Inv, [Next]_vars
                PROVE  Channel!Next \/ UNCHANGED <<emitted, last>>
    OBVIOUS
  <2>0. TypeInv
    BY DEF BookInv
  <2>1. ASSUME NEW c \in Clients, Get(c) PROVE Channel!Next
    <3>. DEFINE s == items[c]
                e == Head(s)
                k == Key(c)
    <3>1. /\ c \in Attached /\ s # <<>> /\ last' = [last EXCEPT ![k][e.from] = e.n]
          /\ UNCHANGED emitted
      BY <2>1 DEF Get
    <3>2. s \in Seq(Env) /\ last[k] \in Numbers /\ emitted \in Numbers
          /\ k \in Clients \X (1..MaxAttach)
      BY <2>0, <3>1, KeyIs DEF TypeInv
    <3>3. InOrder(s, last[k], emitted)
      BY <3>1 DEF OrderInv
    <3>4. e \in Env /\ last[k][e.from] < e.n /\ e.n <= emitted[e.from]
      BY <3>1, <3>2, <3>3, TailInOrder
    <3>. HIDE DEF e, s, k
    <3>5. e.from \in Sources /\ e.n \in Nat /\ last[k][e.from] \in Nat /\ emitted[e.from] \in Nat
      BY <3>2, <3>4 DEF Env, Numbers
    <3>6. e.n \in last[k][e.from] + 1 .. emitted[e.from]
      BY <3>4, <3>5
    <3>7. Channel!Deliver(k, e.from)
      BY <3>1, <3>6 DEF Channel!Deliver
    <3>. QED BY <3>2, <3>5, <3>7 DEF Channel!Next
  <2>2. ASSUME NEW c \in Clients, OnAttach(c) PROVE Channel!Next
    <3>1. Channel!Emit(Snapshot)
      BY <2>2 DEF OnAttach, Channel!Emit, clientVars
    <3>. QED BY <3>1, Apart DEF Channel!Next
  <2>3. ASSUME NEW p \in Publishers, Publish(p) PROVE Channel!Next
    <3>1. Channel!Emit(p)
      BY <2>3 DEF Publish, Channel!Emit, clientVars
    <3>. QED BY <3>1, Apart DEF Channel!Next
  <2>4. ASSUME NEW c \in Clients, Attach(c) \/ Detach(c) PROVE UNCHANGED <<emitted, last>>
    BY <2>4 DEF Attach, Detach
  <2>5. ASSUME NEW p \in Publishers, Published(p) \/ \E c \in Clients : NextQueue(p, c)
        PROVE  UNCHANGED <<emitted, last>>
    BY <2>5 DEF NextQueue, Published, clientVars
  <2>6. ASSUME NEW t \in Threads, ThreadStep(t) PROVE UNCHANGED <<emitted, last>>
    BY <2>6 DEF ThreadStep, Quits, Leave, Scan, Count, Store, PutAppend, Returns, Evicts, Moves, clientVars
  <2>7. CASE UNCHANGED vars
    BY <2>7 DEF vars, clientVars
  <2>. QED BY <2>1, <2>2, <2>3, <2>4, <2>5, <2>6, <2>7, StepKinds DEF ClientStep, PublisherStep
<1>. QED BY <1>1, <1>2, BookAlways, OrderAlways, PTL DEF Spec, FanoutInOrder, Channel!Spec

----------------------------------------------------------------------------
(* Snapshots                                                                *)

\* The snapshot is at place i of a stream, after nothing that was emitted later.
SnapshotAt(s, b, i) ==
    /\ i \in 1..Len(s) /\ s[i].from = Snapshot
    /\ \A j \in 1..(i - 1) : s[j].n <= b[s[j].from]

SnapInv(c) ==
    phase[c] = "in" /\ ~refused[c] /\ evicted[c] = <<>> =>
        \E i \in Nat : SnapshotAt(Stream(c), before[c], i)

\* A stream is what was got, then what is queued.
LEMMA StreamIs ==
    ASSUME NEW g \in Seq(Env), NEW s \in Seq(Env)
    PROVE  /\ g \o s \in Seq(Env) /\ Len(g \o s) = Len(g) + Len(s)
           /\ \A i \in 1..Len(g) : (g \o s)[i] = g[i]
           /\ \A i \in 1..Len(s) : (g \o s)[Len(g) + i] = s[i]
<1>. DEFINE t == g \o s
<1>1. /\ t \in Seq(Env) /\ Len(t) = Len(g) + Len(s) /\ Len(g) \in Nat /\ Len(s) \in Nat
      /\ \A i \in 1..(Len(g) + Len(s)) : t[i] = IF i <= Len(g) THEN g[i] ELSE s[i - Len(g)]
  BY ConcatProperties
<1>. HIDE DEF t
<1>2. ASSUME NEW i \in 1..Len(g) PROVE t[i] = g[i]
  BY <1>1
<1>3. ASSUME NEW i \in 1..Len(s) PROVE t[Len(g) + i] = s[i]
  <2>1. Len(g) + i \in 1..(Len(g) + Len(s)) /\ ~(Len(g) + i <= Len(g)) /\ Len(g) + i - Len(g) = i
    BY <1>1
  <2>. QED BY <1>1, <2>1
<1>. QED BY <1>1, <1>2, <1>3 DEF t

\* A get moves an envelope from one part of the stream to the other.
LEMMA StreamGet ==
    ASSUME NEW g \in Seq(Env), NEW s \in Seq(Env), s # <<>>
    PROVE  Append(g, Head(s)) \o Tail(s) = g \o s
<1>. DEFINE a == Append(g, Head(s))
            t == Tail(s)
            u == a \o t
            v == g \o s
<1>1. /\ Head(s) \in Env /\ Head(s) = s[1] /\ t \in Seq(Env) /\ Len(t) = Len(s) - 1
      /\ \A i \in 1..Len(t) : t[i] = s[i + 1]
  BY HeadTailProperties
<1>2. /\ a \in Seq(Env) /\ Len(a) = Len(g) + 1 /\ a[Len(g) + 1] = s[1]
      /\ \A i \in 1..Len(g) : a[i] = g[i]
  BY <1>1, AppendProperties
<1>3. Len(g) \in Nat /\ Len(s) \in Nat /\ Len(s) >= 1
  BY EmptySeq
<1>. HIDE DEF a, t
<1>4. /\ u \in Seq(Env) /\ Len(u) = Len(a) + Len(t)
      /\ (\A i \in 1..Len(a) : u[i] = a[i]) /\ \A i \in 1..Len(t) : u[Len(a) + i] = t[i]
  BY <1>1, <1>2, StreamIs
<1>5. /\ v \in Seq(Env) /\ Len(v) = Len(g) + Len(s)
      /\ (\A i \in 1..Len(g) : v[i] = g[i]) /\ \A i \in 1..Len(s) : v[Len(g) + i] = s[i]
  BY StreamIs
<1>. HIDE DEF u, v
<1>6. Len(u) = Len(v) /\ Len(u) = Len(g) + Len(s)
  BY <1>1, <1>2, <1>3, <1>4, <1>5
<1>7. ASSUME NEW i \in 1..Len(u) PROVE u[i] = v[i]
  <2>1. CASE i <= Len(g)
    BY <1>2, <1>3, <1>4, <1>5, <1>7, <2>1
  <2>2. CASE i = Len(g) + 1
    <3>1. u[i] = s[1]
      BY <1>2, <1>3, <1>4, <2>2
    <3>2. v[Len(g) + 1] = s[1]
      BY <1>3, <1>5
    <3>. QED BY <2>2, <3>1, <3>2
  <2>3. CASE i > Len(g) + 1
    <3>. DEFINE k == i - Len(g) - 1
    <3>1. /\ k \in 1..Len(t) /\ i = Len(a) + k /\ k + 1 \in 1..Len(s) /\ i = Len(g) + (k + 1)
      BY <1>1, <1>2, <1>3, <1>6, <1>7, <2>3
    <3>. HIDE DEF k
    <3>2. u[i] = t[k] /\ t[k] = s[k + 1]
      BY <1>1, <1>4, <3>1
    <3>3. v[i] = s[k + 1]
      BY <1>5, <3>1
    <3>. QED BY <3>2, <3>3
  <2>4. i \in Int
    OBVIOUS
  <2>. QED BY <1>3, <2>1, <2>2, <2>3, <2>4
<1>8. u = v
  BY <1>4, <1>5, <1>6, <1>7, SeqEqual
<1>. QED BY <1>8 DEF u, v, a, t

\* An append to the queue is an append to the stream.
LEMMA StreamAppend ==
    ASSUME NEW g \in Seq(Env), NEW s \in Seq(Env), NEW e \in Env
    PROVE  LET u == g \o Append(s, e)
               v == g \o s
           IN  /\ v \in Seq(Env) /\ Len(u) = Len(v) + 1 /\ Len(v) \in Nat
               /\ \A i \in 1..Len(v) : u[i] = v[i]
               /\ u[Len(v) + 1] = e
<1>. DEFINE t == Append(s, e)
            u == g \o t
            v == g \o s
<1>1. /\ s \in Seq(Env) /\ t \in Seq(Env) /\ Len(t) = Len(s) + 1
      /\ (\A i \in 1..Len(s) : t[i] = s[i]) /\ t[Len(s) + 1] = e
  BY AppendProperties
<1>2. Len(g) \in Nat /\ Len(s) \in Nat
  BY <1>1
<1>. HIDE DEF t
<1>3. /\ u \in Seq(Env) /\ Len(u) = Len(g) + Len(t)
      /\ (\A i \in 1..Len(g) : u[i] = g[i]) /\ \A i \in 1..Len(t) : u[Len(g) + i] = t[i]
  BY <1>1, StreamIs
<1>4. /\ v \in Seq(Env) /\ Len(v) = Len(g) + Len(s)
      /\ (\A i \in 1..Len(g) : v[i] = g[i]) /\ \A i \in 1..Len(s) : v[Len(g) + i] = s[i]
  BY <1>1, StreamIs
<1>. HIDE DEF u, v
<1>5. Len(u) = Len(v) + 1 /\ Len(v) \in Nat
  BY <1>1, <1>2, <1>3, <1>4
<1>6. u[Len(v) + 1] = e
  <2>1. Len(s) + 1 \in 1..Len(t) /\ Len(v) + 1 = Len(g) + (Len(s) + 1)
    BY <1>1, <1>2, <1>4
  <2>. QED BY <1>1, <1>3, <2>1
<1>7. ASSUME NEW i \in 1..Len(v) PROVE u[i] = v[i]
  <2>1. CASE i <= Len(g)
    BY <1>2, <1>3, <1>4, <1>7, <2>1
  <2>2. CASE ~(i <= Len(g))
    <3>. DEFINE k == i - Len(g)
    <3>1. k \in 1..Len(s) /\ k \in 1..Len(t) /\ i = Len(g) + k
      BY <1>1, <1>2, <1>4, <1>7, <2>2
    <3>. HIDE DEF k
    <3>. QED BY <1>1, <1>3, <1>4, <3>1
  <2>. QED BY <2>1, <2>2
<1>. QED BY <1>4, <1>5, <1>6, <1>7 DEF u, v, t

\* So a snapshot keeps its place.
LEMMA SnapshotStays ==
    ASSUME NEW g \in Seq(Env), NEW s \in Seq(Env), NEW e \in Env, NEW b, NEW i \in Nat,
           SnapshotAt(g \o s, b, i)
    PROVE  SnapshotAt(g \o Append(s, e), b, i)
<1>. DEFINE u == g \o Append(s, e)
            v == g \o s
<1>1. Len(u) = Len(v) + 1 /\ Len(v) \in Nat /\ \A k \in 1..Len(v) : u[k] = v[k]
  BY StreamAppend
<1>2. SnapshotAt(v, b, i)
  OBVIOUS
<1>. HIDE DEF u, v
<1>3. i \in 1..Len(u) /\ i \in 1..Len(v) /\ \A j \in 1..(i - 1) : j \in 1..Len(v)
  BY <1>1, <1>2 DEF SnapshotAt
<1>4. SnapshotAt(u, b, i)
  BY <1>1, <1>2, <1>3 DEF SnapshotAt
<1>. QED BY <1>4 DEF u

\* A client whose stream and books stay, or whose books show a loss.
LEMMA SnapFrame ==
    ASSUME NEW c \in Clients, SnapInv(c),
           \/ phase'[c] # "in" \/ refused'[c] \/ evicted'[c] # <<>>
           \/ /\ phase'[c] = phase[c] /\ refused'[c] = refused[c] /\ before'[c] = before[c]
              /\ evicted'[c] = evicted[c] /\ got'[c] \o items'[c] = got[c] \o items[c]
    PROVE  SnapInv(c)'
BY DEF SnapInv, Stream

\* The snapshot that on_attach appends comes after what was emitted before it.
LEMMA SnapshotPut ==
    ASSUME BookInv, NEW c \in Clients, OrderInv(c), c \in Attached, NEW e \in Env, e.from = Snapshot
    PROVE  \E i \in Nat : SnapshotAt(got[c] \o Append(items[c], e), emitted, i)
<1>. DEFINE g == got[c]
            s == items[c]
            v == g \o s
            u == g \o Append(items[c], e)
<1>1. g \in Seq(Env) /\ s \in Seq(Env) /\ Len(g) \in Nat /\ Len(s) \in Nat
  BY DEF BookInv, TypeInv
<1>2. /\ Len(u) = Len(v) + 1 /\ Len(v) \in Nat /\ u[Len(v) + 1] = e
      /\ \A j \in 1..Len(v) : u[j] = v[j]
  BY <1>1, StreamAppend
<1>3. /\ Len(v) = Len(g) + Len(s) /\ \A j \in 1..Len(g) : v[j] = g[j]
      /\ \A j \in 1..Len(s) : v[Len(g) + j] = s[j]
  BY <1>1, StreamIs
<1>4. /\ \A j \in 1..Len(g) : g[j].n <= emitted[g[j].from]
      /\ \A j \in 1..Len(s) : s[j].n <= emitted[s[j].from]
  BY DEF OrderInv, InOrder
<1>. HIDE DEF g, s, u, v
<1>5. ASSUME NEW j \in 1..Len(v) PROVE v[j].n <= emitted[v[j].from]
  <2>1. CASE j <= Len(g)
    <3>1. j \in 1..Len(g)
      BY <1>1, <2>1
    <3>. QED BY <1>3, <1>4, <3>1
  <2>2. CASE ~(j <= Len(g))
    <3>. DEFINE k == j - Len(g)
    <3>1. k \in 1..Len(s) /\ j = Len(g) + k
      BY <1>1, <1>2, <1>3, <2>2
    <3>. HIDE DEF k
    <3>. QED BY <1>3, <1>4, <3>1
  <2>. QED BY <2>1, <2>2
<1>. DEFINE i == Len(v) + 1
<1>6. i \in 1..Len(u) /\ i \in Nat /\ \A j \in 1..(i - 1) : j \in 1..Len(v)
  BY <1>2
<1>7. u[i].from = Snapshot
  BY <1>2
<1>. HIDE DEF i
<1>8. SnapshotAt(u, emitted, i)
  BY <1>2, <1>5, <1>6, <1>7 DEF SnapshotAt
<1>. QED BY <1>6, <1>8 DEF u, g

\* The actions of a client.
LEMMA SnapClient ==
    ASSUME BookInv, NEW x \in Clients, ClientStep(x), NEW c \in Clients, SnapInv(c)
    PROVE  SnapInv(c)'
<1>0. TypeInv
  BY DEF BookInv
<1>1. CASE Attach(x)
  <2>1. /\ phase' = [phase EXCEPT ![x] = "attached"]
        /\ UNCHANGED <<items, evicted, got, refused, before>>
    BY <1>1 DEF Attach, queueVars
  <2>2. phase'[c] # "in" \/ phase'[c] = phase[c]
    BY <1>0, <2>1 DEF TypeInv
  <2>. QED BY <2>1, <2>2, SnapFrame
<1>2. CASE Detach(x)
  <2>1. /\ phase' = [phase EXCEPT ![x] = "out"] /\ items' = [items EXCEPT ![x] = <<>>]
        /\ evicted' = [evicted EXCEPT ![x] = <<>>] /\ got' = [got EXCEPT ![x] = <<>>]
        /\ refused' = [refused EXCEPT ![x] = FALSE]
        /\ before' = [before EXCEPT ![x] = [s \in Sources |-> 0]]
    BY <1>2 DEF Detach
  <2>2. CASE c = x
    <3>1. phase'[c] # "in"
      BY <1>0, <2>1, <2>2 DEF TypeInv
    <3>. QED BY <3>1, SnapFrame
  <2>3. CASE c # x
    <3>1. /\ phase'[c] = phase[c] /\ items'[c] = items[c] /\ evicted'[c] = evicted[c]
          /\ got'[c] = got[c] /\ before'[c] = before[c]
      BY <1>0, <2>1, <2>3 DEF TypeInv
    <3>2. refused'[c] = refused[c]
      BY <1>0, <2>1, <2>3 DEF TypeInv
    <3>. QED BY <3>1, <3>2, SnapFrame
  <2>. QED BY <2>2, <2>3
<1>3. CASE OnAttach(x)
  <2>1. UNCHANGED <<items, evicted, phase, got, refused, before>>
    BY <1>3 DEF OnAttach, queueVars, clientVars
  <2>. QED BY <2>1, SnapFrame
<1>4. CASE Get(x)
  <2>1. /\ items[x] # <<>> /\ got' = [got EXCEPT ![x] = Append(got[x], Head(items[x]))]
        /\ items' = [items EXCEPT ![x] = Tail(items[x])]
        /\ UNCHANGED <<phase, refused, before, evicted>>
    BY <1>4 DEF Get
  <2>2. got'[c] \o items'[c] = got[c] \o items[c]
    <3>1. got[c] \in Seq(Env) /\ items[c] \in Seq(Env)
      BY <1>0 DEF TypeInv
    <3>2. CASE c = x
      <4>1. got'[c] = Append(got[c], Head(items[c])) /\ items'[c] = Tail(items[c])
        BY <1>0, <2>1, <3>2 DEF TypeInv
      <4>. QED BY <2>1, <3>1, <3>2, <4>1, StreamGet
    <3>3. CASE c # x
      BY <1>0, <2>1, <3>3 DEF TypeInv
    <3>. QED BY <3>2, <3>3
  <2>. QED BY <2>1, <2>2, SnapFrame
<1>. QED BY <1>1, <1>2, <1>3, <1>4 DEF ClientStep

\* The steps of put.
LEMMA SnapThread ==
    ASSUME BookInv, NEW t \in Threads, ThreadStep(t), NEW c \in Clients, OrderInv(c), SnapInv(c)
    PROVE  SnapInv(c)'
<1>0. TypeInv
  BY DEF BookInv
<1>1. CASE Quits(t)
  <2>1. PICK l \in {"next", "idle", "dead"}, stored \in BOOLEAN :
            Leave(t, l, stored) /\ (t \in Clients => ~stored)
    BY <1>1 DEF Quits
  <2>2. pc[t] \in Busy /\ UNCHANGED <<items, evicted>>
    BY <1>1 DEF Quits, queueVars
  <2>3. /\ got' = got
        /\ t \in Publishers => UNCHANGED <<phase, refused, before>>
        /\ t \in Clients => /\ phase' = [phase EXCEPT ![t] = "in"]
                            /\ refused' = [refused EXCEPT ![t] = ~stored]
                            /\ before' = [before EXCEPT ![t] = emitted]
    BY <2>1, <2>2, LeaveIs
  <2>4. CASE t \in Publishers
    BY <2>2, <2>3, <2>4, SnapFrame
  <2>5. CASE t \in Clients /\ c = t
    <3>1. refused'[c] = ~stored
      BY <1>0, <2>3, <2>5 DEF TypeInv
    <3>2. refused'[c]
      BY <2>1, <2>5, <3>1
    <3>. QED BY <3>2, SnapFrame
  <2>6. CASE t \in Clients /\ c # t
    <3>1. phase'[c] = phase[c] /\ before'[c] = before[c]
      BY <1>0, <2>3, <2>6 DEF TypeInv
    <3>2. refused'[c] = refused[c]
      BY <1>0, <2>3, <2>6 DEF TypeInv
    <3>. QED BY <2>2, <2>3, <3>1, <3>2, SnapFrame
  <2>. QED BY <2>4, <2>5, <2>6, Apart
<1>2. ASSUME NEW x \in Clients, Scan(t, x) \/ Count(t, x) \/ Store(t, x) PROVE SnapInv(c)'
  <2>1. UNCHANGED <<items, evicted, phase, got, refused, before>>
    BY <1>2 DEF Scan, Count, Store, Moves, queueVars, clientVars
  <2>. QED BY <2>1, SnapFrame
<1>3. ASSUME NEW x \in Clients, NEW i \in Nat, Evicts(t, x, i) PROVE SnapInv(c)'
  <2>1. /\ i \in 1..Len(items[x]) /\ Evict(x, i) /\ UNCHANGED <<phase, got, refused, before>>
    BY <1>3 DEF Evicts, Moves, clientVars
  <2>2. /\ items' = [items EXCEPT ![x] = RemoveAt(items[x], i)]
        /\ evicted' = [evicted EXCEPT ![x] = Append(evicted[x], items[x][i])]
        /\ Len(evicted'[x]) = Len(evicted[x]) + 1 /\ evicted[x] \in Seq(Env)
    BY <1>0, <2>1, EvictIs DEF TypeInv
  <2>3. CASE c = x
    <3>1. evicted'[c] # <<>>
      BY <2>2, <2>3
    <3>. QED BY <3>1, SnapFrame
  <2>4. CASE c # x
    <3>1. items'[c] = items[c] /\ evicted'[c] = evicted[c]
      BY <1>0, <2>2, <2>4 DEF TypeInv
    <3>. QED BY <2>1, <3>1, SnapFrame
  <2>. QED BY <2>3, <2>4
<1>4. ASSUME NEW x \in Clients, PutAppend(t, x) PROVE SnapInv(c)'
  <2>1. /\ pc[t] = "append" /\ pc[t] \in Busy /\ On(t, x) /\ UNCHANGED <<dropped, evicted>>
        /\ items' = [items EXCEPT ![x] = Append(items[x], env[t])]
        /\ Leave(t, IF t \in Publishers THEN "next" ELSE "idle", TRUE)
    BY <1>4 DEF PutAppend, PutSteps, Busy, Returns
  <2>2. PICK l \in {"next", "idle", "dead"} : Leave(t, l, TRUE)
    BY <2>1
  <2>3. /\ got' = got
        /\ t \in Publishers => UNCHANGED <<phase, refused, before>>
        /\ t \in Clients => /\ phase' = [phase EXCEPT ![t] = "in"]
                            /\ refused' = [refused EXCEPT ![t] = FALSE]
                            /\ before' = [before EXCEPT ![t] = emitted]
    BY <2>1, <2>2, LeaveIs
  <2>4. env[t] \in Env /\ items[c] \in Seq(Env) /\ got[c] \in Seq(Env)
    BY <1>0 DEF TypeInv
  <2>5. CASE c # x
    <3>1. items'[c] = items[c]
      BY <1>0, <2>1, <2>5 DEF TypeInv
    <3>2. c # t
      BY <2>1, <2>5, WhoIsOn, Apart
    <3>3. phase'[c] = phase[c] /\ before'[c] = before[c]
      BY <1>0, <2>3, <3>2, Apart DEF TypeInv
    <3>4. refused'[c] = refused[c]
      BY <1>0, <2>3, <3>2, Apart DEF TypeInv
    <3>. QED BY <2>1, <2>3, <3>1, <3>3, <3>4, SnapFrame
  <2>6. CASE c = x /\ t \in Publishers
    <3>1. items'[c] = Append(items[c], env[t]) /\ UNCHANGED <<phase, refused, before>>
      BY <1>0, <2>1, <2>3, <2>6 DEF TypeInv
    <3>2. \A i \in Nat : SnapshotAt(Stream(c), before[c], i) => SnapshotAt(Stream(c)', before[c], i)
      BY <2>3, <2>4, <3>1, SnapshotStays DEF Stream
    <3>. QED BY <2>1, <3>1, <3>2 DEF SnapInv
  <2>7. CASE c = x /\ t \in Clients
    <3>1. t = c /\ env[t].from = Snapshot /\ c \in Attached
      BY <2>1, <2>7, WhoIsOn, Apart DEF BookInv, ThreadInv, On
    <3>2. items'[c] = Append(items[c], env[t]) /\ before'[c] = emitted /\ got'[c] = got[c]
      BY <1>0, <2>1, <2>3, <2>7, <3>1 DEF TypeInv
    <3>3. \E i \in Nat : SnapshotAt(got[c] \o Append(items[c], env[t]), emitted, i)
      BY <2>4, <3>1, SnapshotPut
    <3>. QED BY <3>2, <3>3 DEF SnapInv, Stream
  <2>. QED BY <2>5, <2>6, <2>7, Apart
<1>. QED BY <1>1, <1>2, <1>3, <1>4 DEF ThreadStep

\* SnapshotFirst: a client whose queue took the snapshot and evicted nothing has
\* it, before every delta that was published after on_attach returned, however
\* the publishers' threads interleave with attach, on_attach and the client's gets.
THEOREM SnapshotComesFirst == Spec => []SnapshotFirst
<1>. DEFINE Ord == \A c \in Clients : OrderInv(c)
            Inv == \A c \in Clients : SnapInv(c)
<1>1. Init => Inv
  BY DEF Init, SnapInv
<1>2. BookInv /\ Ord /\ Inv /\ [Next]_vars => Inv'
  <2>. SUFFICES ASSUME BookInv, Ord, Inv, [Next]_vars, NEW c \in Clients PROVE SnapInv(c)'
    OBVIOUS
  <2>1. CASE UNCHANGED vars
    <3>1. UNCHANGED <<phase, items, got, refused, before, evicted>>
      BY <2>1 DEF vars, queueVars, clientVars
    <3>. QED BY <3>1 DEF SnapInv, Stream
  <2>2. ASSUME NEW p \in Publishers, PublisherStep(p) PROVE SnapInv(c)'
    <3>1. UNCHANGED <<phase, items, got, refused, before, evicted>>
      BY <2>2 DEF PublisherStep, Publish, Published, NextQueue, queueVars, clientVars
    <3>. QED BY <3>1 DEF SnapInv, Stream
  <2>3. CASE Next
    BY <2>2, <2>3, StepKinds, SnapClient, SnapThread
  <2>. QED BY <2>1, <2>3
<1>3. BookInv /\ Inv => SnapshotFirst
  <2>. SUFFICES ASSUME BookInv, Inv, NEW c \in Clients,
                       phase[c] = "in", ~refused[c], evicted[c] = <<>>
                PROVE  \E i \in DOMAIN Stream(c) :
                           /\ Stream(c)[i].from = Snapshot
                           /\ \A j \in 1..(i - 1) : Stream(c)[j].n <= before[c][Stream(c)[j].from]
    BY DEF SnapshotFirst
  <2>1. got[c] \in Seq(Env) /\ items[c] \in Seq(Env)
    BY DEF BookInv, TypeInv
  <2>2. Stream(c) \in Seq(Env)
    BY <2>1, StreamIs DEF Stream
  <2>3. DOMAIN Stream(c) = 1..Len(Stream(c))
    BY <2>2
  <2>4. PICK i \in Nat : SnapshotAt(Stream(c), before[c], i)
    BY DEF SnapInv
  <2>. QED BY <2>3, <2>4 DEF SnapshotAt
<1>. QED BY <1>1, <1>2, <1>3, BookAlways, OrderAlways, PTL DEF Spec
=============================================================================
