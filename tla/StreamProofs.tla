---------------------------- MODULE StreamProofs ----------------------------
(* Theorems about the path of an event from the engine to the screen, for   *)
(* any number of terminals, files, inputs and buffered pieces of frames.    *)
EXTENDS EventStream, Display, FiniteSetTheorems, SequenceTheorems, TLAPS

Changes   == FileChanges \cup GitUpdates
Envelopes == [n : Nat, payload : Tokens \cup Changes]
Pieces    == [e : Envelopes, last : BOOLEAN]
Phases    == {"off", "connecting", "reading", "inside", "pushing", "ended"}

WatchType ==
    /\ files \in Fingerprints
    /\ watch \in [thread : {"absent", "none", "run", "dead"}, primed : BOOLEAN,
                  prints : Fingerprints, scan : Fingerprints, todo : Seq(Changes)]

ServerType ==
    /\ server \in {"down", "up", "gone"}
    /\ log \in Seq(Envelopes) /\ broadcast \in Seq(Envelopes)
    /\ push \in [thread : {"none", "run", "dead"}, batch : Seq(Envelopes),
                 copied : BOOLEAN, targets : SUBSET Feeds,
                 at : Feeds \cup {NoOne}, left : Seq(Envelopes), half : BOOLEAN]
    /\ conns \subseteq Feeds
    /\ joined \in [Feeds -> Nat]

TerminalType ==
    /\ sock \in [Feeds -> {"none", "open", "closed", "eof"}]
    /\ wire \in [Feeds -> Seq(Pieces)]
    /\ feed \in [Feeds -> [pc : Phases, stop : BOOLEAN, torn : BOOLEAN]]
    /\ ui \in [Feeds -> {"on", "unmounting", "gone"}]
    /\ applied \in [Feeds -> Seq(Envelopes)]

----------------------------------------------------------------------------
(* The log, the list and the batch                                          *)

\* How much of the log has been drained, and how much of it was drained
\* before the batch at hand.
Drained == Len(log) - Len(broadcast)
Pushed  == Drained - Len(push.batch)

\* Envelopes are numbered as they are published; the list is the end of the
\* log, the batch what was drained last, and what is left for the connection
\* at hand the end of the batch.
QueueInv ==
    /\ Pushed \in Nat
    /\ \A k \in DOMAIN log : log[k].n = k
    /\ \A k \in DOMAIN push.batch : push.batch[k] = log[Pushed + k]
    /\ \A k \in DOMAIN broadcast : broadcast[k] = log[Drained + k]
    /\ Len(push.left) <= Len(push.batch)
    /\ \A k \in DOMAIN push.left : push.left[k] = log[Drained - Len(push.left) + k]
    /\ push.half => push.left # <<>>
    /\ ~push.copied => push.targets = {} /\ push.left = <<>>
    /\ push.batch = <<>> => ~push.copied
    /\ push.left # <<>> => push.at \in Feeds /\ push.at \notin push.targets
    /\ push.thread = "run" => server = "up"

----------------------------------------------------------------------------
(* One terminal                                                             *)

\* The number of the last envelope that is behind terminal f: written to its
\* socket, or never to be.
At(f)  == push.left # <<>> /\ f = push.at
Cut(f) ==
    IF ~push.copied \/ f \in push.targets THEN Pushed
    ELSE IF At(f) THEN Drained - Len(push.left)
    ELSE Drained

Got(f) == IF applied[f] = <<>> THEN 0 ELSE Last(applied[f]).n

\* What makes the channel a FIFO: the ends of frames on the wire carry ever
\* larger numbers, above what was applied and not above the cut. Tearing a
\* frame does not change that.
OrderInv(f) ==
    /\ Got(f) <= Cut(f)
    /\ \A i \in DOMAIN wire[f] :
          /\ wire[f][i].e.n \in DOMAIN log /\ wire[f][i].e = log[wire[f][i].e.n]
          /\ wire[f][i].last => Got(f) < wire[f][i].e.n /\ wire[f][i].e.n <= Cut(f)
    /\ \A i, j \in DOMAIN wire[f] :
          i < j /\ wire[f][i].last /\ wire[f][j].last =>
             wire[f][i].e.n < wire[f][j].e.n
    /\ feed[f].pc = "pushing" => wire[f] # <<>> /\ wire[f][1].last

\* A connection is handled once: before that nothing was sent to it, and
\* what it may become later is never what it was then.
JoinInv(f) ==
    /\ joined[f] = 0 =>
          /\ f \notin conns /\ f \notin push.targets /\ ~At(f)
          /\ wire[f] = <<>> /\ applied[f] = <<>> /\ ~feed[f].torn
          /\ feed[f].pc \notin {"inside", "pushing"}
    /\ sock[f] = "none" => joined[f] = 0
    /\ feed[f].pc \in {"off", "connecting"} => sock[f] = "none"
    /\ ui[f] = "gone" => sock[f] # "open"
    /\ joined[f] > 0 /\ f \notin conns => sock[f] # "open"

\* A connection in order: registered, open, and no frame of it torn.
Sound(f) ==
    /\ f \in conns /\ sock[f] = "open" /\ ~feed[f].torn
    /\ feed[f].pc \in {"reading", "inside", "pushing"}

Inside(f)   == feed[f].pc \in {"inside", "pushing"}
HalfSent(f) == push.half /\ At(f)
NextN(f)    == joined[f] + Len(applied[f])

\* On a connection in order the two pieces of each frame follow one another,
\* and the frames too, from the next one to be applied to the last one sent.
ExactInv(f) ==
    Sound(f) =>
        /\ \A k \in DOMAIN applied[f] : applied[f][k] = log[joined[f] + k - 1]
        /\ wire[f] = <<>> =>
              NextN(f) = Cut(f) + 1 /\ (Inside(f) <=> HalfSent(f))
        /\ wire[f] # <<>> =>
              /\ wire[f][1].e.n = NextN(f) /\ (wire[f][1].last <=> Inside(f))
              /\ LET z == wire[f][Len(wire[f])] IN
                 /\ z.last <=> ~HalfSent(f)
                 /\ z.e.n = IF z.last THEN Cut(f) ELSE Cut(f) + 1
        /\ \A i, j \in DOMAIN wire[f] : j = i + 1 =>
              /\ wire[f][j].last <=> ~wire[f][i].last
              /\ wire[f][j].e.n = IF wire[f][i].last THEN wire[f][i].e.n + 1
                                  ELSE wire[f][i].e.n

FeedInv(f) == OrderInv(f) /\ JoinInv(f) /\ ExactInv(f)

----------------------------------------------------------------------------
(* What the log tells                                                       *)

Concerns(c, i) ==
    \/ c \in FileChanges /\ c.path = i
    \/ c \in GitUpdates /\ i = Git

\* Change c is true of an item that now has value v.
Tells(c, v) ==
    /\ c \in FileChanges => (c.change = "deleted" <=> v = Absent)
    /\ c \in GitUpdates => c.git = v

LastAbout(k, i) ==
    /\ k \in DOMAIN log /\ About(log[k], i)
    /\ \A j \in DOMAIN log : j > k => ~About(log[j], i)

\* What the log tells of the items once what is to be published is.
Reported(i) == IF watch.todo = <<>> THEN watch.prints[i] ELSE watch.scan[i]

TruthInv ==
    server # "gone" =>
        /\ ~watch.primed => /\ watch.todo = <<>>
                            /\ \A k \in DOMAIN log, i \in Items : ~About(log[k], i)
        /\ \A m \in DOMAIN watch.todo, i \in Items :
              Concerns(watch.todo[m], i) => Tells(watch.todo[m], watch.scan[i])
        /\ \A i \in Items, k \in DOMAIN log :
              LastAbout(k, i) =>
                 \/ \E m \in DOMAIN watch.todo : Concerns(watch.todo[m], i)
                 \/ Tells(log[k].payload, Reported(i))

StreamInv ==
    /\ WatchType /\ ServerType /\ TerminalType
    /\ QueueInv /\ TruthInv
    /\ \A f \in Feeds : FeedInv(f)

----------------------------------------------------------------------------
(* The scan                                                                 *)

\* SetToSeq enumerates a finite set.
LEMMA SetToSeqFacts ==
    ASSUME NEW S, IsFiniteSet(S)
    PROVE  /\ Cardinality(S) \in Nat
           /\ SetToSeq(S) \in [1..Cardinality(S) -> S]
           /\ \A x \in S : \E m \in 1..Cardinality(S) : SetToSeq(S)[m] = x
<1>. DEFINE n == Cardinality(S)  q == SetToSeq(S)
<1>1. n \in Nat
  BY FS_CardinalityType
<1>2. IsFiniteSet(1..n) /\ Cardinality(1..n) = n
  BY <1>1, FS_Interval
<1>3. ExistsBijection(1..n, S)
  BY <1>2, FS_SameCardinalityBij
<1>4. PICK b \in [1..n -> S] : IsInjective(b)
  BY <1>3 DEF ExistsBijection, Bijection, Injection
<1>5. q \in [1..n -> S] /\ IsInjective(q)
  BY <1>4 DEF SetToSeq
<1>6. q \in Injection(1..n, S)
  BY <1>5 DEF Injection
<1>7. q \in Surjection(1..n, S)
  BY <1>6, <1>2, FS_Injection
<1>. QED BY <1>1, <1>5, <1>7 DEF Surjection

\* A payload is of one kind only.
LEMMA Kinds ==
    /\ \A c \in FileChanges : c \notin GitUpdates /\ c \notin Tokens
    /\ \A c \in GitUpdates : c \notin Tokens
BY DEF FileChanges, GitUpdates, Tokens

\* file_changes reports every file that differs, and nothing else.
LEMMA FileChangesFacts ==
    ASSUME NEW old, NEW new
    PROVE  /\ file_changes(old, new) \in Seq(FileChanges)
           /\ \A m \in DOMAIN file_changes(old, new) :
                 LET c == file_changes(old, new)[m] IN
                 /\ c.path \in Paths /\ old[c.path] # new[c.path]
                 /\ c.change = change_type(old[c.path], new[c.path])
           /\ \A p \in Paths : old[p] # new[p] =>
                 \E m \in DOMAIN file_changes(old, new) :
                    file_changes(old, new)[m].path = p
<1>. DEFINE S == {p \in Paths : old[p] # new[p]}
            n == Cardinality(S)
            q == SetToSeq(S)
            t == file_changes(old, new)
<1>1. IsFiniteSet(S)
  BY StreamAssumption, FS_Subset
<1>2. /\ n \in Nat /\ q \in [1..n -> S]
      /\ \A p \in S : \E m \in 1..n : q[m] = p
  BY <1>1, SetToSeqFacts
<1>3. t = [m \in 1..n |-> [type |-> "FILE_CHANGE", path |-> q[m],
                           change |-> change_type(old[q[m]], new[q[m]])]]
  BY <1>2 DEF file_changes
<1>4. \A x, y : change_type(x, y) \in {"created", "modified", "deleted"}
  BY DEF change_type
<1>5. ASSUME NEW m \in 1..n
      PROVE  /\ t[m] \in FileChanges /\ t[m].path = q[m] /\ q[m] \in S
             /\ t[m].change = change_type(old[q[m]], new[q[m]])
  <2>. DEFINE c == change_type(old[q[m]], new[q[m]])
  <2>1. q[m] \in S /\ c \in {"created", "modified", "deleted"}
    BY <1>2, <1>4
  <2>2. t[m] = [type |-> "FILE_CHANGE", path |-> q[m], change |-> c]
    BY <1>3
  <2>. HIDE DEF c, q, t
  <2>3. t[m] \in FileChanges /\ t[m].path = q[m] /\ t[m].change = c
    BY <2>1, <2>2 DEF FileChanges
  <2>. QED BY <2>1, <2>3 DEF c
<1>6. DOMAIN t = 1..n
  BY <1>3
<1>7. t \in Seq(FileChanges)
  <2>1. t \in [1..n -> FileChanges]
    BY <1>3, <1>5, <1>6
  <2>. QED BY <2>1, <1>2
<1>8. ASSUME NEW p \in Paths, old[p] # new[p]
      PROVE  \E m \in DOMAIN t : t[m].path = p
  <2>1. PICK m \in 1..n : q[m] = p
    BY <1>2, <1>8
  <2>. QED BY <2>1, <1>5, <1>6
<1>. QED BY <1>5, <1>6, <1>7, <1>8

\* A change of a file that differs tells whether the file is there now.
LEMMA ChangeTypeTells ==
    ASSUME NEW x, NEW y, x # y
    PROVE  change_type(x, y) = "deleted" <=> y = Absent
BY DEF change_type

\* What scan_once is about to publish is true of what it saw, and leaves out
\* no item that differs.
LEMMA ScanFacts ==
    ASSUME NEW old \in Fingerprints, NEW new \in Fingerprints,
           NEW t, t = file_changes(old, new) \o git_change(old, new)
    PROVE  /\ t \in Seq(Changes)
           /\ \A m \in DOMAIN t, i \in Items : Concerns(t[m], i) => Tells(t[m], new[i])
           /\ \A i \in Items : old[i] # new[i] =>
                 \E m \in DOMAIN t : Concerns(t[m], i)
<1>. DEFINE a == file_changes(old, new)  b == git_change(old, new)
<1>1. /\ a \in Seq(FileChanges)
      /\ \A m \in DOMAIN a : /\ a[m].path \in Paths /\ old[a[m].path] # new[a[m].path]
                             /\ a[m].change = change_type(old[a[m].path], new[a[m].path])
      /\ \A p \in Paths : old[p] # new[p] => \E m \in DOMAIN a : a[m].path = p
  BY FileChangesFacts
<1>2. old[Git] \in GitStates /\ new[Git] \in GitStates
  BY DEF Fingerprints
<1>3. /\ b \in Seq(GitUpdates)
      /\ \A m \in DOMAIN b : b[m].git = new[Git]
      /\ old[Git] # new[Git] => Len(b) = 1
  <2>1. CASE old[Git] = new[Git]
    BY <2>1 DEF git_change
  <2>2. CASE old[Git] # new[Git]
    <3>. DEFINE u == [type |-> "GIT_STATUS_UPDATE", git |-> new[Git]]
    <3>1. u \in GitUpdates /\ u.git = new[Git]
      BY <1>2 DEF GitUpdates
    <3>2. b = <<u>>
      BY <2>2 DEF git_change
    <3>. HIDE DEF u, b
    <3>. QED BY <3>1, <3>2
  <2>. QED BY <2>1, <2>2
<1>. HIDE DEF a, b
<1>4. /\ Len(t) = Len(a) + Len(b) /\ Len(a) \in Nat /\ Len(b) \in Nat
      /\ \A m \in 1..Len(t) : t[m] = IF m <= Len(a) THEN a[m] ELSE b[m - Len(a)]
      /\ DOMAIN t = 1..Len(t) /\ DOMAIN a = 1..Len(a) /\ DOMAIN b = 1..Len(b)
      /\ t \in Seq(Changes)
  <2>1. a \in Seq(Changes) /\ b \in Seq(Changes) /\ t = a \o b
    BY <1>1, <1>3 DEF Changes, a, b
  <2>. QED BY <2>1, ConcatProperties, LenProperties
<1>5. \A m \in 1..Len(a) : a[m] \in FileChanges
  BY <1>1, ElementOfSeq
<1>6. \A m \in 1..Len(b) : b[m] \in GitUpdates
  BY <1>3, ElementOfSeq
<1>7. ASSUME NEW m \in DOMAIN t, NEW i \in Items, Concerns(t[m], i)
      PROVE  Tells(t[m], new[i])
  <2>1. CASE m <= Len(a)
    <3>1. t[m] = a[m] /\ m \in 1..Len(a)
      BY <1>4, <2>1
    <3>2. a[m] \in FileChanges /\ a[m] \notin GitUpdates /\ a[m].path = i
      BY <3>1, <1>5, <1>7, Kinds DEF Concerns
    <3>3. a[m].change = "deleted" <=> new[i] = Absent
      BY <3>1, <3>2, <1>1, <1>4, ChangeTypeTells
    <3>. QED BY <3>1, <3>2, <3>3 DEF Tells
  <2>2. CASE ~(m <= Len(a))
    <3>1. t[m] = b[m - Len(a)] /\ m - Len(a) \in 1..Len(b)
      BY <1>4, <2>2
    <3>2. t[m] \in GitUpdates /\ t[m] \notin FileChanges /\ i = Git
      BY <3>1, <1>6, <1>7, Kinds DEF Concerns
    <3>3. t[m].git = new[i]
      BY <3>1, <3>2, <1>3, <1>4
    <3>. QED BY <3>2, <3>3 DEF Tells
  <2>. QED BY <2>1, <2>2
<1>8. ASSUME NEW i \in Items, old[i] # new[i]
      PROVE  \E m \in DOMAIN t : Concerns(t[m], i)
  <2>1. CASE i \in Paths
    <3>1. PICK m \in DOMAIN a : a[m].path = i
      BY <1>1, <1>8, <2>1
    <3>2. m \in DOMAIN t /\ t[m] = a[m] /\ a[m] \in FileChanges
      BY <3>1, <1>4, <1>5
    <3>. QED BY <3>1, <3>2 DEF Concerns
  <2>2. CASE i = Git
    <3>1. Len(b) = 1
      BY <1>3, <1>8, <2>2
    <3>2. Len(a) + 1 \in DOMAIN t /\ t[Len(a) + 1] = b[1] /\ b[1] \in GitUpdates
      BY <3>1, <1>4, <1>6
    <3>. QED BY <3>2, <2>2 DEF Concerns
  <2>. QED BY <2>1, <2>2 DEF Items
<1>. QED BY <1>4, <1>7, <1>8

----------------------------------------------------------------------------
(* Publishing                                                               *)

\* The log grows at its end, with what is drained of it unchanged.
LEMMA PublishFacts ==
    ASSUME ServerType, QueueInv, NEW c \in Tokens \cup Changes, publish(c),
           UNCHANGED <<server, push, conns, joined>>
    PROVE  /\ ServerType' /\ QueueInv'
           /\ Drained' = Drained /\ Pushed' = Pushed
           /\ Len(log') = Len(log) + 1 /\ log'[Len(log) + 1].payload = c
           /\ \A k \in DOMAIN log : k \in DOMAIN log' /\ log'[k] = log[k]
<1>. DEFINE e == [n |-> Len(log) + 1, payload |-> c]
<1>1. log \in Seq(Envelopes) /\ broadcast \in Seq(Envelopes)
      /\ Len(log) \in Nat /\ Len(broadcast) \in Nat
  BY DEF ServerType
<1>2. e \in Envelopes /\ e.n = Len(log) + 1 /\ e.payload = c
  BY <1>1 DEF Envelopes
<1>3. log' = Append(log, e) /\ broadcast' = Append(broadcast, e)
  BY DEF publish
<1>. HIDE DEF e
<1>4. /\ log' \in Seq(Envelopes) /\ Len(log') = Len(log) + 1
      /\ log'[Len(log) + 1] = e
      /\ \A k \in 1..Len(log) : log'[k] = log[k]
  BY <1>1, <1>2, <1>3, AppendProperties
<1>5. /\ broadcast' \in Seq(Envelopes) /\ Len(broadcast') = Len(broadcast) + 1
      /\ broadcast'[Len(broadcast) + 1] = e
      /\ \A k \in 1..Len(broadcast) : broadcast'[k] = broadcast[k]
  BY <1>1, <1>2, <1>3, AppendProperties
<1>6. /\ DOMAIN log = 1..Len(log) /\ DOMAIN log' = 1..Len(log')
      /\ DOMAIN broadcast = 1..Len(broadcast)
      /\ DOMAIN broadcast' = 1..Len(broadcast')
  BY <1>1, <1>4, <1>5, LenProperties
<1>7. ServerType'
  BY <1>4, <1>5 DEF ServerType
<1>8. Len(push.batch) \in Nat /\ Len(push.left) \in Nat
      /\ DOMAIN push.batch = 1..Len(push.batch) /\ DOMAIN push.left = 1..Len(push.left)
  BY LenProperties DEF ServerType
<1>9. Drained' = Drained /\ Pushed' = Pushed /\ Drained \in Nat /\ Pushed \in Nat
      /\ Pushed + Len(push.batch) = Drained /\ Drained + Len(broadcast) = Len(log)
  BY <1>1, <1>4, <1>5, <1>8 DEF Drained, Pushed, QueueInv
<1>10. QueueInv'
  <2>1. \A k \in DOMAIN log' : log'[k].n = k
    BY <1>1, <1>2, <1>4, <1>6 DEF QueueInv
  <2>2. \A k \in DOMAIN push.batch : push.batch[k] = log'[Pushed + k]
    <3>. TAKE k \in DOMAIN push.batch
    <3>1. Pushed + k \in 1..Len(log)
      BY <1>1, <1>8, <1>9
    <3>. QED BY <3>1, <1>4 DEF QueueInv
  <2>3. \A k \in DOMAIN push.left : push.left[k] = log'[Drained - Len(push.left) + k]
    <3>. TAKE k \in DOMAIN push.left
    <3>1. Len(push.left) <= Len(push.batch) /\ k \in 1..Len(push.left)
      BY <1>1, <1>8 DEF QueueInv
    <3>2. Drained - Len(push.left) + k \in 1..Len(log)
      BY <3>1, <1>8, <1>9
    <3>. QED BY <3>2, <1>4 DEF QueueInv
  <2>4. \A k \in DOMAIN broadcast' : broadcast'[k] = log'[Drained + k]
    <3>. TAKE k \in DOMAIN broadcast'
    <3>1. CASE k = Len(broadcast) + 1
      BY <3>1, <1>4, <1>5, <1>9
    <3>2. CASE k # Len(broadcast) + 1
      <4>1. k \in DOMAIN broadcast /\ Drained + k \in 1..Len(log)
        BY <3>2, <1>1, <1>5, <1>6, <1>9
      <4>. QED BY <4>1, <1>4, <1>5, <1>6 DEF QueueInv
    <3>. QED BY <3>1, <3>2
  <2>. QED BY <2>1, <2>2, <2>3, <2>4, <1>9 DEF QueueInv
<1>. QED BY <1>2, <1>4, <1>6, <1>7, <1>9, <1>10

----------------------------------------------------------------------------
(* The push thread                                                          *)

Lengths ==
    /\ Len(log) \in Nat /\ Len(broadcast) \in Nat
    /\ Len(push.batch) \in Nat /\ Len(push.left) \in Nat
    /\ Drained \in Nat /\ Pushed \in Nat
    /\ Pushed + Len(push.batch) = Drained /\ Drained + Len(broadcast) = Len(log)
    /\ Len(push.left) <= Len(push.batch)
    /\ (push.batch = <<>> <=> Len(push.batch) = 0)
    /\ (push.left = <<>> <=> Len(push.left) = 0)
    /\ DOMAIN log = 1..Len(log) /\ DOMAIN broadcast = 1..Len(broadcast)
    /\ DOMAIN push.batch = 1..Len(push.batch) /\ DOMAIN push.left = 1..Len(push.left)

CutBounds ==
    \A f \in Feeds : Cut(f) \in Nat /\ Pushed <= Cut(f) /\ Cut(f) <= Drained

\* Batch and list add up to what of the log was not pushed.
LEMMA QueueLengths == ServerType /\ QueueInv => Lengths /\ CutBounds
<1>. SUFFICES ASSUME ServerType, QueueInv PROVE Lengths /\ CutBounds
  OBVIOUS
<1>1. /\ Len(log) \in Nat /\ Len(broadcast) \in Nat
      /\ Len(push.batch) \in Nat /\ Len(push.left) \in Nat
      /\ DOMAIN log = 1..Len(log) /\ DOMAIN broadcast = 1..Len(broadcast)
      /\ DOMAIN push.batch = 1..Len(push.batch) /\ DOMAIN push.left = 1..Len(push.left)
  BY LenProperties DEF ServerType
<1>2. /\ (push.batch = <<>> <=> Len(push.batch) = 0)
      /\ (push.left = <<>> <=> Len(push.left) = 0)
  BY EmptySeq DEF ServerType
<1>3. Lengths
  BY <1>1, <1>2 DEF Lengths, Drained, Pushed, QueueInv
<1>4. /\ Len(push.batch) \in Nat /\ Len(push.left) \in Nat
      /\ Drained \in Nat /\ Pushed \in Nat
      /\ Pushed + Len(push.batch) = Drained /\ Len(push.left) <= Len(push.batch)
  BY <1>3 DEF Lengths
<1>5. /\ Pushed <= Drained /\ Drained - Len(push.left) \in Nat
      /\ Pushed <= Drained - Len(push.left) /\ Drained - Len(push.left) <= Drained
  BY <1>4
<1>6. \A f \in Feeds : Cut(f) \in {Pushed, Drained, Drained - Len(push.left)}
  BY DEF Cut
<1>7. CutBounds
  BY <1>4, <1>5, <1>6 DEF CutBounds
<1>. QED BY <1>3, <1>7

\* The same of the next state.
LEMMA QueueLengthsNext == ServerType' /\ QueueInv' => Lengths' /\ CutBounds'
BY QueueLengths, PTL

\* A step after which no more, and for a registered connection no less, of
\* the log is under way to terminal f.
Steady(f) ==
    /\ Cut(f) <= Cut(f)'
    /\ f \in conns' => Cut(f)' = Cut(f) /\ (HalfSent(f)' <=> HalfSent(f))
    /\ (f \in push.targets \/ At(f))' => f \in push.targets \/ At(f) \/ f \in conns

\* _drain_broadcast makes the list the batch.
LEMMA DrainInv ==
    ASSUME ServerType, QueueInv, PushDrain
    PROVE  ServerType' /\ QueueInv' /\ \A f \in Feeds : Steady(f)
<1>. USE DEF PushDrain
<1>1. Lengths
  BY QueueLengths
<1>2. /\ push' = [push EXCEPT !.batch = broadcast, !.copied = FALSE]
      /\ broadcast' = <<>> /\ UNCHANGED <<server, conns, log, joined>>
      /\ push.batch = <<>> /\ push.thread = "run" /\ broadcast # <<>>
  OBVIOUS
<1>3. /\ push'.batch = broadcast /\ push'.copied = FALSE
      /\ push'.left = push.left /\ push'.targets = push.targets
      /\ push'.half = push.half /\ push'.at = push.at /\ push'.thread = push.thread
  BY <1>2 DEF ServerType
<1>4. ServerType'
  BY <1>2 DEF ServerType
<1>5. push.left = <<>> /\ ~push.copied /\ push.targets = {} /\ ~push.half
  BY <1>1, <1>2 DEF Lengths, QueueInv
<1>6. /\ Pushed = Drained /\ Pushed' = Drained /\ Drained' = Len(log)
      /\ Len(broadcast') = 0 /\ DOMAIN broadcast' = {}
  BY <1>1, <1>2, <1>3 DEF Lengths, Drained, Pushed
<1>7. QueueInv'
  BY <1>1, <1>2, <1>3, <1>5, <1>6 DEF Lengths, QueueInv
<1>8. \A f \in Feeds : /\ Cut(f) = Drained /\ Cut(f)' = Drained
                       /\ ~HalfSent(f) /\ ~HalfSent(f)' /\ ~At(f)'
  BY <1>3, <1>5, <1>6 DEF Cut, HalfSent, At
<1>. QED BY <1>1, <1>3, <1>4, <1>5, <1>7, <1>8 DEF Steady, Lengths

\* The copy of the connections decides who gets the batch.
LEMMA CopyInv ==
    ASSUME ServerType, QueueInv, PushCopy
    PROVE  ServerType' /\ QueueInv' /\ \A f \in Feeds : Steady(f)
<1>. USE DEF PushCopy
<1>1. Lengths /\ CutBounds
  BY QueueLengths
<1>2. /\ push' = [push EXCEPT !.copied = TRUE, !.targets = conns]
      /\ UNCHANGED <<server, broadcast, conns, log, joined>>
      /\ push.batch # <<>> /\ ~push.copied
  OBVIOUS
<1>3. /\ push'.batch = push.batch /\ push'.copied = TRUE
      /\ push'.left = push.left /\ push'.targets = conns
      /\ push'.half = push.half /\ push'.at = push.at /\ push'.thread = push.thread
  BY <1>2 DEF ServerType
<1>4. ServerType'
  BY <1>2 DEF ServerType
<1>5. push.left = <<>> /\ ~push.half
  BY <1>2 DEF QueueInv
<1>6. Pushed = Pushed' /\ Drained' = Drained
  BY <1>2, <1>3 DEF Drained, Pushed
<1>7. QueueInv'
  BY <1>2, <1>3, <1>5, <1>6 DEF QueueInv
<1>8. \A f \in Feeds : /\ Cut(f) = Pushed /\ ~HalfSent(f) /\ ~HalfSent(f)' /\ ~At(f)'
                       /\ Cut(f)' = IF f \in conns THEN Pushed ELSE Drained
  BY <1>2, <1>3, <1>5, <1>6 DEF Cut, HalfSent, At
<1>. QED BY <1>1, <1>3, <1>4, <1>7, <1>8 DEF Steady, Lengths

\* The outer loop goes to a connection with the whole batch before it, or
\* ends with the batch behind everyone.
LEMMA NextConnInv ==
    ASSUME ServerType, QueueInv, PushNext
    PROVE  ServerType' /\ QueueInv' /\ \A f \in Feeds : Steady(f)
<1>1. Lengths /\ CutBounds
  BY QueueLengths
<1>2. /\ UNCHANGED <<server, broadcast, conns, log, joined>>
      /\ push.batch # <<>> /\ push.copied /\ push.left = <<>> /\ push.thread = "run"
      /\ ~push.half
  BY DEF QueueInv, PushNext
<1>3. ASSUME NEW g \in push.targets,
             push' = [push EXCEPT !.targets = @ \ {g}, !.at = g, !.left = push.batch]
      PROVE  ServerType' /\ QueueInv' /\ \A f \in Feeds : Steady(f)
  <2>1. g \in Feeds
    BY DEF ServerType
  <2>2. /\ push'.batch = push.batch /\ push'.copied = push.copied
        /\ push'.left = push.batch /\ push'.targets = push.targets \ {g}
        /\ push'.half = push.half /\ push'.at = g /\ push'.thread = push.thread
    BY <1>3 DEF ServerType
  <2>3. ServerType'
    BY <1>2, <1>3, <2>1 DEF ServerType
  <2>4. Pushed = Pushed' /\ Drained' = Drained
    BY <1>2, <2>2 DEF Drained, Pushed
  <2>5. QueueInv'
    <3>1. Drained - Len(push.batch) = Pushed
      BY DEF Pushed
    <3>2. \A k \in DOMAIN push'.left :
             push'.left[k] = log'[Drained' - Len(push'.left) + k]
      BY <1>2, <2>2, <2>4, <3>1 DEF QueueInv
    <3>. QED BY <1>1, <1>2, <2>1, <2>2, <2>4, <3>2 DEF QueueInv, Lengths
  <2>6. \A f \in Feeds : /\ Cut(f) = IF f \in push.targets THEN Pushed ELSE Drained
                         /\ ~HalfSent(f) /\ ~HalfSent(f)'
                         /\ At(f)' <=> f = g
                         /\ Cut(f)' = IF f \in push.targets \ {g} THEN Pushed
                                      ELSE IF f = g THEN Drained - Len(push.batch)
                                      ELSE Drained
    BY <1>2, <2>2, <2>4 DEF Cut, HalfSent, At
  <2>. QED BY <1>1, <2>2, <2>3, <2>5, <2>6 DEF Steady, Lengths
<1>4. CASE /\ push.targets = {}
           /\ push' = [push EXCEPT !.batch = <<>>, !.at = NoOne, !.copied = FALSE]
  <2>2. /\ push'.batch = <<>> /\ push'.copied = FALSE
        /\ push'.left = <<>> /\ push'.targets = {}
        /\ push'.half = push.half /\ push'.at = NoOne /\ push'.thread = push.thread
    BY <1>2, <1>4 DEF ServerType
  <2>3. ServerType'
    BY <1>2, <1>4 DEF ServerType
  <2>4. Drained' = Drained /\ Pushed' = Drained
    BY <1>1, <1>2, <2>2 DEF Drained, Pushed, Lengths
  <2>5. QueueInv'
    BY <1>1, <1>2, <2>2, <2>4 DEF QueueInv, Lengths
  <2>6. \A f \in Feeds : /\ Cut(f) = Drained /\ Cut(f)' = Drained
                         /\ ~HalfSent(f) /\ ~HalfSent(f)' /\ ~At(f)'
    BY <1>2, <1>4, <2>2, <2>4 DEF Cut, HalfSent, At
  <2>. QED BY <1>1, <2>2, <2>3, <2>5, <2>6 DEF Steady, Lengths
<1>. QED BY <1>3, <1>4 DEF PushNext

\* What is left for the connection at hand, and without its first envelope.
LEMMA LeftFacts ==
    ASSUME ServerType, QueueInv, push.left # <<>>
    PROVE  /\ Head(push.left) \in Envelopes /\ Tail(push.left) \in Seq(Envelopes)
           /\ Len(Tail(push.left)) = Len(push.left) - 1
           /\ DOMAIN Tail(push.left) = 1..(Len(push.left) - 1)
           /\ \A k \in 1..(Len(push.left) - 1) :
                 Tail(push.left)[k] = log[Drained - (Len(push.left) - 1) + k]
           /\ push.at \in Feeds /\ push.copied /\ push.at \notin push.targets
           /\ Cut(push.at) = Drained - Len(push.left)
           /\ Cut(push.at) + 1 \in DOMAIN log
           /\ Head(push.left) = log[Cut(push.at) + 1]
           /\ Head(push.left).n = Cut(push.at) + 1
<1>1. Lengths
  BY QueueLengths
<1>2. push.left \in Seq(Envelopes) /\ push.at \in Feeds /\ push.copied
      /\ push.at \notin push.targets
  BY DEF ServerType, QueueInv
<1>3. /\ Head(push.left) \in Envelopes /\ Head(push.left) = push.left[1]
      /\ Tail(push.left) \in Seq(Envelopes)
      /\ Len(Tail(push.left)) = Len(push.left) - 1
      /\ \A k \in 1..Len(Tail(push.left)) : Tail(push.left)[k] = push.left[k + 1]
  BY <1>2, HeadTailProperties
<1>4. DOMAIN Tail(push.left) = 1..(Len(push.left) - 1)
  BY <1>3, LenProperties
<1>5. ASSUME NEW k \in 1..(Len(push.left) - 1)
      PROVE  Tail(push.left)[k] = log[Drained - (Len(push.left) - 1) + k]
  <2>1. k + 1 \in DOMAIN push.left /\ Tail(push.left)[k] = push.left[k + 1]
    BY <1>1, <1>3 DEF Lengths
  <2>2. Drained \in Int /\ Len(push.left) \in Nat /\ k \in Nat
    BY <1>1 DEF Lengths
  <2>3. Drained - Len(push.left) + (k + 1) = Drained - (Len(push.left) - 1) + k
    BY <2>2
  <2>. QED BY <2>1, <2>3 DEF QueueInv
<1>6. Cut(push.at) = Drained - Len(push.left)
  BY <1>2 DEF Cut, At
<1>7. 1 \in DOMAIN push.left
  BY <1>1 DEF Lengths
<1>8. Cut(push.at) + 1 \in DOMAIN log
  BY <1>1, <1>6, <1>7 DEF Lengths
<1>9. push.left[1] = log[Cut(push.at) + 1]
  BY <1>6, <1>7 DEF QueueInv
<1>10. log[Cut(push.at) + 1].n = Cut(push.at) + 1
  BY <1>8 DEF QueueInv
<1>. QED BY <1>2, <1>3, <1>4, <1>5, <1>6, <1>8, <1>9, <1>10

\* The queue when the thread is done with an envelope for the connection at
\* hand.
LEMMA PassInv ==
    ASSUME ServerType, QueueInv, push.left # <<>>, NEW a \in Feeds, a = push.at,
           push' = [push EXCEPT !.half = FALSE, !.left = Tail(@)],
           UNCHANGED <<server, broadcast, log, joined>>, conns' \subseteq conns
    PROVE  /\ ServerType' /\ QueueInv'
           /\ Cut(a)' = Cut(a) + 1 /\ ~HalfSent(a)' /\ Cut(a) \in Nat
           /\ \A f \in Feeds : f # a => Steady(f)
           /\ (a \in push.targets \/ At(a))' => At(a)
<1>1. Lengths /\ CutBounds
  BY QueueLengths
<1>2. /\ push'.batch = push.batch /\ push'.copied = push.copied
      /\ push'.left = Tail(push.left) /\ push'.targets = push.targets
      /\ push'.half = FALSE /\ push'.at = push.at /\ push'.thread = push.thread
  BY DEF ServerType
<1>3. /\ Tail(push.left) \in Seq(Envelopes)
      /\ Len(Tail(push.left)) = Len(push.left) - 1
      /\ DOMAIN Tail(push.left) = 1..(Len(push.left) - 1)
      /\ \A k \in 1..(Len(push.left) - 1) :
            Tail(push.left)[k] = log[Drained - (Len(push.left) - 1) + k]
      /\ push.copied /\ a \notin push.targets
      /\ Cut(a) = Drained - Len(push.left)
  BY LeftFacts
<1>4. ServerType'
  BY <1>3 DEF ServerType
<1>5. Pushed = Pushed' /\ Drained' = Drained
  BY <1>2 DEF Drained, Pushed
<1>6. QueueInv'
  <2>1. \A k \in DOMAIN push'.left :
           push'.left[k] = log'[Drained' - Len(push'.left) + k]
    BY <1>2, <1>3, <1>5
  <2>2. Len(push'.left) <= Len(push'.batch)
    BY <1>1, <1>2, <1>3 DEF Lengths
  <2>. QED BY <1>2, <1>3, <1>5, <2>1, <2>2 DEF QueueInv
<1>7. Tail(push.left) = <<>> <=> Len(push.left) = 1
  <2>1. Tail(push.left) = <<>> <=> Len(Tail(push.left)) = 0
    BY <1>3, EmptySeq
  <2>. QED BY <2>1, <1>1, <1>3 DEF Lengths
<1>8. Cut(a)' = Cut(a) + 1 /\ ~HalfSent(a)' /\ Cut(a) \in Nat
  <2>1. Cut(a)' = IF Tail(push.left) # <<>> THEN Drained - (Len(push.left) - 1)
                  ELSE Drained
    BY <1>2, <1>3, <1>5 DEF Cut, At
  <2>2. ~HalfSent(a)'
    BY <1>2 DEF HalfSent
  <2>3. Drained \in Nat /\ Len(push.left) \in Nat /\ Len(push.left) <= Drained
    BY <1>1 DEF Lengths
  <2>4. Cut(a)' = Drained - (Len(push.left) - 1)
    <3>1. CASE Tail(push.left) = <<>>
      <4>1. Cut(a)' = Drained /\ Len(push.left) = 1
        BY <3>1, <1>7, <2>1, Zenon
      <4>. QED BY <4>1, <2>3
    <3>2. CASE Tail(push.left) # <<>>
      BY <3>2, <2>1, <2>3, Zenon
    <3>. QED BY <3>1, <3>2
  <2>. QED BY <1>3, <2>2, <2>3, <2>4
<1>9. ASSUME NEW f \in Feeds, f # a PROVE Steady(f)
  <2>1. Cut(f)' = Cut(f) /\ ~HalfSent(f)' /\ ~HalfSent(f) /\ ~At(f)'
    BY <1>2, <1>5, <1>9 DEF Cut, At, HalfSent
  <2>. QED BY <1>1, <1>2, <2>1 DEF Steady, CutBounds
<1>. QED BY <1>2, <1>3, <1>4, <1>6, <1>8, <1>9 DEF At

\* sendall: nobody but the connection at hand is concerned, and that one only
\* as long as its peer is there.
LEMMA SendInv ==
    ASSUME ServerType, QueueInv, PushSend, NEW a, a = push.at
    PROVE  /\ ServerType' /\ QueueInv' /\ a \in Feeds
           /\ UNCHANGED <<sock, feed, ui, applied, joined, log>>
           /\ \A f \in Feeds : f # a => Steady(f) /\ (f \in conns <=> f \in conns')
           /\ \/ UNCHANGED <<wire, conns>> /\ Steady(a)
              \/ UNCHANGED wire /\ Steady(a) /\ conns' = conns \ {a} /\ sock[a] # "open"
              \/ /\ UNCHANGED conns /\ sock[a] = "open" /\ At(a)
                 /\ Cut(a) \in Nat /\ Cut(a) + 1 \in DOMAIN log
                 /\ ~HalfSent(a) /\ HalfSent(a)' /\ Cut(a)' = Cut(a)
                 /\ (a \in push.targets \/ At(a))' => At(a)
                 /\ wire' = [wire EXCEPT ![a] = Append(@,
                                 [e |-> log[Cut(a) + 1], last |-> FALSE])]
              \/ /\ UNCHANGED conns /\ sock[a] = "open" /\ At(a)
                 /\ Cut(a) \in Nat /\ Cut(a) + 1 \in DOMAIN log
                 /\ HalfSent(a) /\ ~HalfSent(a)' /\ Cut(a)' = Cut(a) + 1
                 /\ (a \in push.targets \/ At(a))' => At(a)
                 /\ wire' = [wire EXCEPT ![a] = Append(@,
                                 [e |-> log[Cut(a) + 1], last |-> TRUE])]
<1>1. Lengths /\ CutBounds
  BY QueueLengths
<1>2. /\ push.thread = "run" /\ push.left # <<>> /\ push.half \in BOOLEAN
      /\ UNCHANGED <<sock, feed, ui, applied, joined, log, server, broadcast>>
  BY DEF PushSend, terminalVars, ServerType
<1>3. /\ a \in Feeds /\ push.copied /\ a \notin push.targets /\ At(a)
      /\ Cut(a) + 1 \in DOMAIN log /\ Head(push.left) = log[Cut(a) + 1]
      /\ Cut(a) \in Nat
  BY <1>1, <1>2, LeftFacts DEF At, CutBounds
<1>4. CASE push' = [push EXCEPT !.thread = "dead"] /\ UNCHANGED <<wire, conns>>
  <2>1. /\ push'.batch = push.batch /\ push'.copied = push.copied
        /\ push'.left = push.left /\ push'.targets = push.targets
        /\ push'.half = push.half /\ push'.at = push.at /\ push'.thread = "dead"
    BY <1>4 DEF ServerType
  <2>2. ServerType'
    BY <1>2, <1>4 DEF ServerType
  <2>3. Pushed = Pushed' /\ Drained' = Drained
    BY <1>2, <2>1 DEF Drained, Pushed
  <2>4. QueueInv'
    BY <1>2, <2>1, <2>3 DEF QueueInv
  <2>5. \A f \in Feeds : /\ Cut(f)' = Cut(f) /\ (HalfSent(f)' <=> HalfSent(f))
                         /\ At(f)' <=> At(f)
    BY <2>1, <2>3 DEF Cut, At, HalfSent
  <2>6. \A f \in Feeds : Steady(f)
    BY <2>1, <2>5, <1>1 DEF Steady, CutBounds
  <2>. QED BY <1>2, <1>3, <1>4, <2>2, <2>4, <2>6
<1>5. CASE /\ sock[a] = "open" /\ ~push.half /\ UNCHANGED conns
           /\ wire' = [wire EXCEPT ![a] = Append(@, [e |-> Head(push.left), last |-> FALSE])]
           /\ push' = [push EXCEPT !.half = TRUE]
  <2>1. /\ push'.batch = push.batch /\ push'.copied = push.copied
        /\ push'.left = push.left /\ push'.targets = push.targets
        /\ push'.half = TRUE /\ push'.at = push.at /\ push'.thread = push.thread
    BY <1>5 DEF ServerType
  <2>2. ServerType'
    BY <1>2, <1>5 DEF ServerType
  <2>3. Pushed = Pushed' /\ Drained' = Drained
    BY <1>2, <2>1 DEF Drained, Pushed
  <2>4. QueueInv'
    BY <1>2, <2>1, <2>3 DEF QueueInv
  <2>5. \A f \in Feeds : Cut(f)' = Cut(f) /\ (At(f)' <=> At(f))
    BY <2>1, <2>3 DEF Cut, At
  <2>6. \A f \in Feeds : f # a => Steady(f)
    BY <2>1, <2>5, <1>1 DEF Steady, CutBounds, HalfSent, At
  <2>7. ~HalfSent(a) /\ HalfSent(a)' /\ ((a \in push.targets \/ At(a))' => At(a))
    BY <1>3, <1>5, <2>1, <2>5 DEF HalfSent
  <2>. QED BY <1>2, <1>3, <1>5, <2>2, <2>4, <2>5, <2>6, <2>7
<1>6. CASE /\ sock[a] = "open" /\ push.half /\ UNCHANGED conns
           /\ wire' = [wire EXCEPT ![a] = Append(@, [e |-> Head(push.left), last |-> TRUE])]
           /\ push' = [push EXCEPT !.half = FALSE, !.left = Tail(@)]
  <2>1. /\ ServerType' /\ QueueInv'
        /\ Cut(a)' = Cut(a) + 1 /\ ~HalfSent(a)'
        /\ \A f \in Feeds : f # a => Steady(f)
        /\ (a \in push.targets \/ At(a))' => At(a)
    BY <1>2, <1>3, <1>6, PassInv
  <2>2. HalfSent(a)
    BY <1>3, <1>6 DEF HalfSent
  <2>. QED BY <1>2, <1>3, <1>6, <2>1, <2>2
<1>7. CASE /\ sock[a] # "open" /\ conns' = conns \ {a} /\ UNCHANGED wire
           /\ push' = [push EXCEPT !.half = FALSE, !.left = Tail(@)]
  <2>1. /\ ServerType' /\ QueueInv'
        /\ Cut(a)' = Cut(a) + 1 /\ ~HalfSent(a)'
        /\ \A f \in Feeds : f # a => Steady(f)
        /\ (a \in push.targets \/ At(a))' => At(a)
    BY <1>2, <1>3, <1>7, PassInv
  <2>2. Steady(a)
    BY <1>3, <1>7, <2>1 DEF Steady
  <2>. QED BY <1>2, <1>3, <1>7, <2>1, <2>2
<1>. QED BY <1>2, <1>4, <1>5, <1>6, <1>7 DEF PushSend

----------------------------------------------------------------------------
(* A terminal that a step leaves alone                                      *)

\* What a terminal has applied, and its wire, as sequences.
LEMMA TerminalSeqs ==
    ASSUME TerminalType, NEW f \in Feeds
    PROVE  /\ applied[f] \in Seq(Envelopes) /\ wire[f] \in Seq(Pieces)
           /\ Len(applied[f]) \in Nat /\ DOMAIN applied[f] = 1..Len(applied[f])
           /\ Len(wire[f]) \in Nat /\ DOMAIN wire[f] = 1..Len(wire[f])
           /\ (wire[f] = <<>> <=> Len(wire[f]) = 0)
           /\ (applied[f] = <<>> <=> Len(applied[f]) = 0)
           /\ \A i \in 1..Len(wire[f]) :
                 /\ wire[f][i].e \in Envelopes /\ wire[f][i].e.n \in Nat
                 /\ wire[f][i].last \in BOOLEAN
           /\ Got(f) \in Nat
<1>1. applied[f] \in Seq(Envelopes) /\ wire[f] \in Seq(Pieces)
  BY DEF TerminalType
<1>2. /\ Len(applied[f]) \in Nat /\ DOMAIN applied[f] = 1..Len(applied[f])
      /\ Len(wire[f]) \in Nat /\ DOMAIN wire[f] = 1..Len(wire[f])
  BY <1>1, LenProperties
<1>3. /\ (wire[f] = <<>> <=> Len(wire[f]) = 0)
      /\ (applied[f] = <<>> <=> Len(applied[f]) = 0)
  BY <1>1, EmptySeq
<1>4. \A i \in 1..Len(wire[f]) : wire[f][i] \in Pieces
  BY <1>1, ElementOfSeq
<1>5. \A i \in 1..Len(wire[f]) :
         /\ wire[f][i].e \in Envelopes /\ wire[f][i].e.n \in Nat
         /\ wire[f][i].last \in BOOLEAN
  BY <1>4 DEF Pieces, Envelopes
<1>6. applied[f] # <<>> => Last(applied[f]) \in Envelopes
  BY <1>1, <1>2, <1>3, ElementOfSeq DEF Last
<1>7. Got(f) \in Nat
  BY <1>6 DEF Got, Envelopes
<1>. QED BY <1>1, <1>2, <1>3, <1>5, <1>7

\* All that a connection in order has applied is in the log.
LEMMA AppliedInLog ==
    ASSUME ServerType, TerminalType, QueueInv, NEW f \in Feeds, FeedInv(f), Sound(f)
    PROVE  /\ joined[f] \in Nat /\ joined[f] > 0
           /\ \A k \in DOMAIN applied[f] : joined[f] + k - 1 \in DOMAIN log
<1>1. joined[f] \in Nat /\ joined[f] # 0
  BY DEF ServerType, FeedInv, JoinInv, Sound
<1>2. Lengths /\ CutBounds
  BY QueueLengths
<1>3. NextN(f) <= Len(log) + 1
  <2>1. CASE wire[f] = <<>>
    BY <2>1, <1>2 DEF FeedInv, ExactInv, Lengths, CutBounds
  <2>2. CASE wire[f] # <<>>
    <3>1. 1 \in DOMAIN wire[f]
      BY <2>2, TerminalSeqs
    <3>. QED BY <2>2, <3>1, <1>2 DEF FeedInv, OrderInv, ExactInv, Lengths
  <2>. QED BY <2>1, <2>2
<1>. QED BY <1>1, <1>2, <1>3, TerminalSeqs DEF NextN, Lengths

Untouched(f) ==
    /\ \A k \in DOMAIN log : k \in DOMAIN log' /\ log'[k] = log[k]
    /\ wire'[f] = wire[f] /\ applied'[f] = applied[f] /\ feed'[f] = feed[f]
    /\ ui'[f] = ui[f] /\ joined'[f] = joined[f]
    /\ f \in conns' => f \in conns
    /\ f \in conns /\ f \notin conns' => sock'[f] # "open"
    /\ sock'[f] = sock[f] \/ (sock[f] = "open" /\ sock'[f] = "eof")

\* The terminal's invariant survives a step that at most lets the log grow,
\* moves the cut of a connection that is not in order, or ends it.
LEMMA FeedFrame ==
    ASSUME ServerType, TerminalType, QueueInv, ServerType', QueueInv',
           NEW f \in Feeds, FeedInv(f), Steady(f), Untouched(f)
    PROVE  FeedInv(f)'
<1>. USE DEF FeedInv, Untouched
<1>1. Lengths /\ CutBounds /\ CutBounds'
  BY QueueLengths, QueueLengthsNext
<1>2. Got(f)' = Got(f)
  BY DEF Got
<1>3. OrderInv(f)'
  <2>1. Cut(f) <= Cut(f)' /\ Cut(f) \in Nat /\ Cut(f)' \in Nat
    BY <1>1 DEF Steady, CutBounds
  <2>2. /\ Got(f) \in Nat
        /\ \A i \in DOMAIN wire[f] : wire[f][i].e.n \in Nat
    BY TerminalSeqs
  <2>. QED BY <1>2, <2>1, <2>2 DEF OrderInv
<1>4. JoinInv(f)'
  BY DEF JoinInv, Steady
<1>5. ExactInv(f)'
  <2>. SUFFICES ASSUME Sound(f)' PROVE ExactInv(f)'
    BY DEF ExactInv
  <2>1. Sound(f)
    BY DEF Sound
  <2>2. \A k \in DOMAIN applied[f] : applied'[f][k] = log'[joined'[f] + k - 1]
    BY <2>1, AppliedInLog DEF ExactInv
  <2>3. Cut(f)' = Cut(f) /\ (HalfSent(f)' <=> HalfSent(f))
    BY DEF Sound, Steady
  <2>4. NextN(f)' = NextN(f) /\ (Inside(f)' <=> Inside(f))
    BY DEF NextN, Inside
  <2>. QED BY <2>1, <2>2, <2>3, <2>4 DEF ExactInv
<1>. QED BY <1>3, <1>4, <1>5

----------------------------------------------------------------------------
(* A terminal that is written to, or registered                             *)

\* A piece is written: the first of the envelope after the cut, or the rest
\* of it, which moves the cut.
LEMMA PieceSent ==
    ASSUME ServerType, TerminalType, QueueInv, ServerType', QueueInv',
           NEW f \in Feeds, FeedInv(f), At(f), NEW b \in BOOLEAN,
           Cut(f) \in Nat, Cut(f) + 1 \in DOMAIN log,
           HalfSent(f) <=> b, HalfSent(f)' <=> ~b,
           Cut(f)' = IF b THEN Cut(f) + 1 ELSE Cut(f),
           wire'[f] = Append(wire[f], [e |-> log[Cut(f) + 1], last |-> b]),
           UNCHANGED <<sock, feed, ui, applied, joined, log, conns>>
    PROVE  FeedInv(f)'
<1>. DEFINE w == wire[f]
            p == [e |-> log[Cut(f) + 1], last |-> b]
            v == wire'[f]
<1>1. /\ p \in Pieces /\ p.e.n = Cut(f) + 1 /\ p.e = log[p.e.n] /\ p.last = b
  <2>1. log[Cut(f) + 1] \in Envelopes
    BY QueueLengths, ElementOfSeq DEF ServerType, Lengths
  <2>2. log[Cut(f) + 1].n = Cut(f) + 1
    BY DEF QueueInv
  <2>. QED BY <2>1, <2>2 DEF Pieces
<1>2. /\ w \in Seq(Pieces) /\ Len(w) \in Nat /\ DOMAIN w = 1..Len(w)
      /\ (w = <<>> <=> Len(w) = 0)
      /\ Got(f) \in Nat
      /\ \A i \in 1..Len(w) : w[i].e.n \in Nat /\ w[i].last \in BOOLEAN
  BY TerminalSeqs
<1>3. v = Append(w, p)
  OBVIOUS
<1>. HIDE DEF p, w, v
<1>4. /\ v \in Seq(Pieces) /\ Len(v) = Len(w) + 1 /\ v[Len(w) + 1] = p
      /\ \A i \in 1..Len(w) : v[i] = w[i]
  BY <1>1, <1>2, <1>3, AppendProperties
<1>5. DOMAIN v = 1..(Len(w) + 1) /\ v # <<>>
  BY <1>2, <1>4, LenProperties, EmptySeq
<1>6. Got(f)' = Got(f)
  BY DEF Got
<1>7. /\ Got(f) <= Cut(f)
      /\ \A i \in DOMAIN w :
            /\ w[i].e.n \in DOMAIN log /\ w[i].e = log[w[i].e.n]
            /\ w[i].last => Got(f) < w[i].e.n /\ w[i].e.n <= Cut(f)
      /\ \A i, j \in DOMAIN w :
            i < j /\ w[i].last /\ w[j].last => w[i].e.n < w[j].e.n
      /\ feed[f].pc = "pushing" => w # <<>> /\ w[1].last
  BY DEF FeedInv, OrderInv, w
<1>8. OrderInv(f)'
  <2>1. \A i \in DOMAIN v :
            /\ v[i].e.n \in DOMAIN log /\ v[i].e = log[v[i].e.n]
            /\ v[i].last => Got(f) < v[i].e.n /\ v[i].e.n <= Cut(f)'
    BY <1>1, <1>2, <1>4, <1>5, <1>7
  <2>2. ASSUME NEW i \in DOMAIN v, NEW j \in DOMAIN v, i < j, v[i].last, v[j].last
        PROVE  v[i].e.n < v[j].e.n
    <3>1. i \in DOMAIN w /\ v[i] = w[i] /\ w[i].e.n \in Nat /\ w[i].e.n <= Cut(f)
      BY <2>2, <1>2, <1>4, <1>5, <1>7
    <3>2. CASE j = Len(w) + 1
      BY <3>1, <3>2, <1>1, <1>4
    <3>3. CASE j # Len(w) + 1
      <4>1. j \in DOMAIN w /\ v[j] = w[j]
        BY <3>3, <1>2, <1>4, <1>5
      <4>. QED BY <3>1, <4>1, <2>2, <1>7
    <3>. QED BY <3>2, <3>3
  <2>3. feed[f].pc = "pushing" => v # <<>> /\ v[1].last
    BY <1>2, <1>4, <1>5, <1>7
  <2>4. Got(f) <= Cut(f)'
    BY <1>2, <1>7
  <2>. QED BY <1>6, <2>1, <2>2, <2>3, <2>4 DEF OrderInv, v
<1>9. JoinInv(f)'
  BY DEF FeedInv, JoinInv
<1>10. ExactInv(f)'
  <2>. SUFFICES ASSUME Sound(f)' PROVE ExactInv(f)'
    BY DEF ExactInv
  <2>1. Sound(f) /\ NextN(f)' = NextN(f) /\ (Inside(f)' <=> Inside(f))
    BY DEF Sound, NextN, Inside
  <2>2. /\ \A k \in DOMAIN applied[f] : applied[f][k] = log[joined[f] + k - 1]
        /\ w = <<>> => NextN(f) = Cut(f) + 1 /\ (Inside(f) <=> HalfSent(f))
        /\ w # <<>> => /\ w[1].e.n = NextN(f) /\ (w[1].last <=> Inside(f))
                       /\ w[Len(w)].last <=> ~HalfSent(f)
                       /\ w[Len(w)].e.n = IF w[Len(w)].last THEN Cut(f)
                                          ELSE Cut(f) + 1
        /\ \A i, j \in DOMAIN w : j = i + 1 =>
              /\ w[j].last <=> ~w[i].last
              /\ w[j].e.n = IF w[i].last THEN w[i].e.n + 1 ELSE w[i].e.n
    BY <2>1 DEF FeedInv, ExactInv, w
  <2>3. v[1].e.n = NextN(f) /\ (v[1].last <=> Inside(f))
    <3>1. CASE w = <<>>
      BY <3>1, <2>2, <1>1, <1>2, <1>4
    <3>2. CASE w # <<>>
      <4>1. v[1] = w[1]
        BY <3>2, <1>2, <1>4
      <4>. QED BY <3>2, <4>1, <2>2
    <3>. QED BY <3>1, <3>2
  <2>4. LET z == v[Len(v)] IN
        /\ z.last <=> ~HalfSent(f)'
        /\ z.e.n = IF z.last THEN Cut(f)' ELSE Cut(f)' + 1
    BY <1>1, <1>4
  <2>5. ASSUME NEW i \in DOMAIN v, NEW j \in DOMAIN v, j = i + 1
        PROVE  /\ v[j].last <=> ~v[i].last
               /\ v[j].e.n = IF v[i].last THEN v[i].e.n + 1 ELSE v[i].e.n
    <3>1. CASE j = Len(w) + 1
      <4>1. i = Len(w) /\ w # <<>> /\ v[i] = w[Len(w)] /\ v[j] = p
        BY <3>1, <2>5, <1>2, <1>4, <1>5
      <4>. QED BY <4>1, <2>2, <1>1
    <3>2. CASE j # Len(w) + 1
      <4>1. i \in DOMAIN w /\ j \in DOMAIN w /\ v[i] = w[i] /\ v[j] = w[j]
        BY <3>2, <2>5, <1>2, <1>4, <1>5
      <4>. QED BY <4>1, <2>2, <2>5
    <3>. QED BY <3>1, <3>2
  <2>. QED BY <1>5, <2>1, <2>2, <2>3, <2>4, <2>5 DEF ExactInv, v
<1>. QED BY <1>8, <1>9, <1>10 DEF FeedInv

\* _handle_conn begins with nothing under way to the connection, and takes
\* note of what comes next.
LEMMA HandleConnInv ==
    ASSUME ServerType, TerminalType, QueueInv, \A f \in Feeds : FeedInv(f),
           NEW g \in Feeds, HandleConn(g)
    PROVE  /\ ServerType' /\ TerminalType' /\ QueueInv'
           /\ \A f \in Feeds : FeedInv(f)'
<1>1. Lengths /\ CutBounds
  BY QueueLengths
<1>2. /\ server = "up" /\ sock[g] # "none" /\ joined[g] = 0 /\ g \notin conns
      /\ conns' = conns \cup {g}
      /\ UNCHANGED <<server, broadcast, push, log, sock, wire, feed, ui, applied>>
  BY DEF HandleConn, netVars, terminalVars
<1>3. g \notin push.targets /\ ~At(g) /\ wire[g] = <<>> /\ applied[g] = <<>>
      /\ ~feed[g].torn /\ feed[g].pc \notin {"inside", "pushing", "off", "connecting"}
  BY <1>2 DEF FeedInv, JoinInv
<1>4. joined'[g] = Cut(g) + 1 /\ Cut(g) \in Nat
  <2>1. joined'[g] = 1 + Len(log) - Len(broadcast)
                       - (IF push.copied THEN 0 ELSE Len(push.batch))
    BY DEF HandleConn, ServerType
  <2>2. Cut(g) = IF push.copied THEN Drained ELSE Pushed
    BY <1>3 DEF Cut
  <2>. QED BY <1>1, <2>1, <2>2 DEF Lengths, Drained, Pushed
<1>5. joined' = [joined EXCEPT ![g] = Cut(g) + 1]
  BY <1>4 DEF HandleConn, ServerType
<1>6. ServerType' /\ TerminalType'
  <2>1. ServerType'
    BY <1>2, <1>4, <1>5 DEF ServerType
  <2>2. TerminalType'
    BY <1>2 DEF TerminalType
  <2>. QED BY <2>1, <2>2
<1>7. QueueInv'
  BY <1>2 DEF QueueInv, Drained, Pushed
<1>8. \A f \in Feeds : /\ Cut(f)' = Cut(f) /\ (HalfSent(f)' <=> HalfSent(f))
                       /\ At(f)' <=> At(f)
  BY <1>2 DEF Cut, At, HalfSent, Drained, Pushed
<1>9. ASSUME NEW f \in Feeds, f # g PROVE FeedInv(f)'
  <2>1. Steady(f)
    BY <1>1, <1>2, <1>8 DEF Steady, CutBounds
  <2>2. joined'[f] = joined[f] /\ (f \in conns' <=> f \in conns)
    BY <1>2, <1>5, <1>9 DEF ServerType
  <2>3. Untouched(f)
    BY <1>2, <2>2 DEF Untouched
  <2>. QED BY <1>6, <1>7, <2>1, <2>3, FeedFrame
<1>10. FeedInv(g)'
  <2>1. Got(g)' = 0 /\ Got(g) = 0 /\ Len(applied[g]) = 0 /\ DOMAIN applied[g] = {}
        /\ DOMAIN wire[g] = {}
    BY <1>2, <1>3 DEF Got
  <2>2. OrderInv(g)'
    BY <1>2, <1>3, <1>4, <1>8, <2>1 DEF OrderInv
  <2>3. JoinInv(g)'
    <3>1. JoinInv(g)
      BY DEF FeedInv
    <3>2. g \in conns' /\ joined'[g] > 0
      BY <1>2, <1>4
    <3>. QED BY <1>2, <3>1, <3>2 DEF JoinInv
  <2>4. NextN(g)' = Cut(g)' + 1 /\ ~Inside(g)' /\ ~HalfSent(g)'
    <3>1. NextN(g)' = Cut(g) + 1
      BY <1>2, <1>4, <2>1 DEF NextN
    <3>2. ~Inside(g)'
      BY <1>2, <1>3 DEF Inside
    <3>3. ~HalfSent(g)
      BY <1>3 DEF HalfSent
    <3>. QED BY <1>8, <3>1, <3>2, <3>3
  <2>5. ExactInv(g)'
    BY <1>2, <1>3, <2>1, <2>4 DEF ExactInv
  <2>. QED BY <2>2, <2>3, <2>5 DEF FeedInv
<1>. QED BY <1>6, <1>7, <1>9, <1>10

\* The rest of what the server does to its connections, the push thread's
\* steps included.
LEMMA ServerStepInv ==
    ASSUME ServerType, TerminalType, QueueInv, \A f \in Feeds : FeedInv(f),
           \/ ServerStart \/ ServerEnd \/ PushLoop
           \/ \E g \in Feeds : PeerClosed(g)
    PROVE  /\ ServerType' /\ TerminalType' /\ QueueInv'
           /\ \A f \in Feeds : FeedInv(f)'
<1>1. Lengths /\ CutBounds
  BY QueueLengths
<1>2. ASSUME ServerType', QueueInv', \A f \in Feeds : Steady(f),
             UNCHANGED <<log, joined, conns, netVars, terminalVars>>
      PROVE  TerminalType' /\ \A f \in Feeds : FeedInv(f)'
  <2>1. TerminalType'
    BY <1>2 DEF TerminalType, netVars, terminalVars
  <2>2. ASSUME NEW f \in Feeds PROVE FeedInv(f)'
    <3>1. Untouched(f)
      BY <1>2 DEF Untouched, netVars, terminalVars
    <3>. QED BY <1>2, <3>1, FeedFrame
  <2>. QED BY <2>1, <2>2
<1>3. CASE PushDrain
  <2>1. ServerType' /\ QueueInv' /\ \A f \in Feeds : Steady(f)
    BY <1>3, DrainInv
  <2>. QED BY <1>2, <1>3, <2>1 DEF PushDrain
<1>4. CASE PushCopy
  <2>1. ServerType' /\ QueueInv' /\ \A f \in Feeds : Steady(f)
    BY <1>4, CopyInv
  <2>. QED BY <1>2, <1>4, <2>1 DEF PushCopy
<1>5. CASE PushNext
  <2>1. ServerType' /\ QueueInv' /\ \A f \in Feeds : Steady(f)
    BY <1>5, NextConnInv
  <2>. QED BY <1>2, <1>5, <2>1 DEF PushNext
<1>6. CASE ServerStart
  <2>1. /\ push' = [push EXCEPT !.thread = "run"] /\ server' = "up"
        /\ UNCHANGED <<broadcast, conns, log, joined, netVars, terminalVars>>
    BY <1>6 DEF ServerStart
  <2>2. /\ push'.batch = push.batch /\ push'.copied = push.copied
        /\ push'.left = push.left /\ push'.targets = push.targets
        /\ push'.half = push.half /\ push'.at = push.at
    BY <2>1 DEF ServerType
  <2>3. ServerType'
    BY <2>1 DEF ServerType
  <2>4. Drained' = Drained /\ Pushed' = Pushed
    BY <2>1, <2>2 DEF Drained, Pushed
  <2>5. QueueInv'
    BY <2>1, <2>2, <2>4 DEF QueueInv
  <2>6. \A f \in Feeds : Steady(f)
    BY <1>1, <2>1, <2>2, <2>4 DEF Steady, Cut, At, HalfSent, CutBounds
  <2>. QED BY <1>2, <2>1, <2>3, <2>5, <2>6
<1>7. CASE ServerEnd
  <2>1. /\ push' = [push EXCEPT !.thread = "dead"] /\ server' = "gone"
        /\ sock' = [f \in Feeds |-> IF sock[f] = "open" THEN "eof" ELSE sock[f]]
        /\ UNCHANGED <<broadcast, conns, log, joined, wire, terminalVars>>
    BY <1>7 DEF ServerEnd
  <2>2. /\ push'.batch = push.batch /\ push'.copied = push.copied
        /\ push'.left = push.left /\ push'.targets = push.targets
        /\ push'.half = push.half /\ push'.at = push.at /\ push'.thread = "dead"
    BY <2>1 DEF ServerType
  <2>3. ServerType'
    BY <2>1 DEF ServerType
  <2>4. TerminalType'
    BY <2>1 DEF TerminalType, terminalVars
  <2>5. Drained' = Drained /\ Pushed' = Pushed
    BY <2>1, <2>2 DEF Drained, Pushed
  <2>6. QueueInv'
    BY <2>1, <2>2, <2>5 DEF QueueInv
  <2>7. ASSUME NEW f \in Feeds PROVE FeedInv(f)'
    <3>1. Steady(f)
      BY <1>1, <2>1, <2>2, <2>5 DEF Steady, Cut, At, HalfSent, CutBounds
    <3>2. Untouched(f)
      BY <2>1 DEF Untouched, terminalVars
    <3>. QED BY <2>3, <2>6, <3>1, <3>2, FeedFrame
  <2>. QED BY <2>3, <2>4, <2>6, <2>7
<1>8. ASSUME NEW g \in Feeds, PeerClosed(g)
      PROVE  /\ ServerType' /\ TerminalType' /\ QueueInv'
             /\ \A f \in Feeds : FeedInv(f)'
  <2>1. /\ conns' = conns \ {g} /\ sock[g] = "closed"
        /\ UNCHANGED <<server, broadcast, push, log, joined, netVars, terminalVars>>
    BY <1>8 DEF PeerClosed
  <2>2. ServerType' /\ TerminalType'
    BY <2>1 DEF ServerType, TerminalType, netVars, terminalVars
  <2>3. QueueInv'
    BY <2>1 DEF QueueInv, Drained, Pushed
  <2>4. ASSUME NEW f \in Feeds PROVE FeedInv(f)'
    <3>1. Steady(f)
      BY <1>1, <2>1 DEF Steady, Cut, At, HalfSent, Drained, Pushed, CutBounds
    <3>2. Untouched(f)
      BY <2>1 DEF Untouched, netVars, terminalVars
    <3>. QED BY <2>2, <2>3, <3>1, <3>2, FeedFrame
  <2>. QED BY <2>2, <2>3, <2>4
<1>9. CASE PushSend
  <2>1. PICK a : a = push.at
    OBVIOUS
  <2>2. /\ ServerType' /\ QueueInv' /\ a \in Feeds
        /\ UNCHANGED <<sock, feed, ui, applied, joined, log>>
        /\ \A f \in Feeds : f # a => Steady(f) /\ (f \in conns <=> f \in conns')
    BY <1>9, <2>1, SendInv
  <2>3. ASSUME wire' \in [Feeds -> Seq(Pieces)],
               \A f \in Feeds : f # a => wire'[f] = wire[f], FeedInv(a)'
        PROVE  TerminalType' /\ \A f \in Feeds : FeedInv(f)'
    <3>1. TerminalType'
      BY <2>2, <2>3 DEF TerminalType
    <3>2. ASSUME NEW f \in Feeds, f # a PROVE FeedInv(f)'
      <4>1. Steady(f) /\ (f \in conns <=> f \in conns')
        BY <2>2, <3>2
      <4>2. Untouched(f)
        BY <2>2, <2>3, <3>2, <4>1 DEF Untouched
      <4>. QED BY <2>2, <4>1, <4>2, FeedFrame
    <3>. QED BY <2>3, <3>1, <3>2
  <2>4. CASE UNCHANGED <<wire, conns>> /\ Steady(a)
    <3>1. FeedInv(a)'
      <4>1. Untouched(a)
        BY <2>2, <2>4 DEF Untouched
      <4>. QED BY <2>2, <2>4, <4>1, FeedFrame
    <3>. QED BY <2>2, <2>3, <2>4, <3>1 DEF TerminalType
  <2>5. CASE UNCHANGED wire /\ Steady(a) /\ conns' = conns \ {a} /\ sock[a] # "open"
    <3>1. FeedInv(a)'
      <4>1. Untouched(a)
        BY <2>2, <2>5 DEF Untouched
      <4>. QED BY <2>2, <2>5, <4>1, FeedFrame
    <3>. QED BY <2>2, <2>3, <2>5, <3>1 DEF TerminalType
  <2>6. ASSUME NEW b \in BOOLEAN,
               UNCHANGED conns, At(a), Cut(a) \in Nat, Cut(a) + 1 \in DOMAIN log,
               HalfSent(a) <=> b, HalfSent(a)' <=> ~b,
               Cut(a)' = IF b THEN Cut(a) + 1 ELSE Cut(a),
               wire' = [wire EXCEPT ![a] = Append(@,
                           [e |-> log[Cut(a) + 1], last |-> b])]
        PROVE  TerminalType' /\ \A f \in Feeds : FeedInv(f)'
    <3>. DEFINE p == [e |-> log[Cut(a) + 1], last |-> b]
    <3>1. wire \in [Feeds -> Seq(Pieces)]
      BY DEF TerminalType
    <3>2. log[Cut(a) + 1] \in Envelopes
      BY <1>1, <2>6, ElementOfSeq DEF ServerType, Lengths
    <3>3. p \in Pieces
      BY <3>2 DEF Pieces
    <3>4. Append(wire[a], p) \in Seq(Pieces)
      BY <2>2, <3>1, <3>3, AppendProperties
    <3>5. wire' = [wire EXCEPT ![a] = Append(wire[a], p)]
      BY <2>6
    <3>. HIDE DEF p
    <3>6. /\ wire' \in [Feeds -> Seq(Pieces)] /\ wire'[a] = Append(wire[a], p)
          /\ \A f \in Feeds : f # a => wire'[f] = wire[f]
      BY <2>2, <3>1, <3>4, <3>5
    <3>7. FeedInv(a)'
      <4>1. wire'[a] = Append(wire[a], [e |-> log[Cut(a) + 1], last |-> b])
        BY <3>6 DEF p
      <4>. QED BY <2>2, <2>6, <4>1, PieceSent
    <3>. QED BY <2>3, <3>6, <3>7
  <2>7. \/ UNCHANGED <<wire, conns>> /\ Steady(a)
        \/ UNCHANGED wire /\ Steady(a) /\ conns' = conns \ {a} /\ sock[a] # "open"
        \/ \E b \in BOOLEAN :
              /\ UNCHANGED conns /\ At(a) /\ Cut(a) \in Nat /\ Cut(a) + 1 \in DOMAIN log
              /\ HalfSent(a) <=> b
              /\ HalfSent(a)' <=> ~b
              /\ Cut(a)' = IF b THEN Cut(a) + 1 ELSE Cut(a)
              /\ wire' = [wire EXCEPT ![a] = Append(@,
                             [e |-> log[Cut(a) + 1], last |-> b])]
    BY <1>9, <2>1, SendInv
  <2>. QED BY <2>2, <2>4, <2>5, <2>6, <2>7
<1>. QED BY <1>3, <1>4, <1>5, <1>6, <1>7, <1>8, <1>9 DEF PushLoop

----------------------------------------------------------------------------
(* A terminal's own steps                                                   *)

FeedType == [Feeds -> [pc : Phases, stop : BOOLEAN, torn : BOOLEAN]]

\* The server's side when only the terminals and the workspace move.
LEMMA ServerFrame ==
    ASSUME ServerType, QueueInv, UNCHANGED serverVars
    PROVE  /\ ServerType' /\ QueueInv'
           /\ \A f \in Feeds : /\ Cut(f)' = Cut(f) /\ Cut(f) \in Nat
                               /\ At(f)' <=> At(f)
                               /\ HalfSent(f)' <=> HalfSent(f)
                               /\ Steady(f)
<1>1. CutBounds
  BY QueueLengths
<1>2. ServerType'
  BY DEF ServerType, serverVars
<1>3. QueueInv'
  BY DEF QueueInv, Drained, Pushed, serverVars
<1>4. \A f \in Feeds : /\ Cut(f)' = Cut(f) /\ (At(f)' <=> At(f))
                       /\ HalfSent(f)' <=> HalfSent(f)
  BY DEF Cut, At, HalfSent, Drained, Pushed, serverVars
<1>. QED BY <1>1, <1>2, <1>3, <1>4 DEF Steady, CutBounds, serverVars

\* Only terminal f is touched by its own steps.
LEMMA TerminalFrame ==
    ASSUME ServerType, TerminalType, QueueInv, \A g \in Feeds : FeedInv(g),
           UNCHANGED serverVars, NEW f \in Feeds, FeedInv(f)',
           \A g \in Feeds : g # f =>
              /\ wire'[g] = wire[g] /\ applied'[g] = applied[g]
              /\ feed'[g] = feed[g] /\ ui'[g] = ui[g] /\ sock'[g] = sock[g]
    PROVE  \A g \in Feeds : FeedInv(g)'
<1>. SUFFICES ASSUME NEW g \in Feeds, g # f PROVE FeedInv(g)'
  OBVIOUS
<1>1. ServerType' /\ QueueInv' /\ Steady(g)
  BY ServerFrame
<1>2. Untouched(g)
  BY DEF Untouched, serverVars
<1>. QED BY <1>1, <1>2, FeedFrame

\* A reader thread that moves to phase x.
LEMMA PcMoves ==
    ASSUME TerminalType, NEW f \in Feeds, NEW x \in Phases,
           feed' = [feed EXCEPT ![f].pc = x]
    PROVE  /\ feed' \in FeedType
           /\ feed'[f].pc = x /\ feed'[f].torn = feed[f].torn
           /\ \A g \in Feeds : g # f => feed'[g] = feed[g]
BY DEF TerminalType, FeedType

\* What is left on the wire after some pieces are taken is still in order.
LEMMA SuffixOrder ==
    ASSUME TerminalType, TerminalType', NEW f \in Feeds, OrderInv(f),
           NEW k \in 1..Len(wire[f]), Len(wire'[f]) = Len(wire[f]) - k,
           \A i \in 1..(Len(wire[f]) - k) : wire'[f][i] = wire[f][i + k],
           Cut(f)' = Cut(f), Cut(f) \in Nat, log' = log, feed'[f].pc # "pushing",
           \/ Got(f)' = Got(f)
           \/ wire[f][1].last /\ Got(f)' = wire[f][1].e.n
    PROVE  OrderInv(f)'
<1>. DEFINE w == wire[f]  v == wire'[f]
<1>1. /\ Len(w) \in Nat /\ DOMAIN w = 1..Len(w) /\ Got(f) \in Nat
      /\ \A i \in 1..Len(w) : w[i].e.n \in Nat
  BY TerminalSeqs
<1>2. DOMAIN v = 1..(Len(w) - k)
  BY LenProperties DEF TerminalType
<1>3. /\ Got(f) <= Cut(f)
      /\ \A i \in DOMAIN w :
            /\ w[i].e.n \in DOMAIN log /\ w[i].e = log[w[i].e.n]
            /\ w[i].last => Got(f) < w[i].e.n /\ w[i].e.n <= Cut(f)
      /\ \A i, j \in DOMAIN w :
            i < j /\ w[i].last /\ w[j].last => w[i].e.n < w[j].e.n
  BY DEF OrderInv
<1>4. \A i \in 1..(Len(w) - k) : v[i] = w[i + k]
  OBVIOUS
<1>. HIDE DEF w, v
<1>5. k \in 1..Len(w) /\ (Got(f)' = Got(f) \/ (w[1].last /\ Got(f)' = w[1].e.n))
  BY DEF w
<1>6. Got(f)' <= Cut(f)
  BY <1>1, <1>3, <1>5
<1>7. ASSUME NEW i \in DOMAIN v
      PROVE  /\ v[i].e.n \in DOMAIN log /\ v[i].e = log[v[i].e.n]
             /\ v[i].last => Got(f)' < v[i].e.n /\ v[i].e.n <= Cut(f)
  <2>1. i + k \in DOMAIN w /\ v[i] = w[i + k] /\ 1 \in DOMAIN w /\ 1 < i + k
    BY <1>1, <1>2, <1>4, <1>5
  <2>2. w[i + k].last => Got(f)' < w[i + k].e.n
    BY <2>1, <1>3, <1>5
  <2>. QED BY <2>1, <2>2, <1>3
<1>8. ASSUME NEW i \in DOMAIN v, NEW j \in DOMAIN v, i < j, v[i].last, v[j].last
      PROVE  v[i].e.n < v[j].e.n
  <2>1. /\ i + k \in DOMAIN w /\ v[i] = w[i + k]
        /\ j + k \in DOMAIN w /\ v[j] = w[j + k] /\ i + k < j + k
    BY <1>1, <1>2, <1>4, <1>5, <1>8
  <2>. QED BY <2>1, <1>3, <1>8
<1>. QED BY <1>6, <1>7, <1>8 DEF OrderInv, v

\* A step of terminal f that neither reads from the wire nor applies.
LEMMA QuietFeed ==
    ASSUME ServerType, QueueInv, NEW f \in Feeds, FeedInv(f), JoinInv(f)',
           UNCHANGED serverVars, wire'[f] = wire[f], applied'[f] = applied[f],
           feed'[f].pc = "pushing" => wire[f] # <<>> /\ wire[f][1].last,
           Sound(f)' => Sound(f) /\ (Inside(f)' <=> Inside(f))
    PROVE  FeedInv(f)'
<1>. USE DEF FeedInv
<1>1. Cut(f)' = Cut(f) /\ (HalfSent(f)' <=> HalfSent(f))
  BY ServerFrame
<1>2. log' = log /\ joined' = joined
  BY DEF serverVars
<1>3. Got(f)' = Got(f) /\ NextN(f)' = NextN(f)
  BY <1>2 DEF Got, NextN
<1>4. OrderInv(f)'
  BY <1>1, <1>2, <1>3 DEF OrderInv
<1>5. ExactInv(f)'
  BY <1>1, <1>2, <1>3 DEF ExactInv
<1>. QED BY <1>4, <1>5

\* The terminal's steps on either side of what it reads.
LEMMA QuietStepInv ==
    ASSUME ServerType, TerminalType, QueueInv, \A g \in Feeds : FeedInv(g),
           NEW f \in Feeds,
           \/ FeedStart(f) \/ Connect(f) \/ ReadRest(f) \/ ReadTimeout(f)
           \/ FeedEnd(f) \/ Unmount(f) \/ Unmounted(f)
    PROVE  UNCHANGED serverVars /\ TerminalType' /\ \A g \in Feeds : FeedInv(g)'
<1>1. FeedInv(f) /\ JoinInv(f)
  BY DEF FeedInv
<1>2. UNCHANGED serverVars /\ wire' = wire /\ applied' = applied
  BY DEF FeedStart, Connect, ReadRest, ReadTimeout, FeedEnd, Unmount, Unmounted,
         netVars, serverVars
<1>3. UNCHANGED <<push, conns, joined>> /\ (At(f)' <=> At(f))
  BY <1>2, ServerFrame DEF serverVars
<1>4. ASSUME TerminalType',
             \A g \in Feeds : g # f =>
                feed'[g] = feed[g] /\ ui'[g] = ui[g] /\ sock'[g] = sock[g],
             JoinInv(f)',
             feed'[f].pc = "pushing" => wire[f] # <<>> /\ wire[f][1].last,
             Sound(f)' => Sound(f) /\ (Inside(f)' <=> Inside(f))
      PROVE  UNCHANGED serverVars /\ TerminalType' /\ \A g \in Feeds : FeedInv(g)'
  <2>1. FeedInv(f)'
    BY <1>1, <1>2, <1>4, QuietFeed
  <2>. QED BY <1>2, <1>4, <2>1, TerminalFrame
<1>5. feed[f].pc = "pushing" => wire[f] # <<>> /\ wire[f][1].last
  BY <1>1 DEF FeedInv, OrderInv
<1>6. CASE FeedStart(f)
  <2>1. /\ feed' = [feed EXCEPT ![f].pc = "connecting"] /\ feed[f].pc = "off"
        /\ UNCHANGED <<sock, ui>>
    BY <1>6 DEF FeedStart, netVars
  <2>2. /\ feed' \in FeedType /\ feed'[f].pc = "connecting"
        /\ feed'[f].torn = feed[f].torn
        /\ \A g \in Feeds : g # f => feed'[g] = feed[g]
    BY <2>1, PcMoves DEF Phases
  <2>3. TerminalType'
    BY <1>2, <2>1, <2>2 DEF TerminalType, FeedType
  <2>4. JoinInv(f)'
    BY <1>1, <1>2, <1>3, <2>1, <2>2 DEF JoinInv
  <2>5. ~Sound(f)'
    BY <2>2 DEF Sound
  <2>. QED BY <1>4, <2>1, <2>2, <2>3, <2>4, <2>5
<1>7. CASE Connect(f)
  <2>1. /\ feed' = [feed EXCEPT ![f].pc = "reading"] /\ feed[f].pc = "connecting"
        /\ sock' = [sock EXCEPT ![f] = "open"] /\ ui[f] # "gone" /\ ui' = ui
    BY <1>7 DEF Connect
  <2>2. /\ feed' \in FeedType /\ feed'[f].pc = "reading"
        /\ feed'[f].torn = feed[f].torn
        /\ \A g \in Feeds : g # f => feed'[g] = feed[g]
    BY <2>1, PcMoves DEF Phases
  <2>3. TerminalType'
    BY <1>2, <2>1, <2>2 DEF TerminalType, FeedType
  <2>4. /\ sock'[f] = "open" /\ joined[f] = 0 /\ f \notin conns
        /\ \A g \in Feeds : g # f => sock'[g] = sock[g]
    BY <1>1, <2>1 DEF JoinInv, TerminalType
  <2>5. JoinInv(f)'
    BY <1>1, <1>2, <1>3, <2>1, <2>2, <2>4 DEF JoinInv
  <2>6. ~Sound(f)'
    BY <1>3, <2>4 DEF Sound
  <2>. QED BY <1>4, <2>1, <2>2, <2>3, <2>4, <2>5, <2>6
<1>8. CASE ReadRest(f)
  <2>1. /\ feed' = [feed EXCEPT ![f].pc = "pushing"] /\ feed[f].pc = "inside"
        /\ wire[f] # <<>> /\ Head(wire[f]).last /\ UNCHANGED <<sock, ui>>
    BY <1>8 DEF ReadRest, Readable, netVars
  <2>2. /\ feed' \in FeedType /\ feed'[f].pc = "pushing"
        /\ feed'[f].torn = feed[f].torn
        /\ \A g \in Feeds : g # f => feed'[g] = feed[g]
    BY <2>1, PcMoves DEF Phases
  <2>3. TerminalType'
    BY <1>2, <2>1, <2>2 DEF TerminalType, FeedType
  <2>4. JoinInv(f)'
    BY <1>1, <1>2, <1>3, <2>1, <2>2 DEF JoinInv
  <2>5. wire[f][1].last
    BY <2>1, TerminalSeqs, HeadTailProperties
  <2>6. Sound(f)' => Sound(f) /\ (Inside(f)' <=> Inside(f))
    BY <1>3, <2>1, <2>2 DEF Sound, Inside
  <2>. QED BY <1>4, <2>1, <2>2, <2>3, <2>4, <2>5, <2>6
<1>9. CASE ReadTimeout(f)
  <2>1. /\ feed' = [feed EXCEPT ![f].pc = "reading", ![f].torn = TRUE]
        /\ feed[f].pc = "inside" /\ UNCHANGED <<sock, ui>>
    BY <1>9 DEF ReadTimeout, netVars
  <2>2. /\ feed' \in FeedType /\ feed'[f].pc = "reading" /\ feed'[f].torn
        /\ \A g \in Feeds : g # f => feed'[g] = feed[g]
    BY <2>1 DEF TerminalType, FeedType, Phases
  <2>3. TerminalType'
    BY <1>2, <2>1, <2>2 DEF TerminalType, FeedType
  <2>4. JoinInv(f)'
    BY <1>1, <1>2, <1>3, <2>1, <2>2 DEF JoinInv
  <2>5. ~Sound(f)'
    BY <2>2 DEF Sound
  <2>. QED BY <1>4, <2>1, <2>2, <2>3, <2>4, <2>5
<1>10. CASE FeedEnd(f)
  <2>1. feed' = [feed EXCEPT ![f].pc = "ended"] /\ UNCHANGED <<sock, ui>>
    BY <1>10 DEF FeedEnd, netVars
  <2>2. /\ feed' \in FeedType /\ feed'[f].pc = "ended"
        /\ feed'[f].torn = feed[f].torn
        /\ \A g \in Feeds : g # f => feed'[g] = feed[g]
    BY <2>1, PcMoves DEF Phases
  <2>3. TerminalType'
    BY <1>2, <2>1, <2>2 DEF TerminalType, FeedType
  <2>4. JoinInv(f)'
    BY <1>1, <1>2, <1>3, <2>1, <2>2 DEF JoinInv
  <2>5. ~Sound(f)'
    BY <2>2 DEF Sound
  <2>. QED BY <1>4, <2>1, <2>2, <2>3, <2>4, <2>5
<1>11. CASE Unmount(f)
  <2>1. /\ feed' = [feed EXCEPT ![f].stop = TRUE]
        /\ ui' = [ui EXCEPT ![f] = "unmounting"] /\ sock' = sock
    BY <1>11 DEF Unmount, netVars
  <2>2. /\ feed' \in FeedType /\ feed'[f].pc = feed[f].pc
        /\ feed'[f].torn = feed[f].torn
        /\ \A g \in Feeds : g # f => feed'[g] = feed[g]
    BY <2>1 DEF TerminalType, FeedType
  <2>3. /\ ui' \in [Feeds -> {"on", "unmounting", "gone"}] /\ ui'[f] = "unmounting"
        /\ \A g \in Feeds : g # f => ui'[g] = ui[g]
    BY <2>1 DEF TerminalType
  <2>4. TerminalType'
    BY <1>2, <2>1, <2>2, <2>3 DEF TerminalType, FeedType
  <2>5. JoinInv(f)'
    BY <1>1, <1>2, <1>3, <2>1, <2>2, <2>3 DEF JoinInv
  <2>6. Sound(f)' => Sound(f) /\ (Inside(f)' <=> Inside(f))
    BY <1>3, <2>1, <2>2 DEF Sound, Inside
  <2>. QED BY <1>4, <1>5, <2>1, <2>2, <2>3, <2>4, <2>5, <2>6
<1>12. CASE Unmounted(f)
  <2>1. /\ ui' = [ui EXCEPT ![f] = "gone"] /\ feed' = feed
        /\ sock' = [sock EXCEPT ![f] = IF @ = "none" THEN @ ELSE "closed"]
    BY <1>12 DEF Unmounted
  <2>2. /\ ui' \in [Feeds -> {"on", "unmounting", "gone"}] /\ ui'[f] = "gone"
        /\ \A g \in Feeds : g # f => ui'[g] = ui[g]
    BY <2>1 DEF TerminalType
  <2>3. /\ sock' \in [Feeds -> {"none", "open", "closed", "eof"}]
        /\ sock'[f] = IF sock[f] = "none" THEN "none" ELSE "closed"
        /\ \A g \in Feeds : g # f => sock'[g] = sock[g]
    BY <2>1 DEF TerminalType
  <2>4. TerminalType'
    BY <1>2, <2>1, <2>2, <2>3 DEF TerminalType
  <2>5. JoinInv(f)'
    BY <1>1, <1>2, <1>3, <2>1, <2>2, <2>3 DEF JoinInv
  <2>6. ~Sound(f)'
    BY <2>3 DEF Sound
  <2>. QED BY <1>4, <1>5, <2>1, <2>2, <2>3, <2>4, <2>5, <2>6
<1>. QED BY <1>6, <1>7, <1>8, <1>9, <1>10, <1>11, <1>12

\* A piece is taken from the front of the wire of a connection in order.
LEMMA PieceTaken ==
    ASSUME TerminalType, NEW f \in Feeds, Sound(f), ExactInv(f), wire[f] # <<>>,
           wire'[f] = Tail(wire[f]), Cut(f)' = Cut(f), HalfSent(f)' <=> HalfSent(f),
           NextN(f)' = IF wire[f][1].last THEN NextN(f) + 1 ELSE NextN(f),
           Inside(f)' <=> ~wire[f][1].last,
           \A k \in DOMAIN applied'[f] : applied'[f][k] = log'[joined'[f] + k - 1]
    PROVE  ExactInv(f)'
<1>. DEFINE w == wire[f]  v == wire'[f]
<1>1. /\ w \in Seq(Pieces) /\ Len(w) \in Nat /\ DOMAIN w = 1..Len(w)
      /\ Len(w) # 0
      /\ \A i \in 1..Len(w) : w[i].e.n \in Nat /\ w[i].last \in BOOLEAN
  BY TerminalSeqs
<1>2. /\ v \in Seq(Pieces) /\ Len(v) = Len(w) - 1
      /\ \A i \in 1..Len(v) : v[i] = w[i + 1]
  BY <1>1, HeadTailProperties
<1>3. DOMAIN v = 1..Len(v) /\ (v = <<>> <=> Len(v) = 0)
  BY <1>2, LenProperties, EmptySeq
<1>4. /\ w[1].e.n = NextN(f)
      /\ w[Len(w)].last <=> ~HalfSent(f)
      /\ w[Len(w)].e.n = IF w[Len(w)].last THEN Cut(f) ELSE Cut(f) + 1
      /\ \A i, j \in DOMAIN w : j = i + 1 =>
            /\ w[j].last <=> ~w[i].last
            /\ w[j].e.n = IF w[i].last THEN w[i].e.n + 1 ELSE w[i].e.n
  BY DEF ExactInv
<1>5. /\ NextN(f)' = IF w[1].last THEN NextN(f) + 1 ELSE NextN(f)
      /\ Inside(f)' <=> ~w[1].last
  OBVIOUS
<1>. HIDE DEF w, v
<1>6. v = <<>> => NextN(f)' = Cut(f)' + 1 /\ (Inside(f)' <=> HalfSent(f)')
  BY <1>1, <1>2, <1>3, <1>4, <1>5
<1>7. ASSUME v # <<>>
      PROVE  /\ v[1].e.n = NextN(f)' /\ (v[1].last <=> Inside(f)')
             /\ LET z == v[Len(v)] IN
                /\ z.last <=> ~HalfSent(f)'
                /\ z.e.n = IF z.last THEN Cut(f)' ELSE Cut(f)' + 1
  <2>1. /\ v[1] = w[2] /\ 1 \in DOMAIN w /\ 2 \in DOMAIN w
        /\ v[Len(v)] = w[Len(w)]
    BY <1>1, <1>2, <1>3, <1>7
  <2>2. /\ w[2].last <=> ~w[1].last
        /\ w[2].e.n = IF w[1].last THEN w[1].e.n + 1 ELSE w[1].e.n
    BY <2>1, <1>4
  <2>. QED BY <2>1, <2>2, <1>4, <1>5
<1>8. ASSUME NEW i \in DOMAIN v, NEW j \in DOMAIN v, j = i + 1
      PROVE  /\ v[j].last <=> ~v[i].last
             /\ v[j].e.n = IF v[i].last THEN v[i].e.n + 1 ELSE v[i].e.n
  <2>1. /\ i + 1 \in DOMAIN w /\ v[i] = w[i + 1]
        /\ j + 1 \in DOMAIN w /\ v[j] = w[j + 1] /\ j + 1 = (i + 1) + 1
    BY <1>1, <1>2, <1>3, <1>8
  <2>. QED BY <2>1, <1>4
<1>. QED BY <1>6, <1>7, <1>8 DEF ExactInv, v

\* Reading a piece, applying a frame, and bytes taken for what they are not.
LEMMA ReadStepInv ==
    ASSUME ServerType, TerminalType, QueueInv, \A g \in Feeds : FeedInv(g),
           NEW f \in Feeds,
           ReadFirst(f) \/ Apply(f) \/ PushRefused(f) \/ ReadGarbage(f)
    PROVE  UNCHANGED serverVars /\ TerminalType' /\ \A g \in Feeds : FeedInv(g)'
<1>. DEFINE w == wire[f]
<1>1. FeedInv(f) /\ OrderInv(f) /\ JoinInv(f) /\ ExactInv(f)
  BY DEF FeedInv
<1>2. UNCHANGED <<serverVars, sock, ui>>
  BY DEF ReadFirst, Apply, PushRefused, ReadGarbage, serverVars
<1>3. /\ UNCHANGED <<push, conns, joined, log>> /\ (At(f)' <=> At(f))
      /\ Cut(f)' = Cut(f) /\ Cut(f) \in Nat /\ (HalfSent(f)' <=> HalfSent(f))
  BY <1>2, ServerFrame DEF serverVars
<1>4. /\ w \in Seq(Pieces) /\ Len(w) \in Nat /\ DOMAIN w = 1..Len(w)
      /\ (w = <<>> <=> Len(w) = 0) /\ applied[f] \in Seq(Envelopes)
      /\ Len(applied[f]) \in Nat /\ DOMAIN applied[f] = 1..Len(applied[f])
      /\ \A i \in 1..Len(w) : /\ w[i].e \in Envelopes /\ w[i].e.n \in Nat
                              /\ w[i].last \in BOOLEAN
  BY TerminalSeqs
<1>5. w # <<>>
  BY <1>1 DEF ReadFirst, Apply, PushRefused, ReadGarbage, Readable, OrderInv
<1>6. /\ Head(w) = w[1] /\ Tail(w) \in Seq(Pieces) /\ Len(Tail(w)) = Len(w) - 1
      /\ \A i \in 1..(Len(w) - 1) : Tail(w)[i] = w[i + 1]
  BY <1>4, <1>5, HeadTailProperties
<1>7. joined[f] # 0
  BY <1>1, <1>5 DEF JoinInv
<1>8. ASSUME NEW x \in {"inside", "reading"},
             feed[f].pc \in {"reading", "pushing"}, feed' = [feed EXCEPT ![f].pc = x]
      PROVE  /\ feed' \in FeedType /\ feed'[f].pc = x
             /\ feed'[f].torn = feed[f].torn
             /\ \A g \in Feeds : g # f => feed'[g] = feed[g]
             /\ JoinInv(f)'
  <2>1. /\ feed' \in FeedType /\ feed'[f].pc = x
        /\ feed'[f].torn = feed[f].torn
        /\ \A g \in Feeds : g # f => feed'[g] = feed[g]
    BY <1>8, PcMoves DEF Phases
  <2>. QED BY <1>1, <1>2, <1>3, <1>7, <2>1 DEF JoinInv
<1>9. ASSUME wire' = [wire EXCEPT ![f] = Tail(@)]
      PROVE  /\ wire' \in [Feeds -> Seq(Pieces)] /\ wire'[f] = Tail(w)
             /\ \A g \in Feeds : g # f => wire'[g] = wire[g]
  BY <1>6, <1>9 DEF TerminalType
<1>10. CASE ReadFirst(f)
  <2>1. /\ feed' = [feed EXCEPT ![f].pc = "inside"] /\ feed[f].pc = "reading"
        /\ wire' = [wire EXCEPT ![f] = Tail(@)] /\ ~Head(w).last
        /\ applied' = applied
    BY <1>10 DEF ReadFirst
  <2>2. /\ feed' \in FeedType /\ feed'[f].pc = "inside"
        /\ feed'[f].torn = feed[f].torn
        /\ \A g \in Feeds : g # f => feed'[g] = feed[g]
        /\ JoinInv(f)'
    BY <1>8, <2>1
  <2>3. /\ wire' \in [Feeds -> Seq(Pieces)] /\ wire'[f] = Tail(w)
        /\ \A g \in Feeds : g # f => wire'[g] = wire[g]
    BY <1>9, <2>1
  <2>4. TerminalType'
    BY <1>2, <2>1, <2>2, <2>3 DEF TerminalType, FeedType
  <2>5. Got(f)' = Got(f) /\ NextN(f)' = NextN(f)
    BY <1>3, <2>1 DEF Got, NextN
  <2>6. OrderInv(f)'
    <3>1. 1 \in 1..Len(w) /\ Len(wire'[f]) = Len(w) - 1 /\ feed'[f].pc # "pushing"
      BY <1>4, <1>5, <1>6, <2>2, <2>3
    <3>2. \A i \in 1..(Len(w) - 1) : wire'[f][i] = w[i + 1]
      BY <1>6, <2>3
    <3>. QED BY <1>1, <1>3, <2>4, <2>5, <3>1, <3>2, SuffixOrder
  <2>7. ExactInv(f)'
    <3>. SUFFICES ASSUME Sound(f)' PROVE ExactInv(f)'
      BY DEF ExactInv
    <3>1. Sound(f)
      BY <1>2, <1>3, <2>1, <2>2 DEF Sound
    <3>2. Inside(f)' /\ ~w[1].last
      BY <1>6, <2>1, <2>2 DEF Inside
    <3>3. \A k \in DOMAIN applied'[f] : applied'[f][k] = log'[joined'[f] + k - 1]
      BY <1>1, <1>3, <2>1, <3>1 DEF ExactInv
    <3>. QED BY <1>1, <1>3, <1>5, <2>3, <2>5, <3>1, <3>2, <3>3, PieceTaken
  <2>. QED BY <1>2, <2>1, <2>2, <2>3, <2>4, <2>6, <2>7, TerminalFrame DEF FeedInv
<1>11. CASE Apply(f)
  <2>1. /\ feed' = [feed EXCEPT ![f].pc = "reading"] /\ feed[f].pc = "pushing"
        /\ wire' = [wire EXCEPT ![f] = Tail(@)]
        /\ applied' = [applied EXCEPT ![f] = Append(@, Head(w).e)]
    BY <1>11 DEF Apply
  <2>2. /\ feed' \in FeedType /\ feed'[f].pc = "reading"
        /\ feed'[f].torn = feed[f].torn
        /\ \A g \in Feeds : g # f => feed'[g] = feed[g]
        /\ JoinInv(f)'
    BY <1>8, <2>1
  <2>3. /\ wire' \in [Feeds -> Seq(Pieces)] /\ wire'[f] = Tail(w)
        /\ \A g \in Feeds : g # f => wire'[g] = wire[g]
    BY <1>9, <2>1
  <2>4. w[1].last /\ w[1].e \in Envelopes /\ 1 \in DOMAIN w
    BY <1>1, <1>4, <1>5, <2>1 DEF OrderInv
  <2>5. /\ Append(applied[f], w[1].e) \in Seq(Envelopes)
        /\ Len(Append(applied[f], w[1].e)) = Len(applied[f]) + 1
        /\ Append(applied[f], w[1].e)[Len(applied[f]) + 1] = w[1].e
        /\ \A k \in 1..Len(applied[f]) : Append(applied[f], w[1].e)[k] = applied[f][k]
    BY <1>4, <2>4, AppendProperties
  <2>6. /\ applied'[f] = Append(applied[f], w[1].e)
        /\ applied' \in [Feeds -> Seq(Envelopes)]
        /\ \A g \in Feeds : g # f => applied'[g] = applied[g]
    BY <1>6, <2>1, <2>5 DEF TerminalType
  <2>7. TerminalType'
    BY <1>2, <2>2, <2>3, <2>6 DEF TerminalType, FeedType
  <2>8. /\ DOMAIN applied'[f] = 1..(Len(applied[f]) + 1) /\ applied'[f] # <<>>
        /\ Len(applied'[f]) = Len(applied[f]) + 1
    BY <1>4, <2>5, <2>6, LenProperties, EmptySeq
  <2>9. Got(f)' = w[1].e.n /\ NextN(f)' = NextN(f) + 1
    <3>1. Got(f)' = w[1].e.n
      BY <2>5, <2>6, <2>8 DEF Got, Last
    <3>2. joined[f] \in Nat
      BY DEF ServerType
    <3>. QED BY <1>3, <1>4, <2>8, <3>1, <3>2 DEF NextN
  <2>10. OrderInv(f)'
    <3>1. 1 \in 1..Len(w) /\ Len(wire'[f]) = Len(w) - 1 /\ feed'[f].pc # "pushing"
      BY <1>4, <1>5, <1>6, <2>2, <2>3
    <3>2. \A i \in 1..(Len(w) - 1) : wire'[f][i] = w[i + 1]
      BY <1>6, <2>3
    <3>. QED BY <1>1, <1>3, <2>4, <2>7, <2>9, <3>1, <3>2, SuffixOrder
  <2>11. ExactInv(f)'
    <3>. SUFFICES ASSUME Sound(f)' PROVE ExactInv(f)'
      BY DEF ExactInv
    <3>1. Sound(f)
      BY <1>2, <1>3, <2>1, <2>2 DEF Sound
    <3>2. ~Inside(f)'
      BY <2>2 DEF Inside
    <3>3. \A k \in DOMAIN applied'[f] : applied'[f][k] = log'[joined'[f] + k - 1]
      <4>1. w[1].e = log[NextN(f)]
        BY <1>1, <1>5, <2>4, <3>1 DEF OrderInv, ExactInv
      <4>2. NextN(f) = joined[f] + (Len(applied[f]) + 1) - 1 /\ joined[f] \in Nat
        BY <1>4 DEF NextN, ServerType
      <4>3. \A k \in 1..Len(applied[f]) : applied[f][k] = log[joined[f] + k - 1]
        BY <1>1, <1>4, <3>1 DEF ExactInv
      <4>4. ASSUME NEW k \in DOMAIN applied'[f]
            PROVE  applied'[f][k] = log[joined[f] + k - 1]
        <5>1. CASE k = Len(applied[f]) + 1
          BY <5>1, <2>5, <2>6, <4>1, <4>2
        <5>2. CASE k # Len(applied[f]) + 1
          <6>1. k \in 1..Len(applied[f])
            BY <5>2, <1>4, <2>8
          <6>. QED BY <6>1, <2>5, <2>6, <4>3
        <5>. QED BY <5>1, <5>2
      <4>. QED BY <1>3, <4>4
    <3>. QED BY <1>1, <1>3, <1>5, <2>3, <2>4, <2>9, <3>1, <3>2, <3>3, PieceTaken
  <2>. QED BY <1>2, <2>2, <2>3, <2>6, <2>7, <2>10, <2>11, TerminalFrame DEF FeedInv
<1>12. CASE PushRefused(f)
  <2>1. /\ feed' = [feed EXCEPT ![f].pc = "reading"] /\ feed[f].pc = "pushing"
        /\ wire' = [wire EXCEPT ![f] = Tail(@)] /\ ui[f] = "gone"
        /\ applied' = applied
    BY <1>12 DEF PushRefused
  <2>2. /\ feed' \in FeedType /\ feed'[f].pc = "reading"
        /\ \A g \in Feeds : g # f => feed'[g] = feed[g]
        /\ JoinInv(f)'
    BY <1>8, <2>1
  <2>3. /\ wire' \in [Feeds -> Seq(Pieces)] /\ wire'[f] = Tail(w)
        /\ \A g \in Feeds : g # f => wire'[g] = wire[g]
    BY <1>9, <2>1
  <2>4. TerminalType'
    BY <1>2, <2>1, <2>2, <2>3 DEF TerminalType, FeedType
  <2>5. Got(f)' = Got(f)
    BY <2>1 DEF Got
  <2>6. OrderInv(f)'
    <3>1. 1 \in 1..Len(w) /\ Len(wire'[f]) = Len(w) - 1 /\ feed'[f].pc # "pushing"
      BY <1>4, <1>5, <1>6, <2>2, <2>3
    <3>2. \A i \in 1..(Len(w) - 1) : wire'[f][i] = w[i + 1]
      BY <1>6, <2>3
    <3>. QED BY <1>1, <1>3, <2>4, <2>5, <3>1, <3>2, SuffixOrder
  <2>7. ~Sound(f)'
    BY <1>1, <1>2, <2>1 DEF JoinInv, Sound
  <2>. QED BY <1>2, <2>1, <2>2, <2>3, <2>4, <2>6, <2>7, TerminalFrame
       DEF FeedInv, ExactInv
<1>13. CASE ReadGarbage(f)
  <2>1. feed[f].pc = "reading" /\ w[1].last /\ applied' = applied
    BY <1>6, <1>13 DEF ReadGarbage
  <2>2. ~Sound(f)
    BY <1>1, <1>5, <2>1 DEF ExactInv, Inside
  <2>3. CASE feed' = [feed EXCEPT ![f].pc = "ended"] /\ wire' = wire
    <3>1. /\ feed' \in FeedType /\ feed'[f].pc = "ended"
          /\ \A g \in Feeds : g # f => feed'[g] = feed[g]
      BY <2>3, PcMoves DEF Phases
    <3>2. TerminalType'
      BY <1>2, <2>1, <2>3, <3>1 DEF TerminalType, FeedType
    <3>3. JoinInv(f)'
      BY <1>1, <1>2, <1>3, <1>7, <3>1 DEF JoinInv
    <3>4. ~Sound(f)'
      BY <3>1 DEF Sound
    <3>5. FeedInv(f)'
      BY <1>1, <1>2, <2>1, <2>3, <3>1, <3>3, <3>4, QuietFeed
    <3>. QED BY <1>2, <2>1, <2>3, <3>1, <3>2, <3>5, TerminalFrame
  <2>4. ASSUME NEW k \in 1..Len(w),
               wire' = [wire EXCEPT ![f] = SubSeq(@, k + 1, Len(@))], feed' = feed
        PROVE  TerminalType' /\ \A g \in Feeds : FeedInv(g)'
    <3>1. /\ SubSeq(w, k + 1, Len(w)) \in Seq(Pieces)
          /\ Len(SubSeq(w, k + 1, Len(w))) = Len(w) - k
          /\ \A i \in 1..(Len(w) - k) : SubSeq(w, k + 1, Len(w))[i] = w[i + k]
      BY <1>4, SubSeqProperties
    <3>2. /\ wire' \in [Feeds -> Seq(Pieces)] /\ wire'[f] = SubSeq(w, k + 1, Len(w))
          /\ \A g \in Feeds : g # f => wire'[g] = wire[g]
      BY <2>4, <3>1 DEF TerminalType
    <3>3. TerminalType'
      BY <1>2, <2>1, <2>4, <3>2 DEF TerminalType
    <3>4. JoinInv(f)'
      BY <1>1, <1>2, <1>3, <1>7, <2>4 DEF JoinInv
    <3>5. OrderInv(f)'
      <4>1. Got(f)' = Got(f) /\ feed'[f].pc # "pushing"
        BY <2>1, <2>4 DEF Got
      <4>2. /\ Len(wire'[f]) = Len(w) - k
            /\ \A i \in 1..(Len(w) - k) : wire'[f][i] = w[i + k]
        BY <3>1, <3>2
      <4>. QED BY <1>1, <1>3, <2>4, <3>3, <4>1, <4>2, SuffixOrder
    <3>6. ~Sound(f)'
      BY <1>2, <1>3, <2>2, <2>4 DEF Sound
    <3>. QED BY <1>2, <2>1, <2>4, <3>2, <3>3, <3>4, <3>5, <3>6, TerminalFrame
         DEF FeedInv, ExactInv
  <2>. QED BY <1>2, <1>13, <2>3, <2>4 DEF ReadGarbage
<1>. QED BY <1>10, <1>11, <1>12, <1>13

----------------------------------------------------------------------------
(* What the watcher publishes                                               *)

\* An envelope is about an item if its payload concerns it; a token is about
\* none.
LEMMA AboutFacts ==
    \A e, i : /\ About(e, i) <=> Concerns(e.payload, i)
              /\ e.payload \in Tokens => ~About(e, i)
BY Kinds DEF About, Concerns

\* The truth about the workspace outlives a step that leaves it, the watcher
\* and the log alone.
LEMMA TruthFrame ==
    ASSUME WatchType, TruthInv, UNCHANGED <<files, watch, log>>,
           server' # "gone" => server # "gone"
    PROVE  WatchType' /\ TruthInv'
<1>1. WatchType'
  BY DEF WatchType
<1>2. TruthInv'
  BY DEF TruthInv, LastAbout, Reported, About, Concerns, Tells
<1>. QED BY <1>1, <1>2

\* A change of the workspace, and the watcher's steps up to its envelopes.
LEMMA WatcherStepInv ==
    ASSUME WatchType, TruthInv,
           \/ \E i \in Items, v \in Contents \cup {Absent} \cup GitStates : Write(i, v)
           \/ WatcherStart \/ WatcherStop \/ ScanOnce
    PROVE  WatchType' /\ TruthInv' /\ UNCHANGED <<serverVars, netVars, terminalVars>>
<1>1. UNCHANGED <<serverVars, netVars, terminalVars>>
  BY DEF Write, WatcherStart, WatcherStop, ScanOnce
<1>2. UNCHANGED <<server, log>>
  BY <1>1 DEF serverVars
<1>3. \A i, k : LastAbout(k, i)' <=> LastAbout(k, i)
  BY <1>2 DEF LastAbout, About
<1>4. ASSUME WatchType', watch'.primed = watch.primed, watch'.prints = watch.prints,
             watch'.scan = watch.scan, watch'.todo = watch.todo
      PROVE  WatchType' /\ TruthInv'
  <2>1. TruthInv'
    BY <1>2, <1>3, <1>4 DEF TruthInv, Reported
  <2>. QED BY <1>4, <2>1
<1>5. ASSUME NEW i \in Items, NEW v, Write(i, v) PROVE WatchType' /\ TruthInv'
  <2>1. watch' = watch /\ files' \in Fingerprints
    BY <1>5 DEF Write
  <2>2. WatchType'
    BY <2>1 DEF WatchType
  <2>. QED BY <1>4, <2>1, <2>2
<1>6. CASE WatcherStart
  <2>1. watch' = [watch EXCEPT !.thread = "run"] /\ files' = files
    BY <1>6 DEF WatcherStart, workspaceVars
  <2>2. WatchType'
    BY <2>1 DEF WatchType
  <2>3. /\ watch'.primed = watch.primed /\ watch'.prints = watch.prints
        /\ watch'.scan = watch.scan /\ watch'.todo = watch.todo
    BY <2>1 DEF WatchType
  <2>. QED BY <1>1, <1>4, <2>2, <2>3
<1>7. CASE WatcherStop
  <2>1. watch' = [watch EXCEPT !.thread = "none"] /\ files' = files
    BY <1>7 DEF WatcherStop, workspaceVars
  <2>2. WatchType'
    BY <2>1 DEF WatchType
  <2>3. /\ watch'.primed = watch.primed /\ watch'.prints = watch.prints
        /\ watch'.scan = watch.scan /\ watch'.todo = watch.todo
    BY <2>1 DEF WatchType
  <2>. QED BY <1>1, <1>4, <2>2, <2>3
<1>8. CASE ScanOnce
  <2>1. files' = files /\ watch.todo = <<>> /\ server = "up"
    BY <1>8 DEF ScanOnce, workspaceVars
  <2>2. CASE watch' = [watch EXCEPT !.thread = "dead"]
    <3>1. WatchType'
      BY <2>1, <2>2 DEF WatchType
    <3>2. /\ watch'.primed = watch.primed /\ watch'.prints = watch.prints
          /\ watch'.scan = watch.scan /\ watch'.todo = watch.todo
      BY <2>2 DEF WatchType
    <3>. QED BY <1>1, <1>4, <3>1, <3>2
  <2>3. CASE /\ ~watch.primed
             /\ watch' = [watch EXCEPT !.primed = TRUE, !.prints = files]
    <3>1. WatchType'
      BY <2>1, <2>3 DEF WatchType
    <3>2. /\ watch'.primed /\ watch'.todo = <<>>
      BY <2>1, <2>3 DEF WatchType
    <3>3. \A i \in Items : \A k : ~LastAbout(k, i)
      BY <2>1, <2>3 DEF TruthInv, LastAbout
    <3>4. TruthInv'
      BY <1>3, <3>2, <3>3 DEF TruthInv
    <3>. QED BY <1>1, <3>1, <3>4
  <2>4. CASE /\ watch.primed
             /\ watch' = [watch EXCEPT
                   !.scan = files,
                   !.todo = file_changes(watch.prints, files)
                              \o git_change(watch.prints, files)]
    <3>. DEFINE t == file_changes(watch.prints, files)
                       \o git_change(watch.prints, files)
    <3>1. /\ t \in Seq(Changes)
          /\ \A m \in DOMAIN t, i \in Items : Concerns(t[m], i) => Tells(t[m], files[i])
          /\ \A i \in Items : watch.prints[i] # files[i] =>
                \E m \in DOMAIN t : Concerns(t[m], i)
      <4>1. watch.prints \in Fingerprints /\ files \in Fingerprints
        BY DEF WatchType
      <4>. QED BY <4>1, ScanFacts
    <3>2. watch' = [watch EXCEPT !.scan = files, !.todo = t]
      BY <2>4
    <3>. HIDE DEF t
    <3>3. WatchType'
      BY <2>1, <3>1, <3>2 DEF WatchType
    <3>4. /\ watch'.primed = watch.primed /\ watch'.prints = watch.prints
          /\ watch'.scan = files /\ watch'.todo = t
      BY <3>2 DEF WatchType
    <3>5. ASSUME NEW i \in Items, NEW k \in DOMAIN log, LastAbout(k, i),
                 ~\E m \in DOMAIN t : Concerns(t[m], i)
          PROVE  Tells(log[k].payload, Reported(i)')
      <4>1. watch.prints[i] = files[i]
        BY <3>1, <3>5
      <4>2. Reported(i)' = watch.prints[i]
        BY <3>4, <4>1 DEF Reported
      <4>3. Tells(log[k].payload, watch.prints[i])
        BY <2>1, <3>5 DEF TruthInv, Reported
      <4>. QED BY <4>2, <4>3
    <3>6. TruthInv'
      BY <1>2, <1>3, <2>4, <3>1, <3>4, <3>5 DEF TruthInv
    <3>. QED BY <1>1, <3>3, <3>6
  <2>. QED BY <1>8, <2>2, <2>3, <2>4 DEF ScanOnce
<1>. QED BY <1>1, <1>5, <1>6, <1>7, <1>8

\* The last envelope about an item after one more was published.
LEMMA LastAboutNext ==
    ASSUME ServerType, ServerType', NEW c, Len(log') = Len(log) + 1,
           log'[Len(log) + 1].payload = c,
           \A k \in DOMAIN log : k \in DOMAIN log' /\ log'[k] = log[k],
           NEW i, NEW k \in DOMAIN log', LastAbout(k, i)'
    PROVE  \/ k = Len(log) + 1 /\ Concerns(c, i)
           \/ k \in DOMAIN log /\ LastAbout(k, i) /\ ~Concerns(c, i)
<1>1. /\ Len(log) \in Nat /\ DOMAIN log = 1..Len(log)
      /\ DOMAIN log' = 1..(Len(log) + 1)
  BY LenProperties DEF ServerType
<1>2. /\ About(log'[k], i)
      /\ \A j \in DOMAIN log' : j > k => ~About(log'[j], i)
  BY DEF LastAbout, About
<1>3. CASE k = Len(log) + 1
  BY <1>2, <1>3, AboutFacts
<1>4. CASE k # Len(log) + 1
  <2>1. k \in DOMAIN log /\ Len(log) + 1 > k /\ Len(log) + 1 \in DOMAIN log'
    BY <1>1, <1>4
  <2>2. ~Concerns(c, i)
    BY <1>2, <2>1, AboutFacts
  <2>3. LastAbout(k, i)
    BY <1>2, <2>1 DEF LastAbout
  <2>. QED BY <2>1, <2>2, <2>3
<1>. QED BY <1>3, <1>4

\* daemon.publish, by a token stream or by the watcher.
LEMMA PublishStepInv ==
    ASSUME WatchType, ServerType, TerminalType, QueueInv, TruthInv,
           \A f \in Feeds : FeedInv(f), StreamToken \/ EmitChange
    PROVE  /\ WatchType' /\ ServerType' /\ TerminalType' /\ QueueInv' /\ TruthInv'
           /\ \A f \in Feeds : FeedInv(f)'
<1>1. /\ UNCHANGED <<server, push, conns, joined, netVars, terminalVars>>
      /\ files' = files /\ server = "up"
  BY DEF StreamToken, EmitChange, workspaceVars
<1>2. watch.todo \in Seq(Changes) /\ DOMAIN watch.todo = 1..Len(watch.todo)
      /\ Len(watch.todo) \in Nat
  BY LenProperties DEF WatchType
<1>3. watch.todo # <<>> =>
        /\ Head(watch.todo) \in Changes /\ Head(watch.todo) = watch.todo[1]
        /\ Tail(watch.todo) \in Seq(Changes)
        /\ Len(Tail(watch.todo)) = Len(watch.todo) - 1
        /\ \A m \in 1..(Len(watch.todo) - 1) : Tail(watch.todo)[m] = watch.todo[m + 1]
  BY <1>2, HeadTailProperties
<1>4. PICK c \in Tokens \cup Changes :
         /\ publish(c)
         /\ \/ c \in Tokens /\ watch' = watch
            \/ /\ watch.todo # <<>> /\ c = Head(watch.todo)
               /\ watch' = [watch EXCEPT
                     !.todo = Tail(@),
                     !.prints = IF Len(watch.todo) = 1 THEN watch.scan ELSE @]
  BY <1>3 DEF StreamToken, EmitChange
<1>5. /\ ServerType' /\ QueueInv'
      /\ Drained' = Drained /\ Pushed' = Pushed
      /\ Len(log') = Len(log) + 1 /\ log'[Len(log) + 1].payload = c
      /\ \A k \in DOMAIN log : k \in DOMAIN log' /\ log'[k] = log[k]
  BY <1>1, <1>4, PublishFacts
<1>6. TerminalType'
  BY <1>1 DEF TerminalType, netVars, terminalVars
<1>7. ASSUME NEW f \in Feeds PROVE FeedInv(f)'
  <2>1. Steady(f)
    BY <1>1, <1>5, QueueLengths DEF Steady, Cut, At, HalfSent, CutBounds
  <2>2. Untouched(f)
    BY <1>1, <1>5 DEF Untouched, netVars, terminalVars
  <2>. QED BY <1>5, <2>1, <2>2, FeedFrame
<1>8. /\ Len(log) \in Nat /\ DOMAIN log = 1..Len(log)
      /\ DOMAIN log' = 1..(Len(log) + 1)
  BY <1>5, LenProperties DEF ServerType
<1>9. \A i, k : k \in DOMAIN log' /\ LastAbout(k, i)' =>
         \/ k = Len(log) + 1 /\ Concerns(c, i)
         \/ k \in DOMAIN log /\ LastAbout(k, i) /\ ~Concerns(c, i)
  BY <1>5, LastAboutNext
<1>10. \A i, k : k \in DOMAIN log' /\ About(log'[k], i) =>
          \/ Concerns(c, i)
          \/ k \in DOMAIN log /\ About(log[k], i)
  BY <1>5, <1>8, AboutFacts
<1>11. CASE c \in Tokens /\ watch' = watch
  <2>1. WatchType'
    BY <1>1, <1>11 DEF WatchType
  <2>2. \A i : ~Concerns(c, i)
    BY <1>11, Kinds DEF Concerns
  <2>3. \A i \in Items : Reported(i)' = Reported(i)
    BY <1>11 DEF Reported
  <2>4. ~watch.primed => /\ watch.todo = <<>>
                         /\ \A k \in DOMAIN log', i \in Items : ~About(log'[k], i)
    BY <1>1, <1>10, <2>2 DEF TruthInv
  <2>5. \A i \in Items, k \in DOMAIN log' :
           LastAbout(k, i)' =>
              \/ \E m \in DOMAIN watch.todo : Concerns(watch.todo[m], i)
              \/ Tells(log'[k].payload, Reported(i)')
    BY <1>1, <1>5, <1>9, <2>2, <2>3 DEF TruthInv
  <2>6. TruthInv'
    BY <1>1, <1>11, <2>4, <2>5 DEF TruthInv, About
  <2>. QED BY <1>5, <1>6, <1>7, <2>1, <2>6
<1>12. CASE /\ watch.todo # <<>> /\ c = Head(watch.todo)
            /\ watch' = [watch EXCEPT
                  !.todo = Tail(@),
                  !.prints = IF Len(watch.todo) = 1 THEN watch.scan ELSE @]
  <2>. DEFINE t == Tail(watch.todo)
  <2>1. /\ watch'.primed = watch.primed /\ watch'.scan = watch.scan
        /\ watch'.todo = t
        /\ watch'.prints = IF Len(watch.todo) = 1 THEN watch.scan ELSE watch.prints
    BY <1>12 DEF WatchType
  <2>2. WatchType'
    BY <1>1, <1>3, <1>12 DEF WatchType
  <2>3. /\ t \in Seq(Changes) /\ Len(t) = Len(watch.todo) - 1
        /\ \A m \in 1..(Len(watch.todo) - 1) : t[m] = watch.todo[m + 1]
        /\ c = watch.todo[1]
    BY <1>3, <1>12
  <2>4. DOMAIN t = 1..(Len(watch.todo) - 1) /\ (t = <<>> <=> Len(watch.todo) = 1)
        /\ 1 \in DOMAIN watch.todo
    <3>1. DOMAIN t = 1..Len(t) /\ (t = <<>> <=> Len(t) = 0)
      BY <2>3, LenProperties, EmptySeq
    <3>2. Len(watch.todo) # 0
      BY <1>2, <1>12, EmptySeq
    <3>. QED BY <1>2, <2>3, <3>1, <3>2
  <2>. HIDE DEF t
  <2>5. watch.primed
    BY <1>1, <1>12 DEF TruthInv
  <2>6. \A i \in Items : Reported(i)' = watch.scan[i]
    BY <2>1, <2>4 DEF Reported
  <2>7. \A i \in Items : Reported(i) = watch.scan[i]
    BY <1>12 DEF Reported
  <2>8. \A m \in DOMAIN watch.todo, i \in Items :
           Concerns(watch.todo[m], i) => Tells(watch.todo[m], watch.scan[i])
    BY <1>1 DEF TruthInv
  <2>9. \A m \in DOMAIN t, i \in Items : Concerns(t[m], i) => Tells(t[m], watch.scan[i])
    <3>. TAKE m \in DOMAIN t, i \in Items
    <3>1. m + 1 \in DOMAIN watch.todo /\ t[m] = watch.todo[m + 1]
      BY <1>2, <2>3, <2>4
    <3>. QED BY <2>8, <3>1
  <2>10. ASSUME NEW i \in Items, NEW k \in DOMAIN log', LastAbout(k, i)',
                ~\E m \in DOMAIN t : Concerns(t[m], i)
         PROVE  Tells(log'[k].payload, watch.scan[i])
    <3>1. CASE k = Len(log) + 1 /\ Concerns(c, i)
      <4>1. Tells(c, watch.scan[i])
        BY <3>1, <2>3, <2>4, <2>8
      <4>. QED BY <3>1, <4>1, <1>5
    <3>2. CASE k \in DOMAIN log /\ LastAbout(k, i) /\ ~Concerns(c, i)
      <4>1. ASSUME NEW m \in DOMAIN watch.todo PROVE ~Concerns(watch.todo[m], i)
        <5>1. CASE m = 1
          BY <5>1, <3>2, <2>3
        <5>2. CASE m # 1
          <6>1. m - 1 \in DOMAIN t /\ t[m - 1] = watch.todo[m]
            BY <5>2, <1>2, <2>3, <2>4
          <6>. QED BY <6>1, <2>10
        <5>. QED BY <5>1, <5>2
      <4>2. Tells(log[k].payload, watch.scan[i])
        BY <1>1, <2>7, <3>2, <4>1 DEF TruthInv
      <4>. QED BY <4>2, <3>2, <1>5
    <3>. QED BY <1>9, <2>10, <3>1, <3>2
  <2>11. TruthInv'
    BY <2>1, <2>5, <2>6, <2>9, <2>10 DEF TruthInv
  <2>. QED BY <1>5, <1>6, <1>7, <2>2, <2>11
<1>. QED BY <1>4, <1>11, <1>12

----------------------------------------------------------------------------
(* All of it                                                                *)

\* The invariant holds at the start.
LEMMA StreamInit == Init => StreamInv
<1>. SUFFICES ASSUME Init PROVE StreamInv
  OBVIOUS
<1>1. files \in Fingerprints
  BY StreamAssumption DEF Init, Fingerprints, Items, GitStates
<1>2. WatchType
  <2>1. PICK t \in {"none", "absent"} :
           watch = [thread |-> t, primed |-> FALSE, prints |-> files,
                    scan |-> files, todo |-> <<>>]
    BY DEF Init
  <2>2. <<>> \in Seq(Changes)
    OBVIOUS
  <2>. QED BY <1>1, <2>1, <2>2 DEF WatchType
<1>3. ServerType
  BY DEF Init, ServerType
<1>4. TerminalType
  BY DEF Init, TerminalType, Phases
<1>5. QueueInv
  BY DEF Init, QueueInv, Drained, Pushed
<1>6. TruthInv
  BY DEF Init, TruthInv
<1>7. ASSUME NEW f \in Feeds PROVE FeedInv(f)
  <2>1. Cut(f) = 0 /\ Got(f) = 0 /\ ~At(f)
    <3>1. /\ log = <<>> /\ broadcast = <<>> /\ push.batch = <<>> /\ push.left = <<>>
          /\ ~push.copied /\ applied[f] = <<>>
      BY DEF Init
    <3>2. Len(log) = 0 /\ Len(broadcast) = 0 /\ Len(push.batch) = 0
      BY <3>1
    <3>3. Pushed = 0
      BY <3>2 DEF Drained, Pushed
    <3>. QED BY <3>1, <3>3 DEF Cut, At, Got
  <2>. QED BY <2>1 DEF Init, FeedInv, OrderInv, JoinInv, ExactInv, Sound
<1>. QED BY <1>2, <1>3, <1>4, <1>5, <1>6, <1>7 DEF StreamInv

\* Every step preserves the invariant.
LEMMA StreamStep == StreamInv /\ [Next]_vars => StreamInv'
<1>. SUFFICES ASSUME StreamInv, [Next]_vars PROVE StreamInv'
  OBVIOUS
<1>1. /\ WatchType /\ ServerType /\ TerminalType /\ QueueInv /\ TruthInv
      /\ \A f \in Feeds : FeedInv(f)
  BY DEF StreamInv
<1>2. ASSUME UNCHANGED serverVars, UNCHANGED <<netVars, terminalVars>>
      PROVE  /\ ServerType' /\ TerminalType' /\ QueueInv'
             /\ \A f \in Feeds : FeedInv(f)'
  <2>1. ServerType' /\ QueueInv' /\ \A f \in Feeds : Steady(f)
    BY <1>1, <1>2, ServerFrame
  <2>2. TerminalType'
    BY <1>1, <1>2 DEF TerminalType, netVars, terminalVars
  <2>3. ASSUME NEW f \in Feeds PROVE FeedInv(f)'
    <3>1. Untouched(f)
      BY <1>2 DEF Untouched, netVars, terminalVars, serverVars
    <3>. QED BY <1>1, <2>1, <3>1, FeedFrame
  <2>. QED BY <2>1, <2>2, <2>3
<1>3. CASE \/ \E i \in Items, v \in Contents \cup {Absent} \cup GitStates : Write(i, v)
           \/ WatcherStart \/ WatcherStop \/ ScanOnce
  <2>1. WatchType' /\ TruthInv' /\ UNCHANGED <<serverVars, netVars, terminalVars>>
    BY <1>1, <1>3, WatcherStepInv
  <2>. QED BY <1>2, <2>1 DEF StreamInv
<1>4. CASE StreamToken \/ EmitChange
  BY <1>1, <1>4, PublishStepInv DEF StreamInv
<1>5. CASE ServerStart \/ PushLoop \/ \E f \in Feeds : PeerClosed(f)
  <2>1. /\ ServerType' /\ TerminalType' /\ QueueInv'
        /\ \A f \in Feeds : FeedInv(f)'
    BY <1>1, <1>5, ServerStepInv
  <2>2. UNCHANGED <<files, watch, log>> /\ (server' # "gone" => server # "gone")
    BY <1>5 DEF ServerStart, PushLoop, PushDrain, PushCopy, PushNext, PushSend,
                PeerClosed, workspaceVars
  <2>3. WatchType' /\ TruthInv'
    BY <1>1, <2>2, TruthFrame
  <2>. QED BY <2>1, <2>3 DEF StreamInv
<1>6. CASE ServerEnd
  <2>1. /\ ServerType' /\ TerminalType' /\ QueueInv'
        /\ \A f \in Feeds : FeedInv(f)'
    BY <1>1, <1>6, ServerStepInv
  <2>2. /\ watch' = [watch EXCEPT !.thread = "none", !.todo = <<>>]
        /\ files' = files /\ server' = "gone"
    BY <1>6 DEF ServerEnd, workspaceVars
  <2>3. WatchType'
    <3>1. <<>> \in Seq(Changes)
      OBVIOUS
    <3>. QED BY <1>1, <2>2, <3>1 DEF WatchType
  <2>4. TruthInv'
    BY <2>2 DEF TruthInv
  <2>. QED BY <2>1, <2>3, <2>4 DEF StreamInv
<1>7. ASSUME NEW f \in Feeds, HandleConn(f) PROVE StreamInv'
  <2>1. /\ ServerType' /\ TerminalType' /\ QueueInv'
        /\ \A g \in Feeds : FeedInv(g)'
    BY <1>1, <1>7, HandleConnInv
  <2>2. UNCHANGED <<files, watch, log, server>>
    BY <1>7 DEF HandleConn, workspaceVars
  <2>3. WatchType' /\ TruthInv'
    BY <1>1, <2>2, TruthFrame
  <2>. QED BY <2>1, <2>3 DEF StreamInv
<1>8. ASSUME NEW f \in Feeds,
             FeedStart(f) \/ Reader(f) \/ Apply(f) \/ Unmount(f) \/ Unmounted(f)
      PROVE  StreamInv'
  <2>1. UNCHANGED serverVars /\ TerminalType' /\ \A g \in Feeds : FeedInv(g)'
    <3>1. CASE \/ FeedStart(f) \/ Connect(f) \/ ReadRest(f) \/ ReadTimeout(f)
               \/ FeedEnd(f) \/ Unmount(f) \/ Unmounted(f)
      BY <1>1, <3>1, QuietStepInv
    <3>2. CASE ReadFirst(f) \/ Apply(f) \/ PushRefused(f) \/ ReadGarbage(f)
      BY <1>1, <3>2, ReadStepInv
    <3>. QED BY <1>8, <3>1, <3>2 DEF Reader
  <2>2. ServerType' /\ QueueInv'
    BY <1>1, <2>1, ServerFrame
  <2>3. UNCHANGED <<files, watch>>
    BY <1>8 DEF FeedStart, Reader, Connect, ReadFirst, ReadRest, PushRefused,
                ReadTimeout, ReadGarbage, FeedEnd, Apply, Unmount, Unmounted,
                workspaceVars
  <2>4. WatchType' /\ TruthInv'
    BY <1>1, <2>1, <2>3, TruthFrame DEF serverVars
  <2>. QED BY <2>1, <2>2, <2>4 DEF StreamInv
<1>9. CASE UNCHANGED vars
  <2>1. UNCHANGED serverVars /\ UNCHANGED <<netVars, terminalVars>>
        /\ UNCHANGED <<files, watch, log, server>>
    BY <1>9 DEF vars, serverVars, workspaceVars
  <2>2. WatchType' /\ TruthInv'
    BY <1>1, <2>1, TruthFrame
  <2>. QED BY <1>2, <2>1, <2>2 DEF StreamInv
<1>. QED BY <1>3, <1>4, <1>5, <1>6, <1>7, <1>8, <1>9 DEF Next, Publisher

\* The invariant holds in every reachable state.
LEMMA StreamAlways == Spec => []StreamInv
BY StreamInit, StreamStep, PTL DEF Spec

----------------------------------------------------------------------------
\* When nothing is under way to a terminal, everything published since it
\* joined is applied, in order.
LEMMA SettledExact ==
    ASSUME StreamInv, NEW f \in Feeds, Settled(f)
    PROVE  /\ joined[f] \in Nat /\ joined[f] > 0 /\ joined[f] <= Len(log) + 1
           /\ Len(log) \in Nat /\ DOMAIN log = 1..Len(log)
           /\ DOMAIN applied[f] = 1..(Len(log) - joined[f] + 1)
           /\ \A k \in DOMAIN applied[f] : applied[f][k] = log[joined[f] + k - 1]
           /\ applied[f] = SubSeq(log, joined[f], Len(log))
<1>1. /\ WatchType /\ ServerType /\ TerminalType /\ QueueInv /\ FeedInv(f)
      /\ Lengths
  BY QueueLengths DEF StreamInv
<1>2. Sound(f) /\ wire[f] = <<>> /\ push.batch = <<>> /\ broadcast = <<>>
  BY DEF Settled, Sound
<1>3. joined[f] \in Nat /\ joined[f] > 0
  BY <1>1, <1>2, AppliedInLog
<1>4. Len(broadcast) = 0 /\ Drained = Len(log) /\ Len(push.left) = 0
      /\ push.left = <<>> /\ Pushed = Len(log)
  BY <1>1, <1>2 DEF Lengths
<1>5. Cut(f) = Len(log)
  BY <1>4 DEF Cut, At
<1>6. joined[f] + Len(applied[f]) = Len(log) + 1
  BY <1>1, <1>2, <1>5 DEF FeedInv, ExactInv, NextN
<1>7. /\ Len(applied[f]) \in Nat /\ DOMAIN applied[f] = 1..Len(applied[f])
      /\ applied[f] \in Seq(Envelopes)
  BY <1>1, TerminalSeqs
<1>8. Len(log) \in Nat /\ DOMAIN log = 1..Len(log) /\ log \in Seq(Envelopes)
  BY <1>1 DEF Lengths, ServerType
<1>9. Len(applied[f]) = Len(log) - joined[f] + 1
  BY <1>3, <1>6, <1>7, <1>8
<1>10. \A k \in DOMAIN applied[f] : applied[f][k] = log[joined[f] + k - 1]
  BY <1>1, <1>2 DEF FeedInv, ExactInv
<1>11. applied[f] = SubSeq(log, joined[f], Len(log))
  <2>. DEFINE q == SubSeq(log, joined[f], Len(log))
  <2>1. /\ q \in Seq(Envelopes)
        /\ Len(q) = Len(log) - joined[f] + 1
        /\ \A k \in 1..(Len(log) - joined[f] + 1) : q[k] = log[joined[f] + k - 1]
    BY <1>3, <1>6, <1>7, <1>8, SubSeqProperties
  <2>. HIDE DEF q
  <2>2. Len(q) = Len(applied[f])
    BY <2>1, <1>9
  <2>3. \A k \in 1..Len(q) : q[k] = applied[f][k]
    BY <2>1, <2>2, <1>7, <1>9, <1>10
  <2>. QED BY <2>1, <2>2, <2>3, <1>7, SeqEqual DEF q
<1>. QED BY <1>3, <1>6, <1>7, <1>8, <1>9, <1>10, <1>11

\* A non-empty set of naturals has a least element.
LEMMA LeastExists ==
    ASSUME NEW T \in SUBSET Nat, T # {} PROVE \E t \in T : \A y \in T : t <= y
<1>. DEFINE R == {ss \in Nat \X Nat : ss[1] < ss[2]}
<1>1. IsWellFoundedOn(R, Nat)
  BY NatLessThanWellFounded DEF OpToRel
<1>2. PICK t \in T : \A y \in T : ~ (<<y, t>> \in R)
  <2>. HIDE DEF R
  <2>. QED BY <1>1, WFMin
<1>3. ASSUME NEW y \in T PROVE t <= y
  <2>1. <<y, t>> \in Nat \X Nat /\ <<y, t>>[1] = y /\ <<y, t>>[2] = t
    OBVIOUS
  <2>2. ~(y < t)
    BY <1>2, <2>1
  <2>. QED BY <2>2
<1>. QED BY <1>3

\* Max of a set of indices is its largest element.
LEMMA MaxFacts ==
    ASSUME NEW n \in Nat, NEW S \in SUBSET (1..n), S # {}
    PROVE  Max(S) \in S /\ \A y \in S : y <= Max(S)
<1>. DEFINE T == {u \in Nat : \A y \in S : y <= u}
<1>1. T \in SUBSET Nat /\ n \in T
  OBVIOUS
<1>2. PICK u \in T : \A y \in T : u <= y
  BY <1>1, LeastExists
<1>3. u \in S
  <2>. SUFFICES ASSUME u \notin S PROVE FALSE
    OBVIOUS
  <2>1. PICK y \in S : TRUE
    OBVIOUS
  <2>2. u \in Nat /\ u >= 1 /\ \A z \in S : z < u
    BY <2>1, <1>2
  <2>3. u - 1 \in T
    BY <2>2
  <2>. QED BY <1>2, <2>2, <2>3
<1>4. u \in S /\ \A y \in S : u >= y
  BY <1>2, <1>3
<1>5. Max(S) \in S /\ \A y \in S : Max(S) >= y
  BY <1>4 DEF Max
<1>. QED BY <1>5

\* What a settled panel shows of an item is what the watcher last published
\* of it.
LEMMA PanelIsLast ==
    ASSUME StreamInv, NEW f \in Feeds, Settled(f), NEW i \in Items, Told(f, i) # {}
    PROVE  Concerns(Panel(f, i), i) /\ Tells(Panel(f, i), watch.prints[i])
<1>. DEFINE S == Told(f, i)
            m == Max(S)
            j == joined[f] + m - 1
<1>1. /\ joined[f] \in Nat /\ joined[f] > 0 /\ joined[f] <= Len(log) + 1
      /\ Len(log) \in Nat /\ DOMAIN log = 1..Len(log)
      /\ DOMAIN applied[f] = 1..(Len(log) - joined[f] + 1)
      /\ \A k \in DOMAIN applied[f] : applied[f][k] = log[joined[f] + k - 1]
  BY SettledExact
<1>2. S \in SUBSET (1..(Len(log) - joined[f] + 1)) /\ Len(log) - joined[f] + 1 \in Nat
  BY <1>1 DEF Told
<1>3. m \in S /\ \A k \in S : k <= m
  BY <1>2, MaxFacts
<1>4. m \in DOMAIN applied[f] /\ About(applied[f][m], i) /\ applied[f][m] = log[j]
  BY <1>1, <1>3 DEF Told
<1>. HIDE DEF S, m
<1>5. m \in 1..(Len(log) - joined[f] + 1) /\ j \in DOMAIN log
  BY <1>1, <1>4
<1>6. ASSUME NEW k \in DOMAIN log, k > j PROVE ~About(log[k], i)
  <2>. DEFINE d == k - joined[f] + 1
  <2>1. d \in DOMAIN applied[f] /\ d > m /\ joined[f] + d - 1 = k
    BY <1>1, <1>5, <1>6
  <2>2. d \notin S
    BY <1>1, <1>3, <1>5, <2>1 DEF S, Told
  <2>3. applied[f][d] = log[k]
    BY <1>1, <2>1
  <2>. QED BY <2>1, <2>2, <2>3 DEF S, Told
<1>7. LastAbout(j, i)
  BY <1>4, <1>5, <1>6 DEF LastAbout
<1>8. server = "up" /\ watch.todo = <<>>
  BY DEF StreamInv, QueueInv, Settled
<1>9. Tells(log[j].payload, watch.prints[i])
  BY <1>5, <1>7, <1>8 DEF StreamInv, TruthInv, Reported
<1>10. Panel(f, i) = log[j].payload
  BY <1>4 DEF Panel, m, S
<1>11. Concerns(log[j].payload, i)
  BY <1>4, AboutFacts
<1>. QED BY <1>9, <1>10, <1>11

\* Whenever the path to a terminal is empty it has applied all that was
\* published since it joined, and its panels show what the watcher last saw.
THEOREM PanelsTellTheTruth == Spec => []PanelTruth
<1>1. StreamInv => PanelTruth
  <2>. SUFFICES ASSUME StreamInv, NEW f \in Feeds, Settled(f)
       PROVE  /\ applied[f] = SubSeq(log, joined[f], Len(log))
              /\ \A p \in Paths : Told(f, p) # {} =>
                    (Panel(f, p).change = "deleted" <=> watch.prints[p] = Absent)
              /\ Told(f, Git) # {} => Panel(f, Git).git = watch.prints[Git]
    BY DEF PanelTruth
  <2>1. applied[f] = SubSeq(log, joined[f], Len(log))
    BY SettledExact
  <2>2. ASSUME NEW p \in Paths, Told(f, p) # {}
        PROVE  Panel(f, p).change = "deleted" <=> watch.prints[p] = Absent
    <3>1. p \in Items /\ p # Git
      BY StreamAssumption DEF Items
    <3>2. Concerns(Panel(f, p), p) /\ Tells(Panel(f, p), watch.prints[p])
      BY <2>2, <3>1, PanelIsLast
    <3>. QED BY <3>1, <3>2 DEF Concerns, Tells
  <2>3. ASSUME Told(f, Git) # {} PROVE Panel(f, Git).git = watch.prints[Git]
    <3>1. Git \in Items /\ Git \notin Paths
      BY StreamAssumption DEF Items
    <3>2. Concerns(Panel(f, Git), Git) /\ Tells(Panel(f, Git), watch.prints[Git])
      BY <2>3, <3>1, PanelIsLast
    <3>3. Panel(f, Git) \in GitUpdates
      BY <3>1, <3>2 DEF Concerns, FileChanges
    <3>. QED BY <3>2, <3>3 DEF Tells
  <2>. QED BY <2>1, <2>2, <2>3
<1>. QED BY <1>1, StreamAlways, PTL

\* The stream implements the lossy channel: publishing is its Emit, applying
\* an envelope its Deliver, and every other step changes neither end.
THEOREM StreamImplementsFifo == Spec => StreamInOrder
<1>. DEFINE Sent == [s \in {"daemon"} |-> Len(log)]
            Last_n == [f \in Feeds |-> [s \in {"daemon"} |-> Got(f)]]
<1>1. Last_n = [f \in Feeds |-> [s \in {"daemon"} |->
                  IF applied[f] = <<>> THEN 0 ELSE Last(applied[f]).n]]
  BY DEF Got
<1>2. Init => Channel!Init
  <2>. SUFFICES ASSUME Init PROVE Channel!Init
    OBVIOUS
  <2>1. Len(log) = 0 /\ \A f \in Feeds : applied[f] = <<>>
    BY DEF Init
  <2>. QED BY <2>1 DEF Channel!Init
<1>3. StreamInv /\ [Next]_vars =>
        [Channel!Next]_<<[s \in {"daemon"} |-> Len(log)],
                         [f \in Feeds |-> [s \in {"daemon"} |->
                            IF applied[f] = <<>> THEN 0 ELSE Last(applied[f]).n]]>>
  <2>. SUFFICES ASSUME StreamInv, [Next]_vars
       PROVE  Channel!Next \/ (Sent' = Sent /\ Last_n' = Last_n)
    BY <1>1 DEF Got
  <2>1. /\ WatchType /\ ServerType /\ TerminalType /\ QueueInv
        /\ \A f \in Feeds : FeedInv(f)
    BY DEF StreamInv
  <2>2. CASE StreamToken \/ EmitChange
    <3>1. PICK c : publish(c)
      BY <2>2 DEF StreamToken, EmitChange
    <3>2. applied' = applied
      BY <2>2 DEF StreamToken, EmitChange, terminalVars
    <3>3. Len(log') = Len(log) + 1
      BY <2>1, <3>1 DEF publish, ServerType
    <3>4. Sent' = [Sent EXCEPT !["daemon"] = @ + 1]
      BY <3>3
    <3>5. Channel!Emit("daemon")
      BY <3>2, <3>4 DEF Channel!Emit
    <3>. QED BY <3>5 DEF Channel!Next
  <2>3. ASSUME NEW f \in Feeds, Apply(f) PROVE Channel!Next
    <3>. DEFINE w == wire[f]
                k == w[1].e.n
    <3>1. /\ w # <<>> /\ w[1].last /\ FeedInv(f)
          /\ applied' = [applied EXCEPT ![f] = Append(@, Head(w).e)]
          /\ log' = log
      BY <2>1, <2>3 DEF Apply, FeedInv, OrderInv, serverVars
    <3>2. /\ Head(w) = w[1] /\ w[1].e \in Envelopes /\ 1 \in DOMAIN w
          /\ applied[f] \in Seq(Envelopes) /\ Len(applied[f]) \in Nat
          /\ Got(f) \in Nat /\ k \in Nat
      BY <2>1, <3>1, TerminalSeqs, HeadTailProperties
    <3>3. Got(f) < k /\ k \in DOMAIN log
      BY <3>1, <3>2 DEF FeedInv, OrderInv
    <3>4. Len(log) \in Nat /\ DOMAIN log = 1..Len(log)
      BY <2>1, QueueLengths DEF Lengths
    <3>5. k \in Got(f) + 1 .. Len(log)
      BY <3>2, <3>3, <3>4
    <3>6. /\ applied'[f] = Append(applied[f], w[1].e)
          /\ \A g \in Feeds : g # f => applied'[g] = applied[g]
      BY <2>1, <3>1, <3>2 DEF TerminalType
    <3>7. applied'[f] # <<>> /\ Last(applied'[f]) = w[1].e
      <4>1. /\ Append(applied[f], w[1].e) \in Seq(Envelopes)
            /\ Len(Append(applied[f], w[1].e)) = Len(applied[f]) + 1
            /\ Append(applied[f], w[1].e)[Len(applied[f]) + 1] = w[1].e
        BY <3>2, AppendProperties
      <4>. QED BY <3>2, <3>6, <4>1, EmptySeq DEF Last
    <3>8. Got(f)' = k /\ \A g \in Feeds : g # f => Got(g)' = Got(g)
      BY <3>6, <3>7 DEF Got
    <3>. HIDE DEF w, k
    <3>9. Last_n' = [Last_n EXCEPT ![f]["daemon"] = k]
      BY <3>8
    <3>10. Last_n[f]["daemon"] = Got(f) /\ Sent["daemon"] = Len(log) /\ Sent' = Sent
      BY <3>1
    <3>11. k \in Last_n[f]["daemon"] + 1 .. Sent["daemon"]
      BY <3>5, <3>10
    <3>. HIDE DEF Last_n, Sent
    <3>12. Channel!Deliver(f, "daemon")
      BY <3>9, <3>10, <3>11 DEF Channel!Deliver, Got, Last_n, Sent
    <3>. QED BY <3>12 DEF Channel!Next
  <2>4. ASSUME log' = log, applied' = applied PROVE Sent' = Sent /\ Last_n' = Last_n
    BY <2>4 DEF Got
  <2>5. CASE \/ \E i \in Items, v \in Contents \cup {Absent} \cup GitStates : Write(i, v)
             \/ WatcherStart \/ WatcherStop \/ ScanOnce
    BY <2>4, <2>5 DEF Write, WatcherStart, WatcherStop, ScanOnce, serverVars, terminalVars
  <2>6. CASE ServerStart \/ ServerEnd \/ PushLoop
    BY <2>4, <2>6 DEF ServerStart, ServerEnd, PushLoop, PushDrain, PushCopy, PushNext,
                      PushSend, terminalVars
  <2>7. ASSUME NEW f \in Feeds,
               \/ HandleConn(f) \/ PeerClosed(f) \/ FeedStart(f) \/ Reader(f)
               \/ Unmount(f) \/ Unmounted(f)
        PROVE  Sent' = Sent /\ Last_n' = Last_n
    BY <2>4, <2>7 DEF HandleConn, PeerClosed, FeedStart, Reader, Connect, ReadFirst,
                      ReadRest, PushRefused, ReadTimeout, ReadGarbage, FeedEnd,
                      Unmount, Unmounted, serverVars, terminalVars
  <2>8. CASE UNCHANGED vars
    BY <2>4, <2>8 DEF vars, serverVars, terminalVars
  <2>. QED BY <2>2, <2>3, <2>5, <2>6, <2>7, <2>8 DEF Next, Publisher
<1>. QED BY <1>2, <1>3, StreamAlways, PTL DEF Spec, StreamInOrder, Channel!Spec

----------------------------------------------------------------------------
(* Display: a specification of its own for the objects that hold what       *)
(* arrives, for any interval, batch, screen, entry and file sizes.          *)

----------------------------------------------------------------------------
(* The throttle                                                             *)

Batches == [items : Seq(Nat), at : Nat, by : {"due", "full", "asked"}, raised : BOOLEAN]

ThrottleType ==
    /\ now \in Nat /\ pushed \in Nat /\ refused \subseteq Nat
    /\ throttle \in [buffer : Seq(Nat), last : Nat]
    /\ handed \in Seq(Batches)

\* An envelope is refused only after a full buffer, which then is empty, so a
\* buffer that holds something ends with the latest push.
ThrottleInv ==
    /\ ThrottleType
    /\ BatchesKept /\ refused \subseteq 1..pushed
    /\ Len(throttle.buffer) <= MaxBatch
    /\ throttle.buffer # <<>> => throttle.buffer[Len(throttle.buffer)] = pushed
    /\ handed # <<>> => handed[Len(handed)].at = throttle.last

\* The five things a call can do to the stages: add the next envelope to the
\* buffer, hand the buffer on, hand it on with the next envelope, hand it on
\* and start a new one with it, and hand it on and lose it.
Adds == /\ throttle'.buffer = Append(throttle.buffer, pushed + 1) /\ handed' = handed
        /\ pushed' = pushed + 1 /\ refused' = refused
Hands(batch, rest) ==
    \E r \in Batches : /\ r.items = batch /\ handed' = Append(handed, r)
                       /\ throttle'.buffer = rest
Moves ==
    \/ Adds
    \/ Hands(throttle.buffer, <<>>) /\ pushed' = pushed /\ refused' = refused
    \/ /\ Hands(Append(throttle.buffer, pushed + 1), <<>>)
       /\ pushed' = pushed + 1 /\ refused' = refused
    \/ /\ Hands(throttle.buffer, <<pushed + 1>>)
       /\ pushed' = pushed + 1 /\ refused' = refused
    \/ /\ Hands(throttle.buffer, <<>>)
       /\ pushed' = pushed + 1 /\ refused' = refused \cup {pushed + 1}

\* What has a place among the stages.
Placed(x) == \E b \in Stages : \E i \in DOMAIN Stage(b) : Stage(b)[i] = x

\* The union of BatchesKept is what has a place.
LEMMA PlacedFacts == \A x : Placed(x) <=> x \in UNION {ToSet(Stage(b)) : b \in Stages}
BY DEF Placed, ToSet

\* The same in the next state.
LEMMA PlacedFactsNext == \A x : Placed(x)' <=> x \in (UNION {ToSet(Stage(b)) : b \in Stages})'
BY DEF Placed, ToSet

\* A place keeps its envelope, and what is new comes last: the stages are one
\* list that only grows at its end.
LEMMA StagesGrow ==
    ASSUME ThrottleType, refused \subseteq 1..pushed, Moves
    PROVE  /\ \A b \in Stages : \A i \in DOMAIN Stage(b) :
                 b \in Stages' /\ i \in DOMAIN Stage(b)' /\ Stage(b)'[i] = Stage(b)[i]
           /\ \A b \in Stages' : \A i \in DOMAIN Stage(b)' :
                 \/ b \in Stages /\ i \in DOMAIN Stage(b) /\ Stage(b)'[i] = Stage(b)[i]
                 \/ /\ Stage(b)'[i] = pushed + 1 /\ pushed' = pushed + 1 /\ refused' = refused
                    /\ \A c \in Stages' : \A j \in DOMAIN Stage(c)' : c < b \/ (c = b /\ j <= i)
           /\ pushed' = pushed + 1 /\ refused' = refused =>
                 \E b \in Stages' : \E i \in DOMAIN Stage(b)' : Stage(b)'[i] = pushed + 1
<1>. SUFFICES ASSUME NEW CONSTANT n, n = Len(handed),
                     NEW CONSTANT q, q = throttle.buffer,
                     NEW CONSTANT e, e = pushed + 1
              PROVE  /\ \A b \in Stages : \A i \in DOMAIN Stage(b) :
                           b \in Stages' /\ i \in DOMAIN Stage(b)' /\ Stage(b)'[i] = Stage(b)[i]
                     /\ \A b \in Stages' : \A i \in DOMAIN Stage(b)' :
                           \/ b \in Stages /\ i \in DOMAIN Stage(b) /\ Stage(b)'[i] = Stage(b)[i]
                           \/ /\ Stage(b)'[i] = e /\ pushed' = e /\ refused' = refused
                              /\ \A c \in Stages' : \A j \in DOMAIN Stage(c)' :
                                    c < b \/ (c = b /\ j <= i)
                     /\ pushed' = e /\ refused' = refused =>
                           \E b \in Stages' : \E i \in DOMAIN Stage(b)' : Stage(b)'[i] = e
  OBVIOUS
<1>1. n \in Nat /\ q \in Seq(Nat) /\ Len(q) \in Nat /\ DOMAIN q = 1..Len(q)
      /\ e \in Nat /\ pushed # e /\ e \notin refused
      /\ DOMAIN handed = 1..n /\ handed \in Seq(Batches)
  <2>1. pushed \in Nat /\ handed \in Seq(Batches) /\ q \in Seq(Nat)
    BY DEF ThrottleType
  <2>. QED BY <2>1
<1>0. PICK w : w = Append(q, e)
  OBVIOUS
<1>2. /\ DOMAIN w = 1..(Len(q) + 1) /\ w[Len(q) + 1] = e
      /\ \A i \in 1..Len(q) : i \in DOMAIN w /\ w[i] = q[i]
      /\ \A i \in DOMAIN w : i \in 1..Len(q) \/ i = Len(q) + 1
  BY <1>0, <1>1
<1>3. Stages = 1..(n + 1) /\ (\A b \in 1..n : Stage(b) = handed[b].items) /\ Stage(n + 1) = q
  BY <1>1 DEF Stages, Stage
<1>4. \A b \in 1..(n + 2) : b \in 1..n \/ b = n + 1 \/ b = n + 2
  BY <1>1
<1>5. CASE Adds
  <2>1. Stages' = 1..(n + 1) /\ (\A b \in 1..n : Stage(b)' = handed[b].items)
        /\ Stage(n + 1)' = w
    BY <1>0, <1>1, <1>5 DEF Stages, Stage, Adds
  <2>2. \A b \in Stages : b \in 1..n \/ b = n + 1
    BY <1>1, <1>3
  <2>3. \A b \in Stages' : b \in 1..n \/ b = n + 1
    BY <1>1, <1>4, <2>1
  <2>4. ASSUME NEW b \in Stages, NEW i \in DOMAIN Stage(b)
        PROVE  b \in Stages' /\ i \in DOMAIN Stage(b)' /\ Stage(b)'[i] = Stage(b)[i]
    BY <1>1, <1>2, <1>3, <2>1, <2>2, <2>4
  <2>5. ASSUME NEW b \in Stages', NEW i \in DOMAIN Stage(b)'
        PROVE  \/ b \in Stages /\ i \in DOMAIN Stage(b) /\ Stage(b)'[i] = Stage(b)[i]
               \/ b = n + 1 /\ i = Len(q) + 1
    BY <1>1, <1>2, <1>3, <2>1, <2>3, <2>5
  <2>6. ASSUME NEW b \in Stages', NEW i \in DOMAIN Stage(b)', b = n + 1 /\ i = Len(q) + 1
        PROVE  /\ Stage(b)'[i] = e
               /\ \A c \in Stages' : \A j \in DOMAIN Stage(c)' : c < b \/ (c = b /\ j <= i)
    BY <1>1, <1>2, <2>1, <2>3, <2>6
  <2>7. \E b \in Stages' : \E i \in DOMAIN Stage(b)' : b = n + 1 /\ i = Len(q) + 1
    BY <1>1, <1>2, <2>1
  <2>. QED BY <1>1, <1>5, <2>1, <2>4, <2>5, <2>6, <2>7 DEF Adds
<1>6. ASSUME NEW CONSTANT batch, NEW CONSTANT rest, Hands(batch, rest)
      PROVE  /\ Stages' = 1..(n + 2) /\ \A b \in 1..n : Stage(b)' = handed[b].items
             /\ Stage(n + 1)' = batch /\ Stage(n + 2)' = rest
  <2>1. PICK r \in Batches : /\ r.items = batch /\ handed' = Append(handed, r)
                             /\ throttle'.buffer = rest
    BY <1>6 DEF Hands
  <2>2. Len(handed') = n + 1 /\ DOMAIN handed' = 1..(n + 1) /\ handed'[n + 1] = r
        /\ \A b \in 1..n : handed'[b] = handed[b]
    BY <2>1, <1>1
  <2>3. Stages' = 1..(n + 2) /\ n + 2 \notin DOMAIN handed' /\ n + 1 \in DOMAIN handed'
        /\ \A b \in 1..n : b \in DOMAIN handed'
    BY <1>1, <2>2 DEF Stages
  <2>. QED BY <2>1, <2>2, <2>3 DEF Stage
<1>7. CASE Hands(q, <<>>) /\ pushed' \in {pushed, e} /\ ~(pushed' = e /\ refused' = refused)
  <2>1. /\ Stages' = 1..(n + 2) /\ \A b \in 1..n : Stage(b)' = handed[b].items
        /\ Stage(n + 1)' = q /\ Stage(n + 2)' = <<>>
    BY <1>6, <1>7
  <2>2. \A b \in Stages : b \in 1..n \/ b = n + 1
    BY <1>1, <1>3
  <2>3. \A b \in Stages' : b \in 1..n \/ b = n + 1 \/ b = n + 2
    BY <1>1, <1>4, <2>1
  <2>4. ASSUME NEW b \in Stages, NEW i \in DOMAIN Stage(b)
        PROVE  b \in Stages' /\ i \in DOMAIN Stage(b)' /\ Stage(b)'[i] = Stage(b)[i]
    BY <1>1, <1>2, <1>3, <2>1, <2>2, <2>4
  <2>5. ASSUME NEW b \in Stages', NEW i \in DOMAIN Stage(b)'
        PROVE  \/ b \in Stages /\ i \in DOMAIN Stage(b) /\ Stage(b)'[i] = Stage(b)[i]
               \/ FALSE
    BY <1>1, <1>2, <1>3, <2>1, <2>3, <2>5
  <2>. QED BY <1>1, <1>7, <2>1, <2>4, <2>5
<1>8. CASE Hands(Append(q, e), <<>>) /\ pushed' = e /\ refused' = refused
  <2>1. /\ Stages' = 1..(n + 2) /\ \A b \in 1..n : Stage(b)' = handed[b].items
        /\ Stage(n + 1)' = w /\ Stage(n + 2)' = <<>>
    BY <1>0, <1>6, <1>8
  <2>2. \A b \in Stages : b \in 1..n \/ b = n + 1
    BY <1>1, <1>3
  <2>3. \A b \in Stages' : b \in 1..n \/ b = n + 1 \/ b = n + 2
    BY <1>1, <1>4, <2>1
  <2>4. ASSUME NEW b \in Stages, NEW i \in DOMAIN Stage(b)
        PROVE  b \in Stages' /\ i \in DOMAIN Stage(b)' /\ Stage(b)'[i] = Stage(b)[i]
    <3>1. CASE b \in 1..n
      BY <1>1, <1>3, <2>1, <2>4, <3>1
    <3>2. CASE b = n + 1
      <4>1. Stage(b) = q /\ Stage(b)' = w /\ i \in 1..Len(q)
        BY <1>1, <1>3, <2>1, <2>4, <3>2
      <4>. QED BY <1>1, <1>2, <2>1, <3>2, <4>1
    <3>. QED BY <2>2, <3>1, <3>2
  <2>5. ASSUME NEW b \in Stages', NEW i \in DOMAIN Stage(b)'
        PROVE  \/ b \in Stages /\ i \in DOMAIN Stage(b) /\ Stage(b)'[i] = Stage(b)[i]
               \/ b = n + 1 /\ i = Len(q) + 1
    <3>1. CASE b \in 1..n
      BY <1>1, <1>3, <2>1, <2>5, <3>1
    <3>2. CASE b = n + 1
      BY <1>1, <1>2, <1>3, <2>1, <2>5, <3>2
    <3>3. CASE b = n + 2
      BY <2>1, <2>5, <3>3
    <3>. QED BY <2>3, <3>1, <3>2, <3>3
  <2>6. ASSUME NEW b \in Stages', NEW i \in DOMAIN Stage(b)', b = n + 1 /\ i = Len(q) + 1
        PROVE  /\ Stage(b)'[i] = e
               /\ \A c \in Stages' : \A j \in DOMAIN Stage(c)' : c < b \/ (c = b /\ j <= i)
    BY <1>1, <1>2, <2>1, <2>3, <2>6
  <2>7. \E b \in Stages' : \E i \in DOMAIN Stage(b)' : b = n + 1 /\ i = Len(q) + 1
    BY <1>1, <1>2, <2>1
  <2>. QED BY <1>1, <1>8, <2>1, <2>4, <2>5, <2>6, <2>7
<1>9. CASE Hands(q, <<e>>) /\ pushed' = e /\ refused' = refused
  <2>1. /\ Stages' = 1..(n + 2) /\ \A b \in 1..n : Stage(b)' = handed[b].items
        /\ Stage(n + 1)' = q /\ Stage(n + 2)' = <<e>>
    BY <1>6, <1>9
  <2>2. \A b \in Stages : b \in 1..n \/ b = n + 1
    BY <1>1, <1>3
  <2>3. \A b \in Stages' : b \in 1..n \/ b = n + 1 \/ b = n + 2
    BY <1>1, <1>4, <2>1
  <2>4. ASSUME NEW b \in Stages, NEW i \in DOMAIN Stage(b)
        PROVE  b \in Stages' /\ i \in DOMAIN Stage(b)' /\ Stage(b)'[i] = Stage(b)[i]
    BY <1>1, <1>2, <1>3, <2>1, <2>2, <2>4
  <2>5. ASSUME NEW b \in Stages', NEW i \in DOMAIN Stage(b)'
        PROVE  \/ b \in Stages /\ i \in DOMAIN Stage(b) /\ Stage(b)'[i] = Stage(b)[i]
               \/ b = n + 2 /\ i = 1
    BY <1>1, <1>2, <1>3, <2>1, <2>3, <2>5
  <2>6. ASSUME NEW b \in Stages', NEW i \in DOMAIN Stage(b)', b = n + 2 /\ i = 1
        PROVE  /\ Stage(b)'[i] = e
               /\ \A c \in Stages' : \A j \in DOMAIN Stage(c)' : c < b \/ (c = b /\ j <= i)
    BY <1>1, <1>2, <2>1, <2>3, <2>6
  <2>7. \E b \in Stages' : \E i \in DOMAIN Stage(b)' : b = n + 2 /\ i = 1
    BY <1>1, <1>2, <2>1
  <2>. QED BY <1>1, <1>9, <2>1, <2>4, <2>5, <2>6, <2>7
<1>. QED BY <1>1, <1>5, <1>7, <1>8, <1>9 DEF Moves

\* A move keeps the order and loses nothing but what it refuses.
LEMMA StagesInOrder ==
    ASSUME ThrottleInv, ThrottleType', Moves
    PROVE  /\ \A b, c \in Stages' : \A i \in DOMAIN Stage(b)', j \in DOMAIN Stage(c)' :
                 b < c \/ (b = c /\ i < j) => Stage(b)'[i] < Stage(c)'[j]
           /\ (UNION {ToSet(Stage(b)) : b \in Stages})' = (1..pushed') \ refused'
           /\ refused' \subseteq 1..pushed'
<1>. SUFFICES ASSUME NEW CONSTANT e, e = pushed + 1
              PROVE  /\ \A b, c \in Stages' : \A i \in DOMAIN Stage(b)', j \in DOMAIN Stage(c)' :
                           b < c \/ (b = c /\ i < j) => Stage(b)'[i] < Stage(c)'[j]
                     /\ (UNION {ToSet(Stage(b)) : b \in Stages})' = (1..pushed') \ refused'
                     /\ refused' \subseteq 1..pushed'
  OBVIOUS
<1>1. ThrottleType /\ BatchesKept /\ refused \subseteq 1..pushed /\ pushed \in Nat
  BY DEF ThrottleInv, ThrottleType
<1>2. /\ \A b \in Stages : \A i \in DOMAIN Stage(b) :
            b \in Stages' /\ i \in DOMAIN Stage(b)' /\ Stage(b)'[i] = Stage(b)[i]
      /\ \A b \in Stages' : \A i \in DOMAIN Stage(b)' :
            \/ b \in Stages /\ i \in DOMAIN Stage(b) /\ Stage(b)'[i] = Stage(b)[i]
            \/ /\ Stage(b)'[i] = e /\ pushed' = e /\ refused' = refused
               /\ \A c \in Stages' : \A j \in DOMAIN Stage(c)' : c < b \/ (c = b /\ j <= i)
      /\ pushed' = e /\ refused' = refused =>
            \E b \in Stages' : \E i \in DOMAIN Stage(b)' : Stage(b)'[i] = e
  BY <1>1, StagesGrow
<1>3. \A x : Placed(x) <=> x \in (1..pushed) \ refused
  BY <1>1, PlacedFacts DEF BatchesKept
<1>4. \A b \in Stages : \A i \in DOMAIN Stage(b) : Stage(b)[i] \in 1..pushed
  BY <1>3 DEF Placed
<1>5. \/ pushed' = pushed /\ refused' = refused
      \/ pushed' = e /\ refused' = refused
      \/ pushed' = e /\ refused' = refused \cup {e}
  BY DEF Moves, Adds
<1>7. Stages' \subseteq Int /\ \A b \in Stages' : DOMAIN Stage(b)' \subseteq Int
  <2>1. /\ Len(handed') \in Nat /\ DOMAIN handed' = 1..Len(handed')
        /\ DOMAIN throttle'.buffer \subseteq Int
        /\ \A b \in DOMAIN handed' : handed'[b].items \in Seq(Nat)
    <3>1. handed' \in Seq(Batches) /\ throttle'.buffer \in Seq(Nat)
      BY DEF ThrottleType
    <3>2. \A b \in DOMAIN handed' : handed'[b] \in Batches
      BY <3>1
    <3>3. \A r \in Batches : r.items \in Seq(Nat)
      BY DEF Batches
    <3>. QED BY <3>1, <3>2, <3>3
  <2>2. \A b \in DOMAIN handed' : DOMAIN handed'[b].items \subseteq Int
    BY <2>1
  <2>. QED BY <2>1, <2>2 DEF Stages, Stage
<1>6. ASSUME NEW b \in Stages', NEW c \in Stages',
             NEW i \in DOMAIN Stage(b)', NEW j \in DOMAIN Stage(c)',
             b < c \/ (b = c /\ i < j)
      PROVE  Stage(b)'[i] < Stage(c)'[j]
  <2>0. Stages' \subseteq Int /\ DOMAIN Stage(b)' \subseteq Int /\ DOMAIN Stage(c)' \subseteq Int
    BY <1>7
  <2>1. b \in Stages /\ i \in DOMAIN Stage(b) /\ Stage(b)'[i] = Stage(b)[i]
    BY <1>2, <1>6, <2>0
  <2>2. CASE c \in Stages /\ j \in DOMAIN Stage(c) /\ Stage(c)'[j] = Stage(c)[j]
    BY <1>1, <1>6, <2>1, <2>2 DEF BatchesKept
  <2>3. CASE Stage(c)'[j] = e
    BY <1>1, <1>4, <2>1, <2>3
  <2>. QED BY <1>2, <2>2, <2>3
<1>8. \A x : Placed(x)' <=> x \in (1..pushed') \ refused'
  <2>1. ASSUME NEW x, Placed(x)' PROVE x \in (1..pushed') \ refused'
    <3>1. PICK b \in Stages' : \E i \in DOMAIN Stage(b)' : Stage(b)'[i] = x
      BY <2>1 DEF Placed
    <3>2. PICK i \in DOMAIN Stage(b)' : Stage(b)'[i] = x
      BY <3>1
    <3>3. CASE b \in Stages /\ i \in DOMAIN Stage(b) /\ Stage(b)'[i] = Stage(b)[i]
      BY <1>1, <1>3, <1>5, <3>2, <3>3 DEF Placed
    <3>4. CASE x = e /\ pushed' = e /\ refused' = refused
      BY <1>1, <3>4
    <3>. QED BY <1>2, <3>2, <3>3, <3>4
  <2>2. ASSUME NEW x \in (1..pushed') \ refused' PROVE Placed(x)'
    <3>1. CASE x \in 1..pushed
      <4>1. PICK b \in Stages : \E i \in DOMAIN Stage(b) : Stage(b)[i] = x
        BY <1>3, <1>5, <2>2, <3>1 DEF Placed
      <4>. QED BY <1>2, <4>1 DEF Placed
    <3>2. CASE x \notin 1..pushed
      <4>1. x = e /\ pushed' = e /\ refused' = refused
        BY <1>1, <1>5, <2>2, <3>2
      <4>. QED BY <1>2, <4>1 DEF Placed
    <3>. QED BY <3>1, <3>2
  <2>. QED BY <2>1, <2>2
<1>9. refused' \subseteq 1..pushed'
  <2>1. 1..pushed \subseteq 1..e /\ e \in 1..e
    BY <1>1
  <2>. QED BY <1>1, <1>5, <2>1
<1>. QED BY <1>6, <1>8, <1>9, PlacedFactsNext

\* What a flush appends, given that it was full, due or asked for.
LEMMA FlushFacts ==
    ASSUME ThrottleInv, NEW CONSTANT batch \in Seq(Nat), NEW CONSTANT rest \in Seq(Nat),
           NEW CONSTANT by \in {"due", "full", "asked"}, NEW CONSTANT raises \in BOOLEAN,
           Flush(batch, rest, by, raises), now' = now, pushed' \in Nat, refused' \subseteq Nat,
           Len(batch) \in 1..MaxBatch, Due \/ by = "asked" \/ Len(batch) = MaxBatch
    PROVE  /\ ThrottleType' /\ Hands(batch, rest)
           /\ throttle'.buffer = rest
           /\ handed'[Len(handed')].at = throttle'.last
           /\ handed'[Len(handed) + 1].raised = raises
           /\ handed'[Len(handed) + 1].items = batch
           /\ DOMAIN handed' = 1..(Len(handed) + 1) /\ DOMAIN handed = 1..Len(handed)
           /\ \A b \in DOMAIN handed : handed'[b] = handed[b]
           /\ \A b \in DOMAIN handed' :
                 /\ Len(handed'[b].items) \in 1..MaxBatch
                 /\ b > 1 /\ handed'[b].at - handed'[b - 1].at < Interval
                       => handed'[b].by = "asked" \/ Len(handed'[b].items) = MaxBatch
<1>. DEFINE r == [items |-> batch, at |-> now, by |-> by, raised |-> raises]
            n == Len(handed)
<1>1. handed \in Seq(Batches) /\ n \in Nat /\ now \in Nat /\ DOMAIN handed = 1..n
  BY DEF ThrottleInv, ThrottleType
<1>2. r \in Batches /\ r.items = batch /\ r.at = now /\ r.by = by /\ r.raised = raises
  BY <1>1 DEF Batches
<1>3. handed' = Append(handed, r) /\ throttle' = [buffer |-> rest, last |-> now]
  BY DEF Flush
<1>. HIDE DEF r
<1>4. /\ handed' \in Seq(Batches) /\ Len(handed') = n + 1 /\ DOMAIN handed' = 1..(n + 1)
      /\ handed'[n + 1] = r /\ \A b \in 1..n : handed'[b] = handed[b]
  BY <1>1, <1>2, <1>3
<1>5. ThrottleType'
  BY <1>1, <1>3, <1>4 DEF ThrottleType
<1>6. Hands(batch, rest)
  BY <1>2, <1>3 DEF Hands
<1>7. \A b \in 1..n :
         /\ Len(handed[b].items) \in 1..MaxBatch
         /\ b > 1 /\ handed[b].at - handed[b - 1].at < Interval
               => handed[b].by = "asked" \/ Len(handed[b].items) = MaxBatch
  BY <1>1 DEF ThrottleInv, BatchesKept
<1>8. n # 0 => handed[n].at = throttle.last
  BY <1>1 DEF ThrottleInv
<1>. HIDE DEF n
<1>9. ASSUME NEW b \in 1..(n + 1)
      PROVE  /\ Len(handed'[b].items) \in 1..MaxBatch
             /\ b > 1 /\ handed'[b].at - handed'[b - 1].at < Interval
                   => handed'[b].by = "asked" \/ Len(handed'[b].items) = MaxBatch
  <2>1. CASE b \in 1..n
    <3>1. handed'[b] = handed[b] /\ (b > 1 => handed'[b - 1] = handed[b - 1])
      BY <1>1, <1>4, <2>1
    <3>. QED BY <1>7, <2>1, <3>1
  <2>2. CASE b = n + 1
    <3>1. handed'[b] = r /\ (b > 1 => n # 0 /\ handed'[b - 1] = handed[n])
      BY <1>1, <1>4, <2>2
    <3>2. now \in Int /\ throttle.last \in Int /\ Interval \in Int
      BY DisplayAssumption DEF ThrottleInv, ThrottleType
    <3>3. b > 1 => handed'[b].at - handed'[b - 1].at = now - throttle.last
      BY <1>2, <1>8, <3>1
    <3>. QED BY <1>2, <3>1, <3>2, <3>3 DEF Due
  <2>. QED BY <1>1, <2>1, <2>2
<1>. QED BY <1>1, <1>2, <1>3, <1>4, <1>5, <1>6, <1>9 DEF n

\* The refused envelopes still have their reason, if those of before had it.
LEMMA RefusedStay ==
    ASSUME ThrottleInv, NEW CONSTANT batch, NEW CONSTANT raises,
           DOMAIN handed' = 1..(Len(handed) + 1),
           \A b \in DOMAIN handed : b \in DOMAIN handed' /\ handed'[b] = handed[b],
           handed'[Len(handed) + 1].items = batch,
           handed'[Len(handed) + 1].raised = raises,
           \/ refused' = refused
           \/ /\ refused' = refused \cup {pushed + 1} /\ raises
              /\ Len(batch) = MaxBatch /\ batch[MaxBatch] = pushed
    PROVE  \A e \in refused' : \E b \in DOMAIN handed' :
              /\ handed'[b].raised /\ Len(handed'[b].items) = MaxBatch
              /\ handed'[b].items[MaxBatch] = e - 1
<1>. SUFFICES ASSUME NEW e \in refused'
              PROVE  \E b \in DOMAIN handed' :
                        /\ handed'[b].raised /\ Len(handed'[b].items) = MaxBatch
                        /\ handed'[b].items[MaxBatch] = e - 1
  OBVIOUS
<1>1. CASE e \in refused
  <2>1. PICK b \in DOMAIN handed :
           /\ handed[b].raised /\ Len(handed[b].items) = MaxBatch
           /\ handed[b].items[MaxBatch] = e - 1
    BY <1>1 DEF ThrottleInv, BatchesKept
  <2>. QED BY <2>1
<1>2. CASE e = pushed + 1 /\ raises /\ Len(batch) = MaxBatch /\ batch[MaxBatch] = pushed
  <2>1. pushed \in Nat /\ Len(handed) \in Nat
    BY DEF ThrottleInv, ThrottleType
  <2>2. Len(handed) + 1 \in DOMAIN handed' /\ e - 1 = pushed
    BY <2>1, <1>2
  <2>. QED BY <1>2, <2>2
<1>. QED BY <1>1, <1>2

\* Every call of the throttle preserves it.
LEMMA ThrottleStep == ASSUME ThrottleInv, ThrottleNext PROVE ThrottleInv'
<1>. DEFINE q == throttle.buffer
            Good == /\ \A b \in DOMAIN handed' :
                          /\ Len(handed'[b].items) \in 1..MaxBatch
                          /\ b > 1 /\ handed'[b].at - handed'[b - 1].at < Interval
                                => handed'[b].by = "asked" \/ Len(handed'[b].items) = MaxBatch
                    /\ \A e \in refused' : \E b \in DOMAIN handed' :
                          /\ handed'[b].raised /\ Len(handed'[b].items) = MaxBatch
                          /\ handed'[b].items[MaxBatch] = e - 1
<1>1. /\ pushed \in Nat /\ refused \subseteq Nat /\ q \in Seq(Nat) /\ Len(q) \in 0..MaxBatch
      /\ throttle = [buffer |-> q, last |-> throttle.last] /\ throttle.last \in Nat
      /\ now \in Nat /\ MaxBatch \in Nat \ {0}
      /\ handed \in Seq(Batches)
  BY DisplayAssumption DEF ThrottleInv, ThrottleType
<1>2. q # <<>> => q[Len(q)] = pushed /\ Len(q) \in 1..MaxBatch
  BY <1>1 DEF ThrottleInv
<1>3. Append(q, pushed + 1) \in Seq(Nat) /\ <<pushed + 1>> \in Seq(Nat)
      /\ Len(Append(q, pushed + 1)) = Len(q) + 1
      /\ Append(q, pushed + 1)[Len(q) + 1] = pushed + 1
  BY <1>1
<1>4. ASSUME Moves, ThrottleType', Good, Len(throttle'.buffer) <= MaxBatch,
             throttle'.buffer # <<>> => throttle'.buffer[Len(throttle'.buffer)] = pushed',
             handed' # <<>> => handed'[Len(handed')].at = throttle'.last
      PROVE  ThrottleInv'
  <2>1. BatchesKept' /\ refused' \subseteq 1..pushed'
    BY <1>4, StagesInOrder DEF BatchesKept
  <2>. QED BY <1>4, <2>1 DEF ThrottleInv
<1>5. ASSUME NEW CONSTANT batch \in Seq(Nat), NEW CONSTANT rest \in {<<>>, <<pushed + 1>>},
             NEW CONSTANT by \in {"due", "full", "asked"}, NEW CONSTANT raises \in BOOLEAN,
             Flush(batch, rest, by, raises), now' = now,
             Len(batch) \in 1..MaxBatch, Due \/ by = "asked" \/ Len(batch) = MaxBatch,
             \/ batch = q /\ rest = <<>> /\ pushed' = pushed /\ refused' = refused
             \/ /\ batch = Append(q, pushed + 1) /\ rest = <<>>
                /\ pushed' = pushed + 1 /\ refused' = refused
             \/ /\ batch = q /\ rest = <<pushed + 1>>
                /\ pushed' = pushed + 1 /\ refused' = refused
             \/ /\ batch = q /\ rest = <<>> /\ raises /\ Len(q) = MaxBatch
                /\ pushed' = pushed + 1 /\ refused' = refused \cup {pushed + 1}
      PROVE  ThrottleInv'
  <2>1. rest \in Seq(Nat) /\ pushed' \in Nat /\ refused' \subseteq Nat
    <3>1. <<>> \in Seq(Nat) /\ pushed + 1 \in Nat
      BY <1>1
    <3>2. rest \in Seq(Nat)
      BY <1>3, <3>1
    <3>. QED BY <1>1, <1>5, <3>1, <3>2
  <2>2. /\ ThrottleType' /\ Hands(batch, rest)
        /\ throttle'.buffer = rest
        /\ handed'[Len(handed')].at = throttle'.last
        /\ handed'[Len(handed) + 1].raised = raises
        /\ handed'[Len(handed) + 1].items = batch
        /\ DOMAIN handed' = 1..(Len(handed) + 1) /\ DOMAIN handed = 1..Len(handed)
        /\ \A b \in DOMAIN handed : handed'[b] = handed[b]
        /\ \A b \in DOMAIN handed' :
              /\ Len(handed'[b].items) \in 1..MaxBatch
              /\ b > 1 /\ handed'[b].at - handed'[b - 1].at < Interval
                    => handed'[b].by = "asked" \/ Len(handed'[b].items) = MaxBatch
    BY <1>5, <2>1, FlushFacts
  <2>3. \A b \in DOMAIN handed : b \in DOMAIN handed' /\ handed'[b] = handed[b]
    BY <1>1, <2>2
  <2>4. \/ refused' = refused
        \/ /\ refused' = refused \cup {pushed + 1} /\ raises
           /\ Len(batch) = MaxBatch /\ batch[MaxBatch] = pushed
    BY <1>1, <1>2, <1>5
  <2>5. Good
    BY <2>2, <2>3, <2>4, RefusedStay
  <2>6. Moves
    BY <1>5, <2>2 DEF Moves
  <2>7. Len(rest) <= MaxBatch /\ (rest # <<>> => rest[Len(rest)] = pushed')
    BY <1>1, <1>5
  <2>. QED BY <1>4, <2>2, <2>5, <2>6, <2>7
<1>6. ASSUME NEW raises \in BOOLEAN, Push(raises) PROVE ThrottleInv'
  <2>1. CASE Len(q) >= MaxBatch
    <3>1. Len(q) = MaxBatch /\ Len(q) \in 1..MaxBatch
      BY <1>1, <2>1
    <3>2. CASE raises
      BY <1>1, <1>5, <1>6, <2>1, <3>1, <3>2 DEF Push
    <3>3. CASE ~raises
      BY <1>1, <1>5, <1>6, <2>1, <3>1, <3>3 DEF Push
    <3>. QED BY <3>2, <3>3
  <2>2. CASE ~(Len(q) >= MaxBatch) /\ Due
    <3>1. Len(Append(q, pushed + 1)) \in 1..MaxBatch
      BY <1>1, <1>3, <2>2
    <3>. QED BY <1>3, <1>5, <1>6, <2>2, <3>1 DEF Push, Buffer
  <2>3. CASE ~(Len(q) >= MaxBatch) /\ ~Due
    <3>1. /\ throttle' = [throttle EXCEPT !.buffer = Append(q, pushed + 1)]
          /\ handed' = handed /\ pushed' = pushed + 1 /\ refused' = refused /\ now' = now
      BY <1>6, <2>3 DEF Push, Buffer
    <3>2. throttle'.buffer = Append(q, pushed + 1) /\ throttle'.last = throttle.last
      BY <1>1, <3>1
    <3>3. Moves
      BY <3>1, <3>2 DEF Moves, Adds
    <3>4. ThrottleType'
      <4>1. throttle' = [buffer |-> Append(q, pushed + 1), last |-> throttle.last]
        BY <1>1, <3>1
      <4>2. throttle' \in [buffer : Seq(Nat), last : Nat]
        BY <1>1, <1>3, <4>1
      <4>. QED BY <1>1, <3>1, <4>2 DEF ThrottleType
    <3>5. Good
      BY <3>1 DEF ThrottleInv, BatchesKept
    <3>6. Len(throttle'.buffer) <= MaxBatch /\ throttle'.buffer[Len(throttle'.buffer)] = pushed'
      BY <1>1, <1>3, <2>3, <3>1, <3>2
    <3>7. handed' # <<>> => handed'[Len(handed')].at = throttle'.last
      BY <3>1, <3>2 DEF ThrottleInv
    <3>. QED BY <1>4, <3>3, <3>4, <3>5, <3>6, <3>7
  <2>. QED BY <2>1, <2>2, <2>3
<1>7. ASSUME NEW raises \in BOOLEAN, Drain(raises) PROVE ThrottleInv'
  BY <1>1, <1>2, <1>5, <1>7 DEF Drain
<1>8. ASSUME NEW raises \in BOOLEAN, ForceFlush(raises) PROVE ThrottleInv'
  BY <1>1, <1>2, <1>5, <1>8 DEF ForceFlush
<1>9. CASE Tick
  <2>1. now' \in Nat
    BY <1>1, <1>9 DEF Tick
  <2>. QED BY <1>9, <2>1 DEF Tick, ThrottleInv, ThrottleType, BatchesKept, Stages, Stage
<1>. QED BY <1>6, <1>7, <1>8, <1>9 DEF ThrottleNext

----------------------------------------------------------------------------
(* The scrollback                                                           *)

Shown == Min({appended, MaxLines})
Left  == appended - Shown

\* Lines in order, from b lines before the first one up to number l; lines up to
\* number l without a gap.
Ordered(entries, b, l) ==
    /\ entries \in Seq(Int)
    /\ \A i \in DOMAIN entries : entries[i] \in 1 - b..l
    /\ \A i, j \in DOMAIN entries : i < j => entries[i] < entries[j]
Gapless(entries, l) == entries = [i \in 1..Len(entries) |-> l - Len(entries) + i]

\* The file has lines before the first one of the screen, all of them as long as
\* no write failed and nothing was dropped.
ScrollbackInv ==
    /\ appended \in Nat /\ mishaps \in Nat /\ earlier \in Nat
    /\ store \in BOOLEAN /\ rotated \in BOOLEAN
    /\ live = [i \in 1..Shown |-> Left + i]
    /\ Ordered(spilled, earlier, Left)
    /\ store /\ mishaps = 0 =>
          /\ Gapless(spilled, Left)
          /\ ~rotated => Len(spilled) = earlier + Left

\* The lesser of two numbers.
LEMMA MinPair == \A a, b \in Int : Min({a, b}) = IF a <= b THEN a ELSE b
<1>. SUFFICES ASSUME NEW a \in Int, NEW b \in Int
              PROVE  Min({a, b}) = IF a <= b THEN a ELSE b
  OBVIOUS
<1>1. \E x \in {a, b} : \A y \in {a, b} : x <= y
  OBVIOUS
<1>2. Min({a, b}) \in {a, b} /\ \A y \in {a, b} : Min({a, b}) <= y
  BY <1>1 DEF Min
<1>. QED BY <1>2

\* How many lines are shown, and how many have left.
LEMMA ShownFacts ==
    ASSUME appended \in Nat
    PROVE  /\ Shown = IF appended <= MaxLines THEN appended ELSE MaxLines
           /\ Shown \in Nat /\ Left \in Nat /\ Left + Shown = appended
<1>1. MaxLines \in Nat
  BY DisplayAssumption
<1>2. Shown = IF appended <= MaxLines THEN appended ELSE MaxLines
  BY <1>1, MinPair DEF Shown
<1>. QED BY <1>1, <1>2 DEF Left

\* What is kept of a file is its end, with the newest entry.
LEMMA RotatedFacts ==
    ASSUME NEW entries \in Seq(Int), entries # <<>>
    PROVE  \E k \in 1..Len(entries) : Rotated(entries) = SubSeq(entries, k, Len(entries))
<1>. DEFINE n == Len(entries)
            fits == {k \in DOMAIN entries :
                        k = Len(entries) \/ Size(SubSeq(entries, k, Len(entries))) <= CapBytes}
<1>1. n \in Nat \ {0} /\ DOMAIN entries = 1..n
  OBVIOUS
<1>2. fits \in SUBSET (1..n) /\ n \in fits
  BY <1>1
<1>3. Rotated(entries) = SubSeq(entries, Min(fits), n)
  BY DEF Rotated
<1>. HIDE DEF fits, n
<1>4. fits \in SUBSET Nat /\ fits # {}
  BY <1>1, <1>2
<1>5. PICK k \in fits : \A y \in fits : k <= y
  BY <1>4, LeastExists
<1>6. Min(fits) \in fits
  BY <1>5 DEF Min
<1>. QED BY <1>2, <1>3, <1>6 DEF n

\* The line that leaves goes to the end of the file.
LEMMA LineLeaves ==
    ASSUME NEW l \in Nat, NEW b \in Nat, NEW f, Ordered(f, b, l)
    PROVE  /\ Ordered(Append(f, l + 1), b, l + 1)
           /\ Len(Append(f, l + 1)) = Len(f) + 1 /\ Len(f) \in Nat
           /\ Gapless(f, l) => Gapless(Append(f, l + 1), l + 1)
<1>. DEFINE n == Len(f)  e == Append(f, l + 1)
<1>1. /\ f \in Seq(Int) /\ n \in Nat /\ DOMAIN f = 1..n
      /\ \A i \in 1..n : f[i] \in 1 - b..l
      /\ \A i, j \in 1..n : i < j => f[i] < f[j]
  BY DEF Ordered
<1>2. /\ e \in Seq(Int) /\ Len(e) = n + 1 /\ DOMAIN e = 1..(n + 1) /\ e[n + 1] = l + 1
      /\ \A i \in 1..n : e[i] = f[i]
  BY <1>1
<1>3. Gapless(f, l) => \A i \in 1..n : f[i] = l - n + i
  BY <1>1 DEF Gapless
<1>. HIDE DEF e, n
<1>4. \A i \in 1..(n + 1) : i \in 1..n \/ i = n + 1
  BY <1>1
<1>5. l + 1 \in 1 - b..(l + 1) /\ \A x \in 1 - b..l : x \in 1 - b..(l + 1) /\ x < l + 1
  OBVIOUS
<1>6. \A i, j \in 1..(n + 1) : i < j => i \in 1..n
  BY <1>1
<1>7. \A i \in 1..(n + 1) : e[i] \in 1 - b..(l + 1)
  BY <1>1, <1>2, <1>4, <1>5
<1>8. \A i, j \in 1..(n + 1) : i < j => e[i] < e[j]
  BY <1>1, <1>2, <1>4, <1>5, <1>6
<1>9. Ordered(e, b, l + 1)
  BY <1>2, <1>7, <1>8 DEF Ordered
<1>10. ASSUME Gapless(f, l) PROVE Gapless(e, l + 1)
  <2>1. \A i \in 1..(n + 1) : e[i] = l + 1 - (n + 1) + i
    <3>1. \A i \in 1..n : e[i] = l - n + i /\ l - n + i = l + 1 - (n + 1) + i
      BY <1>1, <1>2, <1>3, <1>10
    <3>2. l + 1 = l + 1 - (n + 1) + (n + 1)
      BY <1>1
    <3>. QED BY <1>2, <1>4, <3>1, <3>2
  <2>2. e = [i \in 1..Len(e) |-> e[i]]
    BY <1>2
  <2>3. \A i \in 1..Len(e) : e[i] = l + 1 - Len(e) + i
    BY <1>2, <2>1
  <2>4. [i \in 1..Len(e) |-> e[i]] = [i \in 1..Len(e) |-> l + 1 - Len(e) + i]
    BY <2>3
  <2>5. e = [i \in 1..Len(e) |-> l + 1 - Len(e) + i]
    BY <2>2, <2>4
  <2>. QED BY <2>5 DEF Gapless
<1>. QED BY <1>1, <1>2, <1>9, <1>10 DEF e, n

\* The end of a file is in order, and without a gap if the file is; what was
\* written of it first is in order.
LEMMA PartsKept ==
    ASSUME NEW l \in Nat, NEW b \in Nat, NEW e, Ordered(e, b, l)
    PROVE  /\ \A k \in 1..Len(e) : LET s == SubSeq(e, k, Len(e)) IN
                 Ordered(s, b, l) /\ (Gapless(e, l) => Gapless(s, l))
           /\ \A k \in 0..Len(e) : Ordered(SubSeq(e, 1, k), b, l)
<1>. DEFINE n == Len(e)
<1>1. /\ e \in Seq(Int) /\ n \in Nat /\ DOMAIN e = 1..n
      /\ \A i \in 1..n : e[i] \in 1 - b..l
      /\ \A i, j \in 1..n : i < j => e[i] < e[j]
  BY DEF Ordered
<1>2. Gapless(e, l) => \A i \in 1..n : e[i] = l - n + i
  BY <1>1 DEF Gapless
<1>3. ASSUME NEW k \in 1..n
      PROVE  Ordered(SubSeq(e, k, n), b, l) /\ (Gapless(e, l) => Gapless(SubSeq(e, k, n), l))
  <2>. DEFINE s == SubSeq(e, k, n)
  <2>1. /\ s \in Seq(Int) /\ Len(s) = n - k + 1 /\ DOMAIN s = 1..(n - k + 1)
        /\ \A i \in 1..(n - k + 1) : s[i] = e[k + i - 1]
    BY <1>1
  <2>. HIDE DEF s, n
  <2>2. \A i \in 1..(n - k + 1) : k + i - 1 \in 1..n
    BY <1>1
  <2>3. \A i, j \in 1..(n - k + 1) : i < j => k + i - 1 < k + j - 1
    BY <1>1
  <2>4. \A i \in 1..(n - k + 1) : s[i] \in 1 - b..l
    BY <1>1, <2>1, <2>2
  <2>5. \A i, j \in 1..(n - k + 1) : i < j => s[i] < s[j]
    BY <1>1, <2>1, <2>2, <2>3
  <2>6. Ordered(s, b, l)
    BY <2>1, <2>4, <2>5 DEF Ordered
  <2>7. ASSUME Gapless(e, l) PROVE Gapless(s, l)
    <3>1. \A i \in 1..(n - k + 1) : s[i] = l - n + (k + i - 1)
      BY <1>2, <2>1, <2>2, <2>7
    <3>2. \A i \in 1..(n - k + 1) : l - n + (k + i - 1) = l - (n - k + 1) + i
      BY <1>1
    <3>3. s = [i \in 1..(n - k + 1) |-> s[i]]
      BY <2>1
    <3>4. s = [i \in 1..(n - k + 1) |-> l - (n - k + 1) + i]
      BY <3>1, <3>2, <3>3
    <3>. QED BY <2>1, <3>4 DEF Gapless
  <2>. QED BY <2>6, <2>7 DEF s
<1>4. ASSUME NEW k \in 0..n PROVE Ordered(SubSeq(e, 1, k), b, l)
  <2>. DEFINE s == SubSeq(e, 1, k)
  <2>1. /\ s \in Seq(Int) /\ DOMAIN s = 1..k /\ \A i \in 1..k : s[i] = e[i] /\ i \in 1..n
    BY <1>1
  <2>. HIDE DEF s
  <2>2. Ordered(s, b, l)
    BY <1>1, <2>1 DEF Ordered
  <2>. QED BY <2>2 DEF s
<1>. QED BY <1>3, <1>4

\* With one line more, the screen moves on by a line or has one more.
LEMMA ScreenStep ==
    ASSUME ScrollbackInv, appended' = appended + 1,
           live' = IF Len(Append(live, appended + 1)) > MaxLines
                   THEN Tail(Append(live, appended + 1)) ELSE Append(live, appended + 1)
    PROVE  /\ Len(live) = Shown /\ Len(Append(live, appended + 1)) = Shown + 1
           /\ Head(Append(live, appended + 1)) = Left + 1
           /\ Left' = IF Shown + 1 > MaxLines THEN Left + 1 ELSE Left
           /\ live' = [i \in 1..Shown' |-> Left' + i]
<1>. DEFINE lines == Append(live, appended + 1)
<1>1. appended \in Nat /\ appended' \in Nat /\ MaxLines \in Nat \ {0}
  BY DisplayAssumption DEF ScrollbackInv
<1>2. /\ Shown = IF appended <= MaxLines THEN appended ELSE MaxLines
      /\ Shown \in Nat /\ Left \in Nat /\ Left + Shown = appended
  BY <1>1, ShownFacts
<1>3. /\ Shown' = IF appended + 1 <= MaxLines THEN appended + 1 ELSE MaxLines
      /\ Left' = appended + 1 - Shown'
  <2>1. Shown' = Min({appended', MaxLines})
    BY DEF Shown
  <2>2. {appended', MaxLines} = {appended + 1, MaxLines}
    OBVIOUS
  <2>3. Shown' = Min({appended + 1, MaxLines})
    BY <2>1, <2>2
  <2>4. Left' = appended' - Shown'
    BY DEF Left
  <2>. QED BY <1>1, <2>3, <2>4, MinPair
<1>4. live \in Seq(Nat) /\ Len(live) = Shown /\ \A i \in 1..Shown : live[i] = Left + i
  <2>1. live = [i \in 1..Shown |-> Left + i]
    BY DEF ScrollbackInv
  <2>. QED BY <1>2, <2>1
<1>5. /\ lines \in Seq(Nat) /\ Len(lines) = Shown + 1 /\ lines[Shown + 1] = appended + 1
      /\ \A i \in 1..Shown : lines[i] = live[i]
  BY <1>1, <1>4
<1>. HIDE DEF lines
<1>6. \A i \in 1..(Shown + 1) : lines[i] = Left + i
  <2>1. \A i \in 1..(Shown + 1) : i \in 1..Shown \/ i = Shown + 1
    BY <1>2
  <2>2. Left + (Shown + 1) = appended + 1
    BY <1>1, <1>2
  <2>. QED BY <1>4, <1>5, <2>1, <2>2
<1>7. Head(lines) = Left + 1 /\ lines # <<>>
  BY <1>2, <1>5, <1>6
<1>8. CASE Shown + 1 > MaxLines
  <2>1. Shown = MaxLines /\ Shown' = Shown /\ Left' = Left + 1
    BY <1>1, <1>2, <1>3, <1>8
  <2>2. live' = Tail(lines)
    BY <1>5, <1>8 DEF lines
  <2>3. Tail(lines) \in Seq(Nat) /\ Len(Tail(lines)) = Shown
        /\ \A i \in 1..Shown : Tail(lines)[i] = lines[i + 1]
    BY <1>2, <1>5, <1>7
  <2>4. \A i \in 1..Shown : lines[i + 1] = Left + 1 + i
    BY <1>2, <1>6
  <2>5. Tail(lines) = [i \in 1..Shown |-> Tail(lines)[i]]
    <3>1. \A t \in Seq(Nat) : t = [i \in 1..Len(t) |-> t[i]]
      OBVIOUS
    <3>. QED BY <2>3, <3>1
  <2>6. live' = [i \in 1..Shown |-> Left + 1 + i]
    BY <2>2, <2>3, <2>4, <2>5
  <2>. QED BY <1>4, <1>5, <1>7, <1>8, <2>1, <2>6 DEF lines
<1>9. CASE ~(Shown + 1 > MaxLines)
  <2>1. Shown' = Shown + 1 /\ Left' = Left
    BY <1>1, <1>2, <1>3, <1>9
  <2>2. live' = lines
    BY <1>5, <1>9 DEF lines
  <2>3. lines = [i \in 1..(Shown + 1) |-> lines[i]]
    BY <1>5
  <2>4. live' = [i \in 1..(Shown + 1) |-> Left + i]
    BY <1>6, <2>2, <2>3
  <2>. QED BY <1>4, <1>5, <1>7, <1>9, <2>1, <2>4 DEF lines
<1>. QED BY <1>8, <1>9

\* Every append preserves it, also the ones that raise.
LEMMA ScrollbackStep == ASSUME ScrollbackInv, ScrollbackNext PROVE ScrollbackInv'
<1>. DEFINE lines   == Append(live, appended + 1)
            entries == Append(spilled, Left + 1)
            f       == Rotated(entries)
<1>1. /\ appended \in Nat /\ mishaps \in Nat /\ earlier \in Nat
      /\ store \in BOOLEAN /\ rotated \in BOOLEAN /\ MaxLines \in Nat \ {0}
      /\ Ordered(spilled, earlier, Left) /\ Left \in Nat /\ Shown \in Nat
      /\ store /\ mishaps = 0 =>
            Gapless(spilled, Left) /\ (~rotated => Len(spilled) = earlier + Left)
  BY DisplayAssumption, ShownFacts DEF ScrollbackInv
<1>2. appended' = appended + 1 /\ store' = store /\ earlier' = earlier
  BY DEF ScrollbackNext, AppendLine, AppendRaises
<1>3. live' = IF Len(lines) > MaxLines THEN Tail(lines) ELSE lines
  <2>1. CASE AppendLine
    BY <2>1 DEF AppendLine
  <2>2. CASE AppendRaises
    <3>1. Len(live) = MaxLines /\ live' = Tail(lines)
      BY <2>2 DEF AppendRaises
    <3>2. live \in Seq(Nat)
      BY <1>1 DEF ScrollbackInv
    <3>3. Len(lines) = MaxLines + 1
      BY <1>1, <3>1, <3>2
    <3>. QED BY <1>1, <3>1, <3>3
  <2>. QED BY <2>1, <2>2 DEF ScrollbackNext
<1>4. /\ Len(live) = Shown /\ Len(lines) = Shown + 1 /\ Head(lines) = Left + 1
      /\ Left' = IF Shown + 1 > MaxLines THEN Left + 1 ELSE Left
      /\ live' = [i \in 1..Shown' |-> Left' + i]
  BY <1>2, <1>3, ScreenStep
<1>. HIDE DEF lines
<1>5. /\ Ordered(entries, earlier, Left + 1) /\ Len(entries) = Len(spilled) + 1 /\ Len(spilled) \in Nat
      /\ Gapless(spilled, Left) => Gapless(entries, Left + 1)
  BY <1>1, LineLeaves
<1>6. entries \in Seq(Int) /\ entries # <<>>
  BY <1>5 DEF Ordered
<1>. HIDE DEF entries
<1>7. PICK k \in 1..Len(entries) : f = SubSeq(entries, k, Len(entries))
  BY <1>6, RotatedFacts
<1>8. Ordered(f, earlier, Left + 1) /\ (Gapless(entries, Left + 1) => Gapless(f, Left + 1))
  BY <1>1, <1>5, <1>7, PartsKept
<1>9. Ordered(spilled, earlier, Left')
  BY <1>1, <1>4 DEF Ordered
<1>10. ASSUME mishaps' \in Nat, rotated' \in BOOLEAN, Ordered(spilled', earlier, Left'),
              store /\ mishaps' = 0 =>
                 Gapless(spilled', Left') /\ (~rotated' => Len(spilled') = earlier + Left')
       PROVE  ScrollbackInv'
  BY <1>1, <1>2, <1>4, <1>10 DEF ScrollbackInv
<1>11. CASE AppendLine
  <2>1. mishaps' = mishaps
    BY <1>11 DEF AppendLine
  <2>2. CASE Shown + 1 > MaxLines /\ store
    <3>1. spilled' = f /\ rotated' = (rotated \/ f # entries)
      BY <1>4, <1>11, <2>2 DEF AppendLine, lines, entries
    <3>2. Left' = Left + 1
      BY <1>4, <2>2
    <3>. HIDE DEF f
    <3>3. Ordered(spilled', earlier, Left')
      BY <1>8, <3>1, <3>2
    <3>4. ASSUME mishaps' = 0 PROVE Gapless(spilled', Left')
      BY <1>1, <1>5, <1>8, <2>1, <2>2, <3>1, <3>2, <3>4
    <3>5. ASSUME mishaps' = 0, ~rotated' PROVE Len(spilled') = earlier + Left'
      <4>1. f = entries /\ ~rotated
        BY <3>1, <3>5
      <4>2. Len(spilled) = earlier + Left
        BY <1>1, <2>1, <2>2, <3>5, <4>1
      <4>. QED BY <1>1, <1>5, <3>1, <3>2, <4>1, <4>2
    <3>6. rotated' \in BOOLEAN
      BY <3>1
    <3>. QED BY <1>1, <1>10, <2>1, <3>3, <3>4, <3>5, <3>6
  <2>3. CASE ~(Shown + 1 > MaxLines /\ store)
    <3>1. spilled' = spilled /\ rotated' = rotated
      BY <1>4, <1>11, <2>3 DEF AppendLine, lines
    <3>2. store => Left' = Left
      BY <1>4, <2>3
    <3>. QED BY <1>1, <1>9, <1>10, <2>1, <3>1, <3>2
  <2>. QED BY <2>2, <2>3
<1>12. CASE AppendRaises
  <2>1. /\ mishaps' = mishaps + 1 /\ rotated' = rotated /\ Len(live) = MaxLines
        /\ \/ spilled' = spilled
           \/ \E m \in 0..Len(f) - 1 : spilled' = SubSeq(f, 1, m)
    BY <1>4, <1>12 DEF AppendRaises, lines, entries
  <2>2. mishaps' \in Nat /\ mishaps' # 0 /\ Left' = Left + 1
    BY <1>1, <1>4, <2>1
  <2>. HIDE DEF f
  <2>3. ASSUME NEW m \in 0..Len(f) - 1, spilled' = SubSeq(f, 1, m)
        PROVE  Ordered(spilled', earlier, Left')
    <3>1. Len(f) \in Nat
      BY <1>8 DEF Ordered
    <3>2. m \in 0..Len(f)
      BY <3>1
    <3>3. Left + 1 \in Nat
      BY <1>1
    <3>. QED BY <1>1, <1>8, <2>2, <2>3, <3>2, <3>3, PartsKept
  <2>4. Ordered(spilled', earlier, Left')
    BY <1>9, <2>1, <2>3
  <2>. QED BY <1>1, <1>10, <2>1, <2>2, <2>4
<1>. QED BY <1>11, <1>12 DEF ScrollbackNext

\* File and screen are one list: what the file has ends before the screen begins.
LEMMA AllLines == ScrollbackInv => LinesKept
<1>. SUFFICES ASSUME ScrollbackInv PROVE LinesKept
  OBVIOUS
<1>. DEFINE n == Len(spilled)
<1>1. /\ appended \in Nat /\ earlier \in Nat /\ Shown \in Nat /\ Left \in Nat
      /\ Left + Shown = appended
  BY ShownFacts DEF ScrollbackInv
<1>2. live = [i \in 1..Shown |-> Left + i] /\ live \in Seq(Int) /\ Len(live) = Shown
  BY <1>1 DEF ScrollbackInv
<1>3. /\ spilled \in Seq(Int) /\ n \in Nat /\ DOMAIN spilled = 1..n
      /\ \A i \in 1..n : spilled[i] \in 1 - earlier..Left
      /\ \A i, j \in 1..n : i < j => spilled[i] < spilled[j]
  BY DEF ScrollbackInv, Ordered
<1>4. /\ all_lines \in Seq(Int) /\ Len(all_lines) = n + Shown
      /\ \A i \in 1..n : all_lines[i] = spilled[i]
      /\ \A i \in (n + 1)..(n + Shown) : all_lines[i] = live[i - n]
  BY <1>1, <1>2, <1>3 DEF all_lines
<1>. HIDE DEF n
<1>5. \A i \in (n + 1)..(n + Shown) : i - n \in 1..Shown
  BY <1>1, <1>3
<1>6. \A i \in (n + 1)..(n + Shown) : all_lines[i] = Left + (i - n)
  BY <1>2, <1>4, <1>5
<1>7. \A i \in 1..(n + Shown) : i \in 1..n \/ i \in (n + 1)..(n + Shown)
  BY <1>1, <1>3
<1>8. ASSUME NEW i \in 1..(n + Shown) PROVE all_lines[i] \in 1 - earlier..appended
  <2>1. CASE i \in 1..n
    <3>1. all_lines[i] \in 1 - earlier..Left
      BY <1>3, <1>4, <2>1
    <3>. QED BY <1>1, <3>1
  <2>2. CASE i \in (n + 1)..(n + Shown)
    BY <1>1, <1>3, <1>6, <2>2
  <2>. QED BY <1>7, <2>1, <2>2
<1>9. ASSUME NEW i \in 1..(n + Shown), NEW j \in 1..(n + Shown), i < j
      PROVE  all_lines[i] < all_lines[j]
  <2>1. CASE j \in 1..n
    <3>1. i \in 1..n
      BY <1>3, <1>9, <2>1
    <3>. QED BY <1>3, <1>4, <1>9, <2>1, <3>1
  <2>2. CASE i \in 1..n /\ j \in (n + 1)..(n + Shown)
    <3>1. all_lines[i] \in 1 - earlier..Left
      BY <1>3, <1>4, <2>2
    <3>2. all_lines[j] = Left + (j - n)
      BY <1>6, <2>2
    <3>. QED BY <1>1, <1>3, <2>2, <3>1, <3>2
  <2>3. CASE i \in (n + 1)..(n + Shown) /\ j \in (n + 1)..(n + Shown)
    <3>1. all_lines[i] = Left + (i - n) /\ all_lines[j] = Left + (j - n)
      BY <1>6, <2>3
    <3>. QED BY <1>1, <1>3, <1>9, <2>3, <3>1
  <2>4. i \in 1..n \/ j \in (n + 1)..(n + Shown) => j \in 1..n \/ i \in 1..n \/ i \in (n + 1)..(n + Shown)
    BY <1>7
  <2>. QED BY <1>7, <2>1, <2>2, <2>3
<1>10. ASSUME store, mishaps = 0
       PROVE  /\ all_lines = [i \in 1..(n + Shown) |-> appended - (n + Shown) + i]
              /\ ~rotated => n + Shown = earlier + appended
  <2>1. Gapless(spilled, Left) /\ (~rotated => n = earlier + Left)
    BY <1>10 DEF ScrollbackInv, n
  <2>2. \A i \in 1..n : spilled[i] = Left - n + i
    BY <2>1, <1>3 DEF Gapless, n
  <2>3. \A i \in 1..n : all_lines[i] = appended - (n + Shown) + i
    <3>1. \A i \in 1..n : Left - n + i = appended - (n + Shown) + i
      BY <1>1, <1>3
    <3>. QED BY <1>4, <2>2, <3>1
  <2>4. \A i \in (n + 1)..(n + Shown) : all_lines[i] = appended - (n + Shown) + i
    <3>1. \A i \in (n + 1)..(n + Shown) : Left + (i - n) = appended - (n + Shown) + i
      BY <1>1, <1>3
    <3>. QED BY <1>6, <3>1
  <2>5. all_lines = [i \in 1..(n + Shown) |-> all_lines[i]]
    BY <1>4
  <2>6. all_lines = [i \in 1..(n + Shown) |-> appended - (n + Shown) + i]
    BY <1>7, <2>3, <2>4, <2>5
  <2>. QED BY <1>1, <1>3, <2>1, <2>6
<1>11. live = [i \in 1..Shown |-> appended - Shown + i]
  BY <1>1, <1>2 DEF Left
<1>. QED BY <1>4, <1>8, <1>9, <1>10, <1>11 DEF LinesKept, Shown

----------------------------------------------------------------------------
(* The theorems                                                             *)

DisplayInv == ThrottleInv /\ ScrollbackInv

\* Nothing is buffered or shown at first, and the file has what an earlier
\* buffer left.
LEMMA DisplayStarts == DisplayInit => DisplayInv
<1>. SUFFICES ASSUME DisplayInit PROVE DisplayInv
  OBVIOUS
<1>1. ThrottleInv
  <2>1. ThrottleType /\ Len(throttle.buffer) <= MaxBatch /\ throttle.buffer = <<>> /\ handed = <<>>
    BY DisplayAssumption DEF DisplayInit, ThrottleType
  <2>2. Stages = {1} /\ Stage(1) = <<>>
    BY <2>1 DEF Stages, Stage
  <2>3. UNION {ToSet(Stage(b)) : b \in Stages} = {}
    BY <2>2 DEF ToSet
  <2>4. (1..pushed) \ refused = {} /\ refused = {}
    BY DEF DisplayInit
  <2>. QED BY <2>1, <2>2, <2>3, <2>4 DEF ThrottleInv, BatchesKept
<1>2. ScrollbackInv
  <2>1. /\ appended = 0 /\ mishaps = 0 /\ live = <<>> /\ rotated = FALSE
        /\ store \in BOOLEAN /\ earlier \in Nat
        /\ spilled = [i \in 1..earlier |-> i - earlier]
    BY DisplayAssumption DEF DisplayInit
  <2>2. appended \in Nat /\ MaxLines \in Nat
    BY <2>1, DisplayAssumption
  <2>3. Shown = 0 /\ Left = 0
    BY <2>1, <2>2, ShownFacts
  <2>4. live = [i \in 1..Shown |-> Left + i]
    BY <2>1, <2>3
  <2>5. /\ spilled \in Seq(Int) /\ Len(spilled) = earlier /\ DOMAIN spilled = 1..earlier
        /\ \A i \in 1..earlier : spilled[i] = i - earlier
    BY <2>1
  <2>6. Ordered(spilled, earlier, 0)
    BY <2>1, <2>5 DEF Ordered
  <2>7. Gapless(spilled, 0) /\ Len(spilled) = earlier + 0
    <3>1. \A i \in 1..earlier : i - earlier = 0 - earlier + i
      BY <2>1
    <3>2. spilled = [i \in 1..earlier |-> 0 - earlier + i]
      BY <2>1, <3>1
    <3>. QED BY <2>1, <2>5, <3>2 DEF Gapless
  <2>. QED BY <2>1, <2>2, <2>3, <2>4, <2>6, <2>7 DEF ScrollbackInv
<1>. QED BY <1>1, <1>2 DEF DisplayInv

\* Each of the two objects keeps its part, and a step moves only one of them.
LEMMA DisplayAlways == DisplaySpec => []DisplayInv
<1>1. DisplayInv /\ UNCHANGED throttleVars => ThrottleInv'
  BY DEF DisplayInv, throttleVars, ThrottleInv, ThrottleType, BatchesKept, Stages, Stage
<1>2. DisplayInv /\ UNCHANGED scrollbackVars => ScrollbackInv'
  <2>. SUFFICES ASSUME ScrollbackInv, UNCHANGED scrollbackVars PROVE ScrollbackInv'
    BY DEF DisplayInv
  <2>1. /\ store' = store /\ live' = live /\ spilled' = spilled /\ appended' = appended
        /\ mishaps' = mishaps /\ earlier' = earlier /\ rotated' = rotated
    BY DEF scrollbackVars
  <2>2. Shown' = Shown /\ Left' = Left
    BY <2>1 DEF Shown, Left
  <2>. QED BY <2>1, <2>2 DEF ScrollbackInv
<1>3. DisplayInv /\ [DisplayNext]_displayVars => DisplayInv'
  <2>. SUFFICES ASSUME DisplayInv, [DisplayNext]_displayVars PROVE DisplayInv'
    OBVIOUS
  <2>1. CASE ThrottleNext /\ UNCHANGED scrollbackVars
    BY <1>2, <2>1, ThrottleStep DEF DisplayInv
  <2>2. CASE ScrollbackNext /\ UNCHANGED throttleVars
    BY <1>1, <2>2, ScrollbackStep DEF DisplayInv
  <2>3. CASE UNCHANGED displayVars
    BY <1>1, <1>2, <2>3 DEF DisplayInv, displayVars
  <2>. QED BY <2>1, <2>2, <2>3 DEF DisplayNext
<1>. QED BY <1>3, DisplayStarts, PTL DEF DisplaySpec

\* Coalescing keeps the order, loses an envelope only behind a full batch
\* over which the sink raised, and keeps to its rate (CoalescingThrottle).
THEOREM CoalescingKeepsAll == DisplaySpec => []BatchesKept
<1>1. DisplayInv => BatchesKept
  BY DEF DisplayInv, ThrottleInv
<1>. QED BY <1>1, DisplayAlways, PTL

\* Whatever an earlier buffer left, however large the entries are and whichever
\* write fails, screen and file hold their lines in order and once, without a
\* gap as long as no write failed, and the whole history until the file first
\* rotates (ScrollbackBuffer, RunArtifactStore).
THEOREM ScrollbackKeepsOrder == DisplaySpec => []LinesKept
<1>1. DisplayInv => LinesKept
  BY AllLines DEF DisplayInv
<1>. QED BY <1>1, DisplayAlways, PTL
=============================================================================
