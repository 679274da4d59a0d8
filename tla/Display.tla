------------------------------ MODULE Display ------------------------------
(***************************************************************************)
(* What becomes of output on its way to the screen of a terminal: the      *)
(* CoalescingThrottle that hands envelopes to its sink in batches, and the *)
(* ScrollbackBuffer that spills old lines into the run artifact file.      *)
(*                                                                         *)
(* Each is an object of the UI thread, and a call of a method one step; a  *)
(* step in which the sink or the file raises ends where the exception      *)
(* leaves the method.  Envelopes and lines are numbered as they come; the  *)
(* lines that an earlier buffer left in the file have the numbers up to 0. *)
(* The store's redaction of what looks like a secret is left out.          *)
(***************************************************************************)
EXTENDS Integers, Sequences, FiniteSets, FiniteSetsExt, SequencesExt

CONSTANTS
    Interval,    \* the throttle's window
    MaxBatch,    \* envelopes the throttle buffers
    MaxLines,    \* live lines of the scrollback
    CapBytes,    \* size of the run artifact file above which it rotates
    Bytes(_),    \* size of a line's entry in the file
    MaxEarlier,  \* bound: lines of an earlier buffer in the file
    MaxPushes,   \* bound: envelopes pushed
    MaxTime,     \* bound: the clock
    MaxAppends   \* bound: lines appended

\* The constructors refuse an interval, a batch or a buffer below one.
ASSUME DisplayAssumption ==
    /\ Interval \in Nat \ {0} /\ MaxBatch \in Nat \ {0}
    /\ MaxLines \in Nat \ {0} /\ CapBytes \in Nat
    /\ MaxEarlier \in Nat /\ MaxAppends \in Nat
    /\ MaxPushes \in Nat /\ MaxTime \in Nat
    /\ \A line \in 1 - MaxEarlier..MaxAppends : Bytes(line) \in Nat \ {0}

VARIABLES
    now,        \* time.monotonic
    throttle,   \* [buffer, last]: _buffer and _last_flush
    handed,     \* the batches the sink was called with: [items, at, by, raised]
    pushed,     \* envelopes pushed so far
    refused,    \* envelopes whose push raised before they were buffered
    store,      \* whether the scrollback has a file to spill to
    earlier,    \* lines of an earlier buffer that were in the file at first
    live,       \* _live
    spilled,    \* the entries of the file
    torn,       \* whether a write has left half an entry in the file
    appended,   \* lines appended so far
    rotated,    \* whether the file has dropped an entry
    mishaps     \* spills that raised

throttleVars   == <<now, throttle, handed, pushed, refused>>
scrollbackVars == <<store, earlier, live, spilled, torn, appended, rotated, mishaps>>
displayVars == <<throttleVars, scrollbackVars>>

\* A file may be there already, with an earlier buffer's lines.
DisplayInit ==
    /\ now = 0 /\ throttle = [buffer |-> <<>>, last |-> 0]
    /\ handed = <<>> /\ pushed = 0 /\ refused = {}
    /\ store \in BOOLEAN /\ earlier \in 0..MaxEarlier /\ torn \in BOOLEAN
    /\ ~store => earlier = 0 /\ ~torn
    /\ spilled = [i \in 1..earlier |-> i - earlier]
    /\ live = <<>> /\ appended = 0 /\ rotated = FALSE /\ mishaps = 0

----------------------------------------------------------------------------
(* CoalescingThrottle.                                                      *)

\* flush: the buffer is emptied before the sink is called, which may raise.
Flush(batch, rest, by, raises) ==
    /\ handed' = Append(handed, [items |-> batch, at |-> now, by |-> by, raised |-> raises])
    /\ throttle' = [buffer |-> rest, last |-> now]

Due == now - throttle.last >= Interval

\* The next envelope is buffered, and handed on with the rest when it is time.
Buffer(raises) ==
    LET buffer == Append(throttle.buffer, pushed + 1)
    IN  IF Due THEN Flush(buffer, <<>>, "due", raises)
        ELSE throttle' = [throttle EXCEPT !.buffer = buffer] /\ UNCHANGED handed

\* Mutant of Push: a full buffer makes room by dropping its oldest envelope.
Push_drops(raises) ==
    /\ pushed < MaxPushes /\ pushed' = pushed + 1
    /\ IF Len(throttle.buffer) >= MaxBatch
       THEN /\ throttle' = [throttle EXCEPT !.buffer = Append(Tail(@), pushed + 1)]
            /\ UNCHANGED handed
       ELSE Buffer(raises)
    /\ UNCHANGED <<now, refused>>

(* push: a full buffer is flushed first, and starts a new interval.  When   *)
(* the sink raises then, the envelope is not buffered.                      *)
Push(raises) ==
    /\ pushed < MaxPushes /\ pushed' = pushed + 1
    /\ IF Len(throttle.buffer) >= MaxBatch
       THEN /\ Flush(throttle.buffer, IF raises THEN <<>> ELSE <<pushed + 1>>, "full", raises)
            /\ refused' = IF raises THEN refused \cup {pushed + 1} ELSE refused
       ELSE Buffer(raises) /\ UNCHANGED refused
    /\ UNCHANGED now

\* drain flushes when it is time, flush whenever it is called.
Drain(raises) ==
    /\ Due /\ throttle.buffer # <<>>
    /\ Flush(throttle.buffer, <<>>, "due", raises)
    /\ UNCHANGED <<now, pushed, refused>>
ForceFlush(raises) ==
    /\ throttle.buffer # <<>>
    /\ Flush(throttle.buffer, <<>>, "asked", raises)
    /\ UNCHANGED <<now, pushed, refused>>

Tick == now < MaxTime /\ now' = now + 1 /\ UNCHANGED <<throttle, handed, pushed, refused>>

----------------------------------------------------------------------------
(* ScrollbackBuffer over a RunArtifactStore.                                *)

\* The size of entries, as RunArtifactStore.append estimates it.
Size(entries) == FoldLeft(LAMBDA size, line : size + Bytes(line), 0, entries)

\* Mutant of Rotated: the newest entries go when the file is too large.
Rotated_pop(entries) ==
    LET fits == {k \in DOMAIN entries : k = 1 \/ Size(SubSeq(entries, 1, k)) <= CapBytes}
    IN  SubSeq(entries, 1, Max(fits))

(* RunArtifactStore.append: the oldest entries go while the file is too     *)
(* large, but never the newest.                                             *)
Rotated(entries) ==
    LET fits == {k \in DOMAIN entries :
                    k = Len(entries) \/ Size(SubSeq(entries, k, Len(entries))) <= CapBytes}
    IN  SubSeq(entries, Min(fits), Len(entries))

\* append: over the limit, the oldest line leaves and is spilled if there is a file.
AppendLine ==
    /\ appended < MaxAppends /\ appended' = appended + 1
    /\ LET lines   == Append(live, appended + 1)
           over    == Len(lines) > MaxLines
           entries == Append(spilled, Head(lines))
       IN  /\ live' = IF over THEN Tail(lines) ELSE lines
           /\ IF over /\ store
              THEN /\ ~torn
                   /\ spilled' = Rotated(entries)
                   /\ rotated' = (rotated \/ Rotated(entries) # entries)
              ELSE UNCHANGED <<spilled, rotated>>
    /\ UNCHANGED <<store, earlier, torn, mishaps>>

(* A spill that raises: the line has left already.  A file with half an     *)
(* entry cannot be loaded; one that was opened for writing is empty, and    *)
(* has as many of its entries again as were written before the error.       *)
AppendRaises ==
    /\ appended < MaxAppends /\ appended' = appended + 1
    /\ store /\ Len(live) = MaxLines
    /\ live' = Tail(Append(live, appended + 1))
    /\ LET entries == Rotated(Append(spilled, Head(Append(live, appended + 1))))
       IN  \/ UNCHANGED <<spilled, torn>>
           \/ /\ ~torn /\ \E k \in 0..Len(entries) - 1 : spilled' = SubSeq(entries, 1, k)
              /\ torn' \in BOOLEAN
    /\ mishaps' = mishaps + 1
    /\ UNCHANGED <<store, earlier, rotated>>

\* all_lines: what is spilled, then what is live.
all_lines == spilled \o live

----------------------------------------------------------------------------
ThrottleNext   == \/ \E raises \in BOOLEAN : Push(raises) \/ Drain(raises) \/ ForceFlush(raises)
                  \/ Tick
ScrollbackNext == AppendLine \/ AppendRaises

DisplayNext ==
    \/ ThrottleNext /\ UNCHANGED scrollbackVars
    \/ ScrollbackNext /\ UNCHANGED throttleVars

DisplaySpec == DisplayInit /\ [][DisplayNext]_displayVars

----------------------------------------------------------------------------
\* The batches in the order of their flushes, and what is still buffered.
Stages   == 1..Len(handed) + 1
Stage(b) == IF b \in DOMAIN handed THEN handed[b].items ELSE throttle.buffer

(* Nothing is lost, doubled or reordered by coalescing: batches and buffer  *)
(* together hold the envelopes in the order of their pushes, all but those  *)
(* whose push raised, and a push loses its envelope only if the sink raised *)
(* over the full batch before it.  No batch is empty or larger than         *)
(* allowed, and two batches come closer than the interval only if the       *)
(* second was full or asked for (CoalescingThrottle).                       *)
BatchesKept ==
    /\ \A b, c \in Stages : \A i \in DOMAIN Stage(b), j \in DOMAIN Stage(c) :
          b < c \/ (b = c /\ i < j) => Stage(b)[i] < Stage(c)[j]
    /\ UNION {ToSet(Stage(b)) : b \in Stages} = (1..pushed) \ refused
    /\ \A e \in refused : \E b \in DOMAIN handed :
          /\ handed[b].raised /\ Len(handed[b].items) = MaxBatch
          /\ handed[b].items[MaxBatch] = e - 1
    /\ \A b \in DOMAIN handed :
          /\ Len(handed[b].items) \in 1..MaxBatch
          /\ b > 1 /\ handed[b].at - handed[b - 1].at < Interval
                => handed[b].by = "asked" \/ Len(handed[b].items) = MaxBatch

(* The screen has the latest lines, never more than its limit, whatever     *)
(* becomes of the file.  File and screen together are in order and have     *)
(* each line once, those of an earlier buffer first, also after writes that *)
(* failed half-way; as long as none failed they are the history without a   *)
(* gap up to the last line, and all of it until the file first rotates,     *)
(* which drops the oldest lines (ScrollbackBuffer, RunArtifactStore).       *)
LinesKept ==
    LET shown == Min({appended, MaxLines})
        total == Len(all_lines)
    IN  /\ live = [i \in 1..shown |-> appended - shown + i]
        /\ \A i \in 1..total : all_lines[i] \in 1 - earlier..appended
        /\ \A i, j \in 1..total : i < j => all_lines[i] < all_lines[j]
        /\ store /\ mishaps = 0 =>
              /\ all_lines = [i \in 1..total |-> appended - total + i]
              /\ ~rotated => total = earlier + appended
=============================================================================
