----------------------------- MODULE LossyFifo -----------------------------
(***************************************************************************)
(* What the event machinery promises its receivers, and no more: envelopes *)
(* of one source arrive in the order in which the source emitted them, at  *)
(* most once each, and only if the source emitted them. Any of them may be *)
(* lost: queues overflow, connections break, terminals attach late.        *)
(***************************************************************************)
EXTENDS Integers

CONSTANTS Sources, Receivers

VARIABLES
    sent,   \* sent[s]: how many envelopes source s has emitted
    got     \* got[r][s]: the number of the last one of s that reached r

Init ==
    /\ sent = [s \in Sources |-> 0]
    /\ got = [r \in Receivers |-> [s \in Sources |-> 0]]

Emit(s) ==
    /\ sent' = [sent EXCEPT ![s] = @ + 1]
    /\ UNCHANGED got

Deliver(r, s) ==
    /\ \E k \in got[r][s] + 1 .. sent[s] : got' = [got EXCEPT ![r][s] = k]
    /\ UNCHANGED sent

Next == \E s \in Sources : Emit(s) \/ \E r \in Receivers : Deliver(r, s)

Spec == Init /\ [][Next]_<<sent, got>>
=============================================================================
