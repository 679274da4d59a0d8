----------------------------- MODULE MCStream ------------------------------
(* A watched workspace shown on one terminal, or two terminals that share   *)
(* the stream of an engine without a watcher.                               *)
EXTENDS EventStream

CONSTANTS f1, f2

MCInit ==
    /\ Init
    /\ ui[f1] = "on" /\ (watch.thread = "absent" <=> ui[f2] = "on")

MCSpec == MCInit /\ [][Next]_vars /\ Fairness
=============================================================================
