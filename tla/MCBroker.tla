----------------------------- MODULE MCBroker -----------------------------
(* Instances of Broker for TLC.                                            *)
EXTENDS Broker, TLC

Perms == Permutations(Clients)
=============================================================================
