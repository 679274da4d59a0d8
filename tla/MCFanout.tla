------------------------------ MODULE MCFanout ------------------------------
(***************************************************************************)
(* Two publisher threads and one client, which may come back.              *)
(***************************************************************************)
EXTENDS EventFanout

CONSTANTS agent, metrics

MCPublishers == {agent, metrics}
MCMaxEvents  == [p \in Publishers |-> IF p \in Guarded THEN 1 ELSE 2]
=============================================================================
