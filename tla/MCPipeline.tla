---------------------------- MODULE MCPipeline ----------------------------
(* Instances of Pipeline for TLC: four chunks, two of them with            *)
(* dependencies.                                                           *)
EXTENDS Pipeline, TLC

CONSTANTS k1, k2, k3, k4

MCDeps == (k1 :> {}) @@ (k2 :> {}) @@ (k3 :> {k2}) @@ (k4 :> {k1, k2})
MCLeftovers == {{}, {k3, k4}}
MCRank == (k1 :> 1) @@ (k2 :> 2) @@ (k3 :> 3) @@ (k4 :> 4)
=============================================================================
