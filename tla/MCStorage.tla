------------------------------ MODULE MCStorage ------------------------------
(* Two engines with a session each, which also serve as command line and    *)
(* recovery, and the PID of an engine that crashed before.                  *)
EXTENDS Storage, TLC

CONSTANTS p1, p2, p0, s1, s2, i1, i2

MCProcs   == {p0, p1, p2}
MCDead    == {p0}
MCScopes  == {s1, s2}
MCSession == (p0 :> None) @@ (p1 :> s1) @@ (p2 :> s2)
MCInodes  == {i1, i2}

\* A new store, one with a damaged checkpoint of either session, or one in which
\* cp_2 and cp_10 are left of eleven.
Left(s, i, ok) == [scope |-> s, id |-> i, seq |-> i + 1, ok |-> ok]
MCStores == {{}} \cup {{Left(s, 0, FALSE)} : s \in MCScopes}
            \cup {{Left(s, 2, FALSE), Left(s, 10, TRUE)} : s \in MCScopes}

Symmetry ==
    Permutations(MCInodes) \cup
    {(p1 :> p2) @@ (p2 :> p1) @@ (s1 :> s2) @@ (s2 :> s1)}
=============================================================================
