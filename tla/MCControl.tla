----------------------------- MODULE MCControl ------------------------------
(* What reaches an engine from outside, and what is left when it goes:      *)
(* commands over the control socket, operator commands at the gate,         *)
(* interrupts of process groups and of tasks, the worktrees.  These share   *)
(* no state, so a behaviour is one of a single part.                        *)
EXTENDS Sessions, Interrupts, Worktrees, TLC

CONSTANTS x, r, b   \* contents: LF line ends, the same with CRLF, no UTF-8

MCUnix == x :> x @@ r :> x @@ b :> b

\* LF line ends come from text mode; nothing reads what an ignored file holds.
MCWritten == [f \in Files |-> IF f \in Ignored THEN {b} ELSE {r, b}]

VARIABLE part

allVars == <<part, sessionVars, interruptVars, vars>>

ControlInit ==
    /\ SessionInit /\ InterruptInit /\ Init
    /\ part \in {"socket", "gate", "groups", "tasks", "worktrees"}
    /\ part # "worktrees" => job = "resume" /\ primary.head = [f \in Files |-> Absent]
    /\ part \notin {"socket", "gate"} => clock = 1 /\ gate = "READY"

ControlNext ==
    /\ UNCHANGED part
    /\ \/ part = "socket" /\ SocketNext /\ UNCHANGED <<interruptVars, vars>>
       \/ part = "gate"   /\ GateNext   /\ UNCHANGED <<interruptVars, vars>>
       \/ part = "groups" /\ GroupNext  /\ UNCHANGED <<sessionVars, vars>>
       \/ part = "tasks"  /\ TaskNext   /\ UNCHANGED <<sessionVars, vars>>
       \/ part = "worktrees" /\ Next    /\ UNCHANGED <<sessionVars, interruptVars>>
ControlSpec == ControlInit /\ [][ControlNext]_allVars

\* Nothing tells these apart.
Symmetry == Permutations(Handlers) \cup Permutations(Workers)
=============================================================================
