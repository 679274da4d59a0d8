------------------------------ MODULE Sessions ------------------------------
(***************************************************************************)
(* The engine's control socket and the operator's gate.                    *)
(*                                                                         *)
(* A thread per control connection reads a command, dispatches it on the   *)
(* session registry and answers.  The critic bar publishes operator        *)
(* commands, the broker's kill switch publishes STOP; critic handlers      *)
(* apply them to the gatekeeper and acknowledge them, without a lock; the  *)
(* human approval gate resumes on them.  In the repository one thread      *)
(* calls the handler (the latency drill); as the entry point for commands  *)
(* that arrive over IPC it is called by the thread of each connection.     *)
(*                                                                         *)
(* A thread id is represented by its nanosecond prefix alone: what is      *)
(* shown does not rest on the random suffix.  Nothing in the repository    *)
(* removes a session.                                                      *)
(***************************************************************************)
EXTENDS Integers, Sequences, FiniteSets

CONSTANTS
    Workspaces,
    Conns,        \* control connections
    MaxClock,     \* bound: the system clock's readings
    MaxCommands,  \* bound: commands sent over the control socket
    Handlers,     \* threads that call CriticCommandHandler.handle
    MaxPresses    \* bound: operator commands

ASSUME SessionsAssumption ==
    MaxClock \in Nat /\ MaxCommands \in Nat /\ MaxPresses \in Nat

VARIABLES
    clock,     \* what time.time_ns would return; it may be set back
    last_ns,   \* _last_ns of new_thread_id
    sessions,  \* the registry: the thread id of each workspace, or NoThread
    running,   \* ControlServer._running
    conn,      \* each connection: its thread's phase and the reply at hand
    sent,      \* number of commands sent so far
    told,      \* <<workspace, thread id>> of every reply that names a thread
    requests,  \* INTERRUPT_REQUESTs that the critic handler has not taken
    resumes,   \* the same, as the approval gate's resume source gives them
    presses,   \* number of operator commands so far
    gate,      \* CriticGatekeeper._state
    handler,   \* each handler thread: its step, command, cell and numbers
    seq,       \* CriticCommandHandler._seq
    acks,      \* INTERRUPT_ACKs in the order of their emission
    hitl       \* the approval graph: [next, executed]

controlVars == <<clock, last_ns, sessions, running, conn, sent, told>>
gateVars    == <<requests, resumes, presses, gate, handler, seq, acks, hitl>>
sessionVars == <<controlVars, gateVars>>

NoThread == 0
Idle     == [pc |-> "read"]
Unused   == [pc |-> "free"]

SessionInit ==
    /\ clock \in 1..MaxClock /\ last_ns = 0
    /\ sessions = [w \in Workspaces |-> NoThread]
    /\ running = TRUE
    /\ conn = [c \in Conns |-> Idle] /\ sent = 0 /\ told = {}
    /\ requests = <<>> /\ resumes = <<>> /\ presses = 0
    /\ gate \in {"READY", "RUNNING"}
    /\ handler = [h \in Handlers |-> Unused] /\ seq = 0 /\ acks = <<>>
    /\ hitl = [next |-> "none", executed |-> <<>>]

----------------------------------------------------------------------------
(* The control socket.                                                      *)

ClockSet(t) ==
    /\ t # clock /\ clock' = t
    /\ UNCHANGED <<last_ns, sessions, running, conn, sent, told, gateVars>>

\* new_thread_id, under _id_lock: never at or before the last one.
new_thread_id == IF clock <= last_ns THEN last_ns + 1 ELSE clock

(* The connection's thread takes a command off the socket.  A thread that   *)
(* waited there when the server was stopped reads one more.                 *)
Reads(c) == conn[c] = Idle /\ sent < MaxCommands
            /\ sent' = sent + 1
Replies(c, w, id) ==
    conn' = [conn EXCEPT ![c] = [pc |-> "send", workspace |-> w, thread |-> id]]

\* Mutant of new_session: the registry is not consulted.
new_session_anew(w) ==
    /\ sessions' = [sessions EXCEPT ![w] = new_thread_id]
    /\ last_ns' = new_thread_id

\* new_session, under the registry's lock; SessionExistsError keeps what is there.
new_session(w) ==
    IF sessions[w] # NoThread THEN UNCHANGED <<sessions, last_ns>>
    ELSE /\ sessions' = [sessions EXCEPT ![w] = new_thread_id]
         /\ last_ns' = new_thread_id

(* START_SESSION: the reply names the new thread, or is an error that names *)
(* the existing one.                                                        *)
StartSession(c, w) ==
    /\ Reads(c)
    /\ new_session(w)
    /\ Replies(c, w, sessions'[w])
    /\ UNCHANGED <<clock, running, told, gateVars>>

\* ATTACH, DETACH and STATUS read the registry; without a session no thread is named.
Query(c, w) ==
    /\ Reads(c)
    /\ Replies(c, w, sessions[w])
    /\ UNCHANGED <<clock, last_ns, sessions, running, told, gateVars>>

\* SHUTDOWN: the drain stops the server, this reply is still sent.
Shutdown(c) ==
    /\ Reads(c)
    /\ running' = FALSE
    /\ conn' = [conn EXCEPT ![c] = [pc |-> "send", workspace |-> CHOOSE w \in Workspaces : TRUE,
                                    thread |-> NoThread]]
    /\ UNCHANGED <<clock, last_ns, sessions, told, gateVars>>

(* EOF, a frame that is too long or cut off, or a body that is no command:  *)
(* the thread leaves the loop and the connection is closed.                 *)
BadFrame(c) ==
    /\ Reads(c)
    /\ conn' = [conn EXCEPT ![c] = [pc |-> "closed"]]
    /\ UNCHANGED <<clock, last_ns, sessions, running, told, gateVars>>

\* sendall; then the loop looks at _running again.
Send(c) ==
    /\ conn[c].pc = "send"
    /\ told' = IF conn[c].thread = NoThread THEN told
               ELSE told \cup {<<conn[c].workspace, conn[c].thread>>}
    /\ conn' = [conn EXCEPT ![c] = IF running THEN Idle ELSE [pc |-> "closed"]]
    /\ UNCHANGED <<clock, last_ns, sessions, running, sent, gateVars>>

----------------------------------------------------------------------------
(* The gate.                                                                *)

\* BUTTON_COMMANDS, and ctrl+c.
Buttons == {"pause", "resume", "stop", "approve", "reject", "ctrl+c"}
BUTTON_COMMANDS(b) ==
    CASE b \in {"pause", "ctrl+c"}   -> "PAUSE"
      [] b \in {"resume", "approve"} -> "RESUME"
      [] b \in {"stop", "reject"}    -> "STOP"

\* emit: one INTERRUPT_REQUEST per press.
Publish(command) ==
    /\ presses < MaxPresses /\ presses' = presses + 1
    /\ requests' = Append(requests, command)
    /\ resumes' = Append(resumes, command)
    /\ UNCHANGED <<controlVars, gate, handler, seq, acks, hitl>>
Press(b) == Publish(BUTTON_COMMANDS(b))

\* KillSwitch.trip publishes STOP.  Nothing in the repository publishes START.
Kill == Publish("STOP")

Illegal  == "ILLEGAL"
Goes(to)    == [result |-> to, already |-> FALSE]
Already(in) == [result |-> in, already |-> TRUE]

\* Mutant of Transitions: a stopped run is resumed.
TransitionsRevive ==
    [READY   |-> [START |-> Goes("RUNNING"), PAUSE  |-> Goes("READY"),
                  RESUME |-> Goes(Illegal),  STOP   |-> Goes("STOPPED")],
     RUNNING |-> [START |-> Goes(Illegal),   PAUSE  |-> Goes("PAUSED"),
                  RESUME |-> Goes(Illegal),  STOP   |-> Goes("STOPPED")],
     PAUSED  |-> [START |-> Goes(Illegal),   PAUSE  |-> Already("PAUSED"),
                  RESUME |-> Goes("RUNNING"), STOP  |-> Goes("STOPPED")],
     STOPPED |-> [START |-> Goes(Illegal),   PAUSE  |-> Goes(Illegal),
                  RESUME |-> Goes("RUNNING"), STOP  |-> Already("STOPPED")]]

\* The 16 cells of the transition table.
Transitions ==
    [READY   |-> [START |-> Goes("RUNNING"), PAUSE  |-> Goes("READY"),
                  RESUME |-> Goes(Illegal),  STOP   |-> Goes("STOPPED")],
     RUNNING |-> [START |-> Goes(Illegal),   PAUSE  |-> Goes("PAUSED"),
                  RESUME |-> Goes(Illegal),  STOP   |-> Goes("STOPPED")],
     PAUSED  |-> [START |-> Goes(Illegal),   PAUSE  |-> Already("PAUSED"),
                  RESUME |-> Goes("RUNNING"), STOP  |-> Goes("STOPPED")],
     STOPPED |-> [START |-> Goes(Illegal),   PAUSE  |-> Goes(Illegal),
                  RESUME |-> Goes(Illegal),  STOP   |-> Already("STOPPED")]]

At(h, pc)           == handler[h].pc = pc
HandlerTo(h, state) == handler' = [handler EXCEPT ![h] = state]

(* CriticCommandHandler.handle: the gatekeeper looks the command up in the  *)
(* row of the state it reads; an illegal one raises and nothing else        *)
(* happens.  Another thread may write before this one does.                 *)
HandleRead(h) ==
    /\ At(h, "free") /\ requests # <<>> /\ requests' = Tail(requests)
    /\ LET command == Head(requests)
           cell == Transitions[gate][command]
       IN  \/ /\ cell.result # Illegal
              /\ HandlerTo(h, [pc |-> "write", command |-> command, cell |-> cell])
           \/ cell.result = Illegal /\ UNCHANGED handler
    /\ UNCHANGED <<controlVars, resumes, presses, gate, seq, acks, hitl>>

HandleWrite(h) ==
    /\ At(h, "write")
    /\ gate' = handler[h].cell.result
    /\ HandlerTo(h, [handler[h] EXCEPT !.pc = "number"])
    /\ UNCHANGED <<controlVars, requests, resumes, presses, seq, acks, hitl>>

\* The ACK takes the number, and _seq += 1 reads it once more before it writes.
HandleNumber(h) ==
    /\ At(h, "number")
    /\ HandlerTo(h, [pc |-> "count", ack |-> [seq |-> seq, command |-> handler[h].command,
                                         already |-> handler[h].cell.already]])
    /\ UNCHANGED <<controlVars, requests, resumes, presses, gate, seq, acks, hitl>>
HandleCount(h) ==
    /\ At(h, "count")
    /\ HandlerTo(h, [pc |-> "store", ack |-> handler[h].ack, next |-> seq + 1])
    /\ UNCHANGED <<controlVars, requests, resumes, presses, gate, seq, acks, hitl>>
HandleStore(h) ==
    /\ At(h, "store")
    /\ seq' = handler[h].next
    /\ HandlerTo(h, [pc |-> "emit", ack |-> handler[h].ack])
    /\ UNCHANGED <<controlVars, requests, resumes, presses, gate, acks, hitl>>
HandleEmit(h) ==
    /\ At(h, "emit")
    /\ acks' = Append(acks, handler[h].ack)
    /\ HandlerTo(h, Unused)
    /\ UNCHANGED <<controlVars, requests, resumes, presses, gate, seq, hitl>>

\* HitlGate.start: prepare runs and the graph halts before approval.
HitlStart ==
    /\ hitl.next = "none"
    /\ hitl' = [next |-> "approval", executed |-> <<"prepare">>]
    /\ UNCHANGED <<controlVars, requests, resumes, presses, gate, handler, seq, acks>>

(* HitlGate.resume with the next command of its source, whatever it is: the *)
(* approval node runs and the graph is at its end.  PAUSE is taken too.     *)
HitlResume ==
    /\ hitl.next = "approval" /\ resumes # <<>>
    /\ resumes' = Tail(resumes)
    /\ hitl' = [next |-> "end", executed |-> Append(hitl.executed, "approval")]
    /\ UNCHANGED <<controlVars, requests, presses, gate, handler, seq, acks>>

----------------------------------------------------------------------------
SocketNext ==
    \/ \E t \in 1..MaxClock : ClockSet(t)
    \/ \E c \in Conns :
          \/ Shutdown(c) \/ BadFrame(c) \/ Send(c)
          \/ \E w \in Workspaces : StartSession(c, w) \/ Query(c, w)

GateNext ==
    \/ \E b \in Buttons : Press(b)
    \/ Kill \/ HitlStart \/ HitlResume
    \/ \E h \in Handlers :
          \/ HandleRead(h) \/ HandleWrite(h) \/ HandleNumber(h)
          \/ HandleCount(h) \/ HandleStore(h) \/ HandleEmit(h)

SessionNext == SocketNext \/ GateNext

SessionSpec == SessionInit /\ [][SessionNext]_sessionVars

----------------------------------------------------------------------------
(* One thread for a workspace and one workspace for a thread: no two        *)
(* replies, over any connections, whatever the clock does and also after a  *)
(* SHUTDOWN, disagree (new_session under its lock, new_thread_id).          *)
OneThread == \A p, q \in told : p[1] = q[1] <=> p[2] = q[2]

\* Stopped, and no thread is about to write anything else.
Settled ==
    /\ gate = "STOPPED"
    /\ \A h \in Handlers : At(h, "write") => handler[h].cell.result = "STOPPED"

(* A stopped run is revived only by a command that overtook the STOP: once  *)
(* the gate is closed and every command that read it before has been        *)
(* written, no command opens it again, however many threads handle it       *)
(* (CriticGatekeeper.transition, which has no lock).                        *)
StopStands == [][Settled => Settled']_sessionVars
=============================================================================
