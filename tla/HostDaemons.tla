---------------------------- MODULE HostDaemons ----------------------------
(***************************************************************************)
(* The processes of a host: brokers, which a lock keeps to one; engines of *)
(* one workspace, which nothing does; and dev-harness commands, each of    *)
(* which asks the broker for its health and then attaches to an engine,    *)
(* spawning one if it believes that none is running.                       *)
(*                                                                         *)
(* A process finds another by name: a socket path, or the endpoint file in *)
(* which a daemon that bound a dynamic TCP port publishes it.  Names       *)
(* outlive processes that are killed, and are removed by whoever holds the *)
(* path, not by whoever is named.                                          *)
(***************************************************************************)
EXTENDS Integers, FiniteSets

CONSTANTS
    Brokers, Engines,  \* processes that may be started, once each
    Commands,          \* dev-harness invocations
    Outdated,          \* engines of another version, from before
    None

\* Every command spawns at most one engine.
ASSUME HostAssumption ==
    /\ Outdated \subseteq Engines
    /\ Cardinality(Engines \ Outdated) >= Cardinality(Commands)
    /\ None \notin Brokers \cup Engines

VARIABLES
    transport,  \* of the platform: "unix" where AF_UNIX exists, else "tcp"
    broker,     \* phase of each broker
    lock,       \* the broker that holds the host lock
    bname,      \* the broker that the socket path or the endpoint file names
    engine,     \* phase of each engine
    ename,      \* the engine that each of the workspace's two names leads to
    cmd,        \* phase of each command
    resolved    \* the broker whose port a command resolved (TCP)

brokerVars == <<transport, broker, lock, bname>>
engineVars == <<engine, ename>>
cmdVars    == <<cmd, resolved>>
vars       == <<brokerVars, engineVars, cmdVars>>

(* Phases of a broker: off, bound, serving, closed, unlocked, exited or     *)
(* killed; of an engine: off, spawned, cleaned, streaming, ready, bound,    *)
(* published, running, closing, closed, removing, exited or killed; of a    *)
(* command: start, health, probe, spawn, handshake, ok or failed.           *)
Names == {"stream", "control"}

\* An engine of an earlier version may still run.
Init ==
    /\ transport \in {"unix", "tcp"}
    /\ broker = [b \in Brokers |-> "off"]
    /\ lock = None /\ bname = None
    /\ \/ engine = [e \in Engines |-> "off"] /\ ename = [s \in Names |-> None]
       \/ \E o \in Outdated :
             /\ engine = [e \in Engines |-> IF e = o THEN "running" ELSE "off"]
             /\ ename = [s \in Names |-> o]
    /\ cmd = [c \in Commands |-> "start"]
    /\ resolved = [c \in Commands |-> None]

----------------------------------------------------------------------------
(* Brokers.                                                                 *)

BrokerListens(b) == broker[b] \in {"bound", "serving"}

\* _BrokerSocketServer.start replaces whatever is at the socket path.
BrokerBind(b) ==
    /\ broker' = [broker EXCEPT ![b] = IF transport = "unix" THEN "serving" ELSE "bound"]
    /\ bname' = IF transport = "unix" THEN b ELSE bname

(* BrokerDaemon.start.  acquire_lock does not wait: a second instance exits *)
(* with code 3.  Nobody looks between the lock and the bind.                *)
BrokerStart(b) ==
    /\ broker[b] = "off"
    /\ \/ lock = None /\ lock' = b /\ BrokerBind(b)
       \/ /\ lock # None
          /\ broker' = [broker EXCEPT ![b] = "exited"]
          /\ UNCHANGED <<lock, bname>>
    /\ UNCHANGED <<transport, engineVars, cmdVars>>

\* publish_endpoint, for TCP only.
PublishEndpoint(b) ==
    /\ broker[b] = "bound"
    /\ broker' = [broker EXCEPT ![b] = "serving"]
    /\ bname' = b
    /\ UNCHANGED <<transport, lock, engineVars, cmdVars>>

\* Mutant of DrainClose: the lock is given up before the server is stopped.
DrainCloseUnlock(b) ==
    /\ broker[b] = "serving"
    /\ lock' = None
    /\ UNCHANGED <<transport, broker, bname, engineVars, cmdVars>>

\* drain: the server stops accepting; reservations may take until the time-out.
DrainClose(b) ==
    /\ broker[b] = "serving"
    /\ broker' = [broker EXCEPT ![b] = "closed"]
    /\ UNCHANGED <<transport, lock, bname, engineVars, cmdVars>>

DrainUnlock(b) ==
    /\ broker[b] = "closed"
    /\ broker' = [broker EXCEPT ![b] = IF transport = "unix" THEN "exited" ELSE "unlocked"]
    /\ lock' = None
    /\ UNCHANGED <<transport, bname, engineVars, cmdVars>>

\* remove_endpoint removes the file whatever broker it names by now.
DrainRemove(b) ==
    /\ broker[b] = "unlocked"
    /\ broker' = [broker EXCEPT ![b] = "exited"]
    /\ bname' = None
    /\ UNCHANGED <<transport, lock, engineVars, cmdVars>>

\* SIGKILL, SIGTERM (which main does not handle) or an exception of bind.
BrokerKill(b) ==
    /\ broker[b] \notin {"off", "exited", "killed"}
    /\ broker' = [broker EXCEPT ![b] = "killed"]
    /\ lock' = IF lock = b THEN None ELSE lock
    /\ UNCHANGED <<transport, bname, engineVars, cmdVars>>

----------------------------------------------------------------------------
(* Engines: EngineDaemon.start binds the streaming socket, then the control *)
(* socket.  On a Unix path each server first unlinks what it finds there;   *)
(* a dynamic port is published to a file once both are bound.               *)

Move(e, from, to) == engine[e] = from /\ engine' = [engine EXCEPT ![e] = to]

\* cleanup, for a Unix path only.
Cleanup(s) == ename' = [ename EXCEPT ![s] = None]

(* bind_server takes the path; it raises if the path has come back, which   *)
(* ends the process.                                                        *)
Bind(e, s, from, to) ==
    \/ /\ ename[s] = None
       /\ Move(e, from, to)
       /\ ename' = [ename EXCEPT ![s] = e]
    \/ /\ ename[s] # None
       /\ Move(e, from, "killed")
       /\ UNCHANGED ename

StreamCleanup(e) ==
    /\ transport = "unix"
    /\ Move(e, "spawned", "cleaned") /\ Cleanup("stream")
    /\ UNCHANGED <<brokerVars, cmdVars>>

StreamBind(e) ==
    /\ Bind(e, "stream", "cleaned", "streaming")
    /\ UNCHANGED <<brokerVars, cmdVars>>

ControlCleanup(e) ==
    /\ Move(e, "streaming", "ready") /\ Cleanup("control")
    /\ UNCHANGED <<brokerVars, cmdVars>>

ControlBind(e) ==
    /\ Bind(e, "control", "ready", "running")
    /\ UNCHANGED <<brokerVars, cmdVars>>

\* The binds of two ports that the system chooses, which nobody knows yet.
PortBind(e) ==
    /\ transport = "tcp"
    /\ Move(e, "spawned", "bound")
    /\ UNCHANGED <<ename, brokerVars, cmdVars>>

\* _publish_endpoints writes one file after the other, over what is there.
PublishStream(e) ==
    /\ Move(e, "bound", "published")
    /\ ename' = [ename EXCEPT !["stream"] = e]
    /\ UNCHANGED <<brokerVars, cmdVars>>

PublishControl(e) ==
    /\ Move(e, "published", "running")
    /\ ename' = [ename EXCEPT !["control"] = e]
    /\ UNCHANGED <<brokerVars, cmdVars>>

\* A signal makes run return; main drains: IpcServer.stop, ControlServer.stop.
DrainStream(e) ==
    /\ Move(e, "running", "closing")
    /\ IF transport = "unix" THEN Cleanup("stream") ELSE UNCHANGED ename
    /\ UNCHANGED <<brokerVars, cmdVars>>

\* Mutant of DrainControl: the server is closed and its path left behind.
DrainControlLeaves(e) ==
    /\ Move(e, "closing", IF transport = "unix" THEN "exited" ELSE "closed")
    /\ UNCHANGED <<ename, brokerVars, cmdVars>>

DrainControl(e) ==
    /\ \/ transport = "unix" /\ Move(e, "closing", "exited") /\ Cleanup("control")
       \/ transport = "tcp" /\ Move(e, "closing", "closed") /\ UNCHANGED ename
    /\ UNCHANGED <<brokerVars, cmdVars>>

\* _remove_endpoint_files unlinks both, whatever engine they name by now.
RemoveStream(e) ==
    /\ Move(e, "closed", "removing")
    /\ ename' = [ename EXCEPT !["stream"] = None]
    /\ UNCHANGED <<brokerVars, cmdVars>>

RemoveControl(e) ==
    /\ Move(e, "removing", "exited")
    /\ ename' = [ename EXCEPT !["control"] = None]
    /\ UNCHANGED <<brokerVars, cmdVars>>

(* A hard kill, or a signal before run has installed its handlers or after  *)
(* it has restored them.                                                    *)
EngineKill(e) ==
    /\ engine[e] \notin {"off", "exited", "killed"}
    /\ engine' = [engine EXCEPT ![e] = "killed"]
    /\ UNCHANGED <<ename, brokerVars, cmdVars>>

----------------------------------------------------------------------------
(* dev-harness --self-check: broker health, then EngineBootstrap.           *)

To(c, from, to) == cmd[c] = from /\ cmd' = [cmd EXCEPT ![c] = to]

Answers(b) == b # None /\ BrokerListens(b)

(* BrokerClient resolves its endpoint once.  A published TCP port is probed *)
(* and a dead one discarded for the default port, where nobody listens.     *)
ResolveBroker(c) ==
    /\ To(c, "start", IF transport = "tcp" /\ ~Answers(bname) THEN "failed" ELSE "health")
    /\ resolved' = [resolved EXCEPT ![c] = IF transport = "tcp" THEN bname ELSE None]
    /\ UNCHANGED <<brokerVars, engineVars>>

\* health, fail-closed: BrokerUnavailableError ends the command; then close.
Health(c) ==
    /\ LET target == IF transport = "tcp" THEN resolved[c] ELSE bname
       IN  To(c, "health", IF Answers(target) THEN "probe" ELSE "failed")
    /\ resolved' = [resolved EXCEPT ![c] = None]
    /\ UNCHANGED <<brokerVars, engineVars>>

ControlListens(e) == engine[e] \in {"bound", "published", "running", "closing"}

\* resolve_endpoint and connect: a command over the control name is answered.
Reachable == ename["control"] # None /\ ControlListens(ename["control"])

(* _is_running: the control path exists, or a published port accepts.  The  *)
(* path of an engine that was killed counts as running.                     *)
IsRunning == IF transport = "unix" THEN ename["control"] # None ELSE Reachable

Probe(c) ==
    /\ To(c, "probe", IF IsRunning THEN "handshake" ELSE "spawn")
    /\ UNCHANGED <<resolved, brokerVars, engineVars>>

\* _spawn_daemon: a new process, detached and not waited for.
SpawnDaemon(c) ==
    /\ To(c, "spawn", "handshake")
    /\ Move(CHOOSE e \in Engines \ Outdated : engine[e] = "off", "off", "spawned")
    /\ UNCHANGED <<ename, resolved, brokerVars>>

(* One attempt of handshake: STATUS over the control name.  The version of  *)
(* the engine that answers must be the command's.                           *)
Handshake(c) ==
    /\ Reachable
    /\ To(c, "handshake", IF ename["control"] \in Outdated THEN "failed" ELSE "ok")
    /\ UNCHANGED <<resolved, brokerVars, engineVars>>

\* Mutant of HandshakeDeadline: the clock is never looked at.
HandshakeForever(c) ==
    /\ ~Reachable
    /\ cmd[c] = "handshake"
    /\ UNCHANGED vars

\* EngineUnreachableError: retried until the deadline, then raised.
HandshakeDeadline(c) ==
    /\ ~Reachable
    /\ To(c, "handshake", "failed")
    /\ UNCHANGED <<resolved, brokerVars, engineVars>>

----------------------------------------------------------------------------
BrokerStep(b) ==
    \/ PublishEndpoint(b) \/ DrainUnlock(b) \/ DrainRemove(b)
EngineStep(e) ==
    \/ StreamCleanup(e) \/ StreamBind(e) \/ ControlCleanup(e) \/ ControlBind(e)
    \/ PortBind(e) \/ PublishStream(e) \/ PublishControl(e)
    \/ DrainControl(e) \/ RemoveStream(e) \/ RemoveControl(e)
CmdStep(c) ==
    \/ ResolveBroker(c) \/ Health(c) \/ Probe(c) \/ SpawnDaemon(c)
    \/ Handshake(c) \/ HandshakeDeadline(c)

Next ==
    \/ \E b \in Brokers :
          BrokerStart(b) \/ BrokerStep(b) \/ DrainClose(b) \/ BrokerKill(b)
    \/ \E e \in Engines : EngineStep(e) \/ DrainStream(e) \/ EngineKill(e)
    \/ \E c \in Commands : CmdStep(c)

\* Processes run; nothing makes anyone start or stop one.
Fairness ==
    /\ \A b \in Brokers : WF_vars(BrokerStep(b))
    /\ \A e \in Engines : WF_vars(EngineStep(e))
    /\ \A c \in Commands : WF_vars(CmdStep(c))

Spec == Init /\ [][Next]_vars /\ Fairness

----------------------------------------------------------------------------
(* Host-wide limits mean something: at no time do two brokers accept        *)
(* connections, over starts, drains and kills, because the lock is taken    *)
(* before the socket is bound and given up after it is closed.              *)
OneBroker ==
    /\ \A b, d \in Brokers : BrokerListens(b) /\ BrokerListens(d) => b = d
    /\ \A b \in Brokers : BrokerListens(b) => lock = b

(* A daemon that ends by its own drain leaves no name behind that leads to  *)
(* it: an engine neither of its sockets or files, a broker no endpoint file *)
(* (the broker's socket path stays, and start unlinks it).                  *)
NothingLeftBehind ==
    /\ \A e \in Engines : engine[e] = "exited" => \A s \in Names : ename[s] # e
    /\ transport = "tcp" =>
          \A b \in Brokers : broker[b] = "exited" => bname # b

(* A command ends, with an engine or with an error, whatever brokers and    *)
(* engines do meanwhile: no wait of it is without a deadline.               *)
SelfCheckEnds ==
    \A c \in Commands : <>(cmd[c] \in {"ok", "failed"})
=============================================================================
