----------------------------- MODULE HostProofs -----------------------------
(* Theorems about the daemons of a host, for any number of brokers, engines *)
(* and commands and for both transports.                                    *)
EXTENDS HostDaemons, TLAPS

BrokerPhases == {"off", "bound", "serving", "closed", "unlocked", "exited", "killed"}
EnginePhases == {"off", "spawned", "cleaned", "streaming", "ready", "bound", "published",
                 "running", "closing", "closed", "removing", "exited", "killed"}

TypeInv ==
    /\ transport \in {"unix", "tcp"}
    /\ broker \in [Brokers -> BrokerPhases]
    /\ lock \in Brokers \cup {None} /\ bname \in Brokers \cup {None}
    /\ engine \in [Engines -> EnginePhases]
    /\ ename \in [Names -> Engines \cup {None}]

----------------------------------------------------------------------------
(* Brokers                                                                  *)

\* From the bind to the end of the drain a broker holds the lock.  A name that
\* leads to a broker does so from its publication until that broker removes
\* it, or for good if it is killed.
BrokerInv ==
    /\ \A b \in Brokers : broker[b] \in {"bound", "serving", "closed"} => lock = b
    /\ transport = "tcp" => \A b \in Brokers :
          bname = b => broker[b] \in {"serving", "closed", "unlocked", "killed"}

\* Every step of a broker preserves it.
LEMMA BrokerStepInv ==
    ASSUME TypeInv, BrokerInv, NEW b \in Brokers,
           BrokerStart(b) \/ BrokerStep(b) \/ DrainClose(b) \/ BrokerKill(b)
    PROVE  TypeInv' /\ BrokerInv'
<1>. USE HostAssumption DEF TypeInv, BrokerInv, BrokerPhases, engineVars, cmdVars
<1>1. CASE BrokerStart(b)
  BY <1>1 DEF BrokerStart, BrokerBind
<1>2. CASE PublishEndpoint(b)
  BY <1>2 DEF PublishEndpoint
<1>3. CASE DrainUnlock(b)
  BY <1>3 DEF DrainUnlock
<1>4. CASE DrainRemove(b)
  BY <1>4 DEF DrainRemove
<1>5. CASE DrainClose(b)
  BY <1>5 DEF DrainClose
<1>6. CASE BrokerKill(b)
  BY <1>6 DEF BrokerKill
<1>. QED BY <1>1, <1>2, <1>3, <1>4, <1>5, <1>6 DEF BrokerStep

----------------------------------------------------------------------------
(* Engines                                                                  *)

\* In which phases of an engine a name may lead to it.  The stream's is both
\* given and taken away before the control socket's.
NamedIn(s) ==
    {"running", "killed"} \cup
    IF transport = "tcp"
    THEN {"closing", "closed"} \cup IF s = "stream" THEN {"published"} ELSE {"removing"}
    ELSE IF s = "stream" THEN {"streaming", "ready"} ELSE {"closing"}

EngineInv ==
    /\ \A s \in Names : \A e \in Engines : ename[s] = e => engine[e] \in NamedIn(s)
    /\ transport = "tcp" =>
          \A e \in Engines : engine[e] \notin {"cleaned", "streaming", "ready"}
    /\ transport = "unix" =>
          \A e \in Engines : engine[e] \notin {"bound", "published", "closed", "removing"}

\* Every step of an engine preserves it, whatever other engine it takes a name from.
LEMMA EngineStepInv ==
    ASSUME TypeInv, EngineInv, NEW e \in Engines,
           EngineStep(e) \/ DrainStream(e) \/ EngineKill(e)
    PROVE  TypeInv' /\ EngineInv'
<1>. USE HostAssumption
     DEF TypeInv, EngineInv, NamedIn, EnginePhases, Names, Move, Cleanup, brokerVars, cmdVars
<1>1. CASE StreamCleanup(e)
  BY <1>1 DEF StreamCleanup
<1>2. CASE StreamBind(e)
  BY <1>2 DEF StreamBind, Bind
<1>3. CASE ControlCleanup(e)
  BY <1>3 DEF ControlCleanup
<1>4. CASE ControlBind(e)
  BY <1>4 DEF ControlBind, Bind
<1>5. CASE PortBind(e)
  BY <1>5 DEF PortBind
<1>6. CASE PublishStream(e) \/ PublishControl(e)
  BY <1>6 DEF PublishStream, PublishControl
<1>7. CASE DrainControl(e)
  BY <1>7 DEF DrainControl
<1>8. CASE RemoveStream(e) \/ RemoveControl(e)
  BY <1>8 DEF RemoveStream, RemoveControl
<1>9. CASE DrainStream(e)
  BY <1>9 DEF DrainStream
<1>10. CASE EngineKill(e)
  BY <1>10 DEF EngineKill
<1>. QED BY <1>1, <1>2, <1>3, <1>4, <1>5, <1>6, <1>7, <1>8, <1>9, <1>10 DEF EngineStep

\* A command's only effect on the daemons is the engine it spawns, whose name
\* nobody has yet.
LEMMA CommandStepInv ==
    ASSUME TypeInv, EngineInv, NEW c \in Commands, CmdStep(c)
    PROVE  /\ TypeInv' /\ EngineInv'
           /\ UNCHANGED brokerVars
<1>. USE DEF TypeInv, EngineInv, NamedIn, Names, brokerVars, engineVars, To
<1>1. CASE ResolveBroker(c) \/ Health(c) \/ Probe(c) \/ Handshake(c) \/ HandshakeDeadline(c)
  BY <1>1 DEF ResolveBroker, Health, Probe, Handshake, HandshakeDeadline
<1>2. CASE SpawnDaemon(c)
  <2>1. PICK e : Move(e, "off", "spawned")
    BY <1>2 DEF SpawnDaemon
  <2>2. UNCHANGED <<ename, brokerVars>>
    BY <1>2 DEF SpawnDaemon
  <2>3. engine' \in [Engines -> EnginePhases]
    BY <2>1 DEF Move, EnginePhases
  <2>. QED BY <2>1, <2>2, <2>3 DEF Move
<1>. QED BY <1>1, <1>2 DEF CmdStep

----------------------------------------------------------------------------
HostInv == TypeInv /\ BrokerInv /\ EngineInv

\* Every step of any process of the host preserves the invariant.
LEMMA HostStep == HostInv /\ [Next]_vars => HostInv'
<1>. SUFFICES ASSUME HostInv, [Next]_vars PROVE HostInv'
  OBVIOUS
<1>. USE DEF HostInv
<1>1. ASSUME NEW b \in Brokers,
             BrokerStart(b) \/ BrokerStep(b) \/ DrainClose(b) \/ BrokerKill(b)
      PROVE  HostInv'
  <2>1. TypeInv' /\ BrokerInv'
    BY <1>1, BrokerStepInv
  <2>2. UNCHANGED <<transport, engineVars>>
    BY <1>1 DEF BrokerStart, BrokerStep, DrainClose, BrokerKill, PublishEndpoint,
                DrainUnlock, DrainRemove
  <2>3. EngineInv'
    BY <2>2 DEF EngineInv, NamedIn, engineVars
  <2>. QED BY <2>1, <2>3
<1>2. ASSUME NEW e \in Engines, EngineStep(e) \/ DrainStream(e) \/ EngineKill(e)
      PROVE  HostInv'
  <2>1. TypeInv' /\ EngineInv'
    BY <1>2, EngineStepInv
  <2>2. UNCHANGED brokerVars
    BY <1>2 DEF EngineStep, DrainStream, EngineKill, StreamCleanup, StreamBind,
                ControlCleanup, ControlBind, PortBind, PublishStream, PublishControl,
                DrainControl, RemoveStream, RemoveControl
  <2>. QED BY <2>1, <2>2 DEF BrokerInv, brokerVars
<1>3. ASSUME NEW c \in Commands, CmdStep(c) PROVE HostInv'
  BY <1>3, CommandStepInv DEF BrokerInv, brokerVars
<1>4. CASE UNCHANGED vars
  BY <1>4 DEF vars, brokerVars, engineVars, TypeInv, BrokerInv, EngineInv, NamedIn
<1>. QED BY <1>1, <1>2, <1>3, <1>4 DEF Next

\* It holds in every reachable state.
LEMMA HostAlways == Spec => []HostInv
<1>1. Init => HostInv
  BY HostAssumption DEF Init, HostInv, TypeInv, BrokerInv, EngineInv, NamedIn,
                        BrokerPhases, EnginePhases, Names
<1>. QED BY <1>1, HostStep, PTL DEF Spec

\* At no time do two brokers of a host accept connections, and the one that
\* does holds the lock.
THEOREM BrokerUnique == Spec => []OneBroker
<1>1. HostInv => OneBroker
  BY DEF HostInv, BrokerInv, OneBroker, BrokerListens
<1>. QED BY <1>1, HostAlways, PTL

\* No daemon that ended by its own drain can still be found under a name.
THEOREM DrainsLeaveNothing == Spec => []NothingLeftBehind
<1>1. HostInv => NothingLeftBehind
  BY DEF HostInv, TypeInv, BrokerInv, EngineInv, NamedIn, NothingLeftBehind
<1>. QED BY <1>1, HostAlways, PTL
=============================================================================
