--------------------------- MODULE SessionsProofs ---------------------------
(* Theorems about the launch of a run, the control socket, the operator's   *)
(* gate and interrupts.  They hold for any files, environments, workspaces, *)
(* connections, commands and clock readings.                                *)
EXTENDS Sessions, Interrupts, Launch, FiniteSetTheorems, SequenceTheorems, TLAPS

CommandNames == {"START", "PAUSE", "RESUME", "STOP"}
GateStates   == {"READY", "RUNNING", "PAUSED", "STOPPED"}

----------------------------------------------------------------------------
(* Thread ids                                                               *)

ControlType ==
    /\ clock \in Nat \ {0} /\ last_ns \in Nat
    /\ sessions \in [Workspaces -> Nat]
    /\ DOMAIN conn = Conns

\* The registry never gives two workspaces one thread, because ids exceed
\* last_ns whatever the clock says; a reply under way, like one that was
\* sent, names the thread that the registry still has.
ControlInv ==
    /\ ControlType
    /\ \A w \in Workspaces : sessions[w] <= last_ns
    /\ \A w, v \in Workspaces :
          sessions[w] # NoThread /\ sessions[w] = sessions[v] => w = v
    /\ \A c \in Conns : conn[c].pc = "send" /\ conn[c].thread # NoThread =>
          conn[c].workspace \in Workspaces /\ sessions[conn[c].workspace] = conn[c].thread
    /\ \A p \in told : \E w \in Workspaces :
          sessions[w] # NoThread /\ p = <<w, sessions[w]>>

\* Every step of a connection's thread and of the clock preserves it.
LEMMA ControlStepInv ==
    ASSUME ControlInv,
           \/ \E t \in 1..MaxClock : ClockSet(t)
           \/ \E c \in Conns :
                 \/ Shutdown(c) \/ BadFrame(c) \/ Send(c)
                 \/ \E w \in Workspaces : StartSession(c, w) \/ Query(c, w)
    PROVE  ControlInv'
<1>. USE SessionsAssumption DEF ControlInv, ControlType, NoThread
<1>1. ASSUME NEW t \in 1..MaxClock, ClockSet(t) PROVE ControlInv'
  BY <1>1 DEF ClockSet
<1>2. ASSUME NEW c \in Conns, Shutdown(c) PROVE ControlInv'
  BY <1>2 DEF Shutdown, Reads
<1>3. ASSUME NEW c \in Conns, BadFrame(c) PROVE ControlInv'
  BY <1>3 DEF BadFrame, Reads
<1>4. ASSUME NEW c \in Conns, Send(c) PROVE ControlInv'
  BY <1>4 DEF Send, Idle
<1>5. ASSUME NEW c \in Conns, NEW w \in Workspaces, Query(c, w) PROVE ControlInv'
  BY <1>5 DEF Query, Reads, Replies
<1>6. ASSUME NEW c \in Conns, NEW w \in Workspaces, StartSession(c, w) PROVE ControlInv'
  <2>1. new_thread_id \in Nat /\ new_thread_id > last_ns /\ new_thread_id # 0
    BY DEF new_thread_id
  <2>2. CASE sessions[w] # NoThread
    BY <1>6, <2>2 DEF StartSession, new_session, Reads, Replies
  <2>3. CASE sessions[w] = NoThread
    <3>1. /\ sessions' = [sessions EXCEPT ![w] = new_thread_id]
          /\ last_ns' = new_thread_id
          /\ conn' = [conn EXCEPT ![c] = [pc |-> "send", workspace |-> w,
                                          thread |-> new_thread_id]]
          /\ UNCHANGED <<clock, told>>
      BY <1>6, <2>3 DEF StartSession, new_session, Reads, Replies
    <3>. QED BY <3>1, <2>1, <2>3
  <2>. QED BY <2>2, <2>3
<1>. QED BY <1>1, <1>2, <1>3, <1>4, <1>5, <1>6

----------------------------------------------------------------------------
(* Operator commands                                                        *)

\* A thread that is to write holds a cell of the table, which is a legal one.
GateInv ==
    /\ requests \in Seq(CommandNames) /\ gate \in GateStates
    /\ DOMAIN handler = Handlers
    /\ \A h \in Handlers : At(h, "write") => handler[h].cell.result \in GateStates

\* The transition table: every legal cell leads to a state, and none leads out
\* of STOPPED.
LEMMA TableFacts ==
    ASSUME NEW g \in GateStates, NEW c \in CommandNames, Transitions[g][c].result # Illegal
    PROVE  /\ Transitions[g][c].result \in GateStates
           /\ g = "STOPPED" => Transitions[g][c].result = "STOPPED"
<1>. USE DEF Transitions, Goes, Already, Illegal, GateStates, CommandNames
<1>1. CASE g = "READY"
  <2>1. CASE c = "START" BY <1>1, <2>1
  <2>2. CASE c = "PAUSE" BY <1>1, <2>2
  <2>3. CASE c = "RESUME" BY <1>1, <2>3
  <2>4. CASE c = "STOP" BY <1>1, <2>4
  <2>. QED BY <2>1, <2>2, <2>3, <2>4
<1>2. CASE g = "RUNNING"
  <2>1. CASE c = "START" BY <1>2, <2>1
  <2>2. CASE c = "PAUSE" BY <1>2, <2>2
  <2>3. CASE c = "RESUME" BY <1>2, <2>3
  <2>4. CASE c = "STOP" BY <1>2, <2>4
  <2>. QED BY <2>1, <2>2, <2>3, <2>4
<1>3. CASE g = "PAUSED"
  <2>1. CASE c = "START" BY <1>3, <2>1
  <2>2. CASE c = "PAUSE" BY <1>3, <2>2
  <2>3. CASE c = "RESUME" BY <1>3, <2>3
  <2>4. CASE c = "STOP" BY <1>3, <2>4
  <2>. QED BY <2>1, <2>2, <2>3, <2>4
<1>4. CASE g = "STOPPED"
  <2>1. CASE c = "START" BY <1>4, <2>1
  <2>2. CASE c = "PAUSE" BY <1>4, <2>2
  <2>3. CASE c = "RESUME" BY <1>4, <2>3
  <2>4. CASE c = "STOP" BY <1>4, <2>4
  <2>. QED BY <2>1, <2>2, <2>3, <2>4
<1>. QED BY <1>1, <1>2, <1>3, <1>4

\* What a handler thread's step may do: read a cell, write the one it holds, or
\* neither.
LEMMA HandlerStep ==
    ASSUME GateInv, NEW h \in Handlers,
           \/ HandleRead(h) \/ HandleWrite(h) \/ HandleNumber(h)
           \/ HandleCount(h) \/ HandleStore(h) \/ HandleEmit(h)
    PROVE  GateInv' /\ (Settled => Settled')
<1>. USE DEF GateInv, At, HandlerTo, Settled
<1>1. CASE HandleRead(h)
  <2>. DEFINE command == Head(requests)
              cell == Transitions[gate][command]
  <2>1. command \in CommandNames /\ requests' \in Seq(CommandNames)
    BY <1>1, HeadTailProperties DEF HandleRead
  <2>2. CASE cell.result = Illegal
    <3>1. UNCHANGED <<gate, handler>>
      BY <1>1, <2>2 DEF HandleRead
    <3>. QED BY <3>1, <2>1
  <2>3. CASE cell.result # Illegal
    <3>1. cell.result \in GateStates /\ (gate = "STOPPED" => cell.result = "STOPPED")
      BY <2>1, <2>3, TableFacts
    <3>2. /\ gate' = gate
          /\ handler' = [handler EXCEPT ![h] =
                           [pc |-> "write", command |-> command, cell |-> cell]]
      BY <1>1, <2>3 DEF HandleRead
    <3>3. handler'[h].cell = cell /\ \A k \in Handlers : k # h => handler'[k] = handler[k]
      BY <3>2
    <3>. HIDE DEF command, cell
    <3>. QED BY <3>1, <3>2, <3>3, <2>1
  <2>. QED BY <2>2, <2>3
<1>2. CASE HandleWrite(h)
  BY <1>2 DEF HandleWrite
<1>3. CASE HandleNumber(h)
  BY <1>3 DEF HandleNumber
<1>4. CASE HandleCount(h)
  BY <1>4 DEF HandleCount
<1>5. CASE HandleStore(h)
  BY <1>5 DEF HandleStore
<1>6. CASE HandleEmit(h)
  BY <1>6 DEF HandleEmit, Unused
<1>. QED BY <1>1, <1>2, <1>3, <1>4, <1>5, <1>6

\* Every button of the bar stands for a command the engine knows.
LEMMA ButtonsMap == \A b \in Buttons : BUTTON_COMMANDS(b) \in CommandNames
BY DEF Buttons, BUTTON_COMMANDS, CommandNames

\* Every step at the gate keeps the invariant and a settled STOP.
LEMMA GateStep ==
    ASSUME GateInv, GateNext PROVE GateInv' /\ (Settled => Settled')
<1>1. CASE Kill \/ \E b \in Buttons : Press(b)
  <2>1. PICK c \in CommandNames : Publish(c)
    BY <1>1, ButtonsMap DEF Kill, Press, CommandNames
  <2>. QED BY <2>1, AppendProperties DEF Publish, GateInv, Settled, At
<1>2. CASE HitlStart \/ HitlResume
  BY <1>2 DEF HitlStart, HitlResume, GateInv, Settled, At
<1>. QED BY <1>1, <1>2, HandlerStep DEF GateNext

----------------------------------------------------------------------------
\* Both invariants hold in every reachable state.
LEMMA SessionsAlways == SessionSpec => [](ControlInv /\ GateInv)
<1>1. SessionInit => ControlInv /\ GateInv
  BY SessionsAssumption DEF SessionInit, ControlInv, ControlType, GateInv, GateStates,
                            NoThread, Idle, Unused, At
<1>2. ControlInv /\ GateInv /\ [SessionNext]_sessionVars => (ControlInv /\ GateInv)'
  <2>. SUFFICES ASSUME ControlInv, GateInv, [SessionNext]_sessionVars PROVE ControlInv' /\ GateInv'
    OBVIOUS
  <2>1. UNCHANGED controlVars => ControlInv'
    BY DEF controlVars, ControlInv, ControlType
  <2>2. UNCHANGED gateVars => GateInv'
    BY DEF gateVars, GateInv, At
  <2>3. CASE SocketNext
    <3>1. UNCHANGED gateVars
      BY <2>3 DEF SocketNext, ClockSet, Shutdown, BadFrame, Send, StartSession, Query
    <3>. QED BY <3>1, <2>2, <2>3, ControlStepInv DEF SocketNext
  <2>4. CASE GateNext
    <3>1. UNCHANGED controlVars
      BY <2>4 DEF GateNext, Kill, Press, Publish, HitlStart, HitlResume, HandleRead,
                  HandleWrite, HandleNumber, HandleCount, HandleStore, HandleEmit
    <3>. QED BY <3>1, <2>1, <2>4, GateStep
  <2>5. CASE UNCHANGED sessionVars
    BY <2>5, <2>1, <2>2 DEF sessionVars
  <2>. QED BY <2>3, <2>4, <2>5 DEF SessionNext
<1>. QED BY <1>1, <1>2, PTL DEF SessionSpec

\* No reply names a second thread for a workspace or a second workspace for a
\* thread, whatever the clock does.
THEOREM WorkspacesKeepTheirThread == SessionSpec => []OneThread
<1>1. ControlInv => OneThread
  <2>. SUFFICES ASSUME ControlInv, NEW p \in told, NEW q \in told
                PROVE  p[1] = q[1] <=> p[2] = q[2]
    BY DEF OneThread
  <2>1. PICK w \in Workspaces : sessions[w] # NoThread /\ p = <<w, sessions[w]>>
    BY DEF ControlInv
  <2>2. PICK v \in Workspaces : sessions[v] # NoThread /\ q = <<v, sessions[v]>>
    BY DEF ControlInv
  <2>3. sessions[w] = sessions[v] => w = v
    BY <2>1 DEF ControlInv
  <2>. QED BY <2>1, <2>2, <2>3
<1>. QED BY <1>1, SessionsAlways, PTL

\* With any number of handler threads and no lock, a STOP that no command in
\* flight overtakes is final.
THEOREM StoppedRunsStayStopped == SessionSpec => StopStands
<1>1. GateInv /\ [SessionNext]_sessionVars => [Settled => Settled']_sessionVars
  <2>. SUFFICES ASSUME GateInv, [SessionNext]_sessionVars, Settled PROVE Settled'
    OBVIOUS
  <2>1. UNCHANGED gateVars => Settled'
    BY DEF gateVars, Settled, At
  <2>2. CASE SocketNext
    BY <2>1, <2>2 DEF SocketNext, ClockSet, Shutdown, BadFrame, Send, StartSession, Query
  <2>3. CASE GateNext
    BY <2>3, GateStep
  <2>4. CASE UNCHANGED sessionVars
    BY <2>1, <2>4 DEF sessionVars
  <2>. QED BY <2>2, <2>3, <2>4 DEF SessionNext
<1>. QED BY <1>1, SessionsAlways, PTL DEF SessionSpec, StopStands

----------------------------------------------------------------------------
(* Interrupts: a specification of its own, because what it stops (the       *)
(* processes and the tasks of an engine thread) shares no state with the    *)
(* control socket and the gate. For any number of process groups, of        *)
(* processes in a group, of tasks and of overlapping calls of cancel_all.   *)

----------------------------------------------------------------------------
(* Process groups                                                           *)

GroupType ==
    /\ leader \in [Groups -> {"none", "run", "zombie", "gone"}]
    /\ others \in [Groups -> Nat]
    /\ sweep \in [pc : {"idle", "next", "wait", "kill", "reap"}, todo : SUBSET Groups,
                  at : Groups \cup {NoGroup}, over : SUBSET Groups]
    /\ pgids \subseteq Groups

\* A group that interrupt_all has heard of has had its leader, so no new one
\* can come to life in it; when interrupt is about to reap, what runs in the
\* group is doomed, and a doomed process does not fork.
SweepInv ==
    /\ \A g \in pgids \cup sweep.todo \cup sweep.over : leader[g] # "none"
    /\ sweep.pc \in {"wait", "kill", "reap"} =>
          sweep.at \in Groups /\ leader[sweep.at] # "none"
    /\ sweep.pc = "reap" => (Running(sweep.at) => sweep.at \in doomed)
    /\ NoSurvivor

GroupInv == GroupType /\ SweepInv

\* What the processes of a group do preserves the invariant.
LEMMA ProcessStepInv ==
    ASSUME GroupInv, NEW g \in Groups,
           \/ Popen(g) \/ Register(g) \/ Fork(g) \/ LeaderExits(g)
           \/ OtherExits(g) \/ OwnerWaits(g)
    PROVE  GroupInv'
<1>. USE DEF GroupInv, GroupType, SweepInv, NoSurvivor, Running
<1>1. CASE Popen(g)
  BY <1>1 DEF Popen
<1>2. CASE Register(g)
  BY <1>2 DEF Register
<1>3. CASE Fork(g)
  BY <1>3 DEF Fork
<1>4. CASE LeaderExits(g)
  BY <1>4 DEF LeaderExits
<1>5. CASE OtherExits(g)
  BY <1>5 DEF OtherExits
<1>6. CASE OwnerWaits(g)
  BY <1>6 DEF OwnerWaits
<1>. QED BY <1>1, <1>2, <1>3, <1>4, <1>5, <1>6

\* So does every step of the thread that interrupts.
LEMMA SweepStepInv ==
    ASSUME GroupInv,
           \/ InterruptAll \/ WaitForExit \/ SigKill
           \/ Reap \/ ForgetAll
           \/ \E g \in Groups : SigInt(g)
    PROVE  GroupInv'
<1>. USE DEF GroupInv, GroupType, SweepInv, NoSurvivor, Running, Alive
<1>1. CASE InterruptAll
  BY <1>1 DEF InterruptAll
<1>2. ASSUME NEW g \in Groups, SigInt(g) PROVE GroupInv'
  BY <1>2 DEF SigInt
<1>3. CASE WaitForExit
  BY <1>3 DEF WaitForExit
<1>4. CASE SigKill
  BY <1>4 DEF SigKill
<1>5. CASE Reap
  <2>1. sweep.at \in Groups /\ leader[sweep.at] # "none"
    BY <1>5 DEF Reap
  <2>2. /\ leader' \in [Groups -> {"none", "run", "zombie", "gone"}]
        /\ \A g \in Groups : /\ leader'[g] = "run" => leader[g] = "run"
                              /\ leader'[g] = "none" <=> leader[g] = "none"
    BY <1>5, <2>1 DEF Reap
  <2>3. /\ sweep' = [pc |-> "next", todo |-> sweep.todo, at |-> NoGroup,
                     over |-> sweep.over \cup {sweep.at}]
        /\ pgids' \subseteq pgids
        /\ UNCHANGED <<others, doomed>>
    BY <1>5 DEF Reap
  <2>. QED BY <1>5, <2>1, <2>2, <2>3 DEF Reap
<1>6. CASE ForgetAll
  BY <1>6 DEF ForgetAll
<1>. QED BY <1>1, <1>2, <1>3, <1>4, <1>5, <1>6

----------------------------------------------------------------------------
(* Tasks                                                                    *)

TaskType ==
    /\ task \in [Tasks -> {"new", "run", "cancelling", "done"}]
    /\ entry \in BOOLEAN
    /\ tracked \subseteq Tasks /\ dropped \subseteq Tasks
    /\ call \in [Callers -> [pc : {"idle", "wait", "returned"}, pending : SUBSET Tasks,
                             left : SUBSET Tasks]]

\* Besides the property itself: a call that has not begun waits for no task.
TaskInv ==
    /\ TaskType
    /\ \A c \in Callers : call[c].pc = "idle" => call[c].pending = {}
    /\ NoTaskLost

\* What the tasks and their owners do preserves the invariant.
LEMMA TaskStepInv ==
    ASSUME TaskInv, NEW t \in Tasks,
           RegisterTask(t) \/ TaskEnds(t) \/ TaskRefuses(t) \/ Unregister(t)
    PROVE  TaskInv'
<1>. USE DEF TaskInv, TaskType, NoTaskLost
<1>1. CASE RegisterTask(t)
  BY <1>1 DEF RegisterTask
<1>2. CASE TaskEnds(t)
  BY <1>2 DEF TaskEnds
<1>3. CASE TaskRefuses(t)
  BY <1>3 DEF TaskRefuses
<1>4. CASE Unregister(t)
  BY <1>4 DEF Unregister
<1>. QED BY <1>1, <1>2, <1>3, <1>4

\* A call of cancel_all preserves it, from before its await to after it.
LEMMA CallStepInv ==
    ASSUME TaskInv, NEW c \in Callers, CancelAll(c) \/ CancelEnds(c)
    PROVE  TaskInv'
<1>. USE DEF TaskInv, TaskType, NoTaskLost
<1>1. CASE CancelAll(c)
  <2>1. CASE tracked = {}
    <3>1. /\ task' = task /\ tracked' = {} /\ dropped' = dropped /\ entry' = FALSE
          /\ call' = [call EXCEPT ![c] = [@ EXCEPT !.pc = "returned"]]
          /\ call[c].pc = "idle"
      BY <1>1, <2>1 DEF CancelAll
    <3>2. TaskType'
      BY <3>1
    <3>3. /\ call'[c].pending = {} /\ call'[c].pc = "returned"
          /\ \A d \in Callers \ {c} : call'[d] = call[d]
      BY <3>1
    <3>4. entry' = (tracked' # {})
      BY <3>1, Zenon
    <3>5. \A t \in Tasks : ~(task'[t] \in {"run", "cancelling"} /\ t \notin dropped')
      BY <3>1, <2>1
    <3>. QED BY <3>1, <3>2, <3>3, <3>4, <3>5
  <2>2. CASE tracked # {}
    BY <1>1, <2>2 DEF CancelAll
  <2>. QED BY <2>1, <2>2
<1>2. CASE CancelEnds(c)
  BY <1>2 DEF CancelEnds, Ended
<1>. QED BY <1>1, <1>2

----------------------------------------------------------------------------
\* Groups and tasks do not meet, and both invariants hold in every reachable
\* state.
LEMMA InterruptsAlways == InterruptSpec => [](GroupInv /\ TaskInv)
<1>1. InterruptInit => GroupInv /\ TaskInv
  <2>. SUFFICES ASSUME InterruptInit PROVE GroupInv /\ TaskInv
    OBVIOUS
  <2>1. GroupInv
    BY DEF InterruptInit, GroupInv, GroupType, SweepInv, NoSurvivor
  <2>2. TaskType /\ \A c \in Callers : call[c].pc = "idle" /\ call[c].pending = {}
    BY DEF InterruptInit, TaskType
  <2>3. entry = FALSE /\ tracked = {} /\ \A t \in Tasks : task[t] = "new"
    BY DEF InterruptInit
  <2>. QED BY <2>1, <2>2, <2>3 DEF TaskInv, NoTaskLost
<1>2. GroupInv /\ TaskInv /\ [InterruptNext]_(interruptVars) => (GroupInv /\ TaskInv)'
  <2>. SUFFICES ASSUME GroupInv, TaskInv, [InterruptNext]_(interruptVars)
       PROVE  GroupInv' /\ TaskInv'
    OBVIOUS
  <2>1. UNCHANGED groupVars => GroupInv'
    BY DEF groupVars, GroupInv, GroupType, SweepInv, NoSurvivor, Running
  <2>2. UNCHANGED taskVars => TaskInv'
    BY DEF taskVars, TaskInv, TaskType, NoTaskLost
  <2>3. ASSUME NEW g \in Groups,
               \/ Popen(g) \/ Register(g) \/ Fork(g) \/ LeaderExits(g)
               \/ OtherExits(g) \/ OwnerWaits(g)
        PROVE  GroupInv' /\ TaskInv'
    <3>1. UNCHANGED taskVars
      BY <2>3 DEF Popen, Register, Fork, LeaderExits,
                  OtherExits, OwnerWaits
    <3>. QED BY <3>1, <2>2, <2>3, ProcessStepInv
  <2>4. CASE \/ InterruptAll \/ WaitForExit \/ SigKill
             \/ Reap \/ ForgetAll
             \/ \E g \in Groups : SigInt(g)
    <3>1. UNCHANGED taskVars
      BY <2>4 DEF InterruptAll, WaitForExit, SigKill, Reap,
                  ForgetAll, SigInt
    <3>. QED BY <3>1, <2>2, <2>4, SweepStepInv
  <2>5. ASSUME NEW t \in Tasks,
               RegisterTask(t) \/ TaskEnds(t) \/ TaskRefuses(t) \/ Unregister(t)
        PROVE  GroupInv' /\ TaskInv'
    <3>1. UNCHANGED groupVars
      BY <2>5 DEF RegisterTask, TaskEnds, TaskRefuses, Unregister
    <3>. QED BY <3>1, <2>1, <2>5, TaskStepInv
  <2>6. ASSUME NEW c \in Callers, CancelAll(c) \/ CancelEnds(c)
        PROVE  GroupInv' /\ TaskInv'
    <3>1. UNCHANGED groupVars
      BY <2>6 DEF CancelAll, CancelEnds
    <3>. QED BY <3>1, <2>1, <2>6, CallStepInv
  <2>7. CASE UNCHANGED interruptVars
    BY <2>7, <2>1, <2>2 DEF interruptVars
  <2>. QED BY <2>3, <2>4, <2>5, <2>6, <2>7 DEF InterruptNext, GroupNext, TaskNext
<1>. QED BY <1>1, <1>2, PTL DEF InterruptSpec

\* When interrupt has returned, no process of the group gets away.
THEOREM InterruptedGroupsEnd == InterruptSpec => []NoSurvivor
<1>1. GroupInv => NoSurvivor
  BY DEF GroupInv, SweepInv
<1>. QED BY <1>1, InterruptsAlways, PTL

\* cancel_all loses no task that still runs, and says which ones do.
THEOREM TasksStayCancellable == InterruptSpec => []NoTaskLost
<1>1. TaskInv => NoTaskLost
  BY DEF TaskInv
<1>. QED BY <1>1, InterruptsAlways, PTL

----------------------------------------------------------------------------
(* Launching a run                                                          *)

\* The answers are those of the code's functions.
LaunchInv ==
    /\ problem \in Runs \cup Keys \cup Meetings
    /\ answer # Unsolved =>
          \/ problem \in Runs /\ answer = run_live(problem)
          \/ problem \in Keys /\ answer = authenticate(problem.mode, problem)
          \/ problem \in Meetings /\ answer = meet(problem)

\* A problem is solved by the function of its kind, once.
LEMMA LaunchInvariant == LaunchSpec => []LaunchInv
<1>1. LaunchInit => LaunchInv
  BY DEF LaunchInit, LaunchInv
<1>2. LaunchInv /\ [LaunchNext]_launchVars => LaunchInv'
  <2> SUFFICES ASSUME LaunchInv, [LaunchNext]_launchVars PROVE LaunchInv'
    OBVIOUS
  <2>0. /\ \A r \in Runs : r.kind = "live"
        /\ \A r \in Keys : r.kind = "key"
        /\ \A r \in Meetings : r.kind = "meet"
    BY DEF Runs, Keys, Meetings
  <2>1. CASE Live
    BY <2>0, <2>1 DEF Live, Given, LaunchInv
  <2>2. CASE Key
    BY <2>0, <2>2 DEF Key, Given, LaunchInv
  <2>3. CASE Meet
    BY <2>0, <2>3 DEF Meet, Given, LaunchInv
  <2>4. CASE UNCHANGED launchVars
    BY <2>4 DEF launchVars, LaunchInv
  <2> QED
    BY <2>1, <2>2, <2>3, <2>4 DEF LaunchNext
<1> QED
  BY <1>1, <1>2, PTL DEF LaunchSpec

\* Min of a set of numbers is the member that is below the others.
LEMMA MinIs ==
    ASSUME NEW S \in SUBSET Nat, NEW x \in S, \A y \in S : x <= y
    PROVE  Min(S) = x
<1>1. \A y \in S : (\A z \in S : y <= z) => y = x
  OBVIOUS
<1> QED
  BY <1>1 DEF Min

\* The parts of a triple.
LEMMA Triple ==
    ASSUME NEW a, NEW b, NEW c
    PROVE  <<a, b, c>>[1] = a /\ <<a, b, c>>[2] = b /\ <<a, b, c>>[3] = c
OBVIOUS

\* get asks the environment, the keyring and the file, in this order.
LEMMA GetCases ==
    ASSUME NEW s
    PROVE  /\ s.env # None => get(s) = s.env
           /\ s.env = None /\ s.keyring => get(s) = "key of the keyring"
           /\ s.env = None /\ ~s.keyring /\ s.file = "0600" => get(s) = "key of the file"
           /\ s.env = None /\ ~s.keyring /\ s.file \in {"absent", "loose"} => get(s) \in Errors
BY DEF get, Errors

\* Of the sources that have a key, the first one's is used.
LEMMA KeysRight ==
    ASSUME problem \in Keys, answer = authenticate(problem.mode, problem)
    PROVE  FirstKey
<1> DEFINE two     == IF problem.keyring THEN "key of the keyring" ELSE None
           three   == IF problem.file = "0600" THEN "key of the file" ELSE None
           sources == <<problem.env, two, three>>
           found   == {i \in 1..3 : sources[i] # None}
           mode    == problem.mode
<1>1. /\ problem.env \notin Errors
      /\ problem.keyring \in BOOLEAN /\ problem.file \in {"absent", "loose", "0600"}
  BY LaunchAssumption DEF Keys, Errors, None
<1>2. FirstKey <=> answer = IF normalized(mode) = "api_key" /\ found # {}
                            THEN [error |-> "none", key |-> sources[Min(found)]]
                            ELSE [error |-> "AuthError"]
  BY DEF FirstKey
<1>3. answer = IF normalized(mode) = "api_key" /\ get(problem) \notin Errors
               THEN [error |-> "none", key |-> get(problem)] ELSE [error |-> "AuthError"]
  BY DEF authenticate
<1>4. /\ problem.keyring => two = "key of the keyring"
      /\ ~problem.keyring => two = None
      /\ problem.file = "0600" => three = "key of the file"
      /\ problem.file # "0600" => three = None
  OBVIOUS
<1> HIDE DEF two, three
<1>5. sources[1] = problem.env /\ sources[2] = two /\ sources[3] = three
  BY Triple
<1> HIDE DEF sources
<1>6. /\ found \in SUBSET Nat /\ found \subseteq 1..3
      /\ 1 \in found <=> problem.env # None
      /\ 2 \in found <=> two # None
      /\ 3 \in found <=> three # None
  BY <1>5
<1> HIDE DEF found
<1>7. "key of the keyring" \notin Errors \cup {None} /\ "key of the file" \notin Errors \cup {None}
  BY DEF Errors, None
<1>8. SUFFICES \/ found = {} /\ get(problem) \in Errors
               \/ found # {} /\ get(problem) \notin Errors /\ sources[Min(found)] = get(problem)
  BY <1>2, <1>3
<1>9. CASE problem.env # None
  <2>1. 1 \in found /\ \A y \in found : 1 <= y
    BY <1>6, <1>9
  <2>2. Min(found) = 1
    BY <2>1, <1>6, MinIs
  <2> QED
    BY <2>1, <2>2, <1>1, <1>5, <1>9, GetCases
<1>10. CASE problem.env = None /\ problem.keyring
  <2>1. 2 \in found /\ 1 \notin found
    BY <1>4, <1>6, <1>7, <1>10
  <2>2. \A y \in found : 2 <= y
    BY <2>1, <1>6
  <2>3. Min(found) = 2
    BY <2>1, <2>2, <1>6, MinIs
  <2> QED
    BY <2>1, <2>3, <1>4, <1>5, <1>7, <1>10, GetCases
<1>11. CASE problem.env = None /\ ~problem.keyring /\ problem.file = "0600"
  <2>1. 3 \in found /\ 1 \notin found /\ 2 \notin found
    BY <1>4, <1>6, <1>7, <1>11
  <2>2. \A y \in found : 3 <= y
    BY <2>1, <1>6
  <2>3. Min(found) = 3
    BY <2>1, <2>2, <1>6, MinIs
  <2> QED
    BY <2>1, <2>3, <1>4, <1>5, <1>7, <1>11, GetCases
<1>12. CASE problem.env = None /\ ~problem.keyring /\ problem.file # "0600"
  <2>1. 1 \notin found /\ 2 \notin found /\ 3 \notin found
    BY <1>4, <1>6, <1>12
  <2>2. found = {}
    BY <2>1, <1>6
  <2> QED
    BY <2>2, <1>1, <1>12, GetCases
<1> QED
  BY <1>9, <1>10, <1>11, <1>12

\* A specification is malformed or means itself.
LEMMA Parsed ==
    ASSUME NEW s \in Specs \cup Known
    PROVE  \/ parse_endpoint(s) = Malformed
           \/ parse_endpoint(s) = s /\ s.kind = "unix"
           \/ parse_endpoint(s) = s /\ s.kind = "tcp" /\ s.port \in Nat
<1>1. s.kind = "unix" \/ (s.kind = "tcp" /\ s.port \in Int)
  BY LaunchAssumption
<1>2. CASE s.kind = "unix"
  BY <1>2 DEF parse_endpoint
<1>3. CASE s.kind = "tcp" /\ s.port \in Int
  <2>1. CASE s.port >= 0 /\ s.host \in {"127.0.0.1", "localhost"}
    <3>1. s.port \in Nat
      BY <2>1, <1>3
    <3> QED
      BY <1>3, <2>1, <3>1 DEF parse_endpoint
  <2>2. CASE ~(s.port >= 0 /\ s.host \in {"127.0.0.1", "localhost"})
    BY <1>3, <2>2 DEF parse_endpoint
  <2> QED
    BY <2>1, <2>2
<1> QED
  BY <1>1, <1>2, <1>3

\* The parts of an endpoint.
LEMMA EndpointParts ==
    /\ Malformed.kind = "TransportError" /\ Nothing.kind = "none"
    /\ Unix("derived").kind = "unix"
    /\ \A p : /\ Tcp("127.0.0.1", p).kind = "tcp" /\ Tcp("127.0.0.1", p).port = p
              /\ Tcp("127.0.0.1", p).host = "127.0.0.1"
BY DEF Malformed, Nothing, Unix, Tcp

\* Where a broker is bound, its endpoint is one that can be read back.
LEMMA BoundEndpoints ==
    ASSUME NEW flag \in {Nothing} \cup Specs, NEW af_unix \in BOOLEAN, NEW b,
           b = bind(flag, af_unix)
    PROVE  /\ b.kind = "tcp" => /\ b.port \in Nat \ {0} /\ b.host = "127.0.0.1"
                                /\ parse_endpoint(b) = b
           /\ b.kind = "unix" => af_unix
<1> DEFINE e == IF flag # Nothing THEN parse_endpoint(flag) ELSE Default(af_unix, 0)
<1>1. \/ e = Malformed
      \/ e.kind = "unix"
      \/ e.kind = "tcp" /\ e.port \in Nat
  <2>1. CASE flag = Nothing
    <3>1. e = Default(af_unix, 0)
      BY <2>1
    <3>2. e = Unix("derived") \/ e = Tcp("127.0.0.1", 0)
      BY <3>1 DEF Default
    <3> QED
      BY <3>2, EndpointParts
  <2>2. CASE flag # Nothing
    <3>1. e = parse_endpoint(flag)
      BY <2>2
    <3> QED
      BY <3>1, <2>2, Parsed
  <2> QED
    BY <2>1, <2>2
<1>2. b = CASE e.kind = "unix" /\ ~af_unix -> Malformed
            [] e.kind = "tcp" -> Tcp("127.0.0.1", IF e.port = 0 THEN 40000 ELSE e.port)
            [] OTHER          -> e
  BY DEF bind
<1> HIDE DEF e
<1>3. CASE e = Malformed
  BY <1>2, <1>3, EndpointParts
<1>4. CASE e.kind = "unix"
  BY <1>2, <1>4, EndpointParts
<1>5. CASE e.kind = "tcp" /\ e.port \in Nat
  <2> DEFINE p == IF e.port = 0 THEN 40000 ELSE e.port
  <2>1. p \in Nat \ {0}
    BY <1>5
  <2>2. b = Tcp("127.0.0.1", p)
    BY <1>2, <1>5
  <2> HIDE DEF p
  <2>3. b.kind = "tcp" /\ b.port = p /\ b.host = "127.0.0.1"
    BY <2>2, EndpointParts
  <2>4. parse_endpoint(b) = b
    BY <2>1, <2>3 DEF parse_endpoint
  <2> QED
    BY <2>1, <2>3, <2>4
<1> QED
  BY <1>1, <1>3, <1>4, <1>5

\* A client that is over nothing looks where the broker is.
LEMMA MeetingsRight ==
    ASSUME problem \in Meetings, answer = meet(problem)
    PROVE  ClientMeets
<1> DEFINE bound == bind(problem.flag, problem.af_unix)
           file  == publish_endpoint(bound, problem.old)
           alive == problem.others \cup {bound}
<1>0. /\ problem.flag \in {Nothing} \cup Specs /\ problem.af_unix \in BOOLEAN
      /\ problem.old \in {Nothing} \cup Known /\ problem.others \subseteq Known
  BY DEF Meetings
<1>1. Nothing \notin Known
  BY LaunchAssumption, EndpointParts
<1>2. answer.bound = bound
  BY DEF meet
<1>3. answer.client = resolve_live_endpoint(problem.explicit, problem.configured, file, alive,
                                            problem.af_unix)
  BY DEF meet
<1>4. /\ bound.kind = "tcp" => /\ bound.port \in Nat \ {0} /\ bound.host = "127.0.0.1"
                               /\ parse_endpoint(bound) = bound
      /\ bound.kind = "unix" => problem.af_unix
  BY <1>0, BoundEndpoints
<1>5. file = IF bound.kind = "tcp" THEN bound ELSE problem.old
  BY DEF publish_endpoint
<1> HIDE DEF bound, file
<1>6. ASSUME problem.explicit = Nothing, problem.configured = Nothing
      PROVE  answer.client = IF read_endpoint(file) \in alive THEN file
                             ELSE Default(problem.af_unix, 8765)
  BY <1>3, <1>6 DEF resolve_live_endpoint
<1>7. ASSUME problem.explicit = Nothing, problem.configured = Nothing, bound.kind = "tcp"
      PROVE  answer.client = bound
  <2>1. file = bound
    BY <1>5, <1>7
  <2>2. read_endpoint(file) = bound
    BY <2>1, <1>4, <1>7, EndpointParts DEF read_endpoint
  <2> QED
    BY <1>6, <1>7, <2>1, <2>2
<1>8. ASSUME problem.explicit = Nothing, problem.configured = Nothing,
             bound = Unix("derived"), problem.old \notin problem.others
      PROVE  answer.client = bound
  <2>1. bound.kind = "unix" /\ problem.af_unix /\ bound # Nothing
    BY <1>4, <1>8, EndpointParts
  <2>2. file = problem.old
    BY <2>1, <1>5
  <2>3. read_endpoint(file) = Nothing \/ read_endpoint(file) = file
    BY DEF read_endpoint
  <2>4. Nothing \notin alive
    BY <1>0, <1>1, <2>1
  <2>5. Default(problem.af_unix, 8765) = bound
    BY <2>1, <1>8 DEF Default
  <2> QED
    BY <1>6, <1>8, <2>2, <2>3, <2>4, <2>5
<1> QED
  BY <1>2, <1>4, <1>7, <1>8 DEF ClientMeets

\* A non-empty set of naturals has a least element.
LEMMA LeastExists ==
    ASSUME NEW T \in SUBSET Nat, T # {} PROVE \E t \in T : \A y \in T : t <= y
<1>. DEFINE R == {ss \in Nat \X Nat : ss[1] < ss[2]}
<1>1. IsWellFoundedOn(R, Nat)
  BY NatLessThanWellFounded DEF OpToRel
<1>2. PICK t \in T : \A y \in T : ~ (<<y, t>> \in R)
  <2>. HIDE DEF R
  <2>. QED BY <1>1, WFMin
<1>3. ASSUME NEW y \in T PROVE t <= y
  <2>1. <<y, t>> \in Nat \X Nat /\ <<y, t>>[1] = y /\ <<y, t>>[2] = t
    OBVIOUS
  <2>2. ~(y < t)
    BY <1>2, <2>1
  <2>. QED BY <2>2
<1>. QED BY <1>3

\* Max of a set of indices is its largest element.
LEMMA MaxFacts ==
    ASSUME NEW n \in Nat, NEW S \in SUBSET (1..n), S # {}
    PROVE  Max(S) \in S /\ \A y \in S : y <= Max(S)
<1>. DEFINE T == {u \in Nat : \A y \in S : y <= u}
<1>1. T \in SUBSET Nat /\ n \in T
  OBVIOUS
<1>2. PICK u \in T : \A y \in T : u <= y
  BY <1>1, LeastExists
<1>3. u \in S
  <2>. SUFFICES ASSUME u \notin S PROVE FALSE
    OBVIOUS
  <2>1. PICK y \in S : TRUE
    OBVIOUS
  <2>2. u \in Nat /\ u >= 1 /\ \A z \in S : z < u
    BY <2>1, <1>2
  <2>3. u - 1 \in T
    BY <2>2
  <2>. QED BY <1>2, <2>2, <2>3
<1>4. u \in S /\ \A y \in S : u >= y
  BY <1>2, <1>3
<1>5. Max(S) \in S /\ \A y \in S : Max(S) >= y
  BY <1>4 DEF Max
<1>. QED BY <1>5

\* SetToSeq lists every member of a finite set.
LEMMA Listed ==
    ASSUME NEW S, IsFiniteSet(S)
    PROVE  SetToSeq(S) \in Seq(S) /\ ToSet(SetToSeq(S)) = S
<1> DEFINE n == Cardinality(S)
           f == SetToSeq(S)
<1>1. n \in Nat /\ ExistsBijection(1..n, S)
  BY FS_CardinalityType
<1>2. IsFiniteSet(1..n) /\ Cardinality(1..n) = n
  BY <1>1, FS_Interval
<1>3. \E g \in [1..n -> S] : IsInjective(g)
  BY <1>1 DEF ExistsBijection, Bijection, Injection, IsInjective
<1>4. f \in [1..n -> S] /\ IsInjective(f)
  BY <1>3 DEF SetToSeq
<1>5. f \in Injection(1..n, S)
  BY <1>4 DEF Injection, IsInjective
<1>6. f \in Surjection(1..n, S)
  BY <1>2, <1>5, FS_Injection
<1>7. \A x \in S : \E i \in 1..n : f[i] = x
  BY <1>6 DEF Surjection
<1> HIDE DEF f
<1>8. f \in Seq(S) /\ DOMAIN f = 1..n
  BY <1>1, <1>4
<1>9. ToSet(f) = S
  BY <1>4, <1>7, <1>8 DEF ToSet
<1> QED
  BY <1>8, <1>9 DEF f

\* Two lists one after the other have the members of both.
LEMMA ConcatMembers ==
    ASSUME NEW S, NEW a \in Seq(S), NEW b \in Seq(S)
    PROVE  a \o b \in Seq(S) /\ ToSet(a \o b) = ToSet(a) \cup ToSet(b)
<1>1. /\ a \o b \in Seq(S) /\ Len(a) \in Nat /\ Len(b) \in Nat
      /\ DOMAIN a = 1..Len(a) /\ DOMAIN b = 1..Len(b)
      /\ DOMAIN (a \o b) = 1..(Len(a) + Len(b))
      /\ \A i \in 1..(Len(a) + Len(b)) :
            (a \o b)[i] = IF i <= Len(a) THEN a[i] ELSE b[i - Len(a)]
  OBVIOUS
<1>2. ASSUME NEW x \in ToSet(a) PROVE x \in ToSet(a \o b)
  <2>1. PICK i \in 1..Len(a) : a[i] = x
    BY <1>1, <1>2 DEF ToSet
  <2> QED
    BY <1>1, <2>1 DEF ToSet
<1>3. ASSUME NEW x \in ToSet(b) PROVE x \in ToSet(a \o b)
  <2>1. PICK i \in 1..Len(b) : b[i] = x
    BY <1>1, <1>3 DEF ToSet
  <2>2. Len(a) + i \in 1..(Len(a) + Len(b)) /\ ~(Len(a) + i <= Len(a)) /\ (Len(a) + i) - Len(a) = i
    BY <1>1
  <2>3. (a \o b)[Len(a) + i] = x
    BY <1>1, <2>1, <2>2
  <2> QED
    BY <1>1, <2>2, <2>3 DEF ToSet
<1>4. ASSUME NEW x \in ToSet(a \o b) PROVE x \in ToSet(a) \cup ToSet(b)
  <2>1. PICK i \in 1..(Len(a) + Len(b)) : (a \o b)[i] = x
    BY <1>1, <1>4 DEF ToSet
  <2>2. CASE i <= Len(a)
    BY <1>1, <2>1, <2>2 DEF ToSet
  <2>3. CASE ~(i <= Len(a))
    <3>1. i - Len(a) \in 1..Len(b) /\ b[i - Len(a)] = x
      BY <1>1, <2>1, <2>3
    <3> QED
      BY <1>1, <3>1 DEF ToSet
  <2> QED
    BY <2>2, <2>3
<1> QED
  BY <1>1, <1>2, <1>3, <1>4

\* The names of the providers that have an adapter.
LEMMA Adapters ==
    /\ DOMAIN REGISTRY = {"anthropic", "openrouter"}
    /\ \A p \in {"anthropic", "openrouter"} : REGISTRY[p] # "UnknownProviderError"
    /\ \A p \in ProviderIds : Lower(p) = p /\ to_provider_id(p) = p
    /\ {"anthropic", "openrouter"} \subseteq ProviderIds
<1>1. \A p \in ProviderIds : Lower(p) = p
  BY TextAssumption
<1>2. \A p \in ProviderIds : to_provider_id(p) = p
  BY <1>1 DEF to_provider_id
<1> QED
  BY <1>1, <1>2 DEF REGISTRY, ProviderIds

\* No block registers the default model of a provider.
LEMMA DefaultsUnregistered ==
    ASSUME NEW blocks, NEW pid \in DOMAIN REGISTRY
    PROVE  REGISTRY[pid] \notin models(blocks)
<1>1. ASSUME NEW p \in ProviderIds PROVE REGISTRY[pid] \notin model_ids_for(p)
  BY DEF REGISTRY, ProviderIds, model_ids_for
<1>2. \A b : to_provider_id(b) \in ProviderIds
  BY DEF to_provider_id, ProviderIds
<1> QED
  BY <1>1, <1>2 DEF models

\* The policy of a provider that has a block is that of a block taken for it.
LEMMA PolicyFrom ==
    ASSUME NEW blocks \in Seq(STRING), NEW pid \in ProviderIds, pid \in ToSet(blocks)
    PROVE  /\ policy(pid, blocks) \in ToSet(blocks)
           /\ ToSet(blocks) \subseteq ProviderIds => policy(pid, blocks) = pid
<1> DEFINE I == {i \in DOMAIN blocks : to_provider_id(blocks[i]) = pid}
           from == blocks[Max(I)]
<1>1. DOMAIN blocks = 1..Len(blocks) /\ Len(blocks) \in Nat
  OBVIOUS
<1>2. PICK k \in DOMAIN blocks : blocks[k] = pid
  BY DEF ToSet
<1>3. Lower(pid) = pid /\ to_provider_id(pid) = pid
  BY Adapters
<1>4. I \in SUBSET (1..Len(blocks)) /\ I # {}
  BY <1>1, <1>2, <1>3
<1>5. Max(I) \in I
  BY <1>1, <1>4, MaxFacts
<1>6. pid \in {to_provider_id(b) : b \in ToSet(blocks)}
  BY <1>3
<1>7. policy(pid, blocks) = from
  <2>1. policies(blocks)[pid] = from /\ pid \in DOMAIN policies(blocks)
    BY <1>6 DEF policies
  <2> QED
    BY <2>1, <1>3 DEF policy
<1>8. from \in ToSet(blocks) /\ to_provider_id(from) = pid
  BY <1>5 DEF ToSet
<1>9. ToSet(blocks) \subseteq ProviderIds => from = pid
  BY <1>8, Adapters
<1> QED
  BY <1>7, <1>8, <1>9

\* Finitely many settings are in finitely many sections.
LEMMA SectionsFinite ==
    ASSUME NEW S, IsFiniteSet(S)
    PROVE  IsFiniteSet({n.section : n \in S})
<1> DEFINE T == {n.section : n \in S}
           g == [n \in S |-> n.section]
<1>1. g \in Surjection(S, T)
  BY DEF Surjection
<1> QED
  BY <1>1, FS_Surjection

\* cfg is valid exactly when the file is and all that is set is of its kind, and
\* has the settings of both and their blocks.
LoadedFrom(cfg, f, e, over) ==
    /\ cfg.error = "none" <=>
          /\ f.state # "broken"
          /\ \A n \in over : Accepts(FieldType(n), coerce(e[n]))
          /\ \A n \in DOMAIN f.data \ over : Accepts(FieldType(n), f.data[n])
    /\ cfg.error = "none" =>
          /\ cfg.data = [n \in over \cup DOMAIN f.data |->
                           IF n \in over THEN coerce(e[n]) ELSE f.data[n]]
          /\ cfg.blocks \in Seq(STRING)
          /\ ToSet(cfg.blocks) =
                ToSet(f.blocks) \cup ({n.section : n \in over} \ {"top", "broker"})

\* What load_config makes of a file and an environment.
LEMMA Loaded ==
    ASSUME NEW f \in Files, NEW e \in Environments, NEW cfg, cfg = load_config(f, e),
           NEW over, over = {n \in DOMAIN e : ~is_secret_key(n)}
    PROVE  LoadedFrom(cfg, f, e, over)
<1> DEFINE data  == [n \in over \cup DOMAIN f.data |->
                        IF n \in over THEN coerce(e[n]) ELSE f.data[n]]
           named == {n.section : n \in DOMAIN data} \ {"top", "broker"}
           new   == named \ ToSet(f.blocks)
           bad   == f.state = "broken" \/ \E n \in DOMAIN data : ~Accepts(FieldType(n), data[n])
<1>1. /\ f.state = "absent" => f.data = <<>> /\ f.blocks = <<>>
      /\ f.blocks \in Seq(STRING)
      /\ IsFiniteSet(DOMAIN f.data)
      /\ \A n \in DOMAIN f.data : n.section \in ToSet(f.blocks) \cup {"top", "broker"}
      /\ IsFiniteSet(DOMAIN e)
      /\ \A n \in DOMAIN e : n.section \in STRING
  BY LaunchAssumption
<1>2. (IF f.state = "absent" THEN <<>> ELSE f.data) = f.data
  BY <1>1
<1>3. (IF f.state = "absent" THEN <<>> ELSE f.blocks) = f.blocks
  BY <1>1
<1>4. apply_env_overrides(f.data, e) = data
  BY DEF apply_env_overrides
<1>5. cfg = IF bad THEN [error |-> "ConfigError"]
            ELSE [error |-> "none", data |-> data, blocks |-> f.blocks \o SetToSeq(new)]
  BY <1>2, <1>3, <1>4 DEF load_config
<1>6. DOMAIN data = over \cup DOMAIN f.data
  OBVIOUS
<1>7. /\ \A n \in over : data[n] = coerce(e[n])
      /\ \A n \in DOMAIN f.data \ over : data[n] = f.data[n]
  OBVIOUS
<1>8. named = ({n.section : n \in over} \cup {n.section : n \in DOMAIN f.data}) \ {"top", "broker"}
  BY <1>6
<1> HIDE DEF data
<1>9. ~bad <=> /\ f.state # "broken"
               /\ \A n \in over : Accepts(FieldType(n), coerce(e[n]))
               /\ \A n \in DOMAIN f.data \ over : Accepts(FieldType(n), f.data[n])
  BY <1>6, <1>7
<1>10. IsFiniteSet(named) /\ IsFiniteSet(new)
  <2>1. IsFiniteSet(over)
    BY <1>1, FS_Subset
  <2>2. IsFiniteSet(over \cup DOMAIN f.data)
    BY <2>1, <1>1, FS_Union
  <2>3. IsFiniteSet({n.section : n \in over \cup DOMAIN f.data})
    BY <2>2, SectionsFinite
  <2> QED
    BY <2>3, <1>6, FS_Subset
<1>11. new = ({n.section : n \in over} \ {"top", "broker"}) \ ToSet(f.blocks)
  BY <1>1, <1>8
<1>12. new \subseteq STRING
  BY <1>1, <1>11
<1> HIDE DEF named, new
<1>13. SetToSeq(new) \in Seq(STRING) /\ ToSet(SetToSeq(new)) = new
  <2>1. SetToSeq(new) \in Seq(new) /\ ToSet(SetToSeq(new)) = new
    BY <1>10, Listed
  <2>2. Len(SetToSeq(new)) \in Nat /\ SetToSeq(new) \in [1..Len(SetToSeq(new)) -> new]
    BY <2>1
  <2>3. SetToSeq(new) \in [1..Len(SetToSeq(new)) -> STRING]
    BY <2>2, <1>12
  <2>4. SetToSeq(new) \in Seq(STRING)
    BY <2>2, <2>3
  <2> QED
    BY <2>1, <2>4
<1>14. /\ f.blocks \o SetToSeq(new) \in Seq(STRING)
       /\ ToSet(f.blocks \o SetToSeq(new)) = ToSet(f.blocks) \cup new
  BY <1>1, <1>13, ConcatMembers
<1> HIDE DEF bad
<1>15. CASE bad
  <2>1. cfg.error = "ConfigError"
    BY <1>5, <1>15
  <2> QED
    BY <2>1, <1>9, <1>15 DEF LoadedFrom
<1>16. CASE ~bad
  <2>1. cfg.error = "none" /\ cfg.data = data /\ cfg.blocks = f.blocks \o SetToSeq(new)
    BY <1>5, <1>16
  <2>2. ToSet(cfg.blocks) = ToSet(f.blocks) \cup ({n.section : n \in over} \ {"top", "broker"})
    BY <2>1, <1>11, <1>14
  <2> QED
    BY <2>1, <2>2, <1>9, <1>14, <1>16 DEF data, LoadedFrom
<1> QED
  BY <1>15, <1>16

\* c is a client exactly when its provider is registered and configured and a
\* key is there, and has that key and the configured address.
BuiltFrom(c, cfg, env, keyring, pid) ==
    /\ c.error = "none" <=>
          /\ pid \in DOMAIN REGISTRY /\ pid \in ToSet(cfg.blocks)
          /\ normalized(Get(cfg, Name(pid, "auth"), "api_key")) = "api_key"
          /\ KeyName(pid) \in DOMAIN env \/ keyring
    /\ c.error = "none" =>
          /\ c.base_url = LET url == Get(cfg, Name(pid, "base_url"), "")
                          IN  IF url = "" THEN "default url" ELSE url
          /\ c.key = IF KeyName(pid) \in DOMAIN env THEN env[KeyName(pid)].text
                     ELSE "key of the keyring"

\* build_client succeeds over a registered, configured provider with a key.
LEMMA ClientBuilt ==
    ASSUME NEW provider, NEW cfg, NEW env \in Environments, NEW keyring \in BOOLEAN,
           NEW pid, pid = resolve_provider(provider), NEW c, c = build_client(provider, cfg, env, keyring)
    PROVE  BuiltFrom(c, cfg, env, keyring, pid)
<1> DEFINE sec  == Secrets(pid, env, keyring)
           mode == Get(cfg, Name(pid, "auth"), "api_key")
           asked == Get(cfg, Name(pid, "base_url"), "")
           url  == IF asked = "" THEN "default url" ELSE asked
           auth == authenticate(mode, sec)
           key  == IF KeyName(pid) \in DOMAIN env THEN env[KeyName(pid)].text ELSE "key of the keyring"
           has  == KeyName(pid) \in DOMAIN env \/ keyring
<1>1. /\ sec.env = IF KeyName(pid) \in DOMAIN env THEN env[KeyName(pid)].text ELSE None
      /\ sec.keyring = keyring /\ sec.file = "absent"
  BY DEF Secrets
<1>2. KeyName(pid) \in DOMAIN env => env[KeyName(pid)].text \notin {None} \cup Errors
  BY LaunchAssumption
<1>3. c = IF pid \notin DOMAIN REGISTRY THEN [error |-> "UnknownProviderError"]
          ELSE IF pid \notin ToSet(cfg.blocks) THEN [error |-> "ProviderNotConfiguredError"]
          ELSE IF auth.error # "none" THEN auth
          ELSE [error |-> "none", key |-> auth.key, base_url |-> url]
  BY DEF build_client
<1> HIDE DEF sec
<1>4. auth = IF normalized(mode) = "api_key" /\ get(sec) \notin Errors
             THEN [error |-> "none", key |-> get(sec)] ELSE [error |-> "AuthError"]
  BY DEF authenticate
<1>5. "key of the keyring" \notin Errors
  BY DEF Errors
<1>6. /\ has => get(sec) = key /\ get(sec) \notin Errors
      /\ ~has => get(sec) \in Errors
  <2>1. CASE KeyName(pid) \in DOMAIN env
    <3>1. sec.env = env[KeyName(pid)].text /\ sec.env # None
      BY <1>1, <1>2, <2>1
    <3>2. get(sec) = env[KeyName(pid)].text
      BY <3>1, GetCases
    <3> QED
      BY <3>2, <1>2, <2>1
  <2>2. CASE KeyName(pid) \notin DOMAIN env /\ keyring
    <3>1. sec.env = None /\ sec.keyring
      BY <1>1, <2>2
    <3>2. get(sec) = "key of the keyring"
      BY <3>1, GetCases
    <3> QED
      BY <3>2, <1>5, <2>2
  <2>3. CASE KeyName(pid) \notin DOMAIN env /\ ~keyring
    <3>1. sec.env = None /\ ~sec.keyring /\ sec.file \in {"absent", "loose"}
      BY <1>1, <2>3
    <3>2. get(sec) \in Errors
      BY <3>1, GetCases
    <3> QED
      BY <3>2, <2>3
  <2> QED
    BY <2>1, <2>2, <2>3
<1> HIDE DEF auth, mode, asked, url, key, has
<1>7. /\ normalized(mode) = "api_key" /\ has => auth.error = "none" /\ auth.key = key
      /\ ~(normalized(mode) = "api_key" /\ has) => auth.error = "AuthError"
  BY <1>4, <1>6
<1>8. CASE pid \notin DOMAIN REGISTRY
  <2>1. c.error = "UnknownProviderError"
    BY <1>3, <1>8
  <2> QED
    BY <2>1, <1>8 DEF BuiltFrom
<1>9. CASE pid \in DOMAIN REGISTRY /\ pid \notin ToSet(cfg.blocks)
  <2>1. c.error = "ProviderNotConfiguredError"
    BY <1>3, <1>9
  <2> QED
    BY <2>1, <1>9 DEF BuiltFrom
<1>10. CASE pid \in DOMAIN REGISTRY /\ pid \in ToSet(cfg.blocks) /\ ~(normalized(mode) = "api_key" /\ has)
  <2>1. c = auth /\ c.error = "AuthError"
    BY <1>3, <1>7, <1>10
  <2> QED
    BY <2>1, <1>10 DEF mode, has, BuiltFrom
<1>11. CASE pid \in DOMAIN REGISTRY /\ pid \in ToSet(cfg.blocks) /\ normalized(mode) = "api_key" /\ has
  <2>1. c = [error |-> "none", key |-> auth.key, base_url |-> url]
    BY <1>3, <1>7, <1>11
  <2>2. c.error = "none" /\ c.key = key /\ c.base_url = url
    BY <2>1, <1>7, <1>11
  <2> QED
    BY <2>2, <1>11 DEF mode, has, key, asked, url, BuiltFrom
<1> QED
  BY <1>8, <1>9, <1>10, <1>11

\* No field of the models has the name of a secret.
LEMMA NoSecretField ==
    ASSUME NEW n, is_secret_key(n), NEW v PROVE ~Accepts(FieldType(n), v)
<1>1. /\ n.field \notin DOMAIN TopFields /\ n.field \notin DOMAIN BrokerFields
      /\ n.field \notin DOMAIN ProviderFields
  BY DEF is_secret_key, TopFields, BrokerFields, ProviderFields
<1>2. FieldType(n) = "extra"
  BY <1>1 DEF FieldType
<1> QED
  BY <1>2 DEF Accepts

\* A variable's value has the variable's text.
LEMMA CoerceText == ASSUME NEW raw PROVE coerce(raw).text = raw.text
BY DEF coerce, Value

\* Where the client of a run looks for the broker: what is named to it is taken
\* or refused, and without a name there is always a place to look.
LEMMA EndpointTaken ==
    ASSUME NEW explicit, NEW cfg, NEW af_unix, NEW named, NEW b,
           named = IF explicit # Nothing THEN explicit
                   ELSE Get(cfg, Name("broker", "endpoint"), Nothing),
           b = BrokerClient(explicit, cfg, Nothing, {}, af_unix)
    PROVE  /\ b # Malformed <=> (named = Nothing \/ parse_endpoint(named) # Malformed)
           /\ b # Malformed /\ named # Nothing => b = named
<1> DEFINE configured == Get(cfg, Name("broker", "endpoint"), Nothing)
<1>1. b = resolve_live_endpoint(explicit, configured, Nothing, {}, af_unix)
  BY DEF BrokerClient
<1>2. named = IF explicit # Nothing THEN explicit ELSE configured
  OBVIOUS
<1> HIDE DEF configured
<1>3. CASE named # Nothing
  <2>1. b = parse_endpoint(named)
    BY <1>1, <1>2, <1>3 DEF resolve_live_endpoint
  <2>2. parse_endpoint(named) \in {named, Malformed}
    BY DEF parse_endpoint
  <2> QED
    BY <1>3, <2>1, <2>2
<1>4. CASE named = Nothing
  <2>1. explicit = Nothing /\ configured = Nothing
    BY <1>2, <1>4
  <2>2. b = Default(af_unix, 8765)
    BY <1>1, <2>1 DEF resolve_live_endpoint
  <2>3. b # Malformed
    BY <2>2, EndpointParts DEF Default
  <2> QED
    BY <1>4, <2>3
<1> QED
  BY <1>3, <1>4

\* A run starts exactly when it can, as the operator asked for it.
LEMMA RunsRight ==
    ASSUME problem \in Runs, answer = run_live(problem)
    PROVE  RunsAsAsked
<1> DEFINE f      == problem.file
           e      == problem.env
           pid    == Lower(Strip(problem.provider))
           rid    == resolve_provider(problem.provider)
           over   == {n \in DOMAIN e : ~is_secret_key(n)}
           cfg    == load_config(f, e)
           model  == IF problem.model # None THEN problem.model
                     ELSE default_model_for(problem.provider)
           client == build_client(problem.provider, cfg, e, problem.keyring)
           named  == IF problem.endpoint # Nothing THEN problem.endpoint
                     ELSE Get(cfg, Name("broker", "endpoint"), Nothing)
           broker == BrokerClient(problem.endpoint, cfg, Nothing, {}, problem.af_unix)
           inEnv  == KeyName(pid) \in DOMAIN e
           auth   == Name(pid, "auth")
           url    == Name(pid, "base_url")
           Or(u)  == IF u = "" THEN "default url" ELSE u
           solved == [error |-> "none", cfg |-> cfg, client |-> client, broker |-> broker,
                      model |-> model, budgeted |-> model \in models(cfg.blocks),
                      reserves |-> problem.provider \in ProviderIds]
<1>0. /\ cfg = load_config(f, e) /\ over = {n \in DOMAIN e : ~is_secret_key(n)}
      /\ rid = resolve_provider(problem.provider)
      /\ client = build_client(problem.provider, cfg, e, problem.keyring)
  OBVIOUS
<1>1. /\ f \in Files /\ e \in Environments
      /\ problem.model \in {None} \cup ModelNames
      /\ problem.requirement \in {"missing", "no chunks", "ok"} /\ problem.keyring \in BOOLEAN
      /\ problem.published = Nothing /\ problem.alive = {}
  BY DEF Runs
<1>2. answer = IF cfg.error # "none" THEN cfg
               ELSE IF problem.requirement = "missing" THEN [error |-> "HarnessError"]
               ELSE IF problem.requirement = "no chunks" THEN [error |-> "EngineError"]
               ELSE IF model = "UnknownProviderError" THEN [error |-> model]
               ELSE IF client.error # "none" THEN client
               ELSE IF broker = Malformed THEN [error |-> "TransportError"]
               ELSE solved
  BY <1>1 DEF run_live
<1>a. /\ broker # Malformed <=> (named = Nothing \/ parse_endpoint(named) # Malformed)
      /\ broker # Malformed /\ named # Nothing => broker = named
  <2> HIDE DEF cfg
  <2> QED
    BY EndpointTaken
<1>b. /\ pid \in DOMAIN REGISTRY <=> rid \in DOMAIN REGISTRY
      /\ rid \in DOMAIN REGISTRY => rid = pid
  <2>1. "UnknownProviderError" \notin DOMAIN REGISTRY
    BY Adapters
  <2> QED
    BY <2>1, Adapters DEF resolve_provider
<1> HIDE DEF cfg, over, client, pid, rid, broker
<1>3. /\ cfg.error = "none" <=>
            /\ f.state # "broken"
            /\ \A n \in over : Accepts(FieldType(n), coerce(e[n]))
            /\ \A n \in DOMAIN f.data \ over : Accepts(FieldType(n), f.data[n])
      /\ cfg.error = "none" =>
            /\ cfg.data = [n \in over \cup DOMAIN f.data |->
                             IF n \in over THEN coerce(e[n]) ELSE f.data[n]]
            /\ cfg.blocks \in Seq(STRING)
            /\ ToSet(cfg.blocks) = ToSet(f.blocks) \cup ({n.section : n \in over} \ {"top", "broker"})
  <2>1. LoadedFrom(cfg, f, e, over)
    BY <1>1, <1>0, Loaded
  <2> QED
    BY <2>1 DEF LoadedFrom
<1>4. /\ client.error = "none" <=>
            /\ pid \in DOMAIN REGISTRY /\ pid \in ToSet(cfg.blocks)
            /\ normalized(Get(cfg, auth, "api_key")) = "api_key"
            /\ inEnv \/ problem.keyring
      /\ client.error = "none" =>
            /\ client.base_url = Or(Get(cfg, url, ""))
            /\ client.key = IF inEnv THEN e[KeyName(pid)].text ELSE "key of the keyring"
  <2>0. /\ e \in Environments /\ problem.keyring \in BOOLEAN
        /\ rid = resolve_provider(problem.provider)
        /\ client = build_client(problem.provider, cfg, e, problem.keyring)
    BY <1>0, <1>1
  <2>1. BuiltFrom(client, cfg, e, problem.keyring, rid)
    BY <2>0, ClientBuilt, Zenon
  <2>2. CASE rid \in DOMAIN REGISTRY
    <3>1. rid = pid
      BY <1>b, <2>2
    <3> QED
      BY <2>1, <3>1 DEF BuiltFrom
  <2>3. CASE rid \notin DOMAIN REGISTRY
    BY <1>b, <2>1, <2>3 DEF BuiltFrom
  <2> QED
    BY <2>2, <2>3
<1> USE DEF over, pid
<1>5. pid \in DOMAIN REGISTRY => /\ model # "UnknownProviderError"
                                 /\ problem.model = None => model = REGISTRY[pid]
  <2>1. pid \in DOMAIN REGISTRY => default_model_for(problem.provider) = REGISTRY[pid]
    BY <1>b, Adapters DEF default_model_for, rid
  <2>2. pid \in DOMAIN REGISTRY => REGISTRY[pid] # "UnknownProviderError"
    BY Adapters
  <2> QED
    BY <1>1, <2>1, <2>2, LaunchAssumption
<1> HIDE DEF model
<1>6. cfg.error = "none" <=> Valid
  BY <1>3 DEF Valid, IsSet
<1>7. ASSUME cfg.error = "none", NEW n, NEW d
      PROVE  Get(cfg, n, d) = Told(n, d)
  <2>1. CASE n \in over
    BY <1>3, <1>7, <2>1, CoerceText DEF Get, Told, IsSet
  <2>2. CASE n \notin over
    BY <1>3, <1>7, <2>2 DEF Get, Told, IsSet
  <2> QED
    BY <2>1, <2>2
<1>8. ASSUME cfg.error = "none", pid \in DOMAIN REGISTRY
      PROVE  pid \in ToSet(cfg.blocks) <=> HasBlock(pid)
  <2>1. pid \notin {"top", "broker"}
    BY <1>8, Adapters
  <2> QED
    BY <2>1, <1>3, <1>8 DEF HasBlock, IsSet
<1>c. cfg.error = "none" => named = Named
  BY <1>7 DEF Named
<1> DEFINE ready == /\ Valid /\ problem.requirement = "ok"
                    /\ pid \in DOMAIN REGISTRY /\ HasBlock(pid)
                    /\ normalized(Told(auth, "api_key")) = "api_key"
                    /\ inEnv \/ problem.keyring
                    /\ Named = Nothing \/ parse_endpoint(Named) # Malformed
<1> HIDE DEF named
<1>9. ASSUME ready
      PROVE  /\ cfg.error = "none" /\ client.error = "none" /\ broker # Malformed
             /\ answer = solved
  <2>1. cfg.error = "none" /\ client.error = "none"
    BY <1>4, <1>6, <1>7, <1>8, <1>9
  <2>2. model # "UnknownProviderError"
    BY <1>5, <1>9
  <2>3. broker # Malformed
    BY <1>9, <1>a, <1>c, <2>1
  <2> QED
    BY <1>2, <1>9, <2>1, <2>2, <2>3
<1>10. ASSUME ~ready PROVE answer.error # "none"
  <2>1. \/ cfg.error # "none" \/ problem.requirement # "ok" \/ client.error # "none"
        \/ broker = Malformed
    BY <1>4, <1>6, <1>7, <1>8, <1>10, <1>a, <1>c
  <2>2. CASE cfg.error # "none"
    BY <1>2, <2>2
  <2>3. CASE cfg.error = "none" /\ problem.requirement # "ok"
    <3>1. answer = [error |-> "HarnessError"] \/ answer = [error |-> "EngineError"]
      BY <1>1, <1>2, <2>3
    <3> QED
      BY <3>1
  <2>4. CASE /\ cfg.error = "none" /\ problem.requirement = "ok"
             /\ model = "UnknownProviderError"
    <3>1. answer = [error |-> "UnknownProviderError"]
      BY <1>2, <2>4
    <3> QED
      BY <3>1
  <2>5. CASE /\ cfg.error = "none" /\ problem.requirement = "ok"
             /\ model # "UnknownProviderError" /\ client.error # "none"
    BY <1>2, <2>5
  <2>6. CASE /\ cfg.error = "none" /\ problem.requirement = "ok"
             /\ model # "UnknownProviderError" /\ client.error = "none" /\ broker = Malformed
    <3>1. answer = [error |-> "TransportError"]
      BY <1>2, <2>6
    <3> QED
      BY <3>1
  <2> QED
    BY <2>1, <2>2, <2>3, <2>4, <2>5, <2>6
<1>11. ASSUME ready
       PROVE  /\ \A n \in DOMAIN cfg.data : ~is_secret_key(n)
              /\ client.base_url = Or(Told(url, ""))
              /\ client.key = IF inEnv THEN e[KeyName(pid)].text ELSE "key of the keyring"
              /\ Named # Nothing => broker = Named
              /\ policy(pid, cfg.blocks) \in ToSet(cfg.blocks)
              /\ ToSet(cfg.blocks) \subseteq ProviderIds => policy(pid, cfg.blocks) = pid
              /\ problem.model = None => model \notin models(cfg.blocks)
  <2>1. cfg.error = "none" /\ client.error = "none" /\ broker # Malformed
    BY <1>9, <1>11
  <2>2. ASSUME NEW n \in DOMAIN cfg.data PROVE ~is_secret_key(n)
    <3>1. n \in over \/ n \in DOMAIN f.data \ over
      BY <1>3, <2>1, <2>2
    <3>2. ASSUME n \in DOMAIN f.data \ over, is_secret_key(n) PROVE FALSE
      <4>1. Accepts(FieldType(n), f.data[n])
        BY <1>3, <2>1, <3>2
      <4> QED
        BY <4>1, <3>2, NoSecretField
    <3> QED
      BY <3>1, <3>2
  <2>3. pid \in ProviderIds /\ pid \in ToSet(cfg.blocks) /\ cfg.blocks \in Seq(STRING)
    BY <1>3, <1>4, <2>1, Adapters
  <2>4. /\ policy(pid, cfg.blocks) \in ToSet(cfg.blocks)
        /\ ToSet(cfg.blocks) \subseteq ProviderIds => policy(pid, cfg.blocks) = pid
    BY <2>3, PolicyFrom
  <2>5. problem.model = None => model \notin models(cfg.blocks)
    BY <1>5, <1>11, DefaultsUnregistered
  <2>6. Named # Nothing => broker = Named
    BY <1>a, <1>c, <2>1
  <2>7. Get(cfg, url, "") = Told(url, "")
    BY <1>7, <2>1
  <2> QED
    BY <2>1, <2>2, <2>4, <2>5, <2>6, <2>7, <1>4
<1> HIDE DEF ready
<1>12. answer.error = "none" <=> ready
  BY <1>9, <1>10
<1>13. RunsAsAsked <=>
          /\ answer.error = "none" <=> ready
          /\ answer.error = "none" =>
                /\ \A n \in DOMAIN answer.cfg.data : ~is_secret_key(n)
                /\ answer.client.base_url = Or(Told(url, ""))
                /\ answer.client.key = IF inEnv THEN e[KeyName(pid)].text
                                       ELSE "key of the keyring"
                /\ Named # Nothing => answer.broker = Named
                /\ policy(pid, answer.cfg.blocks) \in ToSet(answer.cfg.blocks)
                /\ ToSet(answer.cfg.blocks) \subseteq ProviderIds
                      => policy(pid, answer.cfg.blocks) = pid
                /\ problem.model = None => ~answer.budgeted
  BY DEF RunsAsAsked, ready
<1>14. CASE ready
  <2>1. /\ answer.cfg = cfg /\ answer.client = client /\ answer.broker = broker
        /\ answer.budgeted = (model \in models(cfg.blocks))
    BY <1>9, <1>14
  <2> QED
    BY <1>11, <1>12, <1>13, <1>14, <2>1
<1>15. CASE ~ready
  BY <1>12, <1>13, <1>15
<1> QED
  BY <1>14, <1>15

\* Every launch is answered as it should be, whatever the files, the
\* environment, the keys and the endpoints: load_config, SecretsProvider,
\* build_client, PolicyRegistry and resolve_live_endpoint mean the same thing.
THEOREM SettingsMeanOneThing == LaunchSpec => []SettingsAgree
<1>1. ASSUME LaunchInv PROVE SettingsAgree
  <2>0. /\ \A r \in Runs : r.kind = "live"
        /\ \A r \in Keys : r.kind = "key"
        /\ \A r \in Meetings : r.kind = "meet"
    BY DEF Runs, Keys, Meetings
  <2>1. ASSUME Solved("live") PROVE RunsAsAsked
    BY <1>1, <2>0, <2>1, RunsRight DEF LaunchInv, Solved
  <2>2. ASSUME Solved("key") PROVE FirstKey
    BY <1>1, <2>0, <2>2, KeysRight DEF LaunchInv, Solved
  <2>3. ASSUME Solved("meet") PROVE ClientMeets
    BY <1>1, <2>0, <2>3, MeetingsRight DEF LaunchInv, Solved
  <2> QED
    BY <2>1, <2>2, <2>3 DEF SettingsAgree
<1> QED
  BY <1>1, LaunchInvariant, PTL
=============================================================================
