----------------------------- MODULE Interrupts -----------------------------
(***************************************************************************)
(* What an interrupt does to the work under way: TaskRegistry.cancel_all   *)
(* cancels the asyncio tasks of an engine thread and joins them for a      *)
(* second; EscalatingInterrupt.interrupt_all goes over the process groups  *)
(* that ProcessGroupManager has spawned, SIGINT first, SIGKILL after a     *)
(* grace period.  Tasks are registered, groups are spawned and processes   *)
(* fork and exit while that goes on.                                       *)
(***************************************************************************)
EXTENDS Integers, FiniteSets

CONSTANTS
    Groups,    \* runner process groups; a group's id is its leader's pid
    MaxForks,  \* bound: processes a group holds besides its leader
    Tasks,     \* the asyncio tasks of one engine thread
    Callers    \* coroutines that call cancel_all

ASSUME InterruptsAssumption == MaxForks \in Nat \ {0}

VARIABLES
    leader,    \* each group's leader: "none", "run", "zombie", "gone"
    others,    \* how many other processes of the group run
    doomed,    \* groups whose processes have a SIGKILL pending
    added,     \* groups whose spawn has returned
    pgids,     \* the manager's registry
    sweep,     \* the thread that runs interrupt_all
    task,      \* each task: "new", "run", "cancelling", "done"
    entry,     \* the thread's key is in the registry's dict
    tracked,   \* the tasks registered under it
    dropped,   \* tasks their owner has unregistered
    call       \* each caller: its pc, its pending tasks and its answer

groupVars     == <<leader, others, doomed, added, pgids, sweep>>
taskVars      == <<task, entry, tracked, dropped, call>>
interruptVars == <<groupVars, taskVars>>

NoGroup == "nobody"

InterruptInit ==
    /\ leader = [g \in Groups |-> "none"]
    /\ others = [g \in Groups |-> 0]
    /\ doomed = {} /\ added = {} /\ pgids = {}
    /\ sweep = [pc |-> "idle", todo |-> {}, at |-> NoGroup, over |-> {}]
    /\ task = [t \in Tasks |-> "new"]
    /\ entry = FALSE /\ tracked = {} /\ dropped = {}
    /\ call = [c \in Callers |-> [pc |-> "idle", pending |-> {}, left |-> {}]]

----------------------------------------------------------------------------
(* The runner's processes.  A signal 0 or SIGINT reaches a zombie too.      *)

Running(g) == leader[g] = "run" \/ others[g] > 0
Alive(g)   == leader[g] \in {"run", "zombie"} \/ others[g] > 0

\* spawn: the session leader exists before its id is in the registry.
Popen(g) ==
    /\ leader[g] = "none"
    /\ leader' = [leader EXCEPT ![g] = "run"]
    /\ UNCHANGED <<others, doomed, added, pgids, sweep, taskVars>>

Register(g) ==
    /\ leader[g] # "none" /\ g \notin added
    /\ added' = added \cup {g} /\ pgids' = pgids \cup {g}
    /\ UNCHANGED <<leader, others, doomed, sweep, taskVars>>

Fork(g) ==
    /\ Running(g) /\ g \notin doomed /\ others[g] < MaxForks
    /\ others' = [others EXCEPT ![g] = @ + 1]
    /\ UNCHANGED <<leader, doomed, added, pgids, sweep, taskVars>>

\* Of its own accord, after a SIGINT it heeds, or of a SIGKILL.
LeaderExits(g) ==
    /\ leader[g] = "run"
    /\ leader' = [leader EXCEPT ![g] = "zombie"]
    /\ UNCHANGED <<others, doomed, added, pgids, sweep, taskVars>>

OtherExits(g) ==
    /\ others[g] > 0
    /\ others' = [others EXCEPT ![g] = @ - 1]
    /\ UNCHANGED <<leader, doomed, added, pgids, sweep, taskVars>>

\* The runner's owner waits for its Popen.
OwnerWaits(g) ==
    /\ leader[g] = "zombie"
    /\ leader' = [leader EXCEPT ![g] = "gone"]
    /\ UNCHANGED <<others, doomed, added, pgids, sweep, taskVars>>

----------------------------------------------------------------------------
(* EscalatingInterrupt.                                                     *)

InterruptAll ==
    /\ sweep.pc = "idle"
    /\ sweep' = [sweep EXCEPT !.pc = "next", !.todo = pgids]
    /\ UNCHANGED <<leader, others, doomed, added, pgids, taskVars>>

\* _signal(SIGINT) on the next group: ProcessLookupError if nobody is left.
SigInt(g) ==
    /\ sweep.pc = "next" /\ g \in sweep.todo
    /\ sweep' = [sweep EXCEPT !.pc = IF Alive(g) THEN "wait" ELSE "reap",
                              !.todo = @ \ {g}, !.at = g]
    /\ UNCHANGED <<leader, others, doomed, added, pgids, taskVars>>

\* Mutant of WaitForExit: only the leader is looked at.
WaitForLeader ==
    /\ sweep.pc = "wait"
    /\ \/ leader[sweep.at] = "gone" /\ sweep' = [sweep EXCEPT !.pc = "reap"]
       \/ leader[sweep.at] # "gone" /\ sweep' = [sweep EXCEPT !.pc = "kill"]
    /\ UNCHANGED <<leader, others, doomed, added, pgids, taskVars>>

(* _wait_for_exit: a probe that finds the group gone ends it; after one     *)
(* that finds it alive the deadline may have come.                          *)
WaitForExit ==
    /\ sweep.pc = "wait"
    /\ \/ ~Alive(sweep.at) /\ sweep' = [sweep EXCEPT !.pc = "reap"]
       \/ Alive(sweep.at) /\ sweep' = [sweep EXCEPT !.pc = "kill"]
    /\ UNCHANGED <<leader, others, doomed, added, pgids, taskVars>>

SigKill ==
    /\ sweep.pc = "kill"
    /\ doomed' = IF Running(sweep.at) THEN doomed \cup {sweep.at} ELSE doomed
    /\ sweep' = [sweep EXCEPT !.pc = "reap"]
    /\ UNCHANGED <<leader, others, added, pgids, taskVars>>

(* _reap: waitpid with WNOHANG takes the leader if it is a zombie by now;   *)
(* a leader that has not died yet stays one.  Then forget.                  *)
Reap ==
    /\ sweep.pc = "reap"
    /\ leader' = [leader EXCEPT ![sweep.at] = IF @ = "zombie" THEN "gone" ELSE @]
    /\ pgids' = pgids \ {sweep.at}
    /\ sweep' = [sweep EXCEPT !.pc = "next", !.at = NoGroup,
                              !.over = @ \cup {sweep.at}]
    /\ UNCHANGED <<others, doomed, added, taskVars>>

\* forget_all, whatever was spawned during the sweep.
ForgetAll ==
    /\ sweep.pc = "next" /\ sweep.todo = {}
    /\ pgids' = {}
    /\ sweep' = [sweep EXCEPT !.pc = "idle"]
    /\ UNCHANGED <<leader, others, doomed, added, taskVars>>

----------------------------------------------------------------------------
(* TaskRegistry, on the event loop: a step runs from one await to the next. *)

RegisterTask(t) ==
    /\ task[t] = "new"
    /\ task' = [task EXCEPT ![t] = "run"]
    /\ entry' = TRUE /\ tracked' = tracked \cup {t}
    /\ UNCHANGED <<dropped, call, groupVars>>

\* A task ends, or lets its cancellation end it; it may also swallow that.
TaskEnds(t) ==
    /\ task[t] \in {"run", "cancelling"}
    /\ task' = [task EXCEPT ![t] = "done"]
    /\ UNCHANGED <<entry, tracked, dropped, call, groupVars>>

TaskRefuses(t) ==
    /\ task[t] = "cancelling"
    /\ task' = [task EXCEPT ![t] = "run"]
    /\ UNCHANGED <<entry, tracked, dropped, call, groupVars>>

Unregister(t) ==
    /\ task[t] # "new" /\ t \notin dropped
    /\ dropped' = dropped \cup {t}
    /\ tracked' = tracked \ {t}
    /\ entry' = (entry /\ tracked' # {})
    /\ UNCHANGED <<task, call, groupVars>>

CancelAll(c) ==
    /\ call[c].pc = "idle"
    /\ \/ /\ tracked = {}
          /\ entry' = FALSE
          /\ call' = [call EXCEPT ![c].pc = "returned"]
          /\ UNCHANGED task
       \/ /\ tracked # {}
          /\ task' = [t \in Tasks |->
                IF t \in tracked /\ task[t] = "run" THEN "cancelling" ELSE task[t]]
          /\ call' = [call EXCEPT ![c].pc = "wait", ![c].pending = tracked]
          /\ UNCHANGED entry
    /\ UNCHANGED <<tracked, dropped, groupVars>>

Ended(c) == {t \in call[c].pending : task[t] = "done"}

\* Mutant of CancelEnds: the thread's key is removed with what it holds.
CancelEndsPop(c) ==
    /\ call[c].pc = "wait"
    /\ tracked' = {} /\ entry' = FALSE
    /\ call' = [call EXCEPT ![c].pc = "returned", ![c].left = @ \cup
                   (call[c].pending \ Ended(c))]
    /\ UNCHANGED <<task, dropped, groupVars>>

\* asyncio.wait returns: all pending tasks ended, or JOIN_TIMEOUT is over.
CancelEnds(c) ==
    /\ call[c].pc = "wait"
    /\ tracked' = tracked \ Ended(c)
    /\ entry' = (tracked' # {})
    /\ call' = [call EXCEPT ![c].pc = "returned", ![c].left = @ \cup
                   (call[c].pending \ Ended(c))]
    /\ UNCHANGED <<task, dropped, groupVars>>

----------------------------------------------------------------------------
GroupNext ==
    \/ \E g \in Groups :
          \/ Popen(g) \/ Register(g) \/ Fork(g) \/ LeaderExits(g)
          \/ OtherExits(g) \/ OwnerWaits(g) \/ SigInt(g)
    \/ InterruptAll \/ WaitForExit \/ SigKill \/ Reap \/ ForgetAll

TaskNext ==
    \/ \E t \in Tasks :
          RegisterTask(t) \/ TaskEnds(t) \/ TaskRefuses(t) \/ Unregister(t)
    \/ \E c \in Callers : CancelAll(c) \/ CancelEnds(c)

InterruptNext == GroupNext \/ TaskNext

InterruptSpec == InterruptInit /\ [][InterruptNext]_interruptVars

----------------------------------------------------------------------------
(* No process of an interrupted group gets away: when interrupt returns,    *)
(* every process of the group has exited or has a SIGKILL pending, also the *)
(* ones that ignored SIGINT, outlived their leader or were forked between   *)
(* the signals.                                                             *)
NoSurvivor == \A g \in sweep.over : Running(g) => g \in doomed

(* A task can always be cancelled again: one that was registered, has not   *)
(* ended and was not unregistered is tracked, whatever calls of cancel_all  *)
(* overlap; a call reports every task it was asked to cancel and that has   *)
(* not ended; and the dict keeps no key without tasks.                      *)
NoTaskLost ==
    /\ \A t \in Tasks :
          task[t] \in {"run", "cancelling"} /\ t \notin dropped => t \in tracked
    /\ \A c \in Callers : call[c].pc = "returned" =>
          \A t \in call[c].pending \ call[c].left : task[t] = "done"
    /\ entry = (tracked # {})
=============================================================================
