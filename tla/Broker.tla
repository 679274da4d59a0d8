------------------------------- MODULE Broker -------------------------------
(***************************************************************************)
(* The host-scoped rate-limit broker (src/dev_harness/broker) together     *)
(* with the clients that call it (providers/broker_routed.py and           *)
(* broker/cli.py).                                                         *)
(*                                                                         *)
(* A client is one call at a time: a caller that holds a connection and    *)
(* waits for each reply before it sends the next request, with the thread  *)
(* of the broker that serves it.  Workers that share a BrokerClient are as *)
(* many clients: `Clients` counts concurrent calls, not processes.  A step *)
(* is one critical section of the daemon (the lock of the kill switch, of  *)
(* a bucket, of the limiter, of the reservation store or of the governor), *)
(* or one unlocked read or write; everything else interleaves.             *)
(*                                                                         *)
(* Amounts of tokens, dollars and seconds are whole units.                 *)
(***************************************************************************)
EXTENDS Integers, FiniteSets

CONSTANTS
    Clients,          \* concurrent callers of the broker
    Providers,        \* provider ids of the policy registry
    Metered,          \* the providers with an rpm: they have a token bucket
    Limited,          \* the providers with a max_concurrency: a LocalLimiter
    Capacity,         \* rpm: capacity of a bucket
    RefillRate,       \* units refilled per unit of time
    MaxConcurrency,   \* slots of a limiter
    Amounts,          \* token amounts a RESERVE may ask for
    Actuals,          \* token amounts a COMMIT may report
    Models,           \* model ids a client may report
    Registered,       \* those ModelRegistry.resolve knows
    NoModel,          \* the empty model id: COMMIT skips the governor
    Callbacks,        \* does a COMMIT name its engine's socket?  BrokerRoutedClient's
                      \* names none, the gateway's what its caller gives
    Costs,            \* cost of a usage
    MaxCost,          \* the largest of them
    RunBudget,        \* budget_usd_per_run, or NoBudget
    DayBudget,        \* budget_usd_per_day, or NoBudget
    NoBudget,
    Day,              \* DAY_SECONDS
    Ttl,              \* TTL_SECONDS
    DrainTimeout,     \* drain(timeout)
    MaxTime,          \* bound: the clock stops here
    MaxReservations   \* bound: reservations ever created

ASSUME BrokerAssumption ==
    /\ IsFiniteSet(Clients)
    /\ Providers # {}
    /\ Metered \subseteq Providers /\ Limited \subseteq Providers
    /\ Capacity \in Nat \ {0} /\ RefillRate \in Nat
    /\ MaxConcurrency \in Nat \ {0}
    /\ Amounts \subseteq Nat \ {0} /\ Actuals \subseteq Nat
    /\ Registered \subseteq Models /\ NoModel \notin Models
    /\ Callbacks \subseteq BOOLEAN
    /\ MaxCost \in Nat /\ Costs \subseteq 0..MaxCost
    /\ NoBudget \notin Nat
    /\ RunBudget \in Nat \cup {NoBudget} /\ DayBudget \in Nat \cup {NoBudget}
    /\ Day \in Nat /\ Ttl \in Nat /\ DrainTimeout \in Nat
    /\ MaxTime \in Nat /\ MaxReservations \in Nat

VARIABLES
    now,            \* the daemon's monotonic clock
    phase,          \* "serving", "draining" or "down"
    deadline,       \* of the drain
    tokens, last,   \* TokenBucket._tokens and ._last, per provider
    sem, in_flight, \* LocalLimiter._sem and ._in_flight, per provider
    store,          \* ReservationStore._reservations
    next_id,        \* the uuid of the next reservation
    run_usd, day_usd, day_start,   \* CostGovernor
    tripped,                       \* KillSwitch._tripped
    interrupts,     \* INTERRUPT_REQUEST frames that the engine has received
    listening,      \* the engine's socket accepts a connection
    tpm_burn,       \* BrokerDaemon._tpm_burn
    cumulative_usd, \* BrokerDaemon._metrics["cumulative_usd"]
    pc, conn, call, use, local,    \* per client, see below
    \* history, read by properties only
    debit,          \* tokens used or held by live calls, per provider
    unbilled,       \* cost of the usages the governor refused, per client
    unmetered       \* cost of the usages the governor raised on before charging

bucketVars   == <<tokens, last, debit>>
limiterVars  == <<sem, in_flight>>
storeVars    == <<store, next_id>>
governorVars == <<run_usd, day_usd, day_start>>
killVars     == <<tripped, interrupts, listening>>
metricVars   == <<tpm_burn, cumulative_usd>>
clientVars   == <<pc, conn, call, use, local>>
historyVars  == <<unbilled, unmetered>>
clockVars    == <<now, phase, deadline>>
vars == <<clockVars, bucketVars, limiterVars, storeVars, governorVars,
          killVars, metricVars, clientVars, historyVars>>

-----------------------------------------------------------------------------
(* Types.  pc[c] is where client c and its server thread are:              *)
(*   idle, calling               the client is between requests            *)
(*   check .. create             RESERVE                                   *)
(*   commit .. emit              COMMIT                                    *)
(*   release .. semrel           RELEASE                                   *)
(* conn[c]: the connection is open.  During a request it says that the      *)
(* client still waits for the reply.                                        *)

ReserveSteps == {"check", "bucket", "sem", "inc", "refund", "create"}
CommitSteps  == {"commit", "delta", "govern", "burn", "readusd", "writeusd",
                 "trip", "emit"}
ReleaseSteps == {"release", "untoken", "dec", "semrel"}
ServerSteps  == ReserveSteps \cup CommitSteps \cup ReleaseSteps
Labels       == ServerSteps \cup {"idle", "calling"}

Reservation == [id : Nat, provider : Providers, amount : Nat,
                expires : Nat, committed : BOOLEAN]
\* The call a client has in progress.
Call        == [provider : Providers, amount : Nat, id : Nat]
NoCall      == [provider |-> CHOOSE p \in Providers : TRUE, amount |-> 0, id |-> 0]
\* The usage its COMMIT reports.
Use         == [model : Models \cup {NoModel}, cost : 0..MaxCost, actual : Nat,
                callback : BOOLEAN]
NoUse       == [model |-> NoModel, cost |-> 0, actual |-> 0, callback |-> FALSE]

Smaller(a, b) == IF a <= b THEN a ELSE b
Larger(a, b)  == IF a >= b THEN a ELSE b

-----------------------------------------------------------------------------
Init ==
    /\ now = 0 /\ phase = "serving" /\ deadline = 0
    /\ tokens = [p \in Providers |-> Capacity]
    /\ last = [p \in Providers |-> 0]
    /\ sem = [p \in Providers |-> MaxConcurrency]
    /\ in_flight = [p \in Providers |-> 0]
    /\ store = {} /\ next_id = 1
    /\ run_usd = 0 /\ day_usd = 0 /\ day_start = 0
    /\ tripped = FALSE /\ interrupts = 0 /\ listening = TRUE
    /\ tpm_burn = 0 /\ cumulative_usd = 0
    /\ pc = [c \in Clients |-> "idle"]
    /\ conn = [c \in Clients |-> FALSE]
    /\ call = [c \in Clients |-> NoCall]
    /\ use = [c \in Clients |-> NoUse]
    /\ local = [c \in Clients |-> 0]
    /\ debit = [p \in Providers |-> 0]
    /\ unbilled = [c \in Clients |-> 0]
    /\ unmetered = 0

\* The server thread of c goes on to its next step, with v in a local variable
\* (delta of _commit, tokens of _release, the value of run_usd it read).
GotoWith(c, l, v) ==
    /\ pc' = [pc EXCEPT ![c] = l]
    /\ local' = [local EXCEPT ![c] = v]
    /\ UNCHANGED <<conn, call, use>>

Goto(c, l) == GotoWith(c, l, local[c])

\* The thread leaves the request: the client is idle again, and the loop
\* `while self._running` keeps the connection only while the server runs (the
\* reply to a client that went away fails with OSError, which ends the loop).
Finish(c, open) ==
    /\ pc' = [pc EXCEPT ![c] = "idle"]
    /\ conn' = [conn EXCEPT ![c] = open]
    /\ call' = [call EXCEPT ![c] = NoCall]
    /\ use' = [use EXCEPT ![c] = NoUse]
    /\ local' = [local EXCEPT ![c] = 0]

Reply(c) == Finish(c, conn[c] /\ phase = "serving")

\* An exception that _handle_conn does not catch ends the thread; the client
\* reads EOF and raises BrokerUnavailableError.
HandlerDies(c) == Finish(c, FALSE)

\* A request reaches a server thread: over the open connection (after the
\* server stopped, a thread still blocked in read_frame takes one more frame)
\* or over a new one, which only a running server accepts.
Reachable(c) == phase # "down" /\ (conn[c] \/ phase = "serving")

-----------------------------------------------------------------------------
(* TokenBucket                                                             *)

Refilled(p) == Smaller(Capacity, tokens[p] + (now - last[p]) * RefillRate)

\* try_acquire when the bucket holds enough: the refill, then the subtraction.
Take(p, n) ==
    /\ tokens' = [tokens EXCEPT ![p] = Refilled(p) - n]
    /\ last' = [last EXCEPT ![p] = now]
    /\ debit' = [debit EXCEPT ![p] = @ + n]

\* try_acquire when it does not: the refill alone.
RefillOnly(p) ==
    /\ tokens' = [tokens EXCEPT ![p] = Refilled(p)]
    /\ last' = [last EXCEPT ![p] = now]
    /\ UNCHANGED debit

\* Mutant: release forgets the cap.
GiveBackUncapped(p, n, due) ==
    /\ tokens' = IF p \in Metered /\ n > 0 THEN [tokens EXCEPT ![p] = @ + n] ELSE tokens
    /\ debit' = IF p \in Metered THEN [debit EXCEPT ![p] = @ - due] ELSE debit
    /\ UNCHANGED last

\* release: no refill, and never above the capacity.  `due` is what the
\* caller of this reservation did not use, `n` what the code gives back.
GiveBack(p, n, due) ==
    /\ tokens' = IF p \in Metered /\ n > 0
                 THEN [tokens EXCEPT ![p] = Smaller(Capacity, @ + n)]
                 ELSE tokens
    /\ debit' = IF p \in Metered THEN [debit EXCEPT ![p] = @ - due] ELSE debit
    /\ UNCHANGED last

-----------------------------------------------------------------------------
(* RESERVE                                                                 *)

\* The client sends RESERVE (BrokerClient.reserve).
Reserve(c, p, n) ==
    /\ pc[c] = "idle" /\ Reachable(c)
    /\ next_id <= MaxReservations
    /\ pc' = [pc EXCEPT ![c] = "check"]
    /\ conn' = [conn EXCEPT ![c] = TRUE]
    /\ call' = [call EXCEPT ![c] = [provider |-> p, amount |-> n, id |-> 0]]
    /\ UNCHANGED <<use, local, clockVars, bucketVars, limiterVars, storeVars,
                   governorVars, killVars, metricVars, historyVars>>

\* Mutant: RESERVE does not look at the kill switch.
KillCheckSkipped(c) ==
    /\ pc[c] = "check" /\ Goto(c, "bucket")
    /\ UNCHANGED <<clockVars, bucketVars, limiterVars, storeVars, governorVars,
                   killVars, metricVars, historyVars>>

\* KillSwitch.check: a tripped switch refuses with reason "budget".
KillCheck(c) ==
    /\ pc[c] = "check"
    /\ \/ tripped /\ Reply(c)
       \/ ~tripped /\ Goto(c, "bucket")
    /\ UNCHANGED <<clockVars, bucketVars, limiterVars, storeVars, governorVars,
                   killVars, metricVars, historyVars>>

\* bucket.try_acquire(tokens): reason "rate_limited" when it fails.
BucketTryAcquire(c) ==
    LET p == call[c].provider  n == call[c].amount IN
    /\ pc[c] = "bucket"
    /\ \/ p \notin Metered /\ Goto(c, "sem") /\ UNCHANGED bucketVars
       \/ p \in Metered /\ Refilled(p) >= n /\ Take(p, n) /\ Goto(c, "sem")
       \/ p \in Metered /\ Refilled(p) < n /\ RefillOnly(p) /\ Reply(c)
    /\ UNCHANGED <<clockVars, limiterVars, storeVars, governorVars, killVars,
                   metricVars, historyVars>>

\* limiter.acquire(timeout=0), first half: the semaphore.
SemAcquire(c) ==
    LET p == call[c].provider IN
    /\ pc[c] = "sem"
    /\ \/ p \notin Limited /\ Goto(c, "create") /\ UNCHANGED sem
       \/ /\ p \in Limited /\ sem[p] > 0
          /\ sem' = [sem EXCEPT ![p] = @ - 1] /\ Goto(c, "inc")
       \/ /\ p \in Limited /\ sem[p] = 0
          /\ Goto(c, "refund") /\ UNCHANGED sem
    /\ UNCHANGED <<in_flight, clockVars, bucketVars, storeVars, governorVars,
                   killVars, metricVars, historyVars>>

\* limiter.acquire, second half: the count, under the limiter's own lock.
InFlightInc(c) ==
    /\ pc[c] = "inc"
    /\ in_flight' = [in_flight EXCEPT ![call[c].provider] = @ + 1]
    /\ Goto(c, "create")
    /\ UNCHANGED <<sem, clockVars, bucketVars, storeVars, governorVars, killVars,
                   metricVars, historyVars>>

\* The limiter is full: the tokens go back, reason "saturated".
Refund(c) ==
    /\ pc[c] = "refund"
    /\ GiveBack(call[c].provider, call[c].amount, call[c].amount)
    /\ Reply(c)
    /\ UNCHANGED <<clockVars, limiterVars, storeVars, governorVars, killVars,
                   metricVars, historyVars>>

\* ReservationStore.create and the granting reply, which nobody reads when the
\* client has gone: the reservation then belongs to no one.
Create(c) ==
    /\ pc[c] = "create"
    /\ store' = store \cup {[id |-> next_id, provider |-> call[c].provider,
                             amount |-> call[c].amount, expires |-> now + Ttl,
                             committed |-> FALSE]}
    /\ next_id' = next_id + 1
    /\ \/ /\ conn[c]
          /\ pc' = [pc EXCEPT ![c] = "calling"]
          /\ call' = [call EXCEPT ![c].id = next_id]
          /\ conn' = [conn EXCEPT ![c] = (phase = "serving")]
          /\ UNCHANGED <<use, local>>
       \/ ~conn[c] /\ HandlerDies(c)
    /\ UNCHANGED <<clockVars, bucketVars, limiterVars, governorVars,
                   killVars, metricVars, historyVars>>

-----------------------------------------------------------------------------
(* The caller, holding a granted reservation (BrokerRoutedClient.complete)  *)

\* The provider answered: COMMIT with the usage.  When no server thread can
\* take it the client raises BrokerUnavailableError.
ProviderOk(c, m, cost, actual, callback) ==
    /\ pc[c] = "calling"
    /\ \/ /\ Reachable(c)
          /\ pc' = [pc EXCEPT ![c] = "commit"]
          /\ conn' = [conn EXCEPT ![c] = TRUE]
          /\ use' = [use EXCEPT ![c] = [model |-> m, cost |-> cost, actual |-> actual,
                                     callback |-> callback]]
          /\ UNCHANGED <<call, local>>
       \/ ~Reachable(c) /\ HandlerDies(c)
    /\ UNCHANGED <<clockVars, bucketVars, limiterVars, storeVars, governorVars,
                   killVars, metricVars, historyVars>>

\* The provider call raised (or was cancelled): RELEASE.
ProviderFail(c) ==
    /\ pc[c] = "calling"
    /\ \/ /\ Reachable(c)
          /\ pc' = [pc EXCEPT ![c] = "release"]
          /\ conn' = [conn EXCEPT ![c] = TRUE]
          /\ UNCHANGED <<call, use, local>>
       \/ ~Reachable(c) /\ HandlerDies(c)
    /\ UNCHANGED <<clockVars, bucketVars, limiterVars, storeVars, governorVars,
                   killVars, metricVars, historyVars>>

\* The client goes away: its process dies holding the reservation
\* (`reserve --then-kill`), or dies or times out in read_frame while the server
\* works; the thread then runs the request to its end.  Its successor on the
\* same index starts idle.
ClientGone(c) ==
    /\ \/ pc[c] = "calling" /\ HandlerDies(c)
       \/ /\ pc[c] \in ServerSteps /\ conn[c]
          /\ conn' = [conn EXCEPT ![c] = FALSE]
          /\ UNCHANGED <<pc, call, use, local>>
    /\ UNCHANGED <<clockVars, bucketVars, limiterVars, storeVars, governorVars,
                   killVars, metricVars, historyVars>>

-----------------------------------------------------------------------------
(* COMMIT                                                                  *)

Found(c) == {r \in store : r.id = call[c].id}

\* Mutant: COMMIT returns the whole reservation instead of the unused delta.
StoreCommitWhole(c) ==
    /\ pc[c] = "commit"
    /\ store' = (store \ Found(c)) \cup {[r EXCEPT !.committed = TRUE] : r \in Found(c)}
    /\ \/ Found(c) = {} /\ GotoWith(c, "delta", 0)
       \/ \E r \in Found(c) : GotoWith(c, "delta", r.amount)
    /\ UNCHANGED <<next_id, clockVars, bucketVars, limiterVars, governorVars,
                   killVars, metricVars, historyVars>>

\* ReservationStore.commit: marks the reservation committed (it stays in the
\* store) and returns the unused delta, 0 when the id is unknown.
StoreCommit(c) ==
    /\ pc[c] = "commit"
    /\ store' = (store \ Found(c)) \cup {[r EXCEPT !.committed = TRUE] : r \in Found(c)}
    /\ \/ Found(c) = {} /\ GotoWith(c, "delta", 0)
       \/ \E r \in Found(c) : GotoWith(c, "delta", Larger(0, r.amount - use[c].actual))
    /\ UNCHANGED <<next_id, clockVars, bucketVars, limiterVars, governorVars,
                   killVars, metricVars, historyVars>>

\* bucket.release(delta); an empty model id ends the request here.
DeltaRefund(c) ==
    LET n == call[c].amount IN
    /\ pc[c] = "delta"
    /\ GiveBack(call[c].provider, local[c], n - Smaller(n, use[c].actual))
    /\ \/ use[c].model # NoModel /\ Goto(c, "govern")
       \/ use[c].model = NoModel /\ Reply(c)
    /\ UNCHANGED <<clockVars, limiterVars, storeVars, governorVars, killVars,
                   metricVars, historyVars>>

Breaches(budget, usd) == budget # NoBudget /\ usd > budget

DayOver      == now - day_start >= Day
RolledDayUsd == IF DayOver THEN 0 ELSE day_usd

\* Mutant: the ceilings are compared with the spend before this charge.
OverBudgetStale(cost) ==
    Breaches(RunBudget, run_usd) \/ Breaches(DayBudget, RolledDayUsd)

\* The charge would take the run or the day over its ceiling.
OverBudget(cost) ==
    Breaches(RunBudget, run_usd + cost) \/ Breaches(DayBudget, RolledDayUsd + cost)

\* CostGovernor.commit.  The day window rolls first and stays rolled when the
\* charge is refused; an unregistered model raises before any of it.
Govern(c) ==
    LET cost == use[c].cost IN
    /\ pc[c] = "govern"
    /\ \/ /\ use[c].model \notin Registered
          /\ HandlerDies(c)
          /\ unmetered' = unmetered + cost
          /\ UNCHANGED <<governorVars, unbilled>>
       \/ /\ use[c].model \in Registered
          /\ day_start' = IF DayOver THEN now ELSE day_start
          /\ UNCHANGED unmetered
          /\ \/ /\ OverBudget(cost)
                /\ day_usd' = RolledDayUsd
                /\ unbilled' = [unbilled EXCEPT ![c] = @ + cost]
                /\ Goto(c, "trip")
                /\ UNCHANGED run_usd
             \/ /\ ~OverBudget(cost)
                /\ run_usd' = run_usd + cost
                /\ day_usd' = RolledDayUsd + cost
                /\ Goto(c, "burn")
                /\ UNCHANGED unbilled
    /\ UNCHANGED <<clockVars, bucketVars, limiterVars, storeVars, killVars,
                   metricVars>>

\* self._tpm_burn += usage, under _tpm_lock.
Burn(c) ==
    /\ pc[c] = "burn"
    /\ tpm_burn' = tpm_burn + use[c].cost
    /\ Goto(c, "readusd")
    /\ UNCHANGED <<cumulative_usd, clockVars, bucketVars, limiterVars, storeVars,
                   governorVars, killVars, historyVars>>

\* self._metrics["cumulative_usd"] = self._governor.run_usd: the read takes the
\* governor's lock, the store takes none.
ReadRunUsd(c) ==
    /\ pc[c] = "readusd"
    /\ GotoWith(c, "writeusd", run_usd)
    /\ UNCHANGED <<clockVars, bucketVars, limiterVars, storeVars, governorVars,
                   killVars, metricVars, historyVars>>

WriteCumulative(c) ==
    /\ pc[c] = "writeusd"
    /\ cumulative_usd' = local[c]
    /\ Reply(c)
    /\ UNCHANGED <<tpm_burn, clockVars, bucketVars, limiterVars, storeVars,
                   governorVars, killVars, historyVars>>

\* Mutant: the test of _tripped is gone.
TripAgain(c) ==
    /\ pc[c] = "trip" /\ tripped' = TRUE /\ Goto(c, "emit")
    /\ UNCHANGED <<interrupts, listening, clockVars, bucketVars, limiterVars, storeVars,
                   governorVars, metricVars, historyVars>>

\* Mutant: the switch trips and the interrupt is not emitted.
TripSilent(c) ==
    /\ pc[c] = "trip" /\ tripped' = TRUE /\ Reply(c)
    /\ UNCHANGED <<interrupts, listening, clockVars, bucketVars, limiterVars, storeVars,
                   governorVars, metricVars, historyVars>>

\* KillSwitch.trip, its critical section.
Trip(c) ==
    /\ pc[c] = "trip"
    /\ \/ tripped /\ Reply(c) /\ UNCHANGED tripped
       \/ ~tripped /\ tripped' = TRUE /\ Goto(c, "emit")
    /\ UNCHANGED <<interrupts, listening, clockVars, bucketVars, limiterVars, storeVars,
                   governorVars, metricVars, historyVars>>

\* self._emit(envelope): one attempt to connect to the endpoint that the COMMIT
\* named.  Without a name, or with nobody there, the exception is swallowed.
Emit(c) ==
    /\ pc[c] = "emit"
    /\ \/ use[c].callback /\ listening /\ interrupts' = interrupts + 1
       \/ ~(use[c].callback /\ listening) /\ UNCHANGED interrupts
    /\ Reply(c)
    /\ UNCHANGED <<tripped, listening, clockVars, bucketVars, limiterVars, storeVars,
                   governorVars, metricVars, historyVars>>

\* The engine closes its socket.
EngineGone ==
    /\ listening /\ listening' = FALSE
    /\ UNCHANGED <<tripped, interrupts, clockVars, bucketVars, limiterVars, storeVars,
                   governorVars, metricVars, clientVars, historyVars>>

-----------------------------------------------------------------------------
(* RELEASE                                                                 *)

\* ReservationStore.release: drops the reservation, returns its tokens.
StoreRelease(c) ==
    /\ pc[c] = "release"
    /\ store' = store \ Found(c)
    /\ \/ Found(c) = {} /\ GotoWith(c, "untoken", 0)
       \/ \E r \in Found(c) : GotoWith(c, "untoken", r.amount)
    /\ UNCHANGED <<next_id, clockVars, bucketVars, limiterVars, governorVars,
                   killVars, metricVars, historyVars>>

ReturnTokens(c) ==
    /\ pc[c] = "untoken"
    /\ GiveBack(call[c].provider, local[c], call[c].amount)
    /\ \/ call[c].provider \in Limited /\ Goto(c, "dec")
       \/ call[c].provider \notin Limited /\ Reply(c)
    /\ UNCHANGED <<clockVars, limiterVars, storeVars, governorVars, killVars,
                   metricVars, historyVars>>

\* Mutant: the count is not decremented.
InFlightDecLost(c) ==
    /\ pc[c] = "dec" /\ Goto(c, "semrel")
    /\ UNCHANGED <<limiterVars, clockVars, bucketVars, storeVars, governorVars,
                   killVars, metricVars, historyVars>>

\* LocalLimiter.release, first half.
InFlightDec(c) ==
    /\ pc[c] = "dec"
    /\ in_flight' = [in_flight EXCEPT ![call[c].provider] = @ - 1]
    /\ Goto(c, "semrel")
    /\ UNCHANGED <<sem, clockVars, bucketVars, storeVars, governorVars, killVars,
                   metricVars, historyVars>>

\* Second half.  BoundedSemaphore.release raises ValueError above its bound:
\* SlotsBounded says that no RELEASE gets there.
SemRelease(c) ==
    LET p == call[c].provider IN
    /\ pc[c] = "semrel"
    /\ sem' = [sem EXCEPT ![p] = @ + 1]
    /\ Reply(c)
    /\ UNCHANGED <<in_flight, clockVars, bucketVars, storeVars, governorVars,
                   killVars, metricVars, historyVars>>

-----------------------------------------------------------------------------
(* The clock and the drain                                                 *)

Tick ==
    /\ now < MaxTime
    /\ now' = now + 1
    /\ UNCHANGED <<phase, deadline, bucketVars, limiterVars, storeVars,
                   governorVars, killVars, metricVars, clientVars, historyVars>>

\* BrokerDaemon.drain: the server stops accepting.  The bound leaves the clock
\* room to reach the deadline.
DrainStart ==
    /\ phase = "serving"
    /\ now + DrainTimeout <= MaxTime
    /\ phase' = "draining"
    /\ deadline' = now + DrainTimeout
    /\ UNCHANGED <<now, bucketVars, limiterVars, storeVars, governorVars,
                   killVars, metricVars, clientVars, historyVars>>

Unexpired == {r \in store : now <= r.expires}

\* One turn of the waiting loop: reap_expired drops reservations and gives
\* nothing back to the buckets or limiters.
DrainPoll ==
    /\ phase = "draining" /\ store # {} /\ now < deadline
    /\ store' = Unexpired
    /\ UNCHANGED <<next_id, clockVars, bucketVars, limiterVars, governorVars,
                   killVars, metricVars, clientVars, historyVars>>

\* Mutant: the drain waits for the reservations without a deadline.
DrainExitPatient ==
    /\ phase = "draining" /\ store = {}
    /\ phase' = "down"
    /\ pc' = [c \in Clients |-> IF pc[c] \in ServerSteps THEN "idle" ELSE pc[c]]
    /\ conn' = [c \in Clients |-> FALSE]
    /\ UNCHANGED <<now, deadline, storeVars, call, use, local, bucketVars,
                   limiterVars, governorVars, killVars, metricVars, historyVars>>

\* The loop ends: the last reap, then the process exits and takes its (daemon)
\* threads with it.  live_count counts committed reservations too.
DrainExit ==
    /\ phase = "draining" /\ (store = {} \/ now >= deadline)
    /\ phase' = "down"
    /\ store' = Unexpired
    /\ pc' = [c \in Clients |-> IF pc[c] \in ServerSteps THEN "idle" ELSE pc[c]]
    /\ conn' = [c \in Clients |-> FALSE]
    /\ UNCHANGED <<now, deadline, next_id, call, use, local, bucketVars,
                   limiterVars, governorVars, killVars, metricVars, historyVars>>

-----------------------------------------------------------------------------
ServerThread(c) ==
    \/ KillCheck(c) \/ BucketTryAcquire(c) \/ SemAcquire(c) \/ InFlightInc(c)
    \/ Refund(c) \/ Create(c)
    \/ StoreCommit(c) \/ DeltaRefund(c) \/ Govern(c) \/ Burn(c)
    \/ ReadRunUsd(c) \/ WriteCumulative(c) \/ Trip(c) \/ Emit(c)
    \/ StoreRelease(c) \/ ReturnTokens(c) \/ InFlightDec(c) \/ SemRelease(c)

Client(c) ==
    \/ \E p \in Providers, n \in Amounts : Reserve(c, p, n)
    \/ \E m \in Models \cup {NoModel}, k \in Costs, n \in Actuals, b \in Callbacks :
          ProviderOk(c, m, k, n, b)
    \/ ProviderFail(c) \/ ClientGone(c)

Drain == DrainPoll \/ DrainExit

Next == (\E c \in Clients : ServerThread(c) \/ Client(c))
        \/ Tick \/ DrainStart \/ Drain \/ EngineGone

\* The OS schedules every runnable thread, time passes, and the drain loop
\* runs.  Nothing is assumed of the clients or of the provider.
Fairness == /\ \A c \in Clients : WF_vars(ServerThread(c))
            /\ WF_vars(Tick) /\ WF_vars(Drain)

Spec == Init /\ [][Next]_vars /\ Fairness

-----------------------------------------------------------------------------
(* Properties                                                              *)

\* Every variable keeps its type; a bucket never holds more than its capacity
\* or less than nothing, and no clock reading is ahead of the clock.
TypeOK ==
    /\ now \in Nat /\ deadline \in Nat
    /\ phase \in {"serving", "draining", "down"}
    /\ tokens \in [Providers -> 0..Capacity] /\ last \in [Providers -> 0..now]
    /\ debit \in [Providers -> Int]
    /\ sem \in [Providers -> Int] /\ in_flight \in [Providers -> Int]
    /\ store \subseteq Reservation /\ next_id \in Nat \ {0}
    /\ run_usd \in Nat /\ day_usd \in Nat /\ day_start \in 0..now
    /\ tripped \in BOOLEAN /\ interrupts \in Nat /\ listening \in BOOLEAN
    /\ tpm_burn \in Nat /\ cumulative_usd \in Nat
    /\ pc \in [Clients -> Labels] /\ conn \in [Clients -> BOOLEAN]
    /\ call \in [Clients -> Call] /\ use \in [Clients -> Use]
    /\ local \in [Clients -> Nat]
    /\ unbilled \in [Clients -> Nat] /\ unmetered \in Nat

\* Neither ceiling is ever crossed by the recorded spend, however the commits
\* of several clients and the rollover of the day interleave.
BudgetRespected ==
    /\ ~Breaches(RunBudget, run_usd)
    /\ ~Breaches(DayBudget, day_usd)

\* What was spent beyond the budget is at most one call per concurrent caller:
\* those in flight when the switch trips, because RESERVE checks the switch first.
BillBounded == \A c \in Clients : unbilled[c] <= MaxCost

\* However many commits breach a ceiling at once, the engine gets at most one
\* STOP/BUDGET interrupt, and only after the switch has tripped.
OneInterrupt == interrupts <= 1 /\ (interrupts = 1 => tripped)

\* The limiter's two halves stay consistent across their gap: in_flight is
\* between 0 and max_concurrency, and no RELEASE overflows the semaphore (which
\* would kill the thread with ValueError before it replies).
SlotsBounded ==
    \A p \in Limited :
        /\ in_flight[p] \in 0..MaxConcurrency
        /\ sem[p] \in 0..MaxConcurrency
        /\ (\E c \in Clients : pc[c] = "semrel" /\ call[c].provider = p)
              => sem[p] < MaxConcurrency

\* The token-bucket promise over the whole protocol (reserve, commit with a
\* delta, release, refunds): tokens used or held never exceed the initial
\* capacity plus what time has refilled.
RateCeiling ==
    \A p \in Metered : debit[p] <= Capacity + RefillRate * now

\* A breached ceiling stops the engine: the STOP reaches its socket, unless that
\* is closed or the broker's process exits first.  It holds where every COMMIT
\* names the engine's socket; the one of BrokerRoutedClient does not.
StopReaches == tripped ~> (interrupts = 1 \/ ~listening \/ phase = "down")

\* A drain ends, whatever the reservations still in the store.
DrainEnds == (phase = "draining") ~> (phase = "down")
=============================================================================
