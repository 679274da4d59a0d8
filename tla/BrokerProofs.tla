---------------------------- MODULE BrokerProofs ----------------------------
(* Theorems about the broker for every number of clients, providers,       *)
(* budgets and capacities.                                                 *)
EXTENDS Broker, FiniteSetTheorems, TLAPS

-----------------------------------------------------------------------------
(* Type correctness                                                        *)

ClientType == /\ pc \in [Clients -> Labels] /\ conn \in [Clients -> BOOLEAN]
              /\ call \in [Clients -> Call] /\ use \in [Clients -> Use]
              /\ local \in [Clients -> Nat]

\* Moving a thread to another label keeps the types of the client variables.
LEMMA GotoType ==
    ASSUME ClientType, NEW c \in Clients, NEW l \in Labels, NEW v \in Nat,
           GotoWith(c, l, v)
    PROVE  ClientType'
BY DEF ClientType, GotoWith

\* So does ending a request.
LEMMA FinishType ==
    ASSUME ClientType, NEW c \in Clients, NEW open \in BOOLEAN, Finish(c, open)
    PROVE  ClientType'
<1>1. NoCall \in Call
  BY BrokerAssumption DEF NoCall, Call
<1>2. NoUse \in Use
  BY BrokerAssumption DEF NoUse, Use
<1>. QED BY <1>1, <1>2 DEF ClientType, Finish, Labels

\* A refill stays between empty and full: it never subtracts.
LEMMA RefilledType ==
    ASSUME TypeOK, NEW p \in Providers
    PROVE  Refilled(p) \in 0..Capacity
<1>1. now - last[p] \in Nat /\ tokens[p] \in 0..Capacity
  BY DEF TypeOK
<1>2. (now - last[p]) * RefillRate \in Nat
  BY <1>1, BrokerAssumption
<1>. QED BY <1>1, <1>2, BrokerAssumption DEF Refilled, Smaller

\* A successful try_acquire takes no more than there is: the bucket keeps its type.
LEMMA TakeType ==
    ASSUME TypeOK, NEW p \in Providers, NEW n \in Nat, Refilled(p) >= n,
           Take(p, n), UNCHANGED now
    PROVE  /\ tokens' \in [Providers -> 0..Capacity]
           /\ last' \in [Providers -> 0..now'] /\ debit' \in [Providers -> Int]
<1>1. Refilled(p) - n \in 0..Capacity
  BY RefilledType, BrokerAssumption
<1>2. debit[p] + n \in Int /\ now \in 0..now
  BY DEF TypeOK
<1>. QED BY <1>1, <1>2 DEF TypeOK, Take

\* So does a refused one, which only refills.
LEMMA RefillOnlyType ==
    ASSUME TypeOK, NEW p \in Providers, RefillOnly(p), UNCHANGED now
    PROVE  /\ tokens' \in [Providers -> 0..Capacity]
           /\ last' \in [Providers -> 0..now'] /\ debit' \in [Providers -> Int]
<1>1. Refilled(p) \in 0..Capacity /\ now \in 0..now
  BY RefilledType DEF TypeOK
<1>. QED BY <1>1 DEF TypeOK, RefillOnly

\* And release, which stops at the capacity.
LEMMA GiveBackType ==
    ASSUME TypeOK, NEW p \in Providers, NEW n \in Nat, NEW due \in Int,
           GiveBack(p, n, due), UNCHANGED now
    PROVE  /\ tokens' \in [Providers -> 0..Capacity]
           /\ last' \in [Providers -> 0..now'] /\ debit' \in [Providers -> Int]
<1>1. tokens[p] \in 0..Capacity /\ debit[p] \in Int
  BY DEF TypeOK
<1>2. Smaller(Capacity, tokens[p] + n) \in 0..Capacity /\ debit[p] - due \in Int
  BY <1>1, BrokerAssumption DEF Smaller
<1>. QED BY <1>2 DEF TypeOK, GiveBack

\* The requests, the clock and the drain preserve the types.
LEMMA TypeStep == TypeOK /\ [Next]_vars => TypeOK'
<1>. SUFFICES ASSUME TypeOK, [Next]_vars PROVE TypeOK'
  OBVIOUS
<1>. USE DEF clockVars, bucketVars, limiterVars, storeVars, governorVars,
             killVars, metricVars, historyVars
<1>ct. ClientType /\ (ClientType' => /\ pc' \in [Clients -> Labels]
                                     /\ conn' \in [Clients -> BOOLEAN]
                                     /\ call' \in [Clients -> Call]
                                     /\ use' \in [Clients -> Use]
                                     /\ local' \in [Clients -> Nat])
  BY DEF TypeOK, ClientType
<1>l. /\ ServerSteps \subseteq Labels /\ "idle" \in Labels /\ "calling" \in Labels
      /\ \A s \in {"check", "bucket", "sem", "inc", "refund", "create", "commit",
                   "delta", "govern", "burn", "readusd", "writeusd", "trip",
                   "emit", "release", "untoken", "dec", "semrel"} : s \in Labels
  BY DEF Labels, ServerSteps, ReserveSteps, CommitSteps, ReleaseSteps
<1>r. \A c \in Clients : (conn[c] /\ phase = "serving") \in BOOLEAN
  OBVIOUS
<1>c. \A c \in Clients : /\ call[c] \in Call /\ use[c] \in Use /\ local[c] \in Nat
                         /\ call[c].provider \in Providers /\ call[c].amount \in Nat
                         /\ use[c].cost \in Nat /\ use[c].actual \in Nat
  BY BrokerAssumption DEF TypeOK, Call, Use
<1>1. ASSUME NEW c \in Clients, ServerThread(c) PROVE TypeOK'
  <2>1. CASE KillCheck(c)
    BY <2>1, <1>ct, <1>l, <1>c, GotoType, FinishType DEF TypeOK, KillCheck, Reply, Goto
  <2>2. CASE BucketTryAcquire(c)
    <3>1. ClientType'
      BY <2>2, <1>ct, <1>l, <1>c, GotoType, FinishType DEF BucketTryAcquire, Reply, Goto
    <3>2. /\ tokens' \in [Providers -> 0..Capacity]
          /\ last' \in [Providers -> 0..now'] /\ debit' \in [Providers -> Int]
      BY <2>2, <1>c, TakeType, RefillOnlyType DEF BucketTryAcquire, TypeOK
    <3>. QED BY <2>2, <3>1, <3>2, <1>ct DEF BucketTryAcquire, TypeOK
  <2>3. CASE SemAcquire(c)
    <3>1. ClientType'
      BY <2>3, <1>ct, <1>l, <1>c, GotoType DEF SemAcquire, Goto
    <3>. QED BY <2>3, <3>1, <1>ct, <1>c DEF SemAcquire, TypeOK
  <2>4. CASE InFlightInc(c)
    <3>1. ClientType'
      BY <2>4, <1>ct, <1>l, <1>c, GotoType DEF InFlightInc, Goto
    <3>. QED BY <2>4, <3>1, <1>ct, <1>c DEF InFlightInc, TypeOK
  <2>5. CASE Refund(c)
    <3>1. ClientType'
      BY <2>5, <1>ct, <1>r, FinishType DEF Refund, Reply
    <3>2. /\ tokens' \in [Providers -> 0..Capacity]
          /\ last' \in [Providers -> 0..now'] /\ debit' \in [Providers -> Int]
      BY <2>5, <1>c, GiveBackType DEF Refund
    <3>. QED BY <2>5, <3>1, <3>2, <1>ct DEF Refund, TypeOK
  <2>6. CASE Create(c)
    <3>1. ClientType'
      <4>1. CASE ~conn[c]
        BY <2>6, <4>1, <1>ct, FinishType DEF Create, HandlerDies
      <4>2. CASE conn[c]
        <5>1. [call[c] EXCEPT !.id = next_id] \in Call
          BY <1>c DEF TypeOK, Call
        <5>2. call' = [call EXCEPT ![c] = [call[c] EXCEPT !.id = next_id]]
          BY <2>6, <4>2 DEF Create
        <5>3. call' \in [Clients -> Call]
          BY <5>1, <5>2 DEF TypeOK
        <5>4. /\ conn' = [conn EXCEPT ![c] = (phase = "serving")]
              /\ pc' = [pc EXCEPT ![c] = "calling"] /\ use' = use /\ local' = local
          BY <2>6, <4>2 DEF Create
        <5>5. (phase = "serving") \in BOOLEAN
          OBVIOUS
        <5>6. conn' \in [Clients -> BOOLEAN]
          BY <5>4, <5>5 DEF TypeOK
        <5>7. pc' \in [Clients -> Labels]
          BY <5>4, <1>l DEF TypeOK
        <5>. QED BY <5>3, <5>4, <5>6, <5>7 DEF ClientType, TypeOK
      <4>. QED BY <4>1, <4>2
    <3>2. now + Ttl \in Nat /\ next_id \in Nat
      BY BrokerAssumption DEF TypeOK
    <3>3. store' \subseteq Reservation
      <4>1. [id |-> next_id, provider |-> call[c].provider,
             amount |-> call[c].amount, expires |-> now + Ttl,
             committed |-> FALSE] \in Reservation
        BY <3>2, <1>c DEF Reservation
      <4>. QED BY <2>6, <4>1 DEF Create, TypeOK
    <3>. QED BY <2>6, <3>1, <3>2, <3>3, <1>ct DEF Create, TypeOK
  <2>7. CASE StoreCommit(c)
    <3>1. \A r \in Found(c) : r \in Reservation /\ [r EXCEPT !.committed = TRUE] \in Reservation
      BY DEF Found, TypeOK, Reservation
    <3>2. \A r \in Found(c) : Larger(0, r.amount - use[c].actual) \in Nat
      <4>1. \A r \in Found(c) : r.amount \in Nat
        BY <3>1 DEF Reservation
      <4>. QED BY <4>1, <1>c DEF Larger
    <3>3. ClientType'
      BY <2>7, <3>2, <1>ct, <1>l, GotoType DEF StoreCommit
    <3>4. store' \subseteq Reservation
      BY <2>7, <3>1 DEF StoreCommit, TypeOK
    <3>. QED BY <2>7, <3>3, <3>4, <1>ct DEF StoreCommit, TypeOK
  <2>8. CASE DeltaRefund(c)
    <3>1. ClientType'
      BY <2>8, <1>ct, <1>l, <1>c, <1>r, GotoType, FinishType DEF DeltaRefund, Goto, Reply
    <3>2. call[c].amount - Smaller(call[c].amount, use[c].actual) \in Int
      BY <1>c DEF Smaller
    <3>3. /\ tokens' \in [Providers -> 0..Capacity]
          /\ last' \in [Providers -> 0..now'] /\ debit' \in [Providers -> Int]
      BY <2>8, <3>2, <1>c, GiveBackType DEF DeltaRefund
    <3>. QED BY <2>8, <3>1, <3>3, <1>ct DEF DeltaRefund, TypeOK
  <2>9. CASE Govern(c)
    <3>1. ClientType'
      BY <2>9, <1>ct, <1>l, <1>c, GotoType, FinishType DEF Govern, Goto, HandlerDies
    <3>2. RolledDayUsd \in Nat /\ now \in 0..now
      BY DEF RolledDayUsd, TypeOK
    <3>3. run_usd' \in Nat /\ day_usd' \in Nat /\ day_start' \in 0..now
          /\ unbilled' \in [Clients -> Nat] /\ unmetered' \in Nat
      BY <2>9, <3>2, <1>c DEF Govern, TypeOK
    <3>. QED BY <2>9, <3>1, <3>3, <1>ct DEF Govern, TypeOK
  <2>10. CASE Burn(c)
    <3>1. ClientType'
      BY <2>10, <1>ct, <1>l, <1>c, GotoType DEF Burn, Goto
    <3>. QED BY <2>10, <3>1, <1>ct, <1>c DEF Burn, TypeOK
  <2>11. CASE ReadRunUsd(c)
    <3>1. ClientType'
      BY <2>11, <1>ct, <1>l, GotoType DEF ReadRunUsd, TypeOK
    <3>. QED BY <2>11, <3>1, <1>ct DEF ReadRunUsd, TypeOK
  <2>12. CASE WriteCumulative(c)
    <3>1. ClientType'
      BY <2>12, <1>ct, <1>r, FinishType DEF WriteCumulative, Reply
    <3>. QED BY <2>12, <3>1, <1>ct, <1>c DEF WriteCumulative, TypeOK
  <2>13. CASE Trip(c)
    <3>1. ClientType'
      BY <2>13, <1>ct, <1>l, <1>c, <1>r, GotoType, FinishType DEF Trip, Goto, Reply
    <3>. QED BY <2>13, <3>1, <1>ct DEF Trip, TypeOK
  <2>14. CASE Emit(c)
    <3>1. ClientType'
      BY <2>14, <1>ct, <1>r, FinishType DEF Emit, Reply
    <3>. QED BY <2>14, <3>1, <1>ct DEF Emit, TypeOK
  <2>15. CASE StoreRelease(c)
    <3>1. \A r \in Found(c) : r.amount \in Nat
      BY DEF Found, TypeOK, Reservation
    <3>2. ClientType'
      BY <2>15, <3>1, <1>ct, <1>l, GotoType DEF StoreRelease
    <3>. QED BY <2>15, <3>2, <1>ct DEF StoreRelease, TypeOK
  <2>16. CASE ReturnTokens(c)
    <3>1. ClientType'
      BY <2>16, <1>ct, <1>l, <1>c, <1>r, GotoType, FinishType DEF ReturnTokens, Goto, Reply
    <3>2. /\ tokens' \in [Providers -> 0..Capacity]
          /\ last' \in [Providers -> 0..now'] /\ debit' \in [Providers -> Int]
      BY <2>16, <1>c, GiveBackType DEF ReturnTokens
    <3>. QED BY <2>16, <3>1, <3>2, <1>ct DEF ReturnTokens, TypeOK
  <2>17. CASE InFlightDec(c)
    <3>1. ClientType'
      BY <2>17, <1>ct, <1>l, <1>c, GotoType DEF InFlightDec, Goto
    <3>. QED BY <2>17, <3>1, <1>ct, <1>c DEF InFlightDec, TypeOK
  <2>18. CASE SemRelease(c)
    <3>1. ClientType'
      BY <2>18, <1>ct, <1>r, FinishType DEF SemRelease, Reply
    <3>. QED BY <2>18, <3>1, <1>ct, <1>c DEF SemRelease, TypeOK
  <2>. QED BY <1>1, <2>1, <2>2, <2>3, <2>4, <2>5, <2>6, <2>7, <2>8, <2>9, <2>10,
              <2>11, <2>12, <2>13, <2>14, <2>15, <2>16, <2>17, <2>18 DEF ServerThread
<1>2. ASSUME NEW c \in Clients, Client(c) PROVE TypeOK'
  <2>1. ASSUME NEW p \in Providers, NEW n \in Amounts, Reserve(c, p, n) PROVE TypeOK'
    <3>1. [provider |-> p, amount |-> n, id |-> 0] \in Call
      BY BrokerAssumption DEF Call
    <3>. QED BY <2>1, <3>1, <1>l DEF Reserve, TypeOK
  <2>2. ASSUME NEW m \in Models \cup {NoModel}, NEW k \in Costs, NEW n \in Actuals,
               NEW b \in Callbacks, ProviderOk(c, m, k, n, b)
        PROVE  TypeOK'
    <3>1. [model |-> m, cost |-> k, actual |-> n, callback |-> b] \in Use
      BY BrokerAssumption DEF Use
    <3>2. ClientType'
      <4>1. CASE Reachable(c)
        <5>1. use' \in [Clients -> Use]
          BY <2>2, <4>1, <3>1 DEF ProviderOk, TypeOK
        <5>. QED BY <2>2, <4>1, <5>1, <1>l DEF ProviderOk, TypeOK, ClientType
      <4>2. CASE ~Reachable(c)
        BY <2>2, <4>2, <1>ct, FinishType DEF ProviderOk, HandlerDies
      <4>. QED BY <4>1, <4>2
    <3>. QED BY <2>2, <3>2, <1>ct DEF ProviderOk, TypeOK
  <2>3. CASE ProviderFail(c)
    <3>1. ClientType'
      <4>1. CASE Reachable(c)
        BY <2>3, <4>1, <1>l DEF ProviderFail, TypeOK, ClientType
      <4>2. CASE ~Reachable(c)
        BY <2>3, <4>2, <1>ct, FinishType DEF ProviderFail, HandlerDies
      <4>. QED BY <4>1, <4>2
    <3>. QED BY <2>3, <3>1, <1>ct DEF ProviderFail, TypeOK
  <2>4. CASE ClientGone(c)
    <3>1. ClientType'
      BY <2>4, <1>ct, FinishType DEF ClientGone, HandlerDies, ClientType
    <3>. QED BY <2>4, <3>1, <1>ct DEF ClientGone, TypeOK
  <2>. QED BY <1>2, <2>1, <2>2, <2>3, <2>4 DEF Client
<1>3. CASE Tick
  <2>1. now' \in Nat /\ 0..now \subseteq 0..now'
    BY <1>3 DEF Tick, TypeOK
  <2>. QED BY <1>3, <2>1 DEF Tick, TypeOK, clientVars
<1>4. CASE DrainStart
  BY <1>4, BrokerAssumption DEF DrainStart, TypeOK, clientVars
<1>5. CASE DrainPoll
  BY <1>5 DEF DrainPoll, Unexpired, TypeOK, clientVars
<1>6. CASE DrainExit
  BY <1>6, <1>l DEF DrainExit, Unexpired, TypeOK
<1>7. CASE EngineGone
  BY <1>7 DEF EngineGone, TypeOK, clientVars
<1>8. CASE UNCHANGED vars
  BY <1>8 DEF vars, TypeOK, clientVars
<1>. QED BY <1>1, <1>2, <1>3, <1>4, <1>5, <1>6, <1>7, <1>8 DEF Next, Drain

\* TypeOK is an invariant of the broker: in particular a bucket stays between
\* empty and full however reserves, refunds and refills interleave.
THEOREM TypeCorrect == Spec => []TypeOK
<1>1. Init => TypeOK
  <2>1. NoCall \in Call
    BY BrokerAssumption DEF NoCall, Call
  <2>2. NoUse \in Use
    BY BrokerAssumption DEF NoUse, Use
  <2>3. Init => /\ tokens \in [Providers -> 0..Capacity] /\ last \in [Providers -> 0..now]
                /\ pc \in [Clients -> Labels] /\ call \in [Clients -> Call]
                /\ use \in [Clients -> Use]
    BY <2>1, <2>2, BrokerAssumption DEF Init, Labels
  <2>4. Init => /\ sem \in [Providers -> Int] /\ in_flight \in [Providers -> Int]
                /\ debit \in [Providers -> Int] /\ local \in [Clients -> Nat]
                /\ conn \in [Clients -> BOOLEAN] /\ unbilled \in [Clients -> Nat]
    BY BrokerAssumption DEF Init
  <2>5. Init => /\ now \in Nat /\ deadline \in Nat /\ day_start \in 0..now
                /\ phase \in {"serving", "draining", "down"}
                /\ store \subseteq Reservation /\ next_id \in Nat \ {0}
                /\ run_usd \in Nat /\ day_usd \in Nat
                /\ interrupts \in Nat /\ tpm_burn \in Nat /\ cumulative_usd \in Nat
                /\ unmetered \in Nat
    BY DEF Init
  <2>6. Init => tripped \in BOOLEAN /\ listening \in BOOLEAN
    BY DEF Init
  <2>. QED BY <2>3, <2>4, <2>5, <2>6 DEF TypeOK
<1>. QED BY <1>1, TypeStep, PTL DEF Spec

-----------------------------------------------------------------------------
(* The budget                                                              *)

\* Only the governor's critical section changes the recorded spend.
LEMMA SpendStep ==
    TypeOK /\ [Next]_vars =>
        \/ UNCHANGED governorVars
        \/ \E c \in Clients : Govern(c)
BY DEF Next, vars, ServerThread, Client, Drain, governorVars,
       KillCheck, BucketTryAcquire, SemAcquire, InFlightInc, Refund, Create,
       StoreCommit, DeltaRefund, Burn, ReadRunUsd, WriteCumulative, Trip, Emit,
       StoreRelease, ReturnTokens, InFlightDec, SemRelease, Reserve, ProviderOk,
       ProviderFail, ClientGone, Tick, DrainStart, DrainPoll, DrainExit, EngineGone

\* The recorded spend stays within both ceilings (CostGovernor.commit compares
\* the new totals under the lock that writes them).
THEOREM BudgetSafe == Spec => []BudgetRespected
<1>1. Init => BudgetRespected
  BY BrokerAssumption DEF Init, BudgetRespected, Breaches
<1>2. TypeOK /\ BudgetRespected /\ [Next]_vars => BudgetRespected'
  <2>. SUFFICES ASSUME TypeOK, BudgetRespected, [Next]_vars PROVE BudgetRespected'
    OBVIOUS
  <2>1. CASE UNCHANGED governorVars
    BY <2>1 DEF governorVars, BudgetRespected, Breaches
  <2>2. ASSUME NEW c \in Clients, Govern(c) PROVE BudgetRespected'
    <3>1. ~Breaches(DayBudget, RolledDayUsd)
      BY BrokerAssumption DEF BudgetRespected, Breaches, RolledDayUsd
    <3>. QED BY <2>2, <3>1 DEF Govern, BudgetRespected, OverBudget, Breaches, governorVars
  <2>. QED BY <2>1, <2>2, SpendStep
<1>. QED BY <1>1, <1>2, TypeCorrect, PTL DEF Spec

\* One interrupt: between the trip and the emission exactly one thread is at
\* "emit", and nobody is there once the interrupt is out.
KillInv ==
    /\ interrupts <= 1
    /\ interrupts = 1 => tripped /\ \A c \in Clients : pc[c] # "emit"
    /\ \A c \in Clients : pc[c] = "emit" => tripped
    /\ \A c, d \in Clients : pc[c] = "emit" /\ pc[d] = "emit" => c = d

\* A client with refused spend is on its way to the trip, or every RESERVE it
\* can still send is refused.
BillInv ==
    \A c \in Clients :
        /\ unbilled[c] <= MaxCost
        /\ unbilled[c] > 0 => \/ pc[c] = "trip"
                              \/ tripped /\ pc[c] \in {"idle", "check", "emit"}
                              \/ phase = "down" /\ pc[c] = "idle"

\* A step of client c, or of the thread that serves it, moves no other client.
LEMMA OneMoves ==
    ASSUME TypeOK, NEW c \in Clients, ServerThread(c) \/ Client(c),
           NEW d \in Clients, d # c
    PROVE  pc'[d] = pc[d] /\ call'[d] = call[d]
BY DEF TypeOK, ServerThread, Client, GotoWith, Goto, Finish, Reply, HandlerDies,
       KillCheck, BucketTryAcquire, SemAcquire, InFlightInc, Refund, Create,
       StoreCommit, DeltaRefund, Govern, Burn, ReadRunUsd, WriteCumulative, Trip,
       Emit, StoreRelease, ReturnTokens, InFlightDec, SemRelease, Reserve,
       ProviderOk, ProviderFail, ClientGone

\* The steps that touch neither the governor nor the switch: where they can
\* take the client, as far as the switch is concerned.
LEMMA QuietStep ==
    ASSUME TypeOK, NEW c \in Clients, ServerThread(c) \/ Client(c),
           ~Govern(c), ~Trip(c), ~Emit(c)
    PROVE  /\ UNCHANGED <<tripped, interrupts, unbilled, phase>>
           /\ \/ pc'[c] = pc[c]
              \/ pc[c] = "idle" /\ pc'[c] = "check" /\ phase # "down"
              \/ pc[c] = "check" /\ pc'[c] \in {"idle", "bucket"}
                 /\ (tripped => pc'[c] = "idle")
              \/ /\ pc[c] \notin {"idle", "check", "trip", "emit"}
                 /\ pc'[c] \notin {"trip", "emit"}
<1>. USE DEF TypeOK, GotoWith, Goto, Finish, Reply, HandlerDies, killVars,
             historyVars, clockVars
<1>1. CASE KillCheck(c) \/ BucketTryAcquire(c) \/ SemAcquire(c) \/ InFlightInc(c)
           \/ Refund(c) \/ Create(c)
  BY <1>1 DEF KillCheck, BucketTryAcquire, SemAcquire, InFlightInc, Refund, Create
<1>2. CASE StoreCommit(c) \/ DeltaRefund(c) \/ Burn(c) \/ ReadRunUsd(c)
           \/ WriteCumulative(c)
  BY <1>2 DEF StoreCommit, DeltaRefund, Burn, ReadRunUsd, WriteCumulative
<1>3. CASE StoreRelease(c) \/ ReturnTokens(c) \/ InFlightDec(c) \/ SemRelease(c)
  BY <1>3 DEF StoreRelease, ReturnTokens, InFlightDec, SemRelease
<1>4. CASE Client(c)
  BY <1>4 DEF Client, Reserve, ProviderOk, ProviderFail, ClientGone, Reachable
<1>. QED BY <1>1, <1>2, <1>3, <1>4 DEF ServerThread

\* The steps of no client in particular.
LEMMA GlobalStep ==
    ASSUME TypeOK, Tick \/ DrainStart \/ Drain \/ EngineGone \/ UNCHANGED vars
    PROVE  /\ UNCHANGED <<tripped, interrupts, unbilled>>
           /\ \A c \in Clients : \/ pc'[c] = pc[c]
                                 \/ pc'[c] = "idle" /\ phase' = "down"
           /\ phase = "down" => phase' = "down"
BY DEF TypeOK, Tick, DrainStart, Drain, DrainPoll, DrainExit, EngineGone, vars, clientVars,
       killVars, historyVars, clockVars

\* At most one STOP/BUDGET interrupt, however many commits breach at once.
THEOREM InterruptOnce == Spec => []OneInterrupt
<1>1. Init => KillInv
  BY DEF Init, KillInv
<1>2. TypeOK /\ KillInv /\ [Next]_vars => KillInv'
  <2>. SUFFICES ASSUME TypeOK, KillInv, [Next]_vars PROVE KillInv'
    OBVIOUS
  <2>1. ASSUME NEW c \in Clients, ServerThread(c) \/ Client(c) PROVE KillInv'
    <3>. \A d \in Clients : d # c => pc'[d] = pc[d]
      BY <2>1, OneMoves
    <3>. interrupts \in Nat /\ tripped \in BOOLEAN
      BY DEF TypeOK
    <3>1. CASE Govern(c)
      <4>1. pc[c] = "govern" /\ pc'[c] # "emit" /\ UNCHANGED killVars
        BY <3>1 DEF Govern, Goto, GotoWith, HandlerDies, Finish, TypeOK
      <4>. QED BY <4>1 DEF KillInv, killVars
    <3>2. CASE Trip(c) /\ tripped
      <4>1. pc[c] = "trip" /\ pc'[c] = "idle" /\ UNCHANGED <<tripped, interrupts>>
        BY <3>2 DEF Trip, Reply, Finish, TypeOK
      <4>. QED BY <4>1 DEF KillInv
    <3>3. CASE Trip(c) /\ ~tripped
      <4>1. pc'[c] = "emit" /\ tripped' /\ UNCHANGED interrupts
        BY <3>3 DEF Trip, Goto, GotoWith, TypeOK
      <4>2. interrupts = 0 /\ \A d \in Clients : pc[d] # "emit"
        BY <3>3 DEF KillInv
      <4>. QED BY <4>1, <4>2 DEF KillInv
    <3>4. CASE Emit(c)
      <4>1. /\ pc[c] = "emit" /\ pc'[c] = "idle" /\ UNCHANGED tripped
            /\ interrupts' \in {interrupts, interrupts + 1}
        BY <3>4 DEF Emit, Reply, Finish, TypeOK
      <4>2. interrupts = 0 /\ tripped /\ \A d \in Clients : pc[d] = "emit" => d = c
        BY <4>1 DEF KillInv
      <4>. QED BY <4>1, <4>2 DEF KillInv
    <3>5. CASE ~Govern(c) /\ ~Trip(c) /\ ~Emit(c)
      BY <2>1, <3>5, QuietStep DEF KillInv
    <3>. QED BY <3>1, <3>2, <3>3, <3>4, <3>5
  <2>2. CASE Tick \/ DrainStart \/ Drain \/ EngineGone \/ UNCHANGED vars
    BY <2>2, GlobalStep DEF KillInv
  <2>. QED BY <2>1, <2>2 DEF Next
<1>3. TypeOK /\ KillInv => OneInterrupt
  BY DEF KillInv, OneInterrupt, TypeOK
<1>. QED BY <1>1, <1>2, <1>3, TypeCorrect, PTL DEF Spec

\* The bill beyond the budget is at most one call per caller.
THEOREM BillSafe == Spec => []BillBounded
<1>1. Init => BillInv
  BY BrokerAssumption DEF Init, BillInv
<1>2. TypeOK /\ BillInv /\ [Next]_vars => BillInv'
  <2>. SUFFICES ASSUME TypeOK, BillInv, [Next]_vars PROVE BillInv'
    OBVIOUS
  <2>1. ASSUME NEW c \in Clients, ServerThread(c) \/ Client(c) PROVE BillInv'
    <3>. \A d \in Clients : d # c => pc'[d] = pc[d]
      BY <2>1, OneMoves
    <3>1. CASE Govern(c)
      <4>1. /\ pc[c] = "govern" /\ UNCHANGED <<tripped, phase>>
            /\ \/ UNCHANGED unbilled /\ pc'[c] # "trip"
               \/ /\ unbilled' = [unbilled EXCEPT ![c] = unbilled[c] + use[c].cost]
                  /\ pc'[c] = "trip"
        BY <3>1 DEF Govern, Goto, GotoWith, HandlerDies, Finish, TypeOK, killVars,
                    clockVars
      <4>2. unbilled[c] = 0 /\ use[c].cost \in 0..MaxCost
        BY <4>1 DEF BillInv, TypeOK, Use
      <4>3. unbilled \in [Clients -> Nat] /\ MaxCost \in Nat
        BY BrokerAssumption DEF TypeOK
      <4>. QED BY <4>1, <4>2, <4>3 DEF BillInv
    <3>2. CASE Trip(c)
      <4>1. /\ pc'[c] \in {"idle", "emit"} /\ tripped'
            /\ UNCHANGED <<unbilled, phase>>
        BY <3>2 DEF Trip, Reply, Finish, Goto, GotoWith, TypeOK, clockVars, historyVars
      <4>. QED BY <4>1 DEF BillInv
    <3>3. CASE Emit(c)
      <4>1. pc[c] = "emit" /\ pc'[c] = "idle" /\ UNCHANGED <<tripped, unbilled, phase>>
        BY <3>3 DEF Emit, Reply, Finish, TypeOK, clockVars, historyVars
      <4>. QED BY <4>1 DEF BillInv
    <3>4. CASE ~Govern(c) /\ ~Trip(c) /\ ~Emit(c)
      BY <2>1, <3>4, QuietStep DEF BillInv
    <3>. QED BY <3>1, <3>2, <3>3, <3>4
  <2>2. CASE Tick \/ DrainStart \/ Drain \/ EngineGone \/ UNCHANGED vars
    BY <2>2, GlobalStep DEF BillInv
  <2>. QED BY <2>1, <2>2 DEF Next
<1>3. BillInv => BillBounded
  BY DEF BillInv, BillBounded
<1>. QED BY <1>1, <1>2, <1>3, TypeCorrect, PTL DEF Spec

-----------------------------------------------------------------------------
(* The rate ceiling                                                        *)

\* The reservation a client holds is the one it asked for: ids are fresh, so
\* no two calls meet in the store.
IdInv ==
    /\ \A r \in store : r.id > 0 /\ r.id < next_id
    /\ \A c \in Clients : call[c].id < next_id
    /\ \A r \in store, c \in Clients : r.id = call[c].id => r.amount = call[c].amount

\* What a bucket holds and what is used or held outside it add up to at most
\* the initial capacity and the refill so far; a thread about to give tokens
\* back gives no more than its call left unused.
RateInv ==
    /\ \A p \in Metered : tokens[p] + debit[p] <= Capacity + RefillRate * last[p]
    /\ \A c \in Clients :
          /\ pc[c] = "delta" =>
                local[c] <= call[c].amount - Smaller(call[c].amount, use[c].actual)
          /\ pc[c] = "untoken" => local[c] <= call[c].amount

\* Fresh ids make the store agree with the calls.
LEMMA IdStep == TypeOK /\ IdInv /\ [Next]_vars => IdInv'
<1>. SUFFICES ASSUME TypeOK, IdInv, [Next]_vars PROVE IdInv'
  OBVIOUS
<1>n. next_id \in Nat \ {0} /\ \A r \in store : r.id \in Nat
  BY DEF TypeOK, Reservation
<1>1. ASSUME NEW c \in Clients, ServerThread(c) \/ Client(c) PROVE IdInv'
  <2>. \A d \in Clients : d # c => call'[d] = call[d]
    BY <1>1, OneMoves
  <2>1. CASE Create(c)
    <3>1. /\ store' = store \cup {[id |-> next_id, provider |-> call[c].provider,
                                   amount |-> call[c].amount, expires |-> now + Ttl,
                                   committed |-> FALSE]}
          /\ next_id' = next_id + 1
      BY <2>1 DEF Create
    <3>2. \/ call'[c].id = next_id /\ call'[c].amount = call[c].amount
          \/ call'[c].id = 0
      BY <2>1 DEF Create, HandlerDies, Finish, NoCall, TypeOK, Call
    <3>3. \A r \in store' : r \in store \/ (r.id = next_id /\ r.amount = call[c].amount)
      BY <3>1
    <3>4. \A d \in Clients : call[d].id \in Nat /\ call[d].id < next_id
      BY DEF TypeOK, Call, IdInv
    <3>5. \A r \in store' : r.id > 0 /\ r.id < next_id'
      BY <3>1, <3>3, <1>n DEF IdInv
    <3>6. \A d \in Clients : call'[d].id < next_id'
      BY <3>1, <3>2, <3>4, <1>n
    <3>7. ASSUME NEW r \in store', NEW d \in Clients, r.id = call'[d].id
          PROVE  r.amount = call'[d].amount
      <4>1. CASE d = c
        BY <4>1, <3>7, <3>2, <3>3, <1>n DEF IdInv
      <4>2. CASE d # c
        BY <4>2, <3>7, <3>3, <3>4 DEF IdInv
      <4>. QED BY <4>1, <4>2
    <3>. QED BY <3>5, <3>6, <3>7 DEF IdInv
  <2>2. CASE StoreCommit(c)
    <3>1. call' = call /\ next_id' = next_id
      BY <2>2 DEF StoreCommit, GotoWith
    <3>2. \A r \in store' : \E s \in store : r.id = s.id /\ r.amount = s.amount
      BY <2>2 DEF StoreCommit, Found, TypeOK, Reservation
    <3>. QED BY <3>1, <3>2 DEF IdInv
  <2>3. CASE ~Create(c) /\ ~StoreCommit(c)
    <3>1. store' \subseteq store /\ next_id' = next_id
      BY <1>1, <2>3 DEF ServerThread, Client, storeVars, KillCheck, BucketTryAcquire,
           SemAcquire, InFlightInc, Refund, DeltaRefund, Govern, Burn, ReadRunUsd,
           WriteCumulative, Trip, Emit, StoreRelease, ReturnTokens, InFlightDec,
           SemRelease, Reserve, ProviderOk, ProviderFail, ClientGone
    <3>2. call'[c] = call[c] \/ call'[c].id = 0
      BY <1>1, <2>3 DEF ServerThread, Client, KillCheck, BucketTryAcquire,
           SemAcquire, InFlightInc, Refund, DeltaRefund, Govern, Burn, ReadRunUsd,
           WriteCumulative, Trip, Emit, StoreRelease, ReturnTokens, InFlightDec,
           SemRelease, Reserve, ProviderOk, ProviderFail, ClientGone, GotoWith, Goto,
           Reply, HandlerDies, Finish, NoCall, TypeOK
    <3>. QED BY <3>1, <3>2, <1>n DEF IdInv
  <2>. QED BY <2>1, <2>2, <2>3
<1>2. CASE Tick \/ DrainStart \/ Drain \/ EngineGone \/ UNCHANGED vars
  BY <1>2 DEF IdInv, Tick, DrainStart, Drain, DrainPoll, DrainExit, EngineGone, Unexpired,
              vars, clientVars, storeVars
<1>. QED BY <1>1, <1>2 DEF Next

\* Refilling a bucket up to the clock keeps the balance.
LEMMA RefillBalance ==
    ASSUME TypeOK, NEW p \in Providers,
           tokens[p] + debit[p] <= Capacity + RefillRate * last[p]
    PROVE  Refilled(p) + debit[p] <= Capacity + RefillRate * now
<1>1. /\ tokens[p] \in Nat /\ debit[p] \in Int /\ last[p] \in Nat /\ now \in Nat
      /\ RefillRate \in Nat /\ Capacity \in Nat
  BY BrokerAssumption DEF TypeOK
<1>2. RefillRate * last[p] + (now - last[p]) * RefillRate = RefillRate * now
  BY <1>1
<1>3. Refilled(p) <= tokens[p] + (now - last[p]) * RefillRate /\ Refilled(p) \in Nat
  BY <1>1, RefilledType DEF Refilled, Smaller
<1>4. (now - last[p]) * RefillRate \in Int /\ RefillRate * last[p] \in Int
  BY <1>1
<1>. QED BY <1>1, <1>2, <1>3, <1>4

\* Giving back no more than is due keeps it too.
LEMMA GiveBackBalance ==
    ASSUME TypeOK, RateInv, NEW q \in Providers, NEW n \in Nat, NEW due \in Int,
           n <= due, GiveBack(q, n, due), NEW p \in Metered
    PROVE  tokens'[p] + debit'[p] <= Capacity + RefillRate * last'[p]
<1>1. /\ tokens[p] \in Nat /\ debit[p] \in Int /\ last[p] \in Nat
      /\ RefillRate \in Nat /\ Capacity \in Nat /\ RefillRate * last[p] \in Int
      /\ p \in Providers
  BY BrokerAssumption DEF TypeOK
<1>2. tokens[p] + debit[p] <= Capacity + RefillRate * last[p] /\ last' = last
  BY DEF RateInv, GiveBack
<1>3. CASE p = q
  <2>1. tokens'[p] <= tokens[p] + n /\ tokens'[p] \in Int
    BY <1>1, <1>3 DEF GiveBack, Smaller, TypeOK
  <2>2. debit'[p] = debit[p] - due
    BY <1>1, <1>3 DEF GiveBack, TypeOK
  <2>. QED BY <1>1, <1>2, <2>1, <2>2
<1>4. CASE p # q
  BY <1>1, <1>2, <1>4 DEF GiveBack, TypeOK
<1>. QED BY <1>3, <1>4

\* The token-bucket promise across the whole protocol: what callers used or
\* hold never exceeds the initial capacity plus the refill.
THEOREM RateSafe == Spec => []RateCeiling
<1>1. Init => IdInv /\ RateInv
  <2>1. Init => IdInv
    BY DEF Init, IdInv, NoCall
  <2>2. Init => RateInv
    BY BrokerAssumption DEF Init, RateInv
  <2>. QED BY <2>1, <2>2
<1>2. TypeOK /\ IdInv /\ RateInv /\ [Next]_vars => RateInv'
  <2>. SUFFICES ASSUME TypeOK, IdInv, RateInv, [Next]_vars PROVE RateInv'
    OBVIOUS
  <2>. DEFINE Balance == \A p \in Metered :
                  tokens[p] + debit[p] <= Capacity + RefillRate * last[p]
              Dues(c) == /\ pc[c] = "delta" =>
                              local[c] <= call[c].amount
                                          - Smaller(call[c].amount, use[c].actual)
                         /\ pc[c] = "untoken" => local[c] <= call[c].amount
  <2>t. \A c \in Clients : /\ call[c].provider \in Providers /\ call[c].amount \in Nat
                           /\ use[c].actual \in Nat /\ local[c] \in Nat
    BY DEF TypeOK, Call, Use
  <2>1. ASSUME NEW c \in Clients, ServerThread(c) \/ Client(c) PROVE RateInv'
    <3>1. \A d \in Clients : d # c =>
             /\ pc'[d] = pc[d] /\ call'[d] = call[d]
             /\ use'[d] = use[d] /\ local'[d] = local[d]
      BY <2>1 DEF TypeOK, ServerThread, Client, GotoWith, Goto, Finish, Reply,
         HandlerDies, KillCheck, BucketTryAcquire, SemAcquire, InFlightInc, Refund,
         Create, StoreCommit, DeltaRefund, Govern, Burn, ReadRunUsd,
         WriteCumulative, Trip, Emit, StoreRelease, ReturnTokens, InFlightDec,
         SemRelease, Reserve, ProviderOk, ProviderFail, ClientGone
    <3>2. Dues(c)'
      <4>1. CASE StoreCommit(c)
        <5>1. \/ local'[c] = 0
              \/ \E r \in Found(c) : local'[c] = Larger(0, r.amount - use[c].actual)
          BY <4>1 DEF StoreCommit, GotoWith, TypeOK
        <5>2. \A r \in Found(c) : r.amount = call[c].amount
          BY DEF Found, IdInv
        <5>3. pc'[c] = "delta" /\ UNCHANGED <<call, use>>
          BY <4>1 DEF StoreCommit, GotoWith, TypeOK
        <5>. QED BY <5>1, <5>2, <5>3, <2>t DEF Larger, Smaller
      <4>2. CASE StoreRelease(c)
        <5>1. local'[c] = 0 \/ \E r \in Found(c) : local'[c] = r.amount
          BY <4>2 DEF StoreRelease, GotoWith, TypeOK
        <5>2. \A r \in Found(c) : r.amount = call[c].amount
          BY DEF Found, IdInv
        <5>3. pc'[c] = "untoken" /\ UNCHANGED <<call, use>>
          BY <4>2 DEF StoreRelease, GotoWith, TypeOK
        <5>. QED BY <5>1, <5>2, <5>3, <2>t
      <4>3. CASE ~StoreCommit(c) /\ ~StoreRelease(c)
        <5>1. \/ pc'[c] \notin {"delta", "untoken"}
              \/ pc' = pc /\ UNCHANGED <<call, use, local>>
          BY <2>1, <4>3 DEF TypeOK, ServerThread, Client, GotoWith, Goto, Finish,
             Reply, HandlerDies, KillCheck, BucketTryAcquire, SemAcquire,
             InFlightInc, Refund, Create, DeltaRefund, Govern, Burn, ReadRunUsd,
             WriteCumulative, Trip, Emit, ReturnTokens, InFlightDec, SemRelease,
             Reserve, ProviderOk, ProviderFail, ClientGone
        <5>. QED BY <5>1 DEF RateInv
      <4>. QED BY <4>1, <4>2, <4>3
    <3>3. Balance'
      <4>1. CASE BucketTryAcquire(c)
        <5>1. ASSUME NEW p \in Metered PROVE (tokens[p] + debit[p]
                                              <= Capacity + RefillRate * last[p])'
          <6>0. /\ Refilled(p) \in Nat /\ debit[p] \in Int /\ p \in Providers
                /\ tokens[p] + debit[p] <= Capacity + RefillRate * last[p]
            BY RefilledType, BrokerAssumption DEF TypeOK, RateInv
          <6>1. Refilled(p) + debit[p] <= Capacity + RefillRate * now
            BY <6>0, RefillBalance
          <6>2. CASE p # call[c].provider \/ UNCHANGED bucketVars
            BY <4>1, <6>0, <6>2 DEF BucketTryAcquire, bucketVars, Take, RefillOnly, TypeOK
          <6>3. CASE p = call[c].provider /\ ~UNCHANGED bucketVars
            <7>1. last'[p] = now /\ tokens'[p] + debit'[p] = Refilled(p) + debit[p]
              BY <4>1, <6>0, <6>3, <2>t DEF BucketTryAcquire, Take, RefillOnly, TypeOK
            <7>. QED BY <7>1, <6>1
          <6>. QED BY <6>2, <6>3
        <5>. QED BY <5>1
      <4>2. CASE Refund(c)
        BY <4>2, <2>t, GiveBackBalance DEF Refund
      <4>3. CASE DeltaRefund(c)
        <5>1. local[c] <= call[c].amount - Smaller(call[c].amount, use[c].actual)
          BY <4>3 DEF DeltaRefund, RateInv
        <5>2. call[c].amount - Smaller(call[c].amount, use[c].actual) \in Int
          BY <2>t DEF Smaller
        <5>. QED BY <4>3, <5>1, <5>2, <2>t, GiveBackBalance DEF DeltaRefund
      <4>4. CASE ReturnTokens(c)
        <5>1. local[c] <= call[c].amount
          BY <4>4 DEF ReturnTokens, RateInv
        <5>. QED BY <4>4, <5>1, <2>t, GiveBackBalance DEF ReturnTokens
      <4>5. CASE ~BucketTryAcquire(c) /\ ~Refund(c) /\ ~DeltaRefund(c) /\ ~ReturnTokens(c)
        <5>1. UNCHANGED bucketVars
          BY <2>1, <4>5 DEF ServerThread, Client, KillCheck, SemAcquire, InFlightInc,
             Create, StoreCommit, Govern, Burn, ReadRunUsd, WriteCumulative, Trip,
             Emit, StoreRelease, InFlightDec, SemRelease, Reserve, ProviderOk,
             ProviderFail, ClientGone
        <5>. QED BY <5>1 DEF RateInv, bucketVars
      <4>. QED BY <4>1, <4>2, <4>3, <4>4, <4>5
    <3>4. \A d \in Clients : Dues(d)'
      BY <3>1, <3>2 DEF RateInv
    <3>. QED BY <3>3, <3>4 DEF RateInv
  <2>2. CASE Tick \/ DrainStart \/ Drain \/ EngineGone \/ UNCHANGED vars
    <3>1. UNCHANGED bucketVars /\ UNCHANGED <<call, use, local>>
          /\ \A c \in Clients : pc'[c] = pc[c] \/ pc'[c] = "idle"
      BY <2>2 DEF TypeOK, Tick, DrainStart, Drain, DrainPoll, DrainExit, EngineGone, vars, clientVars
    <3>. QED BY <3>1 DEF RateInv, bucketVars
  <2>. QED BY <2>1, <2>2 DEF Next
<1>3. TypeOK /\ RateInv => RateCeiling
  <2>. SUFFICES ASSUME TypeOK, RateInv, NEW p \in Metered
                PROVE  debit[p] <= Capacity + RefillRate * now
    BY DEF RateCeiling
  <2>1. tokens[p] \in Nat /\ debit[p] \in Int /\ p \in Providers
        /\ tokens[p] + debit[p] <= Capacity + RefillRate * last[p]
    BY BrokerAssumption DEF TypeOK, RateInv
  <2>2. Refilled(p) + debit[p] <= Capacity + RefillRate * now /\ Refilled(p) \in Nat
    BY <2>1, RefillBalance, RefilledType, BrokerAssumption
  <2>3. Capacity + RefillRate * now \in Int
    BY BrokerAssumption DEF TypeOK
  <2>. QED BY <2>1, <2>2, <2>3
<1>. QED BY <1>1, <1>2, <1>3, IdStep, TypeCorrect, PTL DEF Spec

-----------------------------------------------------------------------------
(* The limiter                                                             *)

\* The clients with a call to p whose thread is at a label in L.
At(p, L) == {c \in Clients : call[c].provider = p /\ pc[c] \in L}

\* The semaphore and the count are changed in two steps; a slot between the two
\* belongs to the thread at "inc" or "semrel".  Threads that die with the
\* process may lose slots, never make them.  Whoever will decrement the count
\* has incremented it.
Holding == {"create", "calling", "release", "untoken", "dec"}
SlotInv ==
    \A p \in Limited :
        /\ sem[p] >= 0
        /\ sem[p] + in_flight[p] + Cardinality(At(p, {"inc"}))
              + Cardinality(At(p, {"semrel"})) <= MaxConcurrency
        /\ Cardinality(At(p, Holding)) <= in_flight[p]

\* How a step of client c changes the number of clients at some labels.
LEMMA AtStep ==
    ASSUME TypeOK, NEW c \in Clients, ServerThread(c) \/ Client(c), NEW p, NEW L
    PROVE  /\ Cardinality(At(p, L)) \in Nat /\ Cardinality(At(p, L)') \in Nat
           /\ c \in At(p, L) <=> call[c].provider = p /\ pc[c] \in L
           /\ c \in At(p, L)' <=> call'[c].provider = p /\ pc'[c] \in L
           /\ (c \in At(p, L) <=> c \in At(p, L)') =>
                 Cardinality(At(p, L)') = Cardinality(At(p, L))
           /\ c \in At(p, L) /\ c \notin At(p, L)' =>
                 Cardinality(At(p, L)') = Cardinality(At(p, L)) - 1
           /\ c \notin At(p, L) /\ c \in At(p, L)' =>
                 Cardinality(At(p, L)') = Cardinality(At(p, L)) + 1
<1>0. \A d \in Clients : d # c => pc'[d] = pc[d] /\ call'[d] = call[d]
  BY OneMoves
<1>1. At(p, L) \subseteq Clients /\ At(p, L)' \subseteq Clients
  BY DEF At
<1>2. IsFiniteSet(At(p, L)) /\ IsFiniteSet(At(p, L)')
  BY <1>1, BrokerAssumption, FS_Subset
<1>3. Cardinality(At(p, L)) \in Nat /\ Cardinality(At(p, L)') \in Nat
  BY <1>2, FS_CardinalityType
<1>4. (c \in At(p, L) <=> c \in At(p, L)') => At(p, L)' = At(p, L)
  BY <1>0 DEF At
<1>5. c \in At(p, L) /\ c \notin At(p, L)' => At(p, L)' = At(p, L) \ {c}
  BY <1>0 DEF At
<1>6. c \notin At(p, L) /\ c \in At(p, L)' => At(p, L)' = At(p, L) \cup {c}
  BY <1>0 DEF At
<1>7. c \in At(p, L) => Cardinality(At(p, L) \ {c}) = Cardinality(At(p, L)) - 1
  BY <1>2, FS_RemoveElement
<1>8. c \notin At(p, L) => Cardinality(At(p, L) \cup {c}) = Cardinality(At(p, L)) + 1
  BY <1>2, FS_AddElement
<1>9. /\ c \in At(p, L) <=> call[c].provider = p /\ pc[c] \in L
      /\ c \in At(p, L)' <=> call'[c].provider = p /\ pc'[c] \in L
  BY DEF At
<1>. QED BY <1>3, <1>4, <1>5, <1>6, <1>7, <1>8, <1>9

\* The labels a step of client c leaves and reaches, as far as slots go.
LEMMA SlotMoves ==
    ASSUME TypeOK, NEW c \in Clients, ServerThread(c) \/ Client(c)
    PROVE  LET q == call[c].provider IN
           \/ /\ SemAcquire(c) /\ pc[c] = "sem" /\ pc'[c] = "inc" /\ UNCHANGED call
              /\ q \in Limited /\ sem[q] > 0
              /\ sem' = [sem EXCEPT ![q] = sem[q] - 1] /\ UNCHANGED in_flight
           \/ /\ pc[c] = "inc" /\ pc'[c] = "create" /\ UNCHANGED call
              /\ in_flight' = [in_flight EXCEPT ![q] = in_flight[q] + 1] /\ UNCHANGED sem
           \/ /\ pc[c] = "dec" /\ pc'[c] = "semrel" /\ UNCHANGED call
              /\ in_flight' = [in_flight EXCEPT ![q] = in_flight[q] - 1] /\ UNCHANGED sem
           \/ /\ pc[c] = "semrel" /\ pc'[c] = "idle"
              /\ sem' = [sem EXCEPT ![q] = sem[q] + 1] /\ UNCHANGED in_flight
           \/ /\ UNCHANGED limiterVars
              /\ (pc'[c] = pc[c] /\ call'[c] = call[c]) \/ (pc[c] \notin {"inc", "semrel"}
                                    /\ pc'[c] \notin {"inc", "semrel"})
              /\ \/ pc'[c] \notin Holding
                 \/ pc[c] \in Holding /\ call'[c].provider = q
                 \/ q \notin Limited /\ call'[c].provider = q
<1>. USE DEF TypeOK, Call, GotoWith, Goto, Finish, Reply, HandlerDies, Holding,
             limiterVars
<1>1. CASE KillCheck(c) \/ BucketTryAcquire(c) \/ Refund(c) \/ Create(c)
  BY <1>1 DEF KillCheck, BucketTryAcquire, Refund, Create
<1>2. CASE SemAcquire(c) \/ InFlightInc(c)
  BY <1>2 DEF SemAcquire, InFlightInc
<1>3. CASE StoreCommit(c) \/ DeltaRefund(c) \/ Govern(c) \/ Burn(c) \/ ReadRunUsd(c)
           \/ WriteCumulative(c) \/ Trip(c) \/ Emit(c)
  BY <1>3 DEF StoreCommit, DeltaRefund, Govern, Burn, ReadRunUsd, WriteCumulative,
              Trip, Emit
<1>4. CASE StoreRelease(c) \/ ReturnTokens(c)
  BY <1>4 DEF StoreRelease, ReturnTokens
<1>5. CASE InFlightDec(c) \/ SemRelease(c)
  BY <1>5 DEF InFlightDec, SemRelease
<1>6. CASE Client(c)
  BY <1>6 DEF Client, Reserve, ProviderOk, ProviderFail, ClientGone
<1>. QED BY <1>1, <1>2, <1>3, <1>4, <1>5, <1>6 DEF ServerThread

\* The limiter never counts outside 0..max_concurrency and its semaphore never
\* overflows, so no RELEASE dies of ValueError.
THEOREM SlotsSafe == Spec => []SlotsBounded
<1>1. Init => SlotInv
  <2>. SUFFICES ASSUME Init PROVE SlotInv
    OBVIOUS
  <2>1. \A p : \A L \in {{"inc"}, {"semrel"}, Holding} : At(p, L) = {}
    BY DEF Init, At, Holding
  <2>2. \A p : \A L \in {{"inc"}, {"semrel"}, Holding} : Cardinality(At(p, L)) = 0
    BY <2>1, FS_EmptySet
  <2>3. \A p \in Limited : sem[p] = MaxConcurrency /\ in_flight[p] = 0
    BY BrokerAssumption DEF Init
  <2>4. \A p : /\ Cardinality(At(p, {"inc"})) = 0 /\ Cardinality(At(p, {"semrel"})) = 0
               /\ Cardinality(At(p, Holding)) = 0
    BY <2>2
  <2>. QED BY <2>3, <2>4, BrokerAssumption DEF SlotInv
<1>2. TypeOK /\ SlotInv /\ [Next]_vars => SlotInv'
  <2>. SUFFICES ASSUME TypeOK, SlotInv, [Next]_vars PROVE SlotInv'
    OBVIOUS
  <2>1. ASSUME NEW c \in Clients, ServerThread(c) \/ Client(c) PROVE SlotInv'
    <3>. SUFFICES ASSUME NEW p \in Limited
                  PROVE  /\ sem'[p] >= 0
                         /\ sem'[p] + in_flight'[p] + Cardinality(At(p, {"inc"})')
                               + Cardinality(At(p, {"semrel"})') <= MaxConcurrency
                         /\ Cardinality(At(p, Holding)') <= in_flight'[p]
      BY DEF SlotInv, At, Holding
    <3>. DEFINE I == At(p, {"inc"})
                S == At(p, {"semrel"})
                H == At(p, Holding)
                q == call[c].provider
    <3>0. /\ sem \in [Providers -> Int] /\ in_flight \in [Providers -> Int]
          /\ p \in Providers /\ MaxConcurrency \in Nat
          /\ sem[p] >= 0 /\ Cardinality(H) <= in_flight[p]
          /\ sem[p] + in_flight[p] + Cardinality(I) + Cardinality(S) <= MaxConcurrency
      BY BrokerAssumption DEF TypeOK, SlotInv
    <3>i. /\ Cardinality(I) \in Nat /\ Cardinality(I') \in Nat
          /\ c \in I <=> q = p /\ pc[c] = "inc"
          /\ c \in I' <=> call'[c].provider = p /\ pc'[c] = "inc"
          /\ (c \in I <=> c \in I') => Cardinality(I') = Cardinality(I)
          /\ c \in I /\ c \notin I' => Cardinality(I') = Cardinality(I) - 1
          /\ c \notin I /\ c \in I' => Cardinality(I') = Cardinality(I) + 1
      BY <2>1, AtStep
    <3>s. /\ Cardinality(S) \in Nat /\ Cardinality(S') \in Nat
          /\ c \in S <=> q = p /\ pc[c] = "semrel"
          /\ c \in S' <=> call'[c].provider = p /\ pc'[c] = "semrel"
          /\ (c \in S <=> c \in S') => Cardinality(S') = Cardinality(S)
          /\ c \in S /\ c \notin S' => Cardinality(S') = Cardinality(S) - 1
          /\ c \notin S /\ c \in S' => Cardinality(S') = Cardinality(S) + 1
      BY <2>1, AtStep
    <3>h. /\ Cardinality(H) \in Nat /\ Cardinality(H') \in Nat
          /\ c \in H <=> q = p /\ pc[c] \in Holding
          /\ c \in H' <=> call'[c].provider = p /\ pc'[c] \in Holding
          /\ (c \in H <=> c \in H') => Cardinality(H') = Cardinality(H)
          /\ c \in H /\ c \notin H' => Cardinality(H') = Cardinality(H) - 1
          /\ c \notin H /\ c \in H' => Cardinality(H') = Cardinality(H) + 1
      BY <2>1, AtStep
    <3>. HIDE DEF I, S, H
    <3>m. /\ UNCHANGED limiterVars => sem'[p] = sem[p] /\ in_flight'[p] = in_flight[p]
      BY DEF limiterVars
    <3>. QED
      <4>1. CASE pc[c] = "sem" /\ pc'[c] = "inc" /\ UNCHANGED call /\ sem[q] > 0
                 /\ sem' = [sem EXCEPT ![q] = sem[q] - 1] /\ UNCHANGED in_flight
        BY <4>1, <3>0, <3>i, <3>s, <3>h DEF Holding, I, S, H
      <4>2. CASE pc[c] = "inc" /\ pc'[c] = "create" /\ UNCHANGED call
                 /\ in_flight' = [in_flight EXCEPT ![q] = in_flight[q] + 1]
                 /\ UNCHANGED sem
        BY <4>2, <3>0, <3>i, <3>s, <3>h DEF Holding, I, S, H
      <4>3. CASE pc[c] = "dec" /\ pc'[c] = "semrel" /\ UNCHANGED call
                 /\ in_flight' = [in_flight EXCEPT ![q] = in_flight[q] - 1]
                 /\ UNCHANGED sem
        BY <4>3, <3>0, <3>i, <3>s, <3>h DEF Holding, I, S, H
      <4>4. CASE pc[c] = "semrel" /\ pc'[c] = "idle" /\ UNCHANGED in_flight
                 /\ sem' = [sem EXCEPT ![q] = sem[q] + 1]
        BY <4>4, <3>0, <3>i, <3>s, <3>h DEF Holding, I, S, H
      <4>5. CASE /\ UNCHANGED limiterVars
                 /\ (pc'[c] = pc[c] /\ call'[c] = call[c]) \/ (pc[c] \notin {"inc", "semrel"}
                                       /\ pc'[c] \notin {"inc", "semrel"})
                 /\ \/ pc'[c] \notin Holding
                    \/ pc[c] \in Holding /\ call'[c].provider = q
                    \/ q \notin Limited /\ call'[c].provider = q
        BY <4>5, <3>0, <3>i, <3>s, <3>h, <3>m DEF I, S, H
      <4>. QED BY <2>1, <4>1, <4>2, <4>3, <4>4, <4>5, SlotMoves
  <2>2. CASE Tick \/ DrainStart \/ Drain \/ EngineGone \/ UNCHANGED vars
    <3>1. UNCHANGED limiterVars /\ UNCHANGED call
          /\ \A c \in Clients : pc'[c] = pc[c] \/ pc'[c] = "idle"
      BY <2>2 DEF TypeOK, Tick, DrainStart, Drain, DrainPoll, DrainExit, EngineGone, vars, clientVars
    <3>2. ASSUME NEW p, NEW L \in {{"inc"}, {"semrel"}, Holding}
          PROVE  /\ Cardinality(At(p, L)') <= Cardinality(At(p, L))
                 /\ Cardinality(At(p, L)') \in Nat /\ Cardinality(At(p, L)) \in Nat
      <4>1. At(p, L)' \subseteq At(p, L) /\ At(p, L) \subseteq Clients
        BY <3>1, <3>2 DEF At, Holding
      <4>2. IsFiniteSet(At(p, L)) /\ IsFiniteSet(At(p, L)')
        BY <4>1, BrokerAssumption, FS_Subset
      <4>. QED BY <4>1, <4>2, FS_Subset, FS_CardinalityType
    <3>. QED
      <4>. SUFFICES ASSUME NEW p \in Limited
                  PROVE  /\ sem'[p] >= 0
                         /\ sem'[p] + in_flight'[p] + Cardinality(At(p, {"inc"})')
                               + Cardinality(At(p, {"semrel"})') <= MaxConcurrency
                         /\ Cardinality(At(p, Holding)') <= in_flight'[p]
        BY DEF SlotInv, At, Holding
      <4>1. sem[p] \in Int /\ in_flight[p] \in Int /\ MaxConcurrency \in Nat
            /\ sem'[p] = sem[p] /\ in_flight'[p] = in_flight[p]
        BY <3>1, BrokerAssumption DEF TypeOK, limiterVars
      <4>2. /\ Cardinality(At(p, {"inc"})') <= Cardinality(At(p, {"inc"}))
            /\ Cardinality(At(p, {"semrel"})') <= Cardinality(At(p, {"semrel"}))
            /\ Cardinality(At(p, Holding)') <= Cardinality(At(p, Holding))
            /\ Cardinality(At(p, {"inc"})') \in Nat /\ Cardinality(At(p, {"inc"})) \in Nat
            /\ Cardinality(At(p, {"semrel"})') \in Nat
            /\ Cardinality(At(p, {"semrel"})) \in Nat
            /\ Cardinality(At(p, Holding)') \in Nat /\ Cardinality(At(p, Holding)) \in Nat
        BY <3>2
      <4>. QED BY <4>1, <4>2 DEF SlotInv
  <2>. QED BY <2>1, <2>2 DEF Next
<1>3. TypeOK /\ SlotInv => SlotsBounded
  <2>. SUFFICES ASSUME TypeOK, SlotInv, NEW p \in Limited
                PROVE  /\ in_flight[p] \in 0..MaxConcurrency
                       /\ sem[p] \in 0..MaxConcurrency
                       /\ (\E c \in Clients : pc[c] = "semrel" /\ call[c].provider = p)
                             => sem[p] < MaxConcurrency
    BY DEF SlotsBounded
  <2>1. \A L : IsFiniteSet(At(p, L)) /\ Cardinality(At(p, L)) \in Nat
    BY BrokerAssumption, FS_Subset, FS_CardinalityType DEF At
  <2>2. (\E c \in Clients : pc[c] = "semrel" /\ call[c].provider = p)
           => Cardinality(At(p, {"semrel"})) # 0
    <3>. SUFFICES ASSUME NEW c \in Clients, pc[c] = "semrel", call[c].provider = p
                  PROVE  Cardinality(At(p, {"semrel"})) # 0
      OBVIOUS
    <3>1. c \in At(p, {"semrel"})
      BY DEF At
    <3>. QED BY <3>1, <2>1, FS_EmptySet
  <2>3. sem[p] \in Int /\ in_flight[p] \in Int /\ MaxConcurrency \in Nat
    BY BrokerAssumption DEF TypeOK
  <2>. QED BY <2>1, <2>2, <2>3 DEF SlotInv
<1>. QED BY <1>1, <1>2, <1>3, TypeCorrect, PTL DEF Spec
=============================================================================
