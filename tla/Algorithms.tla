----------------------------- MODULE Algorithms -----------------------------
(***************************************************************************)
(* The algorithms of Planning and Calls, each run on every small input and *)
(* held against what it is meant to compute.  Launch asks the questions    *)
(* about Settings; like there, a problem is given, a step solves it with   *)
(* the code's function, and the properties are about the answers.          *)
(***************************************************************************)
EXTENDS Planning, Calls, Launch

CONSTANTS
    MaxText,    \* bound: lines of a requirement or a report
    MaxChars    \* bound: length of a message

ASSUME AlgorithmsAssumption == MaxText \in Nat /\ MaxChars \in Nat

----------------------------------------------------------------------------
(* Inputs.                                                                  *)

\* Every sequence over S of at most n elements.
UpTo(S, n) == UNION {[1..k -> S] : k \in 0..n}

\* Dependencies: in both orders, repeated, on itself and on an unknown chunk.
DepLists == {<<>>, <<1>>, <<2>>, <<3>>, <<4>>, <<2, 1>>, <<1, 3>>, <<3, 3>>}
Lines == {Blank, Plain} \cup {Structured(i, d) : i \in 1..3, d \in DepLists}
Plans ==
    [kind : {"plan"}, mock : {TRUE}, exists : {TRUE}, text : UpTo(Lines, MaxText)]
    \cup [kind : {"plan"}, mock : BOOLEAN, exists : BOOLEAN, text : {<<Plain>>}]

\* A package, two modules in it, and one that is not under the source root.
A == <<"p", "a">>
B == <<"p", "b">>
Imports ==
    {[kind |-> "import", name |-> A], [kind |-> "import", name |-> B],
     [kind |-> "from", name |-> <<"p">>, symbol |-> "b"],
     [kind |-> "import", name |-> <<"os">>], [kind |-> "relative"]}
Broken      == [parses |-> FALSE, imports |-> {[kind |-> "import", name |-> B]}]
FilesOf(n)  == [parses : {TRUE}, imports : UNION {kSubset(k, Imports) : k \in 0..n}]
               \cup {Broken}
Path(dirs, file) == [dirs |-> dirs, file |-> file]
Sources ==
    {(Path(<<"p">>, "__init__") :> i) @@ (Path(<<"p">>, "a") :> a) @@ (Path(<<"p">>, "b") :> b) :
        i \in [parses : {TRUE}, imports : {{}, {[kind |-> "import", name |-> B]}}],
        a \in FilesOf(1), b \in FilesOf(1)}
Selections ==
    [kind : {"select"}, available : BOOLEAN, src : Sources, tests : [{"t"} -> FilesOf(2)],
     changed : {{}, {Path(<<"src", "p">>, "b")}, {Path(<<"src", "p">>, "__init__")}},
     all_tests : {{}, {"t"}}]

Reports ==
    [kind : {"report"},
     text : UpTo({Blank, Other, E2E("PASS"), E2E("FAIL")}
                 \cup {Verdict(c, v) : c \in {1, 2}, v \in {"PASS", "FAIL"}}, MaxText + 1)]
Summary(f, e) == [kind |-> "summary", failed |-> f, errors |-> e]
Suites ==
    [kind : {"suite"}, exit : {0, 1, 127}, timed_out : BOOLEAN,
     output : UpTo({Other} \cup {Summary(f, e) : f \in 0..1, e \in 0..1}, 2)]

Prompts ==
    [kind : {"prompt"}, budget : -1..12, messages : UpTo({0, 1, 4, 5, MaxChars}, 3)]
Traces ==
    [kind : {"trace"}, n : 0..6, head : 0..2, tail : 0..2]
Recoveries ==
    [kind : {"recover"}, script : [1..2 -> {"ok", "error", "overflow"}]]
Providers == <<"anthropic", "openrouter", "ollama">>
Fallbacks ==
    [kind : {"fallback"},
     answers : [1..2 -> [ToSet(Providers) -> {200, 429, 401, 400, 503}]]]
Delays ==
    [kind : {"delay"}, attempt : 0..8, retry_after : {-1, 0, 200}, jitter : 0..1]

Init ==
    /\ problem \in Plans \cup Selections \cup Reports \cup Suites \cup Prompts
                   \cup Traces \cup Recoveries \cup Fallbacks \cup Delays
                   \cup Runs \cup Keys \cup Meetings
    /\ answer = Unsolved

----------------------------------------------------------------------------
(* Solving.                                                                 *)

Plan   == Given("plan") /\ answer' = cmd_plan(problem)
Select == /\ Given("select")
          /\ answer' = select_tests(problem.changed, problem.available, problem.all_tests,
                                    problem.tests, problem.src)
Report == Given("report") /\ answer' = classify_report(problem.text)
Suite  == /\ Given("suite")
          /\ answer' = [class |-> classify_failure(problem.exit, problem.timed_out,
                                     parse_pytest_counts(problem.output))]
Prompt == /\ Given("prompt")
          /\ answer' = [messages |-> build_prompt(problem.messages, problem.budget)]
Trace  == /\ Given("trace")
          /\ answer' = [lines |-> cap_trace([i \in 1..problem.n |-> i],
                                            problem.head, problem.tail)]
Recover == Given("recover") /\ answer' = complete_with_recovery(problem.script)
Fallback ==
    /\ Given("fallback")
    /\ LET first == call(Providers, [p \in ToSet(Providers) |-> "HEALTHY"],
                         problem.answers[1])
       IN  answer' = [first |-> first,
                      second |-> call(Providers, first.health, problem.answers[2])]
Delay == /\ Given("delay")
         /\ answer' = [delay |-> delay(problem.attempt, problem.retry_after, problem.jitter)]

Next == \/ Plan \/ Select \/ Report \/ Suite \/ Prompt \/ Trace \/ Recover
        \/ Fallback \/ Delay \/ LaunchNext

Spec == Init /\ [][Next]_launchVars
----------------------------------------------------------------------------
(* What the answers must be.                                                *)

\* The members of U that every set containing S and closed under next contains.
Closure(U, S, next(_)) ==
    {x \in U : \A C \in SUBSET U :
        (S \cap U \subseteq C /\ \A y \in C : next(y) \cap U \subseteq C) => x \in C}

(* A plan is accepted exactly when its dependencies can be satisfied: no    *)
(* chunk waits on an unknown one and no set of chunks waits on itself.  A    *)
(* refusal names two neighbours on a real cycle.  An accepted order takes   *)
(* at every place the least chunk whose dependencies are all before it, and *)
(* whatever the workers have completed, exactly the pending chunks with     *)
(* completed dependencies are ready: a plan in which nothing failed and     *)
(* nothing is being worked on never stalls.  parse_chunks, ChunkDAG and     *)
(* ready_chunks.                                                            *)
PlanSound ==
    Solved("plan") =>
    LET adj      == Adjacency(parse_chunks(problem.text))
        ids      == DOMAIN adj
        Deps(c)  == ToSet(adj[c])
        order    == answer.order
        Before(k) == {order[j] : j \in 1..k - 1}
        unusable == ~problem.mock \/ ~problem.exists \/ ids = {}
        orphan   == \E c \in ids : ~Deps(c) \subseteq ids
        cyclic   == \E S \in SUBSET ids : S # {} /\ \A c \in S : Deps(c) \cap S # {}
    IN  /\ answer.error \in {"mock", "missing", "empty"} <=> unusable
        /\ answer.error = "orphan" <=> ~unusable /\ orphan
        /\ answer.error = "cycle"  <=> ~unusable /\ ~orphan /\ cyclic
        /\ answer.error = "cycle"  =>
             /\ answer.pair[2] \in Deps(answer.pair[1])
             /\ answer.pair[1] \in Closure(ids, {answer.pair[2]}, Deps)
        /\ answer.error = "none" =>
             /\ Len(order) = Cardinality(ids)
             /\ \A k \in DOMAIN order :
                   order[k] = Min({c \in ids \ Before(k) : Deps(c) \subseteq Before(k)})
             /\ \A status \in [ids -> {"PENDING", "IN_PROGRESS", "COMPLETED", "FAILED"}] :
                   LET ready == ToSet(ready_chunks(adj, order, status))
                       In(s) == {c \in ids : status[c] = s}
                   IN  /\ ready = {c \in In("PENDING") : Deps(c) \subseteq In("COMPLETED")}
                       /\ In("PENDING") # {} /\ ready = {}
                             => In("IN_PROGRESS") \cup In("FAILED") # {}

(* The evidence decides as it should.  With a graph, a test from which a    *)
(* chain of absolute imports leads to a changed module is selected, and a   *)
(* selected one does run a changed module, by an import or as the package   *)
(* of one; without a graph the caller's full suite is.  (A package that is  *)
(* only run because a module of it is imported, and relative imports, are   *)
(* in no chain: such a test may be skipped.)  An e2e report is blamed on a  *)
(* chunk only if that chunk, and no earlier one, failed, to the             *)
(* integration only if every chunk passed, and to the human when it cannot  *)
(* be read; a chunk's suite passes exactly on exit code 0 in time.          *)
(* select_tests, classify_report, classify_failure.                         *)
EvidenceExact ==
    /\ Solved("select") =>
         LET graph   == module_graph(problem.src)
             names   == UNION {imports_of([parses |-> TRUE, imports |-> {i}]) : i \in Imports}
             changed == {path_to_module(p) : p \in problem.changed}
             Recorded(m) == IF m \in DOMAIN graph THEN graph[m] ELSE {}
             Run(M)  == UNION {Prefixes(m) : m \in M}
             Runs1(m) == Run(Recorded(m))
             Chains(t) == Closure(names, imports_of(problem.tests[t]), Recorded)
             Loads(t)  == Closure(names, Run(imports_of(problem.tests[t])), Runs1)
         IN  /\ answer.full_suite = ~problem.available
             /\ ~problem.available => answer.tests = problem.all_tests
             /\ problem.available => \A t \in DOMAIN problem.tests :
                   /\ Chains(t) \cap changed # {} => t \in answer.tests
                   /\ t \in answer.tests => Loads(t) \cap changed # {}
    /\ Solved("report") =>
         LET text      == problem.text
             Is(i, k)  == text[i].kind = k
             chunkLines == {i \in DOMAIN text : Is(i, "chunk")}
             failing   == {i \in chunkLines : text[i].status = "FAIL"}
             e2e       == {i \in DOMAIN text : Is(i, "e2e")}
             readable  == e2e # {} /\ \A i \in DOMAIN text : ~Is(i, "other")
             passed    == readable /\ text[Max(e2e)].status = "PASS"
         IN  /\ answer.class = "none" <=> passed
             /\ answer.class = "hitl" <=> ~readable \/ (~passed /\ chunkLines = {})
             /\ answer.class = "CHUNK_IMPLEMENTATION_BUG" <=>
                   readable /\ ~passed /\ failing # {}
             /\ answer.class = "CHUNK_IMPLEMENTATION_BUG" =>
                   answer.chunk = text[Min(failing)].id
    /\ Solved("suite") =>
         /\ answer.class = "none" <=> problem.exit = 0 /\ ~problem.timed_out
         /\ answer.class = "TEST_FAILURE" => \E i \in DOMAIN problem.output :
               problem.output[i].kind = "summary" /\ problem.output[i].failed > 0

(* A call stays within its bounds.  No message grows, and the prompt fits   *)
(* the budget exactly if it did so before or the budget has room for the    *)
(* two tokens that even an empty message is counted as (so it does not      *)
(* always); a capped trace keeps its first and last lines; an               *)
(* overflow is retried once, a second one goes to the human; the fallback   *)
(* asks each provider once, in order, until one answers or fails for good,  *)
(* and after it a provider is degraded exactly if its last try failed in a  *)
(* way worth retrying; the wait before a retry is what the server asked     *)
(* for, or grows with every attempt until it is the ceiling and the jitter, *)
(* where a later one can be shorter by the jitter.  build_prompt,           *)
(* cap_trace, OverflowRecovery, FallbackChain, Backoff.                     *)
CallsBounded ==
    /\ Solved("prompt") =>
         /\ count_messages(answer.messages) <= problem.budget <=>
               \/ count_messages(problem.messages) <= problem.budget
               \/ problem.budget >= 2 * Len(problem.messages)
         /\ \A i \in DOMAIN problem.messages : answer.messages[i] <= problem.messages[i]
    /\ Solved("trace") =>
         /\ problem.tail > 0 => Len(answer.lines) <= problem.head + problem.tail + 1
         /\ \A i \in 1..Min({problem.head, problem.n}) : answer.lines[i] = i
         /\ \A i \in 0..Min({problem.tail, problem.n}) - 1 :
               answer.lines[Len(answer.lines) - i] = problem.n - i
    /\ Solved("recover") =>
         /\ answer.retries <= 1 /\ answer.calls = answer.retries + 1
         /\ answer.end = "hitl" <=> \A i \in 1..2 : problem.script[i] = "overflow"
    /\ Solved("fallback") =>
         LET Good(r, k) == problem.answers[r][Providers[k]] = 200
             Try(r, k)  == Retryable(map_status(problem.answers[r][Providers[k]]))
             Asked(r)   == {k \in 1..3 : \A j \in 1..k - 1 : ~Good(r, j) /\ Try(r, j)}
             Lasts(k)   == {r \in 1..2 : k \in Asked(r)
                               /\ (Good(r, k) \/ Try(r, k))}
         IN  /\ \A r \in 1..2 :
                   LET a == IF r = 1 THEN answer.first ELSE answer.second
                   IN  /\ a.tried = SubSeq(Providers, 1, Cardinality(Asked(r)))
                       /\ a.end = "value" <=> \E k \in Asked(r) : Good(r, k)
                       /\ a.end = "exhausted" <=> \A k \in 1..3 : ~Good(r, k) /\ Try(r, k)
             /\ \A k \in 1..3 :
                   answer.second.health[Providers[k]] = "DEGRADED"
                      <=> Lasts(k) # {} /\ ~Good(Max(Lasts(k)), k)
    /\ Solved("delay") =>
         IF problem.retry_after # -1 THEN answer.delay = problem.retry_after
         ELSE /\ answer.delay \in 2..121
              /\ answer.delay < 120 => answer.delay < delay(problem.attempt + 1, -1, 0)
              /\ answer.delay >= 120 => delay(problem.attempt + 1, -1, 0) = 120
=============================================================================
