------------------------------ MODULE Planning ------------------------------
(***************************************************************************)
(* From a requirement to a validated chunk order, and from changed files   *)
(* and test reports to what is run and decided next: the engine's pure     *)
(* functions, in the form the code computes them.                          *)
(*                                                                         *)
(* Chunk ids c1, c2, ... are the numbers 1, 2, ..., in the order the code  *)
(* sorts them (fewer than ten).  A module name is the sequence of its      *)
(* parts.  Lines of text are records of what the regular expressions       *)
(* recognise in them.                                                      *)
(***************************************************************************)
EXTENDS Integers, Sequences, SequencesExt, FiniteSets, FiniteSetsExt

----------------------------------------------------------------------------
(* parse_chunks.                                                            *)

\* A line: blank or comment, free text, or "<id>: <title> deps: ...".
Blank           == [kind |-> "blank"]
Plain           == [kind |-> "plain"]
Structured(i, d) == [kind |-> "chunk", id |-> i, deps |-> d]

\* A free line is numbered by its position among the chunks.
parse_chunks(text) ==
    FoldLeft(LAMBDA chunks, line :
        CASE line.kind = "blank" -> chunks
          [] line.kind = "plain" ->
                Append(chunks, [id |-> Len(chunks) + 1, deps |-> <<>>])
          [] line.kind = "chunk" ->
                Append(chunks, [id |-> line.id, deps |-> line.deps]),
        <<>>, text)

----------------------------------------------------------------------------
(* ChunkDAG.                                                                *)

\* The dict by chunk id: of two chunks with one id the later one stays.
Adjacency(chunks) ==
    [c \in {chunks[i].id : i \in DOMAIN chunks} |->
        SortSeq(chunks[SelectLastInSeq(chunks, LAMBDA x : x.id = c)].deps, <)]

\* _validate_orphans.
Orphan(adj) == \E c \in DOMAIN adj : \E i \in DOMAIN adj[c] : adj[c][i] \notin DOMAIN adj

(* _find_cycle: depth first, with the colours, the path and the cycle found *)
(* so far in s.                                                             *)
RECURSIVE visit(_, _, _)
visit(adj, s, node) ==
    LET enter == [s EXCEPT !.color[node] = "grey", !.path = Append(@, node)]
        leave == FoldLeft(LAMBDA t, dep :
                    IF t.cycle # <<>> THEN t
                    ELSE CASE t.color[dep] = "grey" ->
                                [t EXCEPT !.cycle =
                                    SubSeq(t.path, SelectInSeq(t.path, LAMBDA n : n = dep),
                                           Len(t.path))]
                           [] t.color[dep] = "white" -> visit(adj, t, dep)
                           [] t.color[dep] = "black" -> t,
                    enter, adj[node])
    IN  IF leave.cycle # <<>> THEN leave
        ELSE [leave EXCEPT !.path = Front(@), !.color[node] = "black"]

find_cycle(adj) ==
    FoldLeft(LAMBDA s, node :
        IF s.cycle # <<>> \/ s.color[node] # "white" THEN s ELSE visit(adj, s, node),
        [color |-> [n \in DOMAIN adj |-> "white"], path |-> <<>>, cycle |-> <<>>],
        SetToSortSeq(DOMAIN adj, <)).cycle

\* How often node is listed among the dependencies of c.
Listed(adj, c, node) == Cardinality({i \in DOMAIN adj[c] : adj[c][i] = node})

(* _compute_order, Kahn's algorithm: ready is sorted and without repeats,   *)
(* so it is a set whose least member is popped.                             *)
RECURSIVE kahn(_, _, _, _)
kahn(adj, indegree, ready, order) ==
    IF ready = {} THEN order
    ELSE LET node == Min(ready)
             left == [c \in DOMAIN adj |-> indegree[c] - Listed(adj, c, node)]
             released == {c \in DOMAIN adj : indegree[c] > 0 /\ left[c] = 0}
         IN  kahn(adj, left, (ready \ {node}) \cup released, Append(order, node))

\* Mutant of compute_order: dependencies are counted once however often listed.
compute_order_once(adj) ==
    kahn(adj, [c \in DOMAIN adj |-> Cardinality(ToSet(adj[c]))],
         {c \in DOMAIN adj : adj[c] = <<>>}, <<>>)

compute_order(adj) ==
    kahn(adj, [c \in DOMAIN adj |-> Len(adj[c])],
         {c \in DOMAIN adj : adj[c] = <<>>}, <<>>)

\* The pair of ids that CyclicDependencyError names.
CyclePair(cycle) == IF Len(cycle) = 1 THEN <<cycle[1], cycle[1]>> ELSE <<cycle[1], cycle[2]>>

(* plan, and the start of run: the requirement is read, parsed and checked  *)
(* in this order, and the first error ends the command.                     *)
cmd_plan(args) ==
    LET chunks == parse_chunks(args.text)
        adj    == Adjacency(chunks)
        cycle  == find_cycle(adj)
        Fails(e) == [error |-> e, order |-> <<>>, pair |-> <<>>]
    IN  CASE ~args.mock      -> Fails("mock")
          [] ~args.exists    -> Fails("missing")
          [] chunks = <<>>   -> Fails("empty")
          [] Orphan(adj)     -> Fails("orphan")
          [] cycle # <<>>    -> [Fails("cycle") EXCEPT !.pair = CyclePair(cycle)]
          [] OTHER           -> [error |-> "none", order |-> compute_order(adj),
                                 pair |-> <<>>]

\* ready_chunks: what a worker may claim now.
ready_chunks(adj, order, status) ==
    SelectSeq(order, LAMBDA c :
        /\ status[c] = "PENDING"
        /\ \A i \in DOMAIN adj[c] : status[adj[c][i]] = "COMPLETED")

----------------------------------------------------------------------------
(* Differential test selection.                                             *)

(* A path is [dirs, file]: a leading src is dropped, the suffix .py too, and *)
(* __init__ stands for its package.                                         *)
path_to_module(path) ==
    LET dirs == IF path.dirs # <<>> /\ Head(path.dirs) = "src" THEN Tail(path.dirs)
                ELSE path.dirs
    IN  IF path.file = "__init__" THEN dirs ELSE Append(dirs, path.file)

(* What a file imports.  "from a import b" is recorded as a and a.b;        *)
(* relative imports, and files that do not parse, are not recorded.         *)
imports_of(file) ==
    IF ~file.parses THEN {}
    ELSE UNION {CASE i.kind = "import"   -> {i.name}
                  [] i.kind = "from"     -> {i.name, Append(i.name, i.symbol)}
                  [] i.kind = "relative" -> {} : i \in file.imports}

\* src gives the file at every path under the source root.
module_graph(src) ==
    [m \in {path_to_module(p) : p \in DOMAIN src} |->
        imports_of(src[CHOOSE p \in DOMAIN src : path_to_module(p) = m])]

\* Mutant of reachable: only the direct imports.
reachable_direct(stack, seen, graph) == seen \cup stack

\* The transitive closure, with a stack of modules to visit.
RECURSIVE reachable(_, _, _)
reachable(stack, seen, graph) ==
    IF stack = {} THEN seen
    ELSE LET m == CHOOSE x \in stack : TRUE
             more == IF m \in DOMAIN graph /\ m \notin seen THEN graph[m] ELSE {}
         IN  reachable((stack \ {m}) \cup (more \ seen), seen \cup {m}, graph)

build_dependency_graph(tests, src) ==
    [t \in DOMAIN tests |-> reachable(imports_of(tests[t]), {}, module_graph(src))]

(* select_tests: what the caller calls the full suite, nothing by default,  *)
(* when the loader raised or found no directories; else the tests that      *)
(* reach a changed module.                                                  *)
select_tests(changed, available, all_tests, tests, src) ==
    IF ~available THEN [tests |-> all_tests, full_suite |-> TRUE]
    ELSE LET graph == build_dependency_graph(tests, src)
             modules == {path_to_module(p) : p \in changed}
         IN  [tests |-> {t \in DOMAIN tests : graph[t] \cap modules # {}},
              full_suite |-> FALSE]

----------------------------------------------------------------------------
(* Reports.                                                                 *)

Verdict(c, v) == [kind |-> "chunk", id |-> c, status |-> v]
E2E(v)        == [kind |-> "e2e", status |-> v]
Other         == [kind |-> "other"]

\* _parse: nothing at the first line it does not know; the last e2e verdict counts.
parse_report(text) ==
    FoldLeft(LAMBDA r, line :
        CASE ~r.ok                -> r
          [] line.kind = "blank"  -> r
          [] line.kind = "chunk"  -> [r EXCEPT !.chunks = Append(@, line)]
          [] line.kind = "e2e"    -> [r EXCEPT !.e2e = line.status]
          [] line.kind = "other"  -> [r EXCEPT !.ok = FALSE],
        [ok |-> TRUE, chunks |-> <<>>, e2e |-> "missing"], text)

\* classify_report: a classification, no failure, or the human's decision.
classify_report(text) ==
    LET r == parse_report(text)
        failing == SelectInSeq(r.chunks, LAMBDA l : l.status = "FAIL")
    IN  CASE ~r.ok \/ r.e2e = "missing" -> [class |-> "hitl"]
          [] r.e2e = "PASS"             -> [class |-> "none"]
          [] r.chunks = <<>>            -> [class |-> "hitl"]
          [] failing # 0 -> [class |-> "CHUNK_IMPLEMENTATION_BUG",
                             chunk |-> r.chunks[failing].id]
          [] OTHER       -> [class |-> "INTEGRATION_SPEC_MISMATCH"]

\* The counts of the last summary line of pytest; none are zeros.
parse_pytest_counts(output) ==
    LET last == SelectLastInSeq(output, LAMBDA l : l.kind = "summary")
    IN  IF last = 0 THEN [failed |-> 0, errors |-> 0]
        ELSE [failed |-> output[last].failed, errors |-> output[last].errors]

\* classify_failure of the tester's command; "none" completes the chunk.
classify_failure(exit_code, timed_out, counts) ==
    CASE timed_out                               -> "TIMEOUT"
      [] exit_code = 0                           -> "none"
      [] exit_code = 127                         -> "RUNTIME_ERROR"
      [] counts.errors > 0 /\ counts.failed = 0  -> "COMPILE_ERROR"
      [] counts.failed > 0                       -> "TEST_FAILURE"
      [] OTHER                                   -> "UNKNOWN"
=============================================================================
