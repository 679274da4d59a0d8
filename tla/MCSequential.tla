---------------------------- MODULE MCSequential ----------------------------
(***************************************************************************)
(* Instances for TLC of the parts that one thread uses by itself: every    *)
(* question to the algorithms, and every sequence of calls of each object  *)
(* of Display.  These share nothing, so a behaviour is about one of them.  *)
(***************************************************************************)
EXTENDS Algorithms, Display

\* Spellings: capitals and blanks.
MCLower(t) == CASE t = "Anthropic"   -> "anthropic"
                [] t = "API_KEY"     -> "api_key"
                [] OTHER             -> t
MCStrip(t) == CASE t = " anthropic"  -> "anthropic"
                [] t = " api_key"    -> "api_key"
                [] t = " "           -> ""
                [] OTHER             -> t

\* A file with blocks in their order, and up to two variables of the environment.
TomlSettings ==
    {(Name("anthropic", "auth") :> Value("str", "none", "login")),
     (Name("anthropic", "auth") :> Value("str", "none", "")),
     (Name("anthropic", "rpm") :> Value("str", "whole", "10")),
     (Name("anthropic", "rpm") :> Value("float", "fraction", "1.5")),
     (Name("anthropic", "base_url") :> Value("str", "none", "url of the file")),
     (Name("anthropic", "api_key") :> Value("str", "none", "key of the file")),
     (Name("top", "workspace_path") :> Value("str", "none", "w")),
     (Name("broker", "endpoint") :> Value("str", "none", Tcp("0.0.0.0", 9000))),
     (Name("broker", "endpoint") :> Value("str", "none", Unix("other"))),
     (Name("broker", "allow_unbrokered") :> Value("str", "word", "yes"))}
BlockLists ==
    {<<>>, <<"anthropic">>, <<"Anthropic">>, <<"anthropic", "Anthropic">>,
     <<"openrouter", "anthropic">>, <<"ollama", "typo">>}
MCFiles ==
    {[state |-> s, data |-> <<>>, blocks |-> <<>>] : s \in {"absent", "broken"}}
    \cup {[state |-> "ok", data |-> f[1], blocks |-> f[2]] :
              f \in {g \in (TomlSettings \cup {<<>>}) \X BlockLists :
                        {n.section : n \in DOMAIN g[1]} \subseteq ToSet(g[2]) \cup {"top", "broker"}}}
Raw(w, x) == Value("str", w, x)
Variables ==
    {<<Name("anthropic", "rpm"), Raw("whole", "10")>>,
     <<Name("anthropic", "rpm"), Raw("fraction", "1.5")>>,
     <<Name("anthropic", "auth"), Raw("none", "API_KEY")>>,
     <<Name("anthropic", "base_url"), Raw("none", "url")>>,
     <<Name("anthropic", "keep_alive"), Raw("whole", "300")>>,
     <<Name("top", "workspace"), Raw("none", "w")>>,
     <<Name("top", "api_key"), Raw("none", "misplaced")>>,
     <<KeyName("anthropic"), Raw("none", "key of the environment")>>,
     <<Name("anthropic", "token"), Raw("none", "unused")>>}
MCEnvironments ==
    {[n \in {v[1] : v \in E} |-> (CHOOSE v \in E : v[1] = n)[2]] :
        E \in UNION {kSubset(k, Variables) : k \in 0..2}}

MCSpecs ==
    {Unix("derived"), Unix("other"), Unix(""), Tcp("127.0.0.1", 0), Tcp("localhost", 9000),
     Tcp("0.0.0.0", 9000), Tcp("127.0.0.1", -1)}
MCKnown == {Unix("other"), Unix(""), Tcp("localhost", 9000), Tcp("127.0.0.1", 7000)}

\* Entries of the file: small ones, larger ones, one that is too large by itself.
MCBytes(l) == IF l = 4 THEN 6 ELSE IF l % 3 = 0 THEN 3 ELSE 1

\* Objects that are called again and again are problems that are never solved.
Throttle   == [kind |-> "throttle"]
Scrollback == [kind |-> "scrollback"]

SequentialInit ==
    /\ DisplayInit
    /\ \/ ~store /\ Init
       \/ ~store /\ problem = Throttle /\ answer = Unsolved
       \/ problem = Scrollback /\ answer = Unsolved

Calling(object) == Given(object) /\ UNCHANGED answer
SequentialNext ==
    \/ Next /\ UNCHANGED displayVars
    \/ Calling("throttle") /\ ThrottleNext /\ UNCHANGED scrollbackVars
    \/ Calling("scrollback") /\ ScrollbackNext /\ UNCHANGED throttleVars

SequentialSpec == SequentialInit /\ [][SequentialNext]_<<launchVars, displayVars>>
=============================================================================
