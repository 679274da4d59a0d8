------------------------------- MODULE Launch -------------------------------
(***************************************************************************)
(* Questions to the code of Settings: may this live run start, with which  *)
(* key, and do broker and client meet?  A problem is given, a step solves  *)
(* it with the code's function, and SettingsAgree is about the answers.    *)
(***************************************************************************)
EXTENDS Settings

CONSTANTS
    Files,          \* configuration files: [state, data, blocks]
    Environments,   \* the variables that are set, from names to texts
    ProviderNames,  \* what can be asked for as the provider
    ModelNames,     \* and as the model
    Modes,          \* modes of authentication
    KeyTexts,       \* texts of secrets
    Specs,          \* endpoints a broker can be told to bind
    Known           \* endpoints named to a client, in the file, or listening

(* A file that is not there or not TOML says nothing; settings of a         *)
(* provider are in its block.  Secrets and models are no names of errors.   *)
ASSUME LaunchAssumption ==
    /\ \A f \in Files :
          /\ f.state \in {"absent", "broken", "ok"}
          /\ f.state # "ok" => f.data = <<>> /\ f.blocks = <<>>
          /\ f.blocks \in Seq(STRING)
          /\ IsFiniteSet(DOMAIN f.data)
          /\ \A n \in DOMAIN f.data :
                /\ n.section \in ToSet(f.blocks) \cup {"top", "broker"}
                /\ f.data[n].type \in {"bool", "int", "float", "str", "other"}
                /\ f.data[n].type = "other" => f.data[n].written = "none"
    /\ \A e \in Environments :
          /\ IsFiniteSet(DOMAIN e)
          /\ \A n \in DOMAIN e : n.section \in STRING /\ e[n].text \notin {None} \cup Errors
    /\ "UnknownProviderError" \notin ModelNames
    /\ KeyTexts \cap ({None} \cup Errors) = {}
    /\ \A s \in Specs \cup Known :
          \/ s.kind = "unix" /\ s = Unix(s.path)
          \/ s.kind = "tcp" /\ s = Tcp(s.host, s.port) /\ s.port \in Int

VARIABLES
    problem,   \* the input: [kind, ...]
    answer     \* Unsolved, or what the code computes

launchVars == <<problem, answer>>
Unsolved == [kind |-> "unsolved"]

Runs ==
    [kind : {"live"}, file : Files, env : Environments, provider : ProviderNames,
     model : {None} \cup ModelNames, requirement : {"missing", "no chunks", "ok"},
     keyring : BOOLEAN, endpoint : {Nothing} \cup Known, published : {Nothing},
     alive : {{}}, af_unix : BOOLEAN]
Keys ==
    [kind : {"key"}, mode : Modes, env : {None} \cup KeyTexts,
     keyring : BOOLEAN, file : {"absent", "loose", "0600"}]
Meetings ==
    [kind : {"meet"}, flag : {Nothing} \cup Specs, af_unix : BOOLEAN,
     explicit : {Nothing} \cup Known, configured : {Nothing} \cup Known,
     old : {Nothing} \cup Known, others : SUBSET Known]

LaunchInit == problem \in Runs \cup Keys \cup Meetings /\ answer = Unsolved

Given(kind) == answer = Unsolved /\ problem.kind = kind /\ UNCHANGED problem

Live == Given("live") /\ answer' = run_live(problem)
Key  == Given("key") /\ answer' = authenticate(problem.mode, problem)
Meet == Given("meet") /\ answer' = meet(problem)

LaunchNext == Live \/ Key \/ Meet
LaunchSpec == LaunchInit /\ [][LaunchNext]_launchVars

----------------------------------------------------------------------------
Solved(kind) == answer # Unsolved /\ problem.kind = kind

(* The settings as the operator means them: a variable before the file, and *)
(* no secret among them.                                                    *)
IsSet(n)         == n \in DOMAIN problem.env /\ ~is_secret_key(n)
Told(n, default) == IF IsSet(n) THEN problem.env[n].text
                    ELSE IF n \in DOMAIN problem.file.data THEN problem.file.data[n].text
                    ELSE default
Valid ==
    /\ problem.file.state # "broken"
    /\ \A n \in DOMAIN problem.file.data :
          IsSet(n) \/ Accepts(FieldType(n), problem.file.data[n])
    /\ \A n \in DOMAIN problem.env :
          IsSet(n) => Accepts(FieldType(n), coerce(problem.env[n]))
HasBlock(pid) ==
    \/ pid \in ToSet(problem.file.blocks)
    \/ \E n \in DOMAIN problem.env : IsSet(n) /\ n.section = pid

\* The endpoint named to the client, on the command line or in the settings.
Named == IF problem.endpoint # Nothing THEN problem.endpoint
         ELSE Told(Name("broker", "endpoint"), Nothing)

(* A live run starts exactly when all that it needs is there, and its       *)
(* client is the one the operator asked for; the broker has a policy for    *)
(* the provider, that of the provider's own block unless another block's    *)
(* name is taken for it.  Without a model's name its prompts have no budget *)
(* and its usage no price: no default model is in the registry.             *)
RunsAsAsked ==
    LET pid    == Lower(Strip(problem.provider))
        inEnv  == KeyName(pid) \in DOMAIN problem.env
        url    == Told(Name(pid, "base_url"), "")
        from   == policy(pid, answer.cfg.blocks)
        blocks == ToSet(answer.cfg.blocks)
    IN  /\ answer.error = "none" <=>
              /\ Valid /\ problem.requirement = "ok"
              /\ pid \in DOMAIN REGISTRY /\ HasBlock(pid)
              /\ normalized(Told(Name(pid, "auth"), "api_key")) = "api_key"
              /\ inEnv \/ problem.keyring
              /\ Named = Nothing \/ parse_endpoint(Named) # Malformed
        /\ answer.error = "none" =>
              /\ \A n \in DOMAIN answer.cfg.data : ~is_secret_key(n)
              /\ answer.client.base_url = IF url = "" THEN "default url" ELSE url
              /\ answer.client.key = IF inEnv THEN problem.env[KeyName(pid)].text
                                     ELSE "key of the keyring"
              /\ Named # Nothing => answer.broker = Named
              /\ from \in blocks /\ (blocks \subseteq ProviderIds => from = pid)
              /\ problem.model = None => ~answer.budgeted

\* The first source that has a key gives it, under the mode that uses keys.
FirstKey ==
    LET sources == <<problem.env,
                     IF problem.keyring THEN "key of the keyring" ELSE None,
                     IF problem.file = "0600" THEN "key of the file" ELSE None>>
        found   == {i \in 1..3 : sources[i] # None}
    IN  answer = IF normalized(problem.mode) = "api_key" /\ found # {}
                 THEN [error |-> "none", key |-> sources[Min(found)]]
                 ELSE [error |-> "AuthError"]

\* A client that is told nothing finds the broker.
ClientMeets ==
    LET bound == answer.bound
    IN  /\ bound.kind = "tcp" => bound.host = "127.0.0.1" /\ bound.port > 0
        /\ (/\ problem.explicit = Nothing /\ problem.configured = Nothing
            /\ bound.kind = "tcp" \/ (bound = Unix("derived") /\ problem.old \notin problem.others))
              => answer.client = bound

(* A live run starts exactly when all that it needs is there and its client *)
(* is the one the operator asked for: the environment's settings before the *)
(* file's and no secret among them, a key from the environment, the         *)
(* keyring or a private file, in this order and never under the login mode, *)
(* and the broker at the endpoint named, if one is and it can be read.  The *)
(* broker has a policy for its provider, that of the provider's own block   *)
(* unless another block's name is taken for it; a run that names no model   *)
(* has no prompt budget.  A client that is told nothing finds the broker,   *)
(* wherever it is bound, save a broker told to use a socket path of its own *)
(* or a stale port that another process has taken.  load_config,            *)
(* SecretsProvider, build_client, BrokerClient, PolicyRegistry,             *)
(* resolve_live_endpoint.                                                   *)
SettingsAgree ==
    /\ Solved("live") => RunsAsAsked
    /\ Solved("key")  => FirstKey
    /\ Solved("meet") => ClientMeets
=============================================================================
