------------------------------ MODULE Settings ------------------------------
(***************************************************************************)
(* How a live run is put together from its surroundings: the configuration *)
(* file and the environment, the secrets, the client of the provider, the  *)
(* policy and the models the broker knows it by, and the endpoint at which *)
(* broker and client meet.                                                 *)
(*                                                                         *)
(* A setting is named [section, stem, field]; the section is "top",        *)
(* "broker" or a provider's block.  An error is the name of its class.     *)
(* Files that give a section as something else than a table, and           *)
(* variables named like a section, are left out.                           *)
(***************************************************************************)
EXTENDS Integers, Sequences, SequencesExt, FiniteSets, FiniteSetsExt

CONSTANTS
    Lower(_),   \* str.lower
    Strip(_)    \* str.strip

ProviderIds == {"anthropic", "openrouter", "ollama"}

\* The names the code compares with are lower case and without blanks.
ASSUME TextAssumption ==
    \A t \in ProviderIds \cup {"api_key"} : Lower(t) = t /\ Strip(t) = t

----------------------------------------------------------------------------
(* load_config.                                                             *)

(* A value has a type and is written as a number (0 or 1, another whole     *)
(* one, with or without a point, or one with a fraction), as true or false  *)
(* ("truth"), as another word for them ("word"), or as none of these.       *)
Value(t, w, x) == [type |-> t, written |-> w, text |-> x]
Wholes  == {"0/1", "whole", "0/1 point", "whole point"}
Numbers == Wholes \cup {"fraction"}

\* _coerce: what Python makes of the text of a variable.
coerce(raw) ==
    Value(CASE raw.written = "truth"                           -> "bool"
            [] raw.written \in {"0/1", "whole"}                -> "int"
            [] raw.written \in Numbers \ {"0/1", "whole"}      -> "float"
            [] OTHER                                           -> "str",
          raw.written, raw.text)

\* A setting, and a variable whose name ends in _API_KEY, _TOKEN and the like.
Name(s, f)        == [section |-> s, stem |-> "", field |-> f]
Secret(s, stem, f) == [section |-> s, stem |-> stem, field |-> f]

(* _is_secret_key: the suffix begins with an underscore, which the section  *)
(* of a variable ends with; DEV_HARNESS_API_KEY has none before it.         *)
is_secret_key(n) ==
    /\ n.field \in {"api_key", "token", "secret", "password"}
    /\ n.section # "top" \/ n.stem # ""

\* A variable takes the place of what the file says.
apply_env_overrides(data, env) ==
    LET told == {n \in DOMAIN env : ~is_secret_key(n)}
    IN  [n \in told \cup DOMAIN data |-> IF n \in told THEN coerce(env[n]) ELSE data[n]]

\* The fields of HarnessConfig, BrokerConfig and ProviderConfig; no others.
TopFields ==
    [workspace_path |-> "str", budget_usd_per_run |-> "float",
     budget_usd_per_day |-> "float"]
BrokerFields ==
    [socket_path |-> "str", allow_unbrokered |-> "bool", endpoint |-> "str"]
ProviderFields ==
    [rpm |-> "int", tpm |-> "int", max_concurrency |-> "int", context_window |-> "int",
     num_ctx |-> "int", keep_alive |-> "str", usd_per_mtok_in |-> "float",
     usd_per_mtok_out |-> "float", auth |-> "str", base_url |-> "str"]
FieldType(n) ==
    LET fields == CASE n.section = "top"    -> TopFields
                    [] n.section = "broker" -> BrokerFields
                    [] OTHER                -> ProviderFields
    IN  IF n.stem = "" /\ n.field \in DOMAIN fields THEN fields[n.field] ELSE "extra"

(* What pydantic takes for a field: texts and whole floats for an int, any  *)
(* number for a float, words and 0 or 1 for a bool, but only text for text. *)
Accepts(want, v) ==
    \/ want = "str" /\ v.type = "str"
    \/ want = "int" /\ (v.type = "bool" \/ v.written \in Wholes)
    \/ want = "float" /\ (v.type = "bool" \/ v.written \in Numbers)
    \/ want = "bool" /\ \/ v.type = "bool" \/ v.written = "0/1"
                        \/ v.type = "float" /\ v.written = "0/1 point"
                        \/ v.type = "str" /\ v.written \in {"truth", "word"}

(* The blocks are in the order of the file; a variable may add one.         *)
load_config(file, env) ==
    LET data  == apply_env_overrides(IF file.state = "absent" THEN <<>> ELSE file.data, env)
        named == {n.section : n \in DOMAIN data} \ {"top", "broker"}
        order == IF file.state = "absent" THEN <<>> ELSE file.blocks
    IN  IF file.state = "broken"
           \/ \E n \in DOMAIN data : ~Accepts(FieldType(n), data[n])
        THEN [error |-> "ConfigError"]
        ELSE [error |-> "none", data |-> data,
              blocks |-> order \o SetToSeq(named \ ToSet(order))]

\* The value of a field, or what it is by default.
Get(cfg, n, default) == IF n \in DOMAIN cfg.data THEN cfg.data[n].text ELSE default

----------------------------------------------------------------------------
(* Secrets, authentication, the client.                                     *)

None == "none"

\* Mutant of get: the key file is asked before the keyring.
get_file_first(s) ==
    IF s.env # None THEN s.env
    ELSE IF s.file = "loose" THEN "InsecureKeyFileError"
    ELSE IF s.file = "0600" THEN "key of the file"
    ELSE IF s.keyring THEN "key of the keyring"
    ELSE "SecretsError"

(* SecretsProvider.get: a keyring that raises has no secret; a key file     *)
(* that others may read is refused.                                         *)
get(s) ==
    IF s.env # None THEN s.env
    ELSE IF s.keyring THEN "key of the keyring"
    ELSE IF s.file = "loose" THEN "InsecureKeyFileError"
    ELSE IF s.file = "0600" THEN "key of the file"
    ELSE "SecretsError"
Errors == {"InsecureKeyFileError", "SecretsError"}

\* build_auth: no mode means the default, and blanks and capitals do not count.
normalized(mode) == Lower(Strip(IF mode = "" THEN "api_key" ELSE mode))

\* build_auth and resolve: another mode and a missing key both end in AuthError.
authenticate(mode, s) ==
    IF normalized(mode) = "api_key" /\ get(s) \notin Errors
    THEN [error |-> "none", key |-> get(s)] ELSE [error |-> "AuthError"]

\* The registry: a default model for each provider that has an adapter.
REGISTRY == [anthropic  |-> "claude-3-5-sonnet-latest",
             openrouter |-> "anthropic/claude-3.5-sonnet"]

resolve_provider(name) ==
    IF Lower(Strip(name)) \in ProviderIds THEN Lower(Strip(name)) ELSE "UnknownProviderError"
default_model_for(provider) ==
    IF resolve_provider(provider) \in DOMAIN REGISTRY
    THEN REGISTRY[resolve_provider(provider)] ELSE "UnknownProviderError"

\* Where the key of a provider is looked for: no caller names a key file.
KeyName(pid) == Secret("top", pid, "api_key")
Secrets(pid, env, keyring) ==
    [env |-> IF KeyName(pid) \in DOMAIN env THEN env[KeyName(pid)].text ELSE None,
     keyring |-> keyring, file |-> "absent"]

build_client(provider, cfg, env, keyring) ==
    LET pid  == resolve_provider(provider)
        auth == authenticate(Get(cfg, Name(pid, "auth"), "api_key"), Secrets(pid, env, keyring))
        url  == Get(cfg, Name(pid, "base_url"), "")
    IN  IF pid \notin DOMAIN REGISTRY THEN [error |-> "UnknownProviderError"]
        ELSE IF pid \notin ToSet(cfg.blocks) THEN [error |-> "ProviderNotConfiguredError"]
        ELSE IF auth.error # "none" THEN auth
        ELSE [error |-> "none", key |-> auth.key,
              base_url |-> IF url = "" THEN "default url" ELSE url]

----------------------------------------------------------------------------
(* What the broker and the registry make of the same blocks.                *)

\* Every block that names no provider is taken for ollama's.
to_provider_id(name) == IF Lower(name) \in ProviderIds THEN Lower(name) ELSE "ollama"

\* PolicyRegistry: the block each provider's policy comes from; the last one stays.
policies(blocks) ==
    [p \in {to_provider_id(b) : b \in ToSet(blocks)} |->
        blocks[Max({i \in DOMAIN blocks : to_provider_id(blocks[i]) = p})]]
policy(provider, blocks) ==
    IF Lower(provider) \in DOMAIN policies(blocks) THEN policies(blocks)[Lower(provider)]
    ELSE "UnknownProviderError"

\* ModelRegistry: the models a provider's block registers, whatever it is asked for.
model_ids_for(p) ==
    CASE p = "ollama"     -> {"qwen2.5-coder:7b", "llama3:8b"}
      [] p = "anthropic"  -> {"anthropic-default"}
      [] p = "openrouter" -> {"openrouter-default"}
models(blocks) == UNION {model_ids_for(to_provider_id(b)) : b \in ToSet(blocks)}

----------------------------------------------------------------------------
(* Endpoints: "unix:path" or "tcp:host:port".                               *)

Unix(p)    == [kind |-> "unix", path |-> p]
Tcp(h, p)  == [kind |-> "tcp", host |-> h, port |-> p]
Malformed  == [kind |-> "TransportError"]
Nothing    == [kind |-> "none"]

\* parse_endpoint of a specification with its parts told apart.
parse_endpoint(spec) ==
    IF \/ spec.kind = "unix" /\ spec.path # ""
       \/ spec.kind = "tcp" /\ spec.host \in {"127.0.0.1", "localhost"} /\ spec.port >= 0
    THEN spec ELSE Malformed

Default(af_unix, port) == IF af_unix THEN Unix("derived") ELSE Tcp("127.0.0.1", port)

\* _resolve_bind_endpoint, bind_server, and what the socket says it is bound to.
bind(flag, af_unix) ==
    LET e == IF flag # Nothing THEN parse_endpoint(flag) ELSE Default(af_unix, 0)
    IN  CASE e.kind = "unix" /\ ~af_unix -> Malformed
          [] e.kind = "tcp" -> Tcp("127.0.0.1", IF e.port = 0 THEN 40000 ELSE e.port)
          [] OTHER          -> e

\* publish_endpoint: a unix endpoint leaves the file as it was.
publish_endpoint(e, file) == IF e.kind = "tcp" THEN e ELSE file

\* read_endpoint: a malformed file is no file.
read_endpoint(file) ==
    IF parse_endpoint(file) = Malformed THEN Nothing ELSE file

(* resolve_live_endpoint: an endpoint named to the client is taken as it    *)
(* is, a published one if somebody listens there.                           *)
resolve_live_endpoint(explicit, configured, file, alive, af_unix) ==
    CASE explicit # Nothing -> parse_endpoint(explicit)
      [] explicit = Nothing /\ configured # Nothing -> parse_endpoint(configured)
      [] explicit = Nothing /\ configured = Nothing ->
            IF read_endpoint(file) \in alive THEN file ELSE Default(af_unix, 8765)

\* BrokerClient.__init__: an empty endpoint in the configuration is none.
BrokerClient(explicit, cfg, published, alive, af_unix) ==
    resolve_live_endpoint(explicit, Get(cfg, Name("broker", "endpoint"), Nothing),
                          published, alive, af_unix)

\* The daemon starts with its flag, the client looks for it afterwards.
meet(p) ==
    LET bound == bind(p.flag, p.af_unix)
    IN  [bound |-> bound,
         client |-> resolve_live_endpoint(p.explicit, p.configured,
                       publish_endpoint(bound, p.old), p.others \cup {bound}, p.af_unix)]
----------------------------------------------------------------------------
(* run_live, up to the workspace: the first error ends it.  A model that    *)
(* the registry does not have leaves the prompts without a budget, and the  *)
(* broker takes a provider only by its id (ProviderId of the message).      *)
run_live(args) ==
    LET cfg    == load_config(args.file, args.env)
        model  == IF args.model # None THEN args.model ELSE default_model_for(args.provider)
        client == build_client(args.provider, cfg, args.env, args.keyring)
        broker == BrokerClient(args.endpoint, cfg, args.published, args.alive, args.af_unix)
    IN  IF cfg.error # "none" THEN cfg
        ELSE IF args.requirement = "missing" THEN [error |-> "HarnessError"]
        ELSE IF args.requirement = "no chunks" THEN [error |-> "EngineError"]
        ELSE IF model = "UnknownProviderError" THEN [error |-> model]
        ELSE IF client.error # "none" THEN client
        ELSE IF broker = Malformed THEN [error |-> "TransportError"]
        ELSE [error |-> "none", cfg |-> cfg, client |-> client, broker |-> broker,
              model |-> model, budgeted |-> model \in models(cfg.blocks),
              reserves |-> args.provider \in ProviderIds]
=============================================================================
