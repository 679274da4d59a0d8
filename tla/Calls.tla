------------------------------- MODULE Calls -------------------------------
(***************************************************************************)
(* What a model call goes through: the prompt is cut to the model's        *)
(* budget, an overflow is retried once with a summary, a provider that     *)
(* fails is replaced by the next, and retries wait with a backoff.         *)
(*                                                                         *)
(* Pure functions, in the form the code computes them.  A message is its   *)
(* length in characters.                                                   *)
(***************************************************************************)
EXTENDS Integers, Sequences, SequencesExt, FiniteSets, FiniteSetsExt, Folds

----------------------------------------------------------------------------
(* Prompt budget.                                                           *)

CHARS_PER_TOKEN == 4
CeilDiv(a, b)   == (a + b - 1) \div b

\* estimate_tokens: at least one token, then 15% more, rounded up.
estimate_tokens(chars) ==
    LET raw == Max({1, CeilDiv(chars, CHARS_PER_TOKEN)})
    IN  Max({1, CeilDiv(raw * 115, 100)})

count_messages(messages) ==
    FoldLeft(LAMBDA n, chars : n + estimate_tokens(chars), 0, messages)

\* Mutant of clip: the margin is forgotten.
clip_no_margin(chars, allowance) ==
    IF allowance <= 0 THEN 0
    ELSE IF estimate_tokens(chars) <= allowance THEN chars
    ELSE Min({chars, allowance * CHARS_PER_TOKEN})

\* _clip: the length that is kept.
clip(chars, allowance) ==
    IF allowance <= 0 THEN 0
    ELSE IF estimate_tokens(chars) <= allowance THEN chars
    ELSE Min({chars, ((allowance * 100) \div 115) * CHARS_PER_TOKEN})

(* cap_trace on a sequence of lines.  lines[-tail:] is all of them when     *)
(* tail is 0.                                                               *)
Elided == "lines elided"
cap_trace(lines, head, tail) ==
    IF Len(lines) <= head + tail THEN lines
    ELSE SubSeq(lines, 1, head) \o <<Elided>>
         \o IF tail = 0 THEN lines ELSE SubSeq(lines, Len(lines) - tail + 1, Len(lines))

\* build_prompt: everything, or an equal share for every message.
build_prompt(messages, budget) ==
    IF count_messages(messages) <= budget THEN messages
    ELSE LET share == Max({1, budget \div Max({1, Len(messages)})})
         IN  [i \in DOMAIN messages |-> clip(messages[i], share)]

----------------------------------------------------------------------------
(* Errors, overflow, fallback, backoff.                                     *)

\* map_status and the retryable attribute of the error's class.
map_status(status) ==
    CASE status = 429          -> "RateLimitedError"
      [] status = 529          -> "ProviderOverloadedError"
      [] status \in {401, 403} -> "AuthError"
      [] status = 400          -> "ContextOverflowError"
      [] OTHER                 -> "TransientError"
Retryable(error) ==
    error \in {"RateLimitedError", "ProviderOverloadedError", "TransientError"}

(* The e2e route of the router, and what OverflowRecovery asks it for.      *)
E2E_CEILING == 2
route_e2e(count) ==
    IF count < E2E_CEILING THEN [next_node |-> "developer", terminal |-> FALSE]
    ELSE [next_node |-> "hitl", terminal |-> TRUE]

(* complete_with_recovery: script says how the inner client answers its     *)
(* calls.  Another error than an overflow leaves at once.                   *)
complete_with_recovery(script) ==
    CASE script[1] = "ok"       -> [calls |-> 1, retries |-> 0, end |-> "text"]
      [] script[1] = "error"    -> [calls |-> 1, retries |-> 0, end |-> "raised"]
      [] script[1] = "overflow" ->
            [calls |-> 2, retries |-> 1,
             end |-> CASE script[2] = "ok"       -> "text"
                       [] script[2] = "error"    -> "raised"
                       [] script[2] = "overflow" -> route_e2e(E2E_CEILING).next_node]

(* FallbackChain.call: providers in order; answer[p] is the HTTP status p   *)
(* answers with.  health outlives the call.                                 *)
call(providers, health, answer) ==
    FoldLeft(LAMBDA r, p :
        IF r.end # "exhausted" THEN r
        ELSE CASE answer[p] = 200 ->
                    [r EXCEPT !.end = "value", !.tried = Append(@, p),
                              !.health[p] = "HEALTHY"]
               [] answer[p] # 200 /\ Retryable(map_status(answer[p])) ->
                    [r EXCEPT !.retries = @ + 1, !.tried = Append(@, p),
                              !.health[p] = "DEGRADED"]
               [] OTHER -> [r EXCEPT !.end = "raised", !.tried = Append(@, p)],
        [end |-> "exhausted", retries |-> 0, tried |-> <<>>, health |-> health],
        providers)

\* Backoff in half seconds: base 1 s, at most 60 s, jitter up to half a second.
pre_jitter(attempt) == Min({120, 2 * 2^attempt})
delay(attempt, retry_after, jitter) ==
    IF retry_after # -1 THEN retry_after ELSE pre_jitter(attempt) + jitter
=============================================================================
