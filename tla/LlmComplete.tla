----------------------------- MODULE LlmComplete -----------------------------
(* One CompleteStrict call over one llm provider: the attempt loop of the   *)
(* three clients' Complete (anthropic.go, openai.go, compatible.go), the    *)
(* budget around every HTTP attempt (budget.go), the exchange and its span  *)
(* (transport.go), the classifier that decides on a retry (errors.go), and  *)
(* the repair call (strict.go).  The caller's context may end at any point. *)
EXTENDS Integers, Sequences, FiniteSets, SequencesExt

CONSTANTS
    Conf,       \* the configurations of provider and request explored
    Caps,       \* output caps a repair request may ask for
    Limit,      \* openAIMaxOutputTokens, anthropicMaxOutputTokens
    Code,       \* HTTP statuses of refused requests
    Word,       \* groups of words the classifier looks for in a body
    Reply,      \* usable bodies of a 2xx answer
    SchemaMisfit(_)  \* why Anthropic's structured outputs do not take a schema, "" when they do

Kind == {"openai", "anthropic", "gemini", "local"}
Format == {"none", "schema", "object"}

ASSUME ConfAssumption ==
    /\ \A c \in Conf : /\ c.kind \in Kind /\ c.format \in Format /\ c.budgeted \in BOOLEAN /\ c.seed \in BOOLEAN
                       /\ c.cap \in Nat /\ (c.kind \in {"openai", "anthropic"} => c.cap > 0)
    /\ Caps \subseteq Nat /\ Limit \in Nat
    /\ Code \subseteq Nat
    /\ Reply \subseteq [text : {"", "json", "loose", "prose"}, stop : {"end", "cut"},
                        refusal : BOOLEAN, choices : BOOLEAN]

VARIABLES
    conf,       \* the configuration of this call
    ended,      \* the caller's context is done
    pc,         \* what Complete does next
    turn,       \* CompleteStrict's first or second Complete
    n,          \* attempts of this Complete, the running one included
    cap,        \* maxTokens
    mode,       \* how this Complete asks for the Format, and why so
    got,        \* what send returned
    calls,      \* CompleteStrict's calls
    reply,      \* what CompleteStrict returned
    ledger,     \* the attempts the budget was asked for, in order
    sent        \* history: the attempts that reached the provider

vars == <<conf, ended, pc, turn, n, cap, mode, got, calls, reply, ledger, sent>>

MaxRetries == 1

Classes == {"auth", "model_not_found", "invalid_request", "rate_limit", "context_length",
            "server", "timeout", "transport", "generic"}

\* Errors on their way through Complete: what exchange, guarded and the context
\* produce, before and after classify.
Raw == [type : {"status"}, code : Code, words : SUBSET Word]
       \cup [type : {"transport"}, timeout : BOOLEAN, canceled : BOOLEAN]
Typed(class) == [type |-> "error", class |-> class]
BudgetOwn == [type |-> "budget"]
ContextErr == [type |-> "context"]

NoErr == [type |-> "nil"]
NoAnswer == [text |-> "", stop |-> "", refused |-> FALSE]
NoResult == [text |-> "", unparsed |-> "", stop |-> "", refused |-> FALSE, path |-> "", why |-> ""]
NoMode == [asks |-> "none", why |-> ""]
----------------------------------------------------------------------------
(* errors.go                                                               *)

Retryable(class) == class \in {"rate_limit", "server", "timeout", "transport", "output"}

\* The checks of a status error: the first that holds decides.
statusChecks(code, words) == <<
    <<"quota" \in words, "auth">>,
    <<"model" \in words, "model_not_found">>,
    <<code \in {402, 403}, "auth">>,
    <<code = 404, "model_not_found">>,
    <<code = 408, "timeout">>,
    <<code = 413, "invalid_request">>,
    <<code = 401 \/ "auth" \in words, "auth">>,
    <<code = 429 \/ "rate" \in words, "rate_limit">>,
    <<"context" \in words, "context_length">>,
    <<code \in {400, 422} \/ "invalid" \in words, "invalid_request">>,
    <<"timeout" \in words, "timeout">>,
    <<"connection" \in words, "transport">>,
    <<code >= 500 \/ "server" \in words, "server">>,
    <<TRUE, "generic">> >>

classifyStatus(code, words) ==
    LET checks == statusChecks(code, words)
    IN  checks[SelectInSeq(checks, LAMBDA check : check[1])][2]

classify(err) ==
    CASE err.type = "error" -> err.class
      [] err.type = "transport" -> IF err.timeout THEN "timeout" ELSE "transport"
      [] err.type = "status" -> classifyStatus(err.code, err.words)
----------------------------------------------------------------------------
(* Parsers and the JSON gate: a body the decoder refuses is the "garbage"   *)
(* disjunct of Receive; the others are read as each client reads them.      *)

gateJSON(text) ==
    IF text \in {"json", "loose"} THEN <<"json", "">> ELSE <<"", text>>

parses(raw) == conf.kind \in {"gemini", "local"} => raw.choices

parse(raw) ==
    CASE conf.kind = "anthropic" ->
           [text |-> raw.text, stop |-> IF raw.refusal THEN "refusal" ELSE raw.stop, refused |-> FALSE]
      [] conf.kind = "openai" ->
           [text |-> raw.text, stop |-> raw.stop, refused |-> raw.refusal /\ raw.text = ""]
      [] OTHER ->
           [text |-> IF raw.refusal THEN "" ELSE raw.text, stop |-> raw.stop, refused |-> raw.refusal]

\* Mutant: a refusal's own words pass as the answer.
GatedRefusalRead(answer) ==
    IF conf.format # "none" THEN gateJSON(answer.text) ELSE <<answer.text, "">>

\* Text and Unparsed of the Result for an answer.
Gated(answer) ==
    CASE conf.kind = "anthropic" ->
           IF answer.stop = "refusal" THEN <<"", "">>
           ELSE IF conf.format # "none" THEN gateJSON(answer.text) ELSE <<answer.text, "">>
      [] conf.kind = "openai" ->
           IF answer.refused THEN <<"", "">>
           ELSE <<gateJSON(answer.text)[1],
                  IF conf.format = "none" THEN "" ELSE gateJSON(answer.text)[2]>>
      [] OTHER ->
           IF conf.format # "none" /\ ~answer.refused
           THEN gateJSON(answer.text) ELSE <<answer.text, "">>

FormatPath ==
    CASE conf.format = "none" -> ""
      [] conf.format = "object" -> "object"
      [] conf.format = "schema" -> IF mode.asks = "tool" THEN "tool" ELSE "schema"

ResultOf(answer) ==
    [text |-> Gated(answer)[1], unparsed |-> Gated(answer)[2], stop |-> answer.stop,
     refused |-> answer.refused, path |-> FormatPath, why |-> mode.why]

\* An answer cut at the cap is asked for again with more room.
Cut(answer) ==
    /\ answer.stop = "cut" /\ Gated(answer)[1] = ""
    /\ \/ conf.kind = "anthropic" /\ conf.format # "none"
       \/ conf.kind = "openai" /\ ~answer.refused

\* Mutant: the limit lowers a cap above it.
RaisedToLimit(c) == IF 2 * c < Limit THEN 2 * c ELSE Limit

Raised(c) == LET doubled == IF 2 * c < Limit THEN 2 * c ELSE Limit
             IN  IF c > doubled THEN c ELSE doubled
----------------------------------------------------------------------------
(* The calls                                                               *)

Init ==
    /\ conf \in Conf
    /\ ended = FALSE /\ pc = "start" /\ turn = 1 /\ n = 0 /\ cap = conf.cap
    /\ mode = NoMode /\ got = [err |-> NoErr, answer |-> NoAnswer]
    /\ calls = <<>> /\ reply = [outcome |-> "running", err |-> NoErr, final |-> NoResult]
    /\ ledger = <<>> /\ sent = <<>>

\* The caller's context ends: cancelled, or its deadline passed.
Cancel ==
    /\ pc # "done" /\ ~ended
    /\ ended' = TRUE
    /\ UNCHANGED <<conf, pc, turn, n, cap, mode, got, calls, reply, ledger, sent>>

\* CompleteStrict's two exits on an error, and the Complete that took it there.
Fails(err) ==
    /\ pc' = "done"
    /\ reply' = [outcome |-> "error", err |-> err,
                 final |-> IF turn = 1 THEN NoResult ELSE calls[1]]
    /\ UNCHANGED <<turn, calls>>

SeedRefused == conf.seed /\ conf.kind # "local"

\* Structured outputs when the schema they would get fits, else one tool.
AnthropicMode ==
    LET why == SchemaMisfit(conf.schema)
    IN [asks |-> IF why = "" THEN "json_schema" ELSE "tool", why |-> why]

ChatFormat ==
    CASE conf.format = "schema" -> "json_schema"
      [] conf.format = "object" -> "json_object"
      [] conf.format = "none" -> IF conf.kind = "local" THEN "none" ELSE "json_object"

\* The one mode of a Complete, picked before any call.
Mode ==
    CASE conf.kind = "anthropic" /\ conf.format = "schema" -> AnthropicMode
      [] conf.kind = "anthropic" /\ conf.format # "schema" -> NoMode
      [] OTHER -> [asks |-> ChatFormat, why |-> ""]

\* Complete up to its loop.
Start ==
    /\ pc = "start"
    /\ n' = 1
    /\ IF SeedRefused
       THEN Fails(Typed("invalid_request")) /\ UNCHANGED mode
       ELSE pc' = "send" /\ mode' = Mode /\ UNCHANGED <<turn, calls, reply>>
    /\ UNCHANGED <<conf, ended, cap, got, ledger, sent>>

\* Mutant: the budget is asked once for a Complete, not for each attempt.
AdmitOnce ==
    /\ pc = "send"
    /\ ledger' = IF conf.budgeted /\ n = 1
                 THEN Append(ledger, [turn |-> turn, n |-> n, cap |-> cap]) ELSE ledger
    /\ pc' = "exchange"
    /\ UNCHANGED <<conf, ended, turn, n, cap, mode, got, calls, reply, sent>>

\* The head of an attempt: guarded asks the budget, when there is one, for an
\* attempt under a key of its own.  The budget refuses or lets it be sent.
Admit ==
    /\ pc = "send"
    /\ ledger' = IF conf.budgeted THEN Append(ledger, [turn |-> turn, n |-> n, cap |-> cap]) ELSE ledger
    /\ \/ pc' = "exchange" /\ UNCHANGED got
       \/ /\ conf.budgeted
          /\ pc' = "decide" /\ got' = [err |-> BudgetOwn, answer |-> NoAnswer]
    /\ UNCHANGED <<conf, ended, turn, n, cap, mode, calls, reply, sent>>

\* Mutant: a body that cannot be used is not marked on the span.
spanClassUnmarked(err) ==
    CASE err.type = "transport" -> "other"
      [] err.type = "status" -> "refused"
      [] OTHER -> "ok"

\* The class the span of an attempt ends with: do ends it on a transport error,
\* the body's Close otherwise.
spanClass(err) ==
    CASE err.type = "transport" -> "other"
      [] err.type = "status" -> "refused"
      [] err.type = "error" -> "invalid_answer"
      [] err.type = "nil" -> "ok"

\* A 2xx body decode could not use.
decodeFailure == Typed("generic")

Received(err, answer) ==
    /\ got' = [err |-> err, answer |-> answer]
    /\ sent' = Append(sent,
         [turn |-> turn, n |-> n, cap |-> cap, asks |-> mode.asks, span |-> spanClass(err),
          status |-> IF err.type = "status" THEN err.code ELSE 200,
          end |-> IF err # NoErr THEN classify(err) ELSE IF Cut(answer) THEN "cut" ELSE "answer",
          refusal |-> answer.refused \/ answer.stop = "refusal"])

\* exchange: the request goes out and something comes back, or nothing does.
Exchange ==
    /\ pc = "exchange" /\ ~ended
    /\ pc' = IF conf.budgeted THEN "settle" ELSE "decide"
    /\ \/ \E err \in Raw : (err.type = "transport" => ~err.canceled) /\ Received(err, NoAnswer)
       \/ Received(decodeFailure, NoAnswer)
       \/ \E raw \in Reply :
             IF parses(raw) THEN Received(NoErr, parse(raw)) ELSE Received(decodeFailure, NoAnswer)
    /\ UNCHANGED <<conf, ended, turn, n, cap, mode, calls, reply, ledger>>

\* A request under a context that is done fails in net/http.
ExchangeEnded ==
    /\ pc = "exchange" /\ ended
    /\ pc' = IF conf.budgeted THEN "settle" ELSE "decide"
    /\ got' = [err |-> [type |-> "transport", timeout |-> FALSE, canceled |-> TRUE], answer |-> NoAnswer]
    /\ UNCHANGED <<conf, ended, turn, n, cap, mode, calls, reply, ledger, sent>>

\* The budget settles the attempt: it hands on send's error, or fails to account
\* and answers with an error of its own.
Settle ==
    /\ pc = "settle"
    /\ pc' = "decide"
    /\ got' \in {got, [err |-> BudgetOwn, answer |-> got.answer]}
    /\ UNCHANGED <<conf, ended, turn, n, cap, mode, calls, reply, ledger, sent>>

\* Mutant: the retries are not counted.
RetryForever(c) ==
    /\ pc' = "sleep" /\ cap' = c
    /\ UNCHANGED <<conf, turn, n, calls, reply>>

Retry(c) ==
    /\ n <= MaxRetries
    /\ pc' = "sleep" /\ cap' = c
    /\ UNCHANGED <<conf, turn, n, calls, reply>>

\* Mutant: the budget's own error is retried like a transport failure.
OnErrorBudgetBlind ==
    /\ pc = "decide" /\ got.err # NoErr
    /\ IF got.err = BudgetOwn THEN Retry(cap) ELSE Fails(got.err) /\ UNCHANGED <<conf, n, cap>>
    /\ UNCHANGED <<ended, mode, got, ledger, sent>>

\* Complete on an error: the budget's own and the end of the context are handed
\* on as they are, a transient failure is retried once, any other is final.
OnError ==
    /\ pc = "decide" /\ got.err # NoErr
    /\ IF got.err = BudgetOwn \/ ended
       THEN Fails(got.err) /\ UNCHANGED <<conf, n, cap>>
       ELSE LET class == classify(got.err)
            IN  \/ Retryable(class) /\ Retry(cap)
                \/ /\ Retryable(class) => n > MaxRetries
                   /\ Fails(Typed(class)) /\ UNCHANGED <<conf, n, cap>>
    /\ UNCHANGED <<ended, mode, got, ledger, sent>>

\* Complete on an answer that was cut, with a retry left.
OnCut ==
    /\ pc = "decide" /\ got.err = NoErr /\ Cut(got.answer)
    /\ Retry(Raised(cap))
    /\ UNCHANGED <<ended, mode, got, ledger, sent>>

\* CompleteStrict's check: the caller's validate may take or reject any text.
Checks(result) == IF result.text = "" THEN {FALSE} ELSE BOOLEAN

\* Mutant: a refusal is repaired like any other empty answer.
FinalNever(result) == FALSE

\* A refused first answer is not repaired.
Final(result) == result.refused

Ends(outcome, result) ==
    /\ pc' = "done"
    /\ reply' = [outcome |-> outcome, err |-> NoErr, final |-> result]
    /\ UNCHANGED <<conf, turn, n, cap>>

\* Complete returns a Result; CompleteStrict checks it and repairs it once.
OnAnswer ==
    /\ pc = "decide" /\ got.err = NoErr /\ (Cut(got.answer) => n > MaxRetries)
    /\ LET result == ResultOf(got.answer) IN
       /\ calls' = Append(calls, result)
       /\ \E ok \in Checks(result) :
             IF turn = 1
             THEN CASE Final(result) -> Ends("invalid", result)
                    [] ~Final(result) /\ ok -> Ends("ok", result)
                    [] OTHER -> /\ pc' = "start" /\ turn' = 2 /\ n' = 0
                                /\ \E c \in Caps : cap' = IF c > conf.cap THEN c ELSE conf.cap
                                /\ UNCHANGED <<conf, reply>>
             ELSE Ends(IF ok THEN "repaired" ELSE "invalid", result)
    /\ UNCHANGED <<ended, mode, got, ledger, sent>>

\* sleepFor: the timer, or the context's end.
Wake ==
    /\ pc = "sleep"
    /\ pc' = "send" /\ n' = n + 1
    /\ UNCHANGED <<conf, ended, turn, cap, mode, got, calls, reply, ledger, sent>>

SleepEnded ==
    /\ pc = "sleep" /\ ended
    /\ Fails(ContextErr)
    /\ UNCHANGED <<conf, ended, n, cap, mode, got, ledger, sent>>

Next ==
    \/ Cancel \/ Start \/ Admit \/ Exchange \/ ExchangeEnded \/ Settle
    \/ OnError \/ OnCut \/ OnAnswer \/ Wake \/ SleepEnded

Spec == Init /\ [][Next]_vars
----------------------------------------------------------------------------
(* Properties                                                              *)

Attempt(e) == [turn |-> e.turn, n |-> e.n, cap |-> e.cap]

\* The call's state, its calls and what it returns are of their types.
TypeOK ==
    /\ conf \in Conf /\ ended \in BOOLEAN /\ turn \in 1..2 /\ n \in 0..(MaxRetries + 1) /\ cap \in Nat
    /\ pc \in {"start", "send", "exchange", "settle", "decide", "sleep", "done"}
    /\ reply.outcome \in {"running", "ok", "repaired", "invalid", "error"}
    /\ Len(calls) \in 0..2

\* The retry rule of doc.go:34-39 over a whole call: an attempt is followed by
\* another of the same Complete only after a transient failure or a cut answer,
\* at most once, in the same mode, never with a smaller cap, and with a larger
\* one only after a cut.
OneJustifiedRetry ==
    \A i, j \in DOMAIN sent :
       i < j /\ sent[i].turn = sent[j].turn =>
          /\ j = i + 1 /\ sent[i].n = 1 /\ sent[j].n = 2
          /\ sent[i].end = "cut" \/ Retryable(sent[i].end)
          /\ sent[j].asks = sent[i].asks
          /\ IF sent[i].end = "cut"
             THEN sent[j].cap >= sent[i].cap /\ (sent[i].cap < Limit => sent[j].cap > sent[i].cap)
             ELSE sent[j].cap = sent[i].cap

\* Budget ("admits and settles every HTTP attempt", provider.go:221): under a
\* budget each request that reached the provider was asked for first, under a
\* key no other attempt had and with the cap it was then sent with; and once
\* the budget has answered with an error of its own nothing more is asked of
\* it or sent, in this Complete or a repair, and the call ends with that error
\* (budget.go:75-76).  The state keeps its types.
BudgetHolds ==
    /\ TypeOK
    /\ conf.budgeted =>
       /\ \A i \in DOMAIN sent : \E j \in DOMAIN ledger : ledger[j] = Attempt(sent[i])
       /\ \A i, j \in DOMAIN ledger :
             i # j => <<ledger[i].turn, ledger[i].n>> # <<ledger[j].turn, ledger[j].n>>
       /\ Len(sent) <= Len(ledger)
    /\ got.err = BudgetOwn =>
       /\ pc \in {"decide", "done"}
       /\ pc = "done" => reply.err = BudgetOwn

\* What a call reports is what happened.  A call that ends ok or repaired ends
\* with the last attempt's answer, which was no refusal, and under a Format it
\* is compact JSON (doc.go:25-30).  Calls holds one Result for each Complete
\* that answered, in order; a provider failure of the repair keeps the first
\* one, and the repair is asked for only when the first answer was not a
\* refusal (strict.go:59-72).  The span of an attempt ends as a success
\* exactly when the attempt got a usable answer (transport.go:149-152).  A
\* Result names the way its attempts asked for the Format, and gives a reason
\* exactly when that was not the API's own schema mode (provider.go:163-168).
ReportsWhatHappened ==
    LET answered == {t \in 1..2 : \E i \in DOMAIN sent :
                        /\ sent[i].turn = t /\ sent[i].end \in {"answer", "cut"}
                        /\ \A j \in DOMAIN sent : sent[j].turn = t => sent[j].n <= sent[i].n}
    IN  /\ reply.outcome \in {"ok", "repaired"} =>
           /\ ~Last(sent).refusal /\ Last(sent).end \in {"answer", "cut"}
           /\ reply.final = Last(calls) /\ reply.final.text # ""
           /\ conf.format # "none" => reply.final.text = "json"
        /\ pc = "done" =>
           /\ reply.outcome # "error" => Len(calls) = Cardinality(answered)
           /\ reply.outcome = "error" => Len(calls) = turn - 1 /\ (turn = 2 => reply.final = calls[1])
           /\ turn = 2 => ~calls[1].refused
        /\ \A i \in DOMAIN sent : sent[i].span = "ok" <=> sent[i].end \in {"answer", "cut"}
        /\ \A i \in DOMAIN sent : sent[i].turn \in DOMAIN calls =>
              LET result == calls[sent[i].turn] IN
              /\ result.path = "tool" <=> sent[i].asks = "tool"
              /\ result.path = "schema" <=> sent[i].asks = "json_schema"
              /\ result.why # "" <=> result.path = "tool"

\* doc.go:36-39: "Every provider failure is an *Error with a closed ErrorClass"
\* and "Two other errors come back as they are: a Budget's own
\* (IsBudgetRefusal) and the caller's context cancellation".
ErrorsAsPromised ==
    reply.outcome = "error" =>
       \/ reply.err.type \in {"error", "budget", "context"}
       \/ reply.err.type = "transport" /\ reply.err.canceled

\* doc.go:61: "A 400 is a final invalid_request".
BadRequestIsFinal ==
    \A i \in DOMAIN sent : sent[i].status = 400 => i = Len(sent)

\* transport.go:326: an unusable 2xx body is "a ClassOutput *Error".
UnusableBodyIsOutput ==
    \A i \in DOMAIN sent : sent[i].span = "invalid_answer" => sent[i].end = "output"
=============================================================================
