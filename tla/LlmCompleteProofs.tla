-------------------------- MODULE LlmCompleteProofs --------------------------
(***************************************************************************)
(* What holds of a CompleteStrict call for every configuration, every cap  *)
(* and limit, whatever the provider, the budget and the caller's check     *)
(* answer and whenever the context ends.                                   *)
(***************************************************************************)
EXTENDS LlmComplete, FiniteSetTheorems, WellFoundedInduction, TLAPS

\* Time limits of the provers, in seconds, where a step asks for no other.
USE SMTT(20), ZenonT(30)

-----------------------------------------------------------------------------
(* The inductive invariant.                                                *)

Texts == {"", "json", "loose", "prose"}
Whys == {""} \cup {SchemaMisfit(c.schema) : c \in Conf}
Modes == [asks : {"none", "json_schema", "json_object", "tool"}, why : Whys]
Answers == [text : Texts, stop : {"", "end", "cut", "refusal"}, refused : BOOLEAN]
Errs == Raw \cup {decodeFailure, BudgetOwn, NoErr}
Results == [text : Texts, unparsed : Texts, stop : {"", "end", "cut", "refusal"}, refused : BOOLEAN,
            path : {"", "object", "schema", "tool"}, why : Whys]
Asked == [turn : 1..2, n : 1..2, cap : Nat]
Attempts == [turn : 1..2, n : 1..2, cap : Nat, asks : {"none", "json_schema", "json_object", "tool"},
             span : {"ok", "refused", "invalid_answer", "other"}, status : Nat,
             end : Classes \cup {"cut", "answer"}, refusal : BOOLEAN]

Types ==
    /\ conf \in Conf /\ ended \in BOOLEAN /\ turn \in 1..2 /\ n \in 0..2 /\ cap \in Nat
    /\ pc \in {"start", "send", "exchange", "settle", "decide", "sleep", "done"}
    /\ conf.kind \in {"openai", "anthropic"} => cap > 0
    /\ mode \in Modes
    /\ got \in [err : Errs, answer : Answers]
    /\ reply.outcome \in {"running", "ok", "repaired", "invalid", "error"}
    /\ calls \in Seq(Results) /\ ledger \in Seq(Asked) /\ sent \in Seq(Attempts)

\* How the running Complete asks for the Format.
ModeOK ==
    /\ mode.asks = "tool" <=> mode.why # ""
    /\ mode.asks = "tool" => conf.format = "schema"
    /\ mode.asks \in {"tool", "json_schema"} <=> conf.format = "schema"

\* What parse makes of a refusal, for each kind of provider.
AnswerOK(answer) ==
    /\ conf.kind = "anthropic" => ~answer.refused
    /\ conf.kind # "anthropic" => answer.stop # "refusal"
    /\ conf.kind \in {"gemini", "local"} /\ answer.refused => answer.text = ""

EndOf(g) == IF g.err # NoErr THEN classify(g.err) ELSE IF Cut(g.answer) THEN "cut" ELSE "answer"

\* The running Complete has sent nothing.
Past == \A i \in 1..Len(sent) : sent[i].turn < turn

\* It has sent its first attempt alone.
FirstOut ==
    /\ Len(sent) >= 1 /\ sent[Len(sent)].turn = turn /\ sent[Len(sent)].n = 1
    /\ \A i \in 1..(Len(sent) - 1) : sent[i].turn < turn

\* The last attempt may be followed by one with this mode and cap.
Justified ==
    LET e == sent[Len(sent)]
    IN  /\ e.end = "cut" \/ Retryable(e.end)
        /\ e.asks = mode.asks
        /\ IF e.end = "cut" THEN cap >= e.cap /\ (e.cap < Limit => cap > e.cap) ELSE cap = e.cap

\* The running attempt is the last one sent, and ended as send returned.
Landed ==
    LET e == sent[Len(sent)]
    IN  /\ Len(sent) >= 1 /\ e.turn = turn /\ e.n = n /\ e.cap = cap /\ e.asks = mode.asks
        /\ e.end = EndOf(got)
        /\ e.refusal <=> (got.answer.refused \/ got.answer.stop = "refusal")
        /\ n = 1 => \A i \in 1..(Len(sent) - 1) : sent[i].turn < turn

\* Where the call is, against the attempts that were sent.
Progress ==
    /\ pc = "start" => n = 0 /\ Past
    /\ pc \in {"send", "exchange"} => ModeOK /\ ((n = 1 /\ Past) \/ (n = 2 /\ FirstOut /\ Justified))
    /\ pc \in {"settle", "decide"} =>
          /\ ModeOK /\ n \in 1..2 /\ AnswerOK(got.answer)
          /\ (got.err = NoErr \/ (got.err # BudgetOwn /\ ~ended)) => Landed
    /\ pc = "sleep" => ModeOK /\ n = 1 /\ FirstOut /\ Justified

\* The attempts sent: the retries, and how each was asked for and ended.
History ==
    /\ OneJustifiedRetry
    /\ \A i \in 1..Len(sent) :
          /\ sent[i].turn <= turn
          /\ sent[i].turn = turn => sent[i].n <= n /\ sent[i].asks = mode.asks
          /\ sent[i].span = "ok" <=> sent[i].end \in {"answer", "cut"}

\* The attempts the budget was asked for.
Budgeted ==
    /\ conf.budgeted =>
       /\ \A i \in 1..Len(sent) : \E j \in 1..Len(ledger) : ledger[j] = Attempt(sent[i])
       /\ \A i, j \in 1..Len(ledger) : i # j => ~(ledger[i].turn = ledger[j].turn /\ ledger[i].n = ledger[j].n)
       /\ \A j \in 1..Len(ledger) :
             /\ ledger[j].turn <= turn
             /\ ledger[j].turn = turn => ledger[j].n <= n /\ (pc \in {"start", "send"} => ledger[j].n < n)
       /\ Len(sent) <= Len(ledger)
       /\ pc = "exchange" => /\ Len(sent) < Len(ledger)
                             /\ ledger[Len(ledger)] = [turn |-> turn, n |-> n, cap |-> cap]
    /\ got.err = BudgetOwn => pc \in {"decide", "done"} /\ (pc = "done" => reply.err = BudgetOwn)

\* The last attempt of turn t was answered.
Answered(t) ==
    \E i \in 1..Len(sent) :
       /\ sent[i].turn = t /\ sent[i].end \in {"answer", "cut"}
       /\ \A j \in 1..Len(sent) : sent[j].turn = t => sent[j].n <= sent[i].n

\* A Result names the way the attempt asked for the Format.
NamesMode(result, asks) ==
    /\ result.path = "tool" <=> asks = "tool"
    /\ result.path = "schema" <=> asks = "json_schema"
    /\ result.why # "" <=> result.path = "tool"

\* What the call ends with, once it has ended.
Reported ==
    /\ reply.outcome # "running"
    /\ IF reply.outcome = "error"
       THEN Len(calls) = turn - 1 /\ (turn = 2 => reply.final = calls[1])
       ELSE Len(calls) = turn
    /\ reply.outcome \in {"ok", "repaired"} =>
          /\ Len(sent) >= 1 /\ ~sent[Len(sent)].refusal /\ sent[Len(sent)].end \in {"answer", "cut"}
          /\ reply.final = calls[Len(calls)] /\ reply.final.text # ""
          /\ conf.format # "none" => reply.final.text = "json"

\* The Results so far.
Answering ==
    /\ pc # "done" => reply.outcome = "running" /\ Len(calls) = turn - 1
    /\ pc = "done" => Reported
    /\ \A t \in 1..Len(calls) : Answered(t)
    /\ turn = 2 => ~calls[1].refused
    /\ \A i \in 1..Len(sent) : sent[i].turn \in 1..Len(calls) => NamesMode(calls[sent[i].turn], sent[i].asks)

IInv == Types /\ Progress /\ History /\ Budgeted /\ Answering

-----------------------------------------------------------------------------
(* The operators of the model.                                             *)

\* The least element of a set of natural numbers, as Min gives it.
LEMMA LeastNumber ==
    ASSUME NEW S, S \subseteq Nat, S # {}
    PROVE  Min(S) \in S
<1>1. PICK x \in S : \A y \in S : ~(<<y, x>> \in OpToRel(<, Nat))
  BY NatLessThanWellFounded, WFMin, ZenonT(30)
<1>2. ASSUME NEW y \in S, y < x PROVE FALSE
  <2>1. <<y, x>> \in Nat \X Nat /\ <<y, x>>[1] < <<y, x>>[2]
    BY <1>2
  <2>2. <<y, x>> \in OpToRel(<, Nat)
    BY <2>1 DEF OpToRel
  <2> QED BY <1>1, <2>2, ZenonT(30)
<1>3. \A y \in S : x <= y
  BY <1>2
<1> QED BY <1>3, ZenonT(30) DEF Min

\* classifyStatus (errors.go) gives every status one of the classes: its last
\* check takes whatever the others leave.
LEMMA StatusClass ==
    ASSUME NEW code \in Nat, NEW words
    PROVE  classifyStatus(code, words) \in Classes
<1> DEFINE c == statusChecks(code, words)
           I == {i \in 1..Len(c) : c[i][1]}
<1>1. Len(c) = 14 /\ c[14][1]
  BY DEF statusChecks
<1>2. \A i \in 1..14 : c[i][2] \in Classes
  BY DEF statusChecks, Classes
<1>3. classifyStatus(code, words) = c[IF I # {} THEN Min(I) ELSE 0][2]
  BY DEF classifyStatus, SelectInSeq
<1>4. 14 \in I /\ I \subseteq Nat
  BY <1>1
<1>5. Min(I) \in I
  BY <1>4, LeastNumber, ZenonT(30)
<1> HIDE DEF c
<1> QED BY <1>1, <1>2, <1>3, <1>4, <1>5

\* classify (errors.go) gives every error of an exchange one of the classes.
LEMMA ErrorClass ==
    ASSUME NEW err \in Raw \cup {decodeFailure}
    PROVE  classify(err) \in Classes
<1>1. CASE err = decodeFailure
  BY <1>1 DEF decodeFailure, Typed, classify, Classes
<1>2. CASE err \in [type : {"transport"}, timeout : BOOLEAN, canceled : BOOLEAN]
  BY <1>2 DEF classify, Classes
<1>3. CASE err \in [type : {"status"}, code : Code, words : SUBSET Word]
  BY <1>3, StatusClass, ConfAssumption, ZenonT(30) DEF classify
<1> QED BY <1>1, <1>2, <1>3 DEF Raw

\* The budget's own error, no error and the others are told apart.
LEMMA ErrorsApart ==
    /\ NoErr # BudgetOwn /\ NoErr # decodeFailure /\ BudgetOwn # decodeFailure
    /\ NoErr \notin Raw /\ BudgetOwn \notin Raw
    /\ \A err \in Raw : err.type \in {"status", "transport"}
BY DEF NoErr, BudgetOwn, decodeFailure, Typed, Raw

\* Appending to a sequence.
LEMMA Appended ==
    ASSUME NEW S, NEW s \in Seq(S), NEW e \in S
    PROVE  /\ Append(s, e) \in Seq(S) /\ Len(s) \in Nat /\ Len(Append(s, e)) = Len(s) + 1
           /\ Append(s, e)[Len(s) + 1] = e
           /\ \A i \in 1..Len(s) : Append(s, e)[i] = s[i]
OBVIOUS

\* What parse reads out of a body is an answer, and refuses the way its kind of
\* provider does.
LEMMA ParsedAnswer ==
    ASSUME conf \in Conf, NEW raw \in Reply
    PROVE  parse(raw) \in Answers /\ AnswerOK(parse(raw))
<1>1. raw \in [text : Texts, stop : {"end", "cut"}, refusal : BOOLEAN, choices : BOOLEAN]
  BY ConfAssumption, ZenonT(30) DEF Texts
<1>2. conf.kind \in Kind
  BY ConfAssumption, ZenonT(30)
<1>3. CASE conf.kind = "anthropic"
  BY <1>1, <1>3, ZenonT(30) DEF parse, Answers, AnswerOK
<1>4. CASE conf.kind = "openai"
  BY <1>1, <1>4, ZenonT(30) DEF parse, Answers, AnswerOK
<1>5. CASE conf.kind \in {"gemini", "local"}
  BY <1>1, <1>5, ZenonT(30) DEF parse, Answers, AnswerOK, Texts
<1> QED BY <1>2, <1>3, <1>4, <1>5 DEF Kind

\* The Result of an answer: its text is compact JSON under a Format, and only an
\* answer that is no refusal has a text.
LEMMA ResultFacts ==
    ASSUME Types, ModeOK, NEW answer \in Answers, AnswerOK(answer)
    PROVE  LET result == ResultOf(answer)
           IN  /\ result \in Results
               /\ result.refused = answer.refused
               /\ result.text # "" => ~answer.refused /\ answer.stop # "refusal"
               /\ result.text # "" /\ conf.format # "none" => result.text = "json"
               /\ NamesMode(result, mode.asks)
<1> DEFINE result == ResultOf(answer)
<1>1. conf.kind \in Kind /\ conf.format \in Format /\ mode \in Modes
  BY ConfAssumption, ZenonT(30) DEF Types
<1>2. gateJSON(answer.text) \in Texts \X Texts /\ gateJSON(answer.text)[1] \in {"", "json"}
  BY ZenonT(30) DEF gateJSON, Texts, Answers
<1>3. /\ Gated(answer)[1] \in Texts /\ Gated(answer)[2] \in Texts
      /\ Gated(answer)[1] # "" => ~answer.refused /\ answer.stop # "refusal"
      /\ Gated(answer)[1] # "" /\ conf.format # "none" => Gated(answer)[1] = "json"
  <2>1. CASE conf.kind = "anthropic"
    BY <1>1, <1>2, <2>1, ZenonT(30) DEF Gated, Answers, AnswerOK, Texts
  <2>2. CASE conf.kind = "openai"
    BY <1>1, <1>2, <2>2, ZenonT(30) DEF Gated, Answers, AnswerOK, Texts
  <2>3. CASE conf.kind \in {"gemini", "local"}
    BY <1>1, <1>2, <2>3, ZenonT(30) DEF Gated, Answers, AnswerOK, Texts
  <2> QED BY <1>1, <2>1, <2>2, <2>3, ZenonT(30) DEF Kind
<1>4. /\ FormatPath \in {"", "object", "schema", "tool"}
      /\ FormatPath = "tool" <=> mode.asks = "tool"
      /\ FormatPath = "schema" <=> mode.asks = "json_schema"
      /\ mode.why # "" <=> FormatPath = "tool"
  BY <1>1, ZenonT(30) DEF FormatPath, ModeOK, Format, Modes
<1>5. /\ result.text = Gated(answer)[1] /\ result.unparsed = Gated(answer)[2] /\ result.stop = answer.stop
      /\ result.refused = answer.refused /\ result.path = FormatPath /\ result.why = mode.why
      /\ result = [text |-> Gated(answer)[1], unparsed |-> Gated(answer)[2], stop |-> answer.stop,
                    refused |-> answer.refused, path |-> FormatPath, why |-> mode.why]
  BY DEF ResultOf
<1>6. result \in Results
  BY <1>1, <1>3, <1>4, <1>5, ZenonT(30) DEF Results, Answers, Modes
<1> HIDE DEF result
<1>7. NamesMode(result, mode.asks)
  BY <1>4, <1>5, ZenonT(30) DEF NamesMode
<1> QED BY <1>3, <1>5, <1>6, <1>7, ZenonT(30) DEF result

\* The mode a Complete picks: the tool exactly when there is a reason for it, and
\* the schema is asked for, one way or the other, exactly under a schema Format.
LEMMA PickedMode ==
    ASSUME conf \in Conf
    PROVE  /\ Mode \in Modes
           /\ Mode.asks = "tool" <=> Mode.why # ""
           /\ Mode.asks = "tool" => conf.format = "schema"
           /\ Mode.asks \in {"tool", "json_schema"} <=> conf.format = "schema"
<1>1. conf.kind \in Kind /\ conf.format \in Format
  BY ConfAssumption, ZenonT(30)
<1>2. CASE conf.kind = "anthropic" /\ conf.format = "schema"
  <2>1. Mode = AnthropicMode
    BY <1>2 DEF Mode
  <2>2. SchemaMisfit(conf.schema) \in Whys
    BY ZenonT(30) DEF Whys
  <2> QED BY <1>2, <2>1, <2>2, ZenonT(30) DEF AnthropicMode, Modes
<1>3. CASE conf.kind = "anthropic" /\ conf.format # "schema"
  <2>1. Mode = NoMode
    BY <1>3 DEF Mode
  <2> QED BY <1>3, <2>1, ZenonT(30) DEF NoMode, Modes, Whys
<1>4. CASE conf.kind # "anthropic"
  <2>1. Mode = [asks |-> ChatFormat, why |-> ""]
    BY <1>4 DEF Mode
  <2>2. /\ ChatFormat \in {"none", "json_schema", "json_object"}
        /\ ChatFormat = "json_schema" <=> conf.format = "schema"
    BY <1>1 DEF ChatFormat, Format
  <2> QED BY <2>1, <2>2, ZenonT(30) DEF Modes, Whys
<1> QED BY <1>1, <1>2, <1>3, <1>4, ZenonT(30)

\* Twice a cap under the limit is a larger cap, and no cap is lowered.
LEMMA RaisedCap ==
    ASSUME NEW c \in Nat
    PROVE  Raised(c) \in Nat /\ Raised(c) >= c /\ (c > 0 /\ c < Limit => Raised(c) > c)
<1>1. Limit \in Nat
  BY ConfAssumption, ZenonT(30)
<1> QED BY <1>1 DEF Raised

\* The attempt an exchange adds to the history.
NewAttempt(err, answer) ==
    [turn |-> turn, n |-> n, cap |-> cap, asks |-> mode.asks, span |-> spanClass(err),
     status |-> IF err.type = "status" THEN err.code ELSE 200,
     end |-> IF err # NoErr THEN classify(err) ELSE IF Cut(answer) THEN "cut" ELSE "answer",
     refusal |-> answer.refused \/ answer.stop = "refusal"]

\* It ends the way Complete will read it, and its span ends as a success exactly
\* when there is an answer.
LEMMA AttemptFacts ==
    ASSUME Types, n \in 1..2, NEW err \in Raw \cup {decodeFailure, NoErr}, NEW answer \in Answers
    PROVE  LET e == NewAttempt(err, answer)
           IN  /\ e \in Attempts
               /\ e.turn = turn /\ e.n = n /\ e.cap = cap /\ e.asks = mode.asks
               /\ e.end = EndOf([err |-> err, answer |-> answer])
               /\ e.refusal <=> (answer.refused \/ answer.stop = "refusal")
               /\ e.span = "ok" <=> e.end \in {"answer", "cut"}
               /\ Attempt(e) = [turn |-> turn, n |-> n, cap |-> cap]
<1> DEFINE ending == IF err # NoErr THEN classify(err) ELSE IF Cut(answer) THEN "cut" ELSE "answer"
           e == NewAttempt(err, answer)
<1>1. /\ err # NoErr => classify(err) \in Classes
      /\ "cut" \notin Classes /\ "answer" \notin Classes
  BY ErrorClass DEF Classes
<1>2. /\ spanClass(err) \in {"ok", "refused", "invalid_answer", "other"}
      /\ spanClass(err) = "ok" <=> err = NoErr
  BY ErrorsApart DEF spanClass, decodeFailure, Typed, NoErr
<1>3. ending \in Classes \cup {"cut", "answer"} /\ (ending \in {"answer", "cut"} <=> err = NoErr)
  BY <1>1
<1>4. (IF err.type = "status" THEN err.code ELSE 200) \in Nat
  <2>1. err.type = "status" => err.code \in Code
    BY DEF Raw, decodeFailure, Typed, NoErr
  <2>2. Code \subseteq Nat
    BY ConfAssumption, ZenonT(30)
  <2> QED BY <2>1, <2>2, ZenonT(30)
<1>5. mode.asks \in {"none", "json_schema", "json_object", "tool"} /\ turn \in 1..2 /\ cap \in Nat
  BY DEF Types, Modes
<1>6. (answer.refused \/ answer.stop = "refusal") \in BOOLEAN
  BY ZenonT(30) DEF Answers
<1>7. EndOf([err |-> err, answer |-> answer]) = ending
  BY DEF EndOf
<1>8. /\ e.turn = turn /\ e.n = n /\ e.cap = cap /\ e.asks = mode.asks /\ e.end = ending
      /\ e.span = spanClass(err) /\ e.refusal = (answer.refused \/ answer.stop = "refusal")
  BY DEF NewAttempt
<1> HIDE DEF ending
<1>9. e \in Attempts
  BY <1>2, <1>3, <1>4, <1>5, <1>6 DEF Attempts, NewAttempt, ending
<1> HIDE DEF e
<1>10. Attempt(e) = [turn |-> turn, n |-> n, cap |-> cap]
  BY <1>8 DEF Attempt
<1> QED BY <1>2, <1>3, <1>7, <1>8, <1>9, <1>10, ZenonT(30) DEF e

-----------------------------------------------------------------------------
(* The steps that send nothing and answer nothing.                         *)

\* How an attempt ended depends on what send returned and the configuration alone.
LEMMA SameEnd ==
    ASSUME conf' = conf, got' = got
    PROVE  EndOf(got)' = EndOf(got) /\ AnswerOK(got.answer)' = AnswerOK(got.answer)
BY DEF EndOf, Cut, Gated, AnswerOK

\* A step that sends nothing keeps the history of attempts.
LEMMA QuietHistory ==
    ASSUME History, sent' = sent, turn' = turn, mode' = mode, n \in Nat, n' \in Nat, n' >= n, Types
    PROVE  History'
<1>1. OneJustifiedRetry'
  BY DEF History, OneJustifiedRetry
<1>2. \A i \in 1..Len(sent) : sent[i] \in Attempts
  BY DEF Types
<1> QED BY <1>1, <1>2 DEF History, Attempts

\* The elements of the three sequences are of their types.
LEMMA Elements ==
    ASSUME Types
    PROVE  /\ Len(ledger) \in Nat /\ Len(sent) \in Nat /\ Len(calls) \in Nat
           /\ \A j \in 1..Len(ledger) : ledger[j].turn \in 1..2 /\ ledger[j].n \in 1..2 /\ ledger[j].cap \in Nat
           /\ \A i \in 1..Len(sent) : sent[i].turn \in 1..2 /\ sent[i].n \in 1..2 /\ sent[i].cap \in Nat
<1>1. \A j \in 1..Len(ledger) : ledger[j] \in Asked
  BY DEF Types
<1>2. \A i \in 1..Len(sent) : sent[i] \in Attempts
  BY DEF Types
<1>3. Len(ledger) \in Nat /\ Len(sent) \in Nat /\ Len(calls) \in Nat
  BY DEF Types
<1> QED BY <1>1, <1>2, <1>3 DEF Asked, Attempts

\* A Complete that fails ends the call, with the first Result if there is one.
LEMMA FailedAnswer ==
    ASSUME Answering, pc # "done", turn \in 1..2, NEW err, Fails(err), sent' = sent, conf' = conf
    PROVE  Answering'
<1>1. /\ pc' = "done" /\ reply'.outcome = "error" /\ turn' = turn /\ calls' = calls
      /\ turn = 2 => reply'.final = calls[1]
  BY DEF Fails
<1>2. Len(calls) = turn - 1
  BY DEF Answering
<1>3. Reported'
  BY <1>1, <1>2 DEF Reported
<1>4. \A t \in 1..Len(calls) : Answered(t)'
  BY <1>1 DEF Answering, Answered
<1> QED BY <1>1, <1>3, <1>4, ZenonT(30) DEF Answering, NamesMode

\* A step that neither sends nor returns keeps what was answered.
LEMMA QuietAnswering ==
    ASSUME Answering, pc # "done", pc' # "done", UNCHANGED <<turn, calls, reply, sent>>
    PROVE  Answering'
<1>1. \A t \in 1..Len(calls) : Answered(t)'
  BY DEF Answering, Answered
<1> QED BY <1>1, ZenonT(30) DEF Answering, NamesMode

\* The empty answer is no refusal.
LEMMA NothingYet == ~NoAnswer.refused /\ NoAnswer.stop # "refusal" /\ NoAnswer.text = "" /\ NoAnswer \in Answers
BY DEF NoAnswer, Answers, Texts

LEMMA CancelStep == ASSUME IInv, Cancel PROVE IInv'
<1> USE DEF IInv
<1>1. Types'
  BY DEF Types, Cancel
<1>2. Progress'
  <2>1. EndOf(got)' = EndOf(got) /\ AnswerOK(got.answer)' = AnswerOK(got.answer)
    BY SameEnd DEF Cancel
  <2> QED BY <2>1, ZenonT(30) DEF Progress, Cancel, ModeOK, Past, FirstOut, Justified, Landed, Types
<1>3. History'
  BY QuietHistory DEF Cancel, Types
<1>4. Budgeted'
  BY DEF Budgeted, Cancel, Attempt
<1>5. Answering'
  BY QuietAnswering DEF Cancel
<1> QED BY <1>1, <1>2, <1>3, <1>4, <1>5

LEMMA StartStep == ASSUME IInv, Start PROVE IInv'
<1> USE DEF IInv
<1>0. /\ pc = "start" /\ n = 0 /\ Past /\ n' = 1 /\ turn \in 1..2
      /\ UNCHANGED <<conf, ended, turn, calls, cap, got, ledger, sent>>
  BY DEF Start, Fails, Progress, Types
<1>1. \/ pc' = "send" /\ mode' = Mode /\ reply' = reply
      \/ pc' = "done" /\ mode' = mode /\ Fails(Typed("invalid_request")) /\ reply'.outcome = "error"
  BY DEF Start, Fails
<1>2. Types'
  <2>1. mode' \in Modes
    BY <1>1, PickedMode, ZenonT(30) DEF Types
  <2> QED BY <1>0, <1>1, <2>1 DEF Types
<1>3. Progress'
  <2>1. pc' = "send" => ModeOK'
    BY <1>0, <1>1, PickedMode, ZenonT(30) DEF ModeOK, Types
  <2> QED BY <1>0, <1>1, <2>1 DEF Progress, Past
<1>4. History'
  <2>1. OneJustifiedRetry'
    BY <1>0 DEF History, OneJustifiedRetry
  <2> QED BY <1>0, <2>1, Elements DEF History, Past
<1>5. Budgeted'
  BY <1>0, <1>1, Elements DEF Budgeted, Attempt
<1>6. Answering'
  <2>1. CASE pc' = "send"
    BY <1>0, <1>1, <2>1, QuietAnswering
  <2>2. CASE pc' = "done"
    BY <1>0, <1>1, <2>2, FailedAnswer
  <2> QED BY <1>1, <2>1, <2>2
<1> QED BY <1>2, <1>3, <1>4, <1>5, <1>6

LEMMA ExchangeEndedStep == ASSUME IInv, ExchangeEnded PROVE IInv'
<1> USE DEF IInv
<1> DEFINE canceled == [type |-> "transport", timeout |-> FALSE, canceled |-> TRUE]
<1>0. canceled \in Raw /\ canceled # NoErr /\ canceled # BudgetOwn /\ NoAnswer \in Answers
  BY NothingYet, ZenonT(30) DEF Raw, NoErr, BudgetOwn
<1>00. got'.err = canceled /\ got'.answer = NoAnswer /\ got' \in [err : Errs, answer : Answers]
  BY <1>0 DEF ExchangeEnded, Errs
<1> HIDE DEF canceled
<1>1. Types'
  BY <1>00 DEF Types, ExchangeEnded
<1>2. Progress'
  <2>1. AnswerOK(got.answer)'
    BY <1>00, NothingYet, ZenonT(30) DEF AnswerOK
  <2>2. ModeOK' /\ n' \in 1..2 /\ ended' /\ pc' \in {"settle", "decide"}
    <3>1. pc = "exchange" /\ ended' /\ pc' \in {"settle", "decide"} /\ UNCHANGED <<conf, mode, n>>
      BY DEF ExchangeEnded
    <3>2. ModeOK /\ n \in {1, 2}
      BY <3>1 DEF Progress
    <3>3. ModeOK'
      BY <3>1, <3>2, ZenonT(30) DEF ModeOK
    <3> QED BY <3>1, <3>2, <3>3
  <2> QED BY <1>0, <1>00, <2>1, <2>2 DEF Progress
<1>3. History'
  BY QuietHistory DEF ExchangeEnded, Types
<1>4. Budgeted'
  BY <1>0, <1>00, ZenonT(30) DEF Budgeted, ExchangeEnded, Attempt
<1>5. Answering'
  BY QuietAnswering DEF ExchangeEnded
<1> QED BY <1>1, <1>2, <1>3, <1>4, <1>5

LEMMA SettleStep == ASSUME IInv, Settle PROVE IInv'
<1> USE DEF IInv
<1>0. /\ got'.answer = got.answer /\ got' \in [err : Errs, answer : Answers]
      /\ got'.err = BudgetOwn \/ got' = got
  BY DEF Settle, Types, Errs
<1>1. Types'
  BY <1>0 DEF Types, Settle
<1>2. Progress'
  <2>1. AnswerOK(got.answer)' = AnswerOK(got.answer)
    BY <1>0 DEF AnswerOK, Settle
  <2>2. got' = got => EndOf(got)' = EndOf(got)
    BY SameEnd DEF Settle
  <2>3. (got.err = NoErr \/ (got.err # BudgetOwn /\ ~ended))' => Landed'
    BY <1>0, <2>2, ErrorsApart DEF Progress, Settle, Landed
  <2> QED BY <2>1, <2>3, ZenonT(30) DEF Progress, Settle, ModeOK
<1>3. History'
  BY QuietHistory DEF Settle, Types
<1>4. Budgeted'
  BY <1>0 DEF Budgeted, Settle, Attempt
<1>5. Answering'
  BY QuietAnswering DEF Settle
<1> QED BY <1>1, <1>2, <1>3, <1>4, <1>5

LEMMA WakeStep == ASSUME IInv, Wake PROVE IInv'
<1> USE DEF IInv
<1>0. n = 1 /\ n' = 2
  BY DEF Wake, Progress
<1>1. Types'
  BY <1>0 DEF Types, Wake
<1>2. Progress'
  BY <1>0, ZenonT(30) DEF Progress, Wake, ModeOK, FirstOut, Justified
<1>3. History'
  BY <1>0, QuietHistory DEF Wake
<1>4. Budgeted'
  BY <1>0, Elements DEF Budgeted, Wake, Attempt
<1>5. Answering'
  BY QuietAnswering DEF Wake
<1> QED BY <1>1, <1>2, <1>3, <1>4, <1>5

LEMMA SleepEndedStep == ASSUME IInv, SleepEnded PROVE IInv'
<1> USE DEF IInv
<1>1. Types'
  BY DEF Types, SleepEnded, Fails
<1>2. Progress'
  BY DEF Progress, SleepEnded, Fails
<1>3. History'
  BY QuietHistory DEF SleepEnded, Fails, Types
<1>4. Budgeted'
  BY DEF Budgeted, SleepEnded, Fails, Attempt
<1>5. Answering'
  BY FailedAnswer DEF SleepEnded, Types
<1> QED BY <1>1, <1>2, <1>3, <1>4, <1>5

-----------------------------------------------------------------------------
(* The attempts: asked for, sent, retried.                                 *)

LEMMA AdmitStep == ASSUME IInv, Admit PROVE IInv'
<1> USE DEF IInv
<1> DEFINE asked == [turn |-> turn, n |-> n, cap |-> cap]
<1>0. /\ pc = "send" /\ n \in 1..2 /\ ModeOK
      /\ UNCHANGED <<conf, ended, turn, n, cap, mode, calls, reply, sent>>
      /\ ledger' = IF conf.budgeted THEN Append(ledger, asked) ELSE ledger
      /\ \/ pc' = "exchange" /\ got' = got
         \/ conf.budgeted /\ pc' = "decide" /\ got' = [err |-> BudgetOwn, answer |-> NoAnswer]
  BY DEF Admit, Progress
<1>1. asked \in Asked /\ asked.turn = turn /\ asked.n = n /\ asked.cap = cap /\ ledger \in Seq(Asked)
  BY <1>0 DEF Asked, Types
<1> HIDE DEF asked
<1>2. /\ ledger' \in Seq(Asked)
      /\ conf.budgeted => /\ Len(ledger') = Len(ledger) + 1 /\ ledger'[Len(ledger) + 1] = asked
                          /\ \A i \in 1..Len(ledger) : ledger'[i] = ledger[i]
  BY <1>0, <1>1, Appended
<1>3. Types'
  <2>1. got' \in [err : Errs, answer : Answers]
    <3>1. got \in [err : Errs, answer : Answers]
      BY DEF Types
    <3>2. [err |-> BudgetOwn, answer |-> NoAnswer] \in [err : Errs, answer : Answers]
      BY NothingYet, ZenonT(30) DEF Errs
    <3> QED BY <1>0, <3>1, <3>2
  <2> QED BY <1>0, <1>2, <2>1 DEF Types
<1>4. Progress'
  <2>1. CASE pc' = "exchange"
    BY <1>0, <2>1, ZenonT(30) DEF Progress, ModeOK, Past, FirstOut, Justified
  <2>2. CASE pc' = "decide"
    <3>1. got'.err = BudgetOwn /\ got'.answer = NoAnswer
      BY <1>0, <2>2
    <3>2. AnswerOK(got.answer)'
      BY <3>1, NothingYet, ZenonT(30) DEF AnswerOK
    <3>3. ModeOK'
      BY <1>0, ZenonT(30) DEF ModeOK
    <3> QED BY <1>0, <2>2, <3>1, <3>2, <3>3, ErrorsApart DEF Progress
  <2> QED BY <1>0, <2>1, <2>2
<1>5. History'
  BY <1>0, QuietHistory
<1>6. Budgeted'
  <2>1. ASSUME conf.budgeted
        PROVE  /\ \A i \in 1..Len(sent) : \E j \in 1..Len(ledger') : ledger'[j] = Attempt(sent[i])
               /\ \A i, j \in 1..Len(ledger') :
                     i # j => ~(ledger'[i].turn = ledger'[j].turn /\ ledger'[i].n = ledger'[j].n)
               /\ \A j \in 1..Len(ledger') :
                     ledger'[j].turn <= turn /\ (ledger'[j].turn = turn => ledger'[j].n <= n)
               /\ Len(sent) < Len(ledger') /\ ledger'[Len(ledger')] = asked
    <3> DEFINE L == Len(ledger)
    <3>1. L \in Nat /\ Len(ledger') = L + 1 /\ ledger'[L + 1] = asked /\ \A i \in 1..L : ledger'[i] = ledger[i]
      BY <1>2, <2>1, Elements
    <3>2. /\ \A i \in 1..Len(sent) : \E j \in 1..L : ledger[j] = Attempt(sent[i])
          /\ \A i, j \in 1..L : i # j => ~(ledger[i].turn = ledger[j].turn /\ ledger[i].n = ledger[j].n)
          /\ \A j \in 1..L : ledger[j].turn <= turn /\ (ledger[j].turn = turn => ledger[j].n < n)
          /\ Len(sent) <= L /\ Len(sent) \in Nat
          /\ \A j \in 1..L : ledger[j].turn \in 1..2 /\ ledger[j].n \in 1..2
      BY <1>0, <2>1, Elements DEF Budgeted
    <3>3. turn \in 1..2 /\ n \in 1..2
      BY <1>0 DEF Types
    <3> HIDE DEF L
    <3>4. \A i \in 1..Len(sent) : \E j \in 1..(L + 1) : ledger'[j] = Attempt(sent[i])
      BY <3>1, <3>2
    <3>5. \A j \in 1..(L + 1) : j \in 1..L \/ j = L + 1
      BY <3>1
    <3>6. ASSUME NEW i \in 1..(L + 1), NEW j \in 1..(L + 1), i # j
          PROVE  ~(ledger'[i].turn = ledger'[j].turn /\ ledger'[i].n = ledger'[j].n)
      <4>1. \A k \in 1..L : ~(ledger'[k].turn = turn /\ ledger'[k].n = n)
        BY <3>1, <3>2, <3>3
      <4>2. ledger'[L + 1].turn = turn /\ ledger'[L + 1].n = n
        BY <1>1, <3>1
      <4>3. CASE i \in 1..L /\ j \in 1..L
        BY <3>1, <3>2, <3>6, <4>3
      <4>4. CASE i \in 1..L /\ j = L + 1
        BY <4>1, <4>2, <4>4
      <4>5. CASE i = L + 1 /\ j \in 1..L
        BY <4>1, <4>2, <4>5
      <4> QED BY <3>5, <3>6, <4>3, <4>4, <4>5
    <3>7. \A j \in 1..(L + 1) : ledger'[j].turn <= turn /\ (ledger'[j].turn = turn => ledger'[j].n <= n)
      BY <1>1, <3>1, <3>2, <3>3, <3>5
    <3> QED BY <3>1, <3>2, <3>4, <3>6, <3>7
  <2>2. got'.err = BudgetOwn => pc' = "decide"
    BY <1>0 DEF Budgeted
  <2> QED BY <1>0, <2>1, <2>2 DEF Budgeted, Attempt, asked
<1>7. Answering'
  BY <1>0, QuietAnswering
<1> QED BY <1>3, <1>4, <1>5, <1>6, <1>7

\* A second attempt with a justified cap.
LEMMA RetryStep ==
    ASSUME IInv, pc = "decide", Landed, n <= MaxRetries, NEW c \in Nat, Retry(c),
           UNCHANGED <<ended, mode, got, ledger, sent>>,
           got.err # BudgetOwn,
           conf.kind \in {"openai", "anthropic"} => c > 0,
           EndOf(got) = "cut" \/ Retryable(EndOf(got)),
           IF EndOf(got) = "cut" THEN c >= cap /\ (cap < Limit => c > cap) ELSE c = cap
    PROVE  IInv'
<1> USE DEF IInv
<1>0. /\ pc' = "sleep" /\ cap' = c /\ UNCHANGED <<conf, ended, turn, n, calls, reply, mode, got, ledger, sent>>
      /\ n = 1
  BY DEF Retry, Progress, MaxRetries, Types
<1>1. Types'
  BY <1>0 DEF Types
<1>2. Progress'
  BY <1>0, ZenonT(30) DEF Progress, ModeOK, Landed, FirstOut, Justified
<1>3. History'
  BY <1>0, QuietHistory
<1>4. Budgeted'
  BY <1>0 DEF Budgeted, Attempt
<1>5. Answering'
  BY <1>0, QuietAnswering
<1> QED BY <1>1, <1>2, <1>3, <1>4, <1>5

LEMMA OnErrorStep == ASSUME IInv, OnError PROVE IInv'
<1> USE DEF IInv
<1>0. pc = "decide" /\ got.err # NoErr /\ UNCHANGED <<ended, mode, got, ledger, sent>>
  BY DEF OnError
<1>1. ASSUME NEW err, Fails(err), UNCHANGED <<conf, n, cap>>, got.err = BudgetOwn => err = BudgetOwn PROVE IInv'
  <2>0. pc' = "done" /\ reply'.outcome = "error" /\ reply'.err = err /\ UNCHANGED <<turn, calls>>
    BY <1>1 DEF Fails
  <2>1. Types'
    BY <1>0, <1>1, <2>0 DEF Types
  <2>2. Progress'
    BY <2>0 DEF Progress
  <2>3. History'
    BY <1>0, <1>1, <2>0, QuietHistory DEF Types
  <2>4. Budgeted'
    BY <1>0, <1>1, <2>0 DEF Budgeted, Attempt
  <2>5. Answering'
    BY <1>0, <1>1, FailedAnswer DEF Types
  <2> QED BY <2>1, <2>2, <2>3, <2>4, <2>5
<1>2. CASE got.err = BudgetOwn \/ ended
  BY <1>1, <1>2 DEF OnError
<1>3. CASE got.err # BudgetOwn /\ ~ended
  <2>1. Landed /\ EndOf(got) = classify(got.err) /\ classify(got.err) # "cut"
    <3>1. got.err \in Raw \cup {decodeFailure}
      BY <1>0, <1>3 DEF Types, Errs
    <3> QED BY <1>0, <1>3, <3>1, ErrorClass DEF Progress, EndOf, Classes
  <2>2. CASE Retryable(classify(got.err)) /\ Retry(cap)
    BY <1>0, <1>3, <2>1, <2>2, RetryStep DEF Types, Retry
  <2>3. CASE Fails(Typed(classify(got.err))) /\ UNCHANGED <<conf, n, cap>>
    BY <1>1, <1>3, <2>3
  <2> QED BY <1>0, <1>3, <2>2, <2>3 DEF OnError
<1> QED BY <1>2, <1>3

LEMMA OnCutStep == ASSUME IInv, OnCut PROVE IInv'
<1>0. /\ pc = "decide" /\ got.err = NoErr /\ Cut(got.answer) /\ UNCHANGED <<ended, mode, got, ledger, sent>>
      /\ Retry(Raised(cap)) /\ n <= MaxRetries
  BY DEF OnCut, Retry
<1>1. Landed /\ EndOf(got) = "cut" /\ got.err # BudgetOwn
  BY <1>0, ErrorsApart DEF IInv, Progress, EndOf
<1>2. conf.kind \in {"openai", "anthropic"} /\ cap \in Nat /\ cap > 0
  BY <1>0, ZenonT(30) DEF IInv, Types, Cut
<1>3. Raised(cap) \in Nat /\ Raised(cap) >= cap /\ (cap < Limit => Raised(cap) > cap)
  BY <1>2, RaisedCap
<1>4. Raised(cap) > 0
  BY <1>2, <1>3
<1> QED BY <1>0, <1>1, <1>3, <1>4, RetryStep

\* What comes back, or does not, is the end of an attempt the Complete may make.
LEMMA ReceivedStep ==
    ASSUME IInv, pc = "exchange", pc' = IF conf.budgeted THEN "settle" ELSE "decide",
           UNCHANGED <<conf, ended, turn, n, cap, mode, calls, reply, ledger>>,
           NEW err \in Raw \cup {decodeFailure, NoErr}, NEW answer \in Answers, AnswerOK(answer),
           Received(err, answer)
    PROVE  IInv'
<1> USE DEF IInv
<1> DEFINE e == NewAttempt(err, answer)
           L == Len(sent)
<1>0. /\ ModeOK /\ n \in 1..2 /\ L \in Nat /\ turn \in 1..2 /\ sent \in Seq(Attempts)
      /\ (n = 1 /\ Past) \/ (n = 2 /\ FirstOut /\ Justified)
  BY Elements DEF Progress, Types
<1>1. /\ got' = [err |-> err, answer |-> answer] /\ got'.err = err /\ got'.answer = answer
      /\ sent' = Append(sent, e)
  BY DEF Received, NewAttempt
<1>2. /\ e \in Attempts /\ e.turn = turn /\ e.n = n /\ e.cap = cap /\ e.asks = mode.asks
      /\ e.end = EndOf([err |-> err, answer |-> answer])
      /\ e.refusal <=> (answer.refused \/ answer.stop = "refusal")
      /\ e.span = "ok" <=> e.end \in {"answer", "cut"}
      /\ Attempt(e) = [turn |-> turn, n |-> n, cap |-> cap]
  BY <1>0, AttemptFacts
<1> HIDE DEF e
<1>3. /\ sent' \in Seq(Attempts) /\ Len(sent') = L + 1 /\ sent'[L + 1] = e
      /\ \A i \in 1..L : sent'[i] = sent[i]
  BY <1>0, <1>1, <1>2, Appended
<1>4. \A i \in 1..(L + 1) : i \in 1..L \/ i = L + 1
  BY <1>0
<1> HIDE DEF L
<1>5. err # BudgetOwn
  BY ErrorsApart
<1>6. Types'
  <2>1. got' \in [err : Errs, answer : Answers]
    BY <1>1 DEF Errs
  <2> QED BY <1>3, <2>1 DEF Types
<1>7. Progress'
  <2>1. EndOf(got)' = e.end /\ AnswerOK(got.answer)' /\ ModeOK'
    <3>1. EndOf(got)' = EndOf([err |-> err, answer |-> answer])
      BY <1>1 DEF EndOf, Cut, Gated
    <3>2. AnswerOK(got.answer)'
      BY <1>1, ZenonT(30) DEF AnswerOK
    <3> QED BY <1>0, <1>2, <3>1, <3>2, ZenonT(30) DEF ModeOK
  <2>2. n = 1 => \A i \in 1..L : sent[i].turn < turn
    BY <1>0 DEF Past, L
  <2>3. Landed'
    BY <1>0, <1>1, <1>2, <1>3, <2>1, <2>2 DEF Landed
  <2> QED BY <1>0, <2>1, <2>3 DEF Progress
<1>8. History'
  <2>1. \A i \in 1..L : /\ sent[i].turn <= turn
                        /\ sent[i].turn = turn => sent[i].n <= n /\ sent[i].asks = mode.asks
                        /\ sent[i].span = "ok" <=> sent[i].end \in {"answer", "cut"}
    BY DEF History, L
  <2>2. ASSUME NEW i \in 1..L, sent[i].turn = turn
        PROVE  /\ i = L /\ sent[i].n = 1 /\ n = 2
               /\ sent[i].end = "cut" \/ Retryable(sent[i].end)
               /\ mode.asks = sent[i].asks
               /\ IF sent[i].end = "cut" THEN cap >= sent[i].cap /\ (sent[i].cap < Limit => cap > sent[i].cap)
                  ELSE cap = sent[i].cap
    <3>1. n = 2 /\ FirstOut /\ Justified
      BY <1>0, <2>2 DEF Past, L
    <3>2. i = L
      BY <1>0, <2>2, <3>1 DEF FirstOut, L
    <3> QED BY <3>1, <3>2 DEF FirstOut, Justified, L
  <2>3. ASSUME NEW i \in 1..(L + 1), NEW j \in 1..(L + 1), i < j, sent'[i].turn = sent'[j].turn
        PROVE  /\ j = i + 1 /\ sent'[i].n = 1 /\ sent'[j].n = 2
               /\ sent'[i].end = "cut" \/ Retryable(sent'[i].end)
               /\ sent'[j].asks = sent'[i].asks
               /\ IF sent'[i].end = "cut"
                  THEN sent'[j].cap >= sent'[i].cap /\ (sent'[i].cap < Limit => sent'[j].cap > sent'[i].cap)
                  ELSE sent'[j].cap = sent'[i].cap
    <3>1. i \in 1..L /\ sent'[i] = sent[i]
      BY <1>0, <1>3, <2>3 DEF L
    <3>2. CASE j \in 1..L
      <4>1. sent'[j] = sent[j]
        BY <1>3, <3>2
      <4>2. DOMAIN sent = 1..L
        BY <1>0 DEF L
      <4> QED BY <2>3, <3>1, <3>2, <4>1, <4>2 DEF History, OneJustifiedRetry
    <3>3. CASE j = L + 1
      <4>1. sent'[j] = e
        BY <1>3, <3>3
      <4> QED BY <1>2, <2>2, <2>3, <3>1, <3>3, <4>1
    <3> QED BY <1>4, <3>2, <3>3
  <2>4. DOMAIN sent' = 1..(L + 1)
    BY <1>3
  <2>5. OneJustifiedRetry'
    BY <2>3, <2>4 DEF OneJustifiedRetry
  <2>6. \A i \in 1..(L + 1) :
           /\ sent'[i].turn <= turn
           /\ sent'[i].turn = turn => sent'[i].n <= n /\ sent'[i].asks = mode.asks
           /\ sent'[i].span = "ok" <=> sent'[i].end \in {"answer", "cut"}
    BY <1>0, <1>2, <1>3, <1>4, <2>1
  <2> QED BY <1>3, <2>5, <2>6 DEF History
<1>9. Budgeted'
  <2>1. ASSUME conf.budgeted
        PROVE  \A i \in 1..(L + 1) : \E j \in 1..Len(ledger) : ledger[j] = Attempt(sent'[i])
    <3>1. /\ ledger[Len(ledger)] = Attempt(e) /\ L < Len(ledger) /\ Len(ledger) \in Nat
          /\ \A i \in 1..L : \E j \in 1..Len(ledger) : ledger[j] = Attempt(sent[i])
      BY <1>2, <2>1, Elements DEF Budgeted, L
    <3>2. Len(ledger) \in 1..Len(ledger)
      BY <1>0, <3>1
    <3> QED BY <1>3, <1>4, <3>1, <3>2
  <2>2. conf.budgeted => L + 1 <= Len(ledger)
    BY <1>0, Elements DEF Budgeted, L
  <2>3. \A i \in 1..(L + 1) : Attempt(sent'[i]) = [turn |-> sent'[i].turn, n |-> sent'[i].n, cap |-> sent'[i].cap]
    BY DEF Attempt
  <2> QED BY <1>1, <1>3, <1>5, <2>1, <2>2, <2>3 DEF Budgeted, Attempt
<1>10. Answering'
  <2>1. Len(calls) = turn - 1
    BY ZenonT(30) DEF Answering
  <2>2. ASSUME NEW t \in 1..Len(calls) PROVE Answered(t)'
    <3>1. t # turn
      BY <1>0, <2>1
    <3>2. PICK i \in 1..L : /\ sent[i].turn = t /\ sent[i].end \in {"answer", "cut"}
                            /\ \A j \in 1..L : sent[j].turn = t => sent[j].n <= sent[i].n
      BY <2>2 DEF Answering, Answered, L
    <3>3. i \in 1..(L + 1) /\ sent'[i] = sent[i]
      BY <1>0, <1>3
    <3>4. \A j \in 1..(L + 1) : sent'[j].turn = t => sent'[j].n <= sent'[i].n
      BY <1>2, <1>3, <1>4, <3>1, <3>2, <3>3
    <3> QED BY <1>3, <3>2, <3>3, <3>4 DEF Answered
  <2>3. \A i \in 1..(L + 1) : sent'[i].turn \in 1..Len(calls) => NamesMode(calls[sent'[i].turn], sent'[i].asks)
    <3>1. ~(turn \in 1..Len(calls))
      BY <1>0, <2>1
    <3>2. \A i \in 1..L : sent[i].turn \in 1..Len(calls) => NamesMode(calls[sent[i].turn], sent[i].asks)
      BY DEF Answering, L
    <3> QED BY <1>2, <1>3, <1>4, <3>1, <3>2
  <2>4. pc' # "done"
    OBVIOUS
  <2> QED BY <1>3, <2>2, <2>3, <2>4, ZenonT(30) DEF Answering, NamesMode
<1> QED BY <1>6, <1>7, <1>8, <1>9, <1>10

LEMMA ExchangeStep == ASSUME IInv, Exchange PROVE IInv'
<1>0. /\ pc = "exchange" /\ pc' = IF conf.budgeted THEN "settle" ELSE "decide"
      /\ UNCHANGED <<conf, ended, turn, n, cap, mode, calls, reply, ledger>> /\ conf \in Conf
  BY DEF Exchange, IInv, Types
<1>1. ASSUME NEW err \in Raw \cup {decodeFailure}, Received(err, NoAnswer) PROVE IInv'
  <2>1. AnswerOK(NoAnswer) /\ NoAnswer \in Answers
    BY NothingYet, ZenonT(30) DEF AnswerOK
  <2> QED BY <1>0, <1>1, <2>1, ReceivedStep
<1>2. ASSUME NEW raw \in Reply, Received(NoErr, parse(raw)) PROVE IInv'
  BY <1>0, <1>2, ParsedAnswer, ReceivedStep
<1> QED BY <1>1, <1>2 DEF Exchange

-----------------------------------------------------------------------------
(* The answers.                                                            *)

LEMMA OnAnswerStep == ASSUME IInv, OnAnswer PROVE IInv'
<1> USE DEF IInv
<1> DEFINE result == ResultOf(got.answer)
           L == Len(sent)
<1>0. /\ pc = "decide" /\ got.err = NoErr /\ got.err # BudgetOwn
      /\ UNCHANGED <<conf, ended, mode, got, ledger, sent>> /\ calls' = Append(calls, result)
  BY ErrorsApart DEF OnAnswer, Ends
<1>1. /\ Types /\ ModeOK /\ AnswerOK(got.answer) /\ Landed /\ got.answer \in Answers
      /\ n \in 1..2 /\ turn \in 1..2 /\ conf \in Conf /\ calls \in Seq(Results) /\ L \in Nat
  BY <1>0, Elements DEF Progress, Types
<1>2. /\ result \in Results /\ result.refused = got.answer.refused
      /\ result.text # "" => ~got.answer.refused /\ got.answer.stop # "refusal"
      /\ result.text # "" /\ conf.format # "none" => result.text = "json"
      /\ NamesMode(result, mode.asks)
  BY <1>1, ResultFacts, ZenonT(30)
<1>3. PICK ok \in Checks(result) :
         IF turn = 1
         THEN CASE Final(result) -> Ends("invalid", result)
                [] ~Final(result) /\ ok -> Ends("ok", result)
                [] OTHER -> /\ pc' = "start" /\ turn' = 2 /\ n' = 0
                            /\ \E c \in Caps : cap' = IF c > conf.cap THEN c ELSE conf.cap
                            /\ UNCHANGED <<conf, reply>>
         ELSE Ends(IF ok THEN "repaired" ELSE "invalid", result)
  BY DEF OnAnswer
<1>4. ok => result.text # ""
  BY <1>3, ZenonT(30) DEF Checks
<1> HIDE DEF result
<1>5. /\ calls' \in Seq(Results) /\ Len(calls) = turn - 1 /\ Len(calls') = turn /\ calls'[turn] = result
      /\ \A t \in 1..(turn - 1) : calls'[t] = calls[t]
  <2>1. Len(calls) = turn - 1
    BY <1>0 DEF Answering
  <2>2. /\ calls' \in Seq(Results) /\ Len(calls') = Len(calls) + 1 /\ calls'[Len(calls) + 1] = result
        /\ \A t \in 1..Len(calls) : calls'[t] = calls[t]
    <3>1. calls \in Seq(Results) /\ result \in Results /\ calls' = Append(calls, result)
      BY <1>0, <1>1, <1>2, ZenonT(30)
    <3> QED BY <3>1, Appended
  <2> QED BY <1>1, <2>1, <2>2
<1>6. /\ L >= 1 /\ sent[L].turn = turn /\ sent[L].n = n /\ sent[L].end \in {"answer", "cut"}
      /\ sent[L].refusal <=> (got.answer.refused \/ got.answer.stop = "refusal")
  BY <1>0, <1>1 DEF Landed, EndOf
<1>7. /\ \A i \in 1..L : sent[i].turn <= turn
      /\ \A i \in 1..L : sent[i].turn = turn => sent[i].n <= n /\ sent[i].asks = mode.asks
      /\ \A i \in 1..L : sent[i].turn \in 1..2 /\ sent[i].n \in 1..2
      /\ \A i \in 1..L : sent[i].span = "ok" <=> sent[i].end \in {"answer", "cut"}
  BY Elements DEF History
<1>8. \A t \in 1..turn : Answered(t)
  <2>1. Answered(turn)
    BY <1>1, <1>6, <1>7 DEF Answered
  <2>2. \A t \in 1..Len(calls) : Answered(t)
    BY DEF Answering
  <2> QED BY <1>1, <1>5, <2>1, <2>2
<1>9. \A i \in 1..L : NamesMode(calls'[sent[i].turn], sent[i].asks)
  <2>1. \A i \in 1..L : sent[i].turn \in 1..Len(calls) => NamesMode(calls[sent[i].turn], sent[i].asks)
    BY DEF Answering
  <2> TAKE i \in 1..L
  <2>2. CASE sent[i].turn = turn
    BY <1>2, <1>5, <1>7, <2>2, ZenonT(30)
  <2>3. CASE sent[i].turn # turn
    <3>1. sent[i].turn \in 1..(turn - 1)
      BY <1>1, <1>7, <2>3
    <3> QED BY <1>5, <2>1, <3>1
  <2> QED BY <2>2, <2>3
<1>10. \A t \in 1..turn : Answered(t)'
  BY <1>0, <1>8 DEF Answered
<1>11. \A i \in 1..L : sent'[i].turn \in 1..Len(calls') => NamesMode(calls[sent[i].turn], sent[i].asks)'
  BY <1>0, <1>9, ZenonT(30) DEF NamesMode
<1>12. turn = 2 => ~calls'[1].refused
  BY <1>5 DEF Answering
<1>13. OneJustifiedRetry'
  BY <1>0 DEF History, OneJustifiedRetry
<1>14. ASSUME NEW outcome \in {"ok", "repaired", "invalid"}, Ends(outcome, result),
              outcome \in {"ok", "repaired"} => result.text # ""
       PROVE  IInv'
  <2>0. /\ pc' = "done" /\ reply'.outcome = outcome /\ reply'.final = result
        /\ UNCHANGED <<turn, n, cap>>
    BY <1>14, ZenonT(30) DEF Ends
  <2>1. Types'
    BY <1>0, <1>1, <1>5, <2>0, ZenonT(30) DEF Types
  <2>2. Progress'
    BY <2>0 DEF Progress
  <2>3. History'
    BY <1>0, <2>0, QuietHistory DEF Types
  <2>4. Budgeted'
    BY <1>0, <2>0 DEF Budgeted, Attempt
  <2>5. Reported'
    BY <1>0, <1>1, <1>2, <1>5, <1>6, <1>14, <2>0, ZenonT(30) DEF Reported
  <2>6. Answering'
    BY <1>0, <1>5, <1>10, <1>11, <1>12, <2>0, <2>5 DEF Answering
  <2> QED BY <2>1, <2>2, <2>3, <2>4, <2>6
<1>15. ASSUME turn = 1, ~Final(result), pc' = "start", turn' = 2, n' = 0, reply' = reply,
              \E c \in Caps : cap' = IF c > conf.cap THEN c ELSE conf.cap
       PROVE  IInv'
  <2>1. Types'
    <3>1. cap' \in Nat /\ cap' >= conf.cap /\ conf.cap \in Nat
      <4>1. Caps \subseteq Nat /\ conf.cap \in Nat
        BY <1>1, ConfAssumption, ZenonT(30)
      <4> QED BY <1>15, <4>1
    <3>2. conf.kind \in {"openai", "anthropic"} => conf.cap > 0
      BY <1>1, ConfAssumption, ZenonT(30)
    <3>3. conf.kind \in {"openai", "anthropic"} => cap' > 0
      BY <3>1, <3>2
    <3> QED BY <1>0, <1>5, <1>15, <3>1, <3>3 DEF Types
  <2>2. \A i \in 1..L : sent[i].turn < 2
    BY <1>7, <1>15
  <2>3. Progress'
    BY <1>0, <1>15, <2>2 DEF Progress, Past
  <2>4. History'
    BY <1>0, <1>7, <1>13, <1>15, <2>2 DEF History
  <2>5. Budgeted'
    BY <1>0, <1>15, Elements DEF Budgeted, Attempt
  <2>6. ~calls'[1].refused
    BY <1>5, <1>15 DEF Final
  <2>7. pc # "done" => reply.outcome = "running"
    BY DEF Answering
  <2> QED BY <1>0, <1>5, <1>10, <1>11, <1>15, <2>1, <2>3, <2>4, <2>5, <2>6, <2>7 DEF Answering
<1>16. CASE turn = 1
  BY <1>3, <1>4, <1>14, <1>15, <1>16, ZenonT(30)
<1>17. CASE turn = 2
  <2>1. Ends(IF ok THEN "repaired" ELSE "invalid", result)
    BY <1>3, <1>17
  <2>2. CASE ok
    <3>1. Ends("repaired", result)
      BY <2>1, <2>2
    <3> QED BY <1>4, <1>14, <2>2, <3>1, ZenonT(30)
  <2>3. CASE ~ok
    <3>1. Ends("invalid", result)
      BY <2>1, <2>3
    <3> QED BY <1>14, <3>1
  <2> QED BY <2>2, <2>3
<1> QED BY <1>1, <1>16, <1>17

-----------------------------------------------------------------------------
(* The theorems.                                                           *)

LEMMA Initially == ASSUME Init PROVE IInv
<1>1. conf.cap \in Nat /\ (conf.kind \in {"openai", "anthropic"} => conf.cap > 0)
  BY ConfAssumption, ZenonT(30) DEF Init
<1>2. Types
  <2>1. NoMode \in Modes
    BY DEF NoMode, Modes, Whys
  <2>2. [err |-> NoErr, answer |-> NoAnswer] \in [err : Errs, answer : Answers]
    BY NothingYet, ZenonT(30) DEF Errs
  <2>3. calls \in Seq(Results) /\ ledger \in Seq(Asked) /\ sent \in Seq(Attempts)
    BY DEF Init
  <2>4. reply.outcome = "running" /\ mode \in Modes /\ got \in [err : Errs, answer : Answers]
    BY <2>1, <2>2 DEF Init
  <2>5. conf \in Conf /\ ended \in BOOLEAN /\ turn = 1 /\ n = 0 /\ pc = "start" /\ cap = conf.cap
    BY ZenonT(30) DEF Init
  <2> QED BY <1>1, <2>3, <2>4, <2>5 DEF Types
<1>3. Progress
  BY DEF Init, Progress, Past
<1>4. History
  BY DEF Init, History, OneJustifiedRetry
<1>5. Budgeted
  BY ErrorsApart DEF Init, Budgeted
<1>6. Answering
  BY DEF Init, Answering
<1> QED BY <1>2, <1>3, <1>4, <1>5, <1>6 DEF IInv

\* The invariant says what is proved of a call: where it is against the attempts
\* sent, what the budget was asked for and what the Results are.
THEOREM CallInvariant == Spec => []IInv
<1>1. Init => IInv
  BY Initially
<1>2. IInv /\ [Next]_vars => IInv'
  <2> SUFFICES ASSUME IInv, [Next]_vars PROVE IInv'
    OBVIOUS
  <2>1. CASE UNCHANGED vars
    <3>1. UNCHANGED <<conf, ended, pc, turn, n, cap, mode, got, calls, reply, ledger, sent>>
      BY <2>1 DEF vars
    <3>2. Types'
      BY <3>1 DEF IInv, Types
    <3>3. Progress'
      BY <3>1, SameEnd, ZenonT(30) DEF IInv, Progress, ModeOK, Past, FirstOut, Justified, Landed
    <3>4. History'
      BY <3>1, QuietHistory DEF IInv, Types
    <3>5. Budgeted'
      BY <3>1 DEF IInv, Budgeted, Attempt
    <3>6. Answering'
      <4>1. \A t \in 1..Len(calls) : Answered(t)'
        BY <3>1 DEF IInv, Answering, Answered
      <4>2. Reported => Reported'
        BY <3>1, ZenonT(30) DEF Reported
      <4> QED BY <3>1, <4>1, <4>2, ZenonT(30) DEF IInv, Answering, NamesMode
    <3> QED BY <3>2, <3>3, <3>4, <3>5, <3>6 DEF IInv
  <2> QED
    BY <2>1, CancelStep, StartStep, AdmitStep, ExchangeStep, ExchangeEndedStep, SettleStep, OnErrorStep,
       OnCutStep, OnAnswerStep, WakeStep, SleepEndedStep DEF Next
<1> QED BY <1>1, <1>2, PTL DEF Spec

\* The retry rule of doc.go:34-39 for every cap and limit: one retry of a
\* Complete at most, only after a transient failure or a cut answer, in the
\* same mode, and with a larger cap after a cut that left room for one.
THEOREM RetriesJustified == Spec => []OneJustifiedRetry
<1>1. IInv => OneJustifiedRetry
  BY DEF IInv, History
<1> QED BY <1>1, CallInvariant, PTL

\* budget.go and provider.go:221: a budget is asked for every attempt that is
\* sent, under a key of its own, and its own error ends the call.
THEOREM BudgetKept == Spec => []BudgetHolds
<1>1. IInv => BudgetHolds
  <2> SUFFICES ASSUME IInv PROVE BudgetHolds
    OBVIOUS
  <2>1. Types /\ Budgeted /\ Answering
    BY DEF IInv
  <2>2. /\ DOMAIN sent = 1..Len(sent) /\ DOMAIN ledger = 1..Len(ledger) /\ Len(calls) \in Nat
    BY <2>1 DEF Types
  <2>3. TypeOK
    <3>1. turn \in 1..2 /\ n \in 0..(MaxRetries + 1)
      BY <2>1 DEF Types, MaxRetries
    <3>2. Len(calls) = turn - 1 \/ Len(calls) = turn
      BY <2>1, ZenonT(30) DEF Answering, Reported
    <3>3. Len(calls) \in 0..2
      <4>1. \A k \in Nat, t \in 1..2 : k = t - 1 \/ k = t => k \in 0..2
        OBVIOUS
      <4> QED BY <2>2, <3>1, <3>2, <4>1, ZenonT(30)
    <3> QED BY <2>1, <3>1, <3>3 DEF Types, TypeOK
  <2>4. ASSUME NEW i \in DOMAIN ledger, NEW j \in DOMAIN ledger, i # j, conf.budgeted
        PROVE  <<ledger[i].turn, ledger[i].n>> # <<ledger[j].turn, ledger[j].n>>
    <3>1. ~(ledger[i].turn = ledger[j].turn /\ ledger[i].n = ledger[j].n)
      BY <2>1, <2>2, <2>4 DEF Budgeted
    <3> QED BY <3>1
  <2> QED BY <2>1, <2>2, <2>3, <2>4 DEF BudgetHolds, Budgeted
<1> QED BY <1>1, CallInvariant, PTL

\* What CompleteStrict returns and what the spans and Results say is what
\* happened, for every provider, Format and outcome of the caller's check.
THEOREM ReportsTrue == Spec => []ReportsWhatHappened
<1>1. IInv => ReportsWhatHappened
  <2> SUFFICES ASSUME IInv PROVE ReportsWhatHappened
    OBVIOUS
  <2> DEFINE answered == {t \in 1..2 : \E i \in DOMAIN sent :
                             /\ sent[i].turn = t /\ sent[i].end \in {"answer", "cut"}
                             /\ \A j \in DOMAIN sent : sent[j].turn = t => sent[j].n <= sent[i].n}
  <2>1. Types /\ Answering /\ History /\ Progress
    BY DEF IInv
  <2>2. /\ DOMAIN sent = 1..Len(sent) /\ DOMAIN calls = 1..Len(calls) /\ turn \in 1..2
        /\ Last(sent) = sent[Len(sent)] /\ Last(calls) = calls[Len(calls)]
    BY <2>1 DEF Types, Last
  <2>3. answered = {t \in 1..2 : Answered(t)}
    BY <2>2 DEF Answered
  <2>4. ASSUME pc = "done", reply.outcome # "error" PROVE Len(calls) = Cardinality(answered)
    <3>1. Len(calls) = turn /\ \A t \in 1..turn : Answered(t)
      BY <2>1, <2>4, ZenonT(30) DEF Answering, Reported
    <3>2. \A t \in 1..2 : Answered(t) => t <= turn
      BY <2>1, <2>2 DEF Answered, History
    <3>3. answered = 1..turn
      BY <2>2, <2>3, <3>1, <3>2
    <3> HIDE DEF answered
    <3>4. turn \in Nat /\ 1 \in Int
      BY <2>2
    <3>5. Cardinality(1..turn) = turn
      BY <2>2, <3>4, FS_Interval
    <3> QED BY <3>1, <3>3, <3>5
  <2>5. reply.outcome \in {"ok", "repaired"} =>
           /\ ~Last(sent).refusal /\ Last(sent).end \in {"answer", "cut"}
           /\ reply.final = Last(calls) /\ reply.final.text # ""
           /\ conf.format # "none" => reply.final.text = "json"
    BY <2>1, <2>2, ZenonT(30) DEF Answering, Reported
  <2>6. /\ pc = "done" /\ reply.outcome = "error" => Len(calls) = turn - 1 /\ (turn = 2 => reply.final = calls[1])
        /\ turn = 2 => ~calls[1].refused
    BY <2>1, ZenonT(30) DEF Answering, Reported
  <2>7. \A i \in DOMAIN sent : sent[i].span = "ok" <=> sent[i].end \in {"answer", "cut"}
    BY <2>1, <2>2 DEF History
  <2>8. \A i \in DOMAIN sent : sent[i].turn \in DOMAIN calls => NamesMode(calls[sent[i].turn], sent[i].asks)
    BY <2>1, <2>2 DEF Answering
  <2> QED BY <2>4, <2>5, <2>6, <2>7, <2>8, ZenonT(30) DEF ReportsWhatHappened, NamesMode
<1> QED BY <1>1, CallInvariant, PTL

=============================================================================
