------------------------------- MODULE LlmBatch -------------------------------
(* The OpenAI Batch API client (openai_batch.go, batch.go) and the provider's *)
(* jobs it works on.  SubmitBatch, PollBatch, FetchBatchResults and           *)
(* CancelBatch run concurrently, each as a chain of batchCalls whose answers  *)
(* may be lost after the provider acted on the request.  The provider is      *)
(* modelled from the statuses and files the client reads.                     *)
EXTENDS Integers, Sequences, FiniteSets, SequencesExt

CONSTANTS
    Item,           \* custom ids of the batch
    Line,           \* what a result line may hold
    Budgeted,       \* the Budget: "none", "plain" or "batch"
    MaxSubmit,      \* SubmitBatch calls the caller makes
    MaxRead         \* polls, fetches and cancels it makes, together

Op == {"submit", "poll", "fetch", "cancel"}
LineKind == {"text", "refused", "notext", "error", "neither", "none"}

ASSUME BatchAssumption ==
    /\ IsFiniteSet(Item) /\ Item # {} /\ Line \subseteq LineKind
    /\ Budgeted \subseteq {"none", "plain", "batch"}
    /\ MaxSubmit \in Nat \ {0} /\ MaxRead \in Nat \ {0}

VARIABLES
    budget,     \* the Config's Budget
    call,       \* the running call of each operation
    done,       \* calls begun
    files,      \* the provider's input files: which SubmitBatch uploaded each
    jobs,       \* the provider's batches
    admitted,   \* SubmitBatch calls the budget let through
    job,        \* the ProviderJobID the caller holds; 0 before
    polled,     \* the last status PollBatch reported
    fetched     \* what the last FetchBatchResults returned

vars == <<budget, call, done, files, jobs, admitted, job, polled, fetched>>

MaxRetries == 1     \* openAIMaxRetries

Idle == [stage |-> "idle", n |-> 0, file |-> 0, seen |-> [out |-> FALSE, err |-> FALSE],
         results |-> <<>>, after |-> FALSE]
None == [ok |-> FALSE, results |-> <<>>, after |-> FALSE]
----------------------------------------------------------------------------
(* batch.go and the parser of result files                                 *)

Terminal(status) == status \in {"succeeded", "failed", "cancelled", "expired"}

\* Mutant: a cancel under way is read as cancelled, as openai.py did.
mapFolded(status) ==
    CASE status \in {"validating", "in_progress", "finalizing"} -> "running"
      [] status = "completed" -> "succeeded"
      [] status = "cancelling" -> "cancelled"
      [] status \in {"failed", "expired", "cancelled"} -> status
      [] OTHER -> "submitted"

mapOpenAIBatchStatus(status) ==
    CASE status \in {"validating", "in_progress", "finalizing"} -> "running"
      [] status = "completed" -> "succeeded"
      [] status \in {"failed", "expired", "cancelling", "cancelled"} -> status
      [] OTHER -> "submitted"

\* The files a result line is written to: requests that failed are in the error
\* file, every answered one in the output file.
OutputKind == {"text", "refused", "notext", "neither"}
LinesIn(j, kinds) == {i \in Item : jobs[j].lines[i] \in kinds}

\* One line: an error object, a response with or without text, or neither, which
\* is skipped.
LineResult(j, i) ==
    LET kind == jobs[j].lines[i]
    IN  [id |-> i, text |-> kind = "text", code |-> kind # "text", refused |-> kind = "refused"]

parseOpenAIBatchLines(j, kinds) ==
    LET kept == LinesIn(j, kinds \ {"neither"})
    IN  [k \in 1..Cardinality(kept) |-> LineResult(j, SetToSeq(kept)[k])]

Succeeded(r) == ~r.code /\ r.text
----------------------------------------------------------------------------
(* The provider (external)                                                 *)

Ended == {"completed", "failed", "expired", "cancelled"}
NoLines == [i \in Item |-> "none"]

Moves ==
    [validating |-> {"in_progress", "failed"}, in_progress |-> {"finalizing", "expired"},
     finalizing |-> {"completed"}, cancelling |-> {"cancelled"}]

\* A job goes on; its result files are complete when it ends.
Progress ==
    \E j \in DOMAIN jobs :
       /\ jobs[j].status \notin Ended
       /\ \E s \in Moves[jobs[j].status], lines \in [Item -> Line] :
             /\ s \notin Ended \/ s = "failed" => lines = NoLines
             /\ s = "completed" => \A i \in Item : lines[i] # "none"
             /\ jobs' = [jobs EXCEPT ![j].status = s, ![j].lines = lines]
    /\ UNCHANGED <<budget, call, done, files, admitted, job, polled, fetched>>

\* What a request does at the provider when it arrives.
Effect(op) ==
    CASE call[op].stage = "upload" ->
           files' = Append(files, done.submit) /\ UNCHANGED jobs
      [] call[op].stage = "create" ->
           /\ jobs' = Append(jobs, [by |-> done.submit, file |-> call[op].file,
                                    status |-> "validating", lines |-> NoLines])
           /\ UNCHANGED files
      [] call[op].stage = "cancel" ->
           /\ jobs' = IF jobs[job].status \in Ended THEN jobs
                      ELSE [jobs EXCEPT ![job].status = "cancelling"]
           /\ UNCHANGED files
      [] OTHER -> UNCHANGED <<files, jobs>>
----------------------------------------------------------------------------
(* The client's calls                                                      *)

Init ==
    /\ budget \in Budgeted
    /\ call = [op \in Op |-> Idle] /\ done = [submit |-> 0, read |-> 0]
    /\ files = <<>> /\ jobs = <<>> /\ admitted = {} /\ job = 0
    /\ polled = "submitted" /\ fetched = None

To(op, fields) == call' = [call EXCEPT ![op] = fields]
Ask(op, stage) == [call[op] EXCEPT !.stage = stage, !.n = 1]

\* Mutant: the batch is uploaded before the budget is asked.
SubmitUnadmitted ==
    /\ call["submit"].stage = "idle" /\ job = 0 /\ done.submit < MaxSubmit
    /\ done' = [done EXCEPT !.submit = @ + 1]
    /\ To("submit", Ask("submit", "upload"))
    /\ UNCHANGED <<budget, files, jobs, admitted, job, polled, fetched>>

\* SubmitBatch up to the upload: the budget is asked once the items are valid and
\* encoded.  It admits the batch, or the call ends here.
SubmitBatch ==
    /\ call["submit"].stage = "idle" /\ job = 0 /\ done.submit < MaxSubmit
    /\ done' = [done EXCEPT !.submit = @ + 1]
    /\ \/ /\ budget # "plain"
          /\ admitted' = admitted \cup {done'.submit}
          /\ To("submit", Ask("submit", "upload"))
       \/ UNCHANGED <<call, admitted>>
    /\ UNCHANGED <<budget, files, jobs, job, polled, fetched>>

FirstStage == [poll |-> "retrieve", fetch |-> "retrieve", cancel |-> "cancel"]

\* PollBatch, FetchBatchResults or CancelBatch of the job the caller holds.
Begin(op) ==
    /\ op # "submit" /\ call[op].stage = "idle" /\ job # 0 /\ done.read < MaxRead
    /\ done' = [done EXCEPT !.read = @ + 1]
    /\ To(op, [Ask(op, FirstStage[op]) EXCEPT !.after = Terminal(polled)])
    /\ UNCHANGED <<budget, files, jobs, admitted, job, polled, fetched>>

\* Mutant: the create is retried like the other calls.
retriesCreate(stage) == MaxRetries

\* Mutant: one retry too many.
retriesTwice(stage) == IF stage = "create" THEN 0 ELSE MaxRetries + 1

retries(stage) == IF stage = "create" THEN 0 ELSE MaxRetries

\* The call returns an error: it leaves nothing behind at the client.
Fails(op) ==
    /\ To(op, Idle)
    /\ fetched' = IF op = "fetch" THEN None ELSE fetched
    /\ UNCHANGED <<job, polled>>

\* A batchCall attempt failed: it is retried once when the failure is transient
\* and the context lives, else the call returns the error.
Attempted(op, transient) ==
    \/ /\ transient /\ call[op].n <= retries(call[op].stage)
       /\ To(op, [call[op] EXCEPT !.n = @ + 1])
       /\ UNCHANGED <<job, polled, fetched>>
    \/ Fails(op)

\* The provider refused the request, or it never arrived.
Refused(op) ==
    /\ call[op].stage # "idle"
    /\ \E transient \in BOOLEAN : Attempted(op, transient)
    /\ UNCHANGED <<budget, done, files, jobs, admitted>>

\* The request was acted on and its answer lost: a transport failure.
Lost(op) ==
    /\ call[op].stage \in {"upload", "create", "cancel"}
    /\ Effect(op) /\ Attempted(op, TRUE)
    /\ UNCHANGED <<budget, done, admitted>>

\* Mutant: the create names the provider's first file.
SubmitFirstFile ==
    /\ call["submit"].stage \in {"upload", "create"}
    /\ Effect("submit")
    /\ \/ /\ call["submit"].stage = "upload"
          /\ To("submit", [Ask("submit", "create") EXCEPT !.file = 1])
          /\ UNCHANGED <<job, polled, fetched>>
       \/ /\ call["submit"].stage = "create"
          /\ To("submit", Idle) /\ job' = Len(jobs') /\ UNCHANGED <<polled, fetched>>
    /\ UNCHANGED <<budget, done, admitted>>

\* SubmitBatch goes from the upload to the create and returns the job.
SubmitAnswered ==
    /\ call["submit"].stage \in {"upload", "create"}
    /\ Effect("submit")
    /\ \/ /\ call["submit"].stage = "upload"
          /\ To("submit", [Ask("submit", "create") EXCEPT !.file = Len(files')])
          /\ UNCHANGED <<job, polled, fetched>>
       \/ /\ call["submit"].stage = "create"
          /\ To("submit", Idle) /\ job' = Len(jobs') /\ UNCHANGED <<polled, fetched>>
       \/ Fails("submit")      \* the answer holds no id
    /\ UNCHANGED <<budget, done, admitted>>

PollAnswered ==
    /\ call["poll"].stage = "retrieve"
    /\ polled' = mapOpenAIBatchStatus(jobs[job].status)
    /\ To("poll", Idle)
    /\ UNCHANGED <<budget, done, files, jobs, admitted, job, fetched>>

\* The next file of a fetch that has one, or the end of the fetch.
NextFile(c) ==
    CASE c.stage = "retrieve" /\ c.seen.out -> "output"
      [] c.stage \in {"retrieve", "output"} /\ ~(c.stage = "retrieve" /\ c.seen.out) /\ c.seen.err -> "errors"
      [] OTHER -> "end"

Forward(c) ==
    IF NextFile(c) = "end"
    THEN /\ fetched' = [ok |-> TRUE, results |-> c.results, after |-> c.after]
         /\ To("fetch", Idle)
    ELSE /\ To("fetch", [c EXCEPT !.stage = NextFile(c), !.n = 1])
         /\ UNCHANGED fetched

\* Mutant: a file that cannot be read is passed over.
FetchPassesOver ==
    /\ call["fetch"].stage \in {"retrieve", "output", "errors"}
    /\ LET c == call["fetch"] IN
       \/ /\ c.stage = "retrieve"
          /\ Forward([c EXCEPT !.seen = [out |-> LinesIn(job, OutputKind) # {},
                                         err |-> LinesIn(job, {"error"}) # {}]])
       \/ c.stage # "retrieve" /\ Forward(c)
    /\ UNCHANGED <<budget, done, files, jobs, admitted, job, polled>>

\* FetchBatchResults: the files the job names, then each one's lines; a file with
\* a line that is no JSON object fails the fetch.
FetchAnswered ==
    /\ call["fetch"].stage \in {"retrieve", "output", "errors"}
    /\ LET c == call["fetch"] IN
       \/ /\ c.stage = "retrieve"
          /\ Forward([c EXCEPT !.seen = [out |-> LinesIn(job, OutputKind) # {},
                                         err |-> LinesIn(job, {"error"}) # {}]])
          /\ UNCHANGED <<job, polled>>
       \/ /\ c.stage # "retrieve"
          /\ Forward([c EXCEPT !.results = @ \o parseOpenAIBatchLines(job,
                         IF c.stage = "output" THEN OutputKind ELSE {"error"})])
          /\ UNCHANGED <<job, polled>>
       \/ c.stage # "retrieve" /\ Fails("fetch")
    /\ UNCHANGED <<budget, done, files, jobs, admitted>>

CancelAnswered ==
    /\ call["cancel"].stage = "cancel"
    /\ Effect("cancel") /\ To("cancel", Idle)
    /\ UNCHANGED <<budget, done, admitted, job, polled, fetched>>

Next ==
    \/ Progress \/ SubmitBatch \/ SubmitAnswered \/ PollAnswered \/ FetchAnswered \/ CancelAnswered
    \/ \E op \in Op : Begin(op) \/ Refused(op) \/ Lost(op)

Spec == Init /\ [][Next]_vars
----------------------------------------------------------------------------
(* Properties                                                              *)

Tagged(seq, by) == {k \in DOMAIN seq : seq[k] = by}

\* Calls, jobs and what the caller holds are of their types.
TypeOK ==
    /\ budget \in Budgeted /\ done \in [submit : 0..MaxSubmit, read : 0..MaxRead]
    /\ \A op \in Op : call[op].n \in 0..(MaxRetries + 1)
    /\ job \in 0..Len(jobs) /\ polled \in {"submitted", "running", "cancelling"} \cup
                                        {"succeeded", "failed", "cancelled", "expired"}

\* What a SubmitBatch leaves at the provider.  The create is billed and not
\* idempotent (openai_batch.go:225-228): whatever answers are lost, a
\* SubmitBatch starts at most one batch, and its upload, which is retried,
\* leaves at most two files.  Nothing reaches the provider for a batch the
\* budget did not admit (openai_batch.go:76-80), and a Budget that cannot
\* decide on a batch lets none through.  A job runs on a file of the call that
\* created it, not on one an earlier call or a lost upload left.  The state
\* keeps its types.
SubmitsOnce ==
    /\ TypeOK
    /\ \A s \in 1..MaxSubmit :
       /\ Cardinality({j \in DOMAIN jobs : jobs[j].by = s}) <= 1
       /\ Cardinality(Tagged(files, s)) <= 2
    /\ ToSet(files) \subseteq admitted
    /\ budget = "plain" => files = <<>>
    /\ \A j \in DOMAIN jobs :
       /\ jobs[j].by \in admitted
       /\ jobs[j].file \in DOMAIN files /\ files[jobs[j].file] = jobs[j].by

\* Terminal: "the provider will not change the job any more" (batch.go:28), with
\* a cancel running against the poll.
TerminalMeansEnded ==
    Terminal(polled) => jobs[job].status \in Ended

\* FetchBatchResults is complete or fails: after a terminal poll, or as soon as it
\* returns any line, it returns every line of both files once, the output file's
\* first (batch.go:102-103), and a line succeeded exactly when it held a text.
FetchIsComplete ==
    fetched.ok /\ (fetched.after \/ fetched.results # <<>>) =>
       LET ids == [k \in DOMAIN fetched.results |-> fetched.results[k].id]
           outs == LinesIn(job, OutputKind \ {"neither"})
       IN  /\ ToSet(ids) = outs \cup LinesIn(job, {"error"})
           /\ Len(ids) = Cardinality(ToSet(ids))
           /\ \A k \in DOMAIN ids :
                 /\ ids[k] \in outs <=> k <= Cardinality(outs)
                 /\ Succeeded(fetched.results[k]) <=> jobs[job].lines[ids[k]] = "text"
=============================================================================
