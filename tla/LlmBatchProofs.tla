--------------------------- MODULE LlmBatchProofs ---------------------------
(***************************************************************************)
(* What holds of the Batch API client for every set of items, every number *)
(* of calls and everything a result line may hold.                         *)
(***************************************************************************)
EXTENDS LlmBatch, FiniteSetTheorems, SequenceTheorems, TLAPS

\* Time limits of the provers, in seconds, where a step asks for no other.
USE SMTT(20), ZenonT(30)

Status == {"validating", "in_progress", "finalizing", "cancelling"} \cup Ended
Polled == {"submitted", "running", "cancelling", "succeeded", "failed", "cancelled", "expired"}
Stage == [submit |-> {"idle", "upload", "create"}, poll |-> {"idle", "retrieve"},
          fetch |-> {"idle", "retrieve", "output", "errors"}, cancel |-> {"idle", "cancel"}]
AllStages == {"idle", "upload", "create", "retrieve", "output", "errors", "cancel"}

Result == [id: Item, text: BOOLEAN, code: BOOLEAN, refused: BOOLEAN]
CallType == [stage: AllStages, n: 0..2, file: Nat, seen: [out: BOOLEAN, err: BOOLEAN],
             results: Seq(Result), after: BOOLEAN]
JobType == [by: Nat, file: Nat, status: Status, lines: [Item -> LineKind]]

\* Types; a call that is not running has left nothing behind, and only a held
\* job is polled, fetched or cancelled.
Typed ==
    /\ budget \in Budgeted
    /\ done \in [submit: 0..MaxSubmit, read: 0..MaxRead]
    /\ call \in [Op -> CallType]
    /\ files \in Seq(Nat) /\ jobs \in Seq(JobType) /\ admitted \subseteq 1..done.submit
    /\ job \in 0..Len(jobs) /\ polled \in Polled
    /\ fetched \in [ok: BOOLEAN, results: Seq(Result), after: BOOLEAN]
    /\ \A op \in Op :
          /\ call[op].stage \in Stage[op]
          /\ IF call[op].stage = "idle" THEN call[op] = Idle ELSE call[op].n \in 1..2
          /\ op # "submit" /\ call[op].stage # "idle" => job # 0

\* A running SubmitBatch: it was admitted, no job is of it yet, and its files are
\* fewer than its attempts.
Uploads ==
    LET c == call["submit"]
        s == done.submit
    IN  /\ c.stage # "idle" =>
              job = 0 /\ s \in admitted /\ \A j \in 1..Len(jobs) : jobs[j].by # s
        /\ c.stage = "upload" => Cardinality(Tagged(files, s)) < c.n
        /\ c.stage = "create" => c.n = 1 /\ c.file \in 1..Len(files) /\ files[c.file] = s

\* What SubmitBatch calls have left at the provider.
Left ==
    /\ \A t \in Nat : Cardinality(Tagged(files, t)) <= 2
    /\ \A k \in 1..Len(files) : files[k] \in admitted
    /\ \A j \in 1..Len(jobs) :
          /\ jobs[j].by \in admitted
          /\ jobs[j].file \in 1..Len(files) /\ files[jobs[j].file] = jobs[j].by
    /\ \A j, k \in 1..Len(jobs) : jobs[j].by = jobs[k].by => j = k
    /\ budget = "plain" => admitted = {}

Submitted == Uploads /\ Left

\* A job that has not ended has no lines, and what was seen to have ended has.
Ends ==
    /\ \A j \in 1..Len(jobs) :
          jobs[j].status \notin Ended \/ jobs[j].status = "failed" => jobs[j].lines = NoLines
    /\ job = 0 => polled = "submitted" /\ fetched = None
    /\ Terminal(polled) => jobs[job].status \in Ended
    /\ \A op \in Op : call[op].after => op # "submit" /\ jobs[job].status \in Ended

\* The lines of both files of the held job, the output file's first.
OutputLines == parseOpenAIBatchLines(job, OutputKind)
ErrorLines == parseOpenAIBatchLines(job, {"error"})

\* The files the held job names.
SeenNow == [out |-> LinesIn(job, OutputKind) # {}, err |-> LinesIn(job, {"error"}) # {}]

\* A fetch past its first answer reads the files of a job that has ended.
Fetches ==
    LET c == call["fetch"]
    IN  /\ c.stage = "retrieve" => c.results = <<>>
        /\ c.stage \in {"output", "errors"} =>
              /\ jobs[job].status \in Ended
              /\ c.seen = SeenNow
        /\ c.stage = "output" => c.results = <<>>
        /\ c.stage = "errors" => c.results = OutputLines
        /\ fetched.ok /\ (fetched.after \/ fetched.results # <<>>) =>
              job # 0 /\ jobs[job].status \in Ended /\ fetched.results = OutputLines \o ErrorLines

IInv == Typed /\ Submitted /\ Ends /\ Fetches

-----------------------------------------------------------------------------
(* Steps, taken apart: what one does at the provider and what one does to  *)
(* the call that makes it.                                                 *)

LEMMA IdleType ==
    /\ Idle \in CallType /\ Idle.stage = "idle" /\ Idle.after = FALSE /\ Idle.results = <<>> /\ Idle.n = 0
    /\ None \in [ok: BOOLEAN, results: Seq(Result), after: BOOLEAN] /\ None.ok = FALSE
<1> DEFINE nil == <<>>
<1>1. nil \in Seq(Result)
  OBVIOUS
<1>2. Idle = [stage |-> "idle", n |-> 0, file |-> 0, seen |-> [out |-> FALSE, err |-> FALSE],
              results |-> nil, after |-> FALSE]
      /\ None = [ok |-> FALSE, results |-> nil, after |-> FALSE]
  BY DEF Idle, None
<1> HIDE DEF nil
<1>3. /\ Idle \in CallType /\ Idle.stage = "idle" /\ Idle.after = FALSE /\ Idle.results = nil /\ Idle.n = 0
      /\ None \in [ok: BOOLEAN, results: Seq(Result), after: BOOLEAN] /\ None.ok = FALSE
  BY <1>1, <1>2 DEF CallType, AllStages
<1> QED BY <1>3 DEF nil

\* The fields of a running call, and the rest of the state.
LEMMA Fields ==
    ASSUME Typed, NEW op \in Op
    PROVE  /\ call[op] \in CallType /\ call[op].stage \in Stage[op] /\ call[op].n \in 0..2
           /\ call[op].results \in Seq(Result) /\ call[op].after \in BOOLEAN
           /\ call[op].stage # "idle" => call[op].n \in 1..2
           /\ done.submit \in 0..MaxSubmit /\ done.submit \in Nat /\ done.read \in 0..MaxRead
           /\ Len(jobs) \in Nat /\ Len(files) \in Nat /\ job \in Nat /\ job <= Len(jobs)
<1>1. call[op] \in CallType
  BY DEF Typed
<1>2. call[op].n \in 0..2 /\ call[op].results \in Seq(Result) /\ call[op].after \in BOOLEAN
  BY <1>1 DEF CallType
<1>3. done.submit \in 0..MaxSubmit /\ done.submit \in Nat /\ done.read \in 0..MaxRead
  BY BatchAssumption DEF Typed
<1>4. Len(jobs) \in Nat /\ Len(files) \in Nat
  BY DEF Typed
<1> QED BY <1>1, <1>2, <1>3, <1>4 DEF Typed

\* A call that begins a stage.
LEMMA AskLemma ==
    ASSUME Typed, NEW op \in Op, NEW stage \in Stage[op] \ {"idle"}
    PROVE  /\ Ask(op, stage) \in CallType
           /\ Ask(op, stage).stage = stage /\ Ask(op, stage).n = 1
           /\ Ask(op, stage).results = call[op].results /\ Ask(op, stage).after = call[op].after
           /\ Ask(op, stage).file = call[op].file /\ Ask(op, stage).seen = call[op].seen
<1>1. call[op] \in CallType
  BY DEF Typed
<1>2. stage \in AllStages
  BY DEF Stage, AllStages, Op
<1> DEFINE c == call[op]
<1>3. Ask(op, stage) = [c EXCEPT !.stage = stage, !.n = 1]
  BY DEF Ask
<1>4. c \in CallType
  BY <1>1
<1> HIDE DEF c
<1> DEFINE d == [c EXCEPT !.stage = stage]
           e == [d EXCEPT !.n = 1]
<1>5. /\ d \in CallType /\ d.stage = stage
      /\ d.results = c.results /\ d.after = c.after /\ d.file = c.file /\ d.seen = c.seen
  BY <1>2, <1>4 DEF CallType
<1> HIDE DEF d
<1>6. /\ e \in CallType /\ e.stage = stage /\ e.n = 1
      /\ e.results = c.results /\ e.after = c.after /\ e.file = c.file /\ e.seen = c.seen
  BY <1>5 DEF CallType
<1>7. Ask(op, stage) = e
  BY <1>3, ZenonT(30) DEF d
<1> QED BY <1>6, <1>7 DEF c

\* A failed attempt: the call returns its error, or tries once more.
LEMMA AttemptLemma ==
    ASSUME Typed, NEW op \in Op, NEW transient \in BOOLEAN, call[op].stage # "idle",
           Attempted(op, transient)
    PROVE  /\ job' = job /\ polled' = polled
           /\ fetched' = fetched \/ (op = "fetch" /\ fetched' = None)
           /\ \/ call' = [call EXCEPT ![op] = Idle]
              \/ /\ call[op].n = 1 /\ call[op].stage # "create" /\ fetched' = fetched
                 /\ call' = [call EXCEPT ![op] = [call[op] EXCEPT !.n = 2]]
<1>1. call[op].n \in 1..2
  BY Fields
<1>2. CASE Fails(op)
  BY <1>2 DEF Fails, To
<1>3. CASE /\ transient /\ call[op].n <= retries(call[op].stage)
           /\ To(op, [call[op] EXCEPT !.n = @ + 1])
           /\ UNCHANGED <<job, polled, fetched>>
  <2>1. call[op].n = 1 /\ call[op].stage # "create"
    BY <1>1, <1>3 DEF retries, MaxRetries
  <2> QED BY <1>3, <2>1 DEF To
<1> QED BY <1>2, <1>3 DEF Attempted

\* What a request does at the provider.
LEMMA EffectLemma ==
    ASSUME Typed, NEW op \in Op, Effect(op)
    PROVE  \/ files' = files /\ jobs' = jobs
           \/ /\ op = "submit" /\ call[op].stage = "upload"
              /\ files' = Append(files, done.submit) /\ jobs' = jobs
           \/ /\ op = "submit" /\ call[op].stage = "create" /\ files' = files
              /\ jobs' = Append(jobs, [by |-> done.submit, file |-> call[op].file,
                                       status |-> "validating", lines |-> NoLines])
           \/ /\ op = "cancel" /\ call[op].stage = "cancel" /\ files' = files
              /\ jobs[job].status \notin Ended /\ jobs' = [jobs EXCEPT ![job].status = "cancelling"]
<1>1. call[op].stage \in Stage[op]
  BY DEF Typed
<1>2. /\ call[op].stage = "upload" => op = "submit"
      /\ call[op].stage = "create" => op = "submit"
      /\ call[op].stage = "cancel" => op = "cancel"
  BY <1>1 DEF Stage, Op
<1>3. CASE call[op].stage = "upload"
  BY <1>2, <1>3 DEF Effect
<1>4. CASE call[op].stage = "create"
  BY <1>2, <1>4 DEF Effect
<1>5. CASE call[op].stage = "cancel"
  BY <1>2, <1>5 DEF Effect
<1>6. CASE call[op].stage \notin {"upload", "create", "cancel"}
  BY <1>6 DEF Effect
<1> QED BY <1>3, <1>4, <1>5, <1>6

\* What every step keeps of the jobs there are.
Kept ==
    /\ Len(jobs') \in Nat /\ Len(jobs) <= Len(jobs')
    /\ \A j \in 1..Len(jobs) :
          /\ jobs'[j].by = jobs[j].by /\ jobs'[j].file = jobs[j].file
          /\ jobs[j].status \in Ended => jobs'[j] = jobs[j]

\* A job, by its fields.
LEMMA JobFields ==
    ASSUME NEW b \in Nat, NEW f \in Nat, NEW st \in Status, NEW ls \in [Item -> LineKind]
    PROVE  [by |-> b, file |-> f, status |-> st, lines |-> ls] \in JobType
BY DEF JobType

LEMMA NoLinesType == NoLines \in [Item -> LineKind]
BY DEF NoLines, LineKind

\* A request at the provider keeps the types and what has ended.
LEMMA EffectTyped ==
    ASSUME Typed, NEW op \in Op, call[op].stage # "idle", Effect(op)
    PROVE  files' \in Seq(Nat) /\ jobs' \in Seq(JobType) /\ Kept
<1>0. /\ files \in Seq(Nat) /\ jobs \in Seq(JobType) /\ done.submit \in Nat /\ call[op].file \in Nat
      /\ Len(jobs) \in Nat
  <2>1. call[op] \in CallType
    BY DEF Typed
  <2> QED BY <2>1, Fields DEF Typed, CallType
<1>1. CASE files' = files /\ jobs' = jobs
  BY <1>0, <1>1 DEF Kept
<1>2. CASE files' = Append(files, done.submit) /\ jobs' = jobs
  BY <1>0, <1>2 DEF Kept
<1>3. CASE /\ files' = files
           /\ jobs' = Append(jobs, [by |-> done.submit, file |-> call[op].file,
                                    status |-> "validating", lines |-> NoLines])
  <2> DEFINE new == [by |-> done.submit, file |-> call[op].file, status |-> "validating", lines |-> NoLines]
  <2>1. new \in JobType
    BY <1>0, JobFields, NoLinesType, ZenonT(30) DEF Status
  <2>2. jobs' = Append(jobs, new)
    BY <1>3
  <2> HIDE DEF new
  <2> QED BY <1>0, <1>3, <2>1, <2>2 DEF Kept
<1>4. CASE /\ op = "cancel" /\ files' = files /\ jobs[job].status \notin Ended
           /\ jobs' = [jobs EXCEPT ![job].status = "cancelling"]
  <2>1. job \in 1..Len(jobs)
    BY <1>0, <1>4 DEF Typed
  <2> DEFINE old == jobs[job]
             new == [old EXCEPT !.status = "cancelling"]
  <2>2. old \in JobType
    BY <1>0, <2>1
  <2>3. jobs' = [jobs EXCEPT ![job] = new]
    BY <1>4
  <2> HIDE DEF old
  <2>4. new \in JobType /\ new.by = old.by /\ new.file = old.file
    BY <2>2 DEF JobType, Status
  <2>5. jobs' \in Seq(JobType) /\ Len(jobs') = Len(jobs)
    <3> HIDE DEF new
    <3> QED BY <1>0, <2>1, <2>3, <2>4
  <2>6. ASSUME NEW j \in 1..Len(jobs)
        PROVE  /\ jobs'[j].by = jobs[j].by /\ jobs'[j].file = jobs[j].file
               /\ jobs[j].status \in Ended => jobs'[j] = jobs[j]
    <3> HIDE DEF new
    <3>1. jobs'[j] = IF j = job THEN new ELSE jobs[j]
      BY <1>0, <2>1, <2>3
    <3> QED BY <1>4, <2>4, <3>1 DEF old
  <2> QED BY <1>0, <1>4, <2>5, <2>6 DEF Kept
<1> QED BY <1>1, <1>2, <1>3, <1>4, EffectLemma

\* A job that goes on.
LEMMA ProgressLemma ==
    ASSUME Typed, Progress
    PROVE  /\ jobs' \in Seq(JobType) /\ Kept
           /\ \E j \in 1..Len(jobs), s \in Status, lines \in [Item -> LineKind] :
                 /\ jobs[j].status \notin Ended /\ Len(jobs') = Len(jobs)
                 /\ s \notin Ended \/ s = "failed" => lines = NoLines
                 /\ jobs'[j].status = s /\ jobs'[j].lines = lines
                 /\ \A k \in 1..Len(jobs) : k # j => jobs'[k] = jobs[k]
<1>0. jobs \in Seq(JobType) /\ DOMAIN jobs = 1..Len(jobs) /\ Len(jobs) \in Nat
  BY DEF Typed
<1>1. PICK j \in 1..Len(jobs) :
         /\ jobs[j].status \notin Ended
         /\ \E s \in Moves[jobs[j].status], lines \in [Item -> Line] :
               /\ s \notin Ended \/ s = "failed" => lines = NoLines
               /\ s = "completed" => \A i \in Item : lines[i] # "none"
               /\ jobs' = [jobs EXCEPT ![j].status = s, ![j].lines = lines]
  BY <1>0, ZenonT(30) DEF Progress
<1> DEFINE old == jobs[j]
<1>2. old \in JobType /\ old.status \in Status /\ old.status \notin Ended
  <2>1. old \in JobType
    BY <1>0
  <2>2. old.status \in Status
    BY <2>1 DEF JobType
  <2> QED BY <1>1, <2>1, <2>2
<1>3. PICK s \in Moves[old.status], lines \in [Item -> Line] :
         /\ s \notin Ended \/ s = "failed" => lines = NoLines
         /\ jobs' = [jobs EXCEPT ![j].status = s, ![j].lines = lines]
  BY <1>1, ZenonT(30)
<1>4. s \in Status
  BY <1>2, <1>3 DEF Moves, Status, Ended
<1>5. lines \in [Item -> LineKind]
  BY BatchAssumption
<1> DEFINE mid == [old EXCEPT !.status = s]
           new == [mid EXCEPT !.lines = lines]
           half == [jobs EXCEPT ![j] = mid]
<1>6. half \in Seq(JobType) /\ Len(half) = Len(jobs) /\ half[j] = mid /\ mid \in JobType
      /\ \A k \in 1..Len(jobs) : k # j => half[k] = jobs[k]
  <2>1. mid \in JobType
    <3> HIDE DEF old
    <3> QED BY <1>2, <1>4 DEF JobType
  <2> HIDE DEF mid
  <2> QED BY <1>0, <1>1, <2>1
<1>7. jobs' = [half EXCEPT ![j] = [half[j] EXCEPT !.lines = lines]]
  BY <1>3
<1>8. jobs' = [half EXCEPT ![j] = new]
  BY <1>6, <1>7
<1>9. new \in JobType /\ new.by = old.by /\ new.file = old.file /\ new.status = s /\ new.lines = lines
  <2>1. mid.by = old.by /\ mid.file = old.file /\ mid.status = s
    <3> HIDE DEF old
    <3> QED BY <1>2 DEF JobType
  <2>2. mid \in JobType
    BY <1>6
  <2> HIDE DEF mid
  <2> QED BY <1>5, <2>1, <2>2 DEF JobType
<1> HIDE DEF half, mid, new
<1>10. jobs' \in Seq(JobType) /\ Len(jobs') = Len(jobs) /\ jobs'[j] = new
       /\ \A k \in 1..Len(jobs) : k # j => jobs'[k] = jobs[k]
  BY <1>0, <1>6, <1>8, <1>9
<1>11. Kept
  BY <1>0, <1>1, <1>9, <1>10 DEF Kept
<1> QED BY <1>1, <1>3, <1>4, <1>5, <1>9, <1>10, <1>11, ZenonT(30)

-----------------------------------------------------------------------------
(* The lines of a result file.                                             *)

\* A finite set, listed: every element once.
LEMMA Listed ==
    ASSUME NEW S, IsFiniteSet(S)
    PROVE  /\ Cardinality(S) \in Nat
           /\ SetToSeq(S) \in [1..Cardinality(S) -> S]
           /\ \A a, b \in 1..Cardinality(S) : SetToSeq(S)[a] = SetToSeq(S)[b] => a = b
           /\ \A x \in S : \E a \in 1..Cardinality(S) : SetToSeq(S)[a] = x
<1> DEFINE n == Cardinality(S)
           f == SetToSeq(S)
<1>1. n \in Nat /\ ExistsBijection(1..n, S)
  BY FS_CardinalityType
<1>2. \E g \in [1..n -> S] : IsInjective(g)
  BY <1>1 DEF ExistsBijection, Bijection, Injection
<1>3. f \in [1..n -> S] /\ IsInjective(f)
  BY <1>2 DEF SetToSeq
<1>4. IsFiniteSet(1..n) /\ Cardinality(1..n) = n
  BY <1>1, FS_Interval
<1> HIDE DEF f, n
<1>5. f \in Injection(1..n, S)
  BY <1>3 DEF Injection
<1>6. f \in Surjection(1..n, S)
  BY <1>4, <1>5, FS_Injection DEF n
<1>7. \A x \in S : \E a \in 1..n : f[a] = x
  BY <1>6 DEF Surjection
<1>8. \A a, b \in 1..n : f[a] = f[b] => a = b
  BY <1>3 DEF IsInjective
<1> QED BY <1>1, <1>3, <1>7, <1>8 DEF n, f

\* parseOpenAIBatchLines returns one result for each line it keeps.
LEMMA Parsed ==
    ASSUME NEW j, jobs[j] \in JobType, NEW kinds
    PROVE  LET p == parseOpenAIBatchLines(j, kinds)
               kept == LinesIn(j, kinds \ {"neither"})
           IN  /\ p \in Seq(Result) /\ Len(p) = Cardinality(kept) /\ Len(p) \in Nat /\ DOMAIN p = 1..Len(p)
               /\ \A k \in 1..Len(p) : p[k].id \in kept /\ p[k] = LineResult(j, p[k].id)
               /\ \A k, l \in 1..Len(p) : p[k].id = p[l].id => k = l
               /\ \A i \in kept : \E k \in 1..Len(p) : p[k].id = i
<1> DEFINE p == parseOpenAIBatchLines(j, kinds)
           kept == LinesIn(j, kinds \ {"neither"})
           n == Cardinality(kept)
           f == SetToSeq(kept)
<1>1. kept \subseteq Item /\ IsFiniteSet(kept)
  BY BatchAssumption, FS_Subset DEF LinesIn
<1>2. /\ n \in Nat /\ f \in [1..n -> kept]
      /\ \A a, b \in 1..n : f[a] = f[b] => a = b
      /\ \A x \in kept : \E a \in 1..n : f[a] = x
  BY <1>1, Listed, ZenonT(30)
<1>3. p = [k \in 1..n |-> LineResult(j, f[k])]
  BY DEF parseOpenAIBatchLines
<1>4. ASSUME NEW i \in Item PROVE LineResult(j, i) \in Result /\ LineResult(j, i).id = i
  BY DEF LineResult, Result
<1> HIDE DEF p, kept, n, f
<1>5. p \in Seq(Result) /\ Len(p) = n /\ DOMAIN p = 1..n
  <2>1. p \in [1..n -> Result]
    BY <1>1, <1>2, <1>3, <1>4
  <2> QED BY <1>2, <2>1
<1>6. ASSUME NEW k \in 1..n PROVE p[k].id = f[k] /\ p[k] = LineResult(j, f[k]) /\ f[k] \in kept
  BY <1>1, <1>2, <1>3, <1>4
<1>7. /\ p \in Seq(Result) /\ Len(p) = n /\ Len(p) \in Nat /\ DOMAIN p = 1..Len(p)
      /\ \A k \in 1..Len(p) : p[k].id \in kept /\ p[k] = LineResult(j, p[k].id)
      /\ \A k, l \in 1..Len(p) : p[k].id = p[l].id => k = l
      /\ \A i \in kept : \E k \in 1..Len(p) : p[k].id = i
  BY <1>2, <1>5, <1>6
<1> QED BY <1>7, ZenonT(30) DEF p, kept, n

-----------------------------------------------------------------------------
(* Types.                                                                  *)

LEMMA TypedRule ==
    ASSUME Typed, NEW op \in Op, NEW r \in CallType, call' = [call EXCEPT ![op] = r],
           r.stage \in Stage[op],
           IF r.stage = "idle" THEN r = Idle ELSE r.n \in 1..2,
           op # "submit" /\ r.stage # "idle" => job # 0,
           budget' = budget, done' \in [submit: 0..MaxSubmit, read: 0..MaxRead],
           files' \in Seq(Nat), jobs' \in Seq(JobType), admitted' \subseteq 1..done'.submit,
           job' \in 0..Len(jobs'), job # 0 => job' # 0, polled' \in Polled,
           fetched' \in [ok: BOOLEAN, results: Seq(Result), after: BOOLEAN]
    PROVE  Typed'
<1>1. call' \in [Op -> CallType]
  BY DEF Typed
<1>2. ASSUME NEW o \in Op
      PROVE  /\ call'[o].stage \in Stage[o]
             /\ IF call'[o].stage = "idle" THEN call'[o] = Idle ELSE call'[o].n \in 1..2
             /\ o # "submit" /\ call'[o].stage # "idle" => job' # 0
  <2>1. CASE o = op
    <3>1. call'[o] = r
      BY <2>1 DEF Typed
    <3> QED BY <2>1, <3>1
  <2>2. CASE o # op
    <3>1. call'[o] = call[o]
      BY <2>2 DEF Typed
    <3> QED BY <3>1 DEF Typed
  <2> QED BY <2>1, <2>2
<1> QED BY <1>1, <1>2 DEF Typed, Idle

\* A fetch goes on to its next file, or ends with what it has read.
LEMMA Forwarded ==
    ASSUME NEW c \in CallType, c.stage \in {"retrieve", "output", "errors"}, Forward(c)
    PROVE  \/ /\ call' = [call EXCEPT !["fetch"] = Idle]
              /\ fetched' = [ok |-> TRUE, results |-> c.results, after |-> c.after]
              /\ c.stage = "retrieve" => ~c.seen.out /\ ~c.seen.err
              /\ c.stage = "output" => ~c.seen.err
           \/ \E r \in CallType :
                 /\ call' = [call EXCEPT !["fetch"] = r] /\ fetched' = fetched
                 /\ r.n = 1 /\ r.results = c.results /\ r.after = c.after /\ r.seen = c.seen
                 /\ \/ r.stage = "output" /\ c.stage = "retrieve" /\ c.seen.out
                    \/ r.stage = "errors" /\ c.stage = "output" /\ c.seen.err
                    \/ r.stage = "errors" /\ c.stage = "retrieve" /\ ~c.seen.out /\ c.seen.err
<1>0. c.seen.out \in BOOLEAN /\ c.seen.err \in BOOLEAN
  BY DEF CallType
<1>1. CASE NextFile(c) = "end"
  <2>1. /\ call' = [call EXCEPT !["fetch"] = Idle]
        /\ fetched' = [ok |-> TRUE, results |-> c.results, after |-> c.after]
    BY <1>1 DEF Forward, To
  <2>2. /\ c.stage = "retrieve" => ~c.seen.out /\ ~c.seen.err
        /\ c.stage = "output" => ~c.seen.err
    BY <1>0, <1>1 DEF NextFile
  <2> QED BY <2>1, <2>2
<1>2. CASE NextFile(c) # "end"
  <2> DEFINE s == NextFile(c)
             d == [c EXCEPT !.stage = s]
             r == [d EXCEPT !.n = 1]
  <2>1. \/ s = "output" /\ c.stage = "retrieve" /\ c.seen.out
        \/ s = "errors" /\ c.stage = "output" /\ c.seen.err
        \/ s = "errors" /\ c.stage = "retrieve" /\ ~c.seen.out /\ c.seen.err
    BY <1>0, <1>2 DEF NextFile
  <2>2. call' = [call EXCEPT !["fetch"] = [c EXCEPT !.stage = s, !.n = 1]] /\ fetched' = fetched
    BY <1>2 DEF Forward, To
  <2>3. call' = [call EXCEPT !["fetch"] = r]
    BY <2>2, ZenonT(30)
  <2> HIDE DEF s
  <2>4. /\ d \in CallType /\ d.stage = s
        /\ d.results = c.results /\ d.after = c.after /\ d.seen = c.seen
    BY <2>1 DEF CallType, AllStages
  <2> HIDE DEF d
  <2>5. /\ r \in CallType /\ r.stage = s /\ r.n = 1
        /\ r.results = c.results /\ r.after = c.after /\ r.seen = c.seen
    BY <2>4 DEF CallType
  <2> HIDE DEF r
  <2> QED BY <2>1, <2>2, <2>3, <2>5, ZenonT(30)
<1> QED BY <1>1, <1>2

\* An answer of a fetch.
LEMMA FetchLemma ==
    ASSUME Typed, FetchAnswered
    PROVE  LET c == call["fetch"] IN
           /\ c.stage \in {"retrieve", "output", "errors"} /\ job # 0
           /\ UNCHANGED <<budget, done, files, jobs, admitted, job, polled>>
           /\ \/ /\ call' = [call EXCEPT !["fetch"] = Idle] /\ fetched' = None
              \/ \E m \in CallType :
                    /\ m.stage = c.stage /\ m.after = c.after /\ Forward(m)
                    /\ c.stage = "retrieve" => m.seen = SeenNow /\ m.results = c.results
                    /\ c.stage = "output" => m.seen = c.seen /\ m.results = c.results \o OutputLines
                    /\ c.stage = "errors" => m.seen = c.seen /\ m.results = c.results \o ErrorLines
<1> DEFINE c == call["fetch"]
<1>0. "fetch" \in Op
  BY DEF Op
<1>1. /\ c \in CallType /\ c.stage \in {"retrieve", "output", "errors"} /\ job # 0
      /\ c.results \in Seq(Result)
  BY <1>0, Fields, SMTT(60) DEF FetchAnswered, Typed
<1>2. jobs[job] \in JobType
  BY <1>1 DEF Typed
<1>3. OutputLines \in Seq(Result) /\ ErrorLines \in Seq(Result)
  BY <1>2, Parsed, ZenonT(30) DEF OutputLines, ErrorLines
<1>4. CASE c.stage = "retrieve" /\ Forward([c EXCEPT !.seen = SeenNow]) /\ UNCHANGED <<job, polled>>
  <2> DEFINE m == [c EXCEPT !.seen = SeenNow]
  <2>1. SeenNow \in [out: BOOLEAN, err: BOOLEAN]
    BY DEF SeenNow
  <2> HIDE DEF c
  <2>2. m \in CallType /\ m.stage = c.stage /\ m.after = c.after /\ m.seen = SeenNow /\ m.results = c.results
    BY <1>1, <2>1 DEF CallType
  <2>3. Forward(m)
    BY <1>4
  <2> HIDE DEF m
  <2>4. UNCHANGED <<budget, done, files, jobs, admitted, job, polled>>
    BY <1>4 DEF FetchAnswered
  <2> QED BY <1>1, <1>4, <2>2, <2>3, <2>4 DEF c
<1>5. CASE /\ c.stage # "retrieve"
           /\ Forward([c EXCEPT !.results = @ \o parseOpenAIBatchLines(job,
                         IF c.stage = "output" THEN OutputKind ELSE {"error"})])
           /\ UNCHANGED <<job, polled>>
  <2> DEFINE more == IF c.stage = "output" THEN OutputLines ELSE ErrorLines
             all == c.results \o more
             m == [c EXCEPT !.results = all]
  <2>1. parseOpenAIBatchLines(job, IF c.stage = "output" THEN OutputKind ELSE {"error"}) = more
    BY DEF OutputLines, ErrorLines
  <2>2. Forward(m)
    BY <1>5, <2>1, ZenonT(30)
  <2>3. all \in Seq(Result)
    BY <1>1, <1>3
  <2>4. UNCHANGED <<budget, done, files, jobs, admitted, job, polled>>
    BY <1>5 DEF FetchAnswered
  <2>5. /\ c.stage = "output" => all = c.results \o OutputLines
        /\ c.stage = "errors" => all = c.results \o ErrorLines
    BY ZenonT(30)
  <2> HIDE DEF c, all
  <2>6. m \in CallType /\ m.stage = c.stage /\ m.after = c.after /\ m.seen = c.seen /\ m.results = all
    BY <1>1, <2>3 DEF CallType
  <2> HIDE DEF m
  <2> QED BY <1>1, <1>5, <2>2, <2>4, <2>5, <2>6 DEF c
<1>6. CASE c.stage # "retrieve" /\ Fails("fetch")
  BY <1>1, <1>6 DEF Fails, To, FetchAnswered
<1> QED BY <1>4, <1>5, <1>6, SMTT(60) DEF FetchAnswered, SeenNow

\* SubmitBatch, admitted or not.
LEMMA SubmitLemma ==
    ASSUME Typed, SubmitBatch
    PROVE  /\ call["submit"] = Idle /\ job = 0 /\ done.submit < MaxSubmit
           /\ done'.submit = done.submit + 1 /\ done' \in [submit: 0..MaxSubmit, read: 0..MaxRead]
           /\ UNCHANGED <<budget, files, jobs, job, polled, fetched>>
           /\ \/ /\ budget # "plain" /\ admitted' = admitted \cup {done'.submit}
                 /\ \E r \in CallType :
                       /\ call' = [call EXCEPT !["submit"] = r]
                       /\ r.stage = "upload" /\ r.n = 1 /\ r.after = FALSE
              \/ UNCHANGED <<call, admitted>>
<1>0. "submit" \in Op
  BY DEF Op
<1>1. call["submit"] = Idle
  BY <1>0 DEF SubmitBatch, Typed
<1>2. done.submit \in Nat /\ done.read \in 0..MaxRead /\ MaxSubmit \in Nat
  BY <1>0, Fields, BatchAssumption
<1>3. done'.submit = done.submit + 1 /\ done' \in [submit: 0..MaxSubmit, read: 0..MaxRead]
  BY <1>2 DEF SubmitBatch, Typed
<1> DEFINE r == Ask("submit", "upload")
<1>4. "upload" \in Stage["submit"] \ {"idle"}
  BY DEF Stage
<1>5. r \in CallType /\ r.stage = "upload" /\ r.n = 1 /\ r.after = FALSE
  BY <1>0, <1>1, <1>4, AskLemma, IdleType
<1>6. \/ budget # "plain" /\ admitted' = admitted \cup {done'.submit} /\ call' = [call EXCEPT !["submit"] = r]
      \/ UNCHANGED <<call, admitted>>
  BY DEF SubmitBatch, To
<1>7. job = 0 /\ done.submit < MaxSubmit /\ UNCHANGED <<budget, files, jobs, job, polled, fetched>>
  BY DEF SubmitBatch
<1> HIDE DEF r
<1> QED BY <1>1, <1>3, <1>5, <1>6, <1>7

\* The answers of SubmitBatch's two calls.
LEMMA SubmitAnswerLemma ==
    ASSUME Typed, SubmitAnswered
    PROVE  LET c == call["submit"] IN
           /\ c.stage \in {"upload", "create"} /\ Effect("submit")
           /\ UNCHANGED <<budget, done, admitted, polled, fetched>>
           /\ \/ /\ c.stage = "upload" /\ job' = job
                 /\ \E r \in CallType :
                       /\ call' = [call EXCEPT !["submit"] = r]
                       /\ r.stage = "create" /\ r.n = 1 /\ r.after = c.after /\ r.file = Len(files')
              \/ /\ c.stage = "create" /\ job' = Len(jobs')
                 /\ call' = [call EXCEPT !["submit"] = Idle]
              \/ job' = job /\ call' = [call EXCEPT !["submit"] = Idle]
<1> DEFINE c == call["submit"]
<1>0. "submit" \in Op /\ c.stage \in {"upload", "create"} /\ Effect("submit")
      /\ UNCHANGED <<budget, done, admitted>>
  BY DEF Op, SubmitAnswered
<1>1. files' \in Seq(Nat)
  BY <1>0, EffectTyped
<1>2. CASE /\ c.stage = "upload"
           /\ To("submit", [Ask("submit", "create") EXCEPT !.file = Len(files')])
           /\ UNCHANGED <<job, polled, fetched>>
  <2> DEFINE a == Ask("submit", "create")
             r == [a EXCEPT !.file = Len(files')]
  <2>0. "create" \in Stage["submit"] \ {"idle"}
    BY DEF Stage
  <2>1. a \in CallType /\ a.stage = "create" /\ a.n = 1 /\ a.after = c.after
    BY <1>0, <2>0, AskLemma
  <2>2. call' = [call EXCEPT !["submit"] = r]
    BY <1>2 DEF To
  <2>3. Len(files') \in Nat
    BY <1>1
  <2> HIDE DEF a
  <2>4. r \in CallType /\ r.stage = "create" /\ r.n = 1 /\ r.after = c.after /\ r.file = Len(files')
    BY <2>1, <2>3 DEF CallType
  <2> HIDE DEF r
  <2> QED BY <1>0, <1>2, <2>2, <2>4, ZenonT(30)
<1>3. CASE c.stage = "create" /\ To("submit", Idle) /\ job' = Len(jobs') /\ UNCHANGED <<polled, fetched>>
  BY <1>0, <1>3 DEF To
<1>4. CASE Fails("submit")
  BY <1>0, <1>4 DEF Fails, To
<1> QED BY <1>2, <1>3, <1>4 DEF SubmitAnswered

\* A poll, a fetch or a cancel begins.
LEMMA BeginLemma ==
    ASSUME Typed, NEW op \in Op, Begin(op)
    PROVE  /\ op # "submit" /\ job # 0 /\ call[op] = Idle
           /\ UNCHANGED <<budget, files, jobs, admitted, job, polled, fetched>>
           /\ done'.submit = done.submit /\ done' \in [submit: 0..MaxSubmit, read: 0..MaxRead]
           /\ \E r \in CallType :
                 /\ call' = [call EXCEPT ![op] = r]
                 /\ r.stage = FirstStage[op] /\ r.stage \in Stage[op] \ {"idle"} /\ r.n = 1
                 /\ r.after = Terminal(polled) /\ r.results = <<>>
<1>1. op # "submit" /\ job # 0 /\ call[op] = Idle
  BY DEF Begin, Typed
<1>2. done'.submit = done.submit /\ done' \in [submit: 0..MaxSubmit, read: 0..MaxRead]
  <2>1. done.read \in Nat /\ MaxRead \in Nat
    BY Fields, BatchAssumption
  <2>2. done' = [done EXCEPT !.read = @ + 1] /\ done.read < MaxRead
    BY DEF Begin
  <2>3. done \in [submit: 0..MaxSubmit, read: 0..MaxRead]
    BY DEF Typed
  <2>4. done.read + 1 \in 0..MaxRead
    BY <2>1, <2>2
  <2> QED BY <2>2, <2>3, <2>4
<1>3. FirstStage[op] \in Stage[op] \ {"idle"}
  BY <1>1 DEF FirstStage, Stage, Op
<1> DEFINE a == Ask(op, FirstStage[op])
           t == Terminal(polled)
           r == [a EXCEPT !.after = t]
<1>4. a \in CallType /\ a.stage = FirstStage[op] /\ a.n = 1 /\ a.results = call[op].results
  BY <1>3, AskLemma
<1>5. call' = [call EXCEPT ![op] = r]
  BY DEF Begin, To
<1>9. t \in BOOLEAN
  BY DEF Terminal
<1> HIDE DEF a, t
<1>6. r \in CallType /\ r.stage = FirstStage[op] /\ r.n = 1 /\ r.after = t /\ r.results = a.results
  BY <1>4, <1>9 DEF CallType
<1> HIDE DEF r
<1>7. r.results = <<>>
  BY <1>1, <1>4, <1>6, IdleType
<1>8. UNCHANGED <<budget, files, jobs, admitted, job, polled, fetched>>
  BY DEF Begin
<1> QED BY <1>1, <1>2, <1>3, <1>5, <1>6, <1>7, <1>8, ZenonT(30) DEF t

\* Types are kept, and so is what has ended at the provider.
LEMMA NextTyped ==
    ASSUME Typed, [Next]_vars
    PROVE  Typed' /\ Kept
<1>0. /\ budget \in Budgeted /\ done \in [submit: 0..MaxSubmit, read: 0..MaxRead]
      /\ files \in Seq(Nat) /\ jobs \in Seq(JobType) /\ admitted \subseteq 1..done.submit
      /\ job \in 0..Len(jobs) /\ polled \in Polled /\ Len(jobs) \in Nat
      /\ fetched \in [ok: BOOLEAN, results: Seq(Result), after: BOOLEAN]
      /\ Op = {"submit", "poll", "fetch", "cancel"}
  BY DEF Typed, Op
<1>a. jobs' = jobs => Kept
  BY <1>0 DEF Kept
<1>b. ASSUME NEW op \in Op PROVE "idle" \in Stage[op]
  BY DEF Stage, Op
<1>1. CASE Progress
  <2>1. jobs' \in Seq(JobType) /\ Kept
    BY <1>1, ProgressLemma
  <2>2. UNCHANGED <<budget, call, done, files, admitted, job, polled, fetched>>
    BY <1>1 DEF Progress
  <2>3. job \in 0..Len(jobs')
    BY <1>0, <2>1 DEF Kept
  <2> QED BY <2>1, <2>2, <2>3 DEF Typed, Idle
<1>2. CASE SubmitBatch
  <2>1. PICK r : \/ /\ r \in CallType /\ call' = [call EXCEPT !["submit"] = r]
                    /\ r.stage = "upload" /\ r.n = 1 /\ admitted' = admitted \cup {done'.submit}
                 \/ UNCHANGED <<call, admitted>>
    BY <1>2, SubmitLemma, ZenonT(30)
  <2>2. /\ UNCHANGED <<budget, files, jobs, job, polled, fetched>>
        /\ done'.submit = done.submit + 1 /\ done' \in [submit: 0..MaxSubmit, read: 0..MaxRead]
    BY <1>2, SubmitLemma
  <2>3. admitted' \subseteq 1..done'.submit
    <3>1. done.submit \in Nat
      BY <1>0, BatchAssumption
    <3>2. 1..done.submit \subseteq 1..done'.submit /\ done'.submit \in 1..done'.submit
      BY <2>2, <3>1
    <3> QED BY <1>0, <2>1, <3>2, ZenonT(30)
  <2>4. CASE UNCHANGED call
    BY <1>a, <2>2, <2>3, <2>4 DEF Typed, Idle
  <2>5. CASE r \in CallType /\ call' = [call EXCEPT !["submit"] = r] /\ r.stage = "upload" /\ r.n = 1
    <3>1. "upload" \in Stage["submit"]
      BY DEF Stage
    <3>2. /\ files' \in Seq(Nat) /\ jobs' \in Seq(JobType) /\ job' \in 0..Len(jobs') /\ polled' \in Polled
          /\ fetched' \in [ok: BOOLEAN, results: Seq(Result), after: BOOLEAN] /\ job' = job
      BY <1>0, <2>2
    <3>3. r.stage \in Stage["submit"] /\ r.stage # "idle" /\ r.n \in 1..2
      BY <2>5, <3>1
    <3>4. Typed'
      BY <1>0, <2>2, <2>3, <2>5, <3>2, <3>3, TypedRule, ZenonT(30)
    <3> QED BY <1>a, <2>2, <3>4
  <2> QED BY <2>1, <2>4, <2>5
<1>3. CASE SubmitAnswered
  <2>1. /\ call["submit"].stage \in {"upload", "create"} /\ Effect("submit")
        /\ UNCHANGED <<budget, done, admitted, polled, fetched>>
    BY <1>3, SubmitAnswerLemma
  <2>2. files' \in Seq(Nat) /\ jobs' \in Seq(JobType) /\ Kept
    BY <1>0, <2>1, EffectTyped
  <2>3. job' = job \/ job' = Len(jobs')
    BY <1>3, SubmitAnswerLemma
  <2>4. job' \in 0..Len(jobs') /\ (job # 0 => job' # 0)
    BY <1>0, <2>2, <2>3 DEF Kept
  <2>5. PICK r \in CallType : /\ call' = [call EXCEPT !["submit"] = r]
                              /\ r = Idle \/ (r.stage = "create" /\ r.n = 1)
    BY <1>3, SubmitAnswerLemma, IdleType
  <2>6. r.stage \in Stage["submit"] /\ IF r.stage = "idle" THEN r = Idle ELSE r.n \in 1..2
    BY <2>5, IdleType DEF Stage
  <2> QED BY <1>0, <2>1, <2>2, <2>4, <2>5, <2>6, TypedRule, ZenonT(30)
<1>4. CASE PollAnswered
  <2>1. mapOpenAIBatchStatus(jobs[job].status) \in Polled
    BY DEF mapOpenAIBatchStatus, Polled
  <2> QED BY <1>0, <1>4, <1>a, <1>b, <2>1, IdleType, TypedRule, ZenonT(30) DEF PollAnswered, To
<1>5. CASE FetchAnswered
  <2>1. /\ call["fetch"].stage \in {"retrieve", "output", "errors"} /\ job # 0
        /\ UNCHANGED <<budget, done, files, jobs, admitted, job, polled>>
    BY <1>5, FetchLemma
  <2>2. PICK r \in CallType : /\ call' = [call EXCEPT !["fetch"] = r]
                              /\ r = Idle \/ (r.stage \in {"output", "errors"} /\ r.n = 1)
                              /\ fetched' \in [ok: BOOLEAN, results: Seq(Result), after: BOOLEAN]
    <3>1. CASE call' = [call EXCEPT !["fetch"] = Idle] /\ fetched' = None
      BY <3>1, IdleType, ZenonT(30)
    <3>2. ASSUME NEW m \in CallType, m.stage = call["fetch"].stage, Forward(m)
          PROVE  \E r \in CallType : /\ call' = [call EXCEPT !["fetch"] = r]
                                     /\ r = Idle \/ (r.stage \in {"output", "errors"} /\ r.n = 1)
                                     /\ fetched' \in [ok: BOOLEAN, results: Seq(Result), after: BOOLEAN]
      <4>1. m.results \in Seq(Result) /\ m.after \in BOOLEAN
        BY DEF CallType
      <4>2. CASE /\ call' = [call EXCEPT !["fetch"] = Idle]
                 /\ fetched' = [ok |-> TRUE, results |-> m.results, after |-> m.after]
        BY <4>1, <4>2, IdleType, ZenonT(30)
      <4>3. CASE \E r \in CallType : /\ call' = [call EXCEPT !["fetch"] = r] /\ fetched' = fetched
                                     /\ r.n = 1 /\ r.stage \in {"output", "errors"}
        BY <1>0, <4>3, ZenonT(30)
      <4> QED BY <2>1, <3>2, <4>2, <4>3, Forwarded
    <3> QED BY <1>5, <3>1, <3>2, FetchLemma
  <2>3. r.stage \in Stage["fetch"] /\ IF r.stage = "idle" THEN r = Idle ELSE r.n \in 1..2
    BY <2>2, IdleType DEF Stage
  <2> QED BY <1>0, <1>a, <2>1, <2>2, <2>3, TypedRule, ZenonT(30)
<1>6. CASE CancelAnswered
  <2>1. /\ call["cancel"].stage # "idle" /\ Effect("cancel") /\ call' = [call EXCEPT !["cancel"] = Idle]
        /\ UNCHANGED <<budget, done, admitted, job, polled, fetched>>
    BY <1>6 DEF CancelAnswered, To
  <2>2. files' \in Seq(Nat) /\ jobs' \in Seq(JobType) /\ Kept
    BY <1>0, <2>1, EffectTyped
  <2>3. job' \in 0..Len(jobs')
    BY <1>0, <2>1, <2>2 DEF Kept
  <2> QED BY <1>0, <1>b, <2>1, <2>2, <2>3, IdleType, TypedRule, ZenonT(30)
<1>7. ASSUME NEW op \in Op, Begin(op) PROVE Typed' /\ Kept
  <2>1. /\ op # "submit" /\ job # 0 /\ UNCHANGED <<budget, files, jobs, admitted, job, polled, fetched>>
        /\ done'.submit = done.submit /\ done' \in [submit: 0..MaxSubmit, read: 0..MaxRead]
    BY <1>7, BeginLemma
  <2>2. PICK r \in CallType : /\ call' = [call EXCEPT ![op] = r]
                              /\ r.stage \in Stage[op] \ {"idle"} /\ r.n = 1
    BY <1>7, BeginLemma
  <2>3. /\ files' \in Seq(Nat) /\ jobs' \in Seq(JobType) /\ job' \in 0..Len(jobs') /\ polled' \in Polled
        /\ fetched' \in [ok: BOOLEAN, results: Seq(Result), after: BOOLEAN]
        /\ admitted' \subseteq 1..done'.submit
    BY <1>0, <2>1
  <2>4. r.stage \in Stage[op] /\ r.stage # "idle" /\ r.n \in 1..2
    BY <2>2
  <2>5. Typed'
    BY <2>1, <2>2, <2>3, <2>4, TypedRule, ZenonT(30)
  <2> QED BY <1>a, <2>1, <2>5
<1>8. ASSUME NEW op \in Op, Refused(op) \/ Lost(op) PROVE Typed' /\ Kept
  <2>1. /\ call[op].stage # "idle" /\ UNCHANGED <<budget, done, admitted>>
        /\ \E transient \in BOOLEAN : Attempted(op, transient)
        /\ Effect(op) \/ UNCHANGED <<files, jobs>>
    BY <1>8, ZenonT(30) DEF Refused, Lost
  <2>2. files' \in Seq(Nat) /\ jobs' \in Seq(JobType) /\ Kept
    BY <1>0, <1>a, <2>1, EffectTyped
  <2>3. /\ job' = job /\ polled' = polled /\ fetched' \in {fetched, None}
        /\ \/ call' = [call EXCEPT ![op] = Idle]
           \/ call[op].n = 1 /\ call' = [call EXCEPT ![op] = [call[op] EXCEPT !.n = 2]]
    BY <2>1, AttemptLemma
  <2>4. PICK r \in CallType : /\ call' = [call EXCEPT ![op] = r]
                              /\ r = Idle \/ (r.stage = call[op].stage /\ r.n = 2)
    <3> DEFINE c == call[op]
    <3>1. c \in CallType
      BY DEF Typed
    <3>2. [c EXCEPT !.n = 2] \in CallType /\ [c EXCEPT !.n = 2].stage = c.stage /\ [c EXCEPT !.n = 2].n = 2
      <4> HIDE DEF c
      <4> QED BY <3>1 DEF CallType
    <3> QED BY <2>3, <3>2, IdleType, ZenonT(30)
  <2>5. r.stage \in Stage[op] /\ IF r.stage = "idle" THEN r = Idle ELSE r.n \in 1..2
    BY <1>b, <2>1, <2>4, IdleType, Fields
  <2>6. op # "submit" => job # 0
    BY <2>1 DEF Typed
  <2>7. job' \in 0..Len(jobs') /\ fetched' \in [ok: BOOLEAN, results: Seq(Result), after: BOOLEAN]
    BY <1>0, <2>2, <2>3, IdleType DEF Kept
  <2> QED BY <1>0, <2>1, <2>2, <2>3, <2>4, <2>5, <2>6, <2>7, TypedRule, ZenonT(30)
<1>9. CASE UNCHANGED vars
  BY <1>9, <1>a DEF vars, Typed, Idle
<1> QED BY <1>1, <1>2, <1>3, <1>4, <1>5, <1>6, <1>7, <1>8, <1>9 DEF Next

-----------------------------------------------------------------------------
(* What SubmitBatch leaves.                                                *)

\* One more file of a call.
LEMMA TaggedAppend ==
    ASSUME NEW fs \in Seq(Nat), NEW s \in Nat, NEW t \in Nat
    PROVE  /\ Cardinality(Tagged(fs, t)) \in Nat
           /\ Cardinality(Tagged(Append(fs, s), t)) =
                 IF s = t THEN Cardinality(Tagged(fs, t)) + 1 ELSE Cardinality(Tagged(fs, t))
<1> DEFINE n == Len(fs)
           more == Append(fs, s)
           old == Tagged(fs, t)
<1>1. n \in Nat /\ DOMAIN fs = 1..n
  OBVIOUS
<1>2. DOMAIN more = 1..(n + 1) /\ more[n + 1] = s /\ \A k \in 1..n : more[k] = fs[k]
  BY <1>1
<1>3. old \subseteq 1..n /\ IsFiniteSet(old) /\ Cardinality(old) \in Nat
  <2>1. old \subseteq 1..n /\ IsFiniteSet(1..n)
    BY <1>1, FS_Interval DEF Tagged
  <2> QED BY <2>1, FS_Subset, FS_CardinalityType
<1>4. Tagged(more, t) = IF s = t THEN old \cup {n + 1} ELSE old
  <2> HIDE DEF more, n
  <2> QED BY <1>1, <1>2 DEF Tagged
<1>5. n + 1 \notin old
  BY <1>1, <1>3
<1> HIDE DEF more, n, old
<1>6. Cardinality(Tagged(more, t)) = IF s = t THEN Cardinality(old) + 1 ELSE Cardinality(old)
  BY <1>3, <1>4, <1>5, FS_AddElement, ZenonT(30)
<1> QED BY <1>3, <1>6 DEF more, old

\* The provider has got nothing new of a SubmitBatch.
LEMMA LeftSame ==
    ASSUME Typed, Left, Kept, files' = files, Len(jobs') = Len(jobs), budget' = budget,
           admitted \subseteq admitted', budget = "plain" => admitted' = admitted
    PROVE  Left'
<1>1. \A j \in 1..Len(jobs') : jobs'[j].by = jobs[j].by /\ jobs'[j].file = jobs[j].file
  BY DEF Kept
<1> QED BY <1>1 DEF Left, Tagged

\* It has got one more file.
LEMMA LeftUpload ==
    ASSUME Typed, Left, jobs' = jobs, budget' = budget, admitted' = admitted,
           NEW s \in admitted, files' = Append(files, s), Cardinality(Tagged(files, s)) < 2
    PROVE  Left'
<1>1. s \in Nat /\ files \in Seq(Nat) /\ Len(files) \in Nat
  <2>1. done.submit \in Nat /\ s \in 1..done.submit /\ files \in Seq(Nat)
    BY BatchAssumption DEF Typed
  <2> QED BY <2>1
<1>2. /\ Len(files') = Len(files) + 1 /\ files'[Len(files) + 1] = s
      /\ \A k \in 1..Len(files) : files'[k] = files[k]
  BY <1>1
<1>3. ASSUME NEW t \in Nat PROVE Cardinality(Tagged(files', t)) <= 2
  <2> DEFINE n == Cardinality(Tagged(files, t))
  <2>1. n \in Nat /\ Cardinality(Tagged(Append(files, s), t)) = IF s = t THEN n + 1 ELSE n
    BY <1>1, TaggedAppend, ZenonT(30)
  <2>2. n <= 2 /\ (s = t => n < 2)
    BY DEF Left
  <2> HIDE DEF n
  <2>3. Cardinality(Tagged(Append(files, s), t)) <= 2
    BY <2>1, <2>2
  <2> QED BY <2>3
<1>4. \A k \in 1..Len(files') : files'[k] \in admitted'
  BY <1>1, <1>2 DEF Left
<1>5. \A j \in 1..Len(jobs') :
         /\ jobs'[j].by \in admitted'
         /\ jobs'[j].file \in 1..Len(files') /\ files'[jobs'[j].file] = jobs'[j].by
  BY <1>1, <1>2 DEF Left
<1> QED BY <1>3, <1>4, <1>5 DEF Left, Tagged

\* It has got one more job.
LEMMA LeftCreate ==
    ASSUME Typed, Left, files' = files, budget' = budget, admitted' = admitted,
           NEW s \in admitted, NEW f \in 1..Len(files), files[f] = s,
           NEW new, new.by = s, new.file = f, jobs' = Append(jobs, new),
           \A j \in 1..Len(jobs) : jobs[j].by # s
    PROVE  Left'
<1>1. /\ Len(jobs) \in Nat /\ Len(jobs') = Len(jobs) + 1 /\ jobs'[Len(jobs) + 1] = new
      /\ \A k \in 1..Len(jobs) : jobs'[k] = jobs[k]
  BY DEF Typed
<1>2. \A j \in 1..Len(jobs') :
         /\ jobs'[j].by \in admitted'
         /\ jobs'[j].file \in 1..Len(files') /\ files'[jobs'[j].file] = jobs'[j].by
  BY <1>1 DEF Left
<1>3. ASSUME NEW j \in 1..Len(jobs'), NEW k \in 1..Len(jobs'), jobs'[j].by = jobs'[k].by
      PROVE  j = k
  <2>1. CASE j \in 1..Len(jobs) /\ k \in 1..Len(jobs)
    BY <1>1, <1>3, <2>1 DEF Left
  <2>2. CASE j \notin 1..Len(jobs) \/ k \notin 1..Len(jobs)
    BY <1>1, <1>3, <2>2
  <2> QED BY <2>1, <2>2
<1> QED BY <1>2, <1>3 DEF Left, Tagged

\* A step that is none of SubmitBatch's.
LEMMA OtherSubmitted ==
    ASSUME Typed, Submitted, Kept, files' = files, Len(jobs') = Len(jobs),
           UNCHANGED <<budget, admitted, job>>, done'.submit = done.submit,
           \/ call'["submit"] = call["submit"]
           \/ call'["submit"].stage = "idle"
           \/ /\ call["submit"].stage = "upload" /\ call["submit"].n = 1
              /\ call'["submit"].stage = "upload" /\ call'["submit"].n = 2
    PROVE  Submitted'
<1>1. Left'
  BY LeftSame DEF Submitted
<1>2. \A j \in 1..Len(jobs') : jobs'[j].by = jobs[j].by
  BY DEF Kept
<1>3. Tagged(files', done'.submit) = Tagged(files, done.submit) /\ Cardinality(Tagged(files, done.submit)) \in Nat
  <2>1. files \in Seq(Nat) /\ done.submit \in Nat
    BY BatchAssumption DEF Typed
  <2> QED BY <2>1, TaggedAppend
<1>4. Uploads'
  BY <1>2, <1>3 DEF Submitted, Uploads
<1> QED BY <1>1, <1>4 DEF Submitted

\* Submitted is kept by every step.
LEMMA NextSubmitted ==
    ASSUME Typed, Submitted, [Next]_vars
    PROVE  Submitted'
<1> DEFINE c == call["submit"]
           s == done.submit
<1>0. /\ "submit" \in Op /\ c \in CallType /\ c.n \in Nat /\ s \in Nat /\ files \in Seq(Nat)
      /\ call \in [Op -> CallType] /\ jobs \in Seq(JobType) /\ Len(jobs) \in Nat
  <2>1. "submit" \in Op
    BY DEF Op
  <2>2. c \in CallType /\ c.n \in 0..2 /\ s \in Nat /\ Len(jobs) \in Nat
    BY <2>1, Fields
  <2> QED BY <2>1, <2>2 DEF Typed
<1>a. Kept
  BY NextTyped
<1>1. CASE Progress
  <2>1. Len(jobs') = Len(jobs)
    BY <1>1, ProgressLemma
  <2> QED BY <1>1, <1>a, <2>1, OtherSubmitted DEF Progress
<1>2. CASE SubmitBatch
  <2>1. /\ c = Idle /\ job = 0 /\ done'.submit = s + 1
        /\ UNCHANGED <<budget, files, jobs, job, polled, fetched>>
    BY <1>2, SubmitLemma
  <2>2. CASE UNCHANGED <<call, admitted>>
    <3>1. Left'
      BY <1>a, <2>1, <2>2, LeftSame DEF Submitted
    <3>2. call'["submit"].stage = "idle"
      BY <2>1, <2>2, IdleType
    <3>3. Uploads'
      BY <3>2 DEF Uploads
    <3> QED BY <3>1, <3>3 DEF Submitted
  <2>3. CASE budget # "plain" /\ admitted' = admitted \cup {done'.submit} /\ call'["submit"].stage = "upload" /\ call'["submit"].n = 1
    <3>1. Left'
      BY <1>a, <2>1, <2>3, LeftSame DEF Submitted
    <3>2. ASSUME NEW x \in admitted PROVE x # s + 1
      <4>1. x \in 1..s
        BY DEF Typed
      <4> QED BY <1>0, <4>1
    <3>3. \A j \in 1..Len(jobs') : jobs'[j].by # done'.submit
      BY <2>1, <3>2 DEF Submitted, Left
    <3>4. Tagged(files', done'.submit) = {}
      <4>1. DOMAIN files = 1..Len(files) /\ \A k \in 1..Len(files) : files[k] # s + 1
        BY <1>0, <3>2 DEF Submitted, Left
      <4> QED BY <2>1, <4>1 DEF Tagged
    <3>5. Cardinality(Tagged(files', done'.submit)) = 0
      BY <3>4, FS_EmptySet
    <3>6. Uploads'
      BY <2>1, <2>3, <3>3, <3>5 DEF Uploads
    <3> QED BY <3>1, <3>6 DEF Submitted
  <2>4. \/ UNCHANGED <<call, admitted>>
        \/ budget # "plain" /\ admitted' = admitted \cup {done'.submit} /\ call'["submit"].stage = "upload" /\ call'["submit"].n = 1
    BY <1>0, <1>2, SubmitLemma, ZenonT(30)
  <2> QED BY <2>2, <2>3, <2>4
<1>3. ASSUME c.stage # "idle", Effect("submit"), UNCHANGED <<budget, done, admitted>>,
             c.stage = "upload" =>
                /\ job' = job
                /\ \/ call'["submit"].stage = "idle"
                   \/ c.n = 1 /\ call'["submit"].stage = "upload" /\ call'["submit"].n = 2
                   \/ /\ call'["submit"].stage = "create" /\ call'["submit"].n = 1
                      /\ call'["submit"].file = Len(files'),
             c.stage = "create" => call'["submit"].stage = "idle"
      PROVE  Submitted'
  <2>1. s \in admitted /\ job = 0 /\ \A j \in 1..Len(jobs) : jobs[j].by # s
    BY <1>3 DEF Submitted, Uploads
  <2>2. CASE c.stage = "upload"
    <3> DEFINE n == Cardinality(Tagged(files, s))
    <3>1. files' = Append(files, s) /\ jobs' = jobs
      BY <1>3, <2>2 DEF Effect
    <3>2. n \in Nat /\ n < c.n /\ c.n \in 1..2 /\ Cardinality(Tagged(Append(files, s), s)) = n + 1
      BY <1>0, <2>2, TaggedAppend, Fields, ZenonT(30) DEF Submitted, Uploads
    <3> HIDE DEF n
    <3>3. Left'
      <4>1. n < 2
        BY <3>2
      <4> QED BY <1>3, <2>1, <3>1, <4>1, LeftUpload DEF Submitted, n
    <3>4. Len(files') \in 1..Len(files') /\ files'[Len(files')] = s
      BY <1>0, <3>1
    <3>5. c.n = 1 => Cardinality(Tagged(files', s)) < 2
      BY <3>1, <3>2
    <3>6. done'.submit = s
      BY <1>3
    <3> HIDE DEF c, s
    <3>7. Uploads'
      BY <1>3, <2>1, <2>2, <3>1, <3>4, <3>5, <3>6 DEF Uploads
    <3> QED BY <3>3, <3>7 DEF Submitted
  <2>3. CASE c.stage = "create"
    <3> DEFINE new == [by |-> s, file |-> c.file, status |-> "validating", lines |-> NoLines]
    <3>1. jobs' = Append(jobs, new) /\ files' = files
      BY <1>3, <2>3 DEF Effect
    <3>2. new.by = s /\ new.file = c.file
      OBVIOUS
    <3>3. c.file \in 1..Len(files) /\ files[c.file] = s
      BY <2>3 DEF Submitted, Uploads
    <3> HIDE DEF new
    <3>4. Left'
      BY <1>3, <2>1, <3>1, <3>2, <3>3, LeftCreate DEF Submitted
    <3>5. Uploads'
      BY <1>3, <2>3 DEF Uploads
    <3> QED BY <3>4, <3>5 DEF Submitted
  <2>4. c.stage \in {"upload", "create"}
    BY <1>0, <1>3, Fields DEF Stage
  <2> QED BY <2>2, <2>3, <2>4
<1>4. CASE SubmitAnswered
  <2>1. /\ c.stage \in {"upload", "create"} /\ Effect("submit") /\ UNCHANGED <<budget, done, admitted>>
    BY <1>4, SubmitAnswerLemma
  <2>2. \/ /\ c.stage = "upload" /\ job' = job
           /\ \E r \in CallType :
                 /\ call' = [call EXCEPT !["submit"] = r]
                 /\ r.stage = "create" /\ r.n = 1 /\ r.file = Len(files')
        \/ c.stage = "create" /\ call' = [call EXCEPT !["submit"] = Idle]
        \/ job' = job /\ call' = [call EXCEPT !["submit"] = Idle]
    BY <1>4, SubmitAnswerLemma
  <2> QED BY <1>0, <1>3, <2>1, <2>2, IdleType
<1>5. CASE PollAnswered
  BY <1>0, <1>5, <1>a, OtherSubmitted DEF PollAnswered, To
<1>6. CASE FetchAnswered
  <2>1. UNCHANGED <<budget, done, files, jobs, admitted, job, polled>>
    BY <1>6, FetchLemma
  <2>2. call'["submit"] = call["submit"]
    BY <1>0, <1>6, ZenonT(30) DEF FetchAnswered, Forward, Fails, To
  <2> QED BY <1>a, <2>1, <2>2, OtherSubmitted
<1>7. ASSUME NEW op \in Op \ {"submit"}, call[op].stage # "idle", Effect(op)
      PROVE  files' = files /\ Len(jobs') = Len(jobs)
  <2>1. CASE files' = files /\ jobs' = [jobs EXCEPT ![job].status = "cancelling"]
    BY <1>0, <2>1
  <2> QED BY <1>7, <2>1, EffectLemma, ZenonT(30)
<1>8. CASE CancelAnswered
  <2>1. files' = files /\ Len(jobs') = Len(jobs)
    BY <1>7, <1>8 DEF CancelAnswered, Op
  <2>2. call'["submit"] = call["submit"]
    BY <1>0, <1>8 DEF CancelAnswered, To
  <2> QED BY <1>8, <1>a, <2>1, <2>2, OtherSubmitted DEF CancelAnswered
<1>9. ASSUME NEW op \in Op, Begin(op) PROVE Submitted'
  <2>1. /\ op # "submit" /\ UNCHANGED <<budget, files, jobs, admitted, job>> /\ done'.submit = s
    BY <1>9, BeginLemma
  <2>2. call'["submit"] = call["submit"]
    BY <1>0, <1>9, <2>1 DEF Begin, To
  <2> QED BY <1>a, <2>1, <2>2, OtherSubmitted
<1>10. ASSUME NEW op \in Op, Refused(op) \/ Lost(op) PROVE Submitted'
  <2>1. /\ call[op].stage # "idle" /\ UNCHANGED <<budget, done, admitted>>
        /\ \E transient \in BOOLEAN : Attempted(op, transient)
        /\ Effect(op) \/ UNCHANGED <<files, jobs>>
    BY <1>10, ZenonT(30) DEF Refused, Lost
  <2>2. /\ job' = job
        /\ \/ call' = [call EXCEPT ![op] = Idle]
           \/ /\ call[op].n = 1 /\ call[op].stage # "create"
              /\ call' = [call EXCEPT ![op] = [call[op] EXCEPT !.n = 2]]
    BY <2>1, AttemptLemma
  <2>3. CASE op # "submit"
    <3>1. files' = files /\ Len(jobs') = Len(jobs)
      BY <1>7, <2>1, <2>3
    <3>2. call'["submit"] = call["submit"]
      BY <1>0, <2>2, <2>3
    <3> QED BY <1>a, <2>1, <2>2, <3>1, <3>2, OtherSubmitted
  <2>4. CASE op = "submit"
    <3>1. \/ call'["submit"].stage = "idle"
          \/ c.n = 1 /\ c.stage # "create" /\ call'["submit"].stage = c.stage /\ call'["submit"].n = 2
      <4>1. CASE call' = [call EXCEPT ![op] = Idle]
        BY <1>0, <2>4, <4>1, IdleType
      <4>2. CASE c.n = 1 /\ c.stage # "create" /\ call' = [call EXCEPT ![op] = [c EXCEPT !.n = 2]]
        <5>1. call'["submit"] = [c EXCEPT !.n = 2]
          BY <1>0, <2>4, <4>2
        <5> HIDE DEF c
        <5>2. [c EXCEPT !.n = 2].stage = c.stage /\ [c EXCEPT !.n = 2].n = 2
          BY <1>0 DEF CallType
        <5> QED BY <4>2, <5>1, <5>2, ZenonT(30)
      <4> QED BY <2>2, <2>4, <4>1, <4>2
    <3>2. CASE Effect(op)
      BY <1>3, <2>1, <2>2, <2>4, <3>1, <3>2
    <3>3. CASE UNCHANGED <<files, jobs>>
      <4>1. c.stage \in {"upload", "create"}
        BY <1>0, <2>1, <2>4, Fields DEF Stage
      <4> QED BY <1>a, <2>1, <2>2, <3>1, <3>3, <4>1, OtherSubmitted
    <3> QED BY <2>1, <3>2, <3>3
  <2> QED BY <2>3, <2>4
<1>11. CASE UNCHANGED vars
  BY <1>11, <1>a, OtherSubmitted DEF vars
<1> QED BY <1>1, <1>2, <1>4, <1>5, <1>6, <1>8, <1>9, <1>10, <1>11 DEF Next

-----------------------------------------------------------------------------
(* Ends and fetches.                                                       *)

\* The job a caller holds stays, and so does what it is once it has ended.
LEMMA HeldJob ==
    ASSUME Typed, Submitted, [Next]_vars
    PROVE  /\ job # 0 => job' = job
           /\ job # 0 /\ jobs[job].status \in Ended => jobs'[job] = jobs[job]
<1>0. "submit" \in Op
  BY DEF Op
<1>1. job # 0 => job' = job
  <2>1. CASE SubmitAnswered
    <3>1. call["submit"].stage # "idle"
      BY <2>1, SubmitAnswerLemma
    <3> QED BY <3>1 DEF Submitted, Uploads
  <2>2. CASE FetchAnswered
    BY <2>2, FetchLemma
  <2>3. ASSUME NEW op \in Op, Refused(op) \/ Lost(op) PROVE job' = job
    <3>1. call[op].stage # "idle" /\ \E transient \in BOOLEAN : Attempted(op, transient)
      BY <2>3, ZenonT(30) DEF Refused, Lost
    <3> QED BY <3>1, AttemptLemma
  <2> QED BY <2>1, <2>2, <2>3, ZenonT(30) DEF Next, vars, Progress, SubmitBatch, PollAnswered, CancelAnswered, Begin
<1>2. Kept
  BY NextTyped
<1>3. job # 0 => job \in 1..Len(jobs)
  BY <1>0, Fields
<1> QED BY <1>1, <1>2, <1>3 DEF Kept

\* What a step may do to what was polled and fetched.
LEMMA ReadLemma ==
    ASSUME Typed, [Next]_vars
    PROVE  /\ \/ polled' = polled
              \/ /\ job # 0 /\ UNCHANGED <<job, jobs>>
                 /\ polled' = mapOpenAIBatchStatus(jobs[job].status)
           /\ fetched' = fetched \/ job # 0
<1>0. "poll" \in Op /\ "fetch" \in Op
  BY DEF Op
<1>1. CASE PollAnswered
  BY <1>0, <1>1 DEF PollAnswered, Typed
<1>2. CASE FetchAnswered
  BY <1>2, FetchLemma
<1>3. CASE SubmitAnswered
  BY <1>3, SubmitAnswerLemma
<1>4. ASSUME NEW op \in Op, Refused(op) \/ Lost(op)
      PROVE  polled' = polled /\ (fetched' = fetched \/ job # 0)
  <2>1. call[op].stage # "idle" /\ \E transient \in BOOLEAN : Attempted(op, transient)
    BY <1>4, ZenonT(30) DEF Refused, Lost
  <2>2. polled' = polled /\ (fetched' = fetched \/ op = "fetch")
    BY <2>1, AttemptLemma
  <2> QED BY <2>1, <2>2 DEF Typed
<1> QED BY <1>1, <1>2, <1>3, <1>4, ZenonT(30) DEF Next, vars, Progress, SubmitBatch, CancelAnswered, Begin

\* A call remembers a terminal poll only from its beginning.
LEMMA AfterLemma ==
    ASSUME Typed, [Next]_vars, NEW op \in Op, call'[op].after
    PROVE  \/ call[op].after
           \/ op # "submit" /\ job # 0 /\ UNCHANGED <<job, jobs>> /\ Terminal(polled)
<1>0. call \in [Op -> CallType] /\ Idle.after = FALSE /\ {"submit", "poll", "fetch", "cancel"} \subseteq Op
  BY IdleType DEF Typed, Op
<1>1. CASE call' = call
  BY <1>1
<1>2. ASSUME NEW o \in Op, NEW r, call' = [call EXCEPT ![o] = r], r.after = FALSE \/ r.after = call[o].after
      PROVE  call[op].after
  BY <1>0, <1>2
<1>3. CASE SubmitBatch
  <2>1. call["submit"] = Idle
    BY <1>3, SubmitLemma
  <2> QED BY <1>0, <1>2, <1>3, <2>1, SubmitLemma, ZenonT(30)
<1>4. CASE SubmitAnswered
  BY <1>0, <1>2, <1>4, SubmitAnswerLemma
<1>5. CASE PollAnswered \/ CancelAnswered
  BY <1>0, <1>2, <1>5 DEF PollAnswered, CancelAnswered, To
<1>6. CASE FetchAnswered
  <2>1. ASSUME NEW m \in CallType, m.stage \in {"retrieve", "output", "errors"},
               m.after = call["fetch"].after, Forward(m)
        PROVE  call[op].after
    BY <1>0, <1>2, <2>1, Forwarded
  <2> QED BY <1>0, <1>2, <1>6, <2>1, FetchLemma
<1>7. ASSUME NEW o \in Op, Begin(o)
      PROVE  \/ call[op].after
             \/ op # "submit" /\ job # 0 /\ UNCHANGED <<job, jobs>> /\ Terminal(polled)
  <2>1. PICK r \in CallType : call' = [call EXCEPT ![o] = r] /\ r.after = Terminal(polled)
    BY <1>7, BeginLemma
  <2>2. o # "submit" /\ job # 0 /\ UNCHANGED <<job, jobs>>
    BY <1>7, BeginLemma
  <2>3. CASE op = o
    BY <1>0, <2>1, <2>2, <2>3
  <2>4. CASE op # o
    BY <1>0, <2>1, <2>4
  <2> QED BY <2>3, <2>4
<1>8. ASSUME NEW o \in Op, Refused(o) \/ Lost(o) PROVE call[op].after
  <2>1. call[o].stage # "idle" /\ \E transient \in BOOLEAN : Attempted(o, transient)
    BY <1>8, ZenonT(30) DEF Refused, Lost
  <2>2. \/ call' = [call EXCEPT ![o] = Idle]
        \/ call' = [call EXCEPT ![o] = [call[o] EXCEPT !.n = 2]]
    BY <2>1, AttemptLemma
  <2>3. [call[o] EXCEPT !.n = 2].after = call[o].after
    <3> DEFINE d == call[o]
    <3>1. d \in CallType
      BY <1>0
    <3> HIDE DEF d
    <3>2. [d EXCEPT !.n = 2].after = d.after
      BY <3>1 DEF CallType
    <3> QED BY <3>2 DEF d
  <2> QED BY <1>0, <1>2, <2>2, <2>3, ZenonT(30)
<1> QED BY <1>1, <1>3, <1>4, <1>5, <1>6, <1>7, <1>8, ZenonT(30) DEF Next, vars, Progress

\* Result lines appear with the end of a job.
LinesAtEnd ==
    \A j \in 1..Len(jobs) :
       jobs[j].status \notin Ended \/ jobs[j].status = "failed" => jobs[j].lines = NoLines

LEMMA LinesLemma ==
    ASSUME Typed, LinesAtEnd, [Next]_vars
    PROVE  LinesAtEnd'
<1>0. jobs \in Seq(JobType) /\ Len(jobs) \in Nat /\ NoLines' = NoLines /\ Ended' = Ended
  BY DEF Typed, NoLines, Ended
<1>1. CASE jobs' = jobs
  BY <1>0, <1>1 DEF LinesAtEnd
<1>2. CASE Progress
  <2>1. PICK j \in 1..Len(jobs), s \in Status, lines \in [Item -> LineKind] :
           /\ Len(jobs') = Len(jobs)
           /\ s \notin Ended \/ s = "failed" => lines = NoLines
           /\ jobs'[j].status = s /\ jobs'[j].lines = lines
           /\ \A k \in 1..Len(jobs) : k # j => jobs'[k] = jobs[k]
    BY <1>2, ProgressLemma
  <2> QED BY <1>0, <2>1 DEF LinesAtEnd
<1>3. ASSUME NEW op \in Op, call[op].stage # "idle", Effect(op) PROVE LinesAtEnd'
  <2>1. CASE jobs' = jobs
    BY <1>1, <2>1
  <2>2. CASE jobs' = Append(jobs, [by |-> done.submit, file |-> call[op].file,
                                   status |-> "validating", lines |-> NoLines])
    <3> DEFINE new == [by |-> done.submit, file |-> call[op].file, status |-> "validating", lines |-> NoLines]
    <3>1. new.lines = NoLines /\ jobs' = Append(jobs, new)
      BY <2>2
    <3> HIDE DEF new
    <3>2. ASSUME NEW j \in 1..Len(jobs') PROVE jobs'[j] = IF j = Len(jobs) + 1 THEN new ELSE jobs[j]
      BY <1>0, <3>1
    <3>3. Len(jobs') = Len(jobs) + 1
      BY <1>0, <3>1
    <3> QED BY <1>0, <3>1, <3>2, <3>3 DEF LinesAtEnd
  <2>3. CASE /\ op = "cancel" /\ jobs[job].status \notin Ended
             /\ jobs' = [jobs EXCEPT ![job].status = "cancelling"]
    <3>1. job \in 1..Len(jobs)
      BY <1>0, <1>3, <2>3 DEF Typed
    <3> DEFINE old == jobs[job]
    <3>2. old \in JobType /\ old.lines = NoLines
      BY <1>0, <2>3, <3>1 DEF LinesAtEnd
    <3>3. [old EXCEPT !.status = "cancelling"].lines = old.lines
      <4> HIDE DEF old
      <4> QED BY <3>2 DEF JobType
    <3>4. ASSUME NEW j \in 1..Len(jobs)
          PROVE  jobs'[j] = IF j = job THEN [old EXCEPT !.status = "cancelling"] ELSE jobs[j]
      BY <1>0, <2>3
    <3>5. Len(jobs') = Len(jobs)
      BY <1>0, <2>3
    <3> HIDE DEF old
    <3> QED BY <1>0, <3>2, <3>3, <3>4, <3>5, ZenonT(30) DEF LinesAtEnd
  <2> QED BY <1>3, <2>1, <2>2, <2>3, EffectLemma
<1>4. CASE SubmitAnswered
  BY <1>3, <1>4, SubmitAnswerLemma DEF Op
<1>5. CASE CancelAnswered
  BY <1>3, <1>5 DEF CancelAnswered, Op
<1>6. ASSUME NEW op \in Op, Refused(op) \/ Lost(op) PROVE LinesAtEnd'
  BY <1>1, <1>3, <1>6, ZenonT(30) DEF Refused, Lost
<1> QED BY <1>1, <1>2, <1>4, <1>5, <1>6, ZenonT(30) DEF Next, vars, SubmitBatch, PollAnswered, FetchAnswered, Begin

\* Ends is kept by every step.
LEMMA NextEnds ==
    ASSUME Typed, Submitted, Ends, [Next]_vars
    PROVE  Ends'
<1>1. LinesAtEnd'
  <2>1. LinesAtEnd
    BY DEF Ends, LinesAtEnd
  <2> QED BY <2>1, LinesLemma
<1>2. job # 0 => job' = job /\ (jobs[job].status \in Ended => jobs'[job] = jobs[job])
  BY HeldJob
<1>3. job' = 0 => polled' = "submitted" /\ fetched' = None
  <2>1. job' = 0 => job = 0
    BY <1>2
  <2>2. job = 0 => polled' = polled /\ fetched' = fetched
    BY ReadLemma
  <2>3. None' = None
    BY DEF None
  <2> QED BY <2>1, <2>2, <2>3 DEF Ends
<1>4. ASSUME Terminal(polled') PROVE jobs'[job'].status \in Ended
  <2>1. CASE polled' = polled
    <3>1. job # 0
      BY <1>4, <2>1 DEF Ends, Terminal
    <3> QED BY <1>2, <1>4, <2>1, <3>1 DEF Ends
  <2>2. CASE UNCHANGED <<job, jobs>> /\ polled' = mapOpenAIBatchStatus(jobs[job].status)
    <3> DEFINE st == jobs[job].status
    <3>1. Terminal(mapOpenAIBatchStatus(st)) => st \in Ended
      BY DEF Terminal, mapOpenAIBatchStatus, Ended
    <3> QED BY <1>4, <2>2, <3>1
  <2> QED BY <2>1, <2>2, ReadLemma
<1>5. ASSUME NEW op \in Op, call'[op].after PROVE op # "submit" /\ jobs'[job'].status \in Ended
  <2>1. CASE call[op].after
    <3>1. op # "submit" /\ jobs[job].status \in Ended
      BY <2>1 DEF Ends
    <3>2. call[op].stage # "idle"
      BY <2>1, IdleType DEF Typed
    <3>3. job # 0
      BY <3>1, <3>2 DEF Typed
    <3> QED BY <1>2, <3>1, <3>3
  <2>2. CASE op # "submit" /\ job # 0 /\ UNCHANGED <<job, jobs>> /\ Terminal(polled)
    BY <2>2 DEF Ends
  <2> QED BY <1>5, <2>1, <2>2, AfterLemma
<1> QED BY <1>1, <1>3, <1>4, <1>5 DEF Ends, LinesAtEnd, Terminal, Ended, Op

\* The lines of a job that stays as it is.
LEMMA Frozen ==
    ASSUME job' = job, jobs'[job] = jobs[job]
    PROVE  OutputLines' = OutputLines /\ ErrorLines' = ErrorLines /\ SeenNow' = SeenNow
<1>1. ASSUME NEW kinds PROVE LinesIn(job, kinds)' = LinesIn(job, kinds)
  BY DEF LinesIn
<1>2. ASSUME NEW i PROVE LineResult(job, i)' = LineResult(job, i)
  BY DEF LineResult
<1> QED BY <1>1, <1>2 DEF OutputLines, ErrorLines, SeenNow, parseOpenAIBatchLines, OutputKind

\* A file the job does not name has no line to return.
LEMMA NoFile ==
    ASSUME Typed, job # 0
    PROVE  /\ OutputLines \in Seq(Result) /\ ErrorLines \in Seq(Result)
           /\ ~SeenNow.out => OutputLines = <<>>
           /\ ~SeenNow.err => ErrorLines = <<>>
<1>1. jobs[job] \in JobType
  BY DEF Typed
<1>2. ASSUME NEW kinds
      PROVE  LET p == parseOpenAIBatchLines(job, kinds)
             IN  p \in Seq(Result) /\ (LinesIn(job, kinds) = {} => p = <<>>)
  <2> DEFINE p == parseOpenAIBatchLines(job, kinds)
             kept == LinesIn(job, kinds \ {"neither"})
  <2>1. p \in Seq(Result) /\ Len(p) = Cardinality(kept)
    BY <1>1, Parsed
  <2>2. LinesIn(job, kinds) = {} => kept = {}
    BY DEF LinesIn
  <2> HIDE DEF p, kept
  <2>3. LinesIn(job, kinds) = {} => Len(p) = 0
    BY <2>1, <2>2, FS_EmptySet
  <2>4. LinesIn(job, kinds) = {} => p = <<>>
    BY <2>1, <2>3, EmptySeq
  <2> QED BY <2>1, <2>4 DEF p
<1> QED BY <1>2, ZenonT(30) DEF OutputLines, ErrorLines, SeenNow

\* A job with a line has ended.
LEMMA LinesMeanEnd ==
    ASSUME Typed, Ends, job # 0, SeenNow.out \/ SeenNow.err
    PROVE  jobs[job].status \in Ended
<1>1. job \in 1..Len(jobs)
  BY DEF Typed
<1>2. PICK i \in Item : jobs[job].lines[i] # "none"
  BY ZenonT(30) DEF SeenNow, LinesIn, OutputKind
<1>3. jobs[job].lines # NoLines
  BY <1>2 DEF NoLines
<1> QED BY <1>1, <1>3 DEF Ends

\* A fetch, and what the last one returned, while the job stays as it is.
LEMMA SameFetch ==
    ASSUME Typed, Fetches, Ends,
           job # 0 => job' = job /\ (jobs[job].status \in Ended => jobs'[job] = jobs[job]),
           fetched' = fetched \/ fetched' = None,
           \/ call'["fetch"] = Idle
           \/ /\ call'["fetch"].stage = call["fetch"].stage
              /\ call'["fetch"].results = call["fetch"].results
              /\ call'["fetch"].seen = call["fetch"].seen
           \/ call'["fetch"].stage = "retrieve" /\ call'["fetch"].results = <<>>
    PROVE  Fetches'
<1> DEFINE c == call["fetch"]
<1>0. "fetch" \in Op
  BY DEF Op
<1>1. job # 0 /\ jobs[job].status \in Ended =>
         /\ job' = job /\ jobs'[job'] = jobs[job]
         /\ OutputLines' = OutputLines /\ ErrorLines' = ErrorLines /\ SeenNow' = SeenNow
  BY Frozen
<1>2. c.stage \in {"output", "errors"} => job # 0 /\ jobs[job].status \in Ended /\ c.seen = SeenNow
  BY <1>0 DEF Fetches, Typed
<1>3. LET d == call'["fetch"]
      IN  /\ d.stage = "retrieve" => d.results = <<>>
          /\ d.stage \in {"output", "errors"} => jobs'[job'].status \in Ended /\ d.seen = SeenNow'
          /\ d.stage = "output" => d.results = <<>>
          /\ d.stage = "errors" => d.results = OutputLines'
  <2>1. CASE call'["fetch"] = Idle
    BY <2>1, IdleType
  <2>2. CASE /\ call'["fetch"].stage = c.stage /\ call'["fetch"].results = c.results
             /\ call'["fetch"].seen = c.seen
    BY <1>1, <1>2, <2>2 DEF Fetches
  <2>3. CASE call'["fetch"].stage = "retrieve" /\ call'["fetch"].results = <<>>
    BY <2>3
  <2> QED BY <2>1, <2>2, <2>3
<1>4. ASSUME fetched'.ok, fetched'.after \/ fetched'.results # <<>>
      PROVE  job' # 0 /\ jobs'[job'].status \in Ended /\ fetched'.results = OutputLines' \o ErrorLines'
  <2>1. fetched' = fetched
    BY <1>4, IdleType
  <2>2. job # 0 /\ jobs[job].status \in Ended /\ fetched.results = OutputLines \o ErrorLines
    BY <1>4, <2>1 DEF Fetches
  <2> QED BY <1>1, <2>1, <2>2
<1>5. Ended' = Ended
  BY DEF Ended
<1> QED BY <1>3, <1>4, <1>5 DEF Fetches

\* An answer of the running fetch.
LEMMA AnswerFetches ==
    ASSUME Typed, Ends, Fetches, FetchAnswered
    PROVE  Fetches'
<1> DEFINE c == call["fetch"]
<1>0. "fetch" \in Op /\ call \in [Op -> CallType]
  BY DEF Op, Typed
<1>1. /\ c.stage \in {"retrieve", "output", "errors"} /\ job # 0
      /\ UNCHANGED <<budget, done, files, jobs, admitted, job, polled>>
  BY FetchLemma
<1>2. OutputLines' = OutputLines /\ ErrorLines' = ErrorLines /\ SeenNow' = SeenNow /\ Ended' = Ended
  BY <1>1, Frozen DEF Ended
<1>3. /\ OutputLines \in Seq(Result) /\ ErrorLines \in Seq(Result)
      /\ ~SeenNow.out => OutputLines = <<>>
      /\ ~SeenNow.err => ErrorLines = <<>>
  BY <1>1, NoFile
<1>4. CASE call' = [call EXCEPT !["fetch"] = Idle] /\ fetched' = None
  <2>1. call'["fetch"] = Idle
    BY <1>0, <1>4
  <2> QED BY <1>1, <1>4, <2>1, SameFetch
<1>5. ASSUME NEW m \in CallType, m.stage = c.stage, m.after = c.after, Forward(m),
             c.stage = "retrieve" => m.seen = SeenNow /\ m.results = c.results,
             c.stage = "output" => m.seen = c.seen /\ m.results = c.results \o OutputLines,
             c.stage = "errors" => m.seen = c.seen /\ m.results = c.results \o ErrorLines
      PROVE  Fetches'
  <2>1. /\ m.seen = SeenNow
        /\ c.stage # "retrieve" => jobs[job].status \in Ended
        /\ c.stage = "retrieve" => m.results = <<>>
    BY <1>1, <1>5 DEF Fetches
  <2>2. c.stage = "output" => m.results = OutputLines
    <3>1. c.stage = "output" => c.results = <<>>
      BY DEF Fetches
    <3>2. <<>> \o OutputLines = OutputLines
      BY <1>3, ConcatEmptySeq
    <3> QED BY <1>5, <3>1, <3>2, ZenonT(30)
  <2>3. c.stage = "errors" => m.results = OutputLines \o ErrorLines
    BY <1>5, ZenonT(30) DEF Fetches
  <2>4. c.after => jobs[job].status \in Ended
    BY <1>0 DEF Ends
  <2>5. (SeenNow.out \/ SeenNow.err) => jobs[job].status \in Ended
    BY <1>1, LinesMeanEnd
  <2>6. CASE /\ call' = [call EXCEPT !["fetch"] = Idle]
             /\ fetched' = [ok |-> TRUE, results |-> m.results, after |-> m.after]
             /\ c.stage = "retrieve" => ~m.seen.out /\ ~m.seen.err
             /\ c.stage = "output" => ~m.seen.err
    <3>1. call'["fetch"] = Idle
      BY <1>0, <2>6
    <3>2. fetched'.results = m.results /\ fetched'.after = c.after
      BY <1>5, <2>6
    <3>3. m.results = OutputLines \o ErrorLines
      <4>1. CASE c.stage = "retrieve"
        <5>1. OutputLines = <<>> /\ ErrorLines = <<>> /\ m.results = <<>>
          BY <1>3, <2>1, <2>6, <4>1
        <5>2. OutputLines \o ErrorLines = OutputLines
          BY <1>3, <5>1, ConcatEmptySeq
        <5> QED BY <5>1, <5>2
      <4>2. CASE c.stage = "output"
        <5>1. ErrorLines = <<>>
          BY <1>3, <2>1, <2>6, <4>2
        <5>2. OutputLines \o ErrorLines = OutputLines
          BY <1>3, <5>1, ConcatEmptySeq
        <5> QED BY <2>2, <4>2, <5>2
      <4>3. CASE c.stage = "errors"
        BY <2>3, <4>3
      <4> QED BY <1>1, <4>1, <4>2, <4>3
    <3>4. c.after \/ m.results # <<>> => jobs[job].status \in Ended
      <4>1. c.stage = "retrieve" => m.results = <<>>
        BY <2>1
      <4> QED BY <2>1, <2>4, <4>1
    <3> QED BY <1>1, <1>2, <3>1, <3>2, <3>3, <3>4, IdleType DEF Fetches
  <2>7. ASSUME NEW r \in CallType, call' = [call EXCEPT !["fetch"] = r], fetched' = fetched,
               r.results = m.results, r.seen = m.seen,
               \/ r.stage = "output" /\ c.stage = "retrieve" /\ m.seen.out
               \/ r.stage = "errors" /\ c.stage = "output" /\ m.seen.err
               \/ r.stage = "errors" /\ c.stage = "retrieve" /\ ~m.seen.out /\ m.seen.err
        PROVE  Fetches'
    <3>1. call'["fetch"] = r
      BY <1>0, <2>7
    <3>2. jobs[job].status \in Ended /\ r.seen = SeenNow
      BY <2>1, <2>5, <2>7
    <3>3. r.stage = "output" => r.results = <<>>
      BY <2>1, <2>7
    <3>4. r.stage = "errors" => r.results = OutputLines
      BY <1>3, <2>1, <2>2, <2>7
    <3>5. r.stage # "retrieve"
      BY <2>7
    <3> QED BY <1>1, <1>2, <2>7, <3>1, <3>2, <3>3, <3>4, <3>5 DEF Fetches
  <2> QED BY <1>1, <1>5, <2>6, <2>7, Forwarded
<1> QED BY <1>4, <1>5, FetchLemma

\* Fetches is kept by every step.
LEMMA NextFetches ==
    ASSUME Typed, Submitted, Ends, Fetches, [Next]_vars
    PROVE  Fetches'
<1>0. {"submit", "poll", "fetch", "cancel"} = Op /\ call \in [Op -> CallType]
  BY DEF Op, Typed
<1>1. job # 0 => job' = job /\ (jobs[job].status \in Ended => jobs'[job] = jobs[job])
  BY HeldJob
<1>2. CASE FetchAnswered
  BY <1>2, AnswerFetches
<1>3. ASSUME fetched' = fetched, call'["fetch"] = call["fetch"] PROVE Fetches'
  BY <1>1, <1>3, SameFetch
<1>4. CASE SubmitBatch
  <2>1. fetched' = fetched /\ call'["fetch"] = call["fetch"]
    BY <1>0, <1>4 DEF SubmitBatch, To
  <2> QED BY <1>3, <2>1
<1>5. CASE SubmitAnswered
  <2>1. fetched' = fetched /\ call'["fetch"] = call["fetch"]
    BY <1>0, <1>5, SubmitAnswerLemma
  <2> QED BY <1>3, <2>1
<1>6. CASE PollAnswered \/ CancelAnswered
  <2>1. fetched' = fetched /\ call'["fetch"] = call["fetch"]
    BY <1>0, <1>6 DEF PollAnswered, CancelAnswered, To
  <2> QED BY <1>3, <2>1
<1>7. ASSUME NEW op \in Op, Begin(op) PROVE Fetches'
  <2>1. PICK r \in CallType : /\ call' = [call EXCEPT ![op] = r] /\ r.stage = FirstStage[op]
                              /\ r.results = <<>>
    BY <1>7, BeginLemma
  <2>2. fetched' = fetched
    BY <1>7, BeginLemma
  <2>3. CASE op = "fetch"
    <3>1. call'["fetch"] = r /\ r.stage = "retrieve"
      BY <1>0, <2>1, <2>3 DEF FirstStage
    <3> QED BY <1>1, <2>1, <2>2, <3>1, SameFetch
  <2>4. CASE op # "fetch"
    BY <1>0, <1>3, <2>1, <2>2, <2>4
  <2> QED BY <2>3, <2>4
<1>8. ASSUME NEW op \in Op, Refused(op) \/ Lost(op) PROVE Fetches'
  <2>1. call[op].stage # "idle" /\ \E transient \in BOOLEAN : Attempted(op, transient)
    BY <1>8, ZenonT(30) DEF Refused, Lost
  <2>2. /\ fetched' = fetched \/ (op = "fetch" /\ fetched' = None)
        /\ \/ call' = [call EXCEPT ![op] = Idle]
           \/ call' = [call EXCEPT ![op] = [call[op] EXCEPT !.n = 2]]
    BY <2>1, AttemptLemma
  <2>3. CASE op = "fetch"
    <3> DEFINE c == call["fetch"]
               r == [c EXCEPT !.n = 2]
    <3>1. c \in CallType
      BY <1>0
    <3>2. call'["fetch"] = Idle \/ call'["fetch"] = r
      BY <1>0, <2>2, <2>3
    <3> HIDE DEF c
    <3>3. r.stage = c.stage /\ r.results = c.results /\ r.seen = c.seen
      BY <3>1 DEF CallType
    <3> HIDE DEF r
    <3> QED BY <1>1, <2>2, <3>2, <3>3, SameFetch DEF c
  <2>4. CASE op # "fetch"
    BY <1>0, <1>3, <2>2, <2>4
  <2> QED BY <2>3, <2>4
<1>9. CASE Progress \/ UNCHANGED vars
  BY <1>3, <1>9, ZenonT(30) DEF Progress, vars
<1> QED BY <1>2, <1>4, <1>5, <1>6, <1>7, <1>8, <1>9 DEF Next

-----------------------------------------------------------------------------
(* The invariant and what it says.                                         *)

LEMMA InitInv == Init => IInv
<1> SUFFICES ASSUME Init PROVE IInv
  OBVIOUS
<1> DEFINE nil == <<>>
<1>0. files = nil /\ jobs = nil /\ Len(nil) = 0 /\ nil \in Seq(Nat) /\ nil \in Seq(JobType) /\ DOMAIN nil = {}
  BY DEF Init
<1> HIDE DEF nil
<1>1. /\ budget \in Budgeted /\ done = [submit |-> 0, read |-> 0] /\ admitted = {} /\ job = 0
      /\ polled = "submitted" /\ fetched = None
      /\ call \in [Op -> {Idle}] /\ \A op \in Op : call[op] = Idle
  BY DEF Init
<1>2. Typed
  <2>1. call \in [Op -> CallType] /\ \A op \in Op : call[op].stage = "idle" /\ "idle" \in Stage[op]
    BY <1>1, IdleType DEF Op, Stage
  <2>2. fetched \in [ok: BOOLEAN, results: Seq(Result), after: BOOLEAN]
    BY <1>1, IdleType
  <2>3. done \in [submit: 0..MaxSubmit, read: 0..MaxRead]
    BY <1>1, BatchAssumption
  <2> QED BY <1>0, <1>1, <2>1, <2>2, <2>3 DEF Typed, Polled
<1>3. Submitted
  <2>1. ASSUME NEW t \in Nat PROVE Cardinality(Tagged(files, t)) <= 2
    <3>1. Tagged(files, t) = {}
      BY <1>0 DEF Tagged
    <3> QED BY <3>1, FS_EmptySet
  <2>2. call["submit"].stage = "idle"
    BY <1>1, IdleType DEF Op
  <2> QED BY <1>0, <1>1, <2>1, <2>2 DEF Submitted, Uploads, Left
<1>4. Ends
  BY <1>0, <1>1, IdleType DEF Ends, Terminal
<1>5. Fetches
  <2>1. call["fetch"].stage = "idle"
    BY <1>1, IdleType DEF Op
  <2> QED BY <1>1, <2>1, IdleType DEF Fetches
<1> QED BY <1>2, <1>3, <1>4, <1>5 DEF IInv

\* IInv holds in every state.
LEMMA Invariance == Spec => []IInv
<1>1. IInv /\ [Next]_vars => IInv'
  BY NextTyped, NextSubmitted, NextEnds, NextFetches DEF IInv
<1> QED BY <1>1, InitInv, PTL DEF Spec

\* The types of the module follow from the finer ones.
LEMMA TypesHold ==
    ASSUME Typed
    PROVE  TypeOK
<1>1. \A op \in Op : call[op].n \in 0..(MaxRetries + 1)
  BY Fields DEF MaxRetries
<1> QED BY <1>1 DEF Typed, TypeOK, Polled

\* Whatever answers are lost and however calls interleave, a SubmitBatch starts
\* at most one batch and leaves at most two files, nothing reaches the provider
\* that the budget did not admit, and a job runs on a file of its own call: the
\* create is not retried and the upload at most once.
THEOREM SubmittedOnce == Spec => []SubmitsOnce
<1>1. IInv => SubmitsOnce
  <2> SUFFICES ASSUME IInv PROVE SubmitsOnce
    OBVIOUS
  <2> USE DEF IInv, Submitted
  <2>0. /\ DOMAIN jobs = 1..Len(jobs) /\ DOMAIN files = 1..Len(files) /\ files \in Seq(Nat)
        /\ Len(files) \in Nat
    BY DEF Typed
  <2>1. TypeOK
    BY TypesHold
  <2>2. ASSUME NEW s \in 1..MaxSubmit
        PROVE  /\ Cardinality({j \in DOMAIN jobs : jobs[j].by = s}) <= 1
               /\ Cardinality(Tagged(files, s)) <= 2
    <3> DEFINE S == {j \in DOMAIN jobs : jobs[j].by = s}
    <3>0. Cardinality(Tagged(files, s)) <= 2
      BY DEF Left
    <3>1. CASE S = {}
      <4>1. Cardinality(S) = 0
        BY <3>1, FS_EmptySet
      <4> QED BY <3>0, <4>1
    <3>2. CASE S # {}
      <4>1. PICK j \in S : TRUE
        BY <3>2
      <4>2. S = {j}
        BY <2>0, <4>1 DEF Left
      <4>3. Cardinality(S) = 1
        <5> HIDE DEF S
        <5> QED BY <4>2, FS_Singleton
      <4> QED BY <3>0, <4>3
    <3> QED BY <3>1, <3>2
  <2>3. ToSet(files) \subseteq admitted
    BY <2>0 DEF Left, ToSet
  <2>4. budget = "plain" => files = <<>>
    <3>1. budget = "plain" => Len(files) = 0
      BY <2>0 DEF Left
    <3> QED BY <2>0, <3>1, EmptySeq
  <2>5. \A j \in DOMAIN jobs :
           /\ jobs[j].by \in admitted
           /\ jobs[j].file \in DOMAIN files /\ files[jobs[j].file] = jobs[j].by
    BY <2>0 DEF Left
  <2> QED BY <2>1, <2>2, <2>3, <2>4, <2>5 DEF SubmitsOnce
<1> QED BY <1>1, Invariance, PTL

\* A status PollBatch reported as terminal is the job's last: a cancel under way
\* is not read as cancelled.
THEOREM TerminalIsLast == Spec => []TerminalMeansEnded
<1>1. IInv => TerminalMeansEnded
  BY DEF IInv, Ends, TerminalMeansEnded
<1> QED BY <1>1, Invariance, PTL

\* FetchBatchResults returns every line of both files once, the output file's
\* first, whatever calls it ran with: once a poll was terminal, or as soon as it
\* returns any line at all.
THEOREM CompleteFetches == Spec => []FetchIsComplete
<1>1. IInv => FetchIsComplete
  <2> SUFFICES ASSUME IInv, fetched.ok, fetched.after \/ fetched.results # <<>>
               PROVE  LET ids == [k \in DOMAIN fetched.results |-> fetched.results[k].id]
                          outs == LinesIn(job, OutputKind \ {"neither"})
                      IN  /\ ToSet(ids) = outs \cup LinesIn(job, {"error"})
                          /\ Len(ids) = Cardinality(ToSet(ids))
                          /\ \A k \in DOMAIN ids :
                                /\ ids[k] \in outs <=> k <= Cardinality(outs)
                                /\ Succeeded(fetched.results[k]) <=> jobs[job].lines[ids[k]] = "text"
    BY ZenonT(30) DEF FetchIsComplete
  <2> DEFINE outs == LinesIn(job, OutputKind \ {"neither"})
             errs == LinesIn(job, {"error"})
             R == fetched.results
             A == OutputLines
             B == ErrorLines
             a == Len(A)
             b == Len(B)
             ids == [k \in DOMAIN R |-> R[k].id]
  <2>1. job # 0 /\ R = A \o B
    BY DEF IInv, Fetches
  <2>2. jobs[job] \in JobType
    BY <2>1 DEF IInv, Typed
  <2>3. /\ A \in Seq(Result) /\ a = Cardinality(outs) /\ a \in Nat
        /\ \A k \in 1..a : A[k].id \in outs /\ A[k] = LineResult(job, A[k].id)
        /\ \A i \in outs : \E k \in 1..a : A[k].id = i
    <3> DEFINE kinds == OutputKind
    <3>1. LET p == parseOpenAIBatchLines(job, kinds)
              kept == LinesIn(job, kinds \ {"neither"})
          IN  /\ p \in Seq(Result) /\ Len(p) = Cardinality(kept) /\ Len(p) \in Nat
              /\ \A k \in 1..Len(p) : p[k].id \in kept /\ p[k] = LineResult(job, p[k].id)
              /\ \A i \in kept : \E k \in 1..Len(p) : p[k].id = i
      <4> HIDE DEF kinds
      <4> QED BY <2>2, Parsed
    <3> QED BY <3>1, ZenonT(30) DEF OutputLines
  <2>4. /\ B \in Seq(Result) /\ b = Cardinality(errs) /\ b \in Nat
        /\ \A k \in 1..b : B[k].id \in errs /\ B[k] = LineResult(job, B[k].id)
        /\ \A i \in errs : \E k \in 1..b : B[k].id = i
    <3>1. {"error"} \ {"neither"} = {"error"}
      OBVIOUS
    <3> QED BY <2>2, <3>1, Parsed DEF ErrorLines
  <2>5. outs \cap errs = {} /\ outs \subseteq Item /\ errs \subseteq Item
    BY DEF LinesIn, OutputKind
  <2>6. ASSUME NEW i PROVE Succeeded(LineResult(job, i)) <=> jobs[job].lines[i] = "text"
    BY ZenonT(30) DEF Succeeded, LineResult
  <2>7. IsFiniteSet(outs) /\ IsFiniteSet(errs)
    BY <2>5, BatchAssumption, FS_Subset, ZenonT(30)
  <2> HIDE DEF outs, errs, R, A, B
  <2>8. Cardinality(outs \cup errs) = a + b
    <3>1. Cardinality(outs \cap errs) = 0
      BY <2>5, FS_EmptySet
    <3>2. Cardinality(outs \cup errs) = Cardinality(outs) + Cardinality(errs) - Cardinality(outs \cap errs)
      BY <2>7, FS_Union
    <3> QED BY <2>3, <2>4, <3>1, <3>2
  <2>9. /\ R \in Seq(Result) /\ Len(R) = a + b
        /\ \A k \in 1..(a + b) : R[k] = IF k <= a THEN A[k] ELSE B[k - a]
    <3>1. A \in Seq(Result) /\ B \in Seq(Result)
      BY <2>3, <2>4
    <3>2. /\ A \o B \in Seq(Result) /\ Len(A \o B) = a + b
          /\ \A k \in 1..(a + b) : (A \o B)[k] = IF k <= a THEN A[k] ELSE B[k - a]
      BY <3>1, ConcatProperties, ZenonT(30)
    <3> QED BY <2>1, <3>2
  <2> HIDE DEF a, b
  <2>10. DOMAIN R = 1..(a + b)
    BY <2>9
  <2>11. ASSUME NEW k \in 1..(a + b)
         PROVE  /\ R[k] = LineResult(job, R[k].id)
                /\ k <= a => R[k].id \in outs
                /\ ~(k <= a) => R[k].id \in errs
    <3>1. CASE k <= a
      BY <2>3, <2>4, <2>9, <3>1
    <3>2. CASE ~(k <= a)
      <4>1. k - a \in 1..b /\ R[k] = B[k - a]
        BY <2>3, <2>4, <2>9, <3>2
      <4> QED BY <2>4, <3>2, <4>1
    <3> QED BY <3>1, <3>2
  <2>12. DOMAIN ids = 1..(a + b) /\ \A k \in 1..(a + b) : ids[k] = R[k].id
    BY <2>10
  <2>13. ids \in [1..(a + b) -> Item]
    BY <2>5, <2>10, <2>11
  <2>14. Len(ids) = a + b
    <3> HIDE DEF ids
    <3> QED BY <2>3, <2>4, <2>13
  <2> HIDE DEF ids
  <2>15. ToSet(ids) = outs \cup errs
    <3>1. ToSet(ids) \subseteq outs \cup errs
      BY <2>11, <2>12 DEF ToSet
    <3>2. ASSUME NEW i \in outs PROVE i \in ToSet(ids)
      <4>1. PICK k \in 1..a : A[k].id = i
        BY <2>3
      <4>2. k \in 1..(a + b) /\ R[k] = A[k]
        BY <2>3, <2>4, <2>9
      <4> QED BY <2>12, <4>1, <4>2 DEF ToSet
    <3>3. ASSUME NEW i \in errs PROVE i \in ToSet(ids)
      <4>1. PICK k \in 1..b : B[k].id = i
        BY <2>4
      <4>2. k + a \in 1..(a + b) /\ ~(k + a <= a) /\ (k + a) - a = k
        BY <2>3, <2>4
      <4>3. R[k + a] = B[k]
        BY <2>9, <4>2
      <4> QED BY <2>12, <4>1, <4>2, <4>3 DEF ToSet
    <3> QED BY <3>1, <3>2, <3>3
  <2>16. ASSUME NEW k \in DOMAIN ids
         PROVE  /\ ids[k] \in outs <=> k <= Cardinality(outs)
                /\ Succeeded(R[k]) <=> jobs[job].lines[ids[k]] = "text"
    <3>1. k \in 1..(a + b) /\ ids[k] = R[k].id /\ R[k] = LineResult(job, ids[k])
      BY <2>11, <2>12
    <3>2. ids[k] \in outs <=> k <= Cardinality(outs)
      BY <2>3, <2>5, <2>11, <3>1
    <3>3. Succeeded(R[k]) <=> jobs[job].lines[ids[k]] = "text"
      BY <2>6, <3>1
    <3> QED BY <3>2, <3>3
  <2> QED BY <2>8, <2>14, <2>15, <2>16, ZenonT(30) DEF outs, errs, R, ids
<1> QED BY <1>1, Invariance, PTL
=============================================================================
