------------------------------ MODULE EventReads ------------------------------
(***************************************************************************)
(* The reads of readers/ci.go, deployments.go, incidents.go,               *)
(* pullrequests.go and workitems.go that answer for a past instant.  Their *)
(* tables hold only the newest version of a run, deployment, incident,     *)
(* pull request, review or work item; what it was at the instant is worked *)
(* out from the event times that version carries.                          *)
(***************************************************************************)
EXTENDS ReaderTables, RowOrder

\* An existence test that a range bounds from below too.
ExistencePredicateInRange(bound, begun) ==
    ~bound.active \/ (begun # 0 /\ begun <= bound.end /\ begun >= bound.start)

\* TimeBound.ExistencePredicate: begun by the end of the bound; NULL is not.
ExistencePredicate(bound, begun) == ~bound.active \/ (begun # 0 /\ begun <= bound.end)

\* The instant taken from the start of a range.
overAtStart(bound, at) == at # 0 /\ at <= (IF bound.start # 0 THEN bound.start ELSE bound.end)

\* An event that had happened at AsOfExpression, the end of the bound.
over(bound, at) == at # 0 /\ at <= bound.end

\* The start alone, which a deployment may lack.
begunStarted(e) == e.started

\* The column existence and order go by: started_at, created_at or
\* submitted_at; of a deployment, coalesce(started_at, deployed_at).
begun(e) == IF e.kind = "deployment" /\ e.started = 0 THEN e.deployed ELSE e.started

\* The rows of one table that the ids ask for and that existed.
existing(kind, ids, bound) ==
    {e \in OfOrg(events, Org) : e.kind = kind /\ e.id \in ids /\ ExistencePredicate(bound, begun(e))}

\* Of pairs of a stored row and its answer, newest first, then by key; NULL
\* sorts last.
newestFirst(pairs) == FirstRows({<<<<-begun(x[1]), Rank[x[1].id]>>, x[2]>> : x \in pairs}, RowLimit)

\* A final status shown whatever the instant.
finalStatusNow(bound, e, unfinished) == e.state

\* The status of a row that finishes: final once it had finished, and the
\* table's word for unfinished before.
finalStatus(bound, e, unfinished) ==
    IF ~bound.active \/ over(bound, e.ended) THEN e.state ELSE unfinished

ReadRunStatus(ids, bound) ==
    newestFirst({<<e, [id |-> e.id, status |-> finalStatus(bound, e, "running")]>> : e \in existing("run", ids, bound)})

ReadDeploymentStatus(ids, bound) ==
    newestFirst({<<e, [id |-> e.id, status |-> finalStatus(bound, e, "in_progress")]>> :
                    e \in existing("deployment", ids, bound)})

\* The severity of today under the label of a past instant.
severityNow(bound, e) == e.severity

severity(bound, e) == IF bound.active THEN "" ELSE e.severity

ReadIncidents(ids, bound) ==
    newestFirst({<<e, [id |-> e.id, status |-> finalStatus(bound, e, "open"), severity |-> severity(bound, e)]>> :
                    e \in {x \in existing("incident", ids, bound) : ~x.deleted}})

\* Closed before merged.
pullStateClosedFirst(bound, e) ==
    CASE ~bound.active -> e.state
      [] bound.active /\ over(bound, e.ended) -> "closed"
      [] bound.active /\ ~over(bound, e.ended) /\ over(bound, e.merged) -> "merged"
      [] OTHER -> "open"

\* Merged wins, because a merged pull request is also closed.
pullState(bound, e) ==
    CASE ~bound.active -> e.state
      [] bound.active /\ over(bound, e.merged) -> "merged"
      [] bound.active /\ ~over(bound, e.merged) /\ over(bound, e.ended) -> "closed"
      [] OTHER -> "open"

ReadPullRequestState(ids, bound) ==
    newestFirst({<<e, [id |-> e.id, status |-> pullState(bound, e)]>> : e \in existing("pull", ids, bound)})

\* A review is decided when it is submitted.
ReadPullRequestReviews(ids, bound) ==
    newestFirst({<<e, [id |-> e.id, status |-> e.state]>> : e \in existing("review", ids, bound)})

\* Completion; the completion time itself is served whatever the instant.
ReadWorkItemCompletion(ids, bound) ==
    LET done(e) == IF bound.active THEN over(bound, e.ended) ELSE e.ended # 0
    IN newestFirst({<<e, [id |-> e.id, completedAt |-> e.ended,
                          status |-> IF done(e) THEN "completed" ELSE "not completed"]>> :
                        e \in existing("item", ids, bound)})

-----------------------------------------------------------------------------
(* Properties.                                                             *)

Answer(kind, ids, bound) ==
    CASE kind = "run" -> ReadRunStatus(ids, bound)
      [] kind = "deployment" -> ReadDeploymentStatus(ids, bound)
      [] kind = "incident" -> ReadIncidents(ids, bound)
      [] kind = "pull" -> ReadPullRequestState(ids, bound)
      [] kind = "review" -> ReadPullRequestReviews(ids, bound)
      [] kind = "item" -> ReadWorkItemCompletion(ids, bound)

\* What the provider showed of an entity as it was in version v.
Shown(v) ==
    CASE v.kind \in {"run", "deployment", "incident"} /\ v.ended = 0 ->
            (CASE v.kind = "run" -> "running" [] v.kind = "deployment" -> "in_progress" [] OTHER -> "open")
      [] v.kind = "item" -> (IF v.ended = 0 THEN "not completed" ELSE "completed")
      [] OTHER -> v.state

\* An answer for a past instant says what was so at that instant, however far
\* the entity and its row have moved on since: a finished run was running, a
\* merged pull request open, an escalated incident's severity is left out, an
\* entity that had not begun has no row, and one that began before a range is
\* in it.  It holds for a row whose sync had reached the instant, and a
\* deleted incident is gone for every instant (the comments on ReadRunStatus,
\* ReadDeploymentStatus, ReadIncidents, ReadPullRequestState,
\* ReadWorkItemCompletion and TimeBound.ExistencePredicate).
AsOfAnswersExact ==
    \A bound \in {b \in Bounds : b.active} : \A e \in OfOrg(events, Org) :
        LET versions == {v \in RowsOf("events") : SameKey("events", v, e)}
            past == {v \in versions : v.at <= bound.end}
            then == CHOOSE v \in past : \A w \in past : w.at <= v.at
            hadBegun == past # {} /\ (then.started # 0 \/ then.deployed # 0)
            rows == Answer(e.kind, {e.id}, bound)
        IN (\A v \in past : v.at <= e.at) =>
            IF e.deleted \/ ~hadBegun THEN rows = <<>>
            ELSE /\ Len(rows) = 1
                 /\ rows[1].status = Shown(then)
                 /\ e.kind = "incident" => rows[1].severity \in {"", then.severity}
===============================================================================
