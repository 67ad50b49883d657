----------------------------- MODULE ReaderTables -----------------------------
(***************************************************************************)
(* The tables the readers query, and the jobs that write them.  The jobs   *)
(* are outside the repository: rows of a small universe arrive in any      *)
(* order, late ones included, time passes, and ClickHouse merges away      *)
(* replaced rows when it likes.  A read is a function of the tables at     *)
(* that moment, so it is a state function of the modules that extend this  *)
(* one, and no action.                                                     *)
(*                                                                         *)
(* Rows, "" and Null for NULL:                                             *)
(*   daily         [team, repo, day, at, commits, after] of                *)
(*                 team_metrics_daily, repo Null for the legacy bucket     *)
(*   coverage      [team, scope, provider, day, at, backlog], team Null    *)
(*                 when it is unattributed                                 *)
(*   projects      [org, provider, id, key]                                *)
(*   tpo           [org, provider, project_id, project_key, team, from,    *)
(*                 to] of team_project_ownership, to 0 while it is open    *)
(*   tro           [org, team, repo, from, to] of                          *)
(*                 team_repository_ownership                               *)
(*   links         [org, item, repo, provenance, pr] of                    *)
(*                 work_item_pr_links                                      *)
(*   repos         [org, id, repo], where the table is read with FINAL     *)
(*   repo_versions [id, repo, provider, at], where it is read without      *)
(*   units         [id, at, from, to, themes, bugfix, issues, prs], a      *)
(*                 share being a number of Whole                           *)
(*   attributions  [item, repo, team, name, primary, at]                   *)
(*   transitions   [item, repo, from, to, at, event]                       *)
(*   items         [item, repo, provider, project, boardProject]           *)
(*   events        [org, kind, id, at, started, deployed, ended, merged,   *)
(*                 state, severity, deleted]: the version of time at of a  *)
(*                 run, deployment, incident, pull request, review or work *)
(*                 item; 0 for a NULL time                                 *)
(*   forecasts     [id, team, scope, at, backlog, values, counts] of       *)
(*                 capacity_forecasts, team and scope Null when they are   *)
(*   repo_daily    [table, repo, day, at, value]: the latest-day tables of *)
(*                 repositories                                            *)
(*   backfills     [provider, at, job, chunk, status] of backfill_log      *)
(*   sizes         [unit, at, size] of work_unit_issue_size                *)
(***************************************************************************)
EXTENDS Ownership

CONSTANTS
    Org,
    Worlds,   \* the settings checked: the rows that may be written, and what is asked
    Rank      \* the collation of the strings a read orders by

Final == {"projects", "tpo", "tro", "links", "repos", "items", "events"}  \* read with FINAL
Tables == Final \cup {"daily", "coverage", "units", "attributions", "repo_versions", "transitions",
                      "forecasts", "repo_daily", "backfills", "sizes"}

ASSUME TablesAssumption ==
    \A u \in Worlds :
       /\ u.limit \in Nat \ {0} /\ u.maxNow \in Nat
       /\ DOMAIN u.rows \subseteq Tables /\ \A t \in DOMAIN u.rows : IsFiniteSet(u.rows[t])

VARIABLES
    world,  \* the setting of this behaviour, which never changes
    db,     \* the rows of each table
    now

tableVars == <<world, db, now>>

daily == db.daily
coverage == db.coverage
projects == db.projects
tpo == db.tpo
units == db.units
attributions == db.attributions
tro == db.tro
links == db.links
repos == db.repos
repo_versions == db.repo_versions
transitions == db.transitions
items == db.items
events == db.events
forecasts == db.forecasts
repo_daily == db.repo_daily
backfills == db.backfills
sizes == db.sizes

RowsOf(t) == IF t \in DOMAIN world.rows THEN world.rows[t] ELSE {}
Requested == world.requested  \* the project subjects asked for: <<provider, id>>
Bounds == world.bounds        \* the time bounds of the reads checked
RowLimit == world.limit       \* DefaultRowLimit

-----------------------------------------------------------------------------

TablesInit == world \in Worlds /\ db = [t \in Tables |-> {}] /\ now = 0

\* Two rows of one sorting key.
SameKey(t, r, q) ==
    CASE t = "daily" -> r.team = q.team /\ r.repo = q.repo /\ r.day = q.day
      [] t = "projects" -> r.org = q.org /\ r.provider = q.provider /\ r.id = q.id
      [] t = "tpo" -> r.org = q.org /\ r.provider = q.provider /\ r.project_id = q.project_id
                      /\ r.team = q.team /\ r.from = q.from
      [] t = "tro" -> r.org = q.org /\ r.repo = q.repo /\ r.team = q.team /\ r.from = q.from
      [] t = "links" -> r.org = q.org /\ r.repo = q.repo /\ r.item = q.item /\ r.pr = q.pr
      [] t = "repos" -> r.org = q.org /\ r.id = q.id
      [] t = "repo_versions" -> r.id = q.id
      [] t = "items" -> r.item = q.item /\ r.repo = q.repo
      [] t = "events" -> r.org = q.org /\ r.kind = q.kind /\ r.id = q.id
      [] OTHER -> r = q

\* A sync records a version that has come about, and FINAL prefers the newest.
Recorded(t, r) == t = "events" => r.at <= now /\ ~\E q \in db[t] : SameKey(t, q, r) /\ q.at > r.at

\* A job writes a row; of the tables read with FINAL only the last row of a
\* key is ever seen.
Write(t, r) ==
    /\ r \notin db[t]
    /\ Recorded(t, r)
    /\ db' = [db EXCEPT ![t] = (IF t \in Final THEN {q \in @ : ~SameKey(t, q, r)} ELSE @) \cup {r}]
    /\ UNCHANGED <<world, now>>

\* A background merge drops a version a newer one of its key replaces, in the
\* tables read without FINAL.
Merge(t, r) ==
    /\ r \in db[t]
    /\ \E q \in db[t] : SameKey(t, q, r) /\ q.at > r.at
    /\ db' = [db EXCEPT ![t] = @ \ {r}]
    /\ UNCHANGED <<world, now>>

Tick == now < world.maxNow /\ now' = now + 1 /\ UNCHANGED <<world, db>>

TablesNext ==
    \/ \E t \in Tables : \E r \in RowsOf(t) : Write(t, r)
    \/ \E t \in {"daily", "repo_versions"} : \E r \in RowsOf(t) : Merge(t, r)
    \/ Tick

TablesSpec == TablesInit /\ [][TablesNext]_tableVars

\* Types; a table read with FINAL shows one row for each key.
TablesTypeOK ==
    /\ now \in 0..world.maxNow
    /\ \A t \in Tables : db[t] \subseteq RowsOf(t)
    /\ \A t \in Final : \A r, q \in db[t] : SameKey(t, r, q) => r = q
===============================================================================
