------------------------------- MODULE ThemeMix -------------------------------
(***************************************************************************)
(* readers/investment_theme.go and investment_project_theme.go: the theme  *)
(* mix of teams, by a majority vote over each work unit's evidence, and of *)
(* projects, through the membership view of schema/schema.go; and          *)
(* investment_issue_size.go: what a unit weighs by its issue size.         *)
(*                                                                         *)
(* A work item id is a tuple, so that the id a pull request resolves to    *)
(* can be put together; <<>> is the empty id.                              *)
(***************************************************************************)
EXTENDS ReaderTables, RowOrder, FiniteSetsExt, SequencesExt

CONSTANTS
    Teams,   \* the teams asked for
    Themes,  \* the canonical themes
    Whole    \* what the theme shares of a unit add up to

ASSUME MixAssumption ==
    \A u \in {w \in Worlds : "units" \in DOMAIN w.rows} : \A v \in u.rows.units :
        DOMAIN v.themes \subseteq Themes /\ MapThenSumSet(LAMBDA k : v.themes[k], DOMAIN v.themes) = Whole

-----------------------------------------------------------------------------
(* Work units.                                                             *)

\* TimeBound.rangePredicate: the unit's own range overlaps the window.
rangePredicate(bound, v) ==
    ~bound.active \/ (v.from < bound.end /\ (bound.start # 0 => v.to >= bound.start))

\* The newest version among those in the window.
windowedFirst(bound) ==
    LET in == {v \in units : rangePredicate(bound, v)}
    IN {v \in in : ~\E w \in in : w.id = v.id /\ w.at > v.at}

\* The CTEs latest and windowed: the newest version of each unit, if it is in
\* the window.
windowed(bound) ==
    {v \in units : rangePredicate(bound, v) /\ ~\E w \in units : w.id = v.id /\ w.at > v.at}

-----------------------------------------------------------------------------
(* The team mix.                                                           *)

\* FINAL on work_item_team_attributions keeps the newest row of a key; of
\* those the primary ones of the item's latest computation.
wita ==
    LET final == {a \in attributions : ~\E b \in attributions :
                    b.item = a.item /\ b.repo = a.repo /\ b.team = a.team /\ b.at > a.at}
    IN {a \in final : a.primary /\ ~\E b \in attributions : b.item = a.item /\ b.at > a.at}

\* The work item a pull request reference names: none unless its repository
\* has a name and one provider.
resolvedPr(ref) ==
    LET rows == {r \in repo_versions : r.id = ref.repo}
        newest == CHOOSE r \in rows : \A q \in rows : q.at <= r.at
    IN IF rows = {} \/ Cardinality({r.provider : r \in rows}) # 1 \/ newest.repo = "" THEN <<>>
       ELSE <<IF newest.provider = "gitlab" THEN "gitlab" ELSE "ghpr", newest.repo, ref.number>>

resolved(v) == v.issues \cup {resolvedPr(ref) : ref \in v.prs}

label(a) == IF a.name # "" THEN a.name ELSE a.team

\* The votes of a unit for a team: distinct items with a labelled attribution.
votesFor(v, team) ==
    Cardinality({i \in resolved(v) : \E a \in wita : a.item = i /\ a.team = team /\ label(a) # ""})

\* The teams a unit's evidence votes for; "" stands for evidence that reaches
\* no team.
candidateTeams(v) ==
    {a.team : a \in {b \in wita : b.item \in resolved(v)}}
    \cup (IF \E i \in resolved(v) : \A a \in wita : a.item # i THEN {""} ELSE {})

\* Every team with a vote.
winnersAll(v, teams) == {t \in teams : votesFor(v, t) > 0}

\* The most votes win, then the largest id.
winners(v, teams) ==
    {t \in teams : \A u \in teams \ {t} :
        votesFor(v, t) > votesFor(v, u) \/ (votesFor(v, t) = votesFor(v, u) /\ Rank[t] > Rank[u])}

\* The vote held among the teams asked for.
attributedAmong(team, ids, bound) ==
    {v \in windowed(bound) : team \in ids \cap winners(v, candidateTeams(v) \cap ids)}

\* The CTEs votes and attributed: the units of a team that was asked for.
attributed(team, ids, bound) ==
    IF team = "" \/ team \notin ids THEN {}
    ELSE {v \in windowed(bound) : team \in winners(v, candidateTeams(v))}

\* ReadTeamThemeMix: one row for each team and theme, one for its bugfix share.
ReadTeamThemeMix(ids, bound) ==
    LET Of(t) == attributed(t, ids, bound)
        Share(v, k) == IF k \in DOMAIN v.themes THEN v.themes[k] ELSE 0
        themes == {[team |-> t, kind |-> "theme", key |-> k, units |-> MapThenSumSet(LAMBDA v : Share(v, k), Of(t))] :
                    <<t, k>> \in {m \in ids \X Themes :
                                    \E v \in Of(m[1]) : m[2] \in DOMAIN v.themes}}
        bugfix == {[team |-> t, kind |-> "subcategory", key |-> "quality.bugfix",
                    units |-> MapThenSumSet(LAMBDA v : v.bugfix, Of(t))] : t \in {u \in ids : Of(u) # {}}}
    IN IF ids = {} THEN <<>>
       ELSE WithRowLimit({<<<<r.team, r.kind, r.key>>, r>> : r \in themes \cup bugfix}, Rank, RowLimit)

-----------------------------------------------------------------------------
(* Project membership.                                                     *)

\* Only the project a transition enters.
touchedTo(t) == {t.to} \ {""}

\* The projects a transition touches.
touched(t) == {t.to, t.from} \ {""}

After(t, u) == t.at > u.at \/ (t.at = u.at /\ Rank[t.event] > Rank[u.event])

\* ProjectMembershipPresenceViewDDL: an item is in a project when the latest
\* transition that touches both entered it; an item without transitions is in
\* the project of its own column.
project_membership_presence ==
    LET Latest(t, p) == p \in touched(t) /\ ~\E u \in transitions :
                            u.item = t.item /\ u.repo = t.repo /\ p \in touched(u) /\ After(u, t)
        moved == {[item |-> t.item, repo |-> t.repo, project |-> t.to] : t \in {u \in transitions : u.to # "" /\ Latest(u, u.to)}}
        settled == {w \in items : /\ w.project # "" /\ w.provider # "gitlab"
                                  /\ w.provider # "github" \/ w.boardProject
                                  /\ ~\E t \in transitions : t.item = w.item /\ t.repo = w.repo}
    IN moved \cup {[item |-> w.item, repo |-> w.repo, project |-> w.project] : w \in settled}

-----------------------------------------------------------------------------
(* The project mix.                                                        *)

\* item_project.multi_placed: the item is placed under several repositories.
multiPlaced(item) == Cardinality({m.repo : m \in {x \in project_membership_presence : x.item = item}}) > 1

\* One row for each identity value a unit reaches a project by.
resolvedProjectsByValue(bound) ==
    {[provider |-> p.provider, id |-> p.id, unit |-> v, multi |-> multiPlaced(m.item), scope |-> p.scope] :
        <<v, m, p>> \in {x \in windowed(bound) \X project_membership_presence \X ProjectIdentityCatalog(projects, Org) :
                            x[2].item \in x[1].issues /\ x[3].scope = x[2].project}}

\* The CTE resolved: one row for each project and unit.
resolvedProjects(bound) ==
    LET reach == {x \in windowed(bound) \X project_membership_presence \X ProjectIdentityCatalog(projects, Org) :
                    x[2].item \in x[1].issues /\ x[3].scope = x[2].project}
        Multi(v, p) == \E x \in reach : x[1] = v /\ x[3].provider = p.provider /\ x[3].id = p.id /\ multiPlaced(x[2].item)
    IN {[provider |-> x[3].provider, id |-> x[3].id, unit |-> x[1], multi |-> Multi(x[1], x[3])] : x \in reach}

\* The span of a unit over the projects asked for.
unit_spanAsked(all, v) ==
    Cardinality({<<r.provider, r.id>> : r \in {x \in all : x.unit = v /\ <<x.provider, x.id>> \in Requested}})

\* How many projects of the organization a unit is attributed to.
unit_span(all, v) == Cardinality({<<r.provider, r.id>> : r \in {x \in all : x.unit = v}})

\* ReadProjectThemeMix: a row for each project asked for that has a unit.
ReadProjectThemeMix(ids, bound) ==
    LET all == resolvedProjects(bound)
        Of(k) == {r \in all : <<r.provider, r.id>> = k}
        Share(r, theme) == IF theme \in DOMAIN r.unit.themes THEN r.unit.themes[theme] ELSE 0
        Row(k) == [project |-> k,
                   themes |-> [theme \in Themes |-> MapThenSumSet(LAMBDA r : Share(r, theme), Of(k))],
                   bugfix |-> MapThenSumSet(LAMBDA r : r.unit.bugfix, Of(k)),
                   units |-> Cardinality(Of(k)),
                   spanning |-> Cardinality({r \in Of(k) : unit_span(all, r.unit) > 1}),
                   multi |-> Cardinality({r \in Of(k) : r.multi})]
    IN WithRowLimit({<<k, Row(k)>> : k \in {x \in ids : Of(x) # {}}}, Rank, RowLimit)

-----------------------------------------------------------------------------
(* Issue sizes, over the units of a read.                                  *)

\* Any size the unit was ever given.
LatestWorkUnitIssueSizeMax(unit) == Max({0} \cup {s.size : s \in {x \in sizes : x.unit = unit}})

\* LatestWorkUnitIssueSizeSource: the newest size, 0 without a row.
LatestWorkUnitIssueSize(unit) ==
    LET mine == {s \in sizes : s.unit = unit}
    IN IF mine = {} THEN 0 ELSE (CHOOSE s \in mine : \A q \in mine : q.at <= s.at).size

\* A weight that drops a unit without a size.
UnitSizeWeightZero(unit) == LatestWorkUnitIssueSize(unit)

\* A unit without a size weighs 1; UnitIssueSizeExpr is 0 for it.
UnitSizeWeight(unit) == IF LatestWorkUnitIssueSize(unit) > 0 THEN LatestWorkUnitIssueSize(unit) ELSE 1

SizingCoverage(bound) ==
    [SizedUnits |-> Cardinality({v \in windowed(bound) : LatestWorkUnitIssueSize(v.id) > 0}),
     Units |-> Cardinality(windowed(bound))]
Unsized(c) == IF c.Units > 0 THEN c.Units - c.SizedUnits ELSE 0

\* A note for a half-sized read too.
MostlyUnsizedAtHalf(c) == ~(2 * c.SizedUnits > c.Units)

\* Whether Note says that the mix is mostly unsized.
MostlyUnsized(c) == ~(2 * c.SizedUnits >= c.Units)

-----------------------------------------------------------------------------
(* Properties.                                                             *)

\* A mix by issue size holds every unit: the sizes and one for each unsized
\* unit, and it is called mostly unsized exactly when those outnumber the
\* sized ones, never for a read of no unit (IssueSizedSource, SizingCoverage).
SizesAccounted(bound) ==
    LET c == SizingCoverage(bound)
        stored == {s \in sizes : s.size > 0 /\ (\A q \in sizes : q.unit = s.unit => q.at <= s.at)
                                  /\ \E v \in windowed(bound) : v.id = s.unit}
    IN /\ MapThenSumSet(LAMBDA v : UnitSizeWeight(v.id), windowed(bound)) = MapThenSumSet(LAMBDA s : s.size, stored) + Unsized(c)
       /\ MostlyUnsized(c) <=> Unsized(c) > c.SizedUnits

\* A unit whose evidence reaches a team counts whole for one team, never for
\* two and never for none (the majority vote of ReadTeamThemeMix), when every
\* attribution that has a name has a team and the row limit cuts nothing off;
\* and a team's rows do not depend on which other teams were asked for: the
\* vote is held among all teams of the organization before the ids are
\* applied.  A mix by issue size counts every unit too.
CountsForOneTeam ==
    \A bound \in Bounds : SizesAccounted(bound) /\
        LET rows == ReadTeamThemeMix(Teams, bound)
            reaching == {v \in windowed(bound) : \E a \in wita : a.item \in resolved(v) /\ a.team # ""}
        IN Len(rows) < RowLimit =>
            /\ MapThenSumSet(LAMBDA r : r.units, {r \in ToSet(rows) : r.kind = "theme"}) = Whole * Cardinality(reaching)
            /\ \A ids \in SUBSET Teams :
                ToSet(ReadTeamThemeMix(ids, bound)) = {r \in ToSet(rows) : r.team \in ids}

\* A row that arrives late, with an older computed_at than the unit or the
\* item already has, changes no mix: a unit that has moved out of a window
\* does not come back, an item does not return to a former team, and a unit
\* does not regain a former size.
LateRowsHarmless ==
    /\ \A s \in RowsOf("sizes") : Write("sizes", s) /\ (\E q \in sizes : q.unit = s.unit /\ q.at > s.at) =>
         UnitSizeWeight(s.unit)' = UnitSizeWeight(s.unit)
    /\ (\/ \E v \in RowsOf("units") : Write("units", v) /\ \E w \in units : w.id = v.id /\ w.at > v.at
        \/ \E a \in RowsOf("attributions") : Write("attributions", a) /\ \E b \in attributions : b.item = a.item /\ b.at > a.at)
       => \A bound \in Bounds :
         /\ ReadTeamThemeMix(Teams, bound)' = ReadTeamThemeMix(Teams, bound)
         /\ ReadProjectThemeMix(Requested, bound)' = ReadProjectThemeMix(Requested, bound)

\* Membership is what a replay of the item's transitions in their order
\* gives, whatever order they arrived in: each leaves one project and enters
\* another (project_membership_presence).
MembershipIsReplay ==
    \A t \in transitions :
        LET mine == {u \in transitions : u.item = t.item /\ u.repo = t.repo}
            history == SetToSortSeq(mine, LAMBDA u, w : After(w, u))
            Move(in, u) == (in \ {u.from}) \cup ({u.to} \ {""})
        IN {m.project : m \in {x \in project_membership_presence : x.item = t.item /\ x.repo = t.repo}}
            = FoldLeft(Move, {}, history)

\* A unit counts once and whole for every project that one of its items is in,
\* whether the membership names the project by its id, by its key or by both,
\* and it is disclosed as spanning exactly when it is also in another project
\* of the organization, asked for or not; and the membership is the replay of
\* the transitions (ReadProjectThemeMix).
ProjectUnitOnce ==
    /\ MembershipIsReplay
    /\ \A bound \in Bounds : \A r \in ToSet(ReadProjectThemeMix(Requested, bound)) :
        LET Names(value, p) ==
                LET sharing == {q \in projects : q.org = Org /\ q.provider = p.provider /\ q.key = p.key}
                IN value = p.id \/ (value = p.key /\ sharing = {p})
            In(v, p) == \E m \in project_membership_presence : m.item \in v.issues /\ Names(m.project, p)
            project == CHOOSE p \in OfOrg(projects, Org) : <<p.provider, p.id>> = r.project
            counted == {v \in windowed(bound) : In(v, project)}
        IN /\ r.units = Cardinality(counted)
           /\ MapThenSumSet(LAMBDA k : r.themes[k], Themes) = Whole * r.units
           /\ r.spanning = Cardinality({v \in counted : \E q \in OfOrg(projects, Org) \ {project} : In(v, q)})
===============================================================================
