CONSTANTS
    Org = "o1"
    Worlds <- MCWorlds
    Rank <- MCRank
    Teams <- MCTeams
    Themes <- MCThemes
    Whole = 2
    slug <- MCSlug
    valid <- MCValid
    owner <- MCOwner
    CompletionDayBinLimit = 1
SPECIFICATION TablesSpec
INVARIANTS
    ProjectRowsOnce CountsForOneTeam ProjectUnitOnce
    RestrictionsOnlyNarrow PathsExact
    AsOfAnswersExact 
 
CHECK_DEADLOCK FALSE
