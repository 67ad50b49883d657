------------------------------- MODULE RowOrder -------------------------------
(* ORDER BY and LIMIT of the statements of readers/ (readers/query.go).    *)
EXTENDS Integers, SequencesExt

\* ORDER BY and LIMIT: of a set of pairs of a sort key, a tuple of numbers,
\* and a row, the first limit rows.
FirstRows(keyed, limit) ==
    LET Before(x, y) == \E i \in DOMAIN x[1] :
            x[1][i] < y[1][i] /\ \A j \in 1..(i - 1) : x[1][j] = y[1][j]
        all == SetToSortSeq(keyed, Before)
    IN [i \in 1..(IF Len(all) < limit THEN Len(all) ELSE limit) |-> all[i][2]]

\* The same for a sort key of strings, which are compared by rank.
WithRowLimit(keyed, rank, limit) ==
    FirstRows({<<[i \in DOMAIN x[1] |-> rank[x[1][i]]], x[2]>> : x \in keyed}, limit)

\* The order leaves no two rows tied, so the limit always cuts the same ones.
Total(keyed) == \A x, y \in keyed : x[1] = y[1] => x = y
===============================================================================
