-------------------------------- MODULE Readers --------------------------------
(***************************************************************************)
(* All the readers over the same tables, and what is so of every one of    *)
(* them while the jobs go on writing.                                      *)
(***************************************************************************)
EXTENDS LatestReads, ThemeMix, WorkItemScope, EventReads

\* Late, replaced and out-of-window rows are harmless to every read that picks
\* a latest row: answers from the daily tables, the forecasts, the backfill
\* log and the mixes move forward only, a background merge never shows, and a
\* bounded answer does not depend on what lies past its bound.
AnswersMoveForward == [][DailyAnswersMoveForward /\ LatestMovesForward /\ LateRowsHarmless]_tableVars
================================================================================
