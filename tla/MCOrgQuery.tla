------------------------------ MODULE MCOrgQuery ------------------------------
(* Options, calls and their inputs for TLC.                                *)
EXTENDS OrgQuery

B(name, value) == [name |-> name, value |-> value]
NoSettings == [max_result_rows |-> 0, max_rows_to_read |-> 0]
In(given, statement, ids, extra) ==
    [client |-> given, statement |-> statement, settings |-> NoSettings, ids |-> ids, extra |-> extra]
Plain == In(TRUE, "select", "strings", <<B("time_end", "time")>>)

MCInputs ==
    {Plain, [Plain EXCEPT !.settings["max_result_rows"] = 1], [Plain EXCEPT !.settings["max_rows_to_read"] = 1],
     In(FALSE, "select", "strings", <<>>), In(TRUE, "other", "strings", <<>>),
     In(TRUE, "select", "backslash", <<B("pairs", "slice")>>),
     In(TRUE, "select", "strings", <<B("pairs", "slice")>>),
     In(TRUE, "select", "strings", <<B("ids", "strings")>>),
     In(TRUE, "select", "strings", <<B("malformed", "int")>>),
     In(TRUE, "select", "strings", <<B("flag", "other")>>)}

DSN == [scheme |-> "clickhouse", settings |-> {}, tls |-> "none", maxOpenConns |-> 0]
Default == [dsn |-> DSN, tls |-> "none", queryTimeout |-> 0, maxExecutionTime |-> 0, maxOpenConns |-> 0,
            maxResultRows |-> Unset, maxBytesToRead |-> Unset]

\* The defaults; a limit past the longest duration and one past the largest
\* int64; ceilings lifted and lowered; two connections; options that are refused.
MCOptions ==
    {Default,
     [Default EXCEPT !.maxExecutionTime = 4],
     [Default EXCEPT !.maxExecutionTime = 9, !.dsn.maxOpenConns = 2],
     [Default EXCEPT !.queryTimeout = 1, !.maxBytesToRead = 0, !.maxResultRows = 0],
     [Default EXCEPT !.maxResultRows = 1, !.dsn.tls = "skip", !.tls = "verify"],
     [Default EXCEPT !.dsn.tls = "skip"],
     [Default EXCEPT !.dsn.scheme = "http", !.tls = "verify"],
     [Default EXCEPT !.dsn.settings = {"readonly"}]}
===============================================================================
