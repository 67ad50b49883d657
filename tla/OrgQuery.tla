------------------------------- MODULE OrgQuery -------------------------------
(***************************************************************************)
(* The one funnel of every reader: readers.QueryOrgScopedNamed over        *)
(* clickhouse.Client.Query, its managed rows, the query timeout and the    *)
(* telemetry hook.                                                         *)
(*                                                                         *)
(* Several calls share a client and its driver's pool of connections.  The *)
(* server may answer, fail before or between rows, or never say anything   *)
(* again; the caller may cancel and the query timeout may fire between any *)
(* two steps.                                                              *)
(***************************************************************************)
EXTENDS ClientOptions, Sequences, FiniteSets

CONSTANTS
    Call,     \* concurrent calls
    Options,  \* what the client may be opened with
    Inputs,   \* what a call may be given: [client, statement, settings, ids, extra]
    MaxRows   \* rows a statement may select

ASSUME QueryAssumption ==
    /\ IsFiniteSet(Call) /\ MaxRows \in Nat
    /\ \A o \in Options : {o.maxOpenConns, o.dsn.maxOpenConns} \subseteq Int
    /\ \A in \in Inputs : in.settings \in [{"max_result_rows", "max_rows_to_read"} -> Nat]

VARIABLES
    options,   \* what the client was opened with
    client,    \* the client, NoClient when it was refused
    pc,        \* where each call is
    input,     \* what it was given
    ctx,       \* its query context: "live", "canceled" or "expired"
    timer,     \* the timer of that context: "none", "armed" or "stopped"
    left,      \* rows the server still has for it
    cut,       \* history: rows its statement selects that the server does not send
    got,       \* rows scanned
    err,       \* its error, outermost first; <<>> is nil
    conns,     \* calls that hold a connection
    finished,  \* what the telemetry hook was told, one class for each finish
    caller     \* calls whose own context the caller canceled

opened == <<options, client>>
vars == <<opened, pc, input, ctx, timer, left, cut, got, err, conns, finished, caller>>

-----------------------------------------------------------------------------
(* Statements, bindings and errors.                                        *)

Sentinels == {"ErrQueryClientRequired", "ErrUnsafeStatement", "ErrInvalidBinding",
              "ErrUnsupportedBinding", "ErrUnsafeBindingValue"}
Faults == {"budget", "exception"}  \* the server's: over its read budget, or any other
Ends == {"context.Canceled", "context.DeadlineExceeded"}
Errors == Sentinels \cup Faults \cup Ends \cup {"scan"}

\* errors.Is and errors.As look through every wrapper.
Is(e, cause) == \E i \in DOMAIN e : e[i] = cause

\* An operationError without Unwrap.
operationErrorOpaque(cause) == <<"operationError">>

\* operationError, whose Unwrap keeps the cause reachable.
operationError(cause) == <<"operationError", cause>>

\* A statement is one SELECT with no external table function and no output clause.
validateReadOnlyStatement(statement) ==
    IF statement = "select" THEN <<>> ELSE <<"ErrUnsafeStatement">>

\* A value is its kind; a []string is "strings", or "backslash" when an
\* element holds one.
clickHouseParameter(value) ==
    CASE value \in {"nil", "time", "strings", "string", "uint", "int"} -> <<>>
      [] value = "backslash" -> <<"wrapped", "ErrUnsafeBindingValue">>
      [] value = "slice" -> <<"wrapped", "ErrUnsupportedBinding">>
      [] OTHER -> <<"wrapped", "ErrInvalidBinding">>

\* The first binding that is badly named, repeated or unusable decides.
translateBindings(bindings) ==
    LET Bad(i) == IF bindings[i].name = "malformed" \/ \E j \in 1..(i - 1) : bindings[j].name = bindings[i].name
                  THEN <<"wrapped", "ErrInvalidBinding">>
                  ELSE clickHouseParameter(bindings[i].value)
        bad == {i \in DOMAIN bindings : Bad(i) # <<>>}
    IN IF bad = {} THEN <<>> ELSE Bad(CHOOSE i \in bad : \A j \in bad : i <= j)

\* An unknown error exported by its own text.
safeErrorClassRaw(e) ==
    CASE e = <<>> -> ""
      [] Is(e, "context.DeadlineExceeded") -> "context_deadline_exceeded"
      [] OTHER -> e[Len(e)]

\* The closed vocabulary the telemetry adapters export.
safeErrorClass(e) ==
    CASE e = <<>> -> ""
      [] Is(e, "ErrQueryClientRequired") -> "client_required"
      [] Is(e, "context.Canceled") -> "context_canceled"
      [] Is(e, "context.DeadlineExceeded") -> "context_deadline_exceeded"
      [] Is(e, "ErrUnsupportedBinding") -> "unsupported_binding"
      [] Is(e, "ErrUnsafeBindingValue") -> "unsafe_binding_value"
      [] Is(e, "ErrInvalidBinding") -> "invalid_binding"
      [] OTHER -> "query_error"

Classes == {"", "client_required", "context_canceled", "context_deadline_exceeded", "unsupported_binding",
            "unsafe_binding_value", "invalid_binding", "query_error"}

\* IsQueryBudgetExceeded: a failure that an identical retry repeats.
IsQueryBudgetExceeded(e) == Is(e, "budget")

-----------------------------------------------------------------------------
(* A call.                                                                 *)

Init ==
    /\ options \in Options
    /\ client = NewClickHouseQueryClientWithOptions(options)
    /\ pc = [c \in Call |-> "idle"]
    /\ input \in [Call -> {in \in Inputs : in.client => client # NoClient}]
    /\ ctx = [c \in Call |-> "live"]
    /\ timer = [c \in Call |-> "none"]
    /\ left = [c \in Call |-> 0]
    /\ cut = [c \in Call |-> 0]
    /\ got = [c \in Call |-> 0]
    /\ err = [c \in Call |-> <<>>]
    /\ conns = {}
    /\ finished = [c \in Call |-> <<>>]
    /\ caller = {}

\* The deferred finish: the hook hears of the error the call returns.
finish(c, e) ==
    /\ finished' = [finished EXCEPT ![c] = Append(@, safeErrorClass(e))]
    /\ err' = [err EXCEPT ![c] = e]
    /\ pc' = [pc EXCEPT ![c] = "done"]

\* A client with a query timeout queries under a context of its own, and
\* returns managed rows that end it.
Managed == client.queryTimeout > 0

\* The context's CancelFunc: ends a live context and stops its timer.
cancel(c) ==
    IF Managed
    THEN /\ ctx' = [ctx EXCEPT ![c] = IF @ = "live" THEN "canceled" ELSE @]
         /\ timer' = [timer EXCEPT ![c] = "stopped"]
    ELSE UNCHANGED <<ctx, timer>>

ctxErr(c) == IF ctx[c] = "expired" THEN "context.DeadlineExceeded" ELSE "context.Canceled"
Ended(c) == ctx[c] # "live"

\* A query sent under the caller's context alone.
StartUntimed(c) ==
    /\ pc[c] = "idle"
    /\ pc' = [pc EXCEPT ![c] = "query"]
    /\ UNCHANGED <<opened, input, ctx, timer, left, cut, got, err, conns, finished, caller>>

\* QueryOrgScopedNamed up to the driver: a nil client, an unsafe statement
\* and a bad binding return before anything is sent.
Start(c) ==
    LET bindings == <<[name |-> "org_id", value |-> "string"], [name |-> "ids", value |-> input[c].ids]>>
                        \o input[c].extra
        refused == IF ~input[c].client THEN <<"ErrQueryClientRequired">>
                   ELSE IF validateReadOnlyStatement(input[c].statement) # <<>>
                        THEN validateReadOnlyStatement(input[c].statement)
                        ELSE translateBindings(bindings)
    IN /\ pc[c] = "idle"
       /\ IF refused # <<>>
          THEN finish(c, refused) /\ UNCHANGED timer
          ELSE /\ pc' = [pc EXCEPT ![c] = "query"]
               /\ timer' = [timer EXCEPT ![c] = IF Managed THEN "armed" ELSE @]
               /\ UNCHANGED <<err, finished>>
       /\ UNCHANGED <<opened, input, ctx, left, cut, got, conns, caller>>

\* The ceiling the server applies to a call's query.
Ceiling(c, name, connection) == InForce(name, Render(input[c].settings), connection)

\* How the server may fail a call's query: over a read ceiling in force, or
\* for any other reason.
ServerFaults(c) ==
    {"exception"} \cup
        IF \/ Ceiling(c, "max_bytes_to_read", client.connection.maxBytesToRead).limit # 0
           \/ Ceiling(c, "max_rows_to_read", 0).limit # 0
        THEN {"budget"} ELSE {}

\* The driver takes a connection and the server starts to answer.
QueryOpens(c) ==
    /\ pc[c] = "query" /\ ~Ended(c) /\ Cardinality(conns) < client.connection.maxOpenConns
    /\ \E n \in 0..MaxRows : \E sent \in Sent(n, Ceiling(c, "max_result_rows", client.connection.maxResultRows)) :
          /\ left' = [left EXCEPT ![c] = sent]
          /\ cut' = [cut EXCEPT ![c] = n - sent]
    /\ conns' = conns \cup {c}
    /\ pc' = [pc EXCEPT ![c] = "rows"]
    /\ UNCHANGED <<opened, input, ctx, timer, got, err, finished, caller>>

\* The query fails: by the server, or because its context ended while it
\* waited for a connection or for the server.  Query cancels and returns.
QueryFails(c) ==
    /\ pc[c] = "query"
    /\ \E cause \in IF Ended(c) THEN {ctxErr(c)} ELSE ServerFaults(c) : finish(c, operationError(cause))
    /\ cancel(c)
    /\ UNCHANGED <<opened, input, left, cut, got, conns, caller>>

\* rows.Next finds a row.
NextRow(c) ==
    /\ pc[c] = "rows" /\ left[c] > 0
    /\ left' = [left EXCEPT ![c] = @ - 1]
    /\ pc' = [pc EXCEPT ![c] = "scan"]
    /\ UNCHANGED <<opened, input, ctx, timer, got, err, conns, finished, caller, cut>>

\* Err asked of the context after the cancel, not kept from Next.
rowsErrAfterCancel(c, why) ==
    /\ why = "end" => left[c] = 0
    /\ why = "ctx" => Ended(c)
    /\ err' = [err EXCEPT ![c] = operationError(ctxErr(c))]

\* The loop's end taken for the end of the answer.
rowsErrDropped(c, why) ==
    /\ why = "end" => left[c] = 0
    /\ why = "ctx" => Ended(c)
    /\ err' = [err EXCEPT ![c] = <<>>]

\* The error behind a false Next, which the driver keeps for Err: none at the
\* end of the answer, the server's, or the context's.
rowsErr(c, why) ==
    LET Err(cause) == IF Managed THEN operationError(cause) ELSE <<cause>>
    IN CASE why = "end" -> left[c] = 0 /\ err' = [err EXCEPT ![c] = <<>>]
         [] why = "ctx" -> Ended(c) /\ err' = [err EXCEPT ![c] = Err(ctxErr(c))]
         [] OTHER -> err' = [err EXCEPT ![c] = Err(why)]

\* managedRows.Next returns false: it cancels, and the loop ends with Err.
NextEnds(c) ==
    /\ pc[c] = "rows"
    /\ \E why \in {"end", "ctx"} \cup ServerFaults(c) : rowsErr(c, why)
    /\ cancel(c)
    /\ pc' = [pc EXCEPT ![c] = "close"]
    /\ UNCHANGED <<opened, input, left, cut, got, conns, finished, caller>>

\* The reader's scan of one row; its error ends the loop.
Scan(c) ==
    /\ pc[c] = "scan"
    /\ \/ /\ got' = [got EXCEPT ![c] = @ + 1]
          /\ pc' = [pc EXCEPT ![c] = "rows"]
          /\ UNCHANGED err
       \/ /\ err' = [err EXCEPT ![c] = <<"scan">>]
          /\ pc' = [pc EXCEPT ![c] = "close"]
          /\ UNCHANGED got
    /\ UNCHANGED <<opened, input, ctx, timer, left, cut, conns, finished, caller>>

\* A return that skips the deferred Close when a scan failed.
CloseUnlessFailed(c) ==
    /\ pc[c] = "close" /\ (Ended(c) \/ left[c] = 0 \/ Is(err[c], "scan"))
    /\ IF Is(err[c], "scan") THEN UNCHANGED <<conns, ctx, timer>> ELSE conns' = conns \ {c} /\ cancel(c)
    /\ finish(c, err[c])
    /\ UNCHANGED <<opened, input, left, cut, got, caller>>

\* The deferred rows.Close, then the deferred finish.  The driver's Close
\* waits until the server has ended the answer or the context has ended;
\* only then does managedRows cancel.
Close(c) ==
    /\ pc[c] = "close" /\ (Ended(c) \/ left[c] = 0)
    /\ conns' = conns \ {c}
    /\ cancel(c)
    /\ finish(c, err[c])
    /\ UNCHANGED <<opened, input, left, cut, got, caller>>

\* The server sends rows nobody scans while Close waits.
Drain(c) ==
    /\ pc[c] = "close" /\ left[c] > 0
    /\ left' = [left EXCEPT ![c] = @ - 1]
    /\ UNCHANGED <<pc, opened, input, ctx, timer, got, err, conns, finished, caller, cut>>

\* The query timeout fires.
Expire(c) ==
    /\ timer[c] = "armed"
    /\ timer' = [timer EXCEPT ![c] = "stopped"]
    /\ ctx' = [ctx EXCEPT ![c] = IF @ = "live" THEN "expired" ELSE @]
    /\ UNCHANGED <<pc, opened, input, left, cut, got, err, conns, finished, caller>>

\* The caller gives up.
CallerCancels(c) ==
    /\ pc[c] \notin {"idle", "done"} /\ ctx[c] = "live"
    /\ ctx' = [ctx EXCEPT ![c] = "canceled"]
    /\ caller' = caller \cup {c}
    /\ UNCHANGED <<pc, opened, input, timer, left, cut, got, err, conns, finished>>

Step(c) ==
    \/ Start(c) \/ QueryOpens(c) \/ QueryFails(c) \/ NextRow(c) \/ NextEnds(c) \/ Scan(c) \/ Close(c)
    \/ Drain(c) \/ Expire(c) \/ CallerCancels(c)

Next == \E c \in Call : Step(c)

\* The runtime runs the call's own code and fires its timer, and the driver
\* gives up once the context has ended.  Nothing is assumed of the server.
Fairness ==
    \A c \in Call :
        /\ WF_vars(Start(c)) /\ WF_vars(Scan(c)) /\ WF_vars(Close(c)) /\ WF_vars(Expire(c))
        /\ WF_vars(Ended(c) /\ QueryFails(c))
        /\ WF_vars(Ended(c) /\ NextEnds(c))

Spec == Init /\ [][Next]_vars /\ Fairness

-----------------------------------------------------------------------------
(* Properties.                                                             *)

\* Types; what the hook hears is of the closed vocabulary.
TypeOK ==
    /\ pc \in [Call -> {"idle", "query", "rows", "scan", "close", "done"}]
    /\ ctx \in [Call -> {"live", "canceled", "expired"}]
    /\ timer \in [Call -> {"none", "armed", "stopped"}]
    /\ left \in [Call -> 0..MaxRows] /\ cut \in [Call -> 0..MaxRows] /\ got \in [Call -> 0..MaxRows]
    /\ \A c \in Call : \A i \in DOMAIN finished[c] : finished[c][i] \in Classes
    /\ conns \subseteq Call /\ Cardinality(conns) <= client.connection.maxOpenConns
    /\ caller \subseteq Call

\* A call that has returned, by any path, holds no connection of the pool and
\* no running timer (managedRows.Close and the cancel of a failed Query); and
\* if it returns no error it has scanned every row its statement selects: no
\* failure between rows is taken for the end of the answer (rows.Err after the
\* loop of QueryOrgScopedNamed), and no ceiling cuts it short unsaid ("never
\* the server's default 'break'").  The state keeps its types.
ReturnsReleasedAndWhole ==
    /\ TypeOK
    /\ \A c \in Call : pc[c] = "done" =>
        /\ c \notin conns /\ timer[c] # "armed"
        /\ err[c] = <<>> => left[c] = 0 /\ cut[c] = 0

\* The telemetry hook hears of every call once, and a class that blames a
\* context names the one that ended: "canceled" only when the caller canceled
\* (never for the client's own cancel after the last row), "deadline" only
\* when the query timeout fired; a binding class only for a call that sent
\* nothing.  The cause of a failed query stays reachable behind the client's
\* wrapper, so a retry can be refused for a query over its budget; and no
\* query is over its budget whose options lift the ceiling (a pointer to 0).
ClassTellsTheCause ==
    \A c \in Call :
        /\ Len(finished[c]) = IF pc[c] = "done" THEN 1 ELSE 0
        /\ pc[c] = "done" =>
             LET class == finished[c][1] IN
             /\ (class = "") = (err[c] = <<>>)
             /\ class = "context_canceled" => c \in caller
             /\ class = "context_deadline_exceeded" => ctx[c] = "expired"
             /\ class \in {"client_required", "unsupported_binding", "unsafe_binding_value", "invalid_binding"} =>
                    timer[c] = "none"
             /\ ctx[c] = "expired" /\ class = "query_error" => \E f \in Faults \cup {"scan"} : Is(err[c], f)
             /\ Is(err[c], "operationError") =>
                    IsQueryBudgetExceeded(err[c]) \/ Is(err[c], "exception") \/ \E e \in Ends : Is(err[c], e)
             /\ IsQueryBudgetExceeded(err[c]) =>
                    options.maxBytesToRead # 0 \/ input[c].settings["max_rows_to_read"] # 0

\* Every call returns, whatever the server does and however many calls wait
\* for the pool: the query timeout ends each wait, and no options leave a
\* client without one.
CallsReturn == \A c \in Call : <>(pc[c] = "done")
===============================================================================
