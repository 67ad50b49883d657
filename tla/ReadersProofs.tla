---------------------------- MODULE ReadersProofs ----------------------------
(***************************************************************************)
(* What holds of the readers.  Part one, OrgQuery: the query funnel, for   *)
(* every set of calls, options and inputs, every pool and every number of  *)
(* rows.  Part two, WorkItemScope: the authorization relation, for every   *)
(* universe of rows, every grant, request and candidate list, and every    *)
(* order in which jobs write.                                              *)
(***************************************************************************)
EXTENDS OrgQuery, WorkItemScope, FiniteSetTheorems, TLAPS

\* Time limits of the provers, in seconds, where a step asks for no other.
USE SMTT(20), ZenonT(30)

-----------------------------------------------------------------------------
(* Part one: the query funnel (OrgQuery).                                  *)

\* The types a step needs: those of TypeOK and of the variables it leaves out.
Types ==
    /\ options \in Options /\ client.connection.maxOpenConns \in Nat
    /\ input \in [Call -> Inputs]
    /\ pc \in [Call -> {"idle", "query", "rows", "scan", "close", "done"}]
    /\ ctx \in [Call -> {"live", "canceled", "expired"}]
    /\ timer \in [Call -> {"none", "armed", "stopped"}]
    /\ left \in [Call -> Nat] /\ cut \in [Call -> {0}] /\ got \in [Call -> Nat]
    /\ DOMAIN err = Call
    /\ finished \in [Call -> Seq(Classes)]
    /\ caller \subseteq Call
    /\ conns \subseteq Call /\ Cardinality(conns) <= client.connection.maxOpenConns

\* Rows are neither lost nor made up: what is scanned, in the reader's hands
\* and still to come is no more than the statement may select.
RowsHeld(c) == got[c] + left[c] <= MaxRows /\ (pc[c] = "scan" => got[c] + left[c] < MaxRows)

\* What a call holds where it is.
Holds(c) ==
    /\ c \in conns => pc[c] \in {"rows", "scan", "close"}
    /\ pc[c] = "idle" => timer[c] = "none"
    /\ ~Managed => timer[c] = "none"
    /\ pc[c] = "done" => timer[c] # "armed"
    /\ pc[c] \in {"close", "done"} /\ err[c] = <<>> => left[c] = 0
    /\ pc[c] \in {"idle", "query"} => left[c] = 0 /\ got[c] = 0

\* The inductive invariant.
IInv == Types /\ \A c \in Call : RowsHeld(c) /\ Holds(c)

-----------------------------------------------------------------------------

\* The telemetry class of an error is always of the closed vocabulary.
LEMMA ClosedVocabulary == ASSUME NEW e PROVE safeErrorClass(e) \in Classes
BY DEF safeErrorClass, Classes

\* No error of the client is nil.
LEMMA NotNil == ASSUME NEW cause PROVE operationError(cause) # <<>> /\ <<cause>> # <<>>
BY DEF operationError

\* The pool of an opened client has a size.
LEMMA PoolSize ==
    ASSUME NEW o \in Options
    PROVE  NewClickHouseQueryClientWithOptions(o).connection.maxOpenConns \in Nat
<1>1. o.maxOpenConns \in Int /\ o.dsn.maxOpenConns \in Int
  BY QueryAssumption
<1>2. optionPositive(o.maxOpenConns, o.dsn.maxOpenConns, DefaultMaxOpenConns) \in Nat
  BY <1>1, OptionsAssumption DEF optionPositive, defaultPositive
<1>3. QED
  BY <1>2 DEF NewClickHouseQueryClientWithOptions, NoClient, applyOptions

\* Every ceiling a query is sent with throws, so what is sent is everything.
LEMMA NothingCut ==
    ASSUME NEW c \in Call, NEW name, NEW connection, NEW n \in Nat,
           NEW sent \in Sent(n, Ceiling(c, name, connection))
    PROVE  sent = n
<1>1. Ceiling(c, name, connection).mode = "throw"
  BY DEF Ceiling, InForce, Render, ServerMode
<1>2. QED
  BY <1>1 DEF Sent

\* A step of one call leaves the others as they are.
LEMMA OthersKeep ==
    ASSUME IInv, Types', NEW c \in Call, UNCHANGED opened,
           \A d \in Call \ {c} :
              /\ pc'[d] = pc[d] /\ timer'[d] = timer[d] /\ left'[d] = left[d] /\ got'[d] = got[d] /\ err'[d] = err[d]
              /\ d \in conns' => d \in conns,
           RowsHeld(c)', Holds(c)'
    PROVE  IInv'
<1>1. ASSUME NEW d \in Call \ {c} PROVE RowsHeld(d)' /\ Holds(d)'
  BY DEF IInv, RowsHeld, Holds, Managed, opened
<1>2. QED
  BY <1>1 DEF IInv

\* The end of a call, of which finish is the last thing it does.
LEMMA Finishing ==
    ASSUME IInv, NEW c \in Call, NEW e, finish(c, e), UNCHANGED <<opened, input, left, cut, got, caller>>,
           e = <<>> => left[c] = 0,
           conns' = conns \ {c},
           ctx' \in [Call -> {"live", "canceled", "expired"}],
           \/ timer' = timer /\ timer[c] = "none"
           \/ timer' = [timer EXCEPT ![c] = "stopped"] /\ Managed
    PROVE  IInv'
<1>1. /\ pc' = [pc EXCEPT ![c] = "done"] /\ err' = [err EXCEPT ![c] = e]
      /\ finished' = [finished EXCEPT ![c] = Append(@, safeErrorClass(e))]
  BY DEF finish
<1>2. conns' \subseteq Call /\ Cardinality(conns') <= client.connection.maxOpenConns
  <2>1. IsFiniteSet(conns)
    BY QueryAssumption, FS_Subset DEF IInv, Types
  <2>2. Cardinality(conns') \in Nat /\ Cardinality(conns) \in Nat /\ Cardinality(conns') <= Cardinality(conns)
    BY <2>1, FS_Subset, FS_CardinalityType
  <2>3. QED
    BY <2>2 DEF IInv, Types
<1>3. finished' \in [Call -> Seq(Classes)]
  <2>1. safeErrorClass(e) \in Classes
    BY ClosedVocabulary
  <2>2. Append(finished[c], safeErrorClass(e)) \in Seq(Classes)
    BY <2>1 DEF IInv, Types
  <2>3. QED
    BY <1>1, <2>2 DEF IInv, Types
<1>4. Types'
  BY <1>1, <1>2, <1>3, ZenonT(30) DEF IInv, Types, opened
<1>5. RowsHeld(c)'
  BY <1>1 DEF IInv, RowsHeld, Types
<1>6. Holds(c)'
  BY <1>1 DEF IInv, Holds, Types, Managed, opened
<1>7. QED
  BY <1>1, <1>4, <1>5, <1>6, OthersKeep, ZenonT(30) DEF IInv, Types

\* cancel stops the timer of a managed call, and does nothing else.
LEMMA Canceling ==
    ASSUME IInv, NEW c \in Call, cancel(c)
    PROVE  /\ ctx' \in [Call -> {"live", "canceled", "expired"}]
           /\ \/ timer' = timer /\ timer[c] = "none"
              \/ timer' = [timer EXCEPT ![c] = "stopped"] /\ Managed
BY ZenonT(30) DEF cancel, IInv, Types, Holds

-----------------------------------------------------------------------------

\* IInv is inductive.
LEMMA Inductive == Spec => []IInv
<1>1. Init => IInv
  <2> SUFFICES ASSUME Init PROVE IInv
    OBVIOUS
  <2>1. client.connection.maxOpenConns \in Nat
    BY PoolSize DEF Init
  <2>2. Cardinality(conns) = 0
    BY FS_EmptySet DEF Init
  <2>3. Types
    BY <2>1, <2>2 DEF Init, Types
  <2>4. ASSUME NEW c \in Call PROVE RowsHeld(c) /\ Holds(c)
    BY QueryAssumption DEF Init, RowsHeld, Holds
  <2>5. QED
    BY <2>3, <2>4 DEF IInv
<1>2. IInv /\ [Next]_vars => IInv'
  <2> SUFFICES ASSUME IInv, [Next]_vars PROVE IInv'
    OBVIOUS
  <2>0. CASE UNCHANGED vars
    BY <2>0 DEF IInv, Types, RowsHeld, Holds, Managed, vars, opened
  <2> SUFFICES ASSUME NEW c \in Call, Step(c) PROVE IInv'
    BY <2>0 DEF Next
  <2>a. Types /\ RowsHeld(c) /\ Holds(c)
    BY DEF IInv
  <2>1. CASE Start(c)
    <3> DEFINE bindings == <<[name |-> "org_id", value |-> "string"], [name |-> "ids", value |-> input[c].ids]>>
                               \o input[c].extra
               refused == IF ~input[c].client THEN <<"ErrQueryClientRequired">>
                          ELSE IF validateReadOnlyStatement(input[c].statement) # <<>>
                               THEN validateReadOnlyStatement(input[c].statement)
                               ELSE translateBindings(bindings)
    <3> HIDE DEF bindings, refused
    <3>1. /\ pc[c] = "idle" /\ UNCHANGED <<opened, input, ctx, left, cut, got, conns, caller>>
          /\ IF refused # <<>>
             THEN finish(c, refused) /\ UNCHANGED timer
             ELSE /\ pc' = [pc EXCEPT ![c] = "query"]
                  /\ timer' = [timer EXCEPT ![c] = IF Managed THEN "armed" ELSE @]
                  /\ UNCHANGED <<err, finished>>
      BY <2>1 DEF Start, refused, bindings
    <3>2. CASE refused # <<>>
      <4>1. conns' = conns \ {c}
        BY <2>a, <3>1 DEF Holds
      <4>2. timer[c] = "none"
        BY <2>a, <3>1 DEF Holds
      <4>3. ctx' \in [Call -> {"live", "canceled", "expired"}]
        BY <2>a, <3>1 DEF Types
      <4>4. QED
        BY <3>1, <3>2, <4>1, <4>2, <4>3, Finishing
    <3>3. CASE refused = <<>>
      <4>1. Types'
        BY <2>a, <3>1, <3>3, ZenonT(30) DEF Types, opened
      <4>2. RowsHeld(c)' /\ Holds(c)'
        BY <2>a, <3>1, <3>3 DEF Types, RowsHeld, Holds, Managed, opened
      <4>3. QED
        BY <2>a, <3>1, <3>3, <4>1, <4>2, OthersKeep DEF Types
    <3>4. QED
      BY <3>2, <3>3
  <2>2. CASE QueryOpens(c)
    <3>1. PICK n \in 0..MaxRows :
            \E sent \in Sent(n, Ceiling(c, "max_result_rows", client.connection.maxResultRows)) :
              left' = [left EXCEPT ![c] = sent] /\ cut' = [cut EXCEPT ![c] = n - sent]
      BY <2>2, ZenonT(30) DEF QueryOpens
    <3>2. n \in Nat /\ left' = [left EXCEPT ![c] = n] /\ cut' = [cut EXCEPT ![c] = 0]
      <4>1. PICK sent \in Sent(n, Ceiling(c, "max_result_rows", client.connection.maxResultRows)) :
              left' = [left EXCEPT ![c] = sent] /\ cut' = [cut EXCEPT ![c] = n - sent]
        BY <3>1, ZenonT(30)
      <4>2. n \in Nat
        BY QueryAssumption
      <4>3. sent = n
        BY <4>1, <4>2, NothingCut
      <4>4. n - n = 0
        BY <4>2
      <4>5. QED
        BY <4>1, <4>2, <4>3, <4>4
    <3>3. /\ pc[c] = "query" /\ pc' = [pc EXCEPT ![c] = "rows"] /\ conns' = conns \cup {c}
          /\ Cardinality(conns) < client.connection.maxOpenConns
          /\ UNCHANGED <<opened, input, ctx, timer, got, err, finished, caller>>
      BY <2>2 DEF QueryOpens
    <3>4. conns' \subseteq Call /\ Cardinality(conns') <= client.connection.maxOpenConns
      <4>1. IsFiniteSet(conns)
        BY <2>a, QueryAssumption, FS_Subset DEF Types
      <4>2. Cardinality(conns) \in Nat /\ Cardinality(conns') \in {Cardinality(conns), Cardinality(conns) + 1}
        BY <3>3, <4>1, FS_AddElement, FS_CardinalityType
      <4>3. QED
        BY <2>a, <3>3, <4>2 DEF Types
    <3>5. Types'
      BY <2>a, <3>2, <3>3, <3>4 DEF Types, opened
    <3>6. RowsHeld(c)' /\ Holds(c)'
      BY <2>a, <3>1, <3>2, <3>3, QueryAssumption DEF Types, RowsHeld, Holds, Managed, opened
    <3>7. QED
      BY <2>a, <3>2, <3>3, <3>5, <3>6, OthersKeep DEF Types
  <2>3. CASE QueryFails(c)
    <3>1. PICK cause : finish(c, operationError(cause))
      BY <2>3 DEF QueryFails
    <3>2. pc[c] = "query" /\ cancel(c) /\ UNCHANGED <<opened, input, left, cut, got, conns, caller>>
      BY <2>3 DEF QueryFails
    <3>3. conns' = conns \ {c}
      BY <2>a, <3>2 DEF Holds
    <3>4. QED
      BY <3>1, <3>2, <3>3, NotNil, Canceling, Finishing
  <2>4. CASE NextRow(c)
    <3>1. Types'
      BY <2>4, <2>a DEF NextRow, Types, opened
    <3>2. RowsHeld(c)' /\ Holds(c)'
      <4>1. /\ pc[c] = "rows" /\ pc'[c] = "scan" /\ left'[c] = left[c] - 1 /\ left[c] \in Nat /\ got[c] \in Nat
            /\ UNCHANGED <<opened, got, timer, err, conns>>
        BY <2>4, <2>a DEF NextRow, Types
      <4>2. RowsHeld(c)'
        BY <2>a, <4>1, QueryAssumption DEF RowsHeld
      <4>3. Holds(c)'
        BY <2>a, <4>1 DEF Holds, Managed, opened
      <4>4. QED
        BY <4>2, <4>3
    <3>3. QED
      BY <2>4, <2>a, <3>1, <3>2, OthersKeep DEF NextRow, Types
  <2>5. CASE NextEnds(c)
    <3>1. PICK why \in {"end", "ctx"} \cup ServerFaults(c) : rowsErr(c, why)
      BY <2>5 DEF NextEnds
    <3>2. PICK e : err' = [err EXCEPT ![c] = e] /\ (e = <<>> => left[c] = 0)
      <4>1. CASE why = "end"
        BY <3>1, <4>1 DEF rowsErr
      <4> DEFINE Err(cause) == IF Managed THEN operationError(cause) ELSE <<cause>>
      <4>a. \A cause : Err(cause) # <<>>
        BY NotNil
      <4>2. CASE why = "ctx"
        <5>1. err' = [err EXCEPT ![c] = Err(ctxErr(c))]
          BY <3>1, <4>2 DEF rowsErr
        <5>2. Err(ctxErr(c)) # <<>>
          BY <4>a
        <5> HIDE DEF Err
        <5>3. QED
          BY <5>1, <5>2, ZenonT(30)
      <4>3. CASE why # "end" /\ why # "ctx"
        <5>1. err' = [err EXCEPT ![c] = Err(why)]
          BY <3>1, <4>3 DEF rowsErr
        <5>2. Err(why) # <<>>
          BY <4>a
        <5> HIDE DEF Err
        <5>3. QED
          BY <5>1, <5>2, ZenonT(30)
      <4>4. QED
        BY <4>1, <4>2, <4>3, ZenonT(30)
    <3>3. /\ pc[c] = "rows" /\ pc' = [pc EXCEPT ![c] = "close"] /\ cancel(c)
          /\ UNCHANGED <<opened, input, left, cut, got, conns, finished, caller>>
      BY <2>5 DEF NextEnds
    <3>4. /\ ctx' \in [Call -> {"live", "canceled", "expired"}]
          /\ \/ timer' = timer /\ timer[c] = "none"
             \/ timer' = [timer EXCEPT ![c] = "stopped"] /\ Managed
      BY <3>3, Canceling
    <3>5. Types'
      BY <2>a, <3>2, <3>3, <3>4, ZenonT(30) DEF Types, opened
    <3>6. RowsHeld(c)' /\ Holds(c)'
      BY <2>a, <3>2, <3>3, <3>4 DEF Types, RowsHeld, Holds, Managed, opened
    <3>7. QED
      BY <2>a, <3>2, <3>3, <3>4, <3>5, <3>6, OthersKeep DEF Types
  <2>6. CASE Scan(c)
    <3>1. pc[c] = "scan" /\ UNCHANGED <<opened, input, ctx, timer, left, cut, conns, finished, caller>>
      BY <2>6 DEF Scan
    <3>2. CASE got' = [got EXCEPT ![c] = @ + 1] /\ pc' = [pc EXCEPT ![c] = "rows"] /\ UNCHANGED err
      <4>1. Types'
        BY <2>a, <3>1, <3>2 DEF Types, opened
      <4>2. pc'[c] = "rows" /\ got'[c] = got[c] + 1 /\ left[c] \in Nat /\ got[c] \in Nat
        BY <2>a, <3>2 DEF Types
      <4>3. RowsHeld(c)'
        BY <2>a, <3>1, <4>2, QueryAssumption DEF RowsHeld
      <4>4. Holds(c)'
        BY <2>a, <3>1, <3>2, <4>2 DEF Holds, Managed, opened
      <4>5. QED
        BY <2>a, <3>1, <3>2, <4>1, <4>3, <4>4, OthersKeep DEF Types
    <3>3. CASE err' = [err EXCEPT ![c] = <<"scan">>] /\ pc' = [pc EXCEPT ![c] = "close"] /\ UNCHANGED got
      <4>1. Types'
        BY <2>a, <3>1, <3>3 DEF Types, opened
      <4>2. RowsHeld(c)' /\ Holds(c)'
        BY <2>a, <3>1, <3>3, NotNil DEF Types, RowsHeld, Holds, Managed, opened
      <4>3. QED
        BY <2>a, <3>1, <3>3, <4>1, <4>2, OthersKeep DEF Types
    <3>4. QED
      BY <2>6, <3>2, <3>3 DEF Scan
  <2>7. CASE Close(c)
    <3>1. /\ pc[c] = "close" /\ conns' = conns \ {c} /\ cancel(c) /\ finish(c, err[c])
          /\ UNCHANGED <<opened, input, left, cut, got, caller>>
      BY <2>7 DEF Close
    <3>2. err[c] = <<>> => left[c] = 0
      BY <2>a, <3>1 DEF Holds
    <3>3. QED
      BY <3>1, <3>2, Canceling, Finishing
  <2>8. CASE Drain(c)
    <3>1. Types'
      BY <2>8, <2>a DEF Drain, Types, opened
    <3>2. RowsHeld(c)' /\ Holds(c)'
      <4>1. /\ pc[c] = "close" /\ left'[c] = left[c] - 1 /\ left[c] \in Nat /\ left[c] > 0 /\ got[c] \in Nat
            /\ UNCHANGED <<pc, opened, got, timer, err, conns>>
        BY <2>8, <2>a DEF Drain, Types
      <4>2. RowsHeld(c)'
        BY <2>a, <4>1, QueryAssumption DEF RowsHeld
      <4>3. err[c] # <<>>
        BY <2>a, <4>1 DEF Holds
      <4>4. Holds(c)'
        BY <2>a, <4>1, <4>3, ZenonT(30) DEF Holds, Managed, opened
      <4>5. QED
        BY <4>2, <4>4
    <3>3. QED
      BY <2>8, <2>a, <3>1, <3>2, OthersKeep DEF Drain, Types
  <2>9. CASE Expire(c)
    <3>1. Types'
      BY <2>9, <2>a DEF Expire, Types, opened
    <3>2. RowsHeld(c)' /\ Holds(c)'
      BY <2>9, <2>a DEF Expire, Types, RowsHeld, Holds, Managed, opened
    <3>3. QED
      BY <2>9, <2>a, <3>1, <3>2, OthersKeep DEF Expire, Types
  <2>10. CASE CallerCancels(c)
    <3>1. Types'
      BY <2>10, <2>a DEF CallerCancels, Types, opened
    <3>2. QED
      BY <2>10, <3>1 DEF CallerCancels, IInv, RowsHeld, Holds, Managed, opened
  <2>11. QED
    BY <2>1, <2>2, <2>3, <2>4, <2>5, <2>6, <2>7, <2>8, <2>9, <2>10 DEF Step
<1>3. QED
  BY <1>1, <1>2, PTL DEF Spec

-----------------------------------------------------------------------------
(* What the hook hears.                                                    *)

\* The errors of a call that sends nothing.
Refusals ==
    {<<"ErrQueryClientRequired">>, <<"ErrUnsafeStatement">>, <<"wrapped", "ErrInvalidBinding">>,
     <<"wrapped", "ErrUnsafeBindingValue">>, <<"wrapped", "ErrUnsupportedBinding">>}

\* A read ceiling the options or the statement leave in force.
Budgeted(c) == options.maxBytesToRead # 0 \/ input[c].settings["max_rows_to_read"] # 0

\* Who made the query fail, still visible in the state.
Blamed(c, cause) ==
    /\ cause = "context.Canceled" => c \in caller
    /\ cause = "context.DeadlineExceeded" => ctx[c] = "expired"
    /\ cause = "budget" => Budgeted(c)

\* Where the error of a call that is about to return comes from.
ErrorOf(c) ==
    \/ err[c] = <<>>
    \/ err[c] = <<"scan">>
    \/ pc[c] = "done" /\ err[c] \in Refusals /\ timer[c] = "none" /\ ctx[c] = "live"
    \/ \E cause \in Faults \cup Ends : err[c] \in {operationError(cause), <<cause>>} /\ Blamed(c, cause)

\* The hook was told at the end and of that error only; until the rows end,
\* nobody but the caller cancels.
ToldOf(c) ==
    /\ finished[c] = IF pc[c] = "done" THEN <<safeErrorClass(err[c])>> ELSE <<>>
    /\ pc[c] = "idle" => ctx[c] = "live"
    /\ pc[c] \in {"query", "rows", "scan"} => input[c].client /\ (ctx[c] = "canceled" => c \in caller)
    /\ pc[c] \in {"close", "done"} => ErrorOf(c)

Told ==
    /\ client = NewClickHouseQueryClientWithOptions(options)
    /\ \A c \in Call : (input[c].client => client # NoClient) /\ ToldOf(c)

-----------------------------------------------------------------------------

\* What errors.Is finds in an error, and in one with a wrapper.
LEMMA Reaches ==
    ASSUME NEW e, NEW a, NEW b
    PROVE  /\ e = <<a>> => e # <<>> /\ \A x : Is(e, x) <=> x = a
           /\ e = <<a, b>> => e # <<>> /\ \A x : Is(e, x) <=> x = a \/ x = b
<1>1. CASE e = <<a>>
  <2>1. DOMAIN e = {1} /\ e[1] = a /\ e # <<>>
    BY <1>1
  <2>2. QED
    BY <1>1, <2>1 DEF Is
<1>2. CASE e = <<a, b>>
  <2>1. DOMAIN e = {1, 2} /\ e[1] = a /\ e[2] = b /\ e # <<>>
    BY <1>2
  <2>2. QED
    BY <1>2, <2>1 DEF Is
<1>3. QED
  BY <1>1, <1>2

\* A bad binding is refused with a wrapped sentinel.
LEMMA BindingRefusals == ASSUME NEW b PROVE translateBindings(b) \in Refusals \cup {<<>>}
<1>1. \A v : clickHouseParameter(v) \in Refusals \cup {<<>>}
  BY DEF clickHouseParameter, Refusals
<1>2. QED
  BY <1>1, ZenonT(30) DEF translateBindings, Refusals

\* The server fails a query for its budget only where a read ceiling is in
\* force: a pointer to 0 in the options and a 0 in the settings lift it.
LEMMA BudgetInForce ==
    ASSUME NEW c \in Call, input[c] \in Inputs, client = NewClickHouseQueryClientWithOptions(options),
           client # NoClient, "budget" \in ServerFaults(c)
    PROVE  Budgeted(c)
<1> SUFFICES ASSUME options.maxBytesToRead = 0, input[c].settings["max_rows_to_read"] = 0 PROVE FALSE
  BY DEF Budgeted
<1>1. client.connection.maxBytesToRead = 0
  <2>1. client.connection = applyOptions(options)
    BY DEF NewClickHouseQueryClientWithOptions
  <2>2. QED
    BY <2>1 DEF applyOptions, resolveCeiling, Unset
<1>2. DOMAIN input[c].settings = {"max_result_rows", "max_rows_to_read"}
  BY QueryAssumption
<1>3. /\ "max_bytes_to_read" \notin DOMAIN Render(input[c].settings)
      /\ "max_rows_to_read" \notin DOMAIN Render(input[c].settings)
  BY <1>2 DEF Render
<1>4. /\ Ceiling(c, "max_bytes_to_read", client.connection.maxBytesToRead).limit = 0
      /\ Ceiling(c, "max_rows_to_read", 0).limit = 0
  BY <1>1, <1>3 DEF Ceiling, InForce
<1>5. QED
  BY <1>4 DEF ServerFaults

\* Whoever ends a query that is still answered is blamed for it.
LEMMA BlameTheCause ==
    ASSUME IInv, Told, NEW c \in Call, pc[c] \in {"query", "rows"},
           NEW cause \in (IF Ended(c) THEN {ctxErr(c)} ELSE {}) \cup ServerFaults(c)
    PROVE  cause \in Faults \cup Ends /\ Blamed(c, cause)
<1>1. ctx[c] \in {"live", "canceled", "expired"} /\ input[c] \in Inputs /\ client # NoClient /\ ToldOf(c)
  BY DEF IInv, Types, Told, ToldOf
<1>2. CASE Ended(c) /\ cause = ctxErr(c)
  BY <1>1, <1>2 DEF Ended, ctxErr, Ends, Blamed, ToldOf
<1>3. CASE cause \in ServerFaults(c)
  <2>1. cause \in Faults
    BY <1>3 DEF ServerFaults, Faults
  <2>2. cause = "budget" => Budgeted(c)
    BY <1>1, <1>3, BudgetInForce DEF Told
  <2>3. QED
    BY <2>1, <2>2 DEF Faults, Blamed
<1>4. QED
  BY <1>2, <1>3

\* A step of one call leaves what the others were told.
LEMMA OthersTold ==
    ASSUME Told, NEW c \in Call, UNCHANGED <<opened, input>>,
           \A d \in Call \ {c} :
              /\ pc'[d] = pc[d] /\ ctx'[d] = ctx[d] /\ timer'[d] = timer[d] /\ err'[d] = err[d]
              /\ finished'[d] = finished[d] /\ (d \in caller => d \in caller'),
           ToldOf(c)'
    PROVE  Told'
<1>1. ASSUME NEW d \in Call \ {c} PROVE ToldOf(d)'
  <2>1. ToldOf(d)
    BY DEF Told
  <2>2. \A cause : Blamed(d, cause) => Blamed(d, cause)'
    BY DEF Blamed, Budgeted, opened
  <2>3. ErrorOf(d) => ErrorOf(d)'
    BY <2>2 DEF ErrorOf
  <2>4. QED
    BY <2>1, <2>3 DEF ToldOf
<1>2. QED
  BY <1>1 DEF Told, opened

\* finish tells the hook of the error it is given, once.
LEMMA FinishTells ==
    ASSUME IInv, Told, NEW c \in Call, NEW e, finish(c, e), pc[c] # "done", UNCHANGED <<opened, input, caller>>,
           \A d \in Call \ {c} : ctx'[d] = ctx[d] /\ timer'[d] = timer[d],
           ErrorOf(c)'
    PROVE  Told'
<1>1. /\ pc' = [pc EXCEPT ![c] = "done"] /\ err' = [err EXCEPT ![c] = e]
      /\ finished' = [finished EXCEPT ![c] = Append(@, safeErrorClass(e))]
  BY DEF finish
<1>2. finished[c] = <<>> /\ DOMAIN err = Call /\ DOMAIN finished = Call /\ DOMAIN pc = Call
  BY DEF Told, ToldOf, IInv, Types
<1>3. pc'[c] = "done" /\ err'[c] = e /\ finished'[c] = <<safeErrorClass(e)>>
  <2>1. Append(<<>>, safeErrorClass(e)) = <<safeErrorClass(e)>>
    OBVIOUS
  <2>2. QED
    BY <1>1, <1>2, <2>1
<1>4. ToldOf(c)'
  BY <1>3 DEF ToldOf
<1>5. QED
  BY <1>1, <1>2, <1>4, OthersTold

\* cancel touches the context and the timer of its own call, and keeps an
\* expired context expired.
LEMMA CancelOwn ==
    ASSUME IInv, NEW c \in Call, cancel(c)
    PROVE  /\ \A d \in Call \ {c} : ctx'[d] = ctx[d] /\ timer'[d] = timer[d]
           /\ ctx[c] = "expired" => ctx'[c] = "expired"
BY DEF cancel, IInv, Types

\* Told is inductive, given IInv.
LEMMA Telling == Spec => []Told
<1>1. Init => Told
  <2> SUFFICES ASSUME Init PROVE Told
    OBVIOUS
  <2>1. \A c \in Call : input[c].client => client # NoClient
    BY DEF Init
  <2>2. \A c \in Call : ToldOf(c)
    BY DEF Init, ToldOf
  <2>3. QED
    BY <2>1, <2>2 DEF Init, Told
<1>2. IInv /\ Told /\ [Next]_vars => Told'
  <2> SUFFICES ASSUME IInv, Told, [Next]_vars PROVE Told'
    OBVIOUS
  <2>0. CASE UNCHANGED vars
    <3>1. ASSUME NEW c \in Call PROVE ToldOf(c)'
      BY <2>0 DEF Told, ToldOf, ErrorOf, Blamed, Budgeted, vars, opened
    <3>2. QED
      BY <2>0, <3>1 DEF Told, vars, opened
  <2> SUFFICES ASSUME NEW c \in Call, Step(c) PROVE Told'
    BY <2>0 DEF Next
  <2>a. Types /\ Holds(c) /\ ToldOf(c)
    BY DEF IInv, Told
  <2>1. CASE Start(c)
    <3> DEFINE bindings == <<[name |-> "org_id", value |-> "string"], [name |-> "ids", value |-> input[c].ids]>>
                               \o input[c].extra
               refused == IF ~input[c].client THEN <<"ErrQueryClientRequired">>
                          ELSE IF validateReadOnlyStatement(input[c].statement) # <<>>
                               THEN validateReadOnlyStatement(input[c].statement)
                               ELSE translateBindings(bindings)
    <3>0. refused \in Refusals \cup {<<>>} /\ (~input[c].client => refused # <<>>)
      <4>1. translateBindings(bindings) \in Refusals \cup {<<>>}
        BY BindingRefusals
      <4> HIDE DEF bindings
      <4>2. QED
        BY <4>1 DEF Refusals, validateReadOnlyStatement
    <3> HIDE DEF bindings, refused
    <3>1. /\ pc[c] = "idle" /\ UNCHANGED <<opened, input, ctx, left, cut, got, conns, caller>>
          /\ IF refused # <<>>
             THEN finish(c, refused) /\ UNCHANGED timer
             ELSE /\ pc' = [pc EXCEPT ![c] = "query"]
                  /\ timer' = [timer EXCEPT ![c] = IF Managed THEN "armed" ELSE @]
                  /\ UNCHANGED <<err, finished>>
      BY <2>1 DEF Start, refused, bindings
    <3>2. CASE refused # <<>>
      <4>1. pc'[c] = "done" /\ err'[c] = refused /\ refused \in Refusals
        BY <2>a, <3>0, <3>1, <3>2 DEF finish, Types
      <4>2. timer'[c] = "none" /\ ctx'[c] = "live"
        BY <2>a, <3>1, <3>2 DEF Holds, ToldOf
      <4>3. ErrorOf(c)'
        BY <4>1, <4>2 DEF ErrorOf
      <4>4. QED
        BY <3>1, <3>2, <4>3, FinishTells
    <3>3. CASE refused = <<>>
      <4>1. ToldOf(c)'
        BY <2>a, <3>0, <3>1, <3>3 DEF Types, ToldOf
      <4>2. QED
        BY <2>a, <3>1, <3>3, <4>1, OthersTold DEF Types
    <3>4. QED
      BY <3>2, <3>3
  <2>2. CASE QueryOpens(c)
    <3>1. ToldOf(c)'
      BY <2>a, <2>2 DEF Types, QueryOpens, ToldOf
    <3>2. QED
      BY <2>a, <2>2, <3>1, OthersTold DEF Types, QueryOpens
  <2>3. CASE QueryFails(c)
    <3>1. PICK cause \in IF Ended(c) THEN {ctxErr(c)} ELSE ServerFaults(c) : finish(c, operationError(cause))
      BY <2>3 DEF QueryFails
    <3>2. pc[c] = "query" /\ cancel(c) /\ UNCHANGED <<opened, input, left, cut, got, conns, caller>>
      BY <2>3 DEF QueryFails
    <3>3. cause \in Faults \cup Ends /\ Blamed(c, cause)
      BY <3>1, <3>2, BlameTheCause
    <3>4. Blamed(c, cause)'
      BY <3>2, <3>3, CancelOwn DEF Blamed, Budgeted, opened
    <3>5. err'[c] = operationError(cause)
      BY <2>a, <3>1 DEF finish, Types
    <3>6. ErrorOf(c)'
      BY <3>3, <3>4, <3>5 DEF ErrorOf
    <3>7. QED
      BY <3>1, <3>2, <3>6, CancelOwn, FinishTells, ZenonT(30)
  <2>4. CASE NextRow(c)
    <3>1. ToldOf(c)'
      BY <2>a, <2>4 DEF Types, NextRow, ToldOf
    <3>2. QED
      BY <2>a, <2>4, <3>1, OthersTold DEF Types, NextRow
  <2>5. CASE NextEnds(c)
    <3>1. PICK why \in {"end", "ctx"} \cup ServerFaults(c) : rowsErr(c, why)
      BY <2>5 DEF NextEnds
    <3>2. /\ pc[c] = "rows" /\ pc' = [pc EXCEPT ![c] = "close"] /\ cancel(c)
          /\ UNCHANGED <<opened, input, left, cut, got, conns, finished, caller>>
      BY <2>5 DEF NextEnds
    <3> DEFINE Err(cause) == IF Managed THEN operationError(cause) ELSE <<cause>>
    <3>3. \/ err' = [err EXCEPT ![c] = <<>>]
          \/ \E cause \in (IF Ended(c) THEN {ctxErr(c)} ELSE {}) \cup ServerFaults(c) :
                err' = [err EXCEPT ![c] = Err(cause)]
      <4>1. CASE why = "end"
        BY <3>1, <4>1 DEF rowsErr
      <4>2. CASE why = "ctx"
        <5>1. Ended(c) /\ err' = [err EXCEPT ![c] = Err(ctxErr(c))]
          BY <3>1, <4>2 DEF rowsErr
        <5> HIDE DEF Err
        <5>2. QED
          BY <5>1, ZenonT(30)
      <4>3. CASE why # "end" /\ why # "ctx"
        <5>1. err' = [err EXCEPT ![c] = Err(why)] /\ why \in ServerFaults(c)
          BY <3>1, <4>3 DEF rowsErr
        <5> HIDE DEF Err
        <5>2. QED
          BY <5>1, ZenonT(30)
      <4>4. QED
        BY <4>1, <4>2, <4>3
    <3>4. ErrorOf(c)' /\ \A d \in Call \ {c} : err'[d] = err[d]
      <4>1. CASE err' = [err EXCEPT ![c] = <<>>]
        BY <2>a, <4>1 DEF ErrorOf, Types
      <4>2. ASSUME NEW cause \in (IF Ended(c) THEN {ctxErr(c)} ELSE {}) \cup ServerFaults(c),
                   err' = [err EXCEPT ![c] = Err(cause)]
            PROVE  ErrorOf(c)' /\ \A d \in Call \ {c} : err'[d] = err[d]
        <5>1. cause \in Faults \cup Ends /\ Blamed(c, cause)
          BY <3>2, BlameTheCause
        <5>2. Blamed(c, cause)'
          BY <3>2, <5>1, CancelOwn DEF Blamed, Budgeted, opened
        <5>3. Err(cause) \in {operationError(cause), <<cause>>}
          OBVIOUS
        <5> HIDE DEF Err
        <5>4. err'[c] = Err(cause) /\ \A d \in Call \ {c} : err'[d] = err[d]
          BY <2>a, <4>2 DEF Types
        <5>5. QED
          BY <5>1, <5>2, <5>3, <5>4 DEF ErrorOf
      <4>3. QED
        BY <3>3, <4>1, <4>2
    <3>5. ToldOf(c)'
      BY <2>a, <3>2, <3>4, ZenonT(30) DEF Types, ToldOf
    <3>6. QED
      BY <2>a, <3>2, <3>4, <3>5, CancelOwn, OthersTold DEF Types
  <2>6. CASE Scan(c)
    <3>1. pc[c] = "scan" /\ UNCHANGED <<opened, input, ctx, timer, left, cut, conns, finished, caller>>
      BY <2>6 DEF Scan
    <3>2. CASE got' = [got EXCEPT ![c] = @ + 1] /\ pc' = [pc EXCEPT ![c] = "rows"] /\ UNCHANGED err
      <4>1. ToldOf(c)'
        BY <2>a, <3>1, <3>2 DEF Types, ToldOf
      <4>2. QED
        BY <2>a, <3>1, <3>2, <4>1, OthersTold DEF Types
    <3>3. CASE err' = [err EXCEPT ![c] = <<"scan">>] /\ pc' = [pc EXCEPT ![c] = "close"] /\ UNCHANGED got
      <4>1. ErrorOf(c)'
        BY <2>a, <3>3 DEF Types, ErrorOf
      <4>2. ToldOf(c)'
        BY <2>a, <3>1, <3>3, <4>1 DEF Types, ToldOf
      <4>3. QED
        BY <2>a, <3>1, <3>3, <4>2, OthersTold DEF Types
    <3>4. QED
      BY <2>6, <3>2, <3>3 DEF Scan
  <2>7. CASE Close(c)
    <3>1. /\ pc[c] = "close" /\ cancel(c) /\ finish(c, err[c])
          /\ UNCHANGED <<opened, input, left, cut, got, caller>>
      BY <2>7 DEF Close
    <3>2. ErrorOf(c)'
      <4>1. err'[c] = err[c]
        BY <2>a, <3>1 DEF finish, Types
      <4>2. \A cause : Blamed(c, cause) => Blamed(c, cause)'
        BY <3>1, CancelOwn DEF Blamed, Budgeted, opened
      <4>3. ErrorOf(c) /\ pc[c] # "done"
        BY <2>a, <3>1 DEF ToldOf
      <4>4. QED
        BY <4>1, <4>2, <4>3 DEF ErrorOf
    <3>3. QED
      BY <3>1, <3>2, CancelOwn, FinishTells
  <2>8. CASE Drain(c)
    <3>1. ToldOf(c)'
      BY <2>a, <2>8 DEF Drain, ToldOf, ErrorOf, Blamed, Budgeted, opened
    <3>2. QED
      BY <2>8, <3>1, OthersTold DEF Drain
  <2>9. CASE Expire(c)
    <3>1. /\ timer[c] = "armed" /\ ctx'[c] \in {ctx[c], "expired"}
          /\ \A d \in Call \ {c} : ctx'[d] = ctx[d] /\ timer'[d] = timer[d]
          /\ UNCHANGED <<pc, opened, input, left, cut, got, err, conns, finished, caller>>
      BY <2>a, <2>9 DEF Expire, Types
    <3>2. ErrorOf(c) => ErrorOf(c)'
      <4>1. \A cause : Blamed(c, cause) => Blamed(c, cause)'
        BY <3>1 DEF Blamed, Budgeted, opened
      <4>2. QED
        BY <3>1, <4>1 DEF ErrorOf
    <3>3. ToldOf(c)'
      BY <2>a, <3>1, <3>2 DEF ToldOf, Holds
    <3>4. QED
      BY <3>1, <3>3, OthersTold
  <2>10. CASE CallerCancels(c)
    <3>1. /\ pc[c] \notin {"idle", "done"} /\ ctx[c] = "live" /\ ctx'[c] = "canceled" /\ caller' = caller \cup {c}
          /\ \A d \in Call \ {c} : ctx'[d] = ctx[d]
          /\ UNCHANGED <<pc, opened, input, timer, left, cut, got, err, conns, finished>>
      BY <2>a, <2>10 DEF CallerCancels, Types
    <3>2. ErrorOf(c) => ErrorOf(c)'
      <4>1. \A cause : Blamed(c, cause) => Blamed(c, cause)'
        BY <3>1 DEF Blamed, Budgeted, opened
      <4>2. QED
        BY <3>1, <4>1 DEF ErrorOf
    <3>3. ToldOf(c)'
      BY <2>a, <3>1, <3>2 DEF ToldOf
    <3>4. QED
      BY <3>1, <3>3, OthersTold
  <2>11. QED
    BY <2>1, <2>2, <2>3, <2>4, <2>5, <2>6, <2>7, <2>8, <2>9, <2>10 DEF Step
<1>3. QED
  BY <1>1, <1>2, Inductive, PTL DEF Spec

\* A call of QueryOrgScopedNamed that has returned holds no connection and no
\* timer, and if it returned no error the reader has every row its statement
\* selects: whatever the server, the caller and the timeout did, and whatever
\* ceilings the client and the statement set.
THEOREM ReleasedAndWhole == Spec => []ReturnsReleasedAndWhole
<1>1. IInv => ReturnsReleasedAndWhole
  <2> SUFFICES ASSUME IInv PROVE ReturnsReleasedAndWhole
    OBVIOUS
  <2>1. left \in [Call -> 0..MaxRows] /\ got \in [Call -> 0..MaxRows] /\ cut \in [Call -> 0..MaxRows]
    <3>1. ASSUME NEW c \in Call PROVE left[c] \in 0..MaxRows /\ got[c] \in 0..MaxRows /\ cut[c] \in 0..MaxRows
      BY QueryAssumption DEF IInv, Types, RowsHeld
    <3>2. QED
      BY <3>1 DEF IInv, Types
  <2>2. ASSUME NEW c \in Call, NEW i \in DOMAIN finished[c] PROVE finished[c][i] \in Classes
    BY DEF IInv, Types
  <2>3. TypeOK
    BY <2>1, <2>2 DEF IInv, Types, TypeOK
  <2>4. QED
    BY <2>3, ZenonT(30) DEF ReturnsReleasedAndWhole, IInv, Types, Holds
<1>2. QED
  BY <1>1, Inductive, PTL

\* The causes safeErrorClass looks for.
Known == {"ErrQueryClientRequired", "context.Canceled", "context.DeadlineExceeded", "ErrUnsupportedBinding",
          "ErrUnsafeBindingValue", "ErrInvalidBinding"}

\* An error with at most one known cause is exported under that cause's class.
LEMMA OneCause ==
    ASSUME NEW e, NEW x, \A y \in Known : Is(e, y) <=> y = x
    PROVE  /\ e = <<>> => (x \notin Known => safeErrorClass(e) = "")
           /\ e # <<>> =>
                /\ x = "ErrQueryClientRequired" => safeErrorClass(e) = "client_required"
                /\ x = "context.Canceled" => safeErrorClass(e) = "context_canceled"
                /\ x = "context.DeadlineExceeded" => safeErrorClass(e) = "context_deadline_exceeded"
                /\ x = "ErrUnsupportedBinding" => safeErrorClass(e) = "unsupported_binding"
                /\ x = "ErrUnsafeBindingValue" => safeErrorClass(e) = "unsafe_binding_value"
                /\ x = "ErrInvalidBinding" => safeErrorClass(e) = "invalid_binding"
                /\ x \notin Known => safeErrorClass(e) = "query_error"
<1>1. /\ Is(e, "ErrQueryClientRequired") <=> x = "ErrQueryClientRequired"
      /\ Is(e, "context.Canceled") <=> x = "context.Canceled"
      /\ Is(e, "context.DeadlineExceeded") <=> x = "context.DeadlineExceeded"
      /\ Is(e, "ErrUnsupportedBinding") <=> x = "ErrUnsupportedBinding"
      /\ Is(e, "ErrUnsafeBindingValue") <=> x = "ErrUnsafeBindingValue"
      /\ Is(e, "ErrInvalidBinding") <=> x = "ErrInvalidBinding"
  BY DEF Known
<1>2. CASE x \notin Known
  BY <1>1, <1>2 DEF safeErrorClass, Known
<1>3. CASE x = "ErrQueryClientRequired" /\ e # <<>>
  BY <1>1, <1>3 DEF safeErrorClass, Known
<1>4. CASE x = "context.Canceled" /\ e # <<>>
  BY <1>1, <1>4 DEF safeErrorClass, Known
<1>5. CASE x = "context.DeadlineExceeded" /\ e # <<>>
  BY <1>1, <1>5 DEF safeErrorClass, Known
<1>6. CASE x = "ErrUnsupportedBinding" /\ e # <<>>
  BY <1>1, <1>6 DEF safeErrorClass, Known
<1>7. CASE x = "ErrUnsafeBindingValue" /\ e # <<>>
  BY <1>1, <1>7 DEF safeErrorClass, Known
<1>8. CASE x = "ErrInvalidBinding" /\ e # <<>>
  BY <1>1, <1>8 DEF safeErrorClass, Known
<1>9. QED
  BY <1>2, <1>3, <1>4, <1>5, <1>6, <1>7, <1>8, ZenonT(30) DEF Known

\* The telemetry hook hears of every call of QueryOrgScopedNamed once, and the
\* class it hears names what really ended the call: the caller, the query
\* timeout, a binding, a read budget that was in force, or another failure.
THEOREM ToldTheCause == Spec => []ClassTellsTheCause
<1>1. IInv /\ Told => ClassTellsTheCause
  <2> SUFFICES ASSUME IInv, Told, NEW c \in Call
               PROVE  /\ Len(finished[c]) = IF pc[c] = "done" THEN 1 ELSE 0
                      /\ pc[c] = "done" =>
                           LET class == finished[c][1] IN
                           /\ (class = "") = (err[c] = <<>>)
                           /\ class = "context_canceled" => c \in caller
                           /\ class = "context_deadline_exceeded" => ctx[c] = "expired"
                           /\ class \in {"client_required", "unsupported_binding", "unsafe_binding_value",
                                         "invalid_binding"} => timer[c] = "none"
                           /\ ctx[c] = "expired" /\ class = "query_error" =>
                                  \E f \in Faults \cup {"scan"} : Is(err[c], f)
                           /\ Is(err[c], "operationError") =>
                                  IsQueryBudgetExceeded(err[c]) \/ Is(err[c], "exception")
                                      \/ \E e \in Ends : Is(err[c], e)
                           /\ IsQueryBudgetExceeded(err[c]) =>
                                  options.maxBytesToRead # 0 \/ input[c].settings["max_rows_to_read"] # 0
    BY ZenonT(30) DEF ClassTellsTheCause
  <2>1. ToldOf(c)
    BY DEF Told
  <2>2. Len(finished[c]) = IF pc[c] = "done" THEN 1 ELSE 0
    BY <2>1 DEF ToldOf
  <2>3. CASE pc[c] = "done"
    <3> DEFINE class == finished[c][1]
    <3>1. class = safeErrorClass(err[c]) /\ ErrorOf(c)
      BY <2>1, <2>3 DEF ToldOf
    <3> HIDE DEF class
    <3>2. CASE err[c] = <<>>
      <4>1. \A x : ~Is(err[c], x)
        BY <3>2 DEF Is
      <4>2. class = ""
        <5>1. "none" \notin Known
          BY DEF Known
        <5>2. QED
          BY <3>1, <3>2, <4>1, <5>1, OneCause, ZenonT(30)
      <4>3. QED
        BY <2>2, <2>3, <3>2, <4>1, <4>2, ZenonT(30) DEF IsQueryBudgetExceeded, class
    <3>3. CASE err[c] = <<"scan">>
      <4>1. err[c] # <<>> /\ \A x : Is(err[c], x) <=> x = "scan"
        BY <3>3, Reaches
      <4>2. class = "query_error"
        <5>1. "scan" \notin Known
          BY DEF Known
        <5>2. QED
          BY <3>1, <4>1, <5>1, OneCause, ZenonT(30)
      <4>3. QED
        BY <2>2, <2>3, <4>1, <4>2 DEF IsQueryBudgetExceeded, class
    <3>4. CASE err[c] \in Refusals /\ timer[c] = "none" /\ ctx[c] = "live"
      <4>1. PICK s \in Sentinels : err[c] \in {<<s>>, <<"wrapped", s>>}
        BY <3>4 DEF Refusals, Sentinels
      <4>2. err[c] # <<>> /\ Is(err[c], s) /\ \A x : Is(err[c], x) => x \in {"wrapped", s}
        <5>1. CASE err[c] = <<s>>
          BY <5>1, Reaches
        <5>2. CASE err[c] = <<"wrapped", s>>
          BY <5>2, Reaches
        <5>3. QED
          BY <4>1, <5>1, <5>2
      <4>3. class \notin {"", "context_canceled", "context_deadline_exceeded"}
        <5>1. \A y \in Known : Is(err[c], y) <=> y = s
          BY <4>2 DEF Known
        <5>2. s = "ErrUnsafeStatement" => s \notin Known
          BY DEF Known
        <5> DEFINE e == err[c]
        <5>3. e # <<>> /\ \A y \in Known : Is(e, y) <=> y = s
          BY <4>2, <5>1
        <5>4. class = safeErrorClass(e)
          BY <3>1
        <5> HIDE DEF e
        <5>5. /\ s = "ErrQueryClientRequired" => safeErrorClass(e) = "client_required"
              /\ s = "ErrUnsupportedBinding" => safeErrorClass(e) = "unsupported_binding"
              /\ s = "ErrUnsafeBindingValue" => safeErrorClass(e) = "unsafe_binding_value"
              /\ s = "ErrInvalidBinding" => safeErrorClass(e) = "invalid_binding"
              /\ s \notin Known => safeErrorClass(e) = "query_error"
          <6>1. s = "ErrQueryClientRequired" => safeErrorClass(e) = "client_required"
            BY <5>3, OneCause, ZenonT(30)
          <6>2. s = "ErrUnsupportedBinding" => safeErrorClass(e) = "unsupported_binding"
            BY <5>3, OneCause, ZenonT(30)
          <6>3. s = "ErrUnsafeBindingValue" => safeErrorClass(e) = "unsafe_binding_value"
            BY <5>3, OneCause, ZenonT(30)
          <6>4. s = "ErrInvalidBinding" => safeErrorClass(e) = "invalid_binding"
            BY <5>3, OneCause, ZenonT(30)
          <6>5. s \notin Known => safeErrorClass(e) = "query_error"
            BY <5>3, OneCause, ZenonT(30)
          <6>6. QED
            BY <6>1, <6>2, <6>3, <6>4, <6>5
        <5>6. QED
          BY <5>2, <5>4, <5>5, ZenonT(30) DEF Sentinels
      <4>4. ~Is(err[c], "operationError") /\ ~Is(err[c], "budget")
        BY <4>2 DEF Sentinels
      <4>5. QED
        BY <2>2, <2>3, <3>4, <4>2, <4>3, <4>4, ZenonT(30) DEF IsQueryBudgetExceeded, class
    <3>c. ASSUME NEW f \in Faults \cup Ends, err[c] \in {operationError(f), <<f>>}
          PROVE  err[c] # <<>> /\ Is(err[c], f) /\ \A x : Is(err[c], x) => x \in {"operationError", f}
      <4>1. CASE err[c] = <<f>>
        BY <4>1, Reaches
      <4>2. CASE err[c] = <<"operationError", f>>
        BY <4>2, Reaches
      <4>3. QED
        BY <3>c, <4>1, <4>2 DEF operationError
    <3>d. ASSUME NEW f \in Faults \cup Ends, err[c] \in {operationError(f), <<f>>}
          PROVE  \A y \in Known : Is(err[c], y) <=> y = f
      BY <3>c, <3>d DEF Known
    <3>5. ASSUME NEW f \in Faults, err[c] \in {operationError(f), <<f>>}, Blamed(c, f)
          PROVE  /\ class = "query_error" /\ err[c] # <<>> /\ Is(err[c], f)
                 /\ Is(err[c], "budget") => Budgeted(c)
      <4>1. f \notin Known /\ f # "operationError"
        BY DEF Known, Faults
      <4>2. class = "query_error"
        BY <3>1, <3>5, <3>c, <3>d, <4>1, OneCause, ZenonT(30)
      <4>3. QED
        BY <3>5, <3>c, <4>2 DEF Blamed
    <3>6. ASSUME NEW f \in Ends, err[c] \in {operationError(f), <<f>>}, Blamed(c, f)
          PROVE  /\ \/ class = "context_canceled" /\ c \in caller
                    \/ class = "context_deadline_exceeded" /\ ctx[c] = "expired"
                 /\ err[c] # <<>> /\ Is(err[c], f) /\ ~Is(err[c], "budget")
      <4>1. /\ f = "context.Canceled" => class = "context_canceled"
            /\ f = "context.DeadlineExceeded" => class = "context_deadline_exceeded"
        BY <3>1, <3>6, <3>c, <3>d, OneCause, ZenonT(30)
      <4>2. QED
        BY <3>6, <3>c, <4>1 DEF Ends, Blamed
    <3>7. CASE \E f \in Faults : err[c] \in {operationError(f), <<f>>} /\ Blamed(c, f)
      BY <2>2, <2>3, <3>5, <3>7, ZenonT(30) DEF IsQueryBudgetExceeded, Budgeted, class, Faults
    <3>8. CASE \E f \in Ends : err[c] \in {operationError(f), <<f>>} /\ Blamed(c, f)
      BY <2>2, <2>3, <3>6, <3>8, ZenonT(30) DEF IsQueryBudgetExceeded, class
    <3>9. QED
      BY <3>1, <3>2, <3>3, <3>4, <3>7, <3>8, ZenonT(30) DEF ErrorOf
  <2>4. QED
    BY <2>2, <2>3, ZenonT(30)
<1>2. QED
  BY <1>1, Inductive, Telling, PTL

-----------------------------------------------------------------------------
(* Part two: the authorization relation of work items (WorkItemScope).     *)

\* The tables a read finds.
TablesInv == world \in Worlds /\ db = [t \in Tables |-> db[t]] /\ TablesTypeOK

\* Sharing a sorting key is symmetric.
LEMMA SameKeySymmetric ==
    ASSUME NEW t, NEW r, NEW q, SameKey(t, q, r)
    PROVE  SameKey(t, r, q)
BY DEF SameKey

\* A write replaces the row of its key.
LEMMA WriteStep ==
    ASSUME TablesInv, NEW t \in Tables, NEW r \in RowsOf(t), Write(t, r)
    PROVE  TablesInv'
<1> DEFINE kept == (IF t \in Final THEN {q \in db[t] : ~SameKey(t, q, r)} ELSE db[t]) \cup {r}
<1>1. db' = [db EXCEPT ![t] = kept] /\ world' = world /\ now' = now
  BY DEF Write
<1> HIDE DEF kept
<1>2. db' = [u \in Tables |-> db'[u]] /\ db'[t] = kept /\ \A u \in Tables \ {t} : db'[u] = db[u]
  BY <1>1 DEF TablesInv
<1>3. \A u \in Tables : RowsOf(u)' = RowsOf(u)
  BY <1>1 DEF RowsOf
<1>4. kept \subseteq RowsOf(t)
  BY DEF kept, TablesInv, TablesTypeOK
<1>5. t \in Final => \A x, y \in kept : SameKey(t, x, y) => x = y
  <2> SUFFICES ASSUME t \in Final, NEW x \in kept, NEW y \in kept, SameKey(t, x, y) PROVE x = y
    OBVIOUS
  <2>1. (x = r \/ (x \in db[t] /\ ~SameKey(t, x, r))) /\ (y = r \/ (y \in db[t] /\ ~SameKey(t, y, r)))
    BY DEF kept
  <2>2. SameKey(t, y, x)
    BY SameKeySymmetric
  <2> QED BY <2>1, <2>2 DEF TablesInv, TablesTypeOK
<1>6. \A u \in Tables : db'[u] \subseteq RowsOf(u)'
  BY <1>2, <1>3, <1>4 DEF TablesInv, TablesTypeOK
<1>7. \A u \in Final : \A x, y \in db'[u] : SameKey(u, x, y) => x = y
  BY <1>2, <1>5 DEF TablesInv, TablesTypeOK, Tables
<1> QED BY <1>1, <1>2, <1>6, <1>7 DEF TablesInv, TablesTypeOK, SameKey

\* A merge only drops rows.
LEMMA MergeStep ==
    ASSUME TablesInv, NEW t \in Tables, NEW r \in RowsOf(t), Merge(t, r)
    PROVE  TablesInv'
<1>1. db' = [db EXCEPT ![t] = db[t] \ {r}] /\ world' = world /\ now' = now
  BY DEF Merge
<1>2. db' = [u \in Tables |-> db'[u]] /\ \A u \in Tables : db'[u] \subseteq db[u]
  BY <1>1 DEF TablesInv
<1>3. \A u \in Tables : RowsOf(u)' = RowsOf(u)
  BY <1>1 DEF RowsOf
<1>4. \A u \in Tables : db'[u] \subseteq RowsOf(u)'
  BY <1>2, <1>3 DEF TablesInv, TablesTypeOK
<1>5. \A u \in Final : \A x, y \in db'[u] : SameKey(u, x, y) => x = y
  BY <1>2 DEF TablesInv, TablesTypeOK, Tables
<1> QED BY <1>1, <1>2, <1>4, <1>5 DEF TablesInv, TablesTypeOK, SameKey

\* Whatever the jobs write and the merges drop, a table keeps to its rows, and
\* one read with FINAL shows one row for each key.
LEMMA TablesKept == TablesSpec => []TablesInv
<1>1. TablesInit => TablesInv
  <2> SUFFICES ASSUME TablesInit PROVE TablesInv
    OBVIOUS
  <2>1. world \in Worlds /\ now = 0 /\ db = [t \in Tables |-> {}] /\ world.maxNow \in Nat
    BY TablesAssumption DEF TablesInit
  <2>2. db = [t \in Tables |-> db[t]] /\ \A t \in Tables : db[t] = {}
    BY <2>1
  <2>3. Final \subseteq Tables
    BY DEF Tables
  <2>4. now \in 0..world.maxNow
    BY <2>1
  <2> QED BY <2>1, <2>2, <2>3, <2>4 DEF TablesInv, TablesTypeOK
<1>2. TablesInv /\ [TablesNext]_tableVars => TablesInv'
  <2> SUFFICES ASSUME TablesInv, [TablesNext]_tableVars PROVE TablesInv'
    OBVIOUS
  <2>1. CASE Tick
    <3>1. world' = world /\ db' = db /\ now' = now + 1 /\ now < world.maxNow /\ world.maxNow \in Nat
      BY <2>1, TablesAssumption DEF Tick, TablesInv
    <3>2. now' \in 0..world'.maxNow
      BY <3>1 DEF TablesInv, TablesTypeOK
    <3> QED BY <3>1, <3>2 DEF TablesInv, TablesTypeOK, RowsOf, SameKey
  <2>2. CASE UNCHANGED tableVars
    BY <2>2 DEF tableVars, TablesInv, TablesTypeOK, RowsOf, SameKey
  <2>3. {"daily", "repo_versions"} \subseteq Tables
    BY DEF Tables
  <2> QED BY <2>1, <2>2, <2>3, WriteStep, MergeStep DEF TablesNext
<1> QED BY <1>1, <1>2, PTL DEF TablesSpec

-----------------------------------------------------------------------------
(* The identities and the owners of projects.                              *)

\* What the tables of projects and repositories give a join: finitely many rows,
\* one for each key.
LEMMA Tabled ==
    ASSUME TablesInv
    PROVE  /\ IsFiniteSet(projects)
           /\ \A p, q \in projects : p.org = q.org /\ p.provider = q.provider /\ p.id = q.id => p = q
           /\ \A r, q \in repos : r.org = q.org /\ r.id = q.id => r = q
<1>1. "projects" \in Final /\ "repos" \in Final /\ Final \subseteq Tables
  BY DEF Final, Tables
<1>2. /\ \A p, q \in projects : SameKey("projects", p, q) => p = q
      /\ \A r, q \in repos : SameKey("repos", r, q) => r = q
      /\ projects \subseteq RowsOf("projects")
  BY <1>1, ZenonT(30) DEF TablesInv, TablesTypeOK, projects, repos
<1>3. IsFiniteSet(RowsOf("projects"))
  BY TablesAssumption, FS_EmptySet DEF RowsOf, TablesInv
<1>4. IsFiniteSet(projects)
  BY <1>2, <1>3, FS_Subset
<1> QED BY <1>2, <1>4 DEF SameKey

\* A project answers to its key exactly when the key is its own.
LEMMA KeyedProject ==
    ASSUME TablesInv, NEW p \in projects, p.org = Org
    PROVE  p.key # Null /\ keyResolutionCount(OfOrg(projects, Org), p) = 1 <=> OwnKey(p, p.key)
<1> DEFINE sharing == {q \in OfOrg(projects, Org) : q.provider = p.provider /\ q.key = p.key /\ q.key # Null}
<1>1. keyResolutionCount(OfOrg(projects, Org), p) = Cardinality(sharing)
  BY DEF keyResolutionCount
<1>2. \A q : q \in sharing <=> /\ q \in projects /\ q.org = Org /\ q.provider = p.provider
                              /\ q.key = p.key /\ q.key # Null
  BY DEF OfOrg
<1>3. IsFiniteSet(sharing)
  BY <1>2, Tabled, FS_Subset
<1> HIDE DEF sharing
<1>4. Cardinality(sharing) = 1 <=> \E x : sharing = {x}
  BY <1>3, FS_Singleton, ZenonT(30)
<1>5. ASSUME p.key # Null, NEW x, sharing = {x} PROVE OwnKey(p, p.key)
  <2>1. p \in sharing
    BY <1>2, <1>5
  <2> QED BY <1>2, <1>5, <2>1 DEF OwnKey
<1>6. ASSUME OwnKey(p, p.key) PROVE sharing = {p} /\ p.key # Null
  BY <1>2, <1>6 DEF OwnKey
<1> QED BY <1>1, <1>4, <1>5, <1>6

\* An OwnKey is the key.
LEMMA OwnKeyIs ==
    ASSUME NEW p, NEW v, OwnKey(p, v) PROVE v = p.key /\ OwnKey(p, p.key)
BY DEF OwnKey

\* One row of the catalog.
IdentityRow(p, v) ==
    [provider |-> p.provider, id |-> p.id, scope |-> v, kind |-> IF OwnKey(p, v) THEN "key" ELSE "id"]

\* projectIdentityExpansionSQL gives each project of the organization a row for
\* its id and one for a key of its own, of kind "key" where they are one row.
LEMMA IdentityRows ==
    ASSUME TablesInv, NEW row
    PROVE  row \in ProjectIdentityCatalog(projects, Org) <=>
              \E p \in projects : /\ p.org = Org
                                  /\ \E v \in {p.id, p.key} : (v = p.id \/ OwnKey(p, v)) /\ row = IdentityRow(p, v)
<1> DEFINE mine == OfOrg(projects, Org)
           Row(p, v) == [provider |-> p.provider, id |-> p.id, scope |-> v]
           keyed == {p \in mine : p.key # Null /\ keyResolutionCount(mine, p) = 1}
           keys == {Row(p, p.key) : p \in keyed}
           Kind(x) == IF x \in keys THEN "key" ELSE "id"
           ids == {Row(p, p.id) : p \in mine}
           Full(x) == [provider |-> x.provider, id |-> x.id, scope |-> x.scope, kind |-> Kind(x)]
<1>1. ProjectIdentityCatalog(projects, Org) = {Full(x) : x \in ids \cup keys}
  BY DEF ProjectIdentityCatalog, projectIdentityExpansion
<1>2. \A p : p \in mine <=> p \in projects /\ p.org = Org
  BY DEF OfOrg
<1>3. \A p : p \in keyed <=> p \in projects /\ p.org = Org /\ OwnKey(p, p.key)
  BY <1>2, KeyedProject
<1> HIDE DEF mine, keyed
<1>4. ASSUME NEW p \in projects, p.org = Org, NEW v PROVE Row(p, v) \in keys <=> OwnKey(p, v)
  <2>1. ASSUME Row(p, v) \in keys PROVE OwnKey(p, v)
    <3>1. PICK q \in keyed : Row(p, v) = Row(q, q.key)
      BY <2>1
    <3>2. p.provider = q.provider /\ p.id = q.id /\ v = q.key
      BY <3>1
    <3>3. q \in projects /\ q.org = Org /\ OwnKey(q, q.key)
      BY <1>3
    <3>4. p = q
      BY <1>4, <3>2, <3>3, Tabled
    <3> QED BY <3>2, <3>3, <3>4
  <2>2. ASSUME OwnKey(p, v) PROVE Row(p, v) \in keys
    <3>1. v = p.key /\ p \in keyed
      BY <1>3, <1>4, <2>2, OwnKeyIs
    <3> QED BY <3>1
  <2> QED BY <2>1, <2>2
<1>5. ASSUME NEW p \in projects, p.org = Org, NEW v PROVE Full(Row(p, v)) = IdentityRow(p, v)
  <2>1. Kind(Row(p, v)) = IF OwnKey(p, v) THEN "key" ELSE "id"
    BY <1>4, <1>5
  <2> HIDE DEF Kind
  <2>2. Full(Row(p, v)) = [provider |-> p.provider, id |-> p.id, scope |-> v, kind |-> Kind(Row(p, v))]
    OBVIOUS
  <2> QED BY <2>1, <2>2 DEF IdentityRow
<1> HIDE DEF Full
<1>6. ASSUME NEW x \in ids \cup keys, row = Full(x)
      PROVE  \E p \in projects : /\ p.org = Org
                                 /\ \E v \in {p.id, p.key} : (v = p.id \/ OwnKey(p, v)) /\ row = IdentityRow(p, v)
  <2>1. CASE x \in ids
    <3>1. PICK p \in mine : x = Row(p, p.id)
      BY <2>1
    <3> QED BY <1>2, <1>5, <1>6, <3>1, ZenonT(30)
  <2>2. CASE x \in keys
    <3>1. PICK p \in keyed : x = Row(p, p.key)
      BY <2>2
    <3> QED BY <1>3, <1>5, <1>6, <3>1
  <2> QED BY <1>6, <2>1, <2>2, ZenonT(30)
<1>7. ASSUME NEW p \in projects, p.org = Org, NEW v \in {p.id, p.key}, v = p.id \/ OwnKey(p, v), row = IdentityRow(p, v)
      PROVE  \E x \in ids \cup keys : row = Full(x)
  <2>1. CASE v = p.id
    <3>1. Row(p, v) \in ids
      BY <1>2, <1>7, <2>1
    <3> QED BY <1>5, <1>7, <3>1, ZenonT(30)
  <2>2. CASE OwnKey(p, v)
    <3>1. Row(p, v) \in keys
      BY <1>4, <1>7, <2>2
    <3> QED BY <1>5, <1>7, <3>1, ZenonT(30)
  <2> QED BY <1>7, <2>1, <2>2
<1> HIDE DEF ids, keys
<1> QED BY <1>1, <1>6, <1>7

\* A row of the catalog is an identity of one project.
LEMMA IdentityOf ==
    ASSUME TablesInv, NEW row \in ProjectIdentityCatalog(projects, Org)
    PROVE  \E p \in projects : /\ p.org = Org /\ row.provider = p.provider /\ row.id = p.id
                               /\ row.scope = p.id \/ OwnKey(p, row.scope)
                               /\ row.kind = "key" <=> OwnKey(p, row.scope)
<1>1. PICK p \in projects : /\ p.org = Org
                            /\ \E v \in {p.id, p.key} : (v = p.id \/ OwnKey(p, v)) /\ row = IdentityRow(p, v)
  BY IdentityRows
<1>2. PICK v \in {p.id, p.key} : (v = p.id \/ OwnKey(p, v)) /\ row = IdentityRow(p, v)
  BY <1>1
<1>3. row.provider = p.provider /\ row.id = p.id /\ row.scope = v /\ (row.kind = "key" <=> OwnKey(p, v))
  BY <1>2 DEF IdentityRow
<1> QED BY <1>1, <1>2, <1>3

\* Each identity of a project is a row of the catalog.
LEMMA IdentityIs ==
    ASSUME TablesInv, NEW p \in projects, p.org = Org, NEW v, v = p.id \/ OwnKey(p, v)
    PROVE  \E row \in ProjectIdentityCatalog(projects, Org) :
              /\ row.provider = p.provider /\ row.id = p.id /\ row.scope = v
              /\ row.kind = "key" <=> OwnKey(p, v)
<1>1. v \in {p.id, p.key}
  BY OwnKeyIs
<1>2. IdentityRow(p, v) \in ProjectIdentityCatalog(projects, Org)
  BY <1>1, IdentityRows
<1>3. /\ IdentityRow(p, v).provider = p.provider /\ IdentityRow(p, v).id = p.id /\ IdentityRow(p, v).scope = v
      /\ IdentityRow(p, v).kind = "key" <=> OwnKey(p, v)
  BY DEF IdentityRow
<1> QED BY <1>2, <1>3

Arms == ownershipArms(tpo, Org, Current, now)

\* The arms of the ownership join, read now.
LEMMA ArmRows ==
    ASSUME NEW a
    PROVE  a \in Arms <=>
              \E o \in tpo :
                /\ o.org = Org /\ o.from <= now /\ o.to = 0
                /\ \/ o.project_id # Null /\ a = [provider |-> o.provider, scope |-> o.project_id, team |-> o.team, kind |-> ""]
                   \/ o.project_key # Null /\ a = [provider |-> o.provider, scope |-> o.project_key, team |-> o.team, kind |-> "key"]
<1>1. \A o : OwnershipValid(o, Current, now) <=> o.from <= now /\ o.to = 0
  BY DEF OwnershipValid, Current
<1> QED BY <1>1, ZenonT(30) DEF Arms, ownershipArms, OfOrg

\* The statement's join gives a project the teams that own it, and no other.
LEMMA JoinIs ==
    ASSUME TablesInv, NEW p \in projects, p.org = Org, NEW t
    PROVE  [provider |-> p.provider, id |-> p.id, team |-> t]
              \in projectOwnershipJoinOver(ProjectIdentityCatalog(projects, Org), tpo, Org, Current, now)
           <=> Owns(t, p)
<1> DEFINE identity == ProjectIdentityCatalog(projects, Org)
           join == projectOwnershipJoinOver(identity, tpo, Org, Current, now)
           x == [provider |-> p.provider, id |-> p.id, team |-> t]
<1>1. x \in join <=> \E row \in identity : \E a \in Arms :
                        /\ a.provider = row.provider /\ a.scope = row.scope /\ a.kind \in {"", row.kind}
                        /\ row.provider = p.provider /\ row.id = p.id /\ a.team = t
  <2> DEFINE Owners(row) == {[provider |-> row.provider, id |-> row.id, team |-> a.team] :
                               a \in {b \in Arms : /\ b.provider = row.provider /\ b.scope = row.scope
                                                   /\ b.kind \in {"", row.kind}}}
  <2>1. join = UNION {Owners(row) : row \in identity}
    BY DEF projectOwnershipJoinOver, Arms
  <2>2. ASSUME NEW row
        PROVE  x \in Owners(row) <=> \E a \in Arms :
                  /\ a.provider = row.provider /\ a.scope = row.scope /\ a.kind \in {"", row.kind}
                  /\ row.provider = p.provider /\ row.id = p.id /\ a.team = t
    <3> HIDE DEF identity
    <3> QED BY ZenonT(30)
  <2> HIDE DEF Owners, join, x, identity
  <2>3. x \in join <=> \E row \in identity : x \in Owners(row)
    BY <2>1
  <2> QED BY <2>2, <2>3, ZenonT(30)
<1> HIDE DEF join, x
<1>2. ASSUME NEW row \in identity, NEW a \in Arms,
             a.provider = row.provider, a.scope = row.scope, a.kind \in {"", row.kind},
             row.provider = p.provider, row.id = p.id, a.team = t
      PROVE  Owns(t, p)
  <2>1. /\ row.scope = p.id \/ OwnKey(p, row.scope)
        /\ row.kind = "key" <=> OwnKey(p, row.scope)
    BY <1>2, IdentityOf, Tabled, ZenonT(30)
  <2>2. PICK o \in tpo :
          /\ o.org = Org /\ o.from <= now /\ o.to = 0
          /\ \/ o.project_id # Null /\ a = [provider |-> o.provider, scope |-> o.project_id, team |-> o.team, kind |-> ""]
             \/ o.project_key # Null /\ a = [provider |-> o.provider, scope |-> o.project_key, team |-> o.team, kind |-> "key"]
    BY ArmRows, ZenonT(30)
  <2> HIDE DEF identity
  <2>3. /\ o.provider = a.provider /\ o.team = a.team
        /\ \/ o.project_id # Null /\ a.scope = o.project_id
           \/ a.scope = o.project_key /\ a.kind = "key"
    <3>1. CASE o.project_id # Null /\ a = [provider |-> o.provider, scope |-> o.project_id, team |-> o.team, kind |-> ""]
      BY <3>1, ZenonT(30)
    <3>2. CASE a = [provider |-> o.provider, scope |-> o.project_key, team |-> o.team, kind |-> "key"]
      BY <3>2
    <3> QED BY <2>2, <3>1, <3>2, ZenonT(30)
  <2>4. CASE o.project_id # Null /\ a.scope = o.project_id
    <3>1. p \in Named(p.provider, o.project_id)
      BY <1>2, <2>1, <2>4, ZenonT(30) DEF Named
    <3> QED BY <1>2, <2>2, <2>3, <2>4, <3>1, ZenonT(30) DEF Owns
  <2>5. CASE a.scope = o.project_key /\ a.kind = "key"
    <3>1. OwnKey(p, o.project_key)
      BY <1>2, <2>1, <2>5
    <3> QED BY <1>2, <2>2, <2>3, <3>1, ZenonT(30) DEF Owns
  <2> QED BY <2>3, <2>4, <2>5
<1>3. ASSUME Owns(t, p)
      PROVE  \E row \in identity : \E a \in Arms :
                /\ a.provider = row.provider /\ a.scope = row.scope /\ a.kind \in {"", row.kind}
                /\ row.provider = p.provider /\ row.id = p.id /\ a.team = t
  <2>1. PICK o \in tpo :
          /\ o.org = Org /\ o.provider = p.provider /\ o.team = t /\ o.from <= now /\ o.to = 0
          /\ \/ o.project_id # Null /\ p \in Named(p.provider, o.project_id)
             \/ OwnKey(p, o.project_key)
    BY <1>3 DEF Owns
  <2>2. CASE o.project_id # Null /\ p \in Named(p.provider, o.project_id)
    <3> DEFINE a == [provider |-> o.provider, scope |-> o.project_id, team |-> o.team, kind |-> ""]
    <3>1. a \in Arms
      BY <2>1, <2>2, ArmRows, ZenonT(30)
    <3>2. PICK row \in identity : row.provider = p.provider /\ row.id = p.id /\ row.scope = o.project_id
      BY <2>2, IdentityIs DEF Named
    <3>3. a.provider = o.provider /\ a.scope = o.project_id /\ a.team = o.team /\ a.kind = ""
      OBVIOUS
    <3> HIDE DEF a, identity
    <3> QED BY <2>1, <3>1, <3>2, <3>3, ZenonT(30)
  <2>3. CASE OwnKey(p, o.project_key)
    <3> DEFINE a == [provider |-> o.provider, scope |-> o.project_key, team |-> o.team, kind |-> "key"]
    <3>1. a \in Arms
      <4>1. o.project_key # Null
        BY <2>3 DEF OwnKey
      <4> QED BY <2>1, <4>1, ArmRows, ZenonT(30)
    <3>2. PICK row \in identity : row.provider = p.provider /\ row.id = p.id /\ row.scope = o.project_key /\ row.kind = "key"
      BY <2>3, IdentityIs
    <3>3. a.provider = o.provider /\ a.scope = o.project_key /\ a.team = o.team /\ a.kind = "key"
      OBVIOUS
    <3> HIDE DEF a, identity
    <3> QED BY <2>1, <3>1, <3>2, <3>3, ZenonT(30)
  <2> QED BY <2>1, <2>2, <2>3, ZenonT(30)
<1> QED BY <1>1, <1>2, <1>3, ZenonT(30) DEF join, x

-----------------------------------------------------------------------------
(* What an item reaches through a project or a link.                       *)

\* The item's (provider, project) pair is kept by the narrowing.
Kept(w, candidates) == candidates = NoCandidates \/ <<w.provider, w.project>> \in candidateScopes(candidates)

\* The repository belongs to a current owner of a project the item names.
ReachesRepo(w, id) ==
    /\ keyPresent(id, "uuid")
    /\ \E p \in Named(w.provider, w.project) : \E o \in tro :
          o.repo = id /\ OwnedRepo(o.team, id) /\ Owns(o.team, p)

\* The repositories of wia_project_repositories do not depend on the
\* candidates, except that a value no candidate carries has none.
LEMMA ProjectRepositories ==
    ASSUME TablesInv, NEW w, NEW set, NEW candidates
    PROVE  projectRepositories(w, set, candidates) =
              IF Kept(w, candidates) THEN {slug[g.repo] : g \in {r \in grantedRepos(set) : ReachesRepo(w, r.id)}} ELSE {}
<1> DEFINE identity == ProjectIdentityCatalog(projects, Org)
           join == projectOwnershipJoinOver(identity, tpo, Org, Current, now)
           owned == {o \in join : <<o.provider, o.id>> \in amongProjects(candidates)}
           scopes == {p \in identity : candidates = NoCandidates \/ <<p.provider, p.scope>> \in candidateScopes(candidates)}
           Feeds(x) == \E p \in scopes : /\ p.provider = w.provider /\ p.scope = w.project
                                         /\ x.provider = p.provider /\ x.id = p.id
           teams == {o.team : o \in {x \in owned : Feeds(x)}}
           ownership == TeamRepositoryOwnership(tro, Org, Current, now)
           owned_repos == {o.repo : o \in {x \in ownership : x.team \in teams}}
<1>1. projectRepositories(w, set, candidates) = {slug[r.repo] : r \in {g \in grantedRepos(set) : g.id \in owned_repos}}
  BY ZenonT(30) DEF projectRepositories
<1>2. \A p : p \in scopes <=> p \in identity /\ (candidates = NoCandidates \/ <<p.provider, p.scope>> \in candidateScopes(candidates))
  OBVIOUS
<1>3. \A p \in scopes : <<p.provider, p.id>> \in amongProjects(candidates)
  BY DEF amongProjects
<1>4. ASSUME NEW row \in join
      PROVE  \E p \in projects : p.org = Org /\ row = [provider |-> p.provider, id |-> p.id, team |-> row.team]
  <2>1. PICK i \in identity : \E a \in Arms : row = [provider |-> i.provider, id |-> i.id, team |-> a.team]
    BY ZenonT(30) DEF projectOwnershipJoinOver, Arms
  <2>2. PICK p \in projects : p.org = Org /\ i.provider = p.provider /\ i.id = p.id
    BY <2>1, IdentityOf
  <2> HIDE DEF identity, join
  <2> QED BY <2>1, <2>2
<1>5. ASSUME NEW t
      PROVE  t \in teams <=> Kept(w, candidates) /\ \E p \in Named(w.provider, w.project) : Owns(t, p)
  <2>1. ASSUME t \in teams PROVE Kept(w, candidates) /\ \E p \in Named(w.provider, w.project) : Owns(t, p)
    <3>1. PICK x \in owned : Feeds(x) /\ x.team = t
      BY <2>1, ZenonT(30)
    <3>2. x \in join
      OBVIOUS
    <3>3. PICK i \in scopes : /\ i.provider = w.provider /\ i.scope = w.project
                              /\ x.provider = i.provider /\ x.id = i.id
      BY <3>1
    <3> HIDE DEF join, owned, scopes, teams, identity
    <3>4. PICK p \in projects : p.org = Org /\ x = [provider |-> p.provider, id |-> p.id, team |-> x.team]
      BY <1>4, <3>2
    <3>5. x.provider = p.provider /\ x.id = p.id
      BY <3>4
    <3>6. Owns(t, p)
      BY <3>1, <3>2, <3>4, JoinIs DEF join, identity
    <3>7. i \in ProjectIdentityCatalog(projects, Org) /\ Kept(w, candidates)
      BY <1>2, <3>3 DEF identity, Kept
    <3>8. PICK q \in projects : q.org = Org /\ i.provider = q.provider /\ i.id = q.id /\ (i.scope = q.id \/ OwnKey(q, i.scope))
      BY <3>7, IdentityOf
    <3>9. q = p
      BY <3>3, <3>4, <3>5, <3>8, Tabled, ZenonT(30)
    <3>10. p \in Named(w.provider, w.project)
      BY <3>3, <3>8, <3>9 DEF Named
    <3> QED BY <3>6, <3>7, <3>10
  <2>2. ASSUME Kept(w, candidates), NEW p \in Named(w.provider, w.project), Owns(t, p) PROVE t \in teams
    <3> DEFINE x == [provider |-> p.provider, id |-> p.id, team |-> t]
    <3>1. p \in projects /\ p.org = Org /\ p.provider = w.provider /\ (w.project = p.id \/ OwnKey(p, w.project))
      BY DEF Named
    <3>2. x \in join
      BY <2>2, <3>1, JoinIs
    <3>3. PICK i \in ProjectIdentityCatalog(projects, Org) : i.provider = p.provider /\ i.id = p.id /\ i.scope = w.project
      BY <3>1, IdentityIs
    <3>4. x.provider = p.provider /\ x.id = p.id /\ x.team = t
      OBVIOUS
    <3> HIDE DEF x, join, scopes
    <3>5. i \in scopes
      BY <1>2, <2>2, <3>1, <3>3 DEF Kept
    <3>6. x \in owned
      <4>1. <<i.provider, i.id>> \in amongProjects(candidates)
        BY <1>3, <3>5
      <4> QED BY <3>2, <3>3, <3>4, <4>1
    <3>7. Feeds(x)
      BY <3>1, <3>3, <3>4, <3>5
    <3> HIDE DEF owned, Feeds
    <3> QED BY <3>4, <3>6, <3>7
  <2> HIDE DEF teams
  <2> QED BY <2>1, <2>2
<1>6. ASSUME NEW t, NEW id
      PROVE  [team |-> t, repo |-> id] \in ownership <=> keyPresent(id, "uuid") /\ OwnedRepo(t, id)
  BY ZenonT(30) DEF TeamRepositoryOwnership, OwnershipValid, Current, OfOrg, OwnedRepo
<1>7. \A x \in ownership : \E o \in tro : x = [team |-> o.team, repo |-> o.repo]
  BY DEF TeamRepositoryOwnership, OfOrg
<1> HIDE DEF teams, ownership
<1>8. ASSUME NEW id PROVE id \in owned_repos <=> Kept(w, candidates) /\ ReachesRepo(w, id)
  <2>1. ASSUME id \in owned_repos PROVE Kept(w, candidates) /\ ReachesRepo(w, id)
    <3>1. PICK x \in ownership : x.team \in teams /\ x.repo = id
      BY <2>1
    <3>2. PICK o \in tro : x = [team |-> o.team, repo |-> o.repo]
      BY <1>7
    <3>3. x.team = o.team /\ x.repo = o.repo
      BY <3>2
    <3>4. keyPresent(id, "uuid") /\ OwnedRepo(o.team, id)
      BY <1>6, <3>1, <3>2, <3>3
    <3> QED BY <1>5, <3>1, <3>3, <3>4 DEF ReachesRepo
  <2>2. ASSUME Kept(w, candidates), ReachesRepo(w, id) PROVE id \in owned_repos
    <3>1. PICK p \in Named(w.provider, w.project) : \E o \in tro : OwnedRepo(o.team, id) /\ Owns(o.team, p)
      BY <2>2 DEF ReachesRepo
    <3>2. PICK o \in tro : OwnedRepo(o.team, id) /\ Owns(o.team, p)
      BY <3>1
    <3>3. o.team \in teams
      BY <1>5, <2>2, <3>2
    <3> DEFINE x == [team |-> o.team, repo |-> id]
    <3>4. x \in ownership
      BY <1>6, <2>2, <3>2, ZenonT(30) DEF ReachesRepo
    <3>5. x.team = o.team /\ x.repo = id
      OBVIOUS
    <3> HIDE DEF x
    <3> QED BY <3>3, <3>4, <3>5
  <2> QED BY <2>1, <2>2
<1> HIDE DEF owned_repos
<1>9. CASE Kept(w, candidates)
  <2>1. {g \in grantedRepos(set) : g.id \in owned_repos} = {r \in grantedRepos(set) : ReachesRepo(w, r.id)}
    BY <1>8, <1>9
  <2> QED BY <1>1, <1>9, <2>1
<1>10. CASE ~Kept(w, candidates)
  <2>1. {g \in grantedRepos(set) : g.id \in owned_repos} = {}
    BY <1>8, <1>10
  <2> QED BY <1>1, <1>10, <2>1
<1> QED BY <1>9, <1>10

\* A candidate's project value is kept.
LEMMA CandidateKept ==
    ASSUME NEW w \in OfOrg(Items, Org), NEW candidates, candidates = NoCandidates \/ w.id \in candidates
    PROVE  Kept(w, candidates)
BY DEF Kept, candidateScopes

\* The links of an item do not depend on the candidates, if it is one.
LEMMA LinkRows ==
    ASSUME NEW w, NEW set, NEW candidates
    PROVE  linkRows(w, set, candidates) =
              IF candidates = NoCandidates \/ w.id \in candidates THEN linkRows(w, set, NoCandidates) ELSE {}
BY DEF linkRows

\* The row of a read is a function of the repositories its item reaches.
LEMMA SameRow ==
    ASSUME NEW w, NEW scope, NEW c, NEW d,
           projectRepositories(w, scope.selectors, c) = projectRepositories(w, scope.selectors, d),
           linkRows(w, scope.selectors, c) = linkRows(w, scope.selectors, d)
    PROVE  rowOf(w, scope, c) = rowOf(w, scope, d)
<1> DEFINE set == scope.selectors
<1>1. linkRepositories(w, set, c) = linkRepositories(w, set, d)
  BY DEF linkRepositories
<1>2. excludedLinkProvenances(w, set, c) = excludedLinkProvenances(w, set, d)
  BY DEF excludedLinkProvenances
<1>3. \A path \in Paths : pathTaken(w, path, set, c) <=> pathTaken(w, path, set, d)
  BY <1>1 DEF pathTaken, Paths
<1>4. authorized(w, scope, c) = authorized(w, scope, d)
  BY <1>3, ZenonT(30) DEF authorized
<1>5. provenance(w, scope, c) = provenance(w, scope, d)
  BY <1>3 DEF provenance
<1>6. [p \in Paths |-> evidence(w, p, scope, c)] = [p \in Paths |-> evidence(w, p, scope, d)]
  <2>1. \A p \in Paths : evidence(w, p, scope, c) = evidence(w, p, scope, d)
    BY <1>1, <1>5 DEF evidence, Paths
  <2> QED BY <2>1
<1> QED BY <1>2, <1>4, <1>5, <1>6 DEF rowOf

\* Fewer candidates never add a path.
LEMMA NarrowerPath ==
    ASSUME TablesInv, NEW w, NEW set, NEW candidates, NEW path \in Paths, pathTaken(w, path, set, candidates)
    PROVE  pathTaken(w, path, set, NoCandidates)
<1>1. projectRepositories(w, set, candidates) \subseteq projectRepositories(w, set, NoCandidates)
  <2>1. Kept(w, NoCandidates)
    BY DEF Kept
  <2> QED BY <2>1, ProjectRepositories
<1>2. linkRepositories(w, set, candidates) \subseteq linkRepositories(w, set, NoCandidates)
  <2>1. linkRows(w, set, candidates) \subseteq linkRows(w, set, NoCandidates)
    BY LinkRows
  <2> QED BY <2>1 DEF linkRepositories
<1> QED BY <1>1, <1>2, ZenonT(30) DEF pathTaken, Paths

\* Candidates leave a candidate's row as it is and widen no other.
LEMMA Narrowing == ASSUME TablesInv PROVE NarrowingHarmless
<1> SUFFICES ASSUME NEW scope \in world.scopes, NEW candidates \in world.candidates, candidates # NoCandidates,
                    NEW w \in OfOrg(Items, Org)
             PROVE  LET r == rowOf(w, scope, candidates)
                        whole == rowOf(w, scope, NoCandidates)
                    IN IF w.id \in candidates THEN r = whole
                       ELSE r.paths \subseteq whole.paths /\ (r.authorized => whole.authorized)
  <2>1. \A v, s, c : rowOf(v, s, c).item = v
    BY ZenonT(30) DEF rowOf
  <2> QED BY <2>1 DEF NarrowingHarmless, Read
<1> DEFINE r == rowOf(w, scope, candidates)
           whole == rowOf(w, scope, NoCandidates)
<1>1. CASE w.id \in candidates
  <2>1. Kept(w, candidates) /\ Kept(w, NoCandidates)
    BY <1>1, CandidateKept
  <2>2. projectRepositories(w, scope.selectors, candidates) = projectRepositories(w, scope.selectors, NoCandidates)
    BY <2>1, ProjectRepositories, ZenonT(30)
  <2>3. linkRows(w, scope.selectors, candidates) = linkRows(w, scope.selectors, NoCandidates)
    BY <1>1, LinkRows
  <2> QED BY <1>1, <2>2, <2>3, SameRow, ZenonT(30)
<1>2. provenance(w, scope, candidates) \subseteq provenance(w, scope, NoCandidates)
  BY NarrowerPath DEF provenance
<1>3. authorized(w, scope, candidates) => authorized(w, scope, NoCandidates)
  BY NarrowerPath DEF authorized
<1>4. r.paths \subseteq whole.paths /\ (r.authorized => whole.authorized)
  BY <1>2, <1>3, ZenonT(30) DEF rowOf
<1> QED BY <1>1, <1>4

-----------------------------------------------------------------------------
(* The paths.                                                              *)

\* LEFT JOIN repos finds the repository of the item, if there is one.
LEMMA RepoNamed ==
    ASSUME TablesInv, NEW w, w.org = Org
    PROVE  IF \E r \in repos : r.org = Org /\ r.id = w.repo
           THEN \E r \in repos : r.org = Org /\ r.id = w.repo /\ repoName(w) = r.repo
           ELSE repoName(w) = ""
<1> DEFINE named == {r \in OfOrg(repos, w.org) : r.id = w.repo}
<1>1. repoName(w) = IF named = {} THEN "" ELSE (CHOOSE r \in named : TRUE).repo
  BY DEF repoName
<1>2. \A r : r \in named <=> r \in repos /\ r.org = Org /\ r.id = w.repo
  BY DEF OfOrg
<1> HIDE DEF named
<1>3. CASE named = {}
  BY <1>1, <1>2, <1>3, ZenonT(30)
<1>4. CASE named # {}
  <2>1. (CHOOSE r \in named : TRUE) \in named
    BY <1>4
  <2> QED BY <1>1, <1>2, <1>4, <2>1, ZenonT(30)
<1> QED BY <1>3, <1>4, ZenonT(30)

\* An item with a repository is in the grant when that repository is.
LEMMA DirectMatch ==
    ASSUME TablesInv, NEW w, w.org = Org, NEW set, keyPresent(w.repo, "uuid")
    PROVE  grantedRepositoryMatch(set, repoName(w)) <=> GrantedRepo(set, w.repo)
<1>1. w.repo \notin {Null, ZeroRepo}
  BY DEF keyPresent
<1>2. CASE \E r \in repos : r.org = Org /\ r.id = w.repo
  <2>1. PICK r \in repos : r.org = Org /\ r.id = w.repo /\ repoName(w) = r.repo
    BY <1>2, RepoNamed, ZenonT(30)
  <2>2. \A q \in repos : q.org = Org /\ q.id = w.repo => q = r
    BY <2>1, Tabled
  <2> QED BY <1>1, <2>1, <2>2 DEF grantedRepositoryMatch, GrantedRepo
<1>3. CASE ~\E r \in repos : r.org = Org /\ r.id = w.repo
  <2>1. repoName(w) = ""
    BY <1>3, RepoNamed, ZenonT(30)
  <2> QED BY <1>3, <2>1, ScopeAssumption, ZenonT(30) DEF grantedRepositoryMatch, GrantedRepo
<1> QED BY <1>2, <1>3

\* The granted repositories.
LEMMA GrantedIs ==
    ASSUME NEW set, NEW id, keyPresent(id, "uuid")
    PROVE  GrantedRepo(set, id) <=> \E g \in grantedRepos(set) : g.id = id
BY DEF GrantedRepo, grantedRepos, grantedRepositoryMatch, OfOrg, keyPresent

\* The project path: a current owner of a project the item names owns a
\* granted repository.
LEMMA ProjectPath ==
    ASSUME TablesInv, NEW w, NEW set, NEW candidates, Kept(w, candidates)
    PROVE  keyPresent(w.project, "string") /\ projectRepositories(w, set, candidates) # {} <=> OwnerChain(w, set)
<1>1. projectRepositories(w, set, candidates) # {} <=> \E g \in grantedRepos(set) : ReachesRepo(w, g.id)
  BY ProjectRepositories
<1>2. ASSUME NEW g \in grantedRepos(set), ReachesRepo(w, g.id), w.project # Null PROVE OwnerChain(w, set)
  <2>1. PICK p \in Named(w.provider, w.project) : \E o \in tro :
          o.repo = g.id /\ OwnedRepo(o.team, g.id) /\ Owns(o.team, p)
    BY <1>2 DEF ReachesRepo
  <2>2. PICK o \in tro : o.repo = g.id /\ OwnedRepo(o.team, g.id) /\ Owns(o.team, p)
    BY <2>1
  <2>3. GrantedRepo(set, g.id)
    BY <1>2, GrantedIs DEF ReachesRepo
  <2> QED BY <1>2, <2>2, <2>3 DEF OwnerChain
<1>3. ASSUME OwnerChain(w, set) PROVE \E g \in grantedRepos(set) : ReachesRepo(w, g.id)
  <2>1. PICK p \in Named(w.provider, w.project) : \E o \in tro :
          Owns(o.team, p) /\ OwnedRepo(o.team, o.repo) /\ GrantedRepo(set, o.repo)
    BY <1>3 DEF OwnerChain
  <2>2. PICK o \in tro : Owns(o.team, p) /\ OwnedRepo(o.team, o.repo) /\ GrantedRepo(set, o.repo)
    BY <2>1
  <2>3. keyPresent(o.repo, "uuid")
    BY <2>2 DEF GrantedRepo, keyPresent
  <2>4. PICK g \in grantedRepos(set) : g.id = o.repo
    BY <2>2, <2>3, GrantedIs
  <2> QED BY <2>2, <2>3, <2>4 DEF ReachesRepo
<1>4. keyPresent(w.project, "string") <=> w.project # Null
  BY DEF keyPresent
<1> QED BY <1>1, <1>2, <1>3, <1>4 DEF OwnerChain

\* The link path: the provider links the item to a granted repository.
LEMMA LinkPath ==
    ASSUME NEW w, NEW set, NEW candidates, candidates = NoCandidates \/ w.id \in candidates
    PROVE  linkRepositories(w, set, candidates) # {} <=> NativeLink(w, set)
<1>1. linkRepositories(w, set, candidates) # {} <=> \E m \in linkRows(w, set, NoCandidates) : m[1].provenance = "native"
  BY LinkRows DEF linkRepositories
<1>2. ASSUME NEW m \in linkRows(w, set, NoCandidates), m[1].provenance = "native" PROVE NativeLink(w, set)
  <2>1. /\ m[1] \in links /\ m[1].org = Org /\ m[2] \in grantedRepos(set) /\ m[1].item = w.id
        /\ keyPresent(m[1].item, "string") /\ keyPresent(m[1].repo, "uuid") /\ m[2].id = m[1].repo
    BY DEF linkRows, OfOrg
  <2>2. GrantedRepo(set, m[1].repo)
    BY <2>1, GrantedIs
  <2>3. w.id # Null
    BY <2>1 DEF keyPresent
  <2> QED BY <1>2, <2>1, <2>2, <2>3 DEF NativeLink
<1>3. ASSUME NativeLink(w, set) PROVE \E m \in linkRows(w, set, NoCandidates) : m[1].provenance = "native"
  <2>1. PICK l \in links : l.org = Org /\ l.item = w.id /\ l.provenance = "native" /\ GrantedRepo(set, l.repo)
    BY <1>3 DEF NativeLink
  <2>2. keyPresent(l.repo, "uuid") /\ keyPresent(l.item, "string")
    BY <1>3, <2>1 DEF GrantedRepo, keyPresent, NativeLink
  <2>3. PICK g \in grantedRepos(set) : g.id = l.repo
    BY <2>1, <2>2, GrantedIs
  <2>4. <<l, g>> \in linkRows(w, set, NoCandidates)
    BY <2>1, <2>2, <2>3 DEF linkRows, OfOrg
  <2> QED BY <2>1, <2>4
<1> QED BY <1>1, <1>2, <1>3

\* What a path may name as evidence is in the grant.
LEMMA Evidence ==
    ASSUME TablesInv, NEW w, NEW set, NEW candidates,
           NEW s \in projectRepositories(w, set, candidates) \cup linkRepositories(w, set, candidates)
    PROVE  valid[s] /\ repositorySelectorMatchOver(set, s)
<1>1. \E g \in grantedRepos(set) : s = slug[g.repo]
  <2>1. CASE s \in projectRepositories(w, set, candidates)
    BY <2>1, ProjectRepositories
  <2>2. CASE s \in linkRepositories(w, set, candidates)
    BY <2>2 DEF linkRepositories, linkRows
  <2> QED BY <2>1, <2>2
<1> QED BY <1>1 DEF grantedRepos, grantedRepositoryMatch

\* The three repository paths of one row.
LEMMA RowPaths ==
    ASSUME TablesInv, NEW w \in OfOrg(Items, Org), NEW scope, NEW candidates, scope.selectors # NoSet
    PROVE  LET set == scope.selectors
               repoLess == w.repo \in {Null, ZeroRepo}
               open == restrictions(w, scope)
               whole == candidates = NoCandidates \/ w.id \in candidates
               paths == provenance(w, scope, candidates)
           IN /\ "direct_repo" \in paths <=> open /\ ~repoLess /\ GrantedRepo(set, w.repo)
              /\ whole => ("project_ownership" \in paths <=> open /\ repoLess /\ OwnerChain(w, set))
              /\ whole => ("pr_link" \in paths <=> open /\ repoLess /\ NativeLink(w, set))
<1> DEFINE set == scope.selectors
           repoLess == w.repo \in {Null, ZeroRepo}
           open == restrictions(w, scope)
           whole == candidates = NoCandidates \/ w.id \in candidates
           paths == provenance(w, scope, candidates)
<1>1. keyPresent(w.repo, "uuid") <=> ~repoLess
  BY DEF keyPresent
<1>2. w.org = Org
  BY DEF OfOrg
<1>3. \A path \in Paths : path \in paths <=> pathTaken(w, path, set, candidates) /\ open
  BY DEF provenance
<1> HIDE DEF paths, open, repoLess, set
<1>4. "direct_repo" \in paths <=> open /\ ~repoLess /\ GrantedRepo(set, w.repo)
  <2>1. pathTaken(w, "direct_repo", set, candidates) <=> keyPresent(w.repo, "uuid") /\ grantedRepositoryMatch(set, repoName(w))
    BY DEF pathTaken
  <2> QED BY <1>1, <1>2, <1>3, <2>1, DirectMatch DEF Paths
<1>5. whole => ("project_ownership" \in paths <=> open /\ repoLess /\ OwnerChain(w, set))
  <2>1. pathTaken(w, "project_ownership", set, candidates) <=>
          /\ ~keyPresent(w.repo, "uuid") /\ keyPresent(w.project, "string")
          /\ projectRepositories(w, set, candidates) # {}
    BY DEF pathTaken
  <2>2. whole => Kept(w, candidates)
    BY CandidateKept
  <2> QED BY <1>1, <1>3, <2>1, <2>2, ProjectPath, ZenonT(30) DEF Paths
<1>6. whole => ("pr_link" \in paths <=> open /\ repoLess /\ NativeLink(w, set))
  <2>1. pathTaken(w, "pr_link", set, candidates) <=>
          ~keyPresent(w.repo, "uuid") /\ linkRepositories(w, set, candidates) # {}
    BY DEF pathTaken
  <2> QED BY <1>1, <1>3, <2>1, LinkPath DEF Paths
<1> QED BY <1>4, <1>5, <1>6 DEF paths, open, repoLess, set

\* The evidence of one path.
LEMMA RowEvidence ==
    ASSUME TablesInv, NEW w \in OfOrg(Items, Org), NEW scope, NEW candidates,
           NEW p \in provenance(w, scope, candidates) \ {"organization_grant"}
    PROVE  /\ evidence(w, p, scope, candidates) # {}
           /\ \A s \in evidence(w, p, scope, candidates) : valid[s] /\ repositorySelectorMatchOver(scope.selectors, s)
<1> DEFINE set == scope.selectors
<1>1. p \in {"direct_repo", "project_ownership", "pr_link"} /\ pathTaken(w, p, set, candidates)
  BY DEF provenance, Paths
<1>2. CASE p = "direct_repo"
  <2>1. evidence(w, p, scope, candidates) = {slug[repoName(w)]}
    BY <1>2 DEF evidence
  <2>2. grantedRepositoryMatch(set, repoName(w))
    BY <1>1, <1>2 DEF pathTaken
  <2> QED BY <2>1, <2>2 DEF grantedRepositoryMatch
<1>3. CASE p = "project_ownership"
  <2>1. evidence(w, p, scope, candidates) = projectRepositories(w, set, candidates)
    BY <1>3 DEF evidence
  <2>2. projectRepositories(w, set, candidates) # {}
    BY <1>1, <1>3 DEF pathTaken
  <2> QED BY <2>1, <2>2, Evidence
<1>4. CASE p = "pr_link"
  <2>1. evidence(w, p, scope, candidates) = linkRepositories(w, set, candidates)
    BY <1>4 DEF evidence
  <2>2. linkRepositories(w, set, candidates) # {}
    BY <1>1, <1>4 DEF pathTaken
  <2> QED BY <2>1, <2>2, Evidence
<1> QED BY <1>1, <1>2, <1>3, <1>4

\* A grant or a request that matches a name lists something.
LEMMA MatchLists ==
    ASSUME NEW set, NEW s, repositorySelectorMatchOver(set, s)
    PROVE  set.slugs # {} \/ set.owners # {}
BY DEF repositorySelectorMatchOver, normalizeRepositorySlugs, normalizeRepositoryOwners

\* A grant that opens a path is not empty.
LEMMA PathLists ==
    ASSUME TablesInv, NEW w, NEW set, NEW candidates, NEW path \in Paths, pathTaken(w, path, set, candidates)
    PROVE  set.all \/ set.slugs # {} \/ set.owners # {}
<1>1. CASE path = "organization_grant"
  BY <1>1 DEF pathTaken
<1>2. CASE path = "direct_repo"
  BY <1>2, MatchLists DEF pathTaken, grantedRepositoryMatch
<1>3. CASE path = "project_ownership"
  <2>1. projectRepositories(w, set, candidates) # {}
    BY <1>3 DEF pathTaken
  <2> QED BY <2>1, Evidence, MatchLists
<1>4. CASE path = "pr_link"
  <2>1. linkRepositories(w, set, candidates) # {}
    BY <1>4 DEF pathTaken
  <2> QED BY <2>1, Evidence, MatchLists
<1> QED BY <1>1, <1>2, <1>3, <1>4 DEF Paths

\* What the restrictions of one authorized item imply.
LEMMA Restricted ==
    ASSUME TablesInv, NEW scope, NEW candidates, NEW w \in OfOrg(Items, Org),
           authorized(w, scope, candidates)
    PROVE  /\ authorized(w, GrantAlone(scope), candidates)
           /\ scope.requested # NoSet => \E x \in repos : x.org = Org /\ x.id = w.repo /\ slug[x.repo] # ""
           /\ scope.grantedIDs # {} /\ scope.requestedIDs # {}
           /\ \A set \in {scope.selectors, scope.requested} \ {NoSet} : set.all \/ set.slugs # {} \/ set.owners # {}
<1>1. /\ idRestrictions(w, scope)
      /\ scope.requested = NoSet \/ requestedMatch(w, scope.requested)
      /\ scope.selectors = NoSet \/ \E path \in Paths : pathTaken(w, path, scope.selectors, candidates)
  BY DEF authorized
<1>2. authorized(w, GrantAlone(scope), candidates)
  <2>1. /\ GrantAlone(scope).grantedIDs = NoList /\ GrantAlone(scope).requestedIDs = NoList
        /\ GrantAlone(scope).selectors = scope.selectors /\ GrantAlone(scope).requested = NoSet
    BY DEF GrantAlone
  <2> QED BY <1>1, <2>1, ZenonT(30) DEF authorized, idRestrictions
<1>3. ASSUME scope.requested # NoSet PROVE \E x \in repos : x.org = Org /\ x.id = w.repo /\ slug[x.repo] # ""
  <2>1. slug[repoName(w)] # ""
    BY <1>1, <1>3, ZenonT(30) DEF requestedMatch
  <2>2. repoName(w) # "" /\ w.org = Org
    BY <2>1, ScopeAssumption, ZenonT(30) DEF OfOrg
  <2> QED BY <2>1, <2>2, RepoNamed, ZenonT(30)
<1>4. scope.grantedIDs # {} /\ scope.requestedIDs # {}
  BY <1>1 DEF idRestrictions, NoList
<1>5. ASSUME scope.selectors # NoSet PROVE scope.selectors.all \/ scope.selectors.slugs # {} \/ scope.selectors.owners # {}
  BY <1>1, <1>5, PathLists
<1>6. ASSUME scope.requested # NoSet PROVE scope.requested.all \/ scope.requested.slugs # {} \/ scope.requested.owners # {}
  BY <1>1, <1>6, MatchLists, ZenonT(30) DEF requestedMatch
<1> QED BY <1>2, <1>3, <1>4, <1>5, <1>6, ZenonT(30)

-----------------------------------------------------------------------------

\* The statement WorkItemScopeSQLAmong renders discloses exactly the paths
\* there are, over the rows of any size a job may have written: a repository
\* path holds when the repository, a current owner of a project the item
\* names, or a link the provider recorded says so, it names the granted
\* repositories it rests on, and a row is authorized when a path is.
THEOREM PathsDisclosed == TablesSpec => []PathsExact
<1>1. TablesInv => PathsExact
  <2> SUFFICES ASSUME TablesInv PROVE PathsExact
    OBVIOUS
  <2>1. ASSUME NEW v, NEW s, NEW c
        PROVE  /\ rowOf(v, s, c).item = v /\ (rowOf(v, s, c).authorized <=> authorized(v, s, c))
               /\ rowOf(v, s, c).paths = provenance(v, s, c)
               /\ \A p \in Paths : rowOf(v, s, c).evidence[p] = evidence(v, p, s, c)
    <3>1. rowOf(v, s, c).item = v /\ rowOf(v, s, c).paths = provenance(v, s, c)
      BY DEF rowOf
    <3>2. rowOf(v, s, c).authorized <=> authorized(v, s, c)
      BY DEF rowOf
    <3>3. \A p \in Paths : rowOf(v, s, c).evidence[p] = evidence(v, p, s, c)
      BY DEF rowOf
    <3> QED BY <3>1, <3>2, <3>3
  <2>2. PathsAreReal
    <3> SUFFICES ASSUME NEW scope \in world.scopes, NEW candidates \in world.candidates, scope.selectors # NoSet,
                        NEW r \in Read(scope, candidates)
                 PROVE  LET w == r.item
                            set == scope.selectors
                            repoLess == w.repo \in {Null, ZeroRepo}
                            open == restrictions(w, scope)
                            whole == candidates = NoCandidates \/ w.id \in candidates
                        IN /\ "direct_repo" \in r.paths <=> open /\ ~repoLess /\ GrantedRepo(set, w.repo)
                           /\ whole => ("project_ownership" \in r.paths <=> open /\ repoLess /\ OwnerChain(w, set))
                           /\ whole => ("pr_link" \in r.paths <=> open /\ repoLess /\ NativeLink(w, set))
      BY ZenonT(30) DEF PathsAreReal
    <3>1. PICK v \in OfOrg(Items, Org) : r = rowOf(v, scope, candidates)
      BY DEF Read
    <3>2. r.item = v /\ r.paths = provenance(v, scope, candidates)
      BY <2>1, <3>1
    <3> QED BY <3>2, RowPaths, ZenonT(30)
  <2>3. ASSUME NEW scope \in world.scopes, NEW candidates \in world.candidates, NEW r \in Read(scope, candidates)
        PROVE  /\ r.item.org = Org
               /\ scope.selectors # NoSet => (r.authorized <=> r.paths # {})
               /\ \A p \in r.paths \ {"organization_grant"} :
                    /\ r.evidence[p] # {}
                    /\ \A s \in r.evidence[p] : valid[s] /\ repositorySelectorMatchOver(scope.selectors, s)
    <3>1. PICK v \in OfOrg(Items, Org) : r = rowOf(v, scope, candidates)
      BY DEF Read
    <3>2. /\ r.item = v /\ (r.authorized <=> authorized(v, scope, candidates)) /\ r.paths = provenance(v, scope, candidates)
          /\ \A p \in Paths : r.evidence[p] = evidence(v, p, scope, candidates)
      BY <2>1, <3>1
    <3>3. r.item.org = Org
      BY <3>2 DEF OfOrg
    <3>4. scope.selectors # NoSet => (authorized(v, scope, candidates) <=> provenance(v, scope, candidates) # {})
      BY DEF authorized, provenance, restrictions
    <3>5. provenance(v, scope, candidates) \subseteq Paths
      BY DEF provenance
    <3>6. scope.selectors # NoSet => (r.authorized <=> r.paths # {})
      BY <3>2, <3>4
    <3>7. ASSUME NEW p \in r.paths \ {"organization_grant"}
          PROVE  /\ r.evidence[p] # {}
                 /\ \A s \in r.evidence[p] : valid[s] /\ repositorySelectorMatchOver(scope.selectors, s)
      <4>1. p \in provenance(v, scope, candidates) \ {"organization_grant"}
        BY <3>2
      <4>2. /\ evidence(v, p, scope, candidates) # {}
            /\ \A s \in evidence(v, p, scope, candidates) : valid[s] /\ repositorySelectorMatchOver(scope.selectors, s)
        BY <4>1, RowEvidence, ZenonT(30)
      <4>3. r.evidence[p] = evidence(v, p, scope, candidates)
        BY <3>2, <3>5, <4>1
      <4> QED BY <4>2, <4>3
    <3> QED BY <3>3, <3>6, <3>7
  <2> QED BY <2>2, <2>3 DEF PathsExact
<1> QED BY <1>1, TablesKept, PTL

\* Neither candidates nor restrictions widen a read, whatever the tables
\* hold: narrowing the aggregates leaves a candidate's row as it is, and what
\* a restricted read admits the grant alone admits (WorkItemCandidates and
\* the dimensions of WorkItemScope).
THEOREM RestrictionsNarrow == TablesSpec => []RestrictionsOnlyNarrow
<1>1. TablesInv => RestrictionsOnlyNarrow
  BY Narrowing, Restricted, ZenonT(30) DEF RestrictionsOnlyNarrow
<1> QED BY <1>1, TablesKept, PTL
=============================================================================
