----------------------------- MODULE ClientOptions -----------------------------
(***************************************************************************)
(* clickhouse.Options and what becomes of them: the client that            *)
(* NewClickHouseQueryClientWithOptions opens, or its refusal, and the      *)
(* settings its queries and the readers' statements are sent with.         *)
(*                                                                         *)
(* Options are [dsn, tls, queryTimeout, maxExecutionTime, maxOpenConns,    *)
(* maxResultRows, maxBytesToRead].  The DSN is [scheme, settings, tls,     *)
(* maxOpenConns]; a tls.Config is "none", "verify" or "skip"; a ceiling is *)
(* Unset (a nil pointer) or a number, of which 0 lifts it.                 *)
(***************************************************************************)
EXTENDS Integers

CONSTANTS
    MaxInt,                   \* the largest int64
    Second,                   \* time.Second
    DefaultMaxExecutionTime,  \* seconds
    DefaultMaxOpenConns,
    DefaultMaxResultRows,
    DefaultMaxBytesToRead

ASSUME OptionsAssumption ==
    /\ Second \in Nat \ {0} /\ MaxInt \in Nat /\ Second <= MaxInt
    /\ DefaultMaxExecutionTime \in 1..MaxInt /\ DefaultMaxOpenConns \in Nat \ {0}
    /\ DefaultMaxResultRows \in Nat /\ DefaultMaxBytesToRead \in Nat

Unset == -1
NoClient == [connection |-> [maxOpenConns |-> 0, maxResultRows |-> 0, maxBytesToRead |-> 0], queryTimeout |-> 0]

\* A positive value, else the fallback.
defaultPositive(value, fallback) == IF value > 0 THEN value ELSE fallback

\* The option, else what the DSN says, else the default.
optionPositive(value, configured, fallback) == defaultPositive(value, defaultPositive(configured, fallback))

\* Mutant: every value without effect takes the default, 0 too.
resolveCeilingPositive(value, fallback) == defaultPositive(value, fallback)

\* Only an unset ceiling takes the default: 0 is sent, and lifts it.
resolveCeiling(value, fallback) == IF value = Unset THEN fallback ELSE value

\* The caller's TLS before the DSN's.
mergeTLS(preferred, fallback) == IF preferred # "none" THEN preferred ELSE fallback

\* n as an int64.
Signed(n) == LET m == n % (2 * (MaxInt + 1)) IN IF m > MaxInt THEN m - 2 * (MaxInt + 1) ELSE m

\* Mutant: a conversion and a product that may overflow.
executionDurationWraps(seconds) == Signed(Signed(seconds) * Second)

\* A number of seconds, a uint, as a time.Duration, the longest one for what
\* does not fit.
executionDuration(seconds) ==
    LET value == Signed(seconds)
    IN IF value <= 0 \/ value > MaxInt \div Second THEN MaxInt ELSE value * Second

\* The shorter of the caller's timeout and the server's limit.
queryTimeoutForOptions(opts) ==
    LET limit == executionDuration(defaultPositive(opts.maxExecutionTime, DefaultMaxExecutionTime))
    IN IF opts.queryTimeout > 0 /\ opts.queryTimeout < limit THEN opts.queryTimeout ELSE limit

\* A DSN without host or syntax, or that sets readonly itself, TLS over http
\* and TLS without verification are refused.
Refused(opts) ==
    LET tls == mergeTLS(opts.tls, opts.dsn.tls)
    IN \/ opts.dsn.scheme = "malformed"
       \/ "readonly" \in opts.dsn.settings
       \/ opts.dsn.scheme = "http" /\ tls # "none"
       \/ tls = "skip"

\* The connection's settings, from the options, the DSN and the defaults.
applyOptions(opts) ==
    [maxOpenConns   |-> optionPositive(opts.maxOpenConns, opts.dsn.maxOpenConns, DefaultMaxOpenConns),
     maxResultRows  |-> resolveCeiling(opts.maxResultRows, DefaultMaxResultRows),
     maxBytesToRead |-> resolveCeiling(opts.maxBytesToRead, DefaultMaxBytesToRead)]

NewClickHouseQueryClientWithOptions(opts) ==
    IF Refused(opts) THEN NoClient
    ELSE [connection |-> applyOptions(opts), queryTimeout |-> queryTimeoutForOptions(opts)]

-----------------------------------------------------------------------------

\* The overflow mode of a server that is sent none.
ServerMode == "throw"

\* Mutant: the result ceiling of a statement breaks off the answer.
RenderBreak(settings) ==
    [name \in {n \in DOMAIN settings : settings[n] # 0} |->
        [limit |-> settings[name], mode |-> "break"]]

\* Settings.Render: the ceilings that are not zero, each with its overflow mode.
Render(settings) ==
    [name \in {n \in DOMAIN settings : settings[n] # 0} |->
        [limit |-> settings[name], mode |-> "throw"]]

\* The ceiling the server applies: the statement's before the connection's.
InForce(name, clause, connection) ==
    IF name \in DOMAIN clause THEN clause[name] ELSE [limit |-> connection, mode |-> ServerMode]

\* The rows the server sends of n: all within the ceiling, none of a query it
\* fails, the first ones when it breaks off.
Sent(n, ceiling) ==
    IF ceiling.limit = 0 \/ n <= ceiling.limit THEN {n}
    ELSE IF ceiling.mode = "throw" THEN {} ELSE {ceiling.limit}
===============================================================================
