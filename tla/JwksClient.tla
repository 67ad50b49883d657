------------------------------ MODULE JwksClient ------------------------------
(***************************************************************************)
(* authverify.JWKSClient: the cached key set of one pinned issuer, with    *)
(* one shared, floor-spaced refresh and an outage grace.                   *)
(*                                                                         *)
(* Each critical section is one step.  A clock reading passed to `cached`  *)
(* is taken before its lock, so it is a step of its own, and so is closing *)
(* a flight's channel, which happens after the unlock.                     *)
(***************************************************************************)
EXTENDS KeyDocument

CONSTANTS
    Caller,       \* goroutines that call ResolveKey or Refresh
    Kid,          \* the key identifiers asked for
    Document,     \* the JWKS documents the issuer may serve
    FirstDocument, \* the ones it may start with
    MaxKeys,      \* JWKSClientConfig, as the durations below, in clock ticks
    CacheTTL,
    RefreshFloor,
    OutageGrace,
    Timeout,
    MaxNow,       \* bound: the clock
    MaxCalls,     \* bound: calls begun
    MaxRotations  \* bound: key rotations at the issuer

ASSUME JwksAssumption ==
    /\ CacheTTL \in Nat \ {0} /\ OutageGrace \in Nat /\ Timeout \in Nat
    /\ RefreshFloor \in Nat /\ RefreshFloor <= CacheTTL
    /\ MaxKeys \in Nat \ {0} /\ FirstDocument \subseteq Document /\ Kid # {}
    /\ \A doc \in Document : DOMAIN doc.keys = 1 .. Len(doc.keys) /\ Len(doc.keys) \in Nat
    /\ MaxNow \in Nat /\ MaxCalls \in Nat /\ MaxRotations \in Nat

VARIABLES
    cache,      \* the fields of JWKSClient under mu
    closed,     \* the flights whose done channel is closed
    call,       \* per caller, the locals of its call
    now,        \* the clock
    published,  \* the document the issuer serves
    flights,    \* the start times of all fetches so far; they number the flights
    begun,      \* bound counter: calls
    rotations   \* bound counter: rotations

vars == <<cache, closed, call, now, published, flights, begun, rotations>>

NoFlight == 0

NoDocument == [keys |-> <<>>, trailing |-> FALSE]

\* asOf and document (history) say when the issuer served the keys, in what.
EmptyCache == [loaded |-> FALSE, keys |-> <<>>, document |-> NoDocument, fetchedAt |-> 0, asOf |-> 0, attempted |-> FALSE,
               lastAttempt |-> 0, inflight |-> NoFlight, failed |-> FALSE]

\* sure (history): the cache has held the kid ever since the call began.
Idle == [pc |-> "idle", op |-> "resolve", kid |-> CHOOSE k \in Kid : TRUE, reading |-> 0,
         flight |-> NoFlight, got |-> NoDocument, asOf |-> 0, result |-> "none", sure |-> FALSE]

Init ==
    /\ cache = EmptyCache
    /\ closed = {}
    /\ call = [c \in Caller |-> Idle]
    /\ now = 0
    /\ published \in FirstDocument
    /\ flights = <<>>
    /\ begun = 0 /\ rotations = 0

-----------------------------------------------------------------------------

\* Mutant: no grace after a failed refresh.
CachedNoGrace(kid, t, afterRefresh) ==
    cache.loaded /\ t - cache.fetchedAt < CacheTTL /\ kid \in DOMAIN cache.keys

\* Inside the TTL the cache; past it, after a refresh, inside the grace.
Cached(kid, t, afterRefresh) ==
    LET age == t - cache.fetchedAt
    IN  /\ cache.loaded
        /\ age < CacheTTL \/ (afterRefresh /\ age < CacheTTL + OutageGrace)
        /\ kid \in DOMAIN cache.keys

\* Mutant: only a fetch that lands counts against the floor.
TooSoonAfterSuccess(t) == cache.loaded /\ t - cache.fetchedAt < RefreshFloor

TooSoon(t) == cache.attempted /\ t - cache.lastAttempt < RefreshFloor

\* Mutant: a failed fetch renews the keys it could not replace.
LandedRenewed(cl, ok) ==
    [cache EXCEPT !.loaded = @ \/ ok, !.keys = IF ok THEN parseJWKS(cl.got) ELSE @,
                  !.document = IF ok THEN cl.got ELSE @,
                  !.fetchedAt = now, !.asOf = IF ok THEN cl.asOf ELSE @,
                  !.failed = ~ok, !.inflight = NoFlight]

\* Mutant: the age is counted from the start of the fetch.
LandedFromStart(cl, ok) ==
    [cache EXCEPT !.loaded = @ \/ ok, !.keys = IF ok THEN parseJWKS(cl.got) ELSE @,
                  !.document = IF ok THEN cl.got ELSE @,
                  !.fetchedAt = IF ok THEN cache.lastAttempt ELSE @,
                  !.asOf = IF ok THEN cl.asOf ELSE @, !.failed = ~ok, !.inflight = NoFlight]

\* Mutant: the flight is not cleared when the fetch failed.
LandedStillFlying(cl, ok) ==
    [cache EXCEPT !.loaded = @ \/ ok, !.keys = IF ok THEN parseJWKS(cl.got) ELSE @,
                  !.document = IF ok THEN cl.got ELSE @,
                  !.fetchedAt = IF ok THEN now ELSE @, !.asOf = IF ok THEN cl.asOf ELSE @,
                  !.failed = ~ok, !.inflight = IF ok THEN NoFlight ELSE @]

\* Mutant: the error of a failed fetch is not kept.
LandedSilently(cl, ok) ==
    [cache EXCEPT !.loaded = @ \/ ok, !.keys = IF ok THEN parseJWKS(cl.got) ELSE @,
                  !.document = IF ok THEN cl.got ELSE @,
                  !.fetchedAt = IF ok THEN now ELSE @, !.asOf = IF ok THEN cl.asOf ELSE @,
                  !.inflight = NoFlight]

\* refresh, after the fetch: its keys replace the old ones as of the time it
\* lands, a failure keeps them.
Landed(cl, ok) ==
    [cache EXCEPT !.loaded = @ \/ ok, !.keys = IF ok THEN parseJWKS(cl.got) ELSE @,
                  !.document = IF ok THEN cl.got ELSE @,
                  !.fetchedAt = IF ok THEN now ELSE @, !.asOf = IF ok THEN cl.asOf ELSE @,
                  !.failed = ~ok, !.inflight = NoFlight]

Close(f) == closed \cup {f}

Step(c, cl) ==
    /\ call' = [call EXCEPT ![c] = cl]
    /\ UNCHANGED <<now, published, begun, rotations>>

-----------------------------------------------------------------------------

\* A call begins; PublicKey and ResolveKey read the clock for the first lookup.
Begin(c) ==
    /\ call[c].pc = "idle"
    /\ begun < MaxCalls
    /\ begun' = begun + 1
    /\ \/ \E k \in Kid : call' = [call EXCEPT ![c] =
              [Idle EXCEPT !.pc = "look", !.kid = k, !.reading = now,
                           !.sure = cache.loaded /\ k \in DOMAIN cache.keys]]
       \/ call' = [call EXCEPT ![c] = [Idle EXCEPT !.pc = "refresh", !.op = "refresh"]]
    /\ UNCHANGED <<cache, closed, now, published, flights, rotations>>

Look(c) ==
    LET cl == call[c]
    IN  /\ cl.pc = "look"
        /\ Step(c, IF Cached(cl.kid, cl.reading, FALSE)
                   THEN [cl EXCEPT !.pc = "return", !.result = "key", !.asOf = cache.asOf]
                   ELSE [cl EXCEPT !.pc = "refresh", !.reading = 0])
        /\ UNCHANGED <<cache, closed, flights>>

\* Where a call goes on after refresh() returns.
AfterRefresh(cl) == IF cl.op = "resolve" THEN "read" ELSE "return"

\* refresh, its first critical section: join the flight, refuse inside the
\* floor, or become the flight.
Refresh(c) ==
    LET cl == call[c]
        flight == Len(flights) + 1
    IN  /\ cl.pc = "refresh"
        /\ \/ /\ cache.inflight # NoFlight
              /\ Step(c, [cl EXCEPT !.pc = "wait", !.flight = cache.inflight])
              /\ UNCHANGED <<cache, flights>>
           \/ /\ cache.inflight = NoFlight
              /\ TooSoon(now)
              /\ Step(c, [cl EXCEPT !.pc = AfterRefresh(cl)])
              /\ UNCHANGED <<cache, flights>>
           \/ /\ cache.inflight = NoFlight
              /\ ~TooSoon(now)
              /\ Step(c, [cl EXCEPT !.pc = "fetch", !.flight = flight])
              /\ cache' = [cache EXCEPT !.inflight = flight, !.lastAttempt = now,
                                        !.attempted = TRUE]
              /\ flights' = Append(flights, now)
        /\ UNCHANGED closed

\* Mutant: only a fetch that landed wakes its waiters.
WakeOnKeys(c) ==
    LET cl == call[c]
    IN  /\ cl.pc = "wait"
        /\ cl.flight \in closed
        /\ ~cache.failed
        /\ Step(c, [cl EXCEPT !.pc = AfterRefresh(cl), !.flight = NoFlight])
        /\ UNCHANGED <<cache, closed, flights>>

Wake(c) ==
    LET cl == call[c]
    IN  /\ cl.pc = "wait"
        /\ cl.flight \in closed
        /\ Step(c, [cl EXCEPT !.pc = AfterRefresh(cl), !.flight = NoFlight])
        /\ UNCHANGED <<cache, closed, flights>>

\* fetch, its end: the document parses, with no more keys than allowed.
Usable(doc) == parseJWKS(doc) # Invalid /\ Cardinality(DOMAIN parseJWKS(doc)) <= MaxKeys

\* fetch: the issuer answers with the document it serves now.
Answer(c) ==
    LET cl == call[c]
    IN  /\ cl.pc = "fetch"
        /\ Step(c, [cl EXCEPT !.pc = "fetched", !.got = published, !.asOf = now])
        /\ UNCHANGED <<cache, closed, flights>>

\* fetch returned: with keys, or with an error (transport, status, size, a
\* discovery document the contract refuses, a key set that is not usable).
Land(c) ==
    LET cl == call[c]
    IN  /\ cl.pc \in {"fetch", "fetched"}
        /\ \E ok \in BOOLEAN :
              /\ ok => cl.pc = "fetched" /\ Usable(cl.got)
              /\ cache' = Landed(cl, ok)
              /\ call' = [d \in Caller |->
                    IF d = c THEN [cl EXCEPT !.pc = "close", !.got = NoDocument, !.asOf = 0,
                                             !.sure = @ /\ (ok => cl.kid \in DOMAIN parseJWKS(cl.got))]
                    ELSE [call[d] EXCEPT !.sure = @ /\ (ok => call[d].kid \in DOMAIN parseJWKS(cl.got))]]
        /\ UNCHANGED <<closed, now, published, flights, begun, rotations>>

CloseFlight(c) ==
    LET cl == call[c]
    IN  /\ cl.pc = "close"
        /\ closed' = Close(cl.flight)
        /\ Step(c, [cl EXCEPT !.pc = AfterRefresh(cl), !.flight = NoFlight])
        /\ UNCHANGED <<cache, flights>>

\* The clock reading of the second lookup.
Read(c) ==
    LET cl == call[c]
    IN  /\ cl.pc = "read"
        /\ Step(c, [cl EXCEPT !.pc = "lookAgain", !.reading = now])
        /\ UNCHANGED <<cache, closed, flights>>

\* The second lookup, which ends PublicKey.
LookAgain(c) ==
    LET cl == call[c]
    IN  /\ cl.pc = "lookAgain"
        /\ Step(c, IF Cached(cl.kid, cl.reading, TRUE)
                   THEN [cl EXCEPT !.pc = "return", !.result = "key", !.asOf = cache.asOf]
                   ELSE [cl EXCEPT !.pc = "missed",
                                   !.sure = @ /\ cl.reading < cache.fetchedAt + CacheTTL + OutageGrace])
        /\ UNCHANGED <<cache, closed, flights>>

\* ResolveKey's second critical section: what the miss means.
Missed(c) ==
    LET cl == call[c]
    IN  /\ cl.pc = "missed"
        /\ Step(c, [cl EXCEPT !.pc = "return",
                              !.result = IF cache.failed THEN "unavailable" ELSE "unknown"])
        /\ UNCHANGED <<cache, closed, flights>>

Return(c) ==
    /\ call[c].pc = "return"
    /\ Step(c, Idle)
    /\ UNCHANGED <<cache, closed, flights>>

\* The issuer rotates its keys (external).
Rotate ==
    /\ rotations < MaxRotations
    /\ rotations' = rotations + 1
    /\ published' \in Document \ {published}
    /\ UNCHANGED <<cache, closed, call, now, flights, begun>>

\* Time passes; fetch's context ends a fetch after Timeout.
Tick ==
    /\ now < MaxNow
    /\ \A c \in Caller :
          call[c].pc \in {"fetch", "fetched"} => now < flights[call[c].flight] + Timeout
    /\ now' = now + 1
    /\ UNCHANGED <<cache, closed, call, published, flights, begun, rotations>>

CallStep(c) ==
    \/ Look(c) \/ Refresh(c) \/ Wake(c) \/ Answer(c) \/ Land(c) \/ CloseFlight(c)
    \/ Read(c) \/ LookAgain(c) \/ Missed(c) \/ Return(c)

Next ==
    \/ \E c \in Caller : Begin(c) \/ CallStep(c)
    \/ Rotate
    \/ Tick

\* A running goroutine keeps running and the timeout ends every fetch.
Fairness == \A c \in Caller : WF_vars(CallStep(c))

Spec == Init /\ [][Next]_vars /\ Fairness

-----------------------------------------------------------------------------

Fetching == {"fetch", "fetched"}

CallType(cl) ==
    /\ cl.pc \in {"idle", "look", "refresh", "wait", "close", "read", "lookAgain", "missed",
                  "return"} \cup Fetching
    /\ cl.op \in {"resolve", "refresh"}
    /\ cl.kid \in Kid
    /\ cl.reading \in Nat /\ cl.reading <= now
    /\ cl.flight \in 0 .. Len(flights)
    /\ cl.got \in Document \cup {NoDocument}
    /\ cl.asOf \in Nat /\ cl.asOf <= now
    /\ cl.result \in {"none", "key", "unavailable", "unknown"}
    /\ cl.sure \in BOOLEAN

\* The types of the client's state.  The keys' age counts from a time no
\* earlier than the one the issuer served them at.
TypeOK ==
    /\ cache.loaded \in BOOLEAN /\ cache.attempted \in BOOLEAN /\ cache.failed \in BOOLEAN
    /\ cache.loaded => cache.document \in Document /\ Cardinality(DOMAIN cache.keys) <= MaxKeys
    /\ cache.fetchedAt \in Nat /\ cache.fetchedAt <= now
    /\ cache.asOf \in Nat /\ cache.asOf <= cache.fetchedAt
    /\ cache.lastAttempt \in Nat /\ cache.lastAttempt <= now
    /\ cache.inflight \in 0 .. Len(flights)
    /\ closed \subseteq 1 .. Len(flights)
    /\ now \in Nat /\ begun \in Nat /\ rotations \in Nat
    /\ published \in Document
    /\ flights \in Seq(Nat)
    /\ \A c \in Caller : CallType(call[c])

\* One fetch at a time: exactly the caller whose flight the client holds is
\* fetching, and the flight a caller waits for is that one, or is about to be
\* closed by its owner, or is closed: no wake-up is lost in the gap between
\* the unlock of refresh and its close of the channel.  RefreshFloor "is the
\* minimum time between two fetch attempts, success or failure", over all
\* callers of ResolveKey and Refresh.  The state keeps its types.
SingleFetch ==
    /\ TypeOK
    /\ \A c \in Caller : call[c].pc \in Fetching => call[c].flight = cache.inflight
    /\ \A c, d \in Caller : call[c].pc \in Fetching /\ call[d].pc \in Fetching => c = d
    /\ cache.inflight # NoFlight => \E c \in Caller : call[c].pc \in Fetching
    /\ \A c \in Caller : call[c].pc = "wait" =>
          \/ call[c].flight = cache.inflight
          \/ call[c].flight \in closed
          \/ \E d \in Caller : call[d].pc = "close" /\ call[d].flight = call[c].flight
    /\ \A i \in 1 .. Len(flights) - 1 : flights[i + 1] - flights[i] >= RefreshFloor

\* "the last good keys stay usable when refreshes fail", to the end of the
\* grace and no longer.  A call for a kid the cache holds all along returns
\* its key until the grace has run out, whatever its own and the other
\* callers' refreshes come to.  A key that is returned was served by the
\* issuer less than CacheTTL, OutageGrace and one fetch's Timeout before the
\* clock reading of its lookup: the longest a withdrawn key can outlive its
\* withdrawal.  And a kid is reported unknown only by a client that has had a
\* key set: before the first successful fetch a miss is unavailable.
KeysThroughOutage ==
    \A c \in Caller : call[c].pc = "return" =>
        /\ call[c].sure => call[c].result = "key"
        /\ call[c].result = "key" => call[c].reading - call[c].asOf < CacheTTL + OutageGrace + Timeout
        /\ call[c].result = "unknown" => cache.loaded

\* The keys in use are one whole document the issuer served, read in the only
\* way it can be read: nothing of a document the parser refuses is adopted,
\* and no document is adopted of which another reader could make other keys.
\* The two paths "cannot disagree about a document": what the issuer serves
\* means the same on disk, where retire_after is admitted besides.
KeysAreOneDocument ==
    /\ cache.loaded => Readings(cache.document) = {cache.keys}
    /\ parseJWKS(published) # Invalid => Keys(published) = parseJWKS(published)
    /\ Keys(published) # Invalid =>
          /\ Readings(published) = {Keys(published)}
          /\ \/ Keys(published) = parseJWKS(published)
             \/ \E i \in DOMAIN published.keys : published.keys[i].retire # "absent"

\* Every call returns: a waiter is woken when the flight it joined is closed.
CallsReturn ==
    \A c \in Caller : call[c].pc \in {"look", "refresh"} ~> call[c].pc \in {"return", "idle"}

\* What the comment on ResolveKey says, a miss is unavailable when the last
\* fetch failed, "else the kid is unknown": no kid is reported unknown that
\* the client's key set holds.
UnknownIsUnknown ==
    [][\A c \in Caller :
          call[c].result # "unknown" /\ call'[c].result = "unknown" =>
              call[c].kid \notin DOMAIN cache.keys]_vars

=============================================================================
