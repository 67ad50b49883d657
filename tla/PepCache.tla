------------------------------ MODULE PepCache ------------------------------
(***************************************************************************)
(* pep.CachedClient: the bounded, allow-only decision cache in front of    *)
(* the policy decision point (PDP).                                        *)
(*                                                                         *)
(* The struct's mutex-protected fields are the record `cache`; every       *)
(* method that runs under the mutex is an operator from a cache to a       *)
(* cache, and every lock region is one step.  The steps of one Decide or   *)
(* DecideBatch call (get per item, stamp, PDP call, observe per item,      *)
(* belowWatermark) interleave with those of other callers, with            *)
(* InvalidateAll, with Close and with the clock.                           *)
(***************************************************************************)
EXTENDS Integers, Sequences, FiniteSets

CONSTANTS
    Key,          \* cache keys: hashes of principal, action, resource, organization
    Caller,       \* goroutines that call Decide or DecideBatch
    MaxEntries,   \* CacheConfig.MaxEntries
    MaxTTL,       \* CacheConfig.MaxTTL, in clock ticks
    Batches,      \* the request lists DecideBatch is called with, none empty
    Revision,     \* policy revisions the PDP may answer with
    Lifetime,     \* expires_at minus the time the decision is read
    MaxNow,       \* bound: the clock
    MaxCalls,     \* bound: calls begun
    MaxFlushes    \* bound: InvalidateAll calls

ASSUME CacheAssumption ==
    /\ IsFiniteSet(Key)
    /\ MaxEntries \in Nat \ {0}
    /\ MaxTTL \in Nat \ {0}
    /\ Batches \subseteq Seq(Key) \ {<<>>}
    /\ Revision \subseteq Nat
    /\ Lifetime \subseteq Int
    /\ MaxNow \in Nat /\ MaxCalls \in Nat /\ MaxFlushes \in Nat

VARIABLES
    cache,     \* the fields of CachedClient under mu
    call,      \* per caller, the local variables of its running call
    now,       \* the clock behind cfg.Now
    begun,     \* bound counter: calls begun
    flushes,   \* bound counter: InvalidateAll calls
    mayStore   \* history: keys each in-flight PDP call is still entitled to store

vars == <<cache, call, now, begun, flushes, mayStore>>

-----------------------------------------------------------------------------
(* Decisions.  The zero Decision is a local deny (reason pdp_no_decision). *)

Decision == [local: BOOLEAN, allowed: BOOLEAN, cacheable: BOOLEAN, rev: Nat, exp: Int]

NoDecision ==
    [local |-> TRUE, allowed |-> FALSE, cacheable |-> FALSE, rev |-> 0, exp |-> 0]

\* A checked PDP document read at time t; Cacheable is fixed when it is read.
Verdict(t) ==
    {[local |-> FALSE, allowed |-> a, cacheable |-> l > 0, rev |-> r, exp |-> t + l] :
        a \in BOOLEAN, r \in Revision, l \in Lifetime}

Entry == [live: BOOLEAN, decision: Decision, asked: Nat, guard: Nat]

NewEntry == [live |-> FALSE, decision |-> NoDecision, asked |-> 0, guard |-> 0]

Live(ch) == {k \in DOMAIN ch.entries : ch.entries[k].live}

-----------------------------------------------------------------------------
(* The methods that run under mu.                                          *)

EmptyCache ==
    [entries |-> [k \in {} |-> NewEntry], lru |-> <<>>, allows |-> 0, seq |-> 0,
     lastFlush |-> 0, floor |-> 0, watermark |-> 0, closed |-> FALSE]

\* Mutant: the wire expiry is not looked at.
FreshPastExpiry(ch, d, asked, t) ==
    /\ t - asked >= 0
    /\ t - asked < MaxTTL
    /\ d.rev >= ch.watermark

Fresh(ch, d, asked, t) ==
    /\ t - asked >= 0
    /\ t - asked < MaxTTL
    /\ t < d.exp
    /\ d.rev >= ch.watermark

Killed(e) == [e EXCEPT !.live = FALSE, !.decision = NoDecision]

Kill(ch, S) ==
    LET dying == S \cap Live(ch)
    IN  [ch EXCEPT !.entries = [k \in DOMAIN ch.entries |->
                                   IF k \in dying THEN Killed(ch.entries[k]) ELSE ch.entries[k]],
                   !.allows = @ - Cardinality(dying)]

Clear(ch) ==
    [ch EXCEPT !.entries = EmptyCache.entries, !.lru = <<>>, !.allows = 0]

MoveToFront(ch, k) ==
    LET at == CHOOSE i \in 1 .. Len(ch.lru) : ch.lru[i] = k
    IN  [ch EXCEPT !.lru = [i \in 1 .. Len(ch.lru) |->
                               IF i = 1 THEN k ELSE IF i <= at THEN ch.lru[i - 1] ELSE ch.lru[i]]]

Insert(ch, k) ==
    IF k \in DOMAIN ch.entries
    THEN ch
    ELSE [ch EXCEPT !.entries = [j \in DOMAIN ch.entries \cup {k} |->
                                    IF j = k THEN NewEntry ELSE ch.entries[j]],
                    !.lru = <<k>> \o ch.lru]

\* Mutant: an evicted tombstone is forgotten.
BoundNoFloor(ch) ==
    LET back == ch.lru[Len(ch.lru)]
        dead == Kill(ch, {back})
    IN  IF Len(ch.lru) <= MaxEntries
        THEN ch
        ELSE [dead EXCEPT !.entries = [k \in DOMAIN ch.entries \ {back} |-> dead.entries[k]],
                          !.lru = SubSeq(ch.lru, 1, Len(ch.lru) - 1)]

\* One insertion precedes every bound(), so its loop runs at most once.
Bound(ch) ==
    LET back == ch.lru[Len(ch.lru)]
        dead == Kill(ch, {back})
        guard == ch.entries[back].guard
    IN  IF Len(ch.lru) <= MaxEntries
        THEN ch
        ELSE [dead EXCEPT !.entries = [k \in DOMAIN ch.entries \ {back} |-> dead.entries[k]],
                          !.lru = SubSeq(ch.lru, 1, Len(ch.lru) - 1),
                          !.floor = IF guard > ch.floor THEN guard ELSE @]

Hit(ch, k, t) ==
    /\ k \in Live(ch)
    /\ ~ch.closed
    /\ Fresh(ch, ch.entries[k].decision, ch.entries[k].asked, t)

\* The cache after get: a stale live entry is killed, a hit moves to the front.
Get(ch, k, t) ==
    IF Hit(ch, k, t) THEN MoveToFront(ch, k)
    ELSE IF ch.closed THEN ch ELSE Kill(ch, {k})

\* A verdict above the watermark raises it and kills every entry below it.
Raise(ch, rev) ==
    IF rev > ch.watermark
    THEN [Kill(ch, {k \in Live(ch) : ch.entries[k].decision.rev < rev}) EXCEPT !.watermark = rev]
    ELSE ch

\* A verdict that may not be stored leaves a tombstone for its key.
Tombstone(ch, k) ==
    LET marked == Kill(Insert([ch EXCEPT !.seq = @ + 1], k), {k})
    IN  Bound(MoveToFront([marked EXCEPT !.entries[k].guard = marked.seq], k))

\* Mutant: an allow that replaces a live one is counted again.
StoreRecounted(ch, k, d, asked) ==
    LET in == Insert(ch, k)
        new == [live |-> TRUE, decision |-> d, asked |-> asked, guard |-> in.entries[k].guard]
    IN  Bound(MoveToFront([in EXCEPT !.entries[k] = new, !.allows = @ + 1], k))

Store(ch, k, d, asked) ==
    LET in == Insert(ch, k)
        old == in.entries[k]
        new == [live |-> TRUE, decision |-> d, asked |-> asked, guard |-> old.guard]
    IN  Bound(MoveToFront([in EXCEPT !.entries[k] = new,
                                     !.allows = IF old.live THEN @ ELSE @ + 1], k))

Overtaken(ch, k, stamp) ==
    \/ stamp < ch.lastFlush
    \/ stamp < ch.floor
    \/ k \in DOMAIN ch.entries /\ stamp < ch.entries[k].guard

\* Mutant: an overtaken answer is stored all the same.
ObserveUnstamped(ch, k, d, stamp, asked, t) ==
    LET up == Raise(ch, d.rev)
    IN  IF d.local \/ ch.closed THEN ch
        ELSE IF ~(d.allowed /\ d.cacheable) THEN Tombstone(up, k)
        ELSE IF ~Fresh(up, d, asked, t) THEN up
        ELSE Store(up, k, d, asked)

Observe(ch, k, d, stamp, asked, t) ==
    LET up == Raise(ch, d.rev)
    IN  IF d.local \/ ch.closed THEN ch
        ELSE IF ~(d.allowed /\ d.cacheable) THEN Tombstone(up, k)
        ELSE IF Overtaken(up, k, stamp) \/ ~Fresh(up, d, asked, t) THEN up
        ELSE Store(up, k, d, asked)

\* Mutant: the flush is stamped before the sequence moves, and one too low.
FlushBehind(ch) ==
    Clear([ch EXCEPT !.seq = @ + 1, !.lastFlush = ch.seq - 1])

Flush(ch) ==
    Clear([ch EXCEPT !.seq = @ + 1, !.lastFlush = ch.seq + 1])

-----------------------------------------------------------------------------
(* A call: Decide (batch = FALSE, one request) or DecideBatch.             *)

Idle == [pc |-> "idle", batch |-> FALSE, reqs |-> <<>>, pos |-> 0, out |-> <<>>,
         hits |-> <<>>, todo |-> <<>>, again |-> FALSE, stamp |-> 0, asked |-> 0]

Running(batch, ks) ==
    [Idle EXCEPT !.pc = "get", !.batch = batch, !.reqs = ks, !.pos = 1,
                 !.out = [i \in DOMAIN ks |-> NoDecision]]

\* Only a running call holds local variables: a finished one keeps its answers.
Returning(cl) == [cl EXCEPT !.pc = "return", !.pos = 0, !.todo = <<>>, !.stamp = 0, !.asked = 0]

Init ==
    /\ cache = EmptyCache
    /\ call = [c \in Caller |-> Idle]
    /\ now = 0 /\ begun = 0 /\ flushes = 0
    /\ mayStore = [c \in Caller |-> {}]

Requests ==
    {Running(FALSE, <<k>>) : k \in Key} \cup {Running(TRUE, ks) : ks \in Batches}

\* A request that fails validation is denied without touching the cache.
Begin(c) ==
    /\ call[c].pc = "idle"
    /\ begun < MaxCalls
    /\ begun' = begun + 1
    /\ \E r \in Requests :
          \/ call' = [call EXCEPT ![c] = r]
          \/ call' = [call EXCEPT ![c] = Returning(r)]
    /\ UNCHANGED <<cache, now, flushes, mayStore>>

\* get of the item at pos: a hit, or one more item to ask the PDP about.
\* Decide returns a hit at once.
GetStep(c) ==
    LET cl == call[c]
        k == cl.reqs[cl.pos]
        read == IF Hit(cache, k, now)
                THEN [cl EXCEPT !.out[cl.pos] = cache.entries[k].decision,
                                !.hits = Append(@, cl.pos)]
                ELSE [cl EXCEPT !.todo = Append(@, cl.pos)]
    IN  /\ cl.pc = "get"
        /\ cache' = Get(cache, k, now)
        /\ call' = [call EXCEPT ![c] =
              IF cl.pos < Len(cl.reqs) THEN [read EXCEPT !.pos = @ + 1]
              ELSE IF read.todo # <<>> THEN [read EXCEPT !.pc = "stamp"]
              ELSE IF cl.batch THEN [read EXCEPT !.pc = "check"]
              ELSE Returning(read)]
        /\ UNCHANGED <<now, begun, flushes, mayStore>>

\* stamp() before the PDP call for the items in todo.
StampStep(c) ==
    LET cl == call[c]
    IN  /\ cl.pc = "stamp"
        /\ call' = [call EXCEPT ![c] =
              [cl EXCEPT !.pc = "pdp", !.stamp = cache.seq, !.asked = now]]
        /\ mayStore' = [mayStore EXCEPT ![c] =
              IF cache.closed THEN {} ELSE {cl.reqs[cl.todo[n]] : n \in DOMAIN cl.todo}]
        /\ UNCHANGED <<cache, now, begun, flushes>>

\* The PDP call fails: a local deny, which denies every item of a batch.
FailStep(c) ==
    LET cl == call[c]
    IN  /\ cl.pc = "pdp"
        /\ call' = [call EXCEPT ![c] =
              Returning([cl EXCEPT !.out = [i \in DOMAIN cl.reqs |-> NoDecision],
                                   !.hits = <<>>])]
        /\ mayStore' = [mayStore EXCEPT ![c] = {}]
        /\ UNCHANGED <<cache, now, begun, flushes>>

\* The PDP call answers every item it was asked; asking again replaces the hits.
AnswerStep(c) ==
    LET cl == call[c]
        asked == {cl.todo[n] : n \in DOMAIN cl.todo}
    IN  /\ cl.pc = "pdp"
        /\ \E got \in [asked -> Verdict(now)] :
              call' = [call EXCEPT ![c] =
                  [cl EXCEPT !.pc = "observe",
                             !.hits = IF cl.again THEN <<>> ELSE @,
                             !.out = [i \in DOMAIN cl.reqs |->
                                         IF i \in asked THEN got[i] ELSE cl.out[i]]]]
        /\ UNCHANGED <<cache, now, begun, flushes, mayStore>>

\* observe of the next answered item, in request order.
ObserveStep(c) ==
    LET cl == call[c]
        i == Head(cl.todo)
        k == cl.reqs[i]
        d == cl.out[i]
        left == Tail(cl.todo)
        denies == ~(d.allowed /\ d.cacheable) /\ ~cache.closed
    IN  /\ cl.pc = "observe"
        /\ cache' = Observe(cache, k, d, cl.stamp, cl.asked, now)
        /\ call' = [call EXCEPT ![c] =
              IF left # <<>> THEN [cl EXCEPT !.todo = left]
              ELSE IF cl.batch /\ ~cl.again THEN [cl EXCEPT !.pc = "check", !.todo = left]
              ELSE Returning(cl)]
        /\ mayStore' = [b \in Caller |->
              IF b = c /\ left = <<>> THEN {}
              ELSE IF denies THEN mayStore[b] \ {k} ELSE mayStore[b]]
        /\ UNCHANGED <<now, begun, flushes>>

\* Mutant: the hits are not compared with the watermark.
CheckSkipped(c) ==
    /\ call[c].pc = "check"
    /\ call' = [call EXCEPT ![c] = Returning(call[c])]
    /\ UNCHANGED <<cache, now, begun, flushes, mayStore>>

\* belowWatermark: one hit below the watermark sends every hit to the PDP again.
CheckStep(c) ==
    LET cl == call[c]
    IN  /\ cl.pc = "check"
        /\ call' = [call EXCEPT ![c] =
              IF \E n \in DOMAIN cl.hits : cl.out[cl.hits[n]].rev < cache.watermark
              THEN [cl EXCEPT !.pc = "stamp", !.todo = cl.hits, !.again = TRUE]
              ELSE Returning(cl)]
        /\ UNCHANGED <<cache, now, begun, flushes, mayStore>>

Return(c) ==
    /\ call[c].pc = "return"
    /\ call' = [call EXCEPT ![c] = Idle]
    /\ UNCHANGED <<cache, now, begun, flushes, mayStore>>

InvalidateAll ==
    /\ ~cache.closed
    /\ flushes < MaxFlushes
    /\ flushes' = flushes + 1
    /\ cache' = Flush(cache)
    /\ mayStore' = [c \in Caller |-> {}]
    /\ UNCHANGED <<call, now, begun>>

Close ==
    /\ ~cache.closed
    /\ cache' = Clear([cache EXCEPT !.closed = TRUE])
    /\ mayStore' = [c \in Caller |-> {}]
    /\ UNCHANGED <<call, now, begun, flushes>>

\* cfg.Now is the caller's: it may also step back.
SetClock ==
    /\ now' \in (0 .. MaxNow) \cap {now - 1, now + 1}
    /\ UNCHANGED <<cache, call, begun, flushes, mayStore>>

CallStep(c) ==
    \/ Begin(c) \/ GetStep(c) \/ StampStep(c) \/ FailStep(c) \/ AnswerStep(c)
    \/ ObserveStep(c) \/ CheckStep(c) \/ Return(c)

Next ==
    \/ \E c \in Caller : CallStep(c)
    \/ InvalidateAll
    \/ Close
    \/ SetClock

Spec == Init /\ [][Next]_vars

-----------------------------------------------------------------------------
(* Properties.                                                             *)

CallType ==
    [pc: {"idle", "get", "stamp", "pdp", "observe", "check", "return"},
     batch: BOOLEAN, reqs: Seq(Key), pos: Nat, out: Seq(Decision), hits: Seq(Nat),
     todo: Seq(Nat), again: BOOLEAN, stamp: Nat, asked: Nat]

\* The state's types: CachedClient's fields and the locals of running calls.
TypeOK ==
    /\ DOMAIN cache.entries \subseteq Key
    /\ cache.entries \in [DOMAIN cache.entries -> Entry]
    /\ cache.lru \in Seq(Key)
    /\ cache.seq \in Nat /\ cache.lastFlush \in Nat /\ cache.floor \in Nat
    /\ cache.watermark \in Nat /\ cache.closed \in BOOLEAN
    /\ call \in [Caller -> CallType]
    /\ now \in Nat
    /\ mayStore \in [Caller -> SUBSET Key]

\* The list and the map of the cache agree, hold at most MaxEntries entries,
\* tombstones included, and Len() (the allows counter) is the number of live
\* entries, through kills, replacements, evictions and clears.  The state
\* keeps its types.
Bookkeeping ==
    /\ TypeOK
    /\ Len(cache.lru) <= MaxEntries
    /\ {cache.lru[i] : i \in DOMAIN cache.lru} = DOMAIN cache.entries
    /\ Cardinality(DOMAIN cache.entries) = Len(cache.lru)
    /\ cache.allows = Cardinality(Live(cache))

\* The stamps do what they are for: an in-flight call that lost the right to
\* store key k (after its stamp a tombstone was set for k, the cache was
\* flushed, or it was closed) is refused by the tests in observe, also after
\* the tombstone itself was evicted or flushed away.
OvertakenCallsAreRefused ==
    \A c \in Caller :
        call[c].pc \in {"pdp", "observe"} =>
            \A n \in DOMAIN call[c].todo :
                LET k == call[c].reqs[call[c].todo[n]]
                IN  k \notin mayStore[c] =>
                        cache.closed \/ Overtaken(cache, k, call[c].stamp)

\* Every stored answer is a PDP allow at or above the watermark (a deny is
\* never stored, and observe drops what a higher revision supersedes).
OnlyCurrentAllowsStored ==
    \A k \in Live(cache) :
        /\ cache.entries[k].decision.allowed
        /\ cache.entries[k].decision.rev >= cache.watermark
        /\ ~cache.closed

\* A returned batch never mixes an item read from the cache with a PDP answer
\* of the same batch made under a higher policy revision (belowWatermark and
\* the second ask), unless Close stopped the watermark.
BatchNeverMixesRevisions ==
    \A c \in Caller :
        call[c].pc = "return" /\ ~cache.closed =>
            \A n \in DOMAIN call[c].hits, j \in DOMAIN call[c].out :
                call[c].out[call[c].hits[n]].rev >= call[c].out[j].rev

\* The same with no exception for Close: the comment on DecideBatch says that
\* no item that comes back was read from the cache before the watermark moved,
\* and the package comment that the watermark is the highest revision of any
\* PDP verdict.
BatchNeverMixesRevisionsEvenClosing ==
    \A c \in Caller :
        call[c].pc = "return" =>
            \A n \in DOMAIN call[c].hits, j \in DOMAIN call[c].out :
                call[c].out[call[c].hits[n]].rev >= call[c].out[j].rev

None == [none |-> TRUE]

Remembered(ch, k) ==
    IF k \in Live(ch)
    THEN [decision |-> ch.entries[k].decision, asked |-> ch.entries[k].asked]
    ELSE None

\* What a call has read from the cache and not replaced by a PDP answer.
Served(cl) ==
    {<<cl.reqs[cl.hits[n]], cl.out[cl.hits[n]]>> : n \in DOMAIN cl.hits}

Promise == INSTANCE AllowCache WITH
    None <- None,
    mem <- [k \in Key |-> Remembered(cache, k)],
    entitled <- mayStore,
    served <- [c \in Caller |-> Served(call[c])],
    watermark <- cache.watermark,
    now <- now

\* The cache implements the promise: an allow is learned only from a call that
\* no tombstone, flush or close overtook, and what a lookup serves is inside
\* MaxTTL of its request, before its expires_at and not below the watermark.
ImplementsPromise == Promise!Spec

=============================================================================
