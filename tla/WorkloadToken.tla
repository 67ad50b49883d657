---------------------------- MODULE WorkloadToken ----------------------------
(***************************************************************************)
(* workloadtoken.Client: the cached, single-flight token exchange.         *)
(*                                                                         *)
(* One slot (one audience and scope): slots of different keys share        *)
(* nothing but the mutex.  Each critical section of Token is one step that *)
(* reads the clock once; between them the caller waits for a flight, reads *)
(* the subject file and is on the wire.  Invalidate and the clock          *)
(* interleave with all of it.                                              *)
(***************************************************************************)
EXTENDS Integers, FiniteSets

CONSTANTS
    Caller,          \* goroutines that call Token
    Margin,          \* Config.SafetyMargin, in clock ticks
    FracNum,         \* Config.RefreshFraction is FracNum / FracDen
    FracDen,
    BackoffFloor,    \* Config.BackoffFloor
    BackoffCeiling,  \* Config.BackoffCeiling
    Answer,          \* 200 answers: [skew, ends, life], dates relative to sent
    MaxNow,          \* bound: the clock
    MaxCalls,        \* bound: Token calls begun
    MaxInvalidates   \* bound: Invalidate calls

ASSUME ClientAssumption ==
    /\ Margin \in Nat
    /\ FracNum \in Nat /\ FracDen \in Nat /\ 0 < FracNum /\ FracNum < FracDen
    /\ BackoffFloor \in Nat \ {0}
    /\ BackoffCeiling \in Nat /\ BackoffFloor <= BackoffCeiling
    /\ Answer \subseteq [skew: Int, ends: Int, life: Nat \ {0}]
    /\ MaxNow \in Nat /\ MaxCalls \in Nat /\ MaxInvalidates \in Nat

VARIABLES
    slot,        \* the fields of the slot, under mu
    closed,      \* the flight channels that have been closed
    call,        \* per caller, the locals of its Token call
    now,         \* the clock
    flights,     \* the flights made so far, which number the channels
    begun,       \* bound counter: calls
    invalidates, \* bound counter: Invalidate calls
    cut,         \* history: the flights made before the last Invalidate
    dropped,     \* history: tokens Invalidate dropped from the slot
    streak       \* history: failures since the last success or Invalidate, and the last one's time

vars == <<slot, closed, call, now, flights, begun, invalidates, cut, dropped, streak>>

NoFlight == 0
NoToken == [id |-> 0, nbf |-> 0, exp |-> 0, sent |-> 0, life |-> 0]
Errors == {"subject", "exchange"}
NoError == "nil"

-----------------------------------------------------------------------------
(* checkToken's window; a token of the wrong shape is a failed exchange.   *)

Least(a, b) == IF a < b THEN a ELSE b

UsableUntil(e) == Least(e.sent + e.life, e.exp) - Margin

RefreshAt(e) == Least(e.sent + (e.life * FracNum) \div FracDen, UsableUntil(e))

\* Mutants: the margin forgotten; the refresh point taken for the end.
CheckTokenNoMargin(e, t) == e.nbf <= t /\ t < Least(e.sent + e.life, e.exp)
CheckTokenToRefresh(e, t) == e.nbf <= t /\ t < RefreshAt(e)

CheckToken(e, t) == e.nbf <= t /\ t < UsableUntil(e)

\* The cached entry after the check every read of it makes.
Kept(e, t) == IF e # NoToken /\ CheckToken(e, t) THEN e ELSE NoToken

\* The wait doubles from the floor while it is below the ceiling.
Doubled[n \in Nat] ==
    IF n = 0 THEN BackoffFloor
    ELSE LET wait == Doubled[n - 1]
         IN  IF wait < BackoffCeiling THEN wait * 2 ELSE wait

\* Mutants: no ceiling; no doubling.
BackoffUncapped(failures) == Doubled[failures - 1]
BackoffFlat(failures) == BackoffFloor

Backoff(failures) == Least(Doubled[failures - 1], BackoffCeiling)

-----------------------------------------------------------------------------

EmptySlot == [entry |-> NoToken, flight |-> NoFlight, retryAt |-> 0, failures |-> 0,
              lastErr |-> NoError]

Idle == [pc |-> "idle", flight |-> NoFlight, sent |-> 0, token |-> NoToken, err |-> NoError,
         at |-> 0, cut |-> 0, sure |-> FALSE]

\* The window a token promises, from its own fields (for the properties).
InWindow(e, t) ==
    /\ e.nbf <= t
    /\ t + Margin < e.exp
    /\ t + Margin < e.sent + e.life

NoStreak == [count |-> 0, at |-> 0]

Init ==
    /\ slot = EmptySlot
    /\ closed = {}
    /\ call = [c \in Caller |-> Idle]
    /\ now = 0 /\ flights = 0 /\ begun = 0 /\ invalidates = 0 /\ cut = 0
    /\ dropped = {}
    /\ streak = NoStreak

\* A call's answer, and the clock reading it rests on.
Answered(cl, e) == [cl EXCEPT !.pc = "return", !.token = e, !.at = now]
Failed(cl, err) == [cl EXCEPT !.pc = "return", !.token = NoToken, !.err = err, !.at = now]

\* `sure` (history): the slot held a usable token when the call began, and
\* nothing but a failing exchange has happened to it since.
Begin(c) ==
    /\ call[c].pc = "idle"
    /\ begun < MaxCalls
    /\ begun' = begun + 1
    /\ call' = [call EXCEPT ![c] =
          [Idle EXCEPT !.pc = "enter", !.cut = cut,
                       !.sure = slot.entry # NoToken /\ InWindow(slot.entry, now)]]
    /\ UNCHANGED <<slot, closed, now, flights, invalidates, cut, dropped, streak>>

\* The first critical section: answer from the slot, wait for a flight, fail
\* during the backoff, or become the flight.
Enter(c) ==
    LET cl == call[c]
        entry == Kept(slot.entry, now)
        swept == [slot EXCEPT !.entry = entry]
    IN  /\ cl.pc = "enter"
        /\ \/ /\ entry # NoToken
              /\ now < RefreshAt(entry) \/ slot.flight # NoFlight \/ now < slot.retryAt
              /\ slot' = swept
              /\ call' = [call EXCEPT ![c] = Answered(cl, entry)]
           \/ /\ entry = NoToken
              /\ slot.flight # NoFlight
              /\ slot' = swept
              /\ call' = [call EXCEPT ![c] = [cl EXCEPT !.pc = "wait", !.flight = slot.flight]]
           \/ /\ entry = NoToken
              /\ slot.flight = NoFlight
              /\ now < slot.retryAt
              /\ slot' = swept
              /\ call' = [call EXCEPT ![c] = Failed(cl, slot.lastErr)]
           \/ /\ entry # NoToken => now >= RefreshAt(entry)
              /\ slot.flight = NoFlight
              /\ now >= slot.retryAt
              /\ slot' = [swept EXCEPT !.flight = flights + 1]
              /\ call' = [call EXCEPT ![c] = [cl EXCEPT !.pc = "read", !.flight = flights + 1]]
        /\ flights' = IF slot'.flight = slot.flight THEN flights ELSE flights + 1
        /\ UNCHANGED <<closed, now, begun, invalidates, cut, dropped, streak>>

\* Mutant: only an exchange that brought a token wakes its waiters.
WakeOnToken(c) ==
    /\ call[c].pc = "wait"
    /\ call[c].flight \in closed
    /\ slot.entry # NoToken
    /\ call' = [call EXCEPT ![c] = [@ EXCEPT !.pc = "enter", !.flight = NoFlight]]
    /\ UNCHANGED <<slot, closed, now, flights, begun, invalidates, cut, dropped, streak>>

\* The select of a waiter: the flight is closed, or its context is done.
Wake(c) ==
    /\ call[c].pc = "wait"
    /\ call[c].flight \in closed
    /\ call' = [call EXCEPT ![c] = [@ EXCEPT !.pc = "enter", !.flight = NoFlight]]
    /\ UNCHANGED <<slot, closed, now, flights, begun, invalidates, cut, dropped, streak>>

Cancel(c) ==
    /\ call[c].pc = "wait"
    /\ call' = [call EXCEPT ![c] = [Failed(@, "context") EXCEPT !.flight = NoFlight]]
    /\ UNCHANGED <<slot, closed, now, flights, begun, invalidates, cut, dropped, streak>>

\* exchange: read the subject file, read the clock, send the request.
Send(c) ==
    /\ call[c].pc = "read"
    /\ call' = [call EXCEPT ![c] = [@ EXCEPT !.pc = "sent", !.sent = now]]
    /\ UNCHANGED <<slot, closed, now, flights, begun, invalidates, cut, dropped, streak>>

\* close(flight).
Close(f) == closed \cup {f}

\* The second critical section when the answer is a token checkToken accepts.
Succeed(c) ==
    LET cl == call[c]
    IN  /\ cl.pc = "sent"
        /\ \E a \in Answer :
              LET fresh == [id |-> cl.flight, nbf |-> cl.sent + a.skew,
                            exp |-> cl.sent + a.ends, sent |-> cl.sent, life |-> a.life]
              IN  /\ CheckToken(fresh, now)
                  /\ slot' = [EmptySlot EXCEPT !.entry = fresh]
                  /\ call' = [call EXCEPT ![c] = [Answered(cl, fresh) EXCEPT !.flight = NoFlight]]
        /\ closed' = Close(cl.flight)
        /\ streak' = NoStreak
        /\ UNCHANGED <<now, flights, begun, invalidates, cut, dropped>>

\* The second critical section after a failure: the subject was unreadable, or
\* the exchange failed (whatever its class), or checkToken refuses its answer.
Fail(c) ==
    LET cl == call[c]
        entry == Kept(slot.entry, now)
        failures == slot.failures + 1
        err == IF cl.pc = "read" THEN "subject" ELSE "exchange"
    IN  /\ cl.pc \in {"read", "sent"}
        /\ slot' = [entry |-> entry, flight |-> NoFlight, failures |-> failures,
                    retryAt |-> now + Backoff(failures), lastErr |-> err]
        /\ call' = [call EXCEPT ![c] =
              [IF entry # NoToken THEN Answered(cl, entry) ELSE Failed(cl, err)
                  EXCEPT !.flight = NoFlight]]
        /\ closed' = Close(cl.flight)
        /\ streak' = [count |-> streak.count + 1, at |-> now]
        /\ UNCHANGED <<now, flights, begun, invalidates, cut, dropped>>

Return(c) ==
    /\ call[c].pc = "return"
    /\ call' = [call EXCEPT ![c] = Idle]
    /\ UNCHANGED <<slot, closed, now, flights, begun, invalidates, cut, dropped, streak>>

\* Mutants: the flight forgotten too; only the backoff reset.
InvalidatedFlight(s) == EmptySlot
InvalidatedBackoff(s) == [EmptySlot EXCEPT !.entry = s.entry, !.flight = s.flight]

\* Invalidate resets everything but the flight.
Invalidated(s) == [EmptySlot EXCEPT !.flight = s.flight]

Invalidate ==
    /\ invalidates < MaxInvalidates
    /\ invalidates' = invalidates + 1
    /\ slot' = Invalidated(slot)
    /\ dropped' = dropped \cup ({slot.entry.id} \ {NoToken.id})
    /\ cut' = flights
    /\ streak' = NoStreak
    /\ call' = [c \in Caller |-> [call[c] EXCEPT !.sure = FALSE]]
    /\ UNCHANGED <<closed, now, flights, begun>>

\* Time passes; it ends the surety of a call whose token runs out.
Tick ==
    /\ now < MaxNow
    /\ now' = now + 1
    /\ call' = [c \in Caller |->
          [call[c] EXCEPT !.sure = @ /\ (call[c].pc = "return" \/ InWindow(slot.entry, now'))]]
    /\ UNCHANGED <<slot, closed, flights, begun, invalidates, cut, dropped, streak>>

CallStep(c) ==
    \/ Enter(c) \/ Wake(c) \/ Cancel(c) \/ Send(c) \/ Succeed(c) \/ Fail(c) \/ Return(c)

Next ==
    \/ \E c \in Caller : Begin(c) \/ CallStep(c)
    \/ Invalidate
    \/ Tick

\* A running goroutine keeps running, and the HTTP client's timeout ends every
\* exchange; callers need not call, contexts need not be done.
Fairness ==
    \A c \in Caller :
        WF_vars(Enter(c) \/ Wake(c) \/ Send(c) \/ Succeed(c) \/ Fail(c) \/ Return(c))

Spec == Init /\ [][Next]_vars /\ Fairness

-----------------------------------------------------------------------------

Token == [id: Nat, nbf: Int, exp: Int, sent: Nat, life: Nat]

Flying == {"read", "sent"}

CallType(cl) ==
    /\ cl.pc \in {"idle", "enter", "wait", "return"} \cup Flying
    /\ cl.flight \in Nat /\ cl.sent \in Nat /\ cl.at \in Nat /\ cl.cut \in Nat
    /\ cl.token \in Token
    /\ cl.err \in Errors \cup {NoError, "context"}
    /\ cl.sure \in BOOLEAN

\* The types of the client's state; an error of Token always names its cause.
TypeOK ==
    /\ slot.entry \in Token /\ slot.flight \in Nat /\ slot.failures \in Nat
    /\ slot.lastErr \in Errors \cup {NoError}
    /\ closed \subseteq 1 .. flights
    /\ now \in Nat /\ flights \in Nat /\ begun \in Nat
    /\ invalidates \in Nat /\ cut \in Nat
    /\ dropped \subseteq 1 .. flights
    /\ streak.count \in Nat /\ streak.at \in Nat
    /\ \A c \in Caller :
          /\ CallType(call[c])
          /\ call[c].pc = "return" => (call[c].token = NoToken <=> call[c].err # NoError)

\* One exchange at a time, "once for all concurrent callers": exactly the
\* caller whose flight the slot holds is exchanging, every flight the slot
\* holds is some caller's, and a waiter's flight is that one or is closed, so
\* no wake-up is lost whatever Invalidate and the other callers do.  The
\* state keeps its types.
SingleFlight ==
    /\ TypeOK
    /\ \A c \in Caller : call[c].pc \in Flying => call[c].flight = slot.flight
    /\ \A c, d \in Caller : call[c].pc \in Flying /\ call[d].pc \in Flying => c = d
    /\ slot.flight # NoFlight => \E c \in Caller : call[c].pc \in Flying
    /\ \A c \in Caller :
          call[c].pc = "wait" => call[c].flight = slot.flight \/ call[c].flight \in closed

\* Token returns what is usable, all of it and nothing else.  A returned
\* token, cached or fresh, had more than the safety margin left of its exp
\* claim and of the answer's expires_in when it was last checked, and is none
\* that Invalidate had dropped from the slot, not even in a call whose refresh
\* fails afterwards.  And it "keeps returning the cached token while it is
\* still inside its usable window": a call that began with a usable token in
\* the slot fails only if that token was dropped or its window ended, whatever
\* the exchanges it or other callers make in the meantime come to.
ReturnsWhatIsUsable ==
    [][\A c \in Caller :
          LET token == call'[c].token IN
          call[c].pc # "return" /\ call'[c].pc = "return" =>
              /\ token # NoToken => InWindow(token, call'[c].at) /\ token.id \notin dropped
              /\ call'[c].sure => token # NoToken]_vars

\* Exchanges that keep failing are spaced by the doubling backoff, counted
\* over all callers: the one after n failures in a row begins no sooner than
\* floor * 2^(n-1), or the ceiling, after the last of them.  And no caller is
\* ever locked out for longer than the ceiling.
BackoffSpaced ==
    [][/\ slot'.retryAt \in 0 .. now' + BackoffCeiling
       /\ \A c \in Caller :
            call[c].pc = "enter" /\ call'[c].pc \in Flying /\ streak.count > 0 =>
                now >= streak.at + Least(BackoffFloor * 2 ^ (streak.count - 1), BackoffCeiling)]_vars

\* Every Token call returns, without its context being done: a waiter is woken
\* when the flight it waits for lands, and then is answered or flies itself.
CallsReturn ==
    \A c \in Caller : call[c].pc = "enter" ~> call[c].pc \in {"return", "idle"}

\* What the comment on Invalidate says, "the next Token call exchanges": a
\* call that begins after Invalidate returns no token of an exchange that
\* began before it.
InvalidateForcesExchange ==
    \A c \in Caller :
        call[c].pc = "return" /\ call[c].token # NoToken => call[c].token.id > call[c].cut

=============================================================================
