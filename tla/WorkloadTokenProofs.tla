------------------------- MODULE WorkloadTokenProofs -------------------------
(***************************************************************************)
(* What holds of workloadtoken.Client for any number of callers, every     *)
(* margin, refresh fraction and backoff, and every answer of the issuer.   *)
(***************************************************************************)
EXTENDS WorkloadToken, TLAPS

\* Time limits of the provers, in seconds, where a step asks for no other.
USE SMTT(20), ZenonT(30)

Places == {"idle", "enter", "wait", "return"} \cup Flying

CallRecord == [pc: Places, flight: Nat, sent: Nat, token: Token,
               err: Errors \cup {NoError, "context"}, at: Nat, cut: Nat, sure: BOOLEAN]

SlotFields == {"entry", "flight", "retryAt", "failures", "lastErr"}

Types ==
    /\ now \in Nat /\ flights \in Nat /\ begun \in Nat /\ invalidates \in Nat /\ cut \in Nat
    /\ DOMAIN slot = SlotFields
    /\ slot.entry \in Token /\ slot.flight \in Nat /\ slot.failures \in Nat
    /\ slot.lastErr \in Errors \cup {NoError}
    /\ call \in [Caller -> CallRecord]
    /\ closed \subseteq 1 .. flights
    /\ dropped \subseteq closed
    /\ streak \in [count: Nat, at: Nat]

\* The flight the slot holds is open and has an owner; its token is of a flight
\* that landed and has not been dropped; there is no backoff without an error.
SlotOK ==
    /\ slot.flight # NoFlight => slot.flight \in (1 .. flights) \ closed /\ \E c \in Caller : call[c].pc \in Flying
    /\ slot.entry # NoToken => slot.entry.id \in closed \ dropped
    /\ slot.lastErr = NoError => slot.retryAt = 0

\* A flying caller has the slot's flight and no other has; a waiter's flight is
\* that one or is closed; a sure call finds its token where it was.
CallOK(c) ==
    /\ call[c].pc \in Flying => slot.flight # NoFlight /\ call[c].flight = slot.flight
    /\ \A d \in Caller : call[c].pc \in Flying /\ call[d].pc \in Flying => c = d
    /\ call[c].pc = "wait" => ~call[c].sure /\ call[c].flight # NoFlight /\ (call[c].flight = slot.flight \/ call[c].flight \in closed)
    /\ call[c].pc # "return" => call[c].err = NoError
    /\ call[c].pc = "return" => (call[c].token = NoToken <=> call[c].err # NoError)
    /\ call[c].sure /\ call[c].pc # "return" => InWindow(slot.entry, now)

\* The inductive invariant.
IInv == Types /\ SlotOK /\ \A c \in Caller : CallOK(c)

-----------------------------------------------------------------------------

\* checkToken accepts exactly the tokens inside the window they promise.
LEMMA Window ==
    ASSUME NEW e \in Token, NEW t \in Nat
    PROVE  /\ CheckToken(e, t) <=> InWindow(e, t)
           /\ InWindow(e, t) => e # NoToken
<1>1. Margin \in Nat /\ e.nbf \in Int /\ e.exp \in Int /\ e.sent \in Nat /\ e.life \in Nat
  BY ClientAssumption DEF Token
<1>2. CheckToken(e, t) <=> InWindow(e, t)
  BY <1>1 DEF CheckToken, InWindow, UsableUntil, Least
<1>3. InWindow(e, t) => e # NoToken
  BY <1>1 DEF InWindow, NoToken
<1>4. QED
  BY <1>2, <1>3

\* What the check every read of the slot makes leaves of its token.
LEMMA KeptToken ==
    ASSUME NEW e \in Token, NEW t \in Nat
    PROVE  /\ Kept(e, t) \in Token
           /\ Kept(e, t) # NoToken => Kept(e, t) = e /\ InWindow(e, t)
           /\ InWindow(e, t) => Kept(e, t) = e
<1>1. NoToken \in Token
  BY DEF NoToken, Token
<1>2. QED
  BY <1>1, Window DEF Kept

\* The locals of a call that is answered, or fails.
LEMMA Ends ==
    ASSUME Types, NEW cl \in CallRecord, NEW e \in Token, NEW err \in Errors \cup {"context"}
    PROVE  /\ [Answered(cl, e) EXCEPT !.flight = NoFlight] \in CallRecord
           /\ Answered(cl, e) \in CallRecord
           /\ [Failed(cl, err) EXCEPT !.flight = NoFlight] \in CallRecord
           /\ Failed(cl, err) \in CallRecord
<1>1. now \in Nat /\ NoToken \in Token /\ "return" \in Places /\ NoFlight \in Nat
  BY DEF Types, NoToken, Token, Places, NoFlight
<1>2. Answered(cl, e) \in CallRecord
  BY <1>1, ZenonT(30) DEF Answered, CallRecord
<1>3. Failed(cl, err) \in CallRecord
  BY <1>1, ZenonT(30) DEF Failed, CallRecord
<1>4. QED
  BY <1>1, <1>2, <1>3 DEF CallRecord

\* An answered call has a token and no error, a failed one an error.
LEMMA EndsRight ==
    ASSUME NEW cl \in CallRecord, NEW e, NEW err
    PROVE  /\ Answered(cl, e).pc = "return" /\ Answered(cl, e).token = e /\ Answered(cl, e).err = cl.err
           /\ Answered(cl, e).sure = cl.sure /\ Answered(cl, e).at = now
           /\ Failed(cl, err).pc = "return" /\ Failed(cl, err).token = NoToken /\ Failed(cl, err).err = err
           /\ Failed(cl, err).sure = cl.sure /\ Failed(cl, err).at = now
BY DEF Answered, Failed, CallRecord

-----------------------------------------------------------------------------
(* The kinds of steps.                                                     *)

\* What the locals of a call must satisfy after a step, given the slot.
Locals(cl, entry, t) ==
    /\ cl.pc # "return" => cl.err = NoError
    /\ cl.pc = "return" => (cl.token = NoToken <=> cl.err # NoError)
    /\ cl.sure /\ cl.pc # "return" => InWindow(entry, t)

\* A step that leaves the flight and every flying caller alone: it may drop a
\* token from the slot whose window has ended.
LEMMA Quiet ==
    ASSUME IInv, NEW c \in Caller, NEW cl \in CallRecord, call' = [call EXCEPT ![c] = cl],
           slot' = slot \/ slot' = [slot EXCEPT !.entry = Kept(slot.entry, now)],
           UNCHANGED <<closed, now, flights, invalidates, cut, dropped, streak>>, begun' \in Nat,
           cl.pc \in Flying <=> call[c].pc \in Flying,
           cl.pc \in Flying => cl.flight = call[c].flight,
           cl.pc = "wait" => ~cl.sure /\ cl.flight = slot.flight /\ slot.flight # NoFlight,
           Locals(cl, slot'.entry, now)
    PROVE  IInv'
<1>1. /\ DOMAIN slot' = SlotFields /\ slot'.flight = slot.flight /\ slot'.failures = slot.failures
      /\ slot'.lastErr = slot.lastErr /\ slot'.retryAt = slot.retryAt
  BY DEF IInv, Types, SlotFields
<1>2. slot'.entry = slot.entry \/ slot'.entry = Kept(slot.entry, now)
  BY DEF IInv, Types, SlotFields
<1>3. /\ slot'.entry \in Token /\ (slot'.entry # NoToken => slot'.entry = slot.entry)
      /\ (InWindow(slot.entry, now) => slot'.entry = slot.entry)
  BY <1>2, KeptToken DEF IInv, Types
<1>4. Types'
  BY <1>1, <1>3 DEF IInv, Types
<1>5. \A d \in Caller : /\ call'[d] = IF d = c THEN cl ELSE call[d]
                        /\ call'[d].pc \in Flying <=> call[d].pc \in Flying
  BY DEF IInv, Types
<1>6. SlotOK'
  BY <1>1, <1>3, <1>5 DEF IInv, SlotOK
<1>7. ASSUME NEW d \in Caller, d # c PROVE CallOK(d)'
  <2>1. call'[d] = call[d]
    BY <1>5, <1>7
  <2>2. call[d].sure /\ call[d].pc # "return" => InWindow(slot'.entry, now)
    BY <1>3, <1>7 DEF IInv, CallOK
  <2>3. InWindow(slot.entry, now)' <=> InWindow(slot'.entry, now)
    BY DEF InWindow
  <2>4. QED
    BY <1>1, <1>5, <1>7, <2>1, <2>2, <2>3 DEF IInv, CallOK
<1>8. CallOK(c)'
  <2>1. call'[c] = cl /\ closed' = closed
    BY <1>5
  <2>2. InWindow(slot.entry, now)' <=> InWindow(slot'.entry, now)
    BY DEF InWindow
  <2>3. QED
    BY <1>1, <1>5, <2>1, <2>2 DEF IInv, CallOK, Locals
<1>9. QED
  BY <1>4, <1>6, <1>7, <1>8 DEF IInv

\* A caller becomes the flight.
LEMMA TakeOff ==
    ASSUME IInv, NEW c \in Caller, NEW cl \in CallRecord, call' = [call EXCEPT ![c] = cl],
           slot.flight = NoFlight, flights' = flights + 1,
           slot' = [[slot EXCEPT !.entry = Kept(slot.entry, now)] EXCEPT !.flight = flights + 1],
           UNCHANGED <<closed, now, begun, invalidates, cut, dropped, streak>>,
           cl.pc = "read", cl.flight = flights + 1, cl.err = NoError,
           cl.sure => call[c].sure /\ call[c].pc # "return"
    PROVE  IInv'
<1>1. /\ DOMAIN slot' = SlotFields /\ slot'.flight = flights + 1 /\ slot'.failures = slot.failures
      /\ slot'.lastErr = slot.lastErr /\ slot'.retryAt = slot.retryAt /\ slot'.entry = Kept(slot.entry, now)
  BY DEF IInv, Types, SlotFields
<1>2. flights + 1 \in Nat /\ flights + 1 \in 1 .. (flights + 1) /\ flights + 1 \notin closed /\ flights + 1 # NoFlight
      /\ closed \subseteq 1 .. (flights + 1)
  BY DEF IInv, Types, NoFlight
<1>3. /\ slot'.entry \in Token /\ (slot'.entry # NoToken => slot'.entry = slot.entry)
      /\ (InWindow(slot.entry, now) => slot'.entry = slot.entry)
  BY <1>1, KeptToken, ZenonT(30) DEF IInv, Types
<1>4. Types'
  BY <1>1, <1>2, <1>3 DEF IInv, Types
<1>5. \A d \in Caller : call'[d] = IF d = c THEN cl ELSE call[d]
  BY DEF IInv, Types
<1>6. \A d \in Caller : call[d].pc \notin Flying
  BY DEF IInv, CallOK
<1>7. SlotOK'
  BY <1>1, <1>2, <1>3, <1>5 DEF IInv, SlotOK, Flying
<1>8. ASSUME NEW d \in Caller PROVE CallOK(d)'
  <2>1. \A b \in Caller : call'[b].pc \in Flying => b = c
    BY <1>5, <1>6
  <2>2. InWindow(slot.entry, now)' <=> InWindow(slot'.entry, now)
    BY DEF InWindow
  <2>3. call[d].sure /\ call[d].pc # "return" => InWindow(slot'.entry, now)
    BY <1>3 DEF IInv, CallOK
  <2>4. CASE d = c
    BY <1>1, <1>2, <1>5, <2>1, <2>2, <2>3, <2>4 DEF CallOK
  <2>5. CASE d # c
    <3>1. call'[d] = call[d] /\ closed' = closed
      BY <1>5, <2>5
    <3>2. call[d].pc = "wait" => call[d].flight \in closed
      BY DEF IInv, CallOK
    <3>3. QED
      BY <1>6, <2>1, <2>2, <2>3, <3>1, <3>2 DEF IInv, CallOK
  <2>6. QED
    BY <2>4, <2>5
<1>9. QED
  BY <1>4, <1>7, <1>8 DEF IInv

\* The flight lands, with a fresh token or with what is left of the old one.
LEMMA Landing ==
    ASSUME IInv, NEW c \in Caller, NEW cl \in CallRecord, call' = [call EXCEPT ![c] = cl],
           call[c].pc \in Flying, cl.pc = "return", cl.token = NoToken <=> cl.err # NoError,
           DOMAIN slot' = SlotFields, slot'.flight = NoFlight, slot'.entry \in Token,
           slot'.failures \in Nat, slot'.lastErr \in Errors \cup {NoError},
           slot'.lastErr = NoError => slot'.retryAt = 0,
           \/ slot'.entry = Kept(slot.entry, now)
           \/ slot'.entry.id = call[c].flight /\ InWindow(slot'.entry, now),
           closed' = closed \cup {call[c].flight}, streak' \in [count: Nat, at: Nat],
           UNCHANGED <<now, flights, begun, invalidates, cut, dropped>>
    PROVE  IInv'
<1>1. call[c].flight = slot.flight /\ slot.flight \in (1 .. flights) \ closed
  BY DEF IInv, CallOK, SlotOK
<1>2. Types'
  <2>1. call' \in [Caller -> CallRecord]
    BY DEF IInv, Types
  <2>2. closed' \subseteq 1 .. flights' /\ dropped' \subseteq closed'
    BY <1>1, ZenonT(30) DEF IInv, Types
  <2>3. slot'.flight \in Nat
    BY DEF NoFlight
  <2>4. QED
    BY <2>1, <2>2, <2>3 DEF IInv, Types
<1>3. \A d \in Caller : call'[d] = IF d = c THEN cl ELSE call[d]
  BY DEF IInv, Types
<1>4. \A d \in Caller : call'[d].pc \notin Flying
  BY <1>3 DEF IInv, CallOK, Flying
<1>5. slot'.entry # NoToken => slot'.entry.id \in closed' \ dropped'
  <2>1. CASE slot'.entry = Kept(slot.entry, now)
    BY <2>1, KeptToken, ZenonT(30) DEF IInv, Types, SlotOK
  <2>2. CASE slot'.entry.id = call[c].flight
    BY <1>1, <2>2 DEF IInv, Types
  <2>3. QED
    BY <2>1, <2>2
<1>6. SlotOK'
  BY <1>5 DEF SlotOK
<1>7. ASSUME NEW d \in Caller PROVE CallOK(d)'
  <2>1. InWindow(slot.entry, now)' <=> InWindow(slot'.entry, now)
    BY DEF InWindow
  <2>2. InWindow(slot.entry, now) => InWindow(slot'.entry, now)
    BY KeptToken DEF IInv, Types
  <2>3. CASE d = c
    BY <1>3, <1>4, <2>3 DEF CallOK
  <2>4. CASE d # c
    BY <1>1, <1>3, <1>4, <2>1, <2>2, <2>4 DEF IInv, CallOK
  <2>5. QED
    BY <2>3, <2>4
<1>8. QED
  BY <1>2, <1>6, <1>7 DEF IInv

-----------------------------------------------------------------------------

\* IInv is inductive.
LEMMA Inductive == Spec => []IInv
<1>1. Init => IInv
  <2> SUFFICES ASSUME Init PROVE IInv
    OBVIOUS
  <2>1. NoToken \in Token /\ Idle \in CallRecord
    BY DEF NoToken, Token, Idle, CallRecord, Places, NoFlight, NoError
  <2>2. Types
    BY <2>1 DEF Init, Types, EmptySlot, SlotFields, NoStreak, NoFlight
  <2>3. SlotOK
    BY DEF Init, SlotOK, EmptySlot
  <2>4. ASSUME NEW c \in Caller PROVE CallOK(c)
    BY DEF Init, CallOK, Idle, Flying
  <2>5. QED
    BY <2>2, <2>3, <2>4 DEF IInv
<1>2. IInv /\ [Next]_vars => IInv'
  <2> SUFFICES ASSUME IInv, [Next]_vars PROVE IInv'
    OBVIOUS
  <2>0. now \in Nat /\ slot.entry \in Token /\ Types /\ SlotOK /\ NoToken \in Token
    BY DEF IInv, Types, NoToken, Token
  <2>1. ASSUME NEW c \in Caller, Begin(c) PROVE IInv'
    <3> DEFINE cl == [Idle EXCEPT !.pc = "enter", !.cut = cut,
                                  !.sure = slot.entry # NoToken /\ InWindow(slot.entry, now)]
    <3>1. cl \in CallRecord
      BY <2>0, ZenonT(30) DEF Idle, CallRecord, Places, NoFlight, NoError, Types
    <3>2. cl.pc = "enter" /\ cl.err = NoError /\ (cl.sure => InWindow(slot.entry, now))
      BY ZenonT(30) DEF Idle
    <3> HIDE DEF cl
    <3>3. /\ call[c].pc = "idle" /\ begun' = begun + 1 /\ call' = [call EXCEPT ![c] = cl] /\ slot' = slot
          /\ UNCHANGED <<closed, now, flights, invalidates, cut, dropped, streak>>
      BY <2>1 DEF Begin, cl
    <3>4. begun' \in Nat
      BY <2>0, <3>3 DEF Types
    <3>5. QED
      BY <3>1, <3>2, <3>3, <3>4, Quiet, ZenonT(30) DEF Locals, Flying
  <2>2. ASSUME NEW c \in Caller, Enter(c) PROVE IInv'
    <3> DEFINE cl == call[c]
               entry == Kept(slot.entry, now)
               swept == [slot EXCEPT !.entry = entry]
    <3>1. cl \in CallRecord /\ cl.pc = "enter" /\ cl.err = NoError /\ (cl.sure => InWindow(slot.entry, now))
      BY <2>2 DEF Enter, IInv, Types, CallOK
    <3>2. /\ entry \in Token /\ swept.entry = entry /\ swept.flight = slot.flight
          /\ (cl.sure => entry = slot.entry /\ entry # NoToken)
      BY <2>0, <3>1, KeptToken, Window DEF Types, SlotFields
    <3>3. UNCHANGED <<closed, now, begun, invalidates, cut, dropped, streak>> /\ begun' \in Nat
      BY <2>0, <2>2 DEF Enter, Types
    <3>4. /\ flights' = IF slot'.flight = slot.flight THEN flights ELSE flights + 1
          /\ \/ /\ entry # NoToken
                /\ slot' = swept
                /\ call' = [call EXCEPT ![c] = Answered(cl, entry)]
             \/ /\ entry = NoToken
                /\ slot.flight # NoFlight
                /\ slot' = swept
                /\ call' = [call EXCEPT ![c] = [cl EXCEPT !.pc = "wait", !.flight = slot.flight]]
             \/ /\ entry = NoToken
                /\ now < slot.retryAt
                /\ slot' = swept
                /\ call' = [call EXCEPT ![c] = Failed(cl, slot.lastErr)]
             \/ /\ slot.flight = NoFlight
                /\ slot' = [swept EXCEPT !.flight = flights + 1]
                /\ call' = [call EXCEPT ![c] = [cl EXCEPT !.pc = "read", !.flight = flights + 1]]
      BY <2>2 DEF Enter
    <3> HIDE DEF cl, entry
    <3>5. CASE entry # NoToken /\ slot' = swept /\ call' = [call EXCEPT ![c] = Answered(cl, entry)]
      <4>1. Answered(cl, entry) \in CallRecord
        BY <2>0, <3>1, <3>2, Ends, ZenonT(30)
      <4>2. Answered(cl, entry).pc = "return" /\ Answered(cl, entry).token = entry /\ Answered(cl, entry).err = NoError
        BY <3>1, EndsRight
      <4>3. QED
        BY <3>1, <3>2, <3>3, <3>4, <3>5, <4>1, <4>2, Quiet, ZenonT(30) DEF Locals, Flying, cl, entry
    <3>6. CASE /\ entry = NoToken /\ slot.flight # NoFlight /\ slot' = swept
               /\ call' = [call EXCEPT ![c] = [cl EXCEPT !.pc = "wait", !.flight = slot.flight]]
      <4> DEFINE next == [cl EXCEPT !.pc = "wait", !.flight = slot.flight]
      <4>1. /\ next \in CallRecord /\ next.pc = "wait" /\ next.flight = slot.flight /\ next.err = NoError
            /\ next.sure = cl.sure /\ cl.sure = FALSE
        BY <2>0, <3>1, <3>2, <3>6, ZenonT(30) DEF CallRecord, Places, Types
      <4> HIDE DEF next
      <4>2. call' = [call EXCEPT ![c] = next]
        BY <3>6 DEF next
      <4>3. QED
        BY <3>1, <3>2, <3>3, <3>4, <3>6, <4>1, <4>2, Quiet, ZenonT(30) DEF Locals, Flying, cl, entry
    <3>7. CASE /\ entry = NoToken /\ now < slot.retryAt /\ slot' = swept
               /\ call' = [call EXCEPT ![c] = Failed(cl, slot.lastErr)]
      <4>1. slot.lastErr # NoError /\ slot.lastErr \in Errors
        <5>1. slot.retryAt # 0
          BY <2>0, <3>7
        <5>2. QED
          BY <2>0, <5>1 DEF SlotOK, Types
      <4>2. Failed(cl, slot.lastErr) \in CallRecord
        BY <2>0, <3>1, <4>1, Ends, ZenonT(30)
      <4>3. /\ Failed(cl, slot.lastErr).pc = "return" /\ Failed(cl, slot.lastErr).token = NoToken
            /\ Failed(cl, slot.lastErr).err # NoError
        BY <3>1, <4>1, EndsRight
      <4>4. QED
        BY <3>1, <3>2, <3>3, <3>4, <3>7, <4>2, <4>3, Quiet, ZenonT(30) DEF Locals, Flying, cl, entry
    <3>8. CASE /\ slot.flight = NoFlight /\ slot' = [swept EXCEPT !.flight = flights + 1]
               /\ call' = [call EXCEPT ![c] = [cl EXCEPT !.pc = "read", !.flight = flights + 1]]
      <4> DEFINE next == [cl EXCEPT !.pc = "read", !.flight = flights + 1]
      <4>1. /\ next \in CallRecord /\ next.pc = "read" /\ next.flight = flights + 1 /\ next.err = NoError
            /\ next.sure = cl.sure
        <5>1. flights + 1 \in Nat /\ "read" \in Places
          BY <2>0 DEF Types, Places, Flying
        <5>2. QED
          BY <3>1, <5>1, ZenonT(30) DEF CallRecord
      <4> HIDE DEF next
      <4>2. call' = [call EXCEPT ![c] = next]
        BY <3>8 DEF next
      <4>3. slot'.flight = flights + 1 /\ flights + 1 # slot.flight
        BY <2>0, <3>8 DEF Types, SlotFields, NoFlight
      <4>4. flights' = flights + 1
        BY <3>4, <4>3
      <4>5. QED
        BY <3>1, <3>3, <3>8, <4>1, <4>2, <4>4, TakeOff, ZenonT(30) DEF cl, entry
    <3>9. QED
      BY <3>4, <3>5, <3>6, <3>7, <3>8
  <2>3. ASSUME NEW c \in Caller, Wake(c) \/ Cancel(c) \/ Send(c) \/ Return(c) PROVE IInv'
    <3>1. /\ call[c] \in CallRecord /\ slot' = slot /\ begun' \in Nat
          /\ UNCHANGED <<closed, now, flights, invalidates, cut, dropped, streak>>
      BY <2>0, <2>3 DEF Types, Wake, Cancel, Send, Return
    <3>2. CallOK(c)
      BY DEF IInv
    <3>3. CASE Wake(c)
      <4> DEFINE next == [call[c] EXCEPT !.pc = "enter", !.flight = NoFlight]
      <4>1. /\ next \in CallRecord /\ next.pc = "enter" /\ next.err = call[c].err /\ next.sure = call[c].sure
        BY <3>1, ZenonT(30) DEF CallRecord, Places, NoFlight
      <4> HIDE DEF next
      <4>2. call[c].pc = "wait" /\ call' = [call EXCEPT ![c] = next]
        BY <3>3 DEF Wake, next
      <4>3. QED
        BY <3>1, <3>2, <4>1, <4>2, Quiet, ZenonT(30) DEF Locals, Flying, CallOK
    <3>4. CASE Cancel(c)
      <4> DEFINE next == [Failed(call[c], "context") EXCEPT !.flight = NoFlight]
      <4>1. next \in CallRecord
        BY <2>0, <3>1, Ends, ZenonT(30)
      <4>2. next.pc = "return" /\ next.token = NoToken /\ next.err = "context"
        BY <3>1 DEF Failed, CallRecord
      <4> HIDE DEF next
      <4>3. call[c].pc = "wait" /\ call' = [call EXCEPT ![c] = next]
        BY <3>4 DEF Cancel, next
      <4>4. QED
        BY <3>1, <3>2, <4>1, <4>2, <4>3, Quiet, ZenonT(30) DEF Locals, Flying, NoError
    <3>5. CASE Send(c)
      <4> DEFINE next == [call[c] EXCEPT !.pc = "sent", !.sent = now]
      <4>1. /\ next \in CallRecord /\ next.pc = "sent" /\ next.err = call[c].err /\ next.sure = call[c].sure
            /\ next.flight = call[c].flight
        BY <2>0, <3>1, ZenonT(30) DEF CallRecord, Places, Flying
      <4> HIDE DEF next
      <4>2. call[c].pc = "read" /\ call' = [call EXCEPT ![c] = next]
        BY <3>5 DEF Send, next
      <4>3. QED
        BY <3>1, <3>2, <4>1, <4>2, Quiet, ZenonT(30) DEF Locals, Flying, CallOK
    <3>6. CASE Return(c)
      <4>1. Idle \in CallRecord /\ Idle.pc = "idle" /\ Idle.err = NoError /\ Idle.sure = FALSE
        BY <2>0 DEF Idle, CallRecord, Places, NoFlight, NoError
      <4>2. call[c].pc = "return" /\ call' = [call EXCEPT ![c] = Idle]
        BY <3>6 DEF Return
      <4>3. QED
        BY <3>1, <4>1, <4>2, Quiet, ZenonT(30) DEF Locals, Flying
    <3>7. QED
      BY <2>3, <3>3, <3>4, <3>5, <3>6
  <2>4. ASSUME NEW c \in Caller, Succeed(c) PROVE IInv'
    <3> DEFINE cl == call[c]
    <3>1. PICK a \in Answer :
            LET fresh == [id |-> cl.flight, nbf |-> cl.sent + a.skew, exp |-> cl.sent + a.ends,
                          sent |-> cl.sent, life |-> a.life]
            IN  /\ CheckToken(fresh, now)
                /\ slot' = [EmptySlot EXCEPT !.entry = fresh]
                /\ call' = [call EXCEPT ![c] = [Answered(cl, fresh) EXCEPT !.flight = NoFlight]]
      BY <2>4, ZenonT(30) DEF Succeed
    <3> DEFINE fresh == [id |-> cl.flight, nbf |-> cl.sent + a.skew, exp |-> cl.sent + a.ends,
                         sent |-> cl.sent, life |-> a.life]
    <3>2. /\ cl \in CallRecord /\ cl.pc = "sent" /\ cl.err = NoError
          /\ closed' = closed \cup {cl.flight} /\ streak' = NoStreak
          /\ UNCHANGED <<now, flights, begun, invalidates, cut, dropped>>
      BY <2>4 DEF Succeed, Close, IInv, Types, CallOK
    <3>3. fresh \in Token /\ fresh.id = cl.flight
      <4>1. a.skew \in Int /\ a.ends \in Int /\ a.life \in Nat
        BY ClientAssumption
      <4>2. cl.flight \in Nat /\ cl.sent \in Nat
        BY <3>2 DEF CallRecord
      <4>3. QED
        BY <4>1, <4>2 DEF Token
    <3>4. CheckToken(fresh, now) /\ slot' = [EmptySlot EXCEPT !.entry = fresh]
          /\ call' = [call EXCEPT ![c] = [Answered(cl, fresh) EXCEPT !.flight = NoFlight]]
      BY <3>1
    <3> HIDE DEF cl, fresh
    <3>5. InWindow(fresh, now) /\ fresh # NoToken
      BY <2>0, <3>3, <3>4, Window
    <3> DEFINE next == [Answered(cl, fresh) EXCEPT !.flight = NoFlight]
    <3>6. next \in CallRecord
      BY <2>0, <3>2, <3>3, Ends, ZenonT(30)
    <3>7. next.pc = "return" /\ next.token = fresh /\ next.err = NoError
      BY <3>2 DEF Answered, CallRecord
    <3> HIDE DEF next
    <3>8. call' = [call EXCEPT ![c] = next]
      BY <3>4 DEF next
    <3>9. /\ DOMAIN slot' = SlotFields /\ slot'.flight = NoFlight /\ slot'.entry = fresh
          /\ slot'.failures = 0 /\ slot'.lastErr = NoError /\ slot'.retryAt = 0
      BY <3>4 DEF EmptySlot, SlotFields
    <3>10. streak' \in [count: Nat, at: Nat]
      BY <3>2 DEF NoStreak
    <3>11. call[c].pc \in Flying /\ closed' = closed \cup {call[c].flight}
      BY <3>2 DEF cl, Flying
    <3>12. InWindow(slot'.entry, now) /\ slot'.entry.id = call[c].flight /\ slot'.entry \in Token
      BY <3>3, <3>5, <3>9 DEF cl
    <3>13. next.token = NoToken <=> next.err # NoError
      BY <3>5, <3>7
    <3>14. slot'.failures \in Nat /\ slot'.lastErr \in Errors \cup {NoError}
      BY <3>9
    <3>15. QED
      BY <3>2, <3>6, <3>7, <3>8, <3>9, <3>10, <3>11, <3>12, <3>13, <3>14, Landing, ZenonT(30)
  <2>5. ASSUME NEW c \in Caller, Fail(c) PROVE IInv'
    <3> DEFINE cl == call[c]
               entry == Kept(slot.entry, now)
               err == IF cl.pc = "read" THEN "subject" ELSE "exchange"
               next == [IF entry # NoToken THEN Answered(cl, entry) ELSE Failed(cl, err) EXCEPT !.flight = NoFlight]
    <3>1. /\ cl \in CallRecord /\ cl.pc \in {"read", "sent"} /\ cl.err = NoError
          /\ closed' = closed \cup {cl.flight} /\ streak' = [count |-> streak.count + 1, at |-> now]
          /\ UNCHANGED <<now, flights, begun, invalidates, cut, dropped>>
          /\ call' = [call EXCEPT ![c] = next]
          /\ slot' = [entry |-> entry, flight |-> NoFlight, failures |-> slot.failures + 1,
                      retryAt |-> now + Backoff(slot.failures + 1), lastErr |-> err]
      BY <2>5 DEF Fail, Close, IInv, Types, CallOK, Flying
    <3>2. entry \in Token
      BY <2>0, KeptToken
    <3>3. err \in Errors /\ err # NoError
      BY DEF Errors, NoError
    <3> HIDE DEF cl, entry, err
    <3>4. next \in CallRecord
      BY <2>0, <3>1, <3>2, <3>3, Ends, ZenonT(30)
    <3>5. next.pc = "return" /\ (next.token = NoToken <=> next.err # NoError)
      <4>1. CASE entry # NoToken
        BY <3>1, <4>1 DEF Answered, CallRecord
      <4>2. CASE entry = NoToken
        BY <3>1, <3>3, <4>2 DEF Failed, CallRecord
      <4>3. QED
        BY <4>1, <4>2
    <3> HIDE DEF next
    <3>6. /\ DOMAIN slot' = SlotFields /\ slot'.flight = NoFlight /\ slot'.entry = entry
          /\ slot'.failures \in Nat /\ slot'.lastErr = err
      BY <2>0, <3>1 DEF SlotFields, Types
    <3>7. streak' \in [count: Nat, at: Nat]
      BY <2>0, <3>1 DEF Types
    <3>8. QED
      BY <3>1, <3>2, <3>3, <3>4, <3>5, <3>6, <3>7, Landing, ZenonT(30) DEF cl, entry, Flying
  <2>6. CASE Invalidate
    <3>1. /\ slot' = [EmptySlot EXCEPT !.flight = slot.flight] /\ cut' = flights /\ streak' = NoStreak
          /\ dropped' = dropped \cup ({slot.entry.id} \ {NoToken.id}) /\ invalidates' = invalidates + 1
          /\ call' = [c \in Caller |-> [call[c] EXCEPT !.sure = FALSE]]
          /\ UNCHANGED <<closed, now, flights, begun>>
      BY <2>6 DEF Invalidate, Invalidated
    <3>2. /\ DOMAIN slot' = SlotFields /\ slot'.flight = slot.flight /\ slot'.entry = NoToken
          /\ slot'.failures = 0 /\ slot'.lastErr = NoError /\ slot'.retryAt = 0
      BY <3>1 DEF EmptySlot, SlotFields
    <3>3. ASSUME NEW c \in Caller
          PROVE  /\ call'[c] \in CallRecord /\ call'[c].pc = call[c].pc /\ call'[c].flight = call[c].flight
                 /\ call'[c].err = call[c].err /\ call'[c].token = call[c].token /\ call'[c].sure = FALSE
      BY <2>0, <3>1, ZenonT(30) DEF Types, CallRecord
    <3>4. dropped' \subseteq closed
      BY <2>0, <3>1 DEF Types, SlotOK, NoToken
    <3>5. call' \in [Caller -> CallRecord]
      BY <3>1, <3>3, ZenonT(30)
    <3>6. Types'
      BY <2>0, <3>1, <3>2, <3>4, <3>5 DEF Types, NoStreak
    <3>7. SlotOK'
      BY <2>0, <3>1, <3>2, <3>3, ZenonT(30) DEF SlotOK
    <3>8. ASSUME NEW c \in Caller PROVE CallOK(c)'
      <4>1. CallOK(c)
        BY DEF IInv
      <4>2. \A d \in Caller : call'[d].pc = call[d].pc
        BY <3>3, ZenonT(30)
      <4>3. closed' = closed
        BY <3>1
      <4>4. QED
        BY <3>2, <3>3, <4>1, <4>2, <4>3, ZenonT(30) DEF CallOK
    <3>9. QED
      BY <3>6, <3>7, <3>8 DEF IInv
  <2>7. CASE Tick
    <3>1. /\ now' = now + 1 /\ UNCHANGED <<slot, closed, flights, begun, invalidates, cut, dropped, streak>>
          /\ call' = [c \in Caller |->
                [call[c] EXCEPT !.sure = @ /\ (call[c].pc = "return" \/ InWindow(slot.entry, now'))]]
      BY <2>7 DEF Tick
    <3>2. ASSUME NEW c \in Caller
          PROVE  /\ call'[c] \in CallRecord /\ call'[c].pc = call[c].pc /\ call'[c].flight = call[c].flight
                 /\ call'[c].err = call[c].err /\ call'[c].token = call[c].token
                 /\ call'[c].sure => call[c].sure /\ (call[c].pc = "return" \/ InWindow(slot.entry, now'))
      BY <2>0, <3>1, ZenonT(30) DEF Types, CallRecord
    <3>3. call' \in [Caller -> CallRecord]
      BY <3>1, <3>2
    <3>4. Types'
      BY <2>0, <3>1, <3>3 DEF Types
    <3>5. SlotOK'
      BY <2>0, <3>1, <3>2 DEF SlotOK
    <3>6. ASSUME NEW c \in Caller PROVE CallOK(c)'
      <4>1. InWindow(slot.entry, now)' <=> InWindow(slot.entry, now')
        BY <3>1 DEF InWindow
      <4>2. CallOK(c)
        BY DEF IInv
      <4>3. /\ call'[c].pc = call[c].pc /\ call'[c].flight = call[c].flight
            /\ call'[c].err = call[c].err /\ call'[c].token = call[c].token
            /\ call'[c].sure => call[c].sure /\ (call[c].pc = "return" \/ InWindow(slot.entry, now'))
        BY <3>2
      <4>4. \A d \in Caller : call'[d].pc = call[d].pc
        BY <3>2
      <4>5. slot' = slot /\ closed' = closed
        BY <3>1
      <4>6. QED
        BY <4>1, <4>2, <4>3, <4>4, <4>5 DEF CallOK
    <3>7. QED
      BY <3>4, <3>5, <3>6 DEF IInv
  <2>8. CASE UNCHANGED vars
    BY <2>8, ZenonT(30) DEF vars, IInv, Types, SlotOK, CallOK, InWindow
  <2>9. QED
    BY <2>1, <2>2, <2>3, <2>4, <2>5, <2>6, <2>7, <2>8 DEF Next, CallStep
<1>3. QED
  BY <1>1, <1>2, PTL DEF Spec

-----------------------------------------------------------------------------

\* However many goroutines call Token and Invalidate, one at most is
\* exchanging, it is the one whose flight the slot holds, and a waiter's
\* channel is the slot's or is closed.
THEOREM OneFlight == Spec => []SingleFlight
<1>1. IInv => SingleFlight
  <2> SUFFICES ASSUME IInv PROVE SingleFlight
    OBVIOUS
  <2>1. ASSUME NEW c \in Caller
        PROVE  /\ CallType(call[c])
               /\ call[c].pc = "return" => (call[c].token = NoToken <=> call[c].err # NoError)
    BY DEF IInv, Types, CallOK, CallRecord, CallType, Places
  <2>2. TypeOK
    BY <2>1 DEF IInv, Types, TypeOK
  <2>3. QED
    BY <2>2 DEF IInv, SlotOK, CallOK, SingleFlight
<1>2. QED
  BY <1>1, Inductive, PTL

\* Every token Token returns was inside its window when the call checked it
\* and had not been dropped, and a call that finds a usable token is answered
\* unless the window ends or Invalidate is called.
THEOREM Usable == Spec => ReturnsWhatIsUsable
<1> DEFINE Good(c) == LET token == call'[c].token IN
                      call[c].pc # "return" /\ call'[c].pc = "return" =>
                          /\ token # NoToken => InWindow(token, call'[c].at) /\ token.id \notin dropped
                          /\ call'[c].sure => token # NoToken
<1>1. IInv /\ [Next]_vars => \A c \in Caller : Good(c)
  <2> SUFFICES ASSUME IInv, [Next]_vars, NEW c \in Caller, call[c].pc # "return", call'[c].pc = "return"
               PROVE  /\ call'[c].token # NoToken => InWindow(call'[c].token, call'[c].at) /\ call'[c].token.id \notin dropped
                      /\ call'[c].sure => call'[c].token # NoToken
    OBVIOUS
  <2>1. /\ call \in [Caller -> CallRecord] /\ call[c] \in CallRecord /\ CallOK(c) /\ now \in Nat
        /\ slot.entry \in Token /\ dropped \subseteq closed
    BY DEF IInv, Types
  <2> DEFINE cl == call[c]
             entry == Kept(slot.entry, now)
  <2>2. /\ entry # NoToken => InWindow(entry, now) /\ entry.id \notin dropped
        /\ InWindow(slot.entry, now) => entry # NoToken
    BY <2>1, KeptToken, Window DEF IInv, SlotOK
  <2>3. cl.sure => InWindow(slot.entry, now)
    BY <2>1 DEF CallOK
  <2> HIDE DEF cl, entry
  <2>4. ASSUME call'[c] = Answered(cl, entry) \/ call'[c] = [Answered(cl, entry) EXCEPT !.flight = NoFlight],
               entry # NoToken
        PROVE  /\ InWindow(call'[c].token, call'[c].at) /\ call'[c].token.id \notin dropped
               /\ call'[c].token # NoToken
    <3>1. call'[c].token = entry /\ call'[c].at = now
      BY <2>1, <2>4, ZenonT(30) DEF Answered, CallRecord, cl
    <3>2. QED
      BY <2>2, <2>4, <3>1
  <2>5. ASSUME NEW err, ~cl.sure,
               call'[c] = Failed(cl, err) \/ call'[c] = [Failed(cl, err) EXCEPT !.flight = NoFlight]
        PROVE  call'[c].token = NoToken /\ ~call'[c].sure
    BY <2>1, <2>5, ZenonT(30) DEF Failed, CallRecord, cl
  <2>6. CASE Enter(c)
    <3>1. \/ entry # NoToken /\ call' = [call EXCEPT ![c] = Answered(cl, entry)]
          \/ entry = NoToken /\ call' = [call EXCEPT ![c] = Failed(cl, slot.lastErr)]
          \/ call' = [call EXCEPT ![c] = [cl EXCEPT !.pc = "wait", !.flight = slot.flight]]
          \/ call' = [call EXCEPT ![c] = [cl EXCEPT !.pc = "read", !.flight = flights + 1]]
      BY <2>6 DEF Enter, cl, entry
    <3>2. \/ entry # NoToken /\ call'[c] = Answered(cl, entry)
          \/ entry = NoToken /\ call'[c] = Failed(cl, slot.lastErr)
          \/ call'[c].pc = "wait" \/ call'[c].pc = "read"
      BY <2>1, <3>1, ZenonT(30) DEF CallRecord, cl
    <3>3. QED
      BY <2>2, <2>3, <2>4, <2>5, <3>2, ZenonT(30)
  <2>7. CASE Cancel(c)
    <3>1. cl.pc = "wait" /\ call'[c] = [Failed(cl, "context") EXCEPT !.flight = NoFlight]
      BY <2>1, <2>7 DEF Cancel, cl
    <3>2. ~cl.sure
      BY <2>1, <3>1 DEF CallOK, cl
    <3>3. QED
      BY <2>5, <3>1, <3>2
  <2>8. CASE Succeed(c)
    <3>1. PICK a \in Answer :
            LET fresh == [id |-> cl.flight, nbf |-> cl.sent + a.skew, exp |-> cl.sent + a.ends,
                          sent |-> cl.sent, life |-> a.life]
            IN  CheckToken(fresh, now) /\ call'[c] = [Answered(cl, fresh) EXCEPT !.flight = NoFlight]
      BY <2>1, <2>8, ZenonT(30) DEF Succeed, cl
    <3> DEFINE fresh == [id |-> cl.flight, nbf |-> cl.sent + a.skew, exp |-> cl.sent + a.ends,
                         sent |-> cl.sent, life |-> a.life]
    <3>2. fresh \in Token /\ fresh.id = cl.flight
      <4>1. a.skew \in Int /\ a.ends \in Int /\ a.life \in Nat
        BY ClientAssumption
      <4>2. cl.flight \in Nat /\ cl.sent \in Nat
        BY <2>1 DEF CallRecord, cl
      <4>3. QED
        BY <4>1, <4>2 DEF Token
    <3>3. CheckToken(fresh, now) /\ call'[c] = [Answered(cl, fresh) EXCEPT !.flight = NoFlight]
      BY <3>1
    <3> HIDE DEF fresh
    <3>4. InWindow(fresh, now) /\ fresh # NoToken
      BY <2>1, <3>2, <3>3, Window
    <3>5. call'[c].token = fresh /\ call'[c].at = now
      BY <2>1, <3>3 DEF Answered, CallRecord, cl
    <3>6. cl.flight \notin closed
      BY <2>1, <2>8 DEF Succeed, IInv, CallOK, SlotOK, Flying, cl
    <3>7. QED
      BY <2>1, <3>2, <3>4, <3>5, <3>6
  <2>9. CASE Fail(c)
    <3>1. \/ entry # NoToken /\ call'[c] = [Answered(cl, entry) EXCEPT !.flight = NoFlight]
          \/ \E err : entry = NoToken /\ call'[c] = [Failed(cl, err) EXCEPT !.flight = NoFlight]
      BY <2>1, <2>9 DEF Fail, cl, entry
    <3>2. QED
      BY <2>2, <2>3, <2>4, <2>5, <3>1, ZenonT(30)
  <2>10. CASE Begin(c) \/ Wake(c) \/ Send(c) \/ Return(c)
    <3>1. CASE Begin(c)
      BY <2>1, <3>1 DEF Begin, Idle
    <3>2. CASE Wake(c) \/ Send(c)
      BY <2>1, <3>2, ZenonT(30) DEF Wake, Send, CallRecord
    <3>3. CASE Return(c)
      BY <2>1, <3>3 DEF Return, Idle
    <3>4. QED
      BY <2>10, <3>1, <3>2, <3>3, ZenonT(30)
  <2>11. ASSUME NEW d \in Caller, d # c, Begin(d) \/ CallStep(d) PROVE FALSE
    <3>1. call'[c] = call[c]
      BY <2>1, <2>11, ZenonT(30) DEF Begin, CallStep, Enter, Wake, Cancel, Send, Succeed, Fail, Return
    <3>2. QED
      BY <3>1
  <2>12. CASE Invalidate \/ Tick \/ UNCHANGED vars
    BY <2>1, <2>12 DEF Invalidate, Tick, vars, CallRecord
  <2>13. QED
    BY <2>6, <2>7, <2>8, <2>9, <2>10, <2>11, <2>12, ZenonT(30) DEF Next, CallStep
<1>2. IInv /\ [Next]_vars => [\A c \in Caller : Good(c)]_vars
  BY <1>1
<1>3. QED
  BY <1>2, Inductive, PTL DEF Spec, ReturnsWhatIsUsable
-----------------------------------------------------------------------------
(* The backoff.                                                            *)

\* The slot's counter and deadline are those of the failures in a row, over
\* all callers.
Backs ==
    /\ slot.failures = streak.count
    /\ slot.retryAt = IF streak.count > 0 THEN streak.at + Backoff(streak.count) ELSE 0

\* An exchange that follows n failures in a row begins no sooner than
\* Backoff(n) after the last of them, whichever callers failed and whichever
\* one exchanges; Succeed and Invalidate start the count again.
WaitsHonoured ==
    [][\A c \in Caller :
          call[c].pc = "enter" /\ call'[c].pc \in Flying /\ streak.count > 0 =>
              now >= streak.at + Backoff(streak.count)]_vars

\* Backs is inductive, given IInv.
LEMMA Backing == Spec => []Backs
<1>1. Init => Backs
  BY DEF Init, Backs, EmptySlot, NoStreak
<1>2. IInv /\ Backs /\ [Next]_vars => Backs'
  <2> SUFFICES ASSUME IInv, Backs, [Next]_vars PROVE Backs'
    OBVIOUS
  <2>0. DOMAIN slot = SlotFields /\ streak.count \in Nat
    BY DEF IInv, Types
  <2>1. ASSUME NEW c \in Caller, Enter(c) PROVE Backs'
    <3>1. slot'.failures = slot.failures /\ slot'.retryAt = slot.retryAt /\ streak' = streak
      BY <2>0, <2>1, ZenonT(30) DEF Enter, SlotFields
    <3>2. QED
      BY <3>1 DEF Backs
  <2>2. ASSUME NEW c \in Caller, Succeed(c) PROVE Backs'
    <3>1. slot'.failures = 0 /\ slot'.retryAt = 0 /\ streak' = NoStreak
      BY <2>2 DEF Succeed, EmptySlot
    <3>2. QED
      BY <3>1 DEF Backs, NoStreak
  <2>3. ASSUME NEW c \in Caller, Fail(c) PROVE Backs'
    <3>1. /\ slot'.failures = slot.failures + 1 /\ slot'.retryAt = now + Backoff(slot.failures + 1)
          /\ streak'.count = streak.count + 1 /\ streak'.at = now
      BY <2>3 DEF Fail
    <3>2. QED
      BY <2>0, <3>1 DEF Backs
  <2>4. CASE Invalidate
    <3>1. slot'.failures = 0 /\ slot'.retryAt = 0 /\ streak' = NoStreak
      BY <2>4 DEF Invalidate, Invalidated, EmptySlot
    <3>2. QED
      BY <3>1 DEF Backs, NoStreak
  <2>5. ASSUME NEW c \in Caller, Begin(c) \/ Wake(c) \/ Cancel(c) \/ Send(c) \/ Return(c) PROVE Backs'
    BY <2>5 DEF Begin, Wake, Cancel, Send, Return, Backs
  <2>6. CASE Tick \/ UNCHANGED vars
    BY <2>6 DEF Tick, vars, Backs
  <2>7. QED
    BY <2>1, <2>2, <2>3, <2>4, <2>5, <2>6 DEF Next, CallStep
<1>3. QED
  BY <1>1, <1>2, Inductive, PTL DEF Spec

\* No exchange of Token begins inside the backoff of the failures before it,
\* for any number of callers, failures and Invalidate calls.
THEOREM SpacedExchanges == Spec => WaitsHonoured
<1> DEFINE Late(c) == call[c].pc = "enter" /\ call'[c].pc \in Flying /\ streak.count > 0 =>
                          now >= streak.at + Backoff(streak.count)
<1>1. IInv /\ Backs /\ [Next]_vars => \A c \in Caller : Late(c)
  <2> SUFFICES ASSUME IInv, Backs, [Next]_vars, NEW c \in Caller, call[c].pc = "enter", call'[c].pc \in Flying,
                      streak.count > 0
               PROVE  now >= streak.at + Backoff(streak.count)
    OBVIOUS
  <2>1. call \in [Caller -> CallRecord] /\ call[c] \in CallRecord
    BY DEF IInv, Types
  <2>2. CASE Enter(c)
    <3>1. \/ call' = [call EXCEPT ![c] = Answered(call[c], Kept(slot.entry, now))]
          \/ call' = [call EXCEPT ![c] = [call[c] EXCEPT !.pc = "wait", !.flight = slot.flight]]
          \/ call' = [call EXCEPT ![c] = Failed(call[c], slot.lastErr)]
          \/ now >= slot.retryAt
      BY <2>2 DEF Enter
    <3>2. Answered(call[c], Kept(slot.entry, now)).pc \notin Flying /\ Failed(call[c], slot.lastErr).pc \notin Flying
      BY <2>1, EndsRight DEF Flying
    <3>3. [call[c] EXCEPT !.pc = "wait", !.flight = slot.flight].pc \notin Flying
      BY <2>1 DEF CallRecord, Flying
    <3>4. now >= slot.retryAt
      BY <2>1, <3>1, <3>2, <3>3, ZenonT(30)
    <3>5. QED
      BY <3>4 DEF Backs
  <2>3. ASSUME NEW d \in Caller, d # c, Begin(d) \/ CallStep(d) PROVE call'[c] = call[c]
    BY <2>1, <2>3, ZenonT(30) DEF Begin, CallStep, Enter, Wake, Cancel, Send, Succeed, Fail, Return
  <2>4. CASE Begin(c) \/ Wake(c) \/ Cancel(c) \/ Send(c) \/ Succeed(c) \/ Fail(c) \/ Return(c)
    BY <2>4 DEF Begin, Wake, Cancel, Send, Succeed, Fail, Return
  <2>5. CASE Invalidate \/ Tick \/ UNCHANGED vars
    <3>1. call'[c].pc = call[c].pc
      BY <2>1, <2>5 DEF Invalidate, Tick, vars, CallRecord
    <3>2. QED
      BY <3>1 DEF Flying
  <2>6. QED
    BY <2>2, <2>3, <2>4, <2>5, ZenonT(30) DEF Next, CallStep, Flying
<1>2. IInv /\ Backs /\ [Next]_vars => [\A c \in Caller : Late(c)]_vars
  BY <1>1
<1>3. QED
  BY <1>2, Inductive, Backing, PTL DEF Spec, WaitsHonoured
=============================================================================
