----------------------------- MODULE AllowCache -----------------------------
(***************************************************************************)
(* What a decision cache promises, without stamps, tombstones, floors,     *)
(* sequence numbers or an eviction order.                                  *)
(*                                                                         *)
(* The cache remembers at most one allow per key.  It may forget at any    *)
(* time.  It learns an allow only from a PDP call that is still entitled   *)
(* to store it: a call loses the entitlement for a key when a verdict that *)
(* may not be cached is learned for that key, and for every key when the   *)
(* cache is flushed or closed.  It serves only an allow that is inside its *)
(* lifetime and not below the highest policy revision learned.             *)
(***************************************************************************)
EXTENDS Integers

CONSTANTS Key, Caller, MaxTTL, None

VARIABLES
    mem,        \* key -> remembered allow, or None
    entitled,   \* caller -> keys its in-flight PDP call may still store
    served,     \* caller -> what its running call has read from the cache
    watermark,  \* highest policy revision learned
    now

specVars == <<mem, entitled, served, watermark, now>>

Usable(m, t) ==
    /\ m.decision.allowed
    /\ t \in m.asked .. m.asked + MaxTTL - 1
    /\ t < m.decision.exp

\* Only forgetting: no key gains an allow or changes the one it has.
Forget == \A k \in Key : mem'[k] \in {mem[k], None}

Init ==
    /\ mem = [k \in Key |-> None]
    /\ entitled = [c \in Caller |-> {}]
    /\ served = [c \in Caller |-> {}]
    /\ watermark = 0
    /\ now = 0

\* A call reads a usable allow, at or above the watermark, from the cache.
Serve(c) ==
    /\ \E k \in Key :
          /\ mem[k] # None
          /\ Usable(mem[k], now)
          /\ mem[k].decision.rev >= watermark
          /\ served' = [served EXCEPT ![c] = @ \cup {<<k, mem[k].decision>>}]
    /\ UNCHANGED <<mem, entitled, watermark, now>>

\* A lookup misses; the cache may forget what it found stale.
Miss ==
    /\ Forget
    /\ UNCHANGED <<entitled, served, watermark, now>>

\* A PDP call starts and is entitled to the keys it asks about.
Ask(c) ==
    /\ \E K \in SUBSET Key : entitled' = [entitled EXCEPT ![c] = K]
    /\ UNCHANGED <<mem, served, watermark, now>>

\* The call's reads are replaced by PDP answers, or the call ends.
Finish(c) ==
    /\ served' = [served EXCEPT ![c] = {}]
    /\ entitled' \in {entitled, [entitled EXCEPT ![c] = {}]}
    /\ UNCHANGED <<mem, watermark, now>>

\* What every verdict does: revisions only go up, and what is below is gone.
Learn ==
    /\ watermark' >= watermark
    /\ \A k \in Key : mem'[k] # None => mem'[k].decision.rev >= watermark'
    /\ UNCHANGED <<served, now>>

\* A verdict for k that may not be cached: nobody in flight may store k now.
LearnDeny(k) ==
    /\ Learn
    /\ Forget
    /\ mem'[k] = None
    /\ \A c \in Caller : entitled'[c] \in {{}, entitled[c] \ {k}}

\* An allow for k, remembered only when the call is entitled to it.
LearnAllow(c, k) ==
    /\ Learn
    /\ \A j \in Key \ {k} : mem'[j] \in {mem[j], None}
    /\ \/ mem'[k] \in {mem[k], None}
       \/ k \in entitled[c] /\ Usable(mem'[k], now)
    /\ entitled' \in {entitled, [entitled EXCEPT ![c] = {}]}

\* A flush or a close.
Drop ==
    /\ mem' = [k \in Key |-> None]
    /\ entitled' = [c \in Caller |-> {}]
    /\ UNCHANGED <<served, watermark, now>>

Clock ==
    /\ now' \in Int
    /\ UNCHANGED <<mem, entitled, served, watermark>>

Next ==
    \/ \E c \in Caller : Serve(c) \/ Ask(c) \/ Finish(c)
    \/ \E k \in Key : LearnDeny(k) \/ \E c \in Caller : LearnAllow(c, k)
    \/ Miss \/ Drop \/ Clock

Spec == Init /\ [][Next]_specVars

=============================================================================
