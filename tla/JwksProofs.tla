----------------------------- MODULE JwksProofs -----------------------------
(***************************************************************************)
(* What holds of authverify.JWKSClient for any number of callers and kids, *)
(* every TTL, floor, grace and timeout, and whatever the issuer serves.    *)
(***************************************************************************)
EXTENDS JwksClient, TLAPS

\* Time limits of the provers, in seconds, where a step asks for no other.
USE SMTT(20), ZenonT(30)

Places == {"idle", "look", "refresh", "wait", "close", "read", "lookAgain", "missed", "return"} \cup Fetching

CallRecord == [pc: Places, op: {"resolve", "refresh"}, kid: Kid, reading: Nat, flight: Nat,
               got: Document \cup {NoDocument}, asOf: Nat,
               result: {"none", "key", "unavailable", "unknown"}, sure: BOOLEAN]

CacheFields == {"loaded", "keys", "document", "fetchedAt", "asOf", "attempted", "lastAttempt", "inflight", "failed"}

Types ==
    /\ now \in Nat /\ begun \in Nat /\ rotations \in Nat
    /\ published \in Document
    /\ flights \in Seq(Nat)
    /\ DOMAIN cache = CacheFields
    /\ cache.loaded \in BOOLEAN /\ cache.attempted \in BOOLEAN /\ cache.failed \in BOOLEAN
    /\ cache.fetchedAt \in Nat /\ cache.fetchedAt <= now
    /\ cache.asOf \in Nat /\ cache.asOf <= cache.fetchedAt
    /\ cache.lastAttempt \in Nat /\ cache.lastAttempt <= now
    /\ cache.inflight \in 0 .. Len(flights)
    /\ closed \subseteq 1 .. Len(flights)
    /\ call \in [Caller -> CallRecord]

\* A refresh has ended, one way or the other.
Tried == cache.loaded \/ cache.failed

\* The keys are those of a usable document, no older than its fetch was long;
\* the floor counts from the last flight; the flight held has an owner.
CacheOK ==
    /\ cache.loaded => /\ cache.document \in Document /\ Usable(cache.document)
                       /\ cache.keys = parseJWKS(cache.document)
                       /\ cache.fetchedAt <= cache.asOf + Timeout
    /\ cache.attempted <=> flights # <<>>
    /\ cache.attempted => cache.lastAttempt = flights[Len(flights)]
    /\ cache.inflight # NoFlight => cache.attempted /\ \E c \in Caller : call[c].pc \in Fetching
    /\ cache.attempted /\ cache.inflight = NoFlight => Tried
    /\ closed # {} => Tried
    /\ \A i \in 1 .. Len(flights) - 1 : flights[i + 1] - flights[i] >= RefreshFloor

\* What the locals of one call promise of the cache.
Alone(cl) ==
    /\ cl.reading <= now /\ cl.asOf <= now /\ cl.flight <= Len(flights)
    /\ cl.pc \in Fetching => /\ cl.flight # NoFlight /\ cl.flight = cache.inflight
                             /\ flights[cl.flight] <= now /\ now <= flights[cl.flight] + Timeout
    /\ cl.pc = "fetched" => cl.got \in Document /\ flights[cl.flight] <= cl.asOf
    /\ cl.pc \in {"wait", "close"} => cl.flight # NoFlight
    /\ cl.pc \in {"close", "read", "lookAgain", "missed"} => Tried
    /\ cl.sure => cl.op = "resolve" /\ cl.pc # "missed"
    /\ cl.sure /\ cl.pc # "return" => cache.loaded /\ cl.kid \in DOMAIN cache.keys
    /\ cl.pc # "return" => cl.result = "none"
    /\ cl.pc = "return" => /\ cl.sure => cl.result = "key"
                           /\ cl.result = "key" => cl.reading - cl.asOf < CacheTTL + OutageGrace + Timeout
                           /\ cl.result = "unknown" => cache.loaded

\* One caller fetches; a waiter's flight is held, closing or closed.
Peers(c) ==
    /\ \A d \in Caller : call[c].pc \in Fetching /\ call[d].pc \in Fetching => c = d
    /\ call[c].pc = "wait" => \/ call[c].flight = cache.inflight
                              \/ call[c].flight \in closed
                              \/ \E d \in Caller : call[d].pc = "close" /\ call[d].flight = call[c].flight

\* The inductive invariant.
IInv == Types /\ CacheOK /\ \A c \in Caller : Alone(call[c]) /\ Peers(c)

-----------------------------------------------------------------------------
(* The parser.                                                             *)

\* A document in which every key fits, nothing is repeated and nothing trails
\* can be read in one way: that of PublicKeys.
LEMMA OneReading ==
    ASSUME NEW doc \in Document, NEW admit, parseJWKSDocument(doc, admit) # Invalid
    PROVE  Readings(doc) = {parseJWKSDocument(doc, admit)}
<1> DEFINE D == DOMAIN doc.keys
           kids == {doc.keys[i].kid : i \in D}
           Of(kid) == {j \in D : doc.keys[j].kid = kid}
           Says(kid) == UNION {{doc.keys[i].public} \cup doc.keys[i].again : i \in Of(kid)}
           unfit == {doc.keys[i].kid : i \in {j \in D : ~doc.keys[j].fits}}
           Over(ks) == {f \in [ks -> UNION {Says(kid) : kid \in ks}] : \A kid \in ks : f[kid] \in Says(kid)}
           P == PublicKeys(doc.keys)
<1>1. /\ parseJWKSDocument(doc, admit) = P
      /\ ~doc.trailing
      /\ \A i \in D : doc.keys[i].again = {} /\ doc.keys[i].fits
      /\ \A i, j \in D : doc.keys[i].kid = doc.keys[j].kid => i = j
  BY DEF parseJWKSDocument, singleDocumentWithoutDuplicateMembers, KeysFit
<1>2. D \subseteq Int
  BY JwksAssumption
<1>3. ASSUME NEW i \in D
      PROVE  Says(doc.keys[i].kid) = {doc.keys[i].public} /\ P[doc.keys[i].kid] = doc.keys[i].public
  <2> DEFINE kid == doc.keys[i].kid
             Last(k) == k \in D /\ doc.keys[k].kid = kid /\ \A j \in D : doc.keys[j].kid = kid => j <= k
  <2>1. Of(kid) = {i}
    BY <1>1, <1>3
  <2>2. Says(kid) = {doc.keys[i].public}
    BY <1>1, <1>3, <2>1
  <2>3. i <= i
    BY <1>2, <1>3
  <2>4. \A j \in D : doc.keys[j].kid = kid => j <= i
    BY <1>1, <1>3, <2>3
  <2>5. (CHOOSE k \in D : doc.keys[k].kid = kid /\ \A j \in D : doc.keys[j].kid = kid => j <= k) = i
    BY <1>1, <1>3, <2>4
  <2>6. P[kid] = doc.keys[i].public
    BY <1>3, <2>5, ZenonT(30) DEF PublicKeys
  <2>7. QED
    BY <2>2, <2>6
<1>4. DOMAIN P = kids /\ P = [kid \in kids |-> P[kid]]
  BY DEF PublicKeys
<1>5. \A kid \in kids : Says(kid) = {P[kid]}
  BY <1>3
<1>6. Over(kids) = {P}
  <2>1. P \in [kids -> UNION {Says(kid) : kid \in kids}]
    <3> HIDE DEF Says, kids, P
    <3>1. \A kid \in kids : P[kid] \in UNION {Says(k) : k \in kids}
      BY <1>5
    <3>2. QED
      BY <1>4, <3>1
  <2>2. P \in Over(kids)
    <3> HIDE DEF Says, kids, P
    <3>1. \A kid \in kids : P[kid] \in Says(kid)
      BY <1>5
    <3>2. QED
      BY <2>1, <3>1
  <2>3. ASSUME NEW f \in Over(kids) PROVE f = P
    <3>1. DOMAIN f = kids /\ f = [kid \in kids |-> f[kid]] /\ \A kid \in kids : f[kid] = P[kid]
      BY <1>5, <2>3, ZenonT(30)
    <3>2. QED
      BY <1>4, <3>1
  <2>4. QED
    BY <2>2, <2>3, ZenonT(30)
<1>7. unfit = {}
  BY <1>1
<1>8. Readings(doc) = UNION {Over(ks) : ks \in {kids, kids \ unfit} \cup (IF doc.trailing THEN {{}} ELSE {})}
  BY DEF Readings
<1>9. {kids, kids \ unfit} \cup (IF doc.trailing THEN {{}} ELSE {}) = {kids}
  BY <1>1, <1>7
<1>10. Readings(doc) = Over(kids)
  <2> HIDE DEF Over, kids, unfit
  <2>1. Readings(doc) = UNION {Over(ks) : ks \in {kids}}
    BY <1>8, <1>9
  <2>2. QED
    BY <2>1
<1> QED
  BY <1>1, <1>6, <1>10, ZenonT(30)

\* The two paths read a document alike, but for retire_after.
LEMMA SamePaths ==
    ASSUME NEW doc \in Document
    PROVE  /\ parseJWKS(doc) # Invalid => Keys(doc) = parseJWKS(doc)
           /\ Keys(doc) # Invalid => \/ Keys(doc) = parseJWKS(doc)
                                     \/ \E i \in DOMAIN doc.keys : doc.keys[i].retire # "absent"
BY DEF parseJWKS, Keys, parseJWKSDocument, KeysFit, retireAfterFits

-----------------------------------------------------------------------------
(* The kinds of steps.                                                     *)

\* A step of one call that leaves the cache, the flights and the channels
\* alone: it neither takes off nor lands nor closes.
LEMMA Quiet ==
    ASSUME IInv, NEW c \in Caller, NEW cl \in CallRecord, call' = [call EXCEPT ![c] = cl],
           UNCHANGED <<cache, closed, now, published, flights, rotations>>, begun' \in Nat,
           cl.pc \in Fetching <=> call[c].pc \in Fetching,
           call[c].pc # "close", cl.pc = "wait" => cl.flight = cache.inflight,
           Alone(cl)
    PROVE  IInv'
<1>1. Types'
  BY DEF IInv, Types
<1>2. \A d \in Caller : /\ call'[d] = IF d = c THEN cl ELSE call[d]
                        /\ call'[d].pc \in Fetching <=> call[d].pc \in Fetching
                        /\ call[d].pc = "close" => call'[d] = call[d]
  BY DEF IInv, Types
<1>3. CacheOK'
  <2>1. Tried' = Tried
    BY DEF Tried
  <2>2. Usable(cache.document)' = Usable(cache.document) /\ parseJWKS(cache.document)' = parseJWKS(cache.document)
    BY DEF Usable
  <2>3. QED
    BY <1>2, <2>1, <2>2 DEF IInv, CacheOK
<1>4. ASSUME NEW d \in Caller PROVE Alone(call[d])'
  <2>1. Alone(call'[d])
    BY <1>2, <1>4 DEF IInv
  <2>2. QED
    BY <2>1 DEF Alone, Tried
<1>5. ASSUME NEW d \in Caller PROVE Peers(d)'
  BY <1>2, <1>5 DEF IInv, Peers
<1>6. QED
  BY <1>1, <1>3, <1>4, <1>5 DEF IInv

\* A call becomes the flight.
LEMMA TakeOff ==
    ASSUME IInv, NEW c \in Caller, call[c].pc = "refresh", cache.inflight = NoFlight, ~TooSoon(now),
           call' = [call EXCEPT ![c] = [call[c] EXCEPT !.pc = "fetch", !.flight = Len(flights) + 1]],
           cache' = [cache EXCEPT !.inflight = Len(flights) + 1, !.lastAttempt = now, !.attempted = TRUE],
           flights' = Append(flights, now),
           UNCHANGED <<closed, now, published, begun, rotations>>
    PROVE  IInv'
<1> DEFINE f == Len(flights) + 1
           cl == [call[c] EXCEPT !.pc = "fetch", !.flight = f]
<1>1. /\ flights \in Seq(Nat) /\ now \in Nat /\ call \in [Caller -> CallRecord] /\ call[c] \in CallRecord
      /\ Len(flights) \in Nat
  BY DEF IInv, Types
<1>2. /\ flights' \in Seq(Nat) /\ Len(flights') = f /\ flights'[f] = now
      /\ \A i \in 1 .. Len(flights) : flights'[i] = flights[i]
  BY <1>1
<1>3. /\ DOMAIN cache' = CacheFields /\ cache'.inflight = f /\ cache'.lastAttempt = now /\ cache'.attempted = TRUE
      /\ cache'.loaded = cache.loaded /\ cache'.keys = cache.keys /\ cache'.document = cache.document
      /\ cache'.fetchedAt = cache.fetchedAt /\ cache'.asOf = cache.asOf /\ cache'.failed = cache.failed
  BY DEF IInv, Types, CacheFields
<1>4. /\ cl \in CallRecord /\ cl.pc = "fetch" /\ cl.flight = f /\ cl.sure = call[c].sure /\ cl.kid = call[c].kid
      /\ cl.op = call[c].op /\ cl.reading = call[c].reading /\ cl.asOf = call[c].asOf /\ cl.result = call[c].result
  <2>1. f \in Nat /\ "fetch" \in Places
    BY <1>1 DEF Places, Fetching
  <2>2. cl \in CallRecord
    BY <1>1, <2>1, ZenonT(30) DEF CallRecord
  <2>3. QED
    BY <1>1, <2>2 DEF CallRecord
<1>5. \A d \in Caller : call'[d] = IF d = c THEN cl ELSE call[d]
  BY <1>1
<1>6. Types'
  <2>1. call' \in [Caller -> CallRecord]
    BY <1>1, <1>4
  <2>2. closed' \subseteq 1 .. Len(flights') /\ cache'.inflight \in 0 .. Len(flights')
    BY <1>1, <1>2, <1>3 DEF IInv, Types
  <2>3. QED
    BY <1>1, <1>2, <1>3, <2>1, <2>2 DEF IInv, Types
<1>7. \A d \in Caller : call[d].pc \notin Fetching
  BY DEF IInv, Alone
<1>8. CacheOK'
  <2>1. Tried' = Tried
    BY <1>3 DEF Tried
  <2>2. flights' # <<>>
    BY <1>1, <1>2
  <2>3. ASSUME NEW i \in 1 .. Len(flights') - 1 PROVE flights'[i + 1] - flights'[i] >= RefreshFloor
    <3>1. CASE i < Len(flights)
      BY <1>1, <1>2, <2>3, <3>1 DEF IInv, CacheOK
    <3>2. CASE i = Len(flights)
      <4>1. flights # <<>> /\ cache.attempted /\ flights[i] = cache.lastAttempt
        BY <1>1, <2>3, <3>2 DEF IInv, CacheOK
      <4>2. ~(now - cache.lastAttempt < RefreshFloor)
        BY <4>1 DEF TooSoon
      <4>3. flights'[i + 1] = now /\ flights'[i] = cache.lastAttempt /\ cache.lastAttempt \in Nat
        BY <1>1, <1>2, <2>3, <3>2, <4>1 DEF IInv, Types
      <4>4. QED
        BY <1>1, <4>2, <4>3, JwksAssumption
    <3>3. QED
      BY <1>1, <1>2, <2>3, <3>1, <3>2
  <2>4. \E d \in Caller : call'[d].pc \in Fetching
    BY <1>4, <1>5, ZenonT(30) DEF Fetching
  <2>5. cache'.loaded => /\ cache'.document \in Document /\ Usable(cache'.document)
                         /\ cache'.keys = parseJWKS(cache'.document) /\ cache'.fetchedAt <= cache'.asOf + Timeout
    BY <1>3 DEF IInv, CacheOK
  <2>6. Usable(cache.document)' = Usable(cache'.document) /\ parseJWKS(cache.document)' = parseJWKS(cache'.document)
    BY DEF Usable
  <2>7. cache'.inflight # NoFlight
    BY <1>1, <1>3 DEF NoFlight
  <2>8. closed' # {} => Tried'
    BY <2>1 DEF IInv, CacheOK
  <2>9. QED
    BY <1>2, <1>3, <2>2, <2>3, <2>4, <2>5, <2>6, <2>7, <2>8 DEF CacheOK
<1>9. ASSUME NEW d \in Caller PROVE Alone(call[d])'
  <2>1. CASE d = c
    <3>1. call'[d] = cl /\ now <= now /\ now <= now + Timeout
      BY <1>1, <1>5, <2>1, JwksAssumption
    <3>2. /\ cl.reading <= now /\ cl.asOf <= now /\ cl.result = "none" /\ (cl.sure => cl.op = "resolve")
          /\ cl.sure => cache'.loaded /\ cl.kid \in DOMAIN cache'.keys
      BY <1>3, <1>4 DEF IInv, Alone
    <3>3. f # NoFlight /\ f <= Len(flights')
      BY <1>1, <1>2 DEF NoFlight
    <3> HIDE DEF cl, f
    <3>4. QED
      BY <1>2, <1>3, <1>4, <3>1, <3>2, <3>3, ZenonT(30) DEF Alone, Fetching
  <2>2. CASE d # c
    <3>1. call'[d] = call[d] /\ Alone(call[d]) /\ call[d].pc \notin Fetching /\ call[d] \in CallRecord
      BY <1>1, <1>5, <1>7, <1>9, <2>2 DEF IInv
    <3>2. call[d].flight <= Len(flights')
      BY <1>1, <1>2, <3>1 DEF Alone, CallRecord
    <3>3. QED
      BY <1>3, <3>1, <3>2, ZenonT(30) DEF Alone, Tried, Fetching
  <2>3. QED
    BY <2>1, <2>2
<1>10. ASSUME NEW d \in Caller PROVE Peers(d)'
  <2>1. \A e \in Caller : call'[e].pc \in Fetching => e = c
    BY <1>5, <1>7
  <2>2. call'[d].pc = "wait" => d # c /\ call'[d] = call[d] /\ call[d].flight # NoFlight
    BY <1>4, <1>5, <1>10 DEF IInv, Alone
  <2>3. \A e \in Caller : call[e].pc = "close" => call'[e] = call[e]
    BY <1>5
  <2>4. QED
    BY <1>10, <2>1, <2>2, <2>3 DEF IInv, Peers
<1>11. QED
  BY <1>6, <1>8, <1>9, <1>10 DEF IInv

\* The flight lands: with a usable document, or with an error.
LEMMA Landing ==
    ASSUME IInv, NEW c \in Caller, Land(c)
    PROVE  IInv'
<1>1. PICK ok \in BOOLEAN :
        /\ ok => call[c].pc = "fetched" /\ Usable(call[c].got)
        /\ cache' = Landed(call[c], ok)
        /\ call' = [d \in Caller |->
              IF d = c THEN [call[c] EXCEPT !.pc = "close", !.got = NoDocument, !.asOf = 0,
                                            !.sure = @ /\ (ok => call[c].kid \in DOMAIN parseJWKS(call[c].got))]
              ELSE [call[d] EXCEPT !.sure = @ /\ (ok => call[d].kid \in DOMAIN parseJWKS(call[c].got))]]
  BY ZenonT(30) DEF Land
<1> DEFINE got == call[c].got
           Holds(d) == call[d].sure /\ (ok => call[d].kid \in DOMAIN parseJWKS(got))
<1>2. call[c].pc \in Fetching /\ UNCHANGED <<closed, now, published, flights, begun, rotations>>
  BY DEF Land, Fetching
<1>3. /\ call \in [Caller -> CallRecord] /\ call[c] \in CallRecord /\ now \in Nat
      /\ flights \in Seq(Nat) /\ Len(flights) \in Nat
  BY DEF IInv, Types
<1>4. /\ DOMAIN cache' = CacheFields /\ cache'.inflight = NoFlight /\ cache'.lastAttempt = cache.lastAttempt
      /\ cache'.attempted = cache.attempted /\ cache'.loaded = (cache.loaded \/ ok) /\ cache'.failed = ~ok
      /\ cache'.keys = (IF ok THEN parseJWKS(got) ELSE cache.keys)
      /\ cache'.document = (IF ok THEN got ELSE cache.document)
      /\ cache'.fetchedAt = (IF ok THEN now ELSE cache.fetchedAt)
      /\ cache'.asOf = (IF ok THEN call[c].asOf ELSE cache.asOf)
  BY <1>1 DEF IInv, Types, CacheFields, Landed
<1>5. Tried'
  BY <1>4, ZenonT(30) DEF Tried
<1>6. ASSUME NEW d \in Caller
      PROVE  /\ call'[d].op = call[d].op /\ call'[d].kid = call[d].kid /\ call'[d].reading = call[d].reading
             /\ call'[d].flight = call[d].flight /\ call'[d].result = call[d].result
             /\ call'[d].sure = Holds(d)
             /\ d # c => call'[d].pc = call[d].pc /\ call'[d].got = call[d].got /\ call'[d].asOf = call[d].asOf
             /\ d = c => call'[d].pc = "close" /\ call'[d].got = NoDocument /\ call'[d].asOf = 0
             /\ call'[d] \in CallRecord
  <2>1. call[d] \in CallRecord /\ Holds(d) \in BOOLEAN /\ "close" \in Places /\ NoDocument \in Document \cup {NoDocument} /\ 0 \in Nat
    BY <1>3, <1>6 DEF CallRecord, Places
  <2>2. CASE d = c
    <3>1. call'[d] = [call[d] EXCEPT !.pc = "close", !.got = NoDocument, !.asOf = 0, !.sure = Holds(d)]
      BY <1>1, <1>3, <1>6, <2>2 DEF CallRecord
    <3> HIDE DEF Holds
    <3>2. QED
      BY <2>1, <2>2, <3>1, ZenonT(30) DEF CallRecord
  <2>3. CASE d # c
    <3>1. call'[d] = [call[d] EXCEPT !.sure = Holds(d)]
      BY <1>1, <1>3, <1>6, <2>1, <2>3 DEF CallRecord
    <3> HIDE DEF Holds
    <3>2. QED
      BY <2>1, <2>3, <3>1 DEF CallRecord
  <2>4. QED
    BY <2>2, <2>3
<1> HIDE DEF Holds
<1>7. /\ call[c].flight = cache.inflight /\ call[c].flight # NoFlight /\ now <= flights[call[c].flight] + Timeout
      /\ call[c].asOf <= now /\ call[c].asOf \in Nat /\ call[c].flight \in Nat /\ call[c].flight <= Len(flights)
      /\ ok => got \in Document /\ Usable(got) /\ flights[call[c].flight] <= call[c].asOf
  BY <1>1, <1>2, <1>3 DEF IInv, Alone, CallRecord
<1>8. Types'
  <2>1. call' \in [Caller -> CallRecord]
    BY <1>1, <1>6
  <2>2. /\ cache'.fetchedAt \in Nat /\ cache'.fetchedAt <= now /\ cache'.asOf \in Nat /\ cache'.asOf <= cache'.fetchedAt
        /\ cache'.loaded \in BOOLEAN /\ cache'.failed \in BOOLEAN /\ cache'.inflight \in 0 .. Len(flights)
    BY <1>3, <1>4, <1>7 DEF IInv, Types, NoFlight
  <2>3. QED
    BY <1>2, <1>4, <2>1, <2>2 DEF IInv, Types
<1>9. CacheOK'
  <2>1. cache'.loaded => /\ cache'.document \in Document /\ Usable(cache'.document)
                         /\ cache'.keys = parseJWKS(cache'.document) /\ cache'.fetchedAt <= cache'.asOf + Timeout
    <3>1. CASE ok
      <4>1. flights[call[c].flight] \in Nat
        BY <1>3, <1>7 DEF NoFlight
      <4>2. now <= call[c].asOf + Timeout
        BY <1>3, <1>7, <3>1, <4>1, JwksAssumption
      <4>3. QED
        BY <1>4, <1>7, <3>1, <4>2
    <3>2. CASE ~ok
      BY <1>4, <3>2 DEF IInv, CacheOK
    <3>3. QED
      BY <3>1, <3>2
  <2>2. Usable(cache.document)' = Usable(cache'.document) /\ parseJWKS(cache.document)' = parseJWKS(cache'.document)
    BY DEF Usable
  <2>3. QED
    BY <1>2, <1>4, <1>5, <2>1, <2>2 DEF IInv, CacheOK
<1>10. ASSUME NEW d \in Caller PROVE Alone(call[d])'
  <2>1. Alone(call[d]) /\ (d # c => call[d].pc \notin Fetching) /\ call[d] \in CallRecord
    BY <1>2, <1>3, <1>10 DEF IInv, Peers
  <2>2. call'[d].sure /\ call'[d].pc # "return" => cache'.loaded /\ call'[d].kid \in DOMAIN cache'.keys
    <3>1. call[c].pc # "return"
      BY <1>2 DEF Fetching
    <3>2. QED
      BY <1>4, <1>6, <1>10, <2>1, <3>1, ZenonT(30) DEF Alone, Holds
  <2>3. call'[d].sure => call[d].sure
    BY <1>6, <1>10, ZenonT(30) DEF Holds
  <2>4. CASE d = c
    <3>1. /\ call'[d].pc = "close" /\ call'[d].flight # NoFlight /\ call'[d].asOf <= now /\ call'[d].result = "none"
          /\ call'[d].reading <= now /\ call'[d].flight <= Len(flights)
      BY <1>2, <1>3, <1>6, <1>7, <1>10, <2>1, <2>4 DEF Alone, Fetching
    <3>2. QED
      BY <1>2, <1>5, <1>6, <1>10, <2>1, <2>2, <2>3, <3>1 DEF Alone, Fetching
  <2>5. CASE d # c
    <3>1. cache.loaded => cache'.loaded
      BY <1>4, ZenonT(30)
    <3>2. QED
      BY <1>2, <1>5, <1>6, <1>10, <2>1, <2>2, <2>3, <2>5, <3>1 DEF Alone, Fetching
  <2>6. QED
    BY <2>4, <2>5
<1>11. ASSUME NEW d \in Caller PROVE Peers(d)'
  <2>1. \A e \in Caller : call'[e].pc \notin Fetching
    BY <1>2, <1>6 DEF IInv, Peers, Fetching
  <2>2. ASSUME call'[d].pc = "wait"
        PROVE  call'[d].flight \in closed' \/ \E e \in Caller : call'[e].pc = "close" /\ call'[e].flight = call'[d].flight
    <3>1. d # c /\ call[d].pc = "wait" /\ call'[d].flight = call[d].flight
      BY <1>6, <1>11, <2>2
    <3>2. CASE call[d].flight = cache.inflight
      BY <1>6, <1>7, <3>1, <3>2
    <3>3. CASE call[d].flight \in closed
      BY <1>2, <3>1, <3>3
    <3>4. ASSUME NEW e \in Caller, call[e].pc = "close", call[e].flight = call[d].flight
          PROVE  call'[e].pc = "close" /\ call'[e].flight = call'[d].flight
      BY <1>6, <3>1, <3>4
    <3>5. QED
      BY <1>11, <3>1, <3>2, <3>3, <3>4 DEF IInv, Peers
  <2>3. QED
    BY <2>1, <2>2 DEF Peers
<1>12. QED
  BY <1>8, <1>9, <1>10, <1>11 DEF IInv

\* The owner closes the channel of the flight that landed.
LEMMA Closing ==
    ASSUME IInv, NEW c \in Caller, CloseFlight(c)
    PROVE  IInv'
<1> DEFINE cl == [call[c] EXCEPT !.pc = AfterRefresh(call[c]), !.flight = NoFlight]
<1>1. /\ call[c].pc = "close" /\ closed' = closed \cup {call[c].flight} /\ call' = [call EXCEPT ![c] = cl]
      /\ UNCHANGED <<cache, flights, now, published, begun, rotations>>
  BY DEF CloseFlight, Close, Step
<1>2. /\ call \in [Caller -> CallRecord] /\ call[c] \in CallRecord /\ Len(flights) \in Nat
      /\ Alone(call[c])
  BY DEF IInv, Types
<1>3. /\ cl \in CallRecord /\ cl.pc = AfterRefresh(call[c]) /\ cl.flight = NoFlight /\ cl.op = call[c].op
      /\ cl.kid = call[c].kid /\ cl.reading = call[c].reading /\ cl.asOf = call[c].asOf
      /\ cl.result = call[c].result /\ cl.sure = call[c].sure
  BY <1>2, ZenonT(30) DEF CallRecord, AfterRefresh, Places, NoFlight
<1>4. cl.pc \in {"read", "return"} /\ (cl.op = "resolve" => cl.pc = "read")
  BY <1>3 DEF AfterRefresh
<1> HIDE DEF cl
<1>5. \A d \in Caller : call'[d] = IF d = c THEN cl ELSE call[d]
  BY <1>1, <1>2
<1>6. Tried /\ Tried'
  BY <1>1, <1>2 DEF Alone, Tried
<1>7. Types'
  <2>1. call[c].flight \in 1 .. Len(flights)
    BY <1>1, <1>2 DEF Alone, NoFlight, CallRecord
  <2>2. QED
    BY <1>1, <1>2, <1>3, <2>1, ZenonT(30) DEF IInv, Types
<1>8. CacheOK'
  <2>1. \A d \in Caller : call[d].pc \in Fetching => call'[d].pc \in Fetching
    BY <1>1, <1>5 DEF Fetching
  <2>2. Usable(cache.document)' = Usable(cache.document) /\ parseJWKS(cache.document)' = parseJWKS(cache.document)
    BY <1>1 DEF Usable
  <2>3. QED
    BY <1>1, <1>6, <2>1, <2>2 DEF IInv, CacheOK
<1>9. ASSUME NEW d \in Caller PROVE Alone(call[d])'
  <2>1. Alone(call'[d])
    <3>1. CASE d = c
      <4>1. NoFlight <= Len(flights)
        BY <1>2 DEF NoFlight
      <4>2. QED
        BY <1>1, <1>2, <1>3, <1>4, <1>5, <1>6, <3>1, <4>1 DEF Alone, Fetching
    <3>2. CASE d # c
      BY <1>5, <1>9, <3>2 DEF IInv
    <3>3. QED
      BY <3>1, <3>2
  <2>2. QED
    BY <1>1, <2>1 DEF Alone, Tried
<1>10. ASSUME NEW d \in Caller PROVE Peers(d)'
  BY <1>1, <1>4, <1>5, <1>10 DEF IInv, Peers, Fetching
<1>11. QED
  BY <1>7, <1>8, <1>9, <1>10 DEF IInv

\* Time passes, but never beyond the timeout of a fetch.
LEMMA Ticking ==
    ASSUME IInv, Tick
    PROVE  IInv'
<1>1. /\ now' = now + 1 /\ now \in Nat /\ UNCHANGED <<cache, closed, call, published, flights, begun, rotations>>
      /\ \A c \in Caller : call[c].pc \in Fetching => now < flights[call[c].flight] + Timeout
  BY DEF Tick, IInv, Types, Fetching
<1>2. Types'
  BY <1>1 DEF IInv, Types
<1>3. CacheOK'
  <2>1. Usable(cache.document)' = Usable(cache.document) /\ parseJWKS(cache.document)' = parseJWKS(cache.document)
    BY <1>1 DEF Usable
  <2>2. QED
    BY <1>1, <2>1 DEF IInv, CacheOK, Tried
<1>4. ASSUME NEW d \in Caller PROVE Alone(call[d])'
  <2>1. Alone(call[d]) /\ call[d] \in CallRecord /\ call[d].reading \in Nat /\ call[d].asOf \in Nat
    BY <1>4 DEF IInv, Types, CallRecord
  <2>2. call[d].reading <= now + 1 /\ call[d].asOf <= now + 1
    BY <1>1, <2>1 DEF Alone
  <2>3. call[d].pc \in Fetching => flights[call[d].flight] <= now + 1 /\ now + 1 <= flights[call[d].flight] + Timeout
    <3>1. call[d].pc \in Fetching => flights[call[d].flight] \in Nat
      BY <2>1 DEF Alone, IInv, Types, CallRecord, NoFlight
    <3>2. QED
      BY <1>1, <1>4, <2>1, <3>1, JwksAssumption DEF Alone
  <2>4. QED
    BY <1>1, <2>1, <2>2, <2>3 DEF Alone, Tried
<1>5. ASSUME NEW d \in Caller PROVE Peers(d)'
  BY <1>1, <1>5 DEF IInv, Peers
<1>6. QED
  BY <1>2, <1>3, <1>4, <1>5 DEF IInv

\* The issuer rotates its keys; the client does not notice.
LEMMA Rotating ==
    ASSUME IInv, \/ Rotate
                 \/ UNCHANGED vars
    PROVE  IInv'
<1>1. UNCHANGED <<cache, closed, call, now, flights, begun>> /\ published' \in Document /\ rotations' \in Nat
  BY DEF Rotate, vars, IInv, Types
<1>2. Types' /\ (\A d \in Caller : Alone(call[d])' /\ Peers(d)')
  BY <1>1 DEF IInv, Types, Alone, Peers, Tried
<1>3. CacheOK'
  <2>1. Usable(cache.document)' = Usable(cache.document) /\ parseJWKS(cache.document)' = parseJWKS(cache.document)
    BY <1>1 DEF Usable
  <2>2. QED
    BY <1>1, <2>1 DEF IInv, CacheOK, Tried
<1>4. QED
  BY <1>2, <1>3 DEF IInv

\* A lookup that answers, answers with a key young enough; the second lookup
\* answers whenever the kid is held and the grace has not run out.
LEMMA Lookup ==
    ASSUME IInv, NEW kid \in Kid, NEW t \in Nat, NEW again \in BOOLEAN
    PROVE  /\ Cached(kid, t, again) => t - cache.asOf < CacheTTL + OutageGrace + Timeout
           /\ again /\ cache.loaded /\ kid \in DOMAIN cache.keys /\ t < cache.fetchedAt + CacheTTL + OutageGrace
                 => Cached(kid, t, again)
<1>1. cache.fetchedAt \in Nat /\ cache.asOf \in Nat /\ (cache.loaded => cache.fetchedAt <= cache.asOf + Timeout)
  BY DEF IInv, Types, CacheOK
<1>2. QED
  BY <1>1, JwksAssumption DEF Cached

\* The invariant is inductive.
LEMMA Inductive ==
    ASSUME IInv, [Next]_vars
    PROVE  IInv'
<1>1. ASSUME NEW c \in Caller, Begin(c) PROVE IInv'
  <2>1. Idle \in CallRecord /\ call[c].pc = "idle" /\ now \in Nat
    BY <1>1, JwksAssumption, ZenonT(30) DEF Begin, Idle, CallRecord, Places, NoFlight, IInv, Types
  <2>2. UNCHANGED <<cache, closed, now, published, flights, rotations>> /\ begun' \in Nat
    <3>1. begun \in Nat /\ begun' = begun + 1 /\ UNCHANGED <<cache, closed, now, published, flights, rotations>>
      BY <1>1, ZenonT(30) DEF Begin, IInv, Types
    <3>2. QED
      BY <3>1
  <2>3. ASSUME NEW k \in Kid,
               call' = [call EXCEPT ![c] = [Idle EXCEPT !.pc = "look", !.kid = k, !.reading = now,
                                                        !.sure = cache.loaded /\ k \in DOMAIN cache.keys]]
        PROVE  IInv'
    <3> DEFINE cl == [Idle EXCEPT !.pc = "look", !.kid = k, !.reading = now, !.sure = cache.loaded /\ k \in DOMAIN cache.keys]
    <3>1. cl \in CallRecord
      BY <2>1, <2>3, ZenonT(30) DEF CallRecord, Places, IInv, Types
    <3>2. /\ cl.pc = "look" /\ cl.kid = k /\ cl.reading = now /\ cl.sure = (cache.loaded /\ k \in DOMAIN cache.keys)
          /\ cl.op = "resolve" /\ cl.flight = 0 /\ cl.asOf = 0 /\ cl.result = "none"
      BY DEF Idle, NoFlight
    <3>3. now <= now /\ 0 <= now /\ 0 <= Len(flights)
      BY <2>1 DEF IInv, Types
    <3> HIDE DEF cl
    <3>4. Alone(cl)
      BY <3>2, <3>3, ZenonT(30) DEF Alone, Fetching
    <3> USE DEF cl
    <3>5. QED
      BY <2>1, <2>2, <2>3, <3>1, <3>2, <3>4, Quiet, ZenonT(30) DEF Fetching
  <2>4. ASSUME call' = [call EXCEPT ![c] = [Idle EXCEPT !.pc = "refresh", !.op = "refresh"]]
        PROVE  IInv'
    <3> DEFINE cl == [Idle EXCEPT !.pc = "refresh", !.op = "refresh"]
    <3>1. cl \in CallRecord
      BY <2>1, ZenonT(30) DEF CallRecord, Places
    <3>2. Alone(cl)
      BY <2>1 DEF Alone, Idle, Fetching, NoFlight, IInv, Types
    <3>3. cl.pc = "refresh"
      BY DEF Idle
    <3>4. QED
      BY <2>1, <2>2, <2>4, <3>1, <3>2, <3>3, Quiet, ZenonT(30) DEF Fetching
  <2>5. QED
    BY <1>1, <2>3, <2>4, ZenonT(30) DEF Begin
<1> DEFINE Same == UNCHANGED <<cache, closed, now, published, flights, rotations, begun>>
<1>2. \A c \in Caller : call[c] \in CallRecord /\ Alone(call[c]) /\ call[c].kid \in Kid /\ call[c].reading \in Nat
  BY DEF IInv, Types, CallRecord
<1>3. /\ now \in Nat /\ begun \in Nat /\ cache.inflight \in Nat /\ cache.inflight <= Len(flights) /\ NoFlight <= Len(flights)
      /\ cache.asOf \in Nat /\ cache.asOf <= now /\ cache.fetchedAt \in Nat /\ published \in Document /\ cache.loaded \in BOOLEAN
  BY DEF IInv, Types, NoFlight
<1>4. ASSUME NEW c \in Caller, Look(c) PROVE IInv'
  <2>1. call[c].pc = "look" /\ Same
    BY <1>4 DEF Look, Step
  <2>2. CASE Cached(call[c].kid, call[c].reading, FALSE)
    <3> DEFINE cl == [call[c] EXCEPT !.pc = "return", !.result = "key", !.asOf = cache.asOf]
    <3>1. call' = [call EXCEPT ![c] = cl]
      BY <1>4, <2>2 DEF Look, Step
    <3>2. cl \in CallRecord /\ cl.pc = "return"
      BY <1>2, <1>3, <1>4, ZenonT(30) DEF CallRecord, Places
    <3>3. call[c].reading - cache.asOf < CacheTTL + OutageGrace + Timeout
      BY <1>2, <1>4, <2>2, Lookup, ZenonT(30)
    <3>4. Alone(cl)
      BY <1>2, <1>3, <1>4, <2>1, <3>3 DEF Alone, CallRecord, Fetching
    <3> HIDE DEF cl
    <3>5. QED
      BY <1>3, <1>4, <2>1, <3>1, <3>2, <3>4, Quiet, ZenonT(30) DEF Fetching
  <2>3. CASE ~Cached(call[c].kid, call[c].reading, FALSE)
    <3> DEFINE cl == [call[c] EXCEPT !.pc = "refresh", !.reading = 0]
    <3>1. call' = [call EXCEPT ![c] = cl]
      BY <1>4, <2>3 DEF Look, Step
    <3>2. cl \in CallRecord /\ cl.pc = "refresh"
      BY <1>2, <1>4, ZenonT(30) DEF CallRecord, Places
    <3>3. Alone(cl)
      BY <1>2, <1>3, <1>4, <2>1 DEF Alone, CallRecord, Fetching
    <3> HIDE DEF cl
    <3>4. QED
      BY <1>3, <1>4, <2>1, <3>1, <3>2, <3>3, Quiet, ZenonT(30) DEF Fetching
  <2>4. QED
    BY <2>2, <2>3, ZenonT(30)
<1>5. ASSUME NEW c \in Caller, NEW cl \in CallRecord, Same, call' = [call EXCEPT ![c] = cl], Tried,
             call[c].pc \in {"refresh", "wait"}, cl.pc = AfterRefresh(call[c]),
             cl = [call[c] EXCEPT !.pc = AfterRefresh(call[c])]
             \/ cl = [call[c] EXCEPT !.pc = AfterRefresh(call[c]), !.flight = NoFlight]
      PROVE  IInv'
  <2>1. /\ cl.op = call[c].op /\ cl.kid = call[c].kid /\ cl.reading = call[c].reading /\ cl.asOf = call[c].asOf
        /\ cl.result = call[c].result /\ cl.sure = call[c].sure /\ cl.flight \in {call[c].flight, NoFlight}
    BY <1>2, <1>5, ZenonT(30) DEF CallRecord
  <2>2. cl.pc \in {"read", "return"} /\ (cl.op = "resolve" => cl.pc = "read")
    BY <1>5, <2>1 DEF AfterRefresh
  <2>3. Alone(cl)
    BY <1>2, <1>3, <1>5, <2>1, <2>2 DEF Alone, Fetching
  <2>4. QED
    BY <1>3, <1>5, <2>2, <2>3, Quiet, ZenonT(30) DEF Fetching
<1>6. ASSUME NEW c \in Caller, Refresh(c) PROVE IInv'
  <2>1. call[c].pc = "refresh" /\ UNCHANGED <<closed, now, published, begun, rotations>>
    BY <1>6 DEF Refresh, Step
  <2>2. ASSUME cache.inflight # NoFlight, Step(c, [call[c] EXCEPT !.pc = "wait", !.flight = cache.inflight]),
               UNCHANGED <<cache, flights>>
        PROVE  IInv'
    <3> DEFINE cl == [call[c] EXCEPT !.pc = "wait", !.flight = cache.inflight]
    <3>1. call' = [call EXCEPT ![c] = cl] /\ Same
      BY <2>1, <2>2 DEF Step
    <3>2. cl \in CallRecord /\ cl.pc = "wait" /\ cl.flight = cache.inflight
      BY <1>2, <1>3, <1>6, ZenonT(30) DEF CallRecord, Places
    <3>3. Alone(cl)
      BY <1>2, <1>3, <1>6, <2>1, <2>2 DEF Alone, CallRecord, Fetching
    <3> HIDE DEF cl
    <3>4. QED
      BY <1>3, <1>6, <2>1, <3>1, <3>2, <3>3, Quiet, ZenonT(30) DEF Fetching
  <2>3. ASSUME cache.inflight = NoFlight, TooSoon(now), Step(c, [call[c] EXCEPT !.pc = AfterRefresh(call[c])]),
               UNCHANGED <<cache, flights>>
        PROVE  IInv'
    <3> DEFINE cl == [call[c] EXCEPT !.pc = AfterRefresh(call[c])]
    <3>1. call' = [call EXCEPT ![c] = cl] /\ Same
      BY <2>1, <2>3 DEF Step
    <3>2. cl \in CallRecord /\ cl.pc = AfterRefresh(call[c])
      BY <1>2, <1>6 DEF CallRecord, Places, AfterRefresh
    <3>3. Tried
      BY <2>3 DEF TooSoon, IInv, CacheOK
    <3>4. QED
      BY <1>5, <1>6, <2>1, <3>1, <3>2, <3>3, ZenonT(30)
  <2>4. ASSUME cache.inflight = NoFlight, ~TooSoon(now),
               Step(c, [call[c] EXCEPT !.pc = "fetch", !.flight = Len(flights) + 1]),
               cache' = [cache EXCEPT !.inflight = Len(flights) + 1, !.lastAttempt = now, !.attempted = TRUE],
               flights' = Append(flights, now)
        PROVE  IInv'
    BY <1>6, <2>1, <2>4, TakeOff, ZenonT(30) DEF Step
  <2>5. QED
    BY <1>6, <2>2, <2>3, <2>4 DEF Refresh
<1>7. ASSUME NEW c \in Caller, Wake(c) PROVE IInv'
  <2> DEFINE cl == [call[c] EXCEPT !.pc = AfterRefresh(call[c]), !.flight = NoFlight]
  <2>1. call[c].pc = "wait" /\ call' = [call EXCEPT ![c] = cl] /\ Same /\ call[c].flight \in closed
    BY <1>7 DEF Wake, Step
  <2>2. cl \in CallRecord /\ cl.pc = AfterRefresh(call[c])
    BY <1>2, <1>7, ZenonT(30) DEF CallRecord, Places, AfterRefresh, NoFlight
  <2>3. Tried
    BY <2>1 DEF IInv, CacheOK
  <2>4. QED
    BY <1>5, <1>7, <2>1, <2>2, <2>3, ZenonT(30)
<1>8. ASSUME NEW c \in Caller, Answer(c) PROVE IInv'
  <2> DEFINE cl == [call[c] EXCEPT !.pc = "fetched", !.got = published, !.asOf = now]
  <2>1. call[c].pc = "fetch" /\ call' = [call EXCEPT ![c] = cl] /\ Same
    BY <1>8 DEF Answer, Step
  <2>2. cl \in CallRecord /\ cl.pc = "fetched"
    BY <1>2, <1>3, <1>8, ZenonT(30) DEF CallRecord, Places, Fetching
  <2>3. flights[call[c].flight] <= now
    BY <1>2, <1>8, <2>1 DEF Alone, Fetching
  <2>4. Alone(cl)
    BY <1>2, <1>3, <1>8, <2>1, <2>3 DEF Alone, CallRecord, Fetching
  <2> HIDE DEF cl
  <2>5. QED
    BY <1>3, <1>8, <2>1, <2>2, <2>4, Quiet, ZenonT(30) DEF Fetching
<1>9. ASSUME NEW c \in Caller, Read(c) PROVE IInv'
  <2> DEFINE cl == [call[c] EXCEPT !.pc = "lookAgain", !.reading = now]
  <2>1. call[c].pc = "read" /\ call' = [call EXCEPT ![c] = cl] /\ Same
    BY <1>9 DEF Read, Step
  <2>2. cl \in CallRecord /\ cl.pc = "lookAgain"
    BY <1>2, <1>3, <1>9, ZenonT(30) DEF CallRecord, Places
  <2>3. Alone(cl)
    BY <1>2, <1>3, <1>9, <2>1 DEF Alone, CallRecord, Fetching
  <2> HIDE DEF cl
  <2>4. QED
    BY <1>3, <1>9, <2>1, <2>2, <2>3, Quiet, ZenonT(30) DEF Fetching
<1>10. ASSUME NEW c \in Caller, LookAgain(c) PROVE IInv'
  <2>1. call[c].pc = "lookAgain" /\ Same
    BY <1>10 DEF LookAgain, Step
  <2>2. CASE Cached(call[c].kid, call[c].reading, TRUE)
    <3> DEFINE cl == [call[c] EXCEPT !.pc = "return", !.result = "key", !.asOf = cache.asOf]
    <3>1. call' = [call EXCEPT ![c] = cl]
      BY <1>10, <2>2 DEF LookAgain, Step
    <3>2. cl \in CallRecord /\ cl.pc = "return"
      BY <1>2, <1>3, <1>10, ZenonT(30) DEF CallRecord, Places
    <3>3. call[c].reading - cache.asOf < CacheTTL + OutageGrace + Timeout
      BY <1>2, <1>10, <2>2, Lookup, ZenonT(30)
    <3>4. Alone(cl)
      BY <1>2, <1>3, <1>10, <2>1, <3>3 DEF Alone, CallRecord, Fetching
    <3> HIDE DEF cl
    <3>5. QED
      BY <1>3, <1>10, <2>1, <3>1, <3>2, <3>4, Quiet, ZenonT(30) DEF Fetching
  <2>3. CASE ~Cached(call[c].kid, call[c].reading, TRUE)
    <3> DEFINE still == call[c].sure /\ call[c].reading < cache.fetchedAt + CacheTTL + OutageGrace
               cl == [call[c] EXCEPT !.pc = "missed", !.sure = still]
    <3>1. call' = [call EXCEPT ![c] = cl]
      BY <1>2, <1>10, <2>3 DEF LookAgain, Step, CallRecord
    <3>2. ~still
      BY <1>2, <1>10, <2>1, <2>3, Lookup, ZenonT(30) DEF Alone
    <3>3. cl \in CallRecord /\ cl.pc = "missed"
      BY <1>2, <1>10, ZenonT(30) DEF CallRecord, Places
    <3> HIDE DEF still
    <3>4. Alone(cl)
      BY <1>2, <1>3, <1>10, <2>1, <3>2 DEF Alone, CallRecord, Fetching
    <3> HIDE DEF cl
    <3>5. QED
      BY <1>3, <1>10, <2>1, <3>1, <3>3, <3>4, Quiet, ZenonT(30) DEF Fetching
  <2>4. QED
    BY <2>2, <2>3, ZenonT(30)
<1>11. ASSUME NEW c \in Caller, Missed(c) PROVE IInv'
  <2> DEFINE res == IF cache.failed THEN "unavailable" ELSE "unknown"
             cl == [call[c] EXCEPT !.pc = "return", !.result = res]
  <2>1. call[c].pc = "missed" /\ call' = [call EXCEPT ![c] = cl] /\ Same
    BY <1>11 DEF Missed, Step
  <2>2. res \in {"unavailable", "unknown"} /\ (res = "unknown" => cache.loaded)
    BY <1>2, <1>11, <2>1 DEF Alone, Tried
  <2> HIDE DEF res
  <2>3. cl \in CallRecord /\ cl.pc = "return"
    BY <1>2, <1>11, <2>2, ZenonT(30) DEF CallRecord, Places
  <2>4. Alone(cl)
    BY <1>2, <1>11, <2>1, <2>2 DEF Alone, CallRecord, Fetching
  <2> HIDE DEF cl
  <2>5. QED
    BY <1>3, <1>11, <2>1, <2>3, <2>4, Quiet, ZenonT(30) DEF Fetching
<1>12. ASSUME NEW c \in Caller, Return(c) PROVE IInv'
  <2>1. call[c].pc = "return" /\ call' = [call EXCEPT ![c] = Idle] /\ Same
    BY <1>12 DEF Return, Step
  <2>2. Idle \in CallRecord
    BY JwksAssumption DEF Idle, CallRecord, Places, NoFlight
  <2>3. Alone(Idle) /\ Idle.pc = "idle"
    BY <1>3 DEF Alone, Idle, Fetching, NoFlight
  <2>4. QED
    BY <1>3, <1>12, <2>1, <2>2, <2>3, Quiet, ZenonT(30) DEF Fetching
<1>13. QED
  BY <1>1, <1>4, <1>6, <1>7, <1>8, <1>9, <1>10, <1>11, <1>12, Landing, Closing, Ticking, Rotating DEF Next, CallStep

-----------------------------------------------------------------------------

\* The invariant holds of the empty client and, being inductive, always.
LEMMA Invariant == Spec => []IInv
<1>1. Init => IInv
  <2> SUFFICES ASSUME Init PROVE IInv
    OBVIOUS
  <2>1. Idle \in CallRecord
    BY JwksAssumption DEF Idle, CallRecord, Places, NoFlight
  <2>2. Len(<<>>) = 0 /\ <<>> \in Seq(Nat)
    OBVIOUS
  <2>3. Types
    BY <2>1, <2>2, JwksAssumption DEF Init, Types, EmptyCache, CacheFields, NoFlight
  <2>4. CacheOK
    BY <2>2 DEF Init, CacheOK, EmptyCache, NoFlight
  <2>5. \A c \in Caller : call[c] = Idle
    BY DEF Init
  <2>6. \A c \in Caller : Alone(call[c]) /\ Peers(c)
    BY <2>2, <2>5 DEF Init, Idle, Alone, Peers, Fetching, NoFlight
  <2>7. QED
    BY <2>3, <2>4, <2>6 DEF IInv
<1>2. QED
  BY <1>1, Inductive, PTL DEF Spec

\* One fetch at a time, no waiter left without a flight that closes or will,
\* and the floor between any two attempts: SingleFetch of the JwksClient run,
\* for any number of callers and any floor.
THEOREM OneFetch == Spec => []SingleFetch
<1>1. IInv => SingleFetch
  <2> SUFFICES ASSUME IInv PROVE SingleFetch
    OBVIOUS
  <2>1. \A c \in Caller : call[c] \in CallRecord /\ Alone(call[c])
    BY DEF IInv, Types
  <2>2. ASSUME NEW c \in Caller PROVE CallType(call[c])
    BY <2>1, <2>2 DEF CallType, CallRecord, Alone, Places, IInv, Types
  <2>3. TypeOK
    BY <2>2 DEF TypeOK, IInv, Types, CacheOK, Usable
  <2>4. QED
    BY <2>1, <2>3 DEF SingleFetch, IInv, CacheOK, Alone, Peers
<1>2. QED
  BY <1>1, Invariant, PTL

\* The last good keys carry every call through an outage to the end of the
\* grace, and no key outlives its withdrawal by more than TTL, grace and one
\* timeout: KeysThroughOutage, for all durations and however calls interleave.
THEOREM Outage == Spec => []KeysThroughOutage
<1>1. IInv => KeysThroughOutage
  BY DEF IInv, Alone, KeysThroughOutage
<1>2. QED
  BY <1>1, Invariant, PTL

\* The keys in use are those of one whole document with a single reading, and
\* the file path and the HTTP path agree on it: KeysAreOneDocument, for every
\* document an issuer may serve, of any number of keys.
THEOREM OneDocument == Spec => []KeysAreOneDocument
<1>1. IInv => KeysAreOneDocument
  <2> SUFFICES ASSUME IInv PROVE KeysAreOneDocument
    OBVIOUS
  <2>1. cache.loaded => Readings(cache.document) = {cache.keys}
    BY OneReading, ZenonT(30) DEF IInv, CacheOK, Usable, parseJWKS
  <2>2. published \in Document
    BY DEF IInv, Types
  <2>3. Keys(published) # Invalid => Readings(published) = {Keys(published)}
    BY <2>2, OneReading, ZenonT(30) DEF Keys
  <2>4. QED
    BY <2>1, <2>2, <2>3, SamePaths DEF KeysAreOneDocument
<1>2. QED
  BY <1>1, Invariant, PTL
=============================================================================
