--------------------------- MODULE PepCacheProofs ---------------------------
(***************************************************************************)
(* What holds of pep.CachedClient for every set of keys and callers, every *)
(* size bound and every TTL: first its methods, then its calls, then the   *)
(* revisions of a batch, and last that it implements AllowCache.           *)
(***************************************************************************)
EXTENDS PepCache, FiniteSetTheorems, SequenceTheorems, TLAPS

\* Time limits of the provers, in seconds, where a step asks for no other.
USE SMTT(20), ZenonT(30)

Fields == {"entries", "lru", "allows", "seq", "lastFlush", "floor", "watermark", "closed"}

\* The shape of the fields under mu, in the form the provers use.
CacheOK(ch) ==
    /\ DOMAIN ch = Fields
    /\ DOMAIN ch.entries \subseteq Key
    /\ ch.entries \in [DOMAIN ch.entries -> Entry]
    /\ ch.lru \in Seq(Key)
    /\ \A k \in Key : k \in DOMAIN ch.entries <=> \E i \in 1 .. Len(ch.lru) : ch.lru[i] = k
    /\ \A i, j \in 1 .. Len(ch.lru) : ch.lru[i] = ch.lru[j] => i = j
    /\ ch.allows = Cardinality(Live(ch))
    /\ ch.seq \in Nat /\ ch.lastFlush \in Nat /\ ch.floor \in Nat
    /\ ch.watermark \in Nat /\ ch.closed \in BOOLEAN

\* No stamp, tombstone, floor or flush mark is ahead of the sequence number.
StampsOK(ch) ==
    /\ ch.floor <= ch.seq
    /\ ch.lastFlush <= ch.seq
    /\ \A k \in DOMAIN ch.entries : ch.entries[k].guard <= ch.seq

\* What the cache may hold.
StoredOK(ch) ==
    \A k \in Live(ch) :
        /\ ch.entries[k].decision.allowed
        /\ ch.entries[k].decision.rev >= ch.watermark
        /\ ~ch.closed

CacheInv(ch) == CacheOK(ch) /\ StampsOK(ch) /\ StoredOK(ch)

-----------------------------------------------------------------------------
(* One lemma per method: the invariant survives, what is remembered only   *)
(* shrinks, and a call that was overtaken stays overtaken.                 *)

\* What an operation that stores nothing does to the cache.
Shrinks(ch, new) ==
    /\ CacheInv(new)
    /\ \A k \in Key : Remembered(new, k) \in {Remembered(ch, k), None}
    /\ \A k \in Key, s \in Nat : Overtaken(ch, k, s) => Overtaken(new, k, s)
    /\ new.closed = ch.closed
    /\ new.seq >= ch.seq /\ new.watermark >= ch.watermark

\* Zero values are well typed.
LEMMA ZeroTypes ==
    /\ NoDecision \in Decision
    /\ NewEntry \in Entry
    /\ \A e \in Entry : Killed(e) \in Entry /\ Killed(e).live = FALSE
                        /\ Killed(e).guard = e.guard
<1>1. NoDecision \in Decision
  BY DEF NoDecision, Decision
<1>2. NewEntry \in Entry
  BY <1>1 DEF NewEntry, Entry
<1>3. ASSUME NEW e \in Entry
      PROVE  Killed(e) \in Entry /\ Killed(e).live = FALSE /\ Killed(e).guard = e.guard
  BY <1>1, ZenonT(30) DEF Entry, Killed
<1> QED
  BY <1>1, <1>2, <1>3, ZenonT(30)

\* The live entries are finitely many.
LEMMA LiveFinite ==
    ASSUME NEW ch, CacheInv(ch)
    PROVE  IsFiniteSet(Live(ch)) /\ Cardinality(Live(ch)) \in Nat
<1>1. Live(ch) \subseteq Key
  BY DEF Live, CacheInv, CacheOK
<1>2. IsFiniteSet(Live(ch))
  BY <1>1, CacheAssumption, FS_Subset
<1> QED BY <1>2, FS_CardinalityType

\* kill keeps guards and forgets only the killed keys.
LEMMA KillLemma ==
    ASSUME NEW ch, CacheInv(ch), NEW S
    PROVE  /\ Shrinks(ch, Kill(ch, S))
           /\ DOMAIN Kill(ch, S).entries = DOMAIN ch.entries
           /\ Live(Kill(ch, S)) = Live(ch) \ S
           /\ \A k \in DOMAIN ch.entries : k \notin S => Kill(ch, S).entries[k] = ch.entries[k]
           /\ \A k \in DOMAIN ch.entries : Kill(ch, S).entries[k].guard = ch.entries[k].guard
           /\ Kill(ch, S).lru = ch.lru /\ Kill(ch, S).seq = ch.seq
           /\ Kill(ch, S).floor = ch.floor /\ Kill(ch, S).lastFlush = ch.lastFlush
           /\ Kill(ch, S).watermark = ch.watermark
<1> DEFINE new == Kill(ch, S)
           dying == S \cap Live(ch)
<1> USE DEF CacheInv
<1>1. /\ DOMAIN new = Fields
      /\ new.entries = [k \in DOMAIN ch.entries |->
                           IF k \in dying THEN Killed(ch.entries[k]) ELSE ch.entries[k]]
      /\ new.lru = ch.lru /\ new.seq = ch.seq /\ new.floor = ch.floor
      /\ new.lastFlush = ch.lastFlush /\ new.watermark = ch.watermark
      /\ new.closed = ch.closed /\ new.allows = ch.allows - Cardinality(dying)
  BY DEF Kill, CacheOK, Fields
<1> HIDE DEF new
<1>2. /\ DOMAIN new.entries = DOMAIN ch.entries
      /\ \A k \in DOMAIN ch.entries : new.entries[k] =
            IF k \in dying THEN Killed(ch.entries[k]) ELSE ch.entries[k]
  BY <1>1
<1>3. \A k \in DOMAIN ch.entries :
        /\ new.entries[k] \in Entry
        /\ new.entries[k].guard = ch.entries[k].guard
        /\ k \in dying => ~new.entries[k].live
        /\ k \notin dying => new.entries[k] = ch.entries[k]
  BY <1>2, ZeroTypes DEF CacheOK
<1>4. new.entries \in [DOMAIN new.entries -> Entry]
  BY <1>1, <1>2, <1>3
<1>5. Live(new) = Live(ch) \ S
  BY <1>2, <1>3 DEF Live
<1>5a. Cardinality(Live(ch) \ S) = Cardinality(Live(ch)) - Cardinality(dying)
  <2>1. S \cap Live(ch) = Live(ch) \cap S
    OBVIOUS
  <2> QED BY <2>1, LiveFinite, FS_Difference, ZenonT(30)
<1>4a. CacheOK(new)
  BY <1>1, <1>2, <1>4, <1>5, <1>5a DEF CacheOK
<1>6. StampsOK(new) /\ StoredOK(new)
  BY <1>1, <1>2, <1>3, <1>5, ZenonT(30) DEF StampsOK, StoredOK, Live
<1>7. \A k \in Key : Remembered(new, k) \in {Remembered(ch, k), None}
  BY <1>3, <1>5 DEF Remembered, Live
<1>8. \A k \in Key, s \in Nat : Overtaken(ch, k, s) => Overtaken(new, k, s)
  BY <1>1, <1>2, <1>3 DEF Overtaken
<1>9. \A k \in DOMAIN ch.entries : k \notin S => new.entries[k] = ch.entries[k]
  BY <1>3
<1>10. new.seq >= ch.seq /\ new.watermark >= ch.watermark
  BY <1>1 DEF CacheOK
<1> QED
  BY <1>1, <1>2, <1>3, <1>4a, <1>5, <1>6, <1>7, <1>8, <1>9, <1>10 DEF new, Shrinks

\* Composing operations that store nothing.
LEMMA ShrinksTrans ==
    ASSUME NEW a, NEW b, NEW d, CacheInv(a), Shrinks(a, b), Shrinks(b, d)
    PROVE  Shrinks(a, d)
<1>1. d.seq >= a.seq /\ d.watermark >= a.watermark
  BY DEF Shrinks, CacheInv, CacheOK
<1> QED BY <1>1 DEF Shrinks

\* When an operation stores nothing: it keeps the live entries it has, and a
\* tombstone it drops is remembered by the floor.
LEMMA ShrinkRule ==
    ASSUME NEW ch, CacheInv(ch), NEW new, CacheOK(new),
           new.closed = ch.closed, new.watermark = ch.watermark,
           new.lastFlush = ch.lastFlush, new.floor >= ch.floor,
           new.seq >= ch.seq, StampsOK(new),
           \A k \in Live(new) :
              /\ k \in Live(ch)
              /\ new.entries[k].decision = ch.entries[k].decision
              /\ new.entries[k].asked = ch.entries[k].asked,
           \A k \in DOMAIN ch.entries :
              \/ k \in DOMAIN new.entries /\ new.entries[k].guard >= ch.entries[k].guard
              \/ new.floor >= ch.entries[k].guard
    PROVE  Shrinks(ch, new)
<1>1. StoredOK(new)
  BY DEF StoredOK, CacheInv
<1>2. \A k \in Key : Remembered(new, k) \in {Remembered(ch, k), None}
  BY DEF Remembered
<1>3. ASSUME NEW k \in Key, NEW s \in Nat, Overtaken(ch, k, s)
      PROVE  Overtaken(new, k, s)
  <2>1. CASE s < ch.lastFlush
    BY <2>1 DEF Overtaken
  <2>2. CASE s < ch.floor
    BY <2>2 DEF Overtaken, CacheOK, CacheInv
  <2>3. CASE k \in DOMAIN ch.entries /\ s < ch.entries[k].guard
    <3>1. ch.entries[k].guard \in Nat
      BY <2>3 DEF CacheInv, CacheOK, Entry
    <3>2. CASE k \in DOMAIN new.entries /\ new.entries[k].guard >= ch.entries[k].guard
      <4>1. new.entries[k].guard \in Nat
        BY <3>2 DEF CacheOK, Entry
      <4> QED BY <2>3, <3>1, <3>2, <4>1 DEF Overtaken
    <3>3. CASE new.floor >= ch.entries[k].guard
      BY <2>3, <3>1, <3>3 DEF Overtaken, CacheOK
    <3> QED BY <2>3, <3>2, <3>3
  <2> QED BY <1>3, <2>1, <2>2, <2>3 DEF Overtaken
<1>4. new.watermark >= ch.watermark
  BY DEF CacheInv, CacheOK
<1> QED BY <1>1, <1>2, <1>3, <1>4 DEF Shrinks, CacheInv

\* A function on 1 .. n is a sequence of length n.
LEMMA SeqOfFunction ==
    ASSUME NEW S, NEW n \in Nat, NEW f \in [1 .. n -> S]
    PROVE  f \in Seq(S) /\ Len(f) = n
<1>1. f \in Seq(S)
  BY SeqDef
<1>2. DOMAIN f = 1 .. Len(f) /\ Len(f) \in Nat
  BY <1>1, LenProperties
<1>3. \A i \in Nat : (i \in 1 .. n) <=> (i \in 1 .. Len(f))
  BY <1>2
<1>4. Len(f) = n
  <2>1. n > 0 => n <= Len(f)
    BY <1>2, <1>3
  <2>2. Len(f) > 0 => Len(f) <= n
    BY <1>2, <1>3
  <2> QED BY <2>1, <2>2, <1>2
<1> QED BY <1>1, <1>4

\* The list operation keeps the list a permutation of the map's keys.
LEMMA MoveToFrontLemma ==
    ASSUME NEW ch, CacheInv(ch), NEW k \in DOMAIN ch.entries
    PROVE  /\ Shrinks(ch, MoveToFront(ch, k))
           /\ MoveToFront(ch, k).entries = ch.entries
           /\ MoveToFront(ch, k).floor = ch.floor
           /\ MoveToFront(ch, k).lastFlush = ch.lastFlush
           /\ MoveToFront(ch, k).watermark = ch.watermark
           /\ MoveToFront(ch, k).seq = ch.seq
           /\ Len(MoveToFront(ch, k).lru) = Len(ch.lru)
<1> DEFINE new == MoveToFront(ch, k)
           at == CHOOSE i \in 1 .. Len(ch.lru) : ch.lru[i] = k
           moved == [i \in 1 .. Len(ch.lru) |->
                       IF i = 1 THEN k ELSE IF i <= at THEN ch.lru[i - 1] ELSE ch.lru[i]]
<1>0. k \in Key /\ CacheOK(ch)
  BY DEF CacheInv, CacheOK
<1>1. /\ DOMAIN new = Fields /\ new.lru = moved
      /\ new.entries = ch.entries /\ new.seq = ch.seq /\ new.floor = ch.floor
      /\ new.lastFlush = ch.lastFlush /\ new.watermark = ch.watermark
      /\ new.closed = ch.closed /\ new.allows = ch.allows
  BY <1>0 DEF MoveToFront, CacheOK, Fields
<1>2. at \in 1 .. Len(ch.lru) /\ ch.lru[at] = k
  BY <1>0 DEF CacheOK
<1> HIDE DEF new, at
<1>3. Len(ch.lru) \in Nat /\ \A i \in 1 .. Len(ch.lru) : ch.lru[i] \in Key
  BY <1>0 DEF CacheOK
<1>4. \A i \in 1 .. Len(ch.lru) : moved[i] \in Key
  BY <1>0, <1>2, <1>3
<1>5. moved \in Seq(Key) /\ Len(moved) = Len(ch.lru)
  <2>1. moved \in [1 .. Len(ch.lru) -> Key]
    BY <1>4, ZenonT(30)
  <2> QED BY <2>1, <1>3, SeqOfFunction, ZenonT(30)
<1>6. ASSUME NEW j \in Key
      PROVE  (\E i \in 1 .. Len(ch.lru) : ch.lru[i] = j)
             <=> (\E i \in 1 .. Len(moved) : moved[i] = j)
  <2>1. ASSUME NEW i \in 1 .. Len(ch.lru), ch.lru[i] = j
        PROVE  \E m \in 1 .. Len(moved) : moved[m] = j
    <3>1. CASE i = at
      BY <3>1, <2>1, <1>2, <1>3, <1>5
    <3>2. CASE i < at
      <4>1. i + 1 \in 1 .. Len(moved) /\ moved[i + 1] = ch.lru[i]
        BY <3>2, <1>2, <1>3, <1>5
      <4> QED BY <4>1, <2>1
    <3>3. CASE i > at
      <4>1. i \in 1 .. Len(moved) /\ moved[i] = ch.lru[i]
        BY <3>3, <1>2, <1>3, <1>5
      <4> QED BY <4>1, <2>1
    <3>4. i = at \/ i < at \/ i > at
      BY <1>2, <1>3
    <3> QED BY <3>1, <3>2, <3>3, <3>4, ZenonT(30)
  <2>2. ASSUME NEW i \in 1 .. Len(moved), moved[i] = j
        PROVE  \E m \in 1 .. Len(ch.lru) : ch.lru[m] = j
    <3>1. CASE i = 1
      BY <3>1, <2>2, <1>2, <1>3, <1>5
    <3>2. CASE i # 1 /\ i <= at
      <4>1. i - 1 \in 1 .. Len(ch.lru) /\ moved[i] = ch.lru[i - 1]
        BY <3>2, <1>2, <1>3, <1>5
      <4> QED BY <4>1, <2>2
    <3>3. CASE i # 1 /\ i > at
      <4>1. i \in 1 .. Len(ch.lru) /\ moved[i] = ch.lru[i]
        BY <3>3, <1>2, <1>3, <1>5
      <4> QED BY <4>1, <2>2
    <3>4. i <= at \/ i > at
      BY <1>2, <1>3, <1>5
    <3> QED BY <3>1, <3>2, <3>3, <3>4, ZenonT(30)
  <2> QED BY <2>1, <2>2, ZenonT(30)
<1>6a. ASSUME NEW i \in 1 .. Len(moved), NEW j \in 1 .. Len(moved), moved[i] = moved[j]
       PROVE  i = j
  <2> DEFINE src(m) == IF m = 1 THEN at ELSE IF m <= at THEN m - 1 ELSE m
  <2>1. \A m \in 1 .. Len(ch.lru) : src(m) \in 1 .. Len(ch.lru) /\ moved[m] = ch.lru[src(m)]
    BY <1>2, <1>3
  <2>2. src(i) = src(j)
    <3> DEFINE a == src(i)
               b == src(j)
    <3>1. /\ a \in 1 .. Len(ch.lru) /\ moved[i] = ch.lru[a]
          /\ b \in 1 .. Len(ch.lru) /\ moved[j] = ch.lru[b]
      BY <2>1, <1>5, ZenonT(30)
    <3> HIDE DEF a, b, moved
    <3>2. a = b
      BY <3>1, <1>0, <1>6a, ZenonT(30) DEF CacheOK
    <3> QED BY <3>2 DEF a, b
  <2> QED BY <2>2, <1>2, <1>3, <1>5
<1> HIDE DEF moved
<1>9. Live(new) = Live(ch)
  BY <1>1 DEF Live
<1>7. CacheOK(new)
  <2>1. \A j \in Key : j \in DOMAIN new.entries <=> \E i \in 1 .. Len(new.lru) : new.lru[i] = j
    BY <1>0, <1>1, <1>6 DEF CacheOK
  <2>2. \A i, j \in 1 .. Len(new.lru) : new.lru[i] = new.lru[j] => i = j
    BY <1>1, <1>6a
  <2>3. new.lru \in Seq(Key) /\ new.allows = Cardinality(Live(new))
    BY <1>0, <1>1, <1>5, <1>9 DEF CacheOK
  <2> QED BY <1>0, <1>1, <2>1, <2>2, <2>3 DEF CacheOK
<1>8. StampsOK(new)
  BY <1>1 DEF CacheInv, StampsOK
<1>10. ASSUME NEW j \in DOMAIN ch.entries
       PROVE  j \in DOMAIN new.entries /\ new.entries[j].guard >= ch.entries[j].guard
  BY <1>0, <1>1 DEF CacheOK, Entry
<1>11. new.floor >= ch.floor /\ new.seq >= ch.seq
  BY <1>0, <1>1 DEF CacheOK
<1>12. Shrinks(ch, new)
  BY <1>1, <1>7, <1>8, <1>9, <1>10, <1>11, ShrinkRule
<1> QED BY <1>1, <1>5, <1>12 DEF new

\* Insert adds a tombstone without a guard, at the front of the list.
LEMMA InsertLemma ==
    ASSUME NEW ch, CacheInv(ch), NEW k \in Key
    PROVE  /\ Shrinks(ch, Insert(ch, k))
           /\ k \in DOMAIN Insert(ch, k).entries
           /\ Live(Insert(ch, k)) = Live(ch)
           /\ \A j \in DOMAIN ch.entries : Insert(ch, k).entries[j] = ch.entries[j]
           /\ Insert(ch, k).watermark = ch.watermark
           /\ Insert(ch, k).seq = ch.seq
           /\ Len(Insert(ch, k).lru) <= Len(ch.lru) + 1
<1>0. CacheOK(ch) /\ Len(ch.lru) \in Nat
  BY DEF CacheInv, CacheOK
<1>1. CASE k \in DOMAIN ch.entries
  <2>1. Shrinks(ch, ch)
    BY <1>0 DEF Shrinks, CacheOK
  <2> QED BY <1>0, <1>1, <2>1 DEF Insert
<1>2. CASE k \notin DOMAIN ch.entries
  <2> DEFINE new == Insert(ch, k)
  <2>1. /\ DOMAIN new = Fields /\ new.lru = <<k>> \o ch.lru
        /\ new.entries = [j \in DOMAIN ch.entries \cup {k} |->
                              IF j = k THEN NewEntry ELSE ch.entries[j]]
        /\ new.seq = ch.seq /\ new.floor = ch.floor
        /\ new.lastFlush = ch.lastFlush /\ new.watermark = ch.watermark
        /\ new.closed = ch.closed /\ new.allows = ch.allows
    BY <1>0, <1>2 DEF Insert, CacheOK, Fields
  <2> HIDE DEF new
  <2>2. /\ DOMAIN new.entries = DOMAIN ch.entries \cup {k}
        /\ new.entries[k] = NewEntry
        /\ \A j \in DOMAIN ch.entries : new.entries[j] = ch.entries[j]
    BY <1>2, <2>1
  <2>3. Live(new) = Live(ch)
    BY <1>2, <2>2 DEF Live, NewEntry
  <2>4. new.entries \in [DOMAIN new.entries -> Entry]
    BY <1>0, <2>1, <2>2, ZeroTypes DEF CacheOK
  <2>5. /\ new.lru \in Seq(Key) /\ Len(new.lru) = Len(ch.lru) + 1 /\ new.lru[1] = k
        /\ \A i \in 1 .. Len(ch.lru) : new.lru[i + 1] = ch.lru[i]
    <3>1. <<k>> \in Seq(Key) /\ Len(<<k>>) = 1 /\ <<k>>[1] = k
      OBVIOUS
    <3> QED BY <1>0, <2>1, <3>1, ConcatProperties DEF CacheOK
  <2>6. \A i \in 1 .. Len(new.lru) : i # 1 =>
            i - 1 \in 1 .. Len(ch.lru) /\ new.lru[i] = ch.lru[i - 1]
    <3>1. ASSUME NEW i \in 1 .. Len(new.lru), i # 1
          PROVE  i - 1 \in 1 .. Len(ch.lru) /\ new.lru[(i - 1) + 1] = ch.lru[i - 1] /\ (i - 1) + 1 = i
      <4>1. i - 1 \in 1 .. Len(ch.lru) /\ (i - 1) + 1 = i
        BY <1>0, <2>5, <3>1
      <4> QED BY <2>5, <4>1
    <3> QED BY <3>1
  <2>7. ASSUME NEW j \in Key
        PROVE  j \in DOMAIN new.entries <=> \E i \in 1 .. Len(new.lru) : new.lru[i] = j
    <3>1. CASE j = k
      BY <1>0, <2>2, <2>5, <3>1
    <3>2. CASE j # k
      <4>1. ASSUME NEW i \in 1 .. Len(ch.lru), ch.lru[i] = j
            PROVE  \E m \in 1 .. Len(new.lru) : new.lru[m] = j
        <5>1. i + 1 \in 1 .. Len(new.lru)
          BY <1>0, <2>5
        <5> QED BY <2>5, <4>1, <5>1
      <4>2. ASSUME NEW i \in 1 .. Len(new.lru), new.lru[i] = j
            PROVE  \E m \in 1 .. Len(ch.lru) : ch.lru[m] = j
        BY <2>5, <2>6, <3>2, <4>2
      <4>3. j \in DOMAIN new.entries <=> j \in DOMAIN ch.entries
        BY <2>2, <3>2
      <4> QED BY <1>0, <4>1, <4>2, <4>3 DEF CacheOK
    <3> QED BY <3>1, <3>2
  <2>8. ASSUME NEW i \in 1 .. Len(new.lru), NEW j \in 1 .. Len(new.lru), new.lru[i] = new.lru[j]
        PROVE  i = j
    <3>1. \A m \in 1 .. Len(ch.lru) : ch.lru[m] # k
      BY <1>0, <1>2 DEF CacheOK
    <3>2. CASE i = 1 \/ j = 1
      BY <2>5, <2>6, <2>8, <3>1, <3>2, SMTT(60)
    <3>3. CASE i # 1 /\ j # 1
      <4> DEFINE a == i - 1
                 b == j - 1
      <4>2. /\ a \in 1 .. Len(ch.lru) /\ b \in 1 .. Len(ch.lru)
            /\ ch.lru[a] = new.lru[i] /\ ch.lru[b] = new.lru[j]
        BY <2>6, <3>3
      <4> HIDE DEF a, b
      <4>3. a = b
        BY <1>0, <2>8, <4>2 DEF CacheOK
      <4>1. i - 1 = j - 1
        BY <4>3 DEF a, b
      <4> QED BY <4>1, <2>5, <1>0
    <3> QED BY <3>2, <3>3
  <2>9. CacheOK(new)
    BY <1>0, <2>1, <2>2, <2>3, <2>4, <2>5, <2>7, <2>8, ZenonT(30) DEF CacheOK
  <2>10. StampsOK(new)
    BY <1>0, <2>1, <2>2 DEF StampsOK, CacheInv, CacheOK, NewEntry
  <2>11. new.floor >= ch.floor /\ new.seq >= ch.seq
    BY <1>0, <2>1 DEF CacheOK
  <2>12. \A j \in DOMAIN ch.entries :
            j \in DOMAIN new.entries /\ new.entries[j].guard >= ch.entries[j].guard
    BY <1>0, <2>2 DEF CacheOK, Entry
  <2>13. \A j \in Live(new) :
            /\ j \in Live(ch)
            /\ new.entries[j].decision = ch.entries[j].decision
            /\ new.entries[j].asked = ch.entries[j].asked
    BY <2>2, <2>3 DEF Live
  <2>14. Shrinks(ch, new)
    BY <2>1, <2>9, <2>10, <2>11, <2>12, <2>13, ShrinkRule, ZenonT(30)
  <2>15. k \in DOMAIN new.entries /\ Len(new.lru) <= Len(ch.lru) + 1
    BY <1>0, <2>2, <2>5
  <2> QED BY <2>1, <2>2, <2>3, <2>14, <2>15, ZenonT(30) DEF new
<1> QED BY <1>1, <1>2

\* bound evicts from the back of the list and remembers the evicted guard.
LEMMA BoundLemma ==
    ASSUME NEW ch, CacheInv(ch), Len(ch.lru) <= MaxEntries + 1
    PROVE  /\ Shrinks(ch, Bound(ch))
           /\ Bound(ch).watermark = ch.watermark
           /\ Bound(ch).seq = ch.seq
           /\ Len(Bound(ch).lru) <= MaxEntries
<1>0. CacheOK(ch) /\ Len(ch.lru) \in Nat /\ MaxEntries \in Nat \ {0}
  BY CacheAssumption DEF CacheInv, CacheOK
<1>1. CASE Len(ch.lru) <= MaxEntries
  <2>1. Shrinks(ch, ch)
    BY <1>0 DEF Shrinks, CacheOK
  <2> QED BY <1>0, <1>1, <2>1 DEF Bound
<1>2. CASE ~(Len(ch.lru) <= MaxEntries)
  <2> DEFINE new == Bound(ch)
             n == Len(ch.lru) - 1
             back == ch.lru[Len(ch.lru)]
             dead == Kill(ch, {back})
             guard == ch.entries[back].guard
  <2>1. n \in Nat /\ n = MaxEntries /\ n + 1 = Len(ch.lru) /\ n + 1 \in 1 .. Len(ch.lru)
    BY <1>0, <1>2
  <2>2. back \in DOMAIN ch.entries /\ back \in Key /\ guard \in Nat /\ guard <= ch.seq
    <3>1. back \in Key
      BY <1>0, <2>1 DEF CacheOK
    <3>2. back \in DOMAIN ch.entries
      BY <1>0, <2>1, <3>1 DEF CacheOK
    <3>3. guard \in Nat
      BY <1>0, <3>2 DEF CacheOK, Entry
    <3> QED BY <3>1, <3>2, <3>3 DEF CacheInv, StampsOK
  <2>3. /\ CacheOK(dead) /\ Live(dead) = Live(ch) \ {back}
        /\ DOMAIN dead.entries = DOMAIN ch.entries
        /\ \A k \in DOMAIN ch.entries : k # back => dead.entries[k] = ch.entries[k]
        /\ dead.seq = ch.seq /\ dead.floor = ch.floor /\ dead.lru = ch.lru
        /\ dead.lastFlush = ch.lastFlush /\ dead.watermark = ch.watermark
        /\ dead.closed = ch.closed
    BY KillLemma DEF Shrinks, CacheInv
  <2> HIDE DEF dead, back, guard
  <2>4. new = [dead EXCEPT !.entries = [k \in DOMAIN ch.entries \ {back} |-> dead.entries[k]],
                           !.lru = SubSeq(ch.lru, 1, Len(ch.lru) - 1),
                           !.floor = IF guard > ch.floor THEN guard ELSE @]
    BY <1>2 DEF Bound, dead, back, guard
  <2> HIDE DEF new
  <2>5. /\ DOMAIN new = Fields /\ new.lru = SubSeq(ch.lru, 1, n)
        /\ new.entries = [k \in DOMAIN ch.entries \ {back} |-> dead.entries[k]]
        /\ new.floor = (IF guard > ch.floor THEN guard ELSE ch.floor)
        /\ new.seq = ch.seq /\ new.lastFlush = ch.lastFlush /\ new.watermark = ch.watermark
        /\ new.closed = ch.closed /\ new.allows = dead.allows
    BY <2>3, <2>4 DEF CacheOK, Fields
  <2>6. /\ DOMAIN new.entries = DOMAIN ch.entries \ {back}
        /\ \A k \in DOMAIN new.entries : new.entries[k] = ch.entries[k]
    BY <2>3, <2>5
  <2>7. Live(new) = Live(ch) \ {back}
    BY <2>6 DEF Live
  <2>8. new.entries \in [DOMAIN new.entries -> Entry]
    <3>1. \A k \in DOMAIN new.entries : new.entries[k] \in Entry
      BY <1>0, <2>6 DEF CacheOK
    <3> QED BY <2>5, <3>1, ZenonT(30)
  <2>9. /\ new.lru \in Seq(Key) /\ Len(new.lru) = n
        /\ \A i \in 1 .. n : new.lru[i] = ch.lru[i]
    BY <1>0, <2>1, <2>5 DEF CacheOK
  <2>10. \A i \in 1 .. n : ch.lru[i] # back /\ i \in 1 .. Len(ch.lru)
    <3>1. ASSUME NEW i \in 1 .. n PROVE i \in 1 .. Len(ch.lru) /\ i # n + 1
      BY <2>1
    <3> QED BY <1>0, <2>1, <3>1, SMTT(60) DEF CacheOK, back
  <2>11. ASSUME NEW j \in Key
         PROVE  j \in DOMAIN new.entries <=> \E i \in 1 .. Len(new.lru) : new.lru[i] = j
    <3>1. ASSUME NEW i \in 1 .. Len(ch.lru), ch.lru[i] = j, j # back
          PROVE  \E m \in 1 .. Len(new.lru) : new.lru[m] = j
      <4>1. i # n + 1
        BY <2>1, <3>1 DEF back
      <4>2. i \in 1 .. n
        BY <2>1, <4>1
      <4> QED BY <2>9, <3>1, <4>2
    <3>2. ASSUME NEW i \in 1 .. Len(new.lru), new.lru[i] = j
          PROVE  j # back /\ \E m \in 1 .. Len(ch.lru) : ch.lru[m] = j
      BY <2>9, <2>10, <3>2
    <3> QED BY <1>0, <2>6, <3>1, <3>2 DEF CacheOK
  <2>12. \A i, j \in 1 .. Len(new.lru) : new.lru[i] = new.lru[j] => i = j
    BY <1>0, <2>9, <2>10 DEF CacheOK
  <2>13. new.allows = Cardinality(Live(new)) /\ new.floor \in Nat
    BY <1>0, <2>2, <2>3, <2>5, <2>7, ZenonT(30) DEF CacheOK
  <2>14. CacheOK(new)
    BY <1>0, <2>5, <2>6, <2>8, <2>9, <2>11, <2>12, <2>13 DEF CacheOK
  <2>15. StampsOK(new)
    BY <1>0, <2>2, <2>5, <2>6, ZenonT(30) DEF StampsOK, CacheInv, CacheOK
  <2>16. /\ new.floor >= ch.floor /\ new.seq >= ch.seq /\ new.floor >= guard
         /\ Len(new.lru) <= MaxEntries
    BY <1>0, <2>1, <2>2, <2>5, <2>9 DEF CacheOK
  <2>17. \A k \in DOMAIN ch.entries :
            \/ k \in DOMAIN new.entries /\ new.entries[k].guard >= ch.entries[k].guard
            \/ new.floor >= ch.entries[k].guard
    <3>1. ASSUME NEW k \in DOMAIN ch.entries, k # back
          PROVE  k \in DOMAIN new.entries /\ new.entries[k].guard >= ch.entries[k].guard
      BY <1>0, <2>6, <3>1 DEF CacheOK, Entry
    <3> QED BY <2>16, <3>1 DEF guard
  <2>18. \A k \in Live(new) :
            /\ k \in Live(ch)
            /\ new.entries[k].decision = ch.entries[k].decision
            /\ new.entries[k].asked = ch.entries[k].asked
    BY <2>6, <2>7 DEF Live
  <2>19. Shrinks(ch, new)
    BY <2>5, <2>14, <2>15, <2>16, <2>17, <2>18, ShrinkRule, ZenonT(30)
  <2> QED BY <2>5, <2>16, <2>19, ZenonT(30) DEF new
<1> QED BY <1>1, <1>2

\* Raising the watermark kills what a newer policy revision supersedes.
LEMMA RaiseLemma ==
    ASSUME NEW ch, CacheInv(ch), NEW rev \in Nat
    PROVE  /\ Shrinks(ch, Raise(ch, rev))
           /\ Raise(ch, rev).watermark >= rev
           /\ Raise(ch, rev).seq = ch.seq
           /\ Raise(ch, rev).lru = ch.lru
<1>0. CacheOK(ch) /\ Len(ch.lru) \in Nat
  BY DEF CacheInv, CacheOK
<1>1. CASE ~(rev > ch.watermark)
  <2>1. Shrinks(ch, ch)
    BY <1>0 DEF Shrinks, CacheOK
  <2> QED BY <1>0, <1>1, <2>1 DEF Raise, CacheOK
<1>2. CASE rev > ch.watermark
  <2> DEFINE S == {k \in Live(ch) : ch.entries[k].decision.rev < rev}
             dead == Kill(ch, S)
             new == Raise(ch, rev)
  <2>1. /\ Shrinks(ch, dead) /\ Live(dead) = Live(ch) \ S
        /\ \A k \in DOMAIN ch.entries : k \notin S => dead.entries[k] = ch.entries[k]
        /\ dead.seq = ch.seq /\ dead.lru = ch.lru /\ dead.watermark = ch.watermark
    BY KillLemma
  <2>2. new = [dead EXCEPT !.watermark = rev]
    BY <1>2 DEF Raise
  <2>3. CacheInv(dead) /\ CacheOK(dead) /\ DOMAIN dead = Fields
    BY <2>1, ZenonT(30) DEF Shrinks, CacheInv, CacheOK
  <2> HIDE DEF dead, new
  <2>4. /\ DOMAIN new = Fields /\ new.watermark = rev
        /\ new.entries = dead.entries /\ new.lru = dead.lru /\ new.allows = dead.allows
        /\ new.seq = dead.seq /\ new.lastFlush = dead.lastFlush /\ new.floor = dead.floor
        /\ new.closed = dead.closed
    BY <2>2, <2>3 DEF Fields
  <2>5. Live(new) = Live(dead)
    BY <2>4 DEF Live
  <2>6. CacheOK(new)
    BY <2>3, <2>4, <2>5 DEF CacheOK
  <2>7. StampsOK(new)
    BY <2>3, <2>4 DEF StampsOK, CacheInv
  <2>8. StoredOK(new)
    <3>1. ASSUME NEW k \in Live(new) PROVE new.entries[k].decision.rev >= new.watermark
      <4>1. k \in Live(ch) /\ k \notin S /\ k \in DOMAIN ch.entries
        BY <2>1, <2>5 DEF Live
      <4>2. ch.entries[k].decision.rev \in Nat
        BY <1>0, <4>1 DEF CacheOK, Entry, Decision
      <4> QED BY <2>1, <2>4, <4>1, <4>2
    <3> QED BY <2>3, <2>4, <2>5, <3>1 DEF StoredOK, CacheInv
  <2>9. \A k \in Key : Remembered(new, k) = Remembered(dead, k)
    BY <2>4, <2>5 DEF Remembered
  <2>10. \A k \in Key, s \in Nat : Overtaken(dead, k, s) => Overtaken(new, k, s)
    BY <2>4 DEF Overtaken
  <2>11. Shrinks(ch, new)
    BY <1>0, <1>2, <2>1, <2>4, <2>6, <2>7, <2>8, <2>9, <2>10 DEF Shrinks, CacheInv, CacheOK
  <2>12. new.watermark >= rev
    BY <2>4
  <2> QED BY <2>1, <2>4, <2>11, <2>12, ZenonT(30) DEF new
<1> QED BY <1>1, <1>2

\* A tombstone overtakes every call that was stamped before it.
LEMMA TombstoneLemma ==
    ASSUME NEW ch, CacheInv(ch), NEW k \in Key, Len(ch.lru) <= MaxEntries
    PROVE  /\ Shrinks(ch, Tombstone(ch, k))
           /\ Remembered(Tombstone(ch, k), k) = None
           /\ Tombstone(ch, k).watermark = ch.watermark
           /\ Len(Tombstone(ch, k).lru) <= MaxEntries
           /\ \A s \in 0 .. ch.seq : Overtaken(Tombstone(ch, k), k, s)
<1> DEFINE a == [ch EXCEPT !.seq = @ + 1]
           b == Insert(a, k)
           d == Kill(b, {k})
           e == [d EXCEPT !.entries[k].guard = d.seq]
           f == MoveToFront(e, k)
           g == Bound(f)
<1>0. CacheOK(ch) /\ Len(ch.lru) \in Nat /\ ch.seq \in Nat /\ MaxEntries \in Nat
  BY CacheAssumption DEF CacheInv, CacheOK
<1>1. Tombstone(ch, k) = g
  BY DEF Tombstone
<1>2. /\ DOMAIN a = Fields /\ a.seq = ch.seq + 1
      /\ a.entries = ch.entries /\ a.lru = ch.lru /\ a.allows = ch.allows
      /\ a.lastFlush = ch.lastFlush /\ a.floor = ch.floor
      /\ a.watermark = ch.watermark /\ a.closed = ch.closed
  BY <1>0 DEF CacheOK, Fields
<1> HIDE DEF a
<1>3. Shrinks(ch, a)
  <2>1. Live(a) = Live(ch)
    BY <1>2 DEF Live
  <2>2. CacheOK(a)
    BY <1>0, <1>2, <2>1 DEF CacheOK
  <2>3. StampsOK(a)
    BY <1>0, <1>2 DEF StampsOK, CacheInv, CacheOK, Entry
  <2>4. StoredOK(a)
    BY <1>2, <2>1 DEF StoredOK, CacheInv
  <2>5. \A j \in Key : Remembered(a, j) = Remembered(ch, j)
    BY <1>2, <2>1 DEF Remembered
  <2>6. \A j \in Key, s \in Nat : Overtaken(ch, j, s) => Overtaken(a, j, s)
    BY <1>2 DEF Overtaken
  <2> QED BY <1>0, <1>2, <2>2, <2>3, <2>4, <2>5, <2>6 DEF Shrinks, CacheInv, CacheOK
<1>4. /\ Shrinks(a, b) /\ k \in DOMAIN b.entries /\ b.watermark = ch.watermark
      /\ b.seq = ch.seq + 1 /\ Len(b.lru) <= Len(ch.lru) + 1
  BY <1>2, <1>3, InsertLemma DEF Shrinks
<1> HIDE DEF b
<1>5. /\ Shrinks(b, d) /\ k \in DOMAIN d.entries /\ d.watermark = ch.watermark
      /\ d.seq = ch.seq + 1 /\ d.lru = b.lru /\ k \notin Live(d)
  BY <1>4, KillLemma DEF Shrinks
<1> HIDE DEF d
<1>6. CacheOK(d) /\ CacheInv(d) /\ DOMAIN d = Fields
  BY <1>5 DEF Shrinks, CacheInv, CacheOK
<1>7. /\ DOMAIN e = Fields /\ e.seq = d.seq /\ e.lru = d.lru /\ e.allows = d.allows
      /\ e.lastFlush = d.lastFlush /\ e.floor = d.floor
      /\ e.watermark = d.watermark /\ e.closed = d.closed
      /\ e.entries = [d.entries EXCEPT ![k] = [@ EXCEPT !.guard = d.seq]]
  BY <1>6 DEF Fields
<1> HIDE DEF e
<1>8. /\ DOMAIN e.entries = DOMAIN d.entries
      /\ e.entries \in [DOMAIN e.entries -> Entry]
      /\ \A j \in DOMAIN d.entries : j # k => e.entries[j] = d.entries[j]
      /\ e.entries[k].guard = d.seq
      /\ e.entries[k].live = d.entries[k].live
  <2>1. d.entries \in [DOMAIN d.entries -> Entry] /\ d.seq \in Nat
    BY <1>6 DEF CacheOK
  <2>2. [d.entries[k] EXCEPT !.guard = d.seq] \in Entry
    BY <1>5, <2>1 DEF Entry
  <2>3. /\ [d.entries[k] EXCEPT !.guard = d.seq].guard = d.seq
        /\ [d.entries[k] EXCEPT !.guard = d.seq].live = d.entries[k].live
    BY <1>5, <2>1 DEF Entry
  <2>4. e.entries[k] = [d.entries[k] EXCEPT !.guard = d.seq]
    BY <1>5, <1>7, <2>1
  <2>5. /\ DOMAIN e.entries = DOMAIN d.entries
        /\ \A j \in DOMAIN d.entries : j # k => e.entries[j] = d.entries[j]
    BY <1>5, <1>7, <2>1
  <2>6. e.entries \in [DOMAIN e.entries -> Entry]
    BY <1>5, <1>7, <2>1, <2>2
  <2> QED BY <2>3, <2>4, <2>5, <2>6
<1>9. Live(e) = Live(d)
  BY <1>8 DEF Live
<1>10. Shrinks(d, e) /\ k \notin Live(e)
  <2>1. CacheOK(e)
    BY <1>6, <1>7, <1>8, <1>9 DEF CacheOK
  <2>2. StampsOK(e)
    BY <1>6, <1>7, <1>8 DEF StampsOK, CacheInv, CacheOK
  <2>3. \A j \in Live(e) :
            /\ j \in Live(d)
            /\ e.entries[j].decision = d.entries[j].decision
            /\ e.entries[j].asked = d.entries[j].asked
    BY <1>5, <1>8, <1>9 DEF Live
  <2>4. ASSUME NEW j \in DOMAIN d.entries
        PROVE  j \in DOMAIN e.entries /\ e.entries[j].guard >= d.entries[j].guard
    <3>1. d.entries[j].guard \in Nat /\ d.entries[j].guard <= d.seq /\ d.seq \in Nat
      BY <1>6 DEF CacheInv, CacheOK, StampsOK, Entry
    <3> QED BY <1>8, <3>1
  <2>5. e.floor >= d.floor /\ e.seq >= d.seq
    BY <1>6, <1>7 DEF CacheOK
  <2> QED BY <1>5, <1>6, <1>7, <1>9, <2>1, <2>2, <2>3, <2>4, <2>5, ShrinkRule, ZenonT(30)
<1>11. /\ Shrinks(e, f) /\ f.entries = e.entries /\ f.watermark = e.watermark
       /\ Len(f.lru) = Len(e.lru)
  BY <1>5, <1>8, <1>10, MoveToFrontLemma DEF Shrinks
<1> HIDE DEF f
<1>12. CacheInv(f) /\ Len(f.lru) <= MaxEntries + 1
  <2>1. Len(b.lru) \in Nat
    BY <1>4 DEF Shrinks, CacheInv, CacheOK
  <2>2. Len(f.lru) <= MaxEntries + 1
    BY <1>0, <1>4, <1>5, <1>7, <1>11, <2>1
  <2> QED BY <1>11, <2>2 DEF Shrinks
<1>13. Shrinks(f, g) /\ g.watermark = f.watermark /\ Len(g.lru) <= MaxEntries
  BY <1>12, BoundLemma
<1> HIDE DEF g
<1>14. Shrinks(ch, g)
  <2>1. Shrinks(ch, b)
    BY <1>3, <1>4, ShrinksTrans
  <2>2. Shrinks(ch, d)
    BY <1>5, <2>1, ShrinksTrans
  <2>3. Shrinks(ch, e)
    BY <1>10, <2>2, ShrinksTrans
  <2>4. Shrinks(ch, f)
    BY <1>11, <2>3, ShrinksTrans
  <2> QED BY <1>13, <2>4, ShrinksTrans
<1>15. Remembered(g, k) = None
  <2>1. Remembered(e, k) = None
    BY <1>10 DEF Remembered
  <2> QED BY <2>1, <1>11, <1>13 DEF Shrinks
<1>16. ASSUME NEW s \in 0 .. ch.seq PROVE Overtaken(g, k, s)
  <2>1. Overtaken(e, k, s)
    BY <1>0, <1>5, <1>8 DEF Overtaken
  <2>2. s \in Nat
    BY <1>0
  <2> QED BY <2>1, <2>2, <1>11, <1>13 DEF Shrinks
<1> QED BY <1>1, <1>5, <1>7, <1>11, <1>13, <1>14, <1>15, <1>16

\* What an operation that may store m under k does to the cache.
Learns(ch, new, k, m) ==
    /\ CacheInv(new)
    /\ \A j \in Key : j # k => Remembered(new, j) \in {Remembered(ch, j), None}
    /\ Remembered(new, k) \in {Remembered(ch, k), None, m}
    /\ \A j \in Key, s \in Nat : Overtaken(ch, j, s) => Overtaken(new, j, s)
    /\ new.closed = ch.closed
    /\ new.seq >= ch.seq /\ new.watermark >= ch.watermark

\* Forgetting before or after learning.
LEMMA ShrinkLearnShrink ==
    ASSUME NEW a, NEW b, NEW d, NEW e, NEW k \in Key, NEW m,
           CacheInv(a), Shrinks(a, b), Learns(b, d, k, m), Shrinks(d, e)
    PROVE  Learns(a, e, k, m)
<1>1. e.seq >= a.seq /\ e.watermark >= a.watermark /\ e.closed = a.closed /\ CacheInv(e)
  <2>1. CacheOK(a) /\ CacheOK(b) /\ CacheOK(d) /\ CacheOK(e) /\ CacheInv(e)
    BY DEF Shrinks, Learns, CacheInv
  <2>2. /\ a.seq \in Nat /\ b.seq \in Nat /\ d.seq \in Nat /\ e.seq \in Nat
        /\ a.watermark \in Nat /\ b.watermark \in Nat /\ d.watermark \in Nat
        /\ e.watermark \in Nat
    BY <2>1 DEF CacheOK
  <2>3. /\ e.seq >= d.seq /\ d.seq >= b.seq /\ b.seq >= a.seq
        /\ e.watermark >= d.watermark /\ d.watermark >= b.watermark
        /\ b.watermark >= a.watermark
        /\ e.closed = d.closed /\ d.closed = b.closed /\ b.closed = a.closed
    BY DEF Shrinks, Learns
  <2> QED BY <2>1, <2>2, <2>3
<1>2. \A j \in Key, s \in Nat : Overtaken(a, j, s) => Overtaken(e, j, s)
  BY DEF Shrinks, Learns
<1>3. \A j \in Key : j # k => Remembered(e, j) \in {Remembered(a, j), None}
  BY DEF Shrinks, Learns
<1>4. Remembered(e, k) \in {Remembered(a, k), None, m}
  BY DEF Shrinks, Learns
<1> QED BY <1>1, <1>2, <1>3, <1>4 DEF Learns

\* store replaces the allow under k, keeps its guard and evicts at most one entry.
LEMMA StoreLemma ==
    ASSUME NEW ch, CacheInv(ch), NEW k \in Key, Len(ch.lru) <= MaxEntries, ~ch.closed,
           NEW dec \in Decision, NEW asked \in Nat, dec.allowed, dec.rev >= ch.watermark
    PROVE  /\ Learns(ch, Store(ch, k, dec, asked), k, [decision |-> dec, asked |-> asked])
           /\ Store(ch, k, dec, asked).watermark = ch.watermark
           /\ Len(Store(ch, k, dec, asked).lru) <= MaxEntries
<1> DEFINE b == Insert(ch, k)
           old == b.entries[k]
           fresh == [live |-> TRUE, decision |-> dec, asked |-> asked, guard |-> old.guard]
           e == [b EXCEPT !.entries[k] = fresh, !.allows = IF old.live THEN @ ELSE @ + 1]
           f == MoveToFront(e, k)
           g == Bound(f)
           m == [decision |-> dec, asked |-> asked]
<1>0. CacheOK(ch) /\ Len(ch.lru) \in Nat /\ MaxEntries \in Nat
  BY CacheAssumption DEF CacheInv, CacheOK
<1>1. Store(ch, k, dec, asked) = g
  BY DEF Store
<1>2. /\ Shrinks(ch, b) /\ k \in DOMAIN b.entries /\ b.watermark = ch.watermark
      /\ Len(b.lru) <= Len(ch.lru) + 1
  BY InsertLemma
<1> HIDE DEF b
<1>3. CacheInv(b) /\ CacheOK(b) /\ DOMAIN b = Fields /\ ~b.closed /\ Len(b.lru) \in Nat
  BY <1>2 DEF Shrinks, CacheInv, CacheOK
<1>4. /\ DOMAIN e = Fields /\ e.seq = b.seq /\ e.lru = b.lru
      /\ e.allows = (IF old.live THEN b.allows ELSE b.allows + 1)
      /\ e.lastFlush = b.lastFlush /\ e.floor = b.floor
      /\ e.watermark = b.watermark /\ e.closed = b.closed
      /\ e.entries = [b.entries EXCEPT ![k] = fresh]
  BY <1>3 DEF Fields
<1> HIDE DEF e
<1>5. old \in Entry /\ old.guard \in Nat /\ old.live \in BOOLEAN
  BY <1>2, <1>3 DEF CacheOK, Entry
<1>6. /\ fresh \in Entry /\ fresh.live = TRUE /\ fresh.decision = dec
      /\ fresh.asked = asked /\ fresh.guard = old.guard
  BY <1>5 DEF Entry
<1>7. /\ DOMAIN e.entries = DOMAIN b.entries /\ e.entries[k] = fresh
      /\ \A j \in DOMAIN b.entries : j # k => e.entries[j] = b.entries[j]
      /\ e.entries \in [DOMAIN e.entries -> Entry]
  <2> HIDE DEF fresh, old
  <2>1. b.entries \in [DOMAIN b.entries -> Entry]
    BY <1>3 DEF CacheOK
  <2> QED BY <1>2, <1>4, <1>6, <2>1
<1> HIDE DEF fresh
<1>8. Live(e) = Live(b) \cup {k} /\ (old.live <=> k \in Live(b))
  BY <1>2, <1>6, <1>7 DEF Live
<1>9. e.allows = Cardinality(Live(e))
  <2>1. Cardinality(Live(b) \cup {k}) =
            IF k \in Live(b) THEN Cardinality(Live(b)) ELSE Cardinality(Live(b)) + 1
    BY <1>3, LiveFinite, FS_AddElement, ZenonT(30)
  <2> QED BY <1>3, <1>4, <1>8, <2>1 DEF CacheOK
<1>10. Learns(b, e, k, m)
  <2>1. CacheOK(e)
    BY <1>3, <1>4, <1>7, <1>9 DEF CacheOK
  <2>2. \A j \in DOMAIN b.entries : e.entries[j].guard = b.entries[j].guard
    BY <1>6, <1>7
  <2>3. StampsOK(e)
    BY <1>3, <1>4, <1>7, <2>2 DEF StampsOK, CacheInv
  <2>4. StoredOK(e)
    <3>1. \A j \in Live(b) : j \in DOMAIN b.entries
      BY DEF Live
    <3> QED BY <1>2, <1>3, <1>4, <1>6, <1>7, <1>8, <3>1 DEF StoredOK, CacheInv
  <2>5. \A j \in Key : j # k => Remembered(e, j) = Remembered(b, j)
    <3>1. \A j \in Live(b) : j \in DOMAIN b.entries
      BY DEF Live
    <3> QED BY <1>7, <1>8, <3>1 DEF Remembered
  <2>6. Remembered(e, k) = m
    BY <1>6, <1>7, <1>8 DEF Remembered
  <2>7. \A j \in Key, s \in Nat : Overtaken(b, j, s) => Overtaken(e, j, s)
    BY <1>4, <1>7, <2>2 DEF Overtaken
  <2>8. e.seq >= b.seq /\ e.watermark >= b.watermark
    BY <1>3, <1>4 DEF CacheOK
  <2> HIDE DEF m
  <2> QED BY <1>4, <2>1, <2>3, <2>4, <2>5, <2>6, <2>7, <2>8 DEF Learns, CacheInv
<1> HIDE DEF m
<1>11. /\ Shrinks(e, f) /\ f.watermark = e.watermark /\ Len(f.lru) = Len(e.lru)
  BY <1>2, <1>7, <1>10, MoveToFrontLemma DEF Learns
<1> HIDE DEF f
<1>12. CacheInv(f) /\ Len(f.lru) <= MaxEntries + 1
  <2>1. Len(f.lru) <= MaxEntries + 1
    BY <1>0, <1>2, <1>3, <1>4, <1>11
  <2> QED BY <1>11, <2>1 DEF Shrinks
<1>13. Shrinks(f, g) /\ g.watermark = f.watermark /\ Len(g.lru) <= MaxEntries
  BY <1>12, BoundLemma
<1> HIDE DEF g
<1>14. Learns(ch, g, k, m)
  <2>1. Shrinks(e, g)
    BY <1>10, <1>11, <1>13, ShrinksTrans DEF Learns
  <2> QED BY <1>2, <1>10, <2>1, ShrinkLearnShrink
<1> QED BY <1>1, <1>2, <1>4, <1>11, <1>13, <1>14 DEF m

\* get forgets a stale entry and otherwise only reorders the list.
LEMMA GetLemma ==
    ASSUME NEW ch, CacheInv(ch), NEW k \in Key, NEW t, Len(ch.lru) <= MaxEntries
    PROVE  /\ Shrinks(ch, Get(ch, k, t))
           /\ Get(ch, k, t).watermark = ch.watermark
           /\ Len(Get(ch, k, t).lru) <= MaxEntries
           /\ Hit(ch, k, t) => Get(ch, k, t).entries = ch.entries
<1>1. CASE Hit(ch, k, t)
  <2>1. k \in DOMAIN ch.entries
    BY <1>1 DEF Hit, Live
  <2>2. /\ Shrinks(ch, MoveToFront(ch, k)) /\ MoveToFront(ch, k).entries = ch.entries
        /\ MoveToFront(ch, k).watermark = ch.watermark
        /\ Len(MoveToFront(ch, k).lru) = Len(ch.lru)
    BY <2>1, MoveToFrontLemma
  <2>3. Get(ch, k, t) = MoveToFront(ch, k)
    BY <1>1 DEF Get
  <2> QED BY <2>2, <2>3
<1>2. CASE ~Hit(ch, k, t) /\ ch.closed
  <2>1. Shrinks(ch, ch)
    BY DEF Shrinks, CacheInv, CacheOK
  <2> QED BY <1>2, <2>1 DEF Get
<1>3. CASE ~Hit(ch, k, t) /\ ~ch.closed
  <2>1. Get(ch, k, t) = Kill(ch, {k})
    BY <1>3 DEF Get
  <2>2. /\ Shrinks(ch, Kill(ch, {k})) /\ Kill(ch, {k}).lru = ch.lru
        /\ Kill(ch, {k}).watermark = ch.watermark
    BY KillLemma
  <2> QED BY <1>3, <2>1, <2>2
<1> QED BY <1>1, <1>2, <1>3

\* What observe does for each kind of verdict.
LEMMA ObserveLemma ==
    ASSUME NEW ch, CacheInv(ch), NEW k \in Key, Len(ch.lru) <= MaxEntries,
           NEW dec \in Decision, NEW stamp \in Nat, NEW asked \in Nat, NEW t \in Nat,
           ~dec.local
    PROVE  LET new == Observe(ch, k, dec, stamp, asked, t)
               m == [decision |-> dec, asked |-> asked]
           IN  /\ Learns(ch, new, k, m)
               /\ Len(new.lru) <= MaxEntries
               /\ ~ch.closed => new.watermark >= dec.rev
               /\ ~ch.closed /\ ~(dec.allowed /\ dec.cacheable) =>
                     /\ Remembered(new, k) = None
                     /\ Shrinks(ch, new)
                     /\ \A s \in 0 .. ch.seq : Overtaken(new, k, s)
               /\ ch.closed => new = ch
               /\ \/ Shrinks(ch, new)
                  \/ /\ ~Overtaken(ch, k, stamp) /\ ~ch.closed
                     /\ dec.allowed /\ t \in asked .. asked + MaxTTL - 1 /\ t < dec.exp
<1> DEFINE new == Observe(ch, k, dec, stamp, asked, t)
           m == [decision |-> dec, asked |-> asked]
           up == Raise(ch, dec.rev)
<1>0. ASSUME NEW n, Shrinks(ch, n) PROVE Learns(ch, n, k, m)
  <2> HIDE DEF m
  <2> QED BY <1>0 DEF Shrinks, Learns
<1>1. Shrinks(ch, ch)
  BY DEF Shrinks, CacheInv, CacheOK
<1>2. /\ Shrinks(ch, up) /\ up.watermark >= dec.rev /\ up.seq = ch.seq
      /\ Len(up.lru) <= MaxEntries /\ CacheInv(up) /\ up.closed = ch.closed
  <2>1. dec.rev \in Nat
    BY DEF Decision
  <2>2. Shrinks(ch, up) /\ up.watermark >= dec.rev /\ up.seq = ch.seq /\ up.lru = ch.lru
    BY <2>1, RaiseLemma
  <2> QED BY <2>2 DEF Shrinks
<1> HIDE DEF up
<1>3. CASE ch.closed
  <2>1. new = ch
    BY <1>3 DEF Observe
  <2> QED BY <1>0, <1>1, <1>3, <2>1
<1>4. CASE ~ch.closed /\ ~(dec.allowed /\ dec.cacheable)
  <2> DEFINE g == Tombstone(up, k)
  <2>1. new = g
    BY <1>4 DEF Observe, up
  <2>2. /\ Shrinks(up, g) /\ Remembered(g, k) = None /\ g.watermark = up.watermark
        /\ Len(g.lru) <= MaxEntries
        /\ \A s \in 0 .. up.seq : Overtaken(g, k, s)
    BY <1>2, TombstoneLemma
  <2> HIDE DEF g, new, m
  <2>3. Shrinks(ch, g)
    BY <1>2, <2>2, ShrinksTrans
  <2>4. Learns(ch, g, k, m)
    BY <1>0, <2>3
  <2>5. g.watermark >= dec.rev /\ \A s \in 0 .. ch.seq : Overtaken(g, k, s)
    BY <1>2, <2>2
  <2>6. /\ Learns(ch, new, k, m) /\ Len(new.lru) <= MaxEntries /\ new.watermark >= dec.rev
        /\ Remembered(new, k) = None /\ Shrinks(ch, new)
        /\ \A s \in 0 .. ch.seq : Overtaken(new, k, s)
    BY <2>1, <2>2, <2>3, <2>4, <2>5
  <2> QED BY <1>4, <2>6 DEF new, m
<1>5. CASE /\ ~ch.closed /\ dec.allowed /\ dec.cacheable
           /\ Overtaken(up, k, stamp) \/ ~Fresh(up, dec, asked, t)
  <2>1. new = up
    BY <1>5 DEF Observe, up
  <2> QED BY <1>0, <1>2, <1>5, <2>1
<1>6. CASE /\ ~ch.closed /\ dec.allowed /\ dec.cacheable
           /\ ~Overtaken(up, k, stamp) /\ Fresh(up, dec, asked, t)
  <2> DEFINE g == Store(up, k, dec, asked)
  <2>1. new = g
    BY <1>6 DEF Observe, up
  <2>2. /\ dec.rev >= up.watermark /\ t \in asked .. asked + MaxTTL - 1 /\ t < dec.exp
    BY <1>6, CacheAssumption DEF Fresh
  <2>3. /\ Learns(up, g, k, m) /\ g.watermark = up.watermark /\ Len(g.lru) <= MaxEntries
    BY <1>2, <1>6, <2>2, StoreLemma
  <2> HIDE DEF g, new, m
  <2>4. Shrinks(g, g)
    BY <2>3 DEF Learns, Shrinks, CacheInv, CacheOK
  <2>5. Learns(ch, g, k, m)
    BY <1>2, <2>3, <2>4, ShrinkLearnShrink
  <2>6. ~Overtaken(ch, k, stamp)
    BY <1>2, <1>6 DEF Shrinks
  <2>7. /\ Learns(ch, new, k, m) /\ Len(new.lru) <= MaxEntries /\ new.watermark >= dec.rev
    BY <1>2, <2>1, <2>3, <2>5
  <2> QED BY <1>6, <2>2, <2>6, <2>7 DEF new, m
<1> QED BY <1>3, <1>4, <1>5, <1>6

\* A flush empties the cache and overtakes every call stamped before it.
LEMMA FlushLemma ==
    ASSUME NEW ch, CacheInv(ch)
    PROVE  LET new == Flush(ch)
           IN  /\ CacheInv(new)
               /\ Len(new.lru) <= MaxEntries
               /\ Live(new) = {}
               /\ new.watermark = ch.watermark /\ new.seq >= ch.seq
               /\ \A k \in Key : \A s \in 0 .. ch.seq : Overtaken(new, k, s)
<1> DEFINE new == Flush(ch)
<1>0. CacheOK(ch) /\ ch.seq \in Nat
  BY DEF CacheInv, CacheOK
<1>1. /\ DOMAIN new = Fields /\ new.entries = [k \in {} |-> NewEntry] /\ new.lru = <<>>
      /\ new.allows = 0 /\ new.seq = ch.seq + 1 /\ new.lastFlush = ch.seq + 1
      /\ new.floor = ch.floor /\ new.watermark = ch.watermark /\ new.closed = ch.closed
  BY <1>0 DEF Flush, Clear, EmptyCache, CacheOK, Fields
<1> HIDE DEF new
<1>2. DOMAIN new.entries = {} /\ Live(new) = {} /\ Len(new.lru) = 0
  BY <1>1 DEF Live
<1>3. CacheOK(new)
  <2>1. new.allows = Cardinality(Live(new))
    BY <1>1, <1>2, FS_EmptySet
  <2> QED BY <1>0, <1>1, <1>2, <2>1 DEF CacheOK
<1>4. StampsOK(new) /\ StoredOK(new)
  BY <1>0, <1>1, <1>2 DEF StampsOK, StoredOK, CacheInv, CacheOK
<1>5. Len(new.lru) <= MaxEntries /\ new.seq >= ch.seq
  BY <1>0, <1>1, <1>2, CacheAssumption
<1>6. \A k \in Key : \A s \in 0 .. ch.seq : Overtaken(new, k, s)
  BY <1>0, <1>1 DEF Overtaken
<1> QED BY <1>1, <1>2, <1>3, <1>4, <1>5, <1>6 DEF new, CacheInv

\* Close empties the cache for good.
LEMMA CloseLemma ==
    ASSUME NEW ch, CacheInv(ch)
    PROVE  LET new == Clear([ch EXCEPT !.closed = TRUE])
           IN  /\ CacheInv(new)
               /\ Len(new.lru) <= MaxEntries
               /\ Live(new) = {} /\ new.closed
               /\ new.watermark = ch.watermark /\ new.seq = ch.seq
<1> DEFINE new == Clear([ch EXCEPT !.closed = TRUE])
<1>0. CacheOK(ch)
  BY DEF CacheInv, CacheOK
<1>1. /\ DOMAIN new = Fields /\ new.entries = [k \in {} |-> NewEntry] /\ new.lru = <<>>
      /\ new.allows = 0 /\ new.seq = ch.seq /\ new.lastFlush = ch.lastFlush
      /\ new.floor = ch.floor /\ new.watermark = ch.watermark /\ new.closed = TRUE
  BY <1>0 DEF Clear, EmptyCache, CacheOK, Fields
<1> HIDE DEF new
<1>2. DOMAIN new.entries = {} /\ Live(new) = {} /\ Len(new.lru) = 0
  BY <1>1 DEF Live
<1>3. CacheOK(new)
  <2>1. new.allows = Cardinality(Live(new))
    BY <1>1, <1>2, FS_EmptySet
  <2>2. new.closed \in BOOLEAN
    BY <1>1, ZenonT(30)
  <2>3. /\ DOMAIN new = Fields /\ DOMAIN new.entries \subseteq Key
        /\ new.entries \in [DOMAIN new.entries -> Entry] /\ new.lru \in Seq(Key)
        /\ new.seq \in Nat /\ new.lastFlush \in Nat /\ new.floor \in Nat
        /\ new.watermark \in Nat
    BY <1>0, <1>1, <1>2 DEF CacheOK
  <2> QED BY <1>2, <2>1, <2>2, <2>3 DEF CacheOK
<1>4. StampsOK(new) /\ StoredOK(new)
  BY <1>0, <1>1, <1>2 DEF StampsOK, StoredOK, CacheInv, CacheOK
<1>5. Len(new.lru) <= MaxEntries
  BY <1>2, CacheAssumption
<1> QED BY <1>1, <1>2, <1>3, <1>4, <1>5, ZenonT(30) DEF new, CacheInv

-----------------------------------------------------------------------------
(* The calls.                                                              *)

\* The locals of a call point into its requests; hits and items to ask are
\* different items, and only an answered item is observed.
CallOK(cl) ==
    /\ cl \in CallType
    /\ Len(cl.out) = Len(cl.reqs)
    /\ \A n \in 1 .. Len(cl.hits) : cl.hits[n] \in 1 .. Len(cl.reqs)
    /\ \A n \in 1 .. Len(cl.todo) : cl.todo[n] \in 1 .. Len(cl.reqs)
    /\ cl.pc = "get" =>
          /\ cl.pos \in 1 .. Len(cl.reqs)
          /\ \A n \in 1 .. Len(cl.hits) : cl.hits[n] < cl.pos
          /\ \A n \in 1 .. Len(cl.todo) : cl.todo[n] < cl.pos
    /\ cl.pc \in {"get", "stamp", "pdp"} /\ ~cl.again =>
          \A n \in 1 .. Len(cl.hits), m \in 1 .. Len(cl.todo) : cl.hits[n] # cl.todo[m]
    /\ cl.pc \in {"stamp", "pdp", "observe"} => cl.todo # <<>>
    /\ cl.pc = "observe" => \A n \in 1 .. Len(cl.todo) : ~cl.out[cl.todo[n]].local

\* A stamp is never ahead of the sequence number it was read from.
StampsTaken ==
    \A c \in Caller : call[c].pc \in {"pdp", "observe"} => call[c].stamp <= cache.seq

\* The inductive invariant.
IInv ==
    /\ CacheInv(cache)
    /\ Len(cache.lru) <= MaxEntries
    /\ call \in [Caller -> CallType]
    /\ \A c \in Caller : CallOK(call[c])
    /\ StampsTaken
    /\ OvertakenCallsAreRefused
    /\ now \in Nat
    /\ mayStore \in [Caller -> SUBSET Key]

-----------------------------------------------------------------------------
(* The locals of one call.                                                 *)

LEMMA NewCalls ==
    /\ CallOK(Idle) /\ Served(Idle) = {}
    /\ \A r \in Requests : CallOK(r) /\ r.pc = "get" /\ Served(r) = {}
<1>1. CallOK(Idle)
  BY DEF CallOK, Idle, CallType
<1>1a. Served(Idle) = {}
  BY DEF Idle, Served
<1>2. ASSUME NEW b \in BOOLEAN, NEW ks \in Seq(Key), ks # <<>>
      PROVE  CallOK(Running(b, ks)) /\ Running(b, ks).pc = "get" /\ Served(Running(b, ks)) = {}
  <2> DEFINE r == Running(b, ks)
             o == [i \in DOMAIN ks |-> NoDecision]
  <2>1. o \in Seq(Decision) /\ Len(o) = Len(ks)
    BY ZeroTypes
  <2> HIDE DEF o
  <2>2. /\ r.pc = "get" /\ r.reqs = ks /\ r.pos = 1 /\ r.out = o
        /\ r.hits = <<>> /\ r.todo = <<>>
    BY DEF Running, Idle, o
  <2>3. r \in CallType
    <3>1. r = [Idle EXCEPT !.pc = "get", !.batch = b, !.reqs = ks, !.pos = 1, !.out = o]
      BY DEF Running, o
    <3>2. Idle \in CallType
      BY <1>1 DEF CallOK
    <3> HIDE DEF r
    <3> QED BY <1>2, <2>1, <3>1, <3>2, ZenonT(30) DEF CallType
  <2> HIDE DEF r
  <2>4. Len(ks) \in Nat /\ Len(ks) > 0
    BY <1>2
  <2>5. CallOK(r) /\ r.pc = "get"
    BY <2>1, <2>2, <2>3, <2>4 DEF CallOK
  <2>6. Served(r) = {}
    BY <2>2 DEF Served
  <2> QED BY <2>5, <2>6 DEF r
<1>3. \A k \in Key : <<k>> \in Seq(Key) /\ <<k>> # <<>>
  OBVIOUS
<1>4. \A r \in Requests : CallOK(r) /\ r.pc = "get" /\ Served(r) = {}
  BY <1>2, <1>3, CacheAssumption, ZenonT(30) DEF Requests
<1> QED BY <1>1, <1>1a, <1>4

LEMMA ReturningLemma ==
    ASSUME NEW cl, CallOK(cl)
    PROVE  /\ CallOK(Returning(cl)) /\ Returning(cl).pc = "return"
           /\ Served(Returning(cl)) = Served(cl)
<1> DEFINE r == Returning(cl)
<1>0. cl \in CallType
  BY DEF CallOK
<1>1. /\ r.pc = "return" /\ r.todo = <<>> /\ r.out = cl.out /\ r.hits = cl.hits
      /\ r.reqs = cl.reqs
  BY <1>0 DEF Returning, CallType
<1>3. r \in CallType
  <2> DEFINE nil == <<>>
  <2>1. nil \in Seq(Nat)
    OBVIOUS
  <2>2. r = [cl EXCEPT !.pc = "return", !.pos = 0, !.todo = nil, !.stamp = 0, !.asked = 0]
    BY DEF Returning
  <2> HIDE DEF nil, r
  <2> QED BY <1>0, <2>1, <2>2, ZenonT(30) DEF CallType
<1> HIDE DEF r
<1>2. CallOK(r)
  BY <1>1, <1>3 DEF CallOK
<1>4. Served(r) = Served(cl)
  BY <1>1 DEF Served
<1> QED BY <1>1, <1>2, <1>4 DEF r

LEMMA GetCallLemma ==
    ASSUME NEW cl, CallOK(cl), cl.pc = "get", NEW d \in Decision
    PROVE  LET hit == [cl EXCEPT !.out[cl.pos] = d, !.hits = Append(@, cl.pos)]
               miss == [cl EXCEPT !.todo = Append(@, cl.pos)]
               Done(read) == IF cl.pos < Len(cl.reqs) THEN [read EXCEPT !.pos = @ + 1]
                             ELSE IF read.todo # <<>> THEN [read EXCEPT !.pc = "stamp"]
                             ELSE IF cl.batch THEN [read EXCEPT !.pc = "check"]
                             ELSE Returning(read)
           IN  \A read \in {hit, miss} : CallOK(Done(read)) /\ Done(read).pc \notin {"pdp", "observe"}
<1> DEFINE hit == [cl EXCEPT !.out[cl.pos] = d, !.hits = Append(@, cl.pos)]
           miss == [cl EXCEPT !.todo = Append(@, cl.pos)]
<1>0. /\ cl \in CallType /\ cl.pos \in Nat /\ cl.pos \in 1 .. Len(cl.reqs) /\ Len(cl.reqs) \in Nat
      /\ cl.out \in Seq(Decision) /\ cl.hits \in Seq(Nat) /\ cl.todo \in Seq(Nat)
      /\ Len(cl.out) = Len(cl.reqs)
  BY DEF CallOK, CallType
<1>1. /\ Append(cl.hits, cl.pos) \in Seq(Nat) /\ Append(cl.todo, cl.pos) \in Seq(Nat)
      /\ Len(Append(cl.hits, cl.pos)) = Len(cl.hits) + 1
      /\ Len(Append(cl.todo, cl.pos)) = Len(cl.todo) + 1
      /\ \A n \in 1 .. Len(cl.hits) + 1 :
            Append(cl.hits, cl.pos)[n] = IF n = Len(cl.hits) + 1 THEN cl.pos ELSE cl.hits[n]
      /\ \A n \in 1 .. Len(cl.todo) + 1 :
            Append(cl.todo, cl.pos)[n] = IF n = Len(cl.todo) + 1 THEN cl.pos ELSE cl.todo[n]
  <2> DEFINE At(s, p) ==
        /\ Append(s, p) \in Seq(Nat) /\ Len(Append(s, p)) = Len(s) + 1
        /\ \A n \in 1 .. Len(s) + 1 : Append(s, p)[n] = IF n = Len(s) + 1 THEN p ELSE s[n]
  <2>1. ASSUME NEW s \in Seq(Nat), NEW p \in Nat PROVE At(s, p)
    BY AppendProperties
  <2>2. At(cl.hits, cl.pos) /\ At(cl.todo, cl.pos)
    <3> HIDE DEF At
    <3> QED BY <1>0, <2>1
  <2> QED BY <2>2
<1>2. [cl.out EXCEPT ![cl.pos] = d] \in Seq(Decision) /\ Len([cl.out EXCEPT ![cl.pos] = d]) = Len(cl.out)
  BY <1>0
\* What holds of the locals once the item at pos was looked up.
<1> DEFINE Read(r) ==
        /\ r \in CallType /\ r.pc = "get" /\ r.pos = cl.pos /\ r.reqs = cl.reqs
        /\ Len(r.out) = Len(cl.reqs)
        /\ \A n \in 1 .. Len(r.hits) : r.hits[n] \in 1 .. cl.pos
        /\ \A n \in 1 .. Len(r.todo) : r.todo[n] \in 1 .. cl.pos
        /\ \A n \in 1 .. Len(r.hits), m \in 1 .. Len(r.todo) : ~r.again => r.hits[n] # r.todo[m]
<1>3. Read(hit)
  <2> DEFINE h == Append(cl.hits, cl.pos)
             o == [cl.out EXCEPT ![cl.pos] = d]
  <2>1. hit = [cl EXCEPT !.out = o, !.hits = h]
    BY <1>0 DEF CallType
  <2>2. h \in Seq(Nat) /\ o \in Seq(Decision)
    BY <1>1, <1>2
  <2> HIDE DEF h, o, hit
  <2>3. hit \in CallType
    BY <1>0, <2>1, <2>2, ZenonT(30) DEF CallType
  <2>4. /\ hit.pc = "get" /\ hit.pos = cl.pos /\ hit.reqs = cl.reqs /\ hit.out = o
        /\ hit.hits = h /\ hit.todo = cl.todo /\ hit.again = cl.again
    BY <1>0, <2>1 DEF CallType
  <2>5. \A n \in 1 .. Len(h) : h[n] \in 1 .. cl.pos
    BY <1>0, <1>1 DEF h, CallOK
  <2>6. \A n \in 1 .. Len(cl.todo) : cl.todo[n] \in 1 .. cl.pos /\ cl.todo[n] # cl.pos
    BY <1>0 DEF CallOK
  <2>7. \A n \in 1 .. Len(h), m \in 1 .. Len(cl.todo) : ~cl.again => h[n] # cl.todo[m]
    BY <1>0, <1>1, <2>6 DEF h, CallOK
  <2>8. Len(o) = Len(cl.reqs)
    BY <1>0, <1>2 DEF o
  <2> QED BY <2>3, <2>4, <2>5, <2>6, <2>7, <2>8
<1>4. Read(miss)
  <2> DEFINE h == Append(cl.todo, cl.pos)
  <2>1. miss = [cl EXCEPT !.todo = h]
    BY <1>0 DEF CallType
  <2>2. h \in Seq(Nat)
    BY <1>1
  <2> HIDE DEF h, miss
  <2>3. miss \in CallType
    BY <1>0, <2>1, <2>2, ZenonT(30) DEF CallType
  <2>4. /\ miss.pc = "get" /\ miss.pos = cl.pos /\ miss.reqs = cl.reqs /\ miss.out = cl.out
        /\ miss.todo = h /\ miss.hits = cl.hits /\ miss.again = cl.again
    BY <1>0, <2>1 DEF CallType
  <2>5. \A n \in 1 .. Len(h) : h[n] \in 1 .. cl.pos
    BY <1>0, <1>1 DEF h, CallOK
  <2>6. \A n \in 1 .. Len(cl.hits) : cl.hits[n] \in 1 .. cl.pos /\ cl.hits[n] # cl.pos
    BY <1>0 DEF CallOK
  <2>7. \A n \in 1 .. Len(cl.hits), m \in 1 .. Len(h) : ~cl.again => cl.hits[n] # h[m]
    BY <1>0, <1>1, <2>6 DEF h, CallOK
  <2> QED BY <1>0, <2>3, <2>4, <2>5, <2>6, <2>7
<1> HIDE DEF hit, miss
<1>5. ASSUME NEW r, Read(r)
      PROVE  /\ cl.pos < Len(cl.reqs) =>
                   CallOK([r EXCEPT !.pos = @ + 1]) /\ [r EXCEPT !.pos = @ + 1].pc = "get"
             /\ r.todo # <<>> =>
                   CallOK([r EXCEPT !.pc = "stamp"]) /\ [r EXCEPT !.pc = "stamp"].pc = "stamp"
             /\ CallOK([r EXCEPT !.pc = "check"]) /\ [r EXCEPT !.pc = "check"].pc = "check"
             /\ CallOK(Returning(r)) /\ Returning(r).pc = "return"
  <2>0. \A p \in 1 .. cl.pos : p \in 1 .. Len(cl.reqs)
    BY <1>0
  <2>1. ASSUME cl.pos < Len(cl.reqs)
        PROVE  CallOK([r EXCEPT !.pos = @ + 1]) /\ [r EXCEPT !.pos = @ + 1].pc = "get"
    <3> DEFINE x == [r EXCEPT !.pos = @ + 1]
    <3>1. /\ x.pc = "get" /\ x.pos = cl.pos + 1 /\ x.reqs = cl.reqs /\ x.out = r.out
          /\ x.hits = r.hits /\ x.todo = r.todo /\ x.again = r.again
      BY <1>5 DEF CallType
    <3>2. x \in CallType
      <4>1. r.pos + 1 \in Nat /\ r \in CallType
        BY <1>0, <1>5
      <4> QED BY <4>1, ZenonT(30) DEF CallType
    <3> HIDE DEF x
    <3>3. \A p \in 1 .. cl.pos : p < x.pos
      BY <1>0, <3>1
    <3>4. CallOK(x)
      BY <1>0, <1>5, <2>0, <2>1, <3>1, <3>2, <3>3 DEF CallOK
    <3> QED BY <3>1, <3>4 DEF x
  <2>2. ASSUME r.todo # <<>>
        PROVE  CallOK([r EXCEPT !.pc = "stamp"]) /\ [r EXCEPT !.pc = "stamp"].pc = "stamp"
    <3> DEFINE x == [r EXCEPT !.pc = "stamp"]
    <3>1. /\ x.pc = "stamp" /\ x.reqs = cl.reqs /\ x.out = r.out
          /\ x.hits = r.hits /\ x.todo = r.todo /\ x.again = r.again
      BY <1>5 DEF CallType
    <3>2. x \in CallType
      BY <1>5, ZenonT(30) DEF CallType
    <3> HIDE DEF x
    <3>4. CallOK(x)
      BY <1>0, <1>5, <2>0, <2>2, <3>1, <3>2 DEF CallOK
    <3> QED BY <3>1, <3>4 DEF x
  <2>3. CallOK([r EXCEPT !.pc = "check"]) /\ [r EXCEPT !.pc = "check"].pc = "check"
    <3> DEFINE x == [r EXCEPT !.pc = "check"]
    <3>1. /\ x.pc = "check" /\ x.reqs = cl.reqs /\ x.out = r.out
          /\ x.hits = r.hits /\ x.todo = r.todo /\ x.again = r.again
      BY <1>5 DEF CallType
    <3>2. x \in CallType
      BY <1>5 DEF CallType
    <3> HIDE DEF x
    <3>4. CallOK(x)
      BY <1>0, <1>5, <2>0, <3>1, <3>2 DEF CallOK
    <3> QED BY <3>1, <3>4 DEF x
  <2>4. CallOK(Returning(r)) /\ Returning(r).pc = "return"
    <3> DEFINE x == Returning(r)
               nil == <<>>
    <3>1. /\ x.pc = "return" /\ x.reqs = cl.reqs /\ x.out = r.out
          /\ x.hits = r.hits /\ x.todo = <<>>
      BY <1>5 DEF CallType, Returning
    <3>2. nil \in Seq(Nat)
      OBVIOUS
    <3>3. x = [r EXCEPT !.pc = "return", !.pos = 0, !.todo = nil, !.stamp = 0, !.asked = 0]
      BY DEF Returning
    <3> HIDE DEF x, nil
    <3>4. x \in CallType
      BY <1>5, <3>2, <3>3, ZenonT(30) DEF CallType
    <3>5. CallOK(x)
      BY <1>0, <1>5, <2>0, <3>1, <3>4 DEF CallOK
    <3> QED BY <3>1, <3>5 DEF x
  <2> QED BY <2>1, <2>2, <2>3, <2>4
<1> HIDE DEF Read
<1> QED BY <1>3, <1>4, <1>5, ZenonT(30) DEF hit, miss

-----------------------------------------------------------------------------
(* The inductive invariant.                                                *)

LEMMA InitInv == Init => IInv
<1> SUFFICES ASSUME Init PROVE IInv
  OBVIOUS
<1> USE DEF Init
<1>1. /\ cache.entries = [k \in {} |-> NewEntry] /\ cache.lru = <<>> /\ cache.allows = 0
      /\ cache.seq = 0 /\ cache.lastFlush = 0 /\ cache.floor = 0 /\ cache.watermark = 0
      /\ cache.closed = FALSE
  BY DEF EmptyCache
<1>2. DOMAIN cache = Fields
  BY DEF EmptyCache, Fields
<1>3. DOMAIN cache.entries = {} /\ Live(cache) = {} /\ Len(cache.lru) = 0
  BY <1>1 DEF Live
<1>4. CacheOK(cache)
  <2>1. cache.allows = Cardinality(Live(cache))
    BY <1>1, <1>3, FS_EmptySet
  <2>2. /\ DOMAIN cache.entries \subseteq Key
        /\ cache.entries \in [DOMAIN cache.entries -> Entry] /\ cache.lru \in Seq(Key)
    BY ONLY <1>1, <1>3
  <2>3. /\ cache.seq \in Nat /\ cache.lastFlush \in Nat /\ cache.floor \in Nat
        /\ cache.watermark \in Nat
    BY ONLY <1>1
  <2>4. cache.closed \in BOOLEAN
    BY ONLY <1>1, ZenonT(30)
  <2> QED BY ONLY <1>2, <1>3, <2>1, <2>2, <2>3, <2>4 DEF CacheOK
<1>5. StampsOK(cache) /\ StoredOK(cache)
  BY <1>1, <1>3 DEF StampsOK, StoredOK
<1>6. Len(cache.lru) <= MaxEntries
  BY <1>3, CacheAssumption
<1>7. \A c \in Caller : CallOK(call[c]) /\ call[c] = Idle /\ call[c].pc = "idle"
  BY NewCalls DEF Idle
<1>8. call \in [Caller -> CallType] /\ StampsTaken /\ OvertakenCallsAreRefused
  BY <1>7 DEF StampsTaken, OvertakenCallsAreRefused, CallOK
<1>9. now \in Nat /\ mayStore \in [Caller -> SUBSET Key]
  OBVIOUS
<1> QED BY <1>4, <1>5, <1>6, <1>7, <1>8, <1>9 DEF IInv, CacheInv

\* The fields of a call, and the keys of the items it asks about.
LEMMA CallFields ==
    ASSUME NEW cl, CallOK(cl)
    PROVE  /\ cl \in CallType
           /\ cl.reqs \in Seq(Key) /\ cl.out \in Seq(Decision)
           /\ cl.hits \in Seq(Nat) /\ cl.todo \in Seq(Nat)
           /\ cl.stamp \in Nat /\ cl.asked \in Nat
           /\ cl.batch \in BOOLEAN /\ cl.again \in BOOLEAN
           /\ DOMAIN cl.todo = 1 .. Len(cl.todo) /\ DOMAIN cl.hits = 1 .. Len(cl.hits)
           /\ DOMAIN cl.reqs = 1 .. Len(cl.reqs) /\ DOMAIN cl.out = 1 .. Len(cl.reqs)
           /\ \A n \in 1 .. Len(cl.todo) : cl.reqs[cl.todo[n]] \in Key
           /\ \A n \in 1 .. Len(cl.hits) : cl.reqs[cl.hits[n]] \in Key
<1>1. cl \in CallType
  BY DEF CallOK
<1>2. /\ cl.reqs \in Seq(Key) /\ cl.out \in Seq(Decision)
      /\ cl.hits \in Seq(Nat) /\ cl.todo \in Seq(Nat)
      /\ cl.stamp \in Nat /\ cl.asked \in Nat
  BY <1>1 DEF CallType
<1>3. cl.batch \in BOOLEAN /\ cl.again \in BOOLEAN
  BY <1>1 DEF CallType
<1>4. /\ DOMAIN cl.todo = 1 .. Len(cl.todo) /\ DOMAIN cl.hits = 1 .. Len(cl.hits)
      /\ DOMAIN cl.reqs = 1 .. Len(cl.reqs) /\ DOMAIN cl.out = 1 .. Len(cl.reqs)
  BY <1>2 DEF CallOK
<1>5. \A n \in 1 .. Len(cl.todo) : cl.reqs[cl.todo[n]] \in Key
  <2>1. \A n \in 1 .. Len(cl.todo) : cl.todo[n] \in 1 .. Len(cl.reqs)
    BY DEF CallOK
  <2> QED BY <1>2, <2>1
<1>6. \A n \in 1 .. Len(cl.hits) : cl.reqs[cl.hits[n]] \in Key
  <2>1. \A n \in 1 .. Len(cl.hits) : cl.hits[n] \in 1 .. Len(cl.reqs)
    BY DEF CallOK
  <2> QED BY <1>2, <2>1
<1> QED BY <1>1, <1>2, <1>3, <1>4, <1>5, <1>6

\* What a step of call c owes the invariant: calls in flight that lose the
\* right to store a key must find it overtaken.
LEMMA StepRule ==
    ASSUME IInv, NEW c \in Caller, NEW r, CallOK(r),
           call' = [call EXCEPT ![c] = r],
           CacheInv(cache'), Len(cache'.lru) <= MaxEntries,
           cache'.seq >= cache.seq, cache'.closed = cache.closed,
           \A k \in Key, s \in Nat : Overtaken(cache, k, s) => Overtaken(cache', k, s),
           now' = now,
           mayStore' \in [Caller -> SUBSET Key],
           \A b \in Caller : b # c => \A k \in mayStore[b] :
              k \in mayStore'[b] \/ \A s \in 0 .. cache.seq : Overtaken(cache', k, s),
           r.pc \in {"pdp", "observe"} =>
              /\ r.stamp <= cache'.seq
              /\ \A n \in 1 .. Len(r.todo) : r.reqs[r.todo[n]] \notin mayStore'[c] =>
                    cache'.closed \/ Overtaken(cache', r.reqs[r.todo[n]], r.stamp)
    PROVE  IInv'
<1>1. r \in CallType
  BY DEF CallOK
<1>2. /\ call' \in [Caller -> CallType] /\ call'[c] = r
      /\ \A b \in Caller : CallOK(call'[b])
      /\ \A b \in Caller : b # c => call'[b] = call[b]
  BY <1>1 DEF IInv
<1>3. cache.seq \in Nat /\ cache'.seq \in Nat
  BY DEF IInv, CacheInv, CacheOK
<1>4. ASSUME NEW b \in Caller, call'[b].pc \in {"pdp", "observe"}
      PROVE  /\ call'[b].stamp <= cache'.seq
             /\ b # c => call[b].stamp \in 0 .. cache.seq
  <2>1. CASE b = c
    BY <1>2, <1>4, <2>1
  <2>2. CASE b # c
    <3>1. call[b].stamp <= cache.seq /\ call[b].stamp \in Nat
      BY <1>2, <1>4, <2>2, SMTT(60) DEF IInv, StampsTaken, CallType
    <3> QED BY <1>2, <1>3, <2>2, <3>1
  <2> QED BY <2>1, <2>2
<1>5. ASSUME NEW b \in Caller, call'[b].pc \in {"pdp", "observe"},
             NEW n \in DOMAIN call'[b].todo,
             call'[b].reqs[call'[b].todo[n]] \notin mayStore'[b]
      PROVE  cache'.closed \/ Overtaken(cache', call'[b].reqs[call'[b].todo[n]], call'[b].stamp)
  <2>0. n \in 1 .. Len(call'[b].todo)
    BY <1>2, <1>5, CallFields
  <2>1. CASE b = c
    BY <1>2, <1>5, <2>0, <2>1
  <2>2. CASE b # c
    <3> DEFINE k == call[b].reqs[call[b].todo[n]]
    <3>1. /\ call'[b] = call[b] /\ k \in Key /\ call[b].stamp \in Nat
          /\ n \in DOMAIN call[b].todo
      BY <1>2, <1>5, <2>0, <2>2, CallFields
    <3>2. call[b].stamp \in 0 .. cache.seq
      BY <1>4, <1>5, <2>2
    <3>3. CASE k \in mayStore[b]
      BY <1>5, <2>2, <3>1, <3>2, <3>3
    <3>4. CASE k \notin mayStore[b]
      <4>1. cache.closed \/ Overtaken(cache, k, call[b].stamp)
        BY <1>5, <3>1, <3>4 DEF IInv, OvertakenCallsAreRefused
      <4> HIDE DEF k
      <4>2. cache'.closed \/ Overtaken(cache', k, call[b].stamp)
        BY <3>1, <4>1
      <4> QED BY <3>1, <4>2 DEF k
    <3> QED BY <3>3, <3>4
  <2> QED BY <2>1, <2>2
<1>6. now' \in Nat
  BY DEF IInv
<1>7. StampsTaken' /\ OvertakenCallsAreRefused'
  BY <1>4, <1>5 DEF StampsTaken, OvertakenCallsAreRefused
<1> QED BY <1>2, <1>6, <1>7 DEF IInv

\* Steps after which the acting call is not waiting for the PDP.
LEMMA QuietStep ==
    ASSUME IInv, NEW c \in Caller, NEW r, CallOK(r), r.pc \notin {"pdp", "observe"},
           call' = [call EXCEPT ![c] = r],
           CacheInv(cache'), Len(cache'.lru) <= MaxEntries,
           cache'.seq >= cache.seq, cache'.closed = cache.closed,
           \A k \in Key, s \in Nat : Overtaken(cache, k, s) => Overtaken(cache', k, s),
           now' = now,
           mayStore' \in {mayStore, [mayStore EXCEPT ![c] = {}]}
    PROVE  IInv'
<1>1. mayStore' \in [Caller -> SUBSET Key]
  BY DEF IInv
<1>2. \A b \in Caller : b # c => mayStore'[b] = mayStore[b]
  BY DEF IInv
<1> QED BY <1>1, <1>2, StepRule, ZenonT(30)

\* A cache that is left alone, for the steps that touch only calls.
LEMMA SameCache ==
    ASSUME IInv
    PROVE  /\ CacheInv(cache) /\ Len(cache.lru) <= MaxEntries /\ cache.seq >= cache.seq
           /\ cache.seq \in Nat
BY DEF IInv, CacheInv, CacheOK

LEMMA BeginInv ==
    ASSUME IInv, NEW c \in Caller, Begin(c)
    PROVE  IInv'
<1>1. PICK r \in Requests :
          \/ call' = [call EXCEPT ![c] = r]
          \/ call' = [call EXCEPT ![c] = Returning(r)]
  BY DEF Begin
<1>2. CallOK(r) /\ r.pc = "get" /\ CallOK(Returning(r)) /\ Returning(r).pc = "return"
  BY NewCalls, ReturningLemma
<1>3. cache' = cache /\ now' = now /\ mayStore' = mayStore
  BY DEF Begin
<1>4. PICK x : call' = [call EXCEPT ![c] = x] /\ CallOK(x) /\ x.pc \in {"get", "return"}
  BY <1>1, <1>2
<1> QED BY <1>3, <1>4, SameCache, QuietStep, ZenonT(30)

LEMMA GetStepInv ==
    ASSUME IInv, NEW c \in Caller, GetStep(c)
    PROVE  IInv'
<1> DEFINE cl == call[c]
           k == cl.reqs[cl.pos]
           d == IF Hit(cache, k, now) THEN cache.entries[k].decision ELSE NoDecision
<1>1. CallOK(cl) /\ cl.pc = "get" /\ CacheInv(cache) /\ Len(cache.lru) <= MaxEntries
  BY DEF IInv, GetStep
<1>2. k \in Key
  <2>1. cl.reqs \in Seq(Key) /\ cl.pos \in 1 .. Len(cl.reqs)
    BY <1>1 DEF CallOK, CallType
  <2> QED BY <2>1
<1>3. d \in Decision
  <2>1. CASE Hit(cache, k, now)
    <3>1. k \in DOMAIN cache.entries
      BY <2>1, ZenonT(30) DEF Hit, Live
    <3>2. cache.entries[k] \in Entry
      BY <1>1, <3>1 DEF CacheInv, CacheOK
    <3> QED BY <2>1, <3>2 DEF Entry
  <2>2. CASE ~Hit(cache, k, now)
    BY <2>2, ZeroTypes
  <2> QED BY <2>1, <2>2
<1>4. /\ CacheInv(cache') /\ Len(cache'.lru) <= MaxEntries
      /\ cache'.seq >= cache.seq /\ cache'.closed = cache.closed
      /\ \A j \in Key, s \in Nat : Overtaken(cache, j, s) => Overtaken(cache', j, s)
  <2>1. cache' = Get(cache, k, now)
    BY ZenonT(30) DEF GetStep
  <2> QED BY <1>1, <1>2, <2>1, GetLemma DEF Shrinks
<1>5. PICK r : CallOK(r) /\ r.pc \notin {"pdp", "observe"} /\ call' = [call EXCEPT ![c] = r]
  <2> DEFINE hit == [cl EXCEPT !.out[cl.pos] = d, !.hits = Append(@, cl.pos)]
             miss == [cl EXCEPT !.todo = Append(@, cl.pos)]
             Done(read) == IF cl.pos < Len(cl.reqs) THEN [read EXCEPT !.pos = @ + 1]
                           ELSE IF read.todo # <<>> THEN [read EXCEPT !.pc = "stamp"]
                           ELSE IF cl.batch THEN [read EXCEPT !.pc = "check"]
                           ELSE Returning(read)
  <2>1. \A read \in {hit, miss} : CallOK(Done(read)) /\ Done(read).pc \notin {"pdp", "observe"}
    <3> HIDE DEF cl, d
    <3> QED BY <1>1, <1>3, GetCallLemma, ZenonT(30)
  <2>2. call' = [call EXCEPT ![c] = Done(hit)] \/ call' = [call EXCEPT ![c] = Done(miss)]
    <3>1. CASE Hit(cache, k, now)
      BY <3>1 DEF GetStep
    <3>2. CASE ~Hit(cache, k, now)
      BY <3>2 DEF GetStep
    <3> QED BY <3>1, <3>2, ZenonT(30)
  <2> HIDE DEF Done, hit, miss
  <2> QED BY <2>1, <2>2
<1>6. now' = now /\ mayStore' = mayStore
  BY ZenonT(30) DEF GetStep
<1> QED BY <1>4, <1>5, <1>6, QuietStep, ZenonT(30)

LEMMA FailStepInv ==
    ASSUME IInv, NEW c \in Caller, FailStep(c)
    PROVE  IInv'
<1> DEFINE cl == call[c]
           o == [i \in DOMAIN cl.reqs |-> NoDecision]
           nil == <<>>
           x == [cl EXCEPT !.out = o, !.hits = nil]
<1>1. CallOK(cl) /\ cl.pc = "pdp"
  BY DEF IInv, FailStep
<1> HIDE DEF cl
<1>2. o \in Seq(Decision) /\ Len(o) = Len(cl.reqs) /\ nil \in Seq(Nat) /\ Len(nil) = 0
  <2>1. cl.reqs \in Seq(Key)
    BY <1>1, CallFields
  <2> QED BY <2>1, ZeroTypes
<1> HIDE DEF o, nil
<1>3. /\ x \in CallType /\ x.pc = "pdp" /\ x.out = o /\ x.hits = nil /\ x.todo = cl.todo
      /\ x.reqs = cl.reqs
  <2>1. cl \in CallType
    BY <1>1 DEF CallOK
  <2> QED BY <1>1, <1>2, <2>1, ZenonT(30) DEF CallType
<1> HIDE DEF x
<1>4. CallOK(x)
  BY <1>1, <1>2, <1>3 DEF CallOK
<1>5. CallOK(Returning(x)) /\ Returning(x).pc = "return"
  BY <1>4, ReturningLemma
<1>6. /\ call' = [call EXCEPT ![c] = Returning(x)]
      /\ cache' = cache /\ now' = now /\ mayStore' = [mayStore EXCEPT ![c] = {}]
  BY DEF FailStep, x, cl, o, nil
<1> QED BY <1>5, <1>6, SameCache, QuietStep, ZenonT(30)

LEMMA CheckStepInv ==
    ASSUME IInv, NEW c \in Caller, CheckStep(c)
    PROVE  IInv'
<1> DEFINE cl == call[c]
           hits == cl.hits
           again == [cl EXCEPT !.pc = "stamp", !.todo = hits, !.again = TRUE]
           below == \E n \in DOMAIN cl.hits : cl.out[cl.hits[n]].rev < cache.watermark
<1>1. CallOK(cl) /\ cl.pc = "check"
  BY DEF IInv, CheckStep
<1>2. cache' = cache /\ now' = now /\ mayStore' = mayStore
  BY DEF CheckStep
<1>3. CASE ~below
  <2>1. call' = [call EXCEPT ![c] = Returning(cl)]
    BY <1>3 DEF CheckStep
  <2>2. CallOK(Returning(cl)) /\ Returning(cl).pc = "return"
    BY <1>1, ReturningLemma
  <2> QED BY <1>2, <2>1, <2>2, SameCache, QuietStep, ZenonT(30)
<1>4. CASE below
  <2>1. call' = [call EXCEPT ![c] = again]
    BY <1>4, ZenonT(30) DEF CheckStep
  <2>2. hits \in Seq(Nat) /\ hits # <<>> /\ cl \in CallType
    BY <1>1, <1>4, CallFields
  <2> HIDE DEF cl, hits
  <2>3. /\ again \in CallType /\ again.pc = "stamp" /\ again.todo = hits
        /\ again.out = cl.out /\ again.hits = cl.hits /\ again.reqs = cl.reqs
    BY <2>2, ZenonT(30) DEF CallType
  <2>4. again.again = TRUE
    BY <2>2 DEF CallType
  <2> HIDE DEF again
  <2>5. CallOK(again)
    BY <1>1, <2>2, <2>3, <2>4 DEF CallOK, hits
  <2> QED BY <1>2, <2>1, <2>3, <2>5, SameCache, QuietStep, ZenonT(30)
<1> QED BY <1>3, <1>4

LEMMA ReturnInv ==
    ASSUME IInv, NEW c \in Caller, Return(c)
    PROVE  IInv'
<1>1. call' = [call EXCEPT ![c] = Idle] /\ cache' = cache /\ now' = now /\ mayStore' = mayStore
  BY DEF Return
<1>2. CallOK(Idle) /\ Idle.pc = "idle"
  BY NewCalls DEF Idle
<1> QED BY <1>1, <1>2, SameCache, QuietStep, ZenonT(30)

LEMMA StampStepInv ==
    ASSUME IInv, NEW c \in Caller, StampStep(c)
    PROVE  IInv'
<1> DEFINE cl == call[c]
           r == [cl EXCEPT !.pc = "pdp", !.stamp = cache.seq, !.asked = now]
           keys == {cl.reqs[cl.todo[n]] : n \in DOMAIN cl.todo}
<1>1. CallOK(cl) /\ cl.pc = "stamp" /\ now \in Nat /\ cache.seq \in Nat
  BY SameCache DEF IInv, StampStep
<1>2. /\ call' = [call EXCEPT ![c] = r] /\ cache' = cache /\ now' = now
      /\ mayStore' = [mayStore EXCEPT ![c] = IF cache.closed THEN {} ELSE keys]
  BY DEF StampStep
<1>3. keys \subseteq Key /\ \A n \in 1 .. Len(cl.todo) : cl.reqs[cl.todo[n]] \in keys
  <2>1. DOMAIN cl.todo = 1 .. Len(cl.todo) /\ \A n \in 1 .. Len(cl.todo) : cl.reqs[cl.todo[n]] \in Key
    BY <1>1, CallFields, ZenonT(30)
  <2> HIDE DEF cl
  <2> QED BY <2>1
<1> HIDE DEF keys
<1>4. /\ mayStore' \in [Caller -> SUBSET Key]
      /\ mayStore'[c] = (IF cache.closed THEN {} ELSE keys)
      /\ \A b \in Caller : b # c => mayStore'[b] = mayStore[b]
  BY <1>2, <1>3 DEF IInv
<1>5. cl \in CallType
  BY <1>1 DEF CallOK
<1> HIDE DEF cl
<1>6. /\ r \in CallType /\ r.pc = "pdp" /\ r.stamp = cache.seq
      /\ r.todo = cl.todo /\ r.out = cl.out /\ r.hits = cl.hits /\ r.reqs = cl.reqs
      /\ r.again = cl.again
  BY <1>1, <1>5, ZenonT(30) DEF CallType
<1> HIDE DEF r
<1>7. CallOK(r)
  BY <1>1, <1>6 DEF CallOK
<1>8. /\ r.stamp <= cache.seq
      /\ \A n \in 1 .. Len(r.todo) : r.reqs[r.todo[n]] \notin mayStore'[c] => cache.closed
  BY <1>1, <1>3, <1>4, <1>6
<1> QED BY <1>2, <1>4, <1>7, <1>8, SameCache, StepRule, ZenonT(30)

LEMMA AnswerStepInv ==
    ASSUME IInv, NEW c \in Caller, AnswerStep(c)
    PROVE  IInv'
<1> DEFINE cl == call[c]
           asked == {cl.todo[n] : n \in DOMAIN cl.todo}
<1>1. /\ CallOK(cl) /\ cl.pc = "pdp" /\ now \in Nat
      /\ cache' = cache /\ now' = now /\ mayStore' = mayStore
  BY DEF IInv, AnswerStep
<1>2. PICK got \in [asked -> Verdict(now)] :
          call' = [call EXCEPT ![c] =
              [cl EXCEPT !.pc = "observe",
                         !.hits = IF cl.again THEN <<>> ELSE @,
                         !.out = [i \in DOMAIN cl.reqs |->
                                     IF i \in asked THEN got[i] ELSE cl.out[i]]]]
  BY ZenonT(30) DEF AnswerStep
<1> DEFINE o == [i \in DOMAIN cl.reqs |-> IF i \in asked THEN got[i] ELSE cl.out[i]]
           h == IF cl.again THEN <<>> ELSE cl.hits
           r == [cl EXCEPT !.pc = "observe", !.hits = h, !.out = o]
<1>3. \A v \in Verdict(now) : v \in Decision /\ v.local = FALSE
  <2>1. ASSUME NEW a \in BOOLEAN, NEW rev \in Revision, NEW l \in Lifetime
        PROVE  LET v == [local |-> FALSE, allowed |-> a, cacheable |-> l > 0, rev |-> rev,
                         exp |-> now + l]
               IN  v \in Decision /\ v.local = FALSE
    <3>1. now + l \in Int /\ rev \in Nat
      BY <1>1, CacheAssumption
    <3>2. (l > 0) \in BOOLEAN
      OBVIOUS
    <3> QED BY <3>1, <3>2 DEF Decision
  <2> QED BY <2>1 DEF Verdict
<1>4. /\ cl \in CallType /\ DOMAIN cl.reqs = 1 .. Len(cl.reqs) /\ Len(cl.reqs) \in Nat
      /\ cl.out \in Seq(Decision) /\ DOMAIN cl.out = 1 .. Len(cl.reqs)
      /\ cl.hits \in Seq(Nat) /\ cl.todo \in Seq(Nat) /\ DOMAIN cl.todo = 1 .. Len(cl.todo)
  BY <1>1, CallFields
<1>5. o \in Seq(Decision) /\ Len(o) = Len(cl.reqs)
  <2>1. o \in [1 .. Len(cl.reqs) -> Decision]
    BY <1>2, <1>3, <1>4
  <2>2. Len(cl.reqs) \in Nat
    BY <1>4
  <2> HIDE DEF o, cl
  <2> QED BY <2>1, <2>2, SeqOfFunction
<1>6. \A n \in 1 .. Len(cl.todo) : ~o[cl.todo[n]].local
  <2>1. ASSUME NEW n \in 1 .. Len(cl.todo) PROVE ~o[cl.todo[n]].local
    <3>1. cl.todo[n] \in asked /\ cl.todo[n] \in DOMAIN cl.reqs
      BY <1>1, <1>4, ZenonT(30) DEF CallOK
    <3>2. o[cl.todo[n]] = got[cl.todo[n]]
      BY <3>1
    <3> QED BY <1>3, <3>1, <3>2
  <2> QED BY <2>1
<1>7. h \in Seq(Nat) /\ \A n \in 1 .. Len(h) : h[n] \in 1 .. Len(cl.reqs)
  <2>1. CASE cl.again
    BY <2>1
  <2>2. CASE ~cl.again
    BY <1>1, <1>4, <2>2, ZenonT(30) DEF CallOK
  <2> QED BY <2>1, <2>2
<1>8. call' = [call EXCEPT ![c] = r]
  BY <1>2
<1> HIDE DEF cl, o, h
<1>9. /\ r \in CallType /\ r.pc = "observe" /\ r.stamp = cl.stamp
      /\ r.todo = cl.todo /\ r.out = o /\ r.hits = h /\ r.reqs = cl.reqs
  BY <1>4, <1>5, <1>7, ZenonT(30) DEF CallType
<1> HIDE DEF r
<1>10. CallOK(r)
  BY <1>1, <1>5, <1>6, <1>7, <1>9 DEF CallOK
<1>11. /\ r.stamp <= cache.seq
       /\ \A n \in 1 .. Len(r.todo) : r.reqs[r.todo[n]] \notin mayStore[c] =>
             cache.closed \/ Overtaken(cache, r.reqs[r.todo[n]], r.stamp)
  BY <1>1, <1>4, <1>9 DEF IInv, StampsTaken, OvertakenCallsAreRefused, cl
<1>12. mayStore \in [Caller -> SUBSET Key]
  BY DEF IInv
<1> QED BY <1>1, <1>8, <1>10, <1>11, <1>12, SameCache, StepRule, ZenonT(30)

\* The locals of a call after one more item was observed.
LEMMA ObserveCallLemma ==
    ASSUME NEW cl, CallOK(cl), cl.pc = "observe"
    PROVE  LET left == Tail(cl.todo)
               r == IF left # <<>> THEN [cl EXCEPT !.todo = left]
                    ELSE IF cl.batch /\ ~cl.again THEN [cl EXCEPT !.pc = "check", !.todo = left]
                    ELSE Returning(cl)
           IN  /\ CallOK(r)
               /\ r.pc \in {"pdp", "observe"} =>
                     left # <<>> /\ r.stamp = cl.stamp /\ r.reqs = cl.reqs /\ r.todo = left
               /\ Served(r) = Served(cl)
               /\ left \in Seq(Nat) /\ Len(cl.todo) \in Nat /\ Len(cl.todo) >= 1
               /\ Len(left) = Len(cl.todo) - 1
               /\ \A n \in 1 .. Len(left) : left[n] = cl.todo[n + 1]
               /\ Head(cl.todo) = cl.todo[1]
<1> DEFINE left == Tail(cl.todo)
<1>1. cl.todo \in Seq(Nat) /\ cl.todo # <<>> /\ cl \in CallType
  BY CallFields DEF CallOK
<1>2. /\ left \in Seq(Nat) /\ Len(cl.todo) \in Nat /\ Len(cl.todo) >= 1
      /\ Len(left) = Len(cl.todo) - 1
      /\ \A n \in 1 .. Len(left) : left[n] = cl.todo[n + 1]
      /\ Head(cl.todo) = cl.todo[1]
  BY <1>1
<1>3. \A n \in 1 .. Len(left) : n + 1 \in 1 .. Len(cl.todo)
  BY <1>2
<1> HIDE DEF left
<1>4. CASE left # <<>>
  <2> DEFINE r == [cl EXCEPT !.todo = left]
  <2>1. /\ r \in CallType /\ r.pc = "observe" /\ r.stamp = cl.stamp /\ r.todo = left
        /\ r.out = cl.out /\ r.hits = cl.hits /\ r.reqs = cl.reqs
    BY <1>1, <1>2, ZenonT(30) DEF CallType
  <2> HIDE DEF r
  <2>2. CallOK(r)
    BY <1>2, <1>3, <1>4, <2>1, ZenonT(30) DEF CallOK
  <2>3. Served(r) = Served(cl)
    BY <2>1 DEF Served
  <2> QED BY <1>2, <1>4, <2>1, <2>2, <2>3 DEF r, left
<1>5. CASE left = <<>> /\ cl.batch /\ ~cl.again
  <2> DEFINE r == [cl EXCEPT !.pc = "check", !.todo = left]
  <2>1. /\ r \in CallType /\ r.pc = "check" /\ r.todo = left
        /\ r.out = cl.out /\ r.hits = cl.hits /\ r.reqs = cl.reqs
    BY <1>1, <1>2, ZenonT(30) DEF CallType
  <2> HIDE DEF r
  <2>2. CallOK(r)
    BY <1>2, <1>3, <2>1, ZenonT(30) DEF CallOK
  <2>3. Served(r) = Served(cl)
    BY <2>1 DEF Served
  <2> QED BY <1>2, <1>5, <2>1, <2>2, <2>3 DEF r, left
<1>6. CASE left = <<>> /\ ~(cl.batch /\ ~cl.again)
  <2> DEFINE r == Returning(cl)
  <2>1. CallOK(r) /\ r.pc = "return"
    BY ReturningLemma
  <2>2. r.out = cl.out /\ r.hits = cl.hits /\ r.reqs = cl.reqs
    BY <1>1 DEF CallType, Returning
  <2> HIDE DEF r
  <2>3. Served(r) = Served(cl)
    BY <2>2 DEF Served
  <2> QED BY <1>2, <1>6, <2>1, <2>3 DEF r, left
<1> QED BY <1>4, <1>5, <1>6, ZenonT(30)

\* What the state gives observe, and what observe does to it.
LEMMA ObserveStepFacts ==
    ASSUME IInv, NEW c \in Caller, ObserveStep(c)
    PROVE  LET cl == call[c]
               k == cl.reqs[Head(cl.todo)]
               d == cl.out[Head(cl.todo)]
           IN  /\ k \in Key /\ d \in Decision /\ ~d.local
               /\ cl.stamp \in 0 .. cache.seq /\ cl.asked \in Nat
               /\ k \notin mayStore[c] => cache.closed \/ Overtaken(cache, k, cl.stamp)
               /\ cache' = Observe(cache, k, d, cl.stamp, cl.asked, now)
               /\ CacheInv(cache) /\ Len(cache.lru) <= MaxEntries /\ now \in Nat
<1> DEFINE cl == call[c]
           i == Head(cl.todo)
           k == cl.reqs[i]
           d == cl.out[i]
<1>1. CallOK(cl) /\ cl.pc = "observe"
  BY DEF IInv, ObserveStep
<1>2. Head(cl.todo) = cl.todo[1] /\ 1 \in 1 .. Len(cl.todo)
  <2>1. cl.todo \in Seq(Nat) /\ cl.todo # <<>>
    BY <1>1, CallFields DEF CallOK
  <2> QED BY <2>1
<1>3. /\ i \in 1 .. Len(cl.reqs) /\ cl.reqs \in Seq(Key) /\ cl.out \in Seq(Decision)
      /\ DOMAIN cl.out = 1 .. Len(cl.reqs) /\ Len(cl.out) = Len(cl.reqs)
      /\ cl.stamp \in Nat /\ cl.asked \in Nat /\ 1 \in DOMAIN cl.todo
  <2>1. cl.todo[1] \in 1 .. Len(cl.reqs) /\ Len(cl.out) = Len(cl.reqs)
    BY <1>1, <1>2 DEF CallOK
  <2>2. /\ cl.reqs \in Seq(Key) /\ cl.out \in Seq(Decision)
        /\ DOMAIN cl.out = 1 .. Len(cl.reqs)
        /\ cl.stamp \in Nat /\ cl.asked \in Nat /\ DOMAIN cl.todo = 1 .. Len(cl.todo)
    BY <1>1, CallFields
  <2> QED BY <1>2, <2>1, <2>2
<1>4. k \in Key /\ d \in Decision /\ ~d.local
  <2>1. ~d.local
    BY <1>1, <1>2 DEF CallOK
  <2> HIDE DEF cl, i
  <2> QED BY <1>3, <2>1
<1>5. cl.stamp \in 0 .. cache.seq
  <2>1. cl.stamp <= cache.seq
    BY <1>1 DEF IInv, StampsTaken
  <2> QED BY <1>3, <2>1, SameCache
<1>6. k \notin mayStore[c] => cache.closed \/ Overtaken(cache, k, cl.stamp)
  BY <1>1, <1>2, <1>3 DEF IInv, OvertakenCallsAreRefused
<1>7. cache' = Observe(cache, k, d, cl.stamp, cl.asked, now)
  BY DEF ObserveStep
<1>8. CacheInv(cache) /\ Len(cache.lru) <= MaxEntries /\ now \in Nat
  BY DEF IInv
<1> QED BY <1>3, <1>4, <1>5, <1>6, <1>7, <1>8, ZenonT(30)

LEMMA ObserveStepInv ==
    ASSUME IInv, NEW c \in Caller, ObserveStep(c)
    PROVE  IInv'
<1> DEFINE cl == call[c]
           k == cl.reqs[Head(cl.todo)]
           d == cl.out[Head(cl.todo)]
           left == Tail(cl.todo)
           denies == ~(d.allowed /\ d.cacheable) /\ ~cache.closed
           m == [decision |-> d, asked |-> cl.asked]
           r == IF left # <<>> THEN [cl EXCEPT !.todo = left]
                ELSE IF cl.batch /\ ~cl.again THEN [cl EXCEPT !.pc = "check", !.todo = left]
                ELSE Returning(cl)
<1>1. CallOK(cl) /\ cl.pc = "observe" /\ mayStore \in [Caller -> SUBSET Key]
  BY DEF IInv, ObserveStep
<1>2. /\ call' = [call EXCEPT ![c] = r] /\ now' = now
      /\ mayStore' = [b \in Caller |->
              IF b = c /\ left = <<>> THEN {}
              ELSE IF denies THEN mayStore[b] \ {k} ELSE mayStore[b]]
  BY DEF ObserveStep
<1>3. /\ k \in Key /\ d \in Decision /\ ~d.local
      /\ cl.stamp \in 0 .. cache.seq /\ cl.asked \in Nat
      /\ cache' = Observe(cache, k, d, cl.stamp, cl.asked, now)
      /\ CacheInv(cache) /\ Len(cache.lru) <= MaxEntries /\ now \in Nat
      /\ cl.stamp \in Nat /\ cache.seq \in Nat
  BY ObserveStepFacts, SameCache
<1>4. /\ CallOK(r)
      /\ r.pc \in {"pdp", "observe"} =>
            left # <<>> /\ r.stamp = cl.stamp /\ r.reqs = cl.reqs /\ r.todo = left
      /\ Len(cl.todo) \in Nat /\ Len(left) = Len(cl.todo) - 1
      /\ \A n \in 1 .. Len(left) : left[n] = cl.todo[n + 1]
  BY <1>1, ObserveCallLemma, ZenonT(30)
<1>5. /\ Learns(cache, cache', k, m) /\ Len(cache'.lru) <= MaxEntries
      /\ denies => \A s \in 0 .. cache.seq : Overtaken(cache', k, s)
  <2> HIDE DEF cl, k, d
  <2> QED BY <1>3, ObserveLemma
<1> HIDE DEF r, m, left, d, denies
<1>6. /\ CacheInv(cache') /\ cache'.seq >= cache.seq /\ cache'.closed = cache.closed
      /\ \A j \in Key, s \in Nat : Overtaken(cache, j, s) => Overtaken(cache', j, s)
  BY <1>5 DEF Learns
<1>7. mayStore' \in [Caller -> SUBSET Key]
  BY <1>1, <1>2
<1>8. ASSUME NEW b \in Caller, b # c, NEW j \in mayStore[b]
      PROVE  j \in mayStore'[b] \/ \A s \in 0 .. cache.seq : Overtaken(cache', j, s)
  BY <1>1, <1>2, <1>5, <1>8
<1>9. ASSUME r.pc \in {"pdp", "observe"}
      PROVE  /\ r.stamp <= cache'.seq
             /\ \A n \in 1 .. Len(r.todo) : r.reqs[r.todo[n]] \notin mayStore'[c] =>
                   cache'.closed \/ Overtaken(cache', r.reqs[r.todo[n]], r.stamp)
  <2>1. r.stamp <= cache'.seq
    <3>1. cache'.seq \in Nat
      BY <1>6 DEF CacheInv, CacheOK
    <3>2. r.stamp = cl.stamp
      BY <1>4, <1>9
    <3> HIDE DEF cl
    <3> QED BY <1>3, <1>6, <3>1, <3>2
  <2>2. ASSUME NEW n \in 1 .. Len(left), cl.reqs[left[n]] \notin mayStore'[c]
        PROVE  cache'.closed \/ Overtaken(cache', cl.reqs[left[n]], cl.stamp)
    <3> DEFINE j == cl.reqs[left[n]]
    <3>1. n + 1 \in 1 .. Len(cl.todo) /\ left[n] = cl.todo[n + 1]
      BY <1>4
    <3>2. j \in Key /\ n + 1 \in DOMAIN cl.todo
      BY <1>1, <3>1, CallFields
    <3>3. CASE j \notin mayStore[c]
      <4>1. cache.closed \/ Overtaken(cache, j, cl.stamp)
        BY <1>1, <3>1, <3>2, <3>3 DEF IInv, OvertakenCallsAreRefused
      <4> HIDE DEF j
      <4> QED BY <1>3, <1>6, <3>2, <4>1, ZenonT(30) DEF j
    <3>4. CASE j \in mayStore[c]
      <4>1. denies /\ j = k
        BY <1>1, <1>2, <1>4, <1>9, <2>2, <3>4
      <4> QED BY <1>3, <1>5, <4>1, ZenonT(30)
    <3> QED BY <3>3, <3>4
  <2> QED BY <1>4, <1>9, <2>1, <2>2
<1> QED BY <1>2, <1>4, <1>5, <1>6, <1>7, <1>8, <1>9, StepRule, ZenonT(30)

LEMMA InvalidateAllInv ==
    ASSUME IInv, InvalidateAll
    PROVE  IInv'
<1>1. /\ cache' = Flush(cache) /\ mayStore' = [c \in Caller |-> {}]
      /\ call' = call /\ now' = now /\ CacheInv(cache)
  BY DEF IInv, InvalidateAll
<1>2. /\ CacheInv(cache') /\ Len(cache'.lru) <= MaxEntries /\ cache'.seq >= cache.seq
      /\ \A k \in Key : \A s \in 0 .. cache.seq : Overtaken(cache', k, s)
  BY <1>1, FlushLemma
<1>3. ASSUME NEW c \in Caller, call[c].pc \in {"pdp", "observe"}
      PROVE  call[c].stamp \in 0 .. cache.seq /\ call[c].stamp <= cache'.seq
  <2>1. call[c].stamp <= cache.seq /\ call[c].stamp \in Nat
    BY <1>3, CallFields DEF IInv, StampsTaken
  <2>2. cache.seq \in Nat /\ cache'.seq \in Nat
    BY <1>1, <1>2 DEF CacheInv, CacheOK
  <2> QED BY <1>2, <2>1, <2>2
<1>4. ASSUME NEW c \in Caller, call[c].pc \in {"pdp", "observe"},
             NEW n \in DOMAIN call[c].todo
      PROVE  Overtaken(cache', call[c].reqs[call[c].todo[n]], call[c].stamp)
  <2>1. call[c].reqs[call[c].todo[n]] \in Key
    BY CallFields, ZenonT(30) DEF IInv
  <2> QED BY <1>2, <1>3, <1>4, <2>1
<1>5. StampsTaken' /\ OvertakenCallsAreRefused'
  BY <1>1, <1>3, <1>4 DEF StampsTaken, OvertakenCallsAreRefused
<1> QED BY <1>1, <1>2, <1>5 DEF IInv

LEMMA CloseInv ==
    ASSUME IInv, Close
    PROVE  IInv'
<1>1. /\ cache' = Clear([cache EXCEPT !.closed = TRUE])
      /\ mayStore' = [c \in Caller |-> {}]
      /\ call' = call /\ now' = now /\ CacheInv(cache)
  BY DEF IInv, Close
<1>2. /\ CacheInv(cache') /\ Len(cache'.lru) <= MaxEntries /\ cache'.seq = cache.seq
      /\ cache'.closed
  BY <1>1, CloseLemma
<1>3. StampsTaken' /\ OvertakenCallsAreRefused'
  BY <1>1, <1>2, ZenonT(30) DEF IInv, StampsTaken, OvertakenCallsAreRefused
<1> QED BY <1>1, <1>2, <1>3 DEF IInv

LEMMA NextInv == IInv /\ [Next]_vars => IInv'
<1> SUFFICES ASSUME IInv, [Next]_vars PROVE IInv'
  OBVIOUS
<1>1. ASSUME NEW c \in Caller, CallStep(c) PROVE IInv'
  BY <1>1, BeginInv, GetStepInv, StampStepInv, FailStepInv, AnswerStepInv, ObserveStepInv,
     CheckStepInv, ReturnInv DEF CallStep
<1>2. CASE InvalidateAll
  BY <1>2, InvalidateAllInv
<1>3. CASE Close
  BY <1>3, CloseInv
<1>4. CASE SetClock
  <2>1. cache' = cache /\ call' = call /\ mayStore' = mayStore /\ now' \in Nat
    BY <1>4, CacheAssumption DEF SetClock
  <2> QED BY <2>1 DEF IInv, StampsTaken, OvertakenCallsAreRefused
<1>5. CASE UNCHANGED vars
  BY <1>5 DEF vars, IInv, StampsTaken, OvertakenCallsAreRefused
<1> QED BY <1>1, <1>2, <1>3, <1>4, <1>5 DEF Next

LEMMA Invariance == Spec => []IInv
BY InitInv, NextInv, PTL DEF Spec

-----------------------------------------------------------------------------
(* The theorems.                                                           *)

\* Every field of CachedClient and every local of a running call keeps its
\* type, whatever the interleaving.
THEOREM TypeCorrect == Spec => []TypeOK
<1>1. IInv => TypeOK
  BY DEF IInv, CacheInv, CacheOK, TypeOK
<1> QED BY <1>1, Invariance, PTL

\* A PDP answer that a tombstone, a flush or a close overtook is refused by
\* observe, for any number of keys, callers and evictions in between.
THEOREM Refusal == Spec => []OvertakenCallsAreRefused
<1>1. IInv => OvertakenCallsAreRefused
  BY DEF IInv
<1> QED BY <1>1, Invariance, PTL

\* The cache holds only PDP allows at or above the watermark.
THEOREM CurrentAllows == Spec => []OnlyCurrentAllowsStored
<1>1. IInv => OnlyCurrentAllowsStored
  BY DEF IInv, CacheInv, StoredOK, OnlyCurrentAllowsStored
<1> QED BY <1>1, Invariance, PTL

\* The list and the map agree, hold at most MaxEntries entries, and Len()
\* counts the live ones.
THEOREM BookkeepingHolds == Spec => []Bookkeeping
<1>1. ASSUME IInv PROVE Bookkeeping
  <2> DEFINE S == DOMAIN cache.entries
             n == Len(cache.lru)
  <2>1. CacheOK(cache) /\ n <= MaxEntries /\ n \in Nat
    BY <1>1 DEF IInv, CacheInv, CacheOK
  <2>2. DOMAIN cache.lru = 1 .. n /\ \A i \in 1 .. n : cache.lru[i] \in Key
    BY <2>1 DEF CacheOK
  <2>3. {cache.lru[i] : i \in DOMAIN cache.lru} = S
    BY <2>1, <2>2 DEF CacheOK
  <2>4. Cardinality(S) = n
    <3>1. cache.lru \in [1 .. n -> S]
      <4>1. \A i \in 1 .. n : cache.lru[i] \in S
        BY <2>2, <2>3
      <4>2. cache.lru \in [1 .. n -> Key]
        BY <2>1 DEF CacheOK
      <4> QED BY <4>1, <4>2
    <3>2. cache.lru \in Bijection(1 .. n, S)
      <4>1. \A i, j \in 1 .. n : cache.lru[i] = cache.lru[j] => i = j
        BY <2>1 DEF CacheOK
      <4>2. \A k \in S : \E i \in 1 .. n : cache.lru[i] = k
        BY <2>1 DEF CacheOK
      <4> QED BY <3>1, <4>1, <4>2 DEF Bijection, Injection, Surjection, IsInjective
    <3>3. ExistsBijection(1 .. n, S)
      BY <3>2 DEF ExistsBijection
    <3>4. IsFiniteSet(1 .. n) /\ Cardinality(1 .. n) = n
      BY <2>1, FS_Interval
    <3> QED BY <3>3, <3>4, FS_Bijection
  <2>5. TypeOK
    BY <1>1 DEF IInv, CacheInv, CacheOK, TypeOK
  <2> QED BY <2>1, <2>3, <2>4, <2>5 DEF Bookkeeping, CacheOK
<1> QED BY <1>1, Invariance, PTL

-----------------------------------------------------------------------------
(* The revisions of a batch.                                               *)

\* No stored allow is of a revision above the watermark.
StoredBelow(ch) == \A k \in Live(ch) : ch.entries[k].decision.rev <= ch.watermark

\* Every answer of a running call is at or below the watermark, but for the
\* ones observe has still to see.
Seen(cl, ch) ==
    \A j \in 1 .. Len(cl.reqs) :
        \/ cl.out[j].rev <= ch.watermark
        \/ cl.pc = "observe" /\ \E n \in 1 .. Len(cl.todo) : cl.todo[n] = j

\* No hit is below another answer of the call.
Unmixed(cl) ==
    \A n \in 1 .. Len(cl.hits), j \in 1 .. Len(cl.reqs) : cl.out[cl.hits[n]].rev >= cl.out[j].rev

\* The revisions in the locals of a call: Decide has one item, a second ask
\* has replaced the hits, and a closed cache no longer moves the watermark.
MixOK(cl, ch) ==
    /\ ~cl.batch => Len(cl.reqs) <= 1
    /\ cl.pc = "observe" /\ cl.again => cl.hits = <<>>
    /\ ~ch.closed /\ cl.pc \in {"get", "stamp", "pdp", "observe", "check"} => Seen(cl, ch)
    /\ ~ch.closed /\ cl.pc = "return" => Unmixed(cl)

MixInv == StoredBelow(cache) /\ \A c \in Caller : MixOK(call[c], cache)

\* What is remembered is what is live.
LEMMA RememberedLive ==
    ASSUME NEW ch, NEW k
    PROVE  /\ k \in Live(ch) <=> Remembered(ch, k) # None
           /\ k \in Live(ch) => Remembered(ch, k).decision = ch.entries[k].decision
<1>1. \A d, a : [decision |-> d, asked |-> a] # None
  BY DEF None
<1> QED BY <1>1 DEF Remembered

\* A method that forgets keeps StoredBelow; so does one that learns an answer
\* at or below the new watermark.
LEMMA BelowKept ==
    ASSUME NEW ch, CacheInv(ch), StoredBelow(ch), NEW new, NEW k \in Key, NEW dec \in Decision, NEW asked,
           \/ Shrinks(ch, new)
           \/ Learns(ch, new, k, [decision |-> dec, asked |-> asked]) /\ dec.rev <= new.watermark
    PROVE  StoredBelow(new)
<1> DEFINE m == [decision |-> dec, asked |-> asked]
<1> SUFFICES ASSUME NEW j \in Live(new) PROVE new.entries[j].decision.rev <= new.watermark
  BY DEF StoredBelow
<1>1. CacheInv(new) /\ new.watermark >= ch.watermark
  BY DEF Shrinks, Learns
<1>2. j \in Key /\ ch.watermark \in Nat /\ new.watermark \in Nat
  BY <1>1, ZenonT(30) DEF CacheInv, CacheOK, Live
<1>3. Remembered(new, j) # None /\ Remembered(new, j).decision = new.entries[j].decision
  BY RememberedLive, ZenonT(30)
<1> HIDE DEF m
<1>4. CASE Remembered(new, j) = Remembered(ch, j)
  <2>1. j \in Live(ch) /\ ch.entries[j].decision = new.entries[j].decision
    BY <1>3, <1>4, RememberedLive
  <2>2. ch.entries[j] \in Entry
    BY <2>1 DEF CacheInv, CacheOK, Live
  <2>3. ch.entries[j].decision.rev \in Nat /\ ch.entries[j].decision.rev <= ch.watermark
    BY <2>1, <2>2 DEF Entry, Decision, StoredBelow
  <2> DEFINE r == ch.entries[j].decision.rev
  <2>4. new.entries[j].decision.rev = r /\ r \in Nat /\ r <= ch.watermark
    BY <2>1, <2>3
  <2>5. ch.watermark <= new.watermark
    BY <1>1, <1>2
  <2> HIDE DEF r
  <2>6. r <= new.watermark
    BY <1>2, <2>4, <2>5
  <2> QED BY <2>4, <2>6
<1>5. CASE Remembered(new, j) = m /\ dec.rev <= new.watermark
  BY <1>3, <1>5 DEF m
<1>6. \/ Remembered(new, j) = Remembered(ch, j)
      \/ Remembered(new, j) = m /\ dec.rev <= new.watermark
  <2>1. CASE Shrinks(ch, new)
    BY <1>2, <1>3, <2>1 DEF Shrinks
  <2>2. CASE Learns(ch, new, k, m) /\ dec.rev <= new.watermark
    BY <1>2, <1>3, <2>2 DEF Learns
  <2> QED BY <2>1, <2>2 DEF m
<1> QED BY <1>4, <1>5, <1>6

\* A call is not disturbed by a higher watermark, nor by Close.
LEMMA MixKept ==
    ASSUME NEW cl, CallOK(cl), NEW ch, CacheInv(ch), NEW new, CacheInv(new), MixOK(cl, ch),
           ch.closed => new.closed, new.watermark >= ch.watermark
    PROVE  MixOK(cl, new)
<1>1. ch.watermark \in Nat /\ new.watermark \in Nat
  BY DEF CacheInv, CacheOK
<1>2. \A j \in 1 .. Len(cl.reqs) : cl.out[j].rev \in Nat
  <2>1. cl.out \in Seq(Decision) /\ DOMAIN cl.out = 1 .. Len(cl.reqs)
    BY CallFields
  <2>2. \A j \in 1 .. Len(cl.reqs) : cl.out[j] \in Decision
    BY <2>1
  <2> QED BY <2>2 DEF Decision
<1>3. Seen(cl, ch) => Seen(cl, new)
  BY <1>1, <1>2 DEF Seen
<1> QED BY <1>3 DEF MixOK

\* What the acting call owes: where it is running, its answers are seen; where
\* it returns, it is Decide, or has no hits, or its hits were compared.
LEMMA MixRule ==
    ASSUME NEW r, CallOK(r), NEW ch, CacheInv(ch),
           ~r.batch => Len(r.reqs) <= 1,
           r.pc = "observe" /\ r.again => r.hits = <<>>,
           ~ch.closed /\ r.pc # "return" => Seen(r, ch),
           ~ch.closed /\ r.pc = "return" =>
              \/ ~r.batch
              \/ r.hits = <<>>
              \/ /\ Seen(r, ch)
                 /\ \A n \in 1 .. Len(r.hits) : r.out[r.hits[n]].rev >= ch.watermark
    PROVE  MixOK(r, ch)
<1>1. ch.watermark \in Nat /\ Len(r.reqs) \in Nat
  <2>1. r.reqs \in Seq(Key)
    BY CallFields
  <2> QED BY <2>1 DEF CacheInv, CacheOK
<1>2. \A j \in 1 .. Len(r.reqs) : r.out[j].rev \in Nat
  <2>1. r.out \in Seq(Decision) /\ DOMAIN r.out = 1 .. Len(r.reqs)
    BY CallFields
  <2>2. \A j \in 1 .. Len(r.reqs) : r.out[j] \in Decision
    BY <2>1
  <2> QED BY <2>2 DEF Decision
<1>3. \A n \in 1 .. Len(r.hits) : r.hits[n] \in 1 .. Len(r.reqs)
  BY DEF CallOK
<1>4. ASSUME ~ch.closed, r.pc = "return" PROVE Unmixed(r)
  <2>1. CASE ~r.batch
    <3>1. \A i, j \in 1 .. Len(r.reqs) : i = j
      BY <1>1, <2>1
    <3>2. ASSUME NEW n \in 1 .. Len(r.hits), NEW j \in 1 .. Len(r.reqs)
          PROVE  r.out[r.hits[n]].rev >= r.out[j].rev
      <4>1. r.hits[n] = j
        BY <1>3, <3>1
      <4> QED BY <1>2, <4>1
    <3> QED BY <3>2 DEF Unmixed
  <2>2. CASE r.hits = <<>>
    BY <2>2 DEF Unmixed
  <2>3. CASE Seen(r, ch) /\ \A n \in 1 .. Len(r.hits) : r.out[r.hits[n]].rev >= ch.watermark
    <3>1. \A j \in 1 .. Len(r.reqs) : r.out[j].rev <= ch.watermark
      BY <1>4, <2>3 DEF Seen
    <3>2. ASSUME NEW n \in 1 .. Len(r.hits), NEW j \in 1 .. Len(r.reqs)
          PROVE  r.out[r.hits[n]].rev >= r.out[j].rev
      <4>1. r.out[r.hits[n]].rev \in Nat /\ r.out[j].rev \in Nat
        BY <1>2, <1>3
      <4>2. r.out[r.hits[n]].rev >= ch.watermark /\ r.out[j].rev <= ch.watermark
        BY <2>3, <3>1
      <4> QED BY <1>1, <4>1, <4>2
    <3> QED BY <3>2 DEF Unmixed
  <2> QED BY <1>4, <2>1, <2>2, <2>3
<1> QED BY <1>4 DEF MixOK

\* A step of one call.
LEMMA MixStep ==
    ASSUME IInv, IInv', MixInv, NEW c \in Caller, NEW r, call' = [call EXCEPT ![c] = r],
           StoredBelow(cache'), cache'.closed = cache.closed, cache'.watermark >= cache.watermark,
           MixOK(r, cache')
    PROVE  MixInv'
<1>1. CacheInv(cache) /\ CacheInv(cache') /\ \A b \in Caller : CallOK(call[b]) /\ MixOK(call[b], cache)
  BY DEF IInv, MixInv
<1>2. ASSUME NEW b \in Caller PROVE MixOK(call'[b], cache')
  <2>1. CASE b = c
    BY <2>1 DEF IInv
  <2>2. CASE b # c
    <3>1. call'[b] = call[b]
      BY <2>2 DEF IInv
    <3> QED BY <1>1, <3>1, MixKept
  <2> QED BY <2>1, <2>2
<1> QED BY <1>2 DEF MixInv

\* A step of one call that leaves the cache alone.
LEMMA MixLocalStep ==
    ASSUME IInv, IInv', MixInv, NEW c \in Caller, NEW r, call' = [call EXCEPT ![c] = r],
           cache' = cache, MixOK(r, cache)
    PROVE  MixInv'
<1>1. cache.watermark \in Nat /\ StoredBelow(cache)
  BY ZenonT(30) DEF IInv, CacheInv, CacheOK, MixInv
<1>2. StoredBelow(cache') /\ MixOK(r, cache')
  BY <1>1
<1>3. cache'.closed = cache.closed /\ cache'.watermark >= cache.watermark
  BY <1>1
<1> QED BY <1>2, <1>3, MixStep, ZenonT(30)

LEMMA NewMix ==
    ASSUME NEW ch, CacheInv(ch)
    PROVE  MixOK(Idle, ch) /\ \A r \in Requests : MixOK(r, ch) /\ MixOK(Returning(r), ch)
<1>1. MixOK(Idle, ch)
  <2>1. CallOK(Idle) /\ Idle.pc = "idle" /\ Idle.reqs = <<>>
    BY NewCalls DEF Idle
  <2>2. Seen(Idle, ch)
    BY <2>1 DEF Seen
  <2> QED BY <2>1, <2>2, MixRule
<1>2. ASSUME NEW b \in BOOLEAN, NEW ks \in Seq(Key), ~b => Len(ks) <= 1, Running(b, ks) \in Requests
      PROVE  MixOK(Running(b, ks), ch) /\ MixOK(Returning(Running(b, ks)), ch)
  <2> DEFINE r == Running(b, ks)
             q == Returning(r)
  <2>1. CallOK(r) /\ r.pc = "get" /\ CallOK(q) /\ q.pc = "return"
    BY <1>2, NewCalls, ReturningLemma
  <2>2. /\ r.batch = b /\ r.reqs = ks /\ r.hits = <<>> /\ r.out = [i \in DOMAIN ks |-> NoDecision]
        /\ q.batch = b /\ q.reqs = ks /\ q.hits = <<>>
    BY DEF Running, Idle, Returning
  <2>3. ch.watermark \in Nat /\ DOMAIN ks = 1 .. Len(ks)
    BY DEF CacheInv, CacheOK
  <2>4. \A j \in 1 .. Len(ks) : r.out[j].rev = 0
    BY <2>2, <2>3 DEF NoDecision
  <2>5. Seen(r, ch)
    BY <2>2, <2>3, <2>4 DEF Seen
  <2> HIDE DEF r, q
  <2>6. MixOK(r, ch)
    BY <1>2, <2>1, <2>2, <2>5, MixRule
  <2>7. MixOK(q, ch)
    BY <1>2, <2>1, <2>2, MixRule
  <2> QED BY <2>6, <2>7 DEF r, q
<1>3. ASSUME NEW k \in Key
      PROVE  MixOK(Running(FALSE, <<k>>), ch) /\ MixOK(Returning(Running(FALSE, <<k>>)), ch)
  <2> DEFINE ks == <<k>>
  <2>1. ks \in Seq(Key) /\ Len(ks) <= 1
    OBVIOUS
  <2>2. Running(FALSE, ks) \in Requests
    BY ZenonT(30) DEF Requests
  <2> HIDE DEF ks
  <2>3. MixOK(Running(FALSE, ks), ch) /\ MixOK(Returning(Running(FALSE, ks)), ch)
    BY <1>2, <2>1, <2>2, ZenonT(30)
  <2> QED BY <2>3, ZenonT(30) DEF ks
<1>4. ASSUME NEW ks \in Batches
      PROVE  MixOK(Running(TRUE, ks), ch) /\ MixOK(Returning(Running(TRUE, ks)), ch)
  <2>1. ks \in Seq(Key) /\ Running(TRUE, ks) \in Requests
    BY CacheAssumption, ZenonT(30) DEF Requests
  <2> QED BY <1>2, <2>1, ZenonT(30)
<1> QED BY <1>1, <1>3, <1>4, ZenonT(30) DEF Requests

LEMMA BeginMix ==
    ASSUME IInv, IInv', MixInv, NEW c \in Caller, Begin(c)
    PROVE  MixInv'
<1>1. PICK r \in Requests : \/ call' = [call EXCEPT ![c] = r]
                            \/ call' = [call EXCEPT ![c] = Returning(r)]
  BY DEF Begin
<1>2. MixOK(r, cache) /\ MixOK(Returning(r), cache) /\ cache' = cache
  BY NewMix DEF IInv, Begin
<1> QED BY <1>1, <1>2, MixLocalStep

\* A hit is of a live entry, and so at or below the watermark.
LEMMA GetMix ==
    ASSUME IInv, IInv', MixInv, NEW c \in Caller, GetStep(c)
    PROVE  MixInv'
<1> DEFINE cl == call[c]
           k == cl.reqs[cl.pos]
           r == call'[c]
<1>1. /\ CallOK(cl) /\ cl.pc = "get" /\ CacheInv(cache) /\ Len(cache.lru) <= MaxEntries
      /\ MixOK(cl, cache) /\ StoredBelow(cache) /\ CallOK(r) /\ CacheInv(cache')
  BY ZenonT(30) DEF IInv, GetStep, MixInv
<1>2. /\ cl \in CallType /\ cl.reqs \in Seq(Key) /\ cl.pos \in 1 .. Len(cl.reqs) /\ k \in Key
      /\ DOMAIN cl.out = 1 .. Len(cl.reqs)
  <2>1. cl.reqs \in Seq(Key) /\ cl.pos \in 1 .. Len(cl.reqs)
    BY <1>1, CallFields, ZenonT(30) DEF CallOK
  <2> QED BY <1>1, <2>1, CallFields
<1>3. Shrinks(cache, cache') /\ cache'.watermark = cache.watermark /\ cache'.closed = cache.closed
  <2>1. cache' = Get(cache, k, now)
    BY ZenonT(30) DEF GetStep
  <2> QED BY <1>1, <1>2, <2>1, GetLemma, ZenonT(30) DEF Shrinks
<1>4. StoredBelow(cache')
  <2>1. NoDecision \in Decision
    BY ZeroTypes
  <2> HIDE DEF k
  <2> QED BY <1>1, <1>2, <1>3, <2>1, BelowKept, ZenonT(30)
<1>5. call' = [call EXCEPT ![c] = r]
  BY ZenonT(30) DEF GetStep, IInv
<1>6. /\ r.reqs = cl.reqs /\ r.batch = cl.batch
      /\ r.pc \in {"get", "stamp", "check"} \/ (r.pc = "return" /\ ~cl.batch)
      /\ \/ r.out = cl.out
         \/ /\ Hit(cache, k, now)
            /\ r.out = [cl.out EXCEPT ![cl.pos] = cache.entries[k].decision]
  <2> DEFINE hit == [cl EXCEPT !.out[cl.pos] = cache.entries[k].decision, !.hits = Append(@, cl.pos)]
             miss == [cl EXCEPT !.todo = Append(@, cl.pos)]
             Done(read) == IF cl.pos < Len(cl.reqs) THEN [read EXCEPT !.pos = @ + 1]
                           ELSE IF read.todo # <<>> THEN [read EXCEPT !.pc = "stamp"]
                           ELSE IF cl.batch THEN [read EXCEPT !.pc = "check"]
                           ELSE Returning(read)
  <2>1. \/ Hit(cache, k, now) /\ r = Done(hit)
        \/ r = Done(miss)
    <3>1. CASE Hit(cache, k, now)
      BY <3>1, ZenonT(60) DEF GetStep, IInv
    <3>2. CASE ~Hit(cache, k, now)
      BY <3>2 DEF GetStep, IInv
    <3> QED BY <3>1, <3>2, ZenonT(30)
  <2>2. ASSUME NEW read, read.pc = "get", DOMAIN read = DOMAIN cl
        PROVE  /\ Done(read).reqs = read.reqs /\ Done(read).batch = read.batch
               /\ Done(read).out = read.out
               /\ Done(read).pc \in {"get", "stamp", "check"} \/ (Done(read).pc = "return" /\ ~cl.batch)
    <3>1. DOMAIN cl = {"batch", "reqs", "pos", "out", "hits", "todo", "again", "stamp", "asked", "pc"}
      BY <1>2 DEF CallType
    <3> QED BY <2>2, <3>1 DEF Returning
  <2>3. /\ hit.pc = "get" /\ DOMAIN hit = DOMAIN cl /\ hit.reqs = cl.reqs /\ hit.batch = cl.batch
        /\ hit.out = [cl.out EXCEPT ![cl.pos] = cache.entries[k].decision]
    BY <1>1, <1>2 DEF CallType
  <2>4. /\ miss.pc = "get" /\ DOMAIN miss = DOMAIN cl /\ miss.reqs = cl.reqs /\ miss.batch = cl.batch
        /\ miss.out = cl.out
    BY <1>1, <1>2 DEF CallType
  <2> HIDE DEF Done, hit, miss, r, k, cl
  <2> QED BY <2>1, <2>2, <2>3, <2>4
<1>7. ASSUME ~cache.closed PROVE Seen(r, cache')
  <2>1. \A j \in 1 .. Len(cl.reqs) : cl.out[j].rev <= cache.watermark
    BY <1>1, <1>7 DEF MixOK, Seen
  <2>2. Hit(cache, k, now) => cache.entries[k].decision.rev <= cache.watermark
    BY <1>1, ZenonT(30) DEF Hit, StoredBelow
  <2>3. \A j \in 1 .. Len(cl.reqs) : r.out[j].rev <= cache.watermark
    <3> HIDE DEF r, k, cl
    <3> QED BY <1>2, <1>6, <2>1, <2>2
  <2> HIDE DEF r
  <2> QED BY <1>3, <1>6, <2>3, ZenonT(30) DEF Seen
<1>8. MixOK(r, cache')
  <2>1. ~r.batch => Len(r.reqs) <= 1
    BY <1>1, <1>6, ZenonT(30) DEF MixOK
  <2> HIDE DEF r
  <2> QED BY <1>1, <1>3, <1>6, <1>7, <2>1, MixRule, ZenonT(30)
<1>9. cache'.watermark >= cache.watermark
  <2>1. cache.watermark \in Nat
    BY <1>1, ZenonT(30) DEF CacheInv, CacheOK
  <2> QED BY <1>3, <2>1
<1> HIDE DEF r
<1> QED BY <1>3, <1>4, <1>5, <1>8, <1>9, MixStep, ZenonT(30)

LEMMA StampMix ==
    ASSUME IInv, IInv', MixInv, NEW c \in Caller, StampStep(c)
    PROVE  MixInv'
<1> DEFINE cl == call[c]
           r == [cl EXCEPT !.pc = "pdp", !.stamp = cache.seq, !.asked = now]
<1>1. /\ CallOK(cl) /\ cl.pc = "stamp" /\ CacheInv(cache) /\ MixOK(cl, cache)
      /\ call' = [call EXCEPT ![c] = r] /\ cache' = cache /\ call'[c] = r /\ CallOK(call'[c])
  BY DEF IInv, StampStep, MixInv
<1>2. r.pc = "pdp" /\ r.batch = cl.batch /\ r.reqs = cl.reqs /\ r.out = cl.out
  BY <1>1, CallFields DEF CallType
<1> HIDE DEF r
<1>3. MixOK(r, cache)
  <2>1. ~cache.closed => Seen(r, cache)
    BY <1>1, <1>2 DEF MixOK, Seen
  <2>2. ~r.batch => Len(r.reqs) <= 1
    BY <1>1, <1>2 DEF MixOK
  <2> QED BY <1>1, <1>2, <2>1, <2>2, MixRule
<1> QED BY <1>1, <1>3, MixLocalStep, ZenonT(30)

LEMMA FailMix ==
    ASSUME IInv, IInv', MixInv, NEW c \in Caller, FailStep(c)
    PROVE  MixInv'
<1> DEFINE cl == call[c]
           r == Returning([cl EXCEPT !.out = [i \in DOMAIN cl.reqs |-> NoDecision], !.hits = <<>>])
<1>1. /\ CallOK(cl) /\ CacheInv(cache) /\ MixOK(cl, cache)
      /\ call' = [call EXCEPT ![c] = r] /\ cache' = cache /\ call'[c] = r /\ CallOK(call'[c])
  BY DEF IInv, FailStep, MixInv
<1>2. r.pc = "return" /\ r.batch = cl.batch /\ r.reqs = cl.reqs /\ r.hits = <<>>
  BY <1>1, CallFields DEF CallType, Returning
<1> HIDE DEF r
<1>3. MixOK(r, cache)
  <2>1. ~r.batch => Len(r.reqs) <= 1
    BY <1>1, <1>2 DEF MixOK
  <2> QED BY <1>1, <1>2, <2>1, MixRule
<1> QED BY <1>1, <1>3, MixLocalStep, ZenonT(30)

\* The items the PDP answered are the ones observe has still to see.
LEMMA AnswerMix ==
    ASSUME IInv, IInv', MixInv, NEW c \in Caller, AnswerStep(c)
    PROVE  MixInv'
<1> DEFINE cl == call[c]
           asked == {cl.todo[n] : n \in DOMAIN cl.todo}
           r == call'[c]
<1>1. /\ CallOK(cl) /\ cl.pc = "pdp" /\ CacheInv(cache) /\ MixOK(cl, cache) /\ cache' = cache
      /\ CallOK(r)
  BY ZenonT(30) DEF IInv, AnswerStep, MixInv
<1>2. PICK got \in [asked -> Verdict(now)] :
          call' = [call EXCEPT ![c] =
              [cl EXCEPT !.pc = "observe",
                         !.hits = IF cl.again THEN <<>> ELSE @,
                         !.out = [i \in DOMAIN cl.reqs |->
                                     IF i \in asked THEN got[i] ELSE cl.out[i]]]]
  BY ZenonT(30) DEF AnswerStep
<1>3. r = [cl EXCEPT !.pc = "observe",
                     !.hits = IF cl.again THEN <<>> ELSE @,
                     !.out = [i \in DOMAIN cl.reqs |-> IF i \in asked THEN got[i] ELSE cl.out[i]]]
  BY <1>2, ZenonT(30) DEF IInv
<1>4. cl \in CallType /\ DOMAIN cl.reqs = 1 .. Len(cl.reqs) /\ DOMAIN cl.todo = 1 .. Len(cl.todo)
  BY <1>1, CallFields
<1>5. call' = [call EXCEPT ![c] = r]
  BY <1>2, <1>3, ZenonT(30)
<1> HIDE DEF r, cl
<1>6. /\ r.pc = "observe" /\ r.batch = cl.batch /\ r.reqs = cl.reqs /\ r.todo = cl.todo
      /\ r.again = cl.again /\ r.hits = IF cl.again THEN <<>> ELSE cl.hits
      /\ r.out = [i \in DOMAIN cl.reqs |-> IF i \in asked THEN got[i] ELSE cl.out[i]]
  <2> HIDE DEF asked
  <2> QED BY <1>3, <1>4 DEF CallType
<1>7. ASSUME ~cache.closed PROVE Seen(r, cache)
  <2>1. \A j \in 1 .. Len(cl.reqs) : cl.out[j].rev <= cache.watermark
    BY <1>1, <1>7 DEF MixOK, Seen
  <2>2. ASSUME NEW j \in 1 .. Len(cl.reqs)
        PROVE  r.out[j].rev <= cache.watermark \/ \E n \in 1 .. Len(cl.todo) : cl.todo[n] = j
    BY <1>4, <1>6, <2>1
  <2> QED BY <1>6, <2>2, ZenonT(30) DEF Seen
<1>8. MixOK(r, cache)
  <2>1. ~r.batch => Len(r.reqs) <= 1
    BY <1>1, <1>6 DEF MixOK
  <2> QED BY <1>1, <1>6, <1>7, <2>1, MixRule
<1> QED BY <1>1, <1>5, <1>8, MixLocalStep, ZenonT(30)

\* Where no hit is below the watermark nothing is above a hit; otherwise the
\* hits are asked again.
LEMMA CheckMix ==
    ASSUME IInv, IInv', MixInv, NEW c \in Caller, CheckStep(c)
    PROVE  MixInv'
<1> DEFINE cl == call[c]
           low == \E n \in DOMAIN cl.hits : cl.out[cl.hits[n]].rev < cache.watermark
           again == [cl EXCEPT !.pc = "stamp", !.todo = cl.hits, !.again = TRUE]
           done == Returning(cl)
           r == call'[c]
<1>1. /\ CallOK(cl) /\ cl.pc = "check" /\ CacheInv(cache) /\ MixOK(cl, cache) /\ cache' = cache
      /\ r = (IF low THEN again ELSE done) /\ call' = [call EXCEPT ![c] = r] /\ CallOK(r)
  BY DEF IInv, CheckStep, MixInv
<1>2. /\ cl \in CallType /\ DOMAIN cl.hits = 1 .. Len(cl.hits)
      /\ cl.out \in Seq(Decision) /\ DOMAIN cl.out = 1 .. Len(cl.reqs)
  BY <1>1, CallFields, ZenonT(30)
<1>3. ~cache.closed => \A j \in 1 .. Len(cl.reqs) : cl.out[j].rev <= cache.watermark
  BY <1>1, ZenonT(30) DEF MixOK, Seen
<1>4. ~cl.batch => Len(cl.reqs) <= 1
  BY <1>1, ZenonT(30) DEF MixOK
<1>5. CASE low
  <2>1. r.pc = "stamp" /\ r.batch = cl.batch /\ r.reqs = cl.reqs /\ r.out = cl.out
    <3> HIDE DEF low, cl
    <3> QED BY <1>1, <1>2, <1>5 DEF CallType
  <2> HIDE DEF r
  <2>2. ~cache.closed => Seen(r, cache)
    BY <1>3, <2>1 DEF Seen
  <2>3. MixOK(r, cache)
    BY <1>1, <1>4, <2>1, <2>2, MixRule, ZenonT(30)
  <2> QED BY <1>1, <2>3, MixLocalStep, ZenonT(30)
<1>6. CASE ~low
  <2>1. r.pc = "return" /\ r.batch = cl.batch /\ r.reqs = cl.reqs /\ r.out = cl.out /\ r.hits = cl.hits
    <3> HIDE DEF low, cl
    <3> QED BY <1>1, <1>2, <1>6 DEF CallType, Returning
  <2>2. \A n \in 1 .. Len(cl.hits) : cl.out[cl.hits[n]].rev >= cache.watermark
    <3>1. ASSUME NEW n \in 1 .. Len(cl.hits) PROVE cl.out[cl.hits[n]].rev >= cache.watermark
      <4>1. cl.hits[n] \in DOMAIN cl.out
        BY <1>1, <1>2, ZenonT(30) DEF CallOK
      <4>2. cl.out[cl.hits[n]] \in Decision
        BY <1>2, <4>1
      <4>3. cl.out[cl.hits[n]].rev \in Nat /\ cache.watermark \in Nat
        BY <1>1, <4>2, ZenonT(30) DEF Decision, CacheInv, CacheOK
      <4> QED BY <1>2, <1>6, <4>3
    <3> QED BY <3>1
  <2> HIDE DEF r
  <2>3. ~cache.closed => Seen(r, cache)
    BY <1>3, <2>1 DEF Seen
  <2>4. MixOK(r, cache)
    BY <1>1, <1>4, <2>1, <2>2, <2>3, MixRule, ZenonT(30)
  <2> QED BY <1>1, <2>4, MixLocalStep, ZenonT(30)
<1> QED BY <1>5, <1>6

\* observe raises the watermark to the answer it takes off the list.
LEMMA ObserveMix ==
    ASSUME IInv, IInv', MixInv, NEW c \in Caller, ObserveStep(c)
    PROVE  MixInv'
<1> DEFINE cl == call[c]
           i == Head(cl.todo)
           k == cl.reqs[i]
           d == cl.out[i]
           left == Tail(cl.todo)
           r == call'[c]
<1>1. /\ CallOK(cl) /\ cl.pc = "observe" /\ MixOK(cl, cache) /\ StoredBelow(cache)
      /\ CallOK(r) /\ CacheInv(cache')
      /\ call' = [call EXCEPT ![c] = r]
      /\ r = IF left # <<>> THEN [cl EXCEPT !.todo = left]
             ELSE IF cl.batch /\ ~cl.again THEN [cl EXCEPT !.pc = "check", !.todo = left]
             ELSE Returning(cl)
  BY ZenonT(30) DEF IInv, ObserveStep, MixInv
<1>2. /\ k \in Key /\ d \in Decision /\ ~d.local /\ cl.stamp \in Nat /\ cl.asked \in Nat
      /\ cache' = Observe(cache, k, d, cl.stamp, cl.asked, now)
      /\ CacheInv(cache) /\ Len(cache.lru) <= MaxEntries /\ now \in Nat
  BY <1>1, ObserveStepFacts, CallFields
<1>3. /\ Len(cl.todo) \in Nat /\ Len(left) = Len(cl.todo) - 1 /\ i = cl.todo[1]
      /\ \A n \in 1 .. Len(left) : left[n] = cl.todo[n + 1]
  BY <1>1, ObserveCallLemma, ZenonT(30)
<1>4. /\ Learns(cache, cache', k, [decision |-> d, asked |-> cl.asked])
      /\ ~cache.closed => cache'.watermark >= d.rev
      /\ cache.closed => cache' = cache
  <2> HIDE DEF cl, k, d
  <2> QED BY <1>2, ObserveLemma, ZenonT(30)
<1>5. /\ cache'.closed = cache.closed /\ cache'.watermark >= cache.watermark
      /\ cache.watermark \in Nat /\ cache'.watermark \in Nat /\ d.rev \in Nat
  <2>1. cache'.closed = cache.closed /\ cache'.watermark >= cache.watermark
    BY <1>4, ZenonT(30) DEF Learns
  <2>2. cache.watermark \in Nat /\ cache'.watermark \in Nat
    BY <1>1, <1>2, ZenonT(30) DEF CacheInv, CacheOK
  <2>3. d.rev \in Nat
    BY <1>2 DEF Decision
  <2> QED BY <2>1, <2>2, <2>3
<1>6. StoredBelow(cache')
  <2>1. CASE cache.closed
    BY <1>1, <1>4, <2>1
  <2>2. CASE ~cache.closed
    <3>1. d.rev <= cache'.watermark
      BY <1>4, <1>5, <2>2
    <3> HIDE DEF k, d, cl
    <3> QED BY <1>1, <1>2, <1>4, <3>1, BelowKept
  <2> QED BY <2>1, <2>2
<1>7. /\ r.reqs = cl.reqs /\ r.batch = cl.batch /\ r.out = cl.out /\ r.hits = cl.hits
      /\ \/ r.pc = "observe" /\ r.todo = left /\ r.again = cl.again
         \/ r.pc = "check" /\ left = <<>>
         \/ r.pc = "return" /\ left = <<>> /\ (~cl.batch \/ cl.again)
  <2>1. cl \in CallType
    BY <1>1, CallFields
  <2> HIDE DEF r, left, cl
  <2> QED BY <1>1, <2>1 DEF CallType, Returning
<1>8. ASSUME ~cache.closed, r.pc # "return" PROVE Seen(r, cache')
  <2>1. ASSUME NEW j \in 1 .. Len(cl.reqs)
        PROVE  \/ cl.out[j].rev <= cache'.watermark
               \/ r.pc = "observe" /\ \E n \in 1 .. Len(left) : left[n] = j
    <3>1. CASE cl.out[j].rev <= cache.watermark
      <4>1. cl.out[j].rev \in Nat
        <5>1. cl.out \in Seq(Decision) /\ DOMAIN cl.out = 1 .. Len(cl.reqs)
          BY <1>1, CallFields, ZenonT(30)
        <5>2. cl.out[j] \in Decision
          BY <5>1
        <5> QED BY <5>2 DEF Decision
      <4> QED BY <1>5, <3>1, <4>1
    <3>2. ASSUME NEW n \in 1 .. Len(cl.todo), cl.todo[n] = j
          PROVE  \/ cl.out[j].rev <= cache'.watermark
                 \/ r.pc = "observe" /\ \E m \in 1 .. Len(left) : left[m] = j
      <4>1. CASE n = 1
        BY <1>3, <1>4, <1>5, <1>8, <3>2, <4>1
      <4>2. CASE n # 1
        <5>1. n - 1 \in 1 .. Len(left) /\ left[n - 1] = j
          BY <1>3, <3>2, <4>2
        <5>2. left # <<>>
          <6> HIDE DEF left
          <6> QED BY <5>1
        <5> QED BY <1>7, <1>8, <5>1, <5>2, ZenonT(30)
      <4> QED BY <4>1, <4>2, ZenonT(30)
    <3> QED BY <1>1, <1>8, <3>1, <3>2, ZenonT(30) DEF MixOK, Seen
  <2> HIDE DEF r, left
  <2> QED BY <1>7, <2>1 DEF Seen
<1>9. MixOK(r, cache')
  <2>1. ~r.batch => Len(r.reqs) <= 1
    BY <1>1, <1>7, ZenonT(30) DEF MixOK
  <2>2. cl.again => cl.hits = <<>>
    BY <1>1 DEF MixOK
  <2> HIDE DEF r
  <2>3. r.pc = "observe" /\ r.again => r.hits = <<>>
    BY <1>7, <2>2, ZenonT(30)
  <2>4. r.pc = "return" => ~r.batch \/ r.hits = <<>>
    BY <1>7, <2>2
  <2> QED BY <1>1, <1>5, <1>8, <2>1, <2>3, <2>4, MixRule, ZenonT(30)
<1> HIDE DEF r
<1> QED BY <1>1, <1>5, <1>6, <1>9, MixStep, ZenonT(30)

\* InvalidateAll and Close leave nothing live and the watermark where it was.
LEMMA DropMix ==
    ASSUME IInv, IInv', MixInv, InvalidateAll \/ Close
    PROVE  MixInv'
<1>1. CacheInv(cache) /\ CacheInv(cache') /\ call' = call /\ cache.watermark \in Nat
  BY DEF IInv, InvalidateAll, Close, CacheInv, CacheOK
<1>2. /\ Live(cache') = {} /\ cache'.watermark = cache.watermark
      /\ cache.closed => cache'.closed
  <2>1. CASE InvalidateAll
    BY <1>1, <2>1, FlushLemma DEF InvalidateAll
  <2>2. CASE Close
    BY <1>1, <2>2, CloseLemma DEF Close
  <2> QED BY <2>1, <2>2
<1>3. StoredBelow(cache')
  BY <1>2 DEF StoredBelow
<1>4. cache'.watermark >= cache.watermark
  BY <1>1, <1>2
<1>5. ASSUME NEW b \in Caller PROVE MixOK(call'[b], cache')
  <2>1. CallOK(call[b]) /\ MixOK(call[b], cache) /\ call'[b] = call[b]
    BY <1>1 DEF IInv, MixInv
  <2> QED BY <1>1, <1>2, <1>4, <2>1, MixKept
<1> QED BY <1>3, <1>5 DEF MixInv

LEMMA NextMix == IInv /\ MixInv /\ [Next]_vars => MixInv'
<1> SUFFICES ASSUME IInv, MixInv, [Next]_vars PROVE MixInv'
  OBVIOUS
<1>1. IInv'
  BY NextInv
<1>2. ASSUME NEW c \in Caller, CallStep(c) PROVE MixInv'
  <2>1. CASE Return(c)
    <3>1. MixOK(Idle, cache) /\ cache' = cache /\ call' = [call EXCEPT ![c] = Idle]
      BY <2>1, NewMix DEF Return, IInv
    <3> QED BY <1>1, <3>1, MixLocalStep, ZenonT(30)
  <2> QED BY <1>1, <1>2, <2>1, BeginMix, GetMix, StampMix, FailMix, AnswerMix, ObserveMix, CheckMix
          DEF CallStep
<1>3. CASE InvalidateAll \/ Close
  BY <1>1, <1>3, DropMix
<1>4. CASE SetClock \/ UNCHANGED vars
  <2>1. cache' = cache /\ call' = call
    BY <1>4 DEF SetClock, vars
  <2> QED BY <2>1 DEF MixInv
<1> QED BY <1>2, <1>3, <1>4 DEF Next

\* DecideBatch: while the cache is open, no item of a returned batch that was
\* read from the cache is of a lower policy revision than another item of the
\* batch, however its gets, observes and second ask interleave with other calls.
THEOREM UnmixedBatches == Spec => []BatchNeverMixesRevisions
<1>1. Init => MixInv
  <2> SUFFICES ASSUME Init PROVE MixInv
    OBVIOUS
  <2>1. CacheInv(cache) /\ Live(cache) = {} /\ \A c \in Caller : call[c] = Idle
    BY InitInv DEF IInv, Init, EmptyCache, Live
  <2> QED BY <2>1, NewMix DEF MixInv, StoredBelow
<1>2. IInv /\ MixInv => BatchNeverMixesRevisions
  <2> SUFFICES ASSUME IInv, MixInv, NEW c \in Caller, call[c].pc = "return", ~cache.closed
               PROVE  \A n \in DOMAIN call[c].hits, j \in DOMAIN call[c].out :
                          call[c].out[call[c].hits[n]].rev >= call[c].out[j].rev
    BY DEF BatchNeverMixesRevisions
  <2>1. Unmixed(call[c])
    BY DEF MixInv, MixOK
  <2>2. DOMAIN call[c].hits = 1 .. Len(call[c].hits) /\ DOMAIN call[c].out = 1 .. Len(call[c].reqs)
    BY CallFields DEF IInv
  <2> QED BY <2>1, <2>2 DEF Unmixed
<1> QED BY <1>1, <1>2, NextMix, Invariance, PTL DEF Spec

-----------------------------------------------------------------------------
(* pep.CachedClient implements AllowCache.                                 *)

Mem == [k \in Key |-> Remembered(cache, k)]
ServedAll == [c \in Caller |-> Served(call[c])]

\* What get adds to a call's reads.
LEMMA ServedByGet ==
    ASSUME NEW cl, CallOK(cl), cl.pc = "get", NEW d \in Decision
    PROVE  LET hit == [cl EXCEPT !.out[cl.pos] = d, !.hits = Append(@, cl.pos)]
               miss == [cl EXCEPT !.todo = Append(@, cl.pos)]
               Done(read) == IF cl.pos < Len(cl.reqs) THEN [read EXCEPT !.pos = @ + 1]
                             ELSE IF read.todo # <<>> THEN [read EXCEPT !.pc = "stamp"]
                             ELSE IF cl.batch THEN [read EXCEPT !.pc = "check"]
                             ELSE Returning(read)
           IN  /\ Served(Done(hit)) = Served(cl) \cup {<<cl.reqs[cl.pos], d>>}
               /\ Served(Done(miss)) = Served(cl)
<1> DEFINE hit == [cl EXCEPT !.out[cl.pos] = d, !.hits = Append(@, cl.pos)]
           miss == [cl EXCEPT !.todo = Append(@, cl.pos)]
           Done(read) == IF cl.pos < Len(cl.reqs) THEN [read EXCEPT !.pos = @ + 1]
                         ELSE IF read.todo # <<>> THEN [read EXCEPT !.pc = "stamp"]
                         ELSE IF cl.batch THEN [read EXCEPT !.pc = "check"]
                         ELSE Returning(read)
           h == Append(cl.hits, cl.pos)
           o == [cl.out EXCEPT ![cl.pos] = d]
           F == {"pc", "batch", "reqs", "pos", "out", "hits", "todo", "again", "stamp", "asked"}
<1>0. /\ cl \in CallType /\ cl.hits \in Seq(Nat) /\ cl.out \in Seq(Decision)
      /\ DOMAIN cl.hits = 1 .. Len(cl.hits) /\ DOMAIN cl.out = 1 .. Len(cl.reqs)
      /\ cl.pos \in 1 .. Len(cl.reqs) /\ cl.pos \in Nat /\ Len(cl.hits) \in Nat
      /\ \A n \in 1 .. Len(cl.hits) : cl.hits[n] \in 1 .. Len(cl.reqs) /\ cl.hits[n] # cl.pos
  <2>1. cl \in CallType
    BY DEF CallOK
  <2>2. cl.hits \in Seq(Nat) /\ cl.out \in Seq(Decision) /\ cl.pos \in Nat
    BY <2>1 DEF CallType
  <2> QED BY <2>1, <2>2, CallFields DEF CallOK
<1>1. ASSUME NEW r, DOMAIN r = F
      PROVE  Served(Done(r)) = Served(r)
  <2> DEFINE x == Done(r)
  <2>1. x.reqs = r.reqs /\ x.hits = r.hits /\ x.out = r.out
    BY <1>1 DEF Returning
  <2> HIDE DEF x
  <2>2. Served(x) = Served(r)
    BY <2>1 DEF Served
  <2> QED BY <2>2 DEF x
<1>2. /\ DOMAIN hit = F /\ hit.reqs = cl.reqs /\ hit.hits = h /\ hit.out = o
      /\ DOMAIN miss = F /\ miss.reqs = cl.reqs /\ miss.hits = cl.hits /\ miss.out = cl.out
  BY <1>0 DEF CallType
<1>3. /\ DOMAIN h = 1 .. Len(cl.hits) + 1
      /\ h[Len(cl.hits) + 1] = cl.pos
      /\ \A n \in 1 .. Len(cl.hits) : h[n] = cl.hits[n]
  BY <1>0, AppendProperties
<1>4. o[cl.pos] = d /\ \A i \in 1 .. Len(cl.reqs) : i # cl.pos => o[i] = cl.out[i]
  BY <1>0
<1> HIDE DEF hit, miss, h, o
<1>5. Served(hit) = Served(cl) \cup {<<cl.reqs[cl.pos], d>>}
  <2>1. Served(hit) = {<<cl.reqs[h[n]], o[h[n]]>> : n \in DOMAIN h}
    BY <1>2 DEF Served
  <2>2. \A n \in 1 .. Len(cl.hits) :
            <<cl.reqs[h[n]], o[h[n]]>> = <<cl.reqs[cl.hits[n]], cl.out[cl.hits[n]]>>
    BY <1>0, <1>3, <1>4
  <2>3. \A n \in DOMAIN h : n \in 1 .. Len(cl.hits) \/ n = Len(cl.hits) + 1
    BY <1>0, <1>3
  <2>4. (\A n \in 1 .. Len(cl.hits) : n \in DOMAIN h) /\ Len(cl.hits) + 1 \in DOMAIN h
    BY <1>0, <1>3
  <2>5. ASSUME NEW x \in Served(hit) PROVE x \in Served(cl) \cup {<<cl.reqs[cl.pos], d>>}
    <3>1. PICK n \in DOMAIN h : x = <<cl.reqs[h[n]], o[h[n]]>>
      BY <2>1, <2>5
    <3>2. CASE n \in 1 .. Len(cl.hits)
      <4>1. x = <<cl.reqs[cl.hits[n]], cl.out[cl.hits[n]]>> /\ n \in DOMAIN cl.hits
        BY <1>0, <2>2, <3>1, <3>2
      <4>2. x \in Served(cl)
        BY <4>1 DEF Served
      <4> QED BY <4>2
    <3>3. CASE n = Len(cl.hits) + 1
      BY <1>3, <1>4, <3>1, <3>3
    <3> QED BY <2>3, <3>2, <3>3
  <2>6. ASSUME NEW x \in Served(cl) PROVE x \in Served(hit)
    <3>1. PICK n \in 1 .. Len(cl.hits) : x = <<cl.reqs[cl.hits[n]], cl.out[cl.hits[n]]>>
      BY <1>0, <2>6 DEF Served
    <3> QED BY <2>1, <2>2, <2>4, <3>1
  <2>7. <<cl.reqs[cl.pos], d>> \in Served(hit)
    BY <1>3, <1>4, <2>1, <2>4
  <2> QED BY <2>5, <2>6, <2>7
<1>6. Served(miss) = Served(cl)
  BY <1>2 DEF Served
<1> HIDE DEF Done
<1>7. Served(Done(hit)) = Served(hit) /\ Served(Done(miss)) = Served(miss)
  BY <1>1, <1>2
<1> QED BY <1>5, <1>6, <1>7 DEF Done, hit, miss

-----------------------------------------------------------------------------
(* Every step maps to a step of the promise, or to a stutter.              *)

\* The refinement mapping leaves the promise's variables alone when the step
\* changes neither what is remembered nor what was served.
LEMMA ServedUpdate ==
    ASSUME IInv, NEW c \in Caller, NEW r, call' = [call EXCEPT ![c] = r]
    PROVE  ServedAll' = [ServedAll EXCEPT ![c] = Served(r)]
<1>1. \A b \in Caller : ServedAll'[b] = IF b = c THEN Served(r) ELSE ServedAll[b]
  BY DEF IInv, ServedAll
<1> QED BY <1>1, ZenonT(30) DEF ServedAll

LEMMA MappingInit ==
    ASSUME Init
    PROVE  Promise!Init
<1>1. Live(cache) = {} /\ cache.watermark = 0
  BY DEF Init, EmptyCache, Live
<1>2. [k \in Key |-> Remembered(cache, k)] = [k \in Key |-> None]
  BY <1>1 DEF Remembered
<1>3. [c \in Caller |-> Served(call[c])] = [c \in Caller |-> {}]
  BY NewCalls DEF Init
<1> QED BY <1>1, <1>2, <1>3 DEF Init, Promise!Init

\* A step that changes only what call c has read, to nothing.
LEMMA FinishRule ==
    ASSUME IInv, NEW c \in Caller, NEW r, call' = [call EXCEPT ![c] = r], Served(r) = {},
           cache' = cache, now' = now, mayStore' \in {mayStore, [mayStore EXCEPT ![c] = {}]}
    PROVE  Promise!Next
<1>0. ServedAll' = [ServedAll EXCEPT ![c] = Served(r)]
  BY ServedUpdate, ZenonT(30)
<1>1. ServedAll' = [ServedAll EXCEPT ![c] = {}]
  BY <1>0, ZenonT(30)
<1>2. Promise!Finish(c)
  BY <1>1 DEF Promise!Finish, ServedAll
<1> QED BY <1>2 DEF Promise!Next

\* A step that changes nothing the promise talks about.
LEMMA StutterRule ==
    ASSUME IInv, NEW c \in Caller, NEW r, call' = [call EXCEPT ![c] = r],
           Served(r) = Served(call[c]), cache' = cache, now' = now, mayStore' = mayStore
    PROVE  UNCHANGED Promise!specVars
<1>1. ServedAll' = ServedAll
  <2>1. ServedAll' = [ServedAll EXCEPT ![c] = Served(r)]
    BY ServedUpdate, ZenonT(30)
  <2> QED BY <2>1 DEF ServedAll
<1> QED BY <1>1 DEF Promise!specVars, ServedAll

LEMMA BeginMaps ==
    ASSUME IInv, NEW c \in Caller, Begin(c)
    PROVE  Promise!Next
<1>1. PICK r \in Requests :
          \/ call' = [call EXCEPT ![c] = r]
          \/ call' = [call EXCEPT ![c] = Returning(r)]
  BY DEF Begin
<1>2. Served(r) = {} /\ Served(Returning(r)) = {}
  BY NewCalls, ReturningLemma
<1>3. cache' = cache /\ now' = now /\ mayStore' = mayStore
  BY DEF Begin
<1> QED BY <1>1, <1>2, <1>3, FinishRule

LEMMA ReturnMaps ==
    ASSUME IInv, NEW c \in Caller, Return(c)
    PROVE  Promise!Next
BY NewCalls, FinishRule, ZenonT(30) DEF Return

LEMMA FailStepMaps ==
    ASSUME IInv, NEW c \in Caller, FailStep(c)
    PROVE  Promise!Next
<1> DEFINE cl == call[c]
           x == [cl EXCEPT !.out = [i \in DOMAIN cl.reqs |-> NoDecision], !.hits = <<>>]
<1>1. /\ call' = [call EXCEPT ![c] = Returning(x)]
      /\ cache' = cache /\ now' = now /\ mayStore' = [mayStore EXCEPT ![c] = {}]
  BY DEF FailStep
<1>2. cl \in CallType
  BY DEF IInv
<1> HIDE DEF cl
<1>3. Returning(x).hits = <<>>
  BY <1>2 DEF Returning, CallType
<1>4. Served(Returning(x)) = {}
  BY <1>3 DEF Served
<1> QED BY <1>1, <1>4, FinishRule, ZenonT(30)

LEMMA CheckStepMaps ==
    ASSUME IInv, NEW c \in Caller, CheckStep(c)
    PROVE  UNCHANGED Promise!specVars
<1> DEFINE cl == call[c]
           again == [cl EXCEPT !.pc = "stamp", !.todo = cl.hits, !.again = TRUE]
<1>1. /\ call' = [call EXCEPT ![c] = Returning(cl)] \/ call' = [call EXCEPT ![c] = again]
      /\ cache' = cache /\ now' = now /\ mayStore' = mayStore
  BY ZenonT(30) DEF CheckStep
<1>2. Served(Returning(cl)) = Served(cl)
  BY ReturningLemma DEF IInv
<1>3. Served(again) = Served(cl)
  <2>1. again.reqs = cl.reqs /\ again.out = cl.out /\ again.hits = cl.hits
    BY DEF IInv, CallType
  <2> HIDE DEF again
  <2> QED BY <2>1 DEF Served
<1> HIDE DEF again
<1> QED BY <1>1, <1>2, <1>3, StutterRule

LEMMA StampStepMaps ==
    ASSUME IInv, NEW c \in Caller, StampStep(c)
    PROVE  Promise!Next
<1> DEFINE cl == call[c]
           r == [cl EXCEPT !.pc = "pdp", !.stamp = cache.seq, !.asked = now]
           keys == {cl.reqs[cl.todo[n]] : n \in DOMAIN cl.todo}
           K == IF cache.closed THEN {} ELSE keys
<1>1. /\ call' = [call EXCEPT ![c] = r] /\ cache' = cache /\ now' = now
      /\ mayStore' = [mayStore EXCEPT ![c] = K]
  BY DEF StampStep
<1>2. Served(r) = Served(cl)
  <2>1. r.reqs = cl.reqs /\ r.out = cl.out /\ r.hits = cl.hits
    BY DEF IInv, CallType
  <2> HIDE DEF r
  <2> QED BY <2>1 DEF Served
<1>3. K \in SUBSET Key
  <2>1. CallOK(cl)
    BY DEF IInv
  <2>2. DOMAIN cl.todo = 1 .. Len(cl.todo) /\ \A n \in 1 .. Len(cl.todo) : cl.reqs[cl.todo[n]] \in Key
    BY <2>1, CallFields
  <2> HIDE DEF cl
  <2> QED BY <2>2
<1> HIDE DEF r, K
<1>4. ServedAll' = ServedAll
  <2>1. ServedAll' = [ServedAll EXCEPT ![c] = Served(r)]
    BY <1>1, ServedUpdate, ZenonT(30)
  <2> QED BY <1>2, <2>1, ZenonT(30) DEF ServedAll
<1>5. Promise!Ask(c)
  BY <1>1, <1>3, <1>4, ZenonT(30) DEF Promise!Ask, ServedAll
<1> QED BY <1>5 DEF Promise!Next

LEMMA AnswerStepMaps ==
    ASSUME IInv, NEW c \in Caller, AnswerStep(c)
    PROVE  Promise!Next \/ UNCHANGED Promise!specVars
<1> DEFINE cl == call[c]
           asked == {cl.todo[n] : n \in DOMAIN cl.todo}
<1>1. /\ CallOK(cl) /\ cl.pc = "pdp"
      /\ cache' = cache /\ now' = now /\ mayStore' = mayStore
  BY DEF IInv, AnswerStep
<1>2. PICK got \in [asked -> Verdict(now)] :
          call' = [call EXCEPT ![c] =
              [cl EXCEPT !.pc = "observe",
                         !.hits = IF cl.again THEN <<>> ELSE @,
                         !.out = [i \in DOMAIN cl.reqs |->
                                     IF i \in asked THEN got[i] ELSE cl.out[i]]]]
  BY ZenonT(30) DEF AnswerStep
<1> DEFINE o == [i \in DOMAIN cl.reqs |-> IF i \in asked THEN got[i] ELSE cl.out[i]]
           h == IF cl.again THEN <<>> ELSE cl.hits
           r == [cl EXCEPT !.pc = "observe", !.hits = h, !.out = o]
<1>3. call' = [call EXCEPT ![c] = r]
  BY <1>2
<1>4. r.hits = h /\ r.out = o /\ r.reqs = cl.reqs
  BY <1>1, CallFields DEF CallType
<1>5. CASE cl.again
  <2>1. r.hits = <<>>
    BY <1>4, <1>5
  <2>2. Served(r) = {}
    <3> HIDE DEF r
    <3> QED BY <2>1 DEF Served
  <2> QED BY <1>1, <1>3, <2>2, FinishRule, ZenonT(30)
<1>6. CASE ~cl.again
  <2>1. \A n \in DOMAIN cl.hits : o[cl.hits[n]] = cl.out[cl.hits[n]]
    <3>1. ASSUME NEW n \in DOMAIN cl.hits
          PROVE  cl.hits[n] \in DOMAIN cl.reqs /\ cl.hits[n] \notin asked
      BY <1>1, <1>6, CallFields, ZenonT(30) DEF CallOK
    <3> QED BY <3>1
  <2>2. Served(r) = Served(cl)
    <3>1. r.hits = cl.hits
      BY <1>4, <1>6
    <3> HIDE DEF r, o, h
    <3> QED BY <1>4, <2>1, <3>1 DEF Served
  <2> QED BY <1>1, <1>3, <2>2, StutterRule, ZenonT(30)
<1> QED BY <1>5, <1>6

LEMMA GetStepMaps ==
    ASSUME IInv, NEW c \in Caller, GetStep(c)
    PROVE  Promise!Next
<1> DEFINE cl == call[c]
           k == cl.reqs[cl.pos]
           e == cache.entries[k]
           d == IF Hit(cache, k, now) THEN e.decision ELSE NoDecision
           hit == [cl EXCEPT !.out[cl.pos] = d, !.hits = Append(@, cl.pos)]
           miss == [cl EXCEPT !.todo = Append(@, cl.pos)]
           Done(read) == IF cl.pos < Len(cl.reqs) THEN [read EXCEPT !.pos = @ + 1]
                         ELSE IF read.todo # <<>> THEN [read EXCEPT !.pc = "stamp"]
                         ELSE IF cl.batch THEN [read EXCEPT !.pc = "check"]
                         ELSE Returning(read)
<1>1. /\ CallOK(cl) /\ cl.pc = "get" /\ CacheInv(cache) /\ Len(cache.lru) <= MaxEntries
      /\ cache' = Get(cache, k, now) /\ now' = now /\ mayStore' = mayStore /\ now \in Nat
  BY ZenonT(30) DEF IInv, GetStep
<1>2. k \in Key
  <2>1. cl.reqs \in Seq(Key) /\ cl.pos \in 1 .. Len(cl.reqs)
    BY <1>1 DEF CallOK, CallType
  <2> QED BY <2>1
<1>3. /\ Shrinks(cache, cache') /\ cache'.watermark = cache.watermark
      /\ Hit(cache, k, now) => cache'.entries = cache.entries
  BY <1>1, <1>2, GetLemma, ZenonT(30)
<1>4. CASE Hit(cache, k, now)
  <2>0. k \in Live(cache) /\ k \in DOMAIN cache.entries
    BY <1>4, ZenonT(30) DEF Hit, Live
  <2>1. e \in Entry
    BY <1>1, <2>0, ZenonT(30) DEF CacheInv, CacheOK
  <2>2. d = e.decision /\ d \in Decision /\ e.asked \in Nat
    BY <1>4, <2>1, ZenonT(30) DEF Entry
  <2>3. /\ Served(Done(hit)) = Served(cl) \cup {<<k, d>>}
    <3> HIDE DEF cl, d
    <3> QED BY <1>1, <2>2, ServedByGet, ZenonT(60)
  <2>4. call' = [call EXCEPT ![c] = Done(hit)]
    BY <1>4 DEF GetStep
  <2> HIDE DEF Done, hit, d
  <2>5. ServedAll' = [ServedAll EXCEPT ![c] = @ \cup {<<k, d>>}]
    <3>1. ServedAll' = [ServedAll EXCEPT ![c] = Served(Done(hit))]
      BY <2>4, ServedUpdate, ZenonT(30)
    <3> QED BY <2>3, <3>1 DEF ServedAll
  <2>6. Mem' = Mem
    <3>1. Live(cache') = Live(cache)
      BY <1>3, <1>4 DEF Live
    <3> QED BY <1>3, <1>4, <3>1 DEF Mem, Remembered
  <2>7. Mem[k] = [decision |-> d, asked |-> e.asked] /\ Mem[k] # None
    <3>1. Mem[k] = [decision |-> d, asked |-> e.asked]
      BY <1>2, <2>0, <2>2, ZenonT(30) DEF Mem, Remembered
    <3>2. [decision |-> d, asked |-> e.asked] # None
      <4>1. "decision" \in DOMAIN [decision |-> d, asked |-> e.asked]
        OBVIOUS
      <4>2. "decision" \notin DOMAIN None
        BY DEF None
      <4> QED BY <4>1, <4>2
    <3> QED BY <3>1, <3>2, ZenonT(30)
  <2>8. Mem[k].decision = d /\ Mem[k].asked = e.asked
    BY <2>7
  <2>9. /\ d.allowed /\ now \in e.asked .. e.asked + MaxTTL - 1 /\ now < d.exp
        /\ d.rev >= cache.watermark
    <3>1. d.allowed
      BY <1>1, <2>0, <2>2, ZenonT(30) DEF CacheInv, StoredOK
    <3>2. Fresh(cache, e.decision, e.asked, now)
      BY <1>4 DEF Hit
    <3>3. now \in e.asked .. e.asked + MaxTTL - 1
      <4> HIDE DEF e
      <4>1. now - e.asked >= 0 /\ now - e.asked < MaxTTL
        BY <3>2 DEF Fresh
      <4> QED BY <1>1, <2>2, <4>1, CacheAssumption
    <3>4. now < d.exp /\ d.rev >= cache.watermark
      BY <2>2, <3>2, ZenonT(30) DEF Fresh
    <3> QED BY <3>1, <3>3, <3>4
  <2>10. Promise!Usable(Mem[k], now)
    BY <2>8, <2>9, ZenonT(30) DEF Promise!Usable
  <2>11. Promise!Serve(c)
    <3> HIDE DEF k, e, cl
    <3>1. /\ Mem[k] # None /\ Promise!Usable(Mem[k], now)
          /\ Mem[k].decision.rev >= cache.watermark
          /\ ServedAll' = [ServedAll EXCEPT ![c] = @ \cup {<<k, Mem[k].decision>>}]
      BY <2>5, <2>7, <2>8, <2>9, <2>10, ZenonT(30)
    <3>2. UNCHANGED <<Mem, mayStore, cache.watermark, now>>
      BY <1>1, <1>3, <2>6
    <3> QED BY <1>2, <3>1, <3>2, ZenonT(30) DEF Promise!Serve, Mem, ServedAll
  <2> QED BY <2>11 DEF Promise!Next
<1>5. CASE ~Hit(cache, k, now)
  <2>1. d = NoDecision /\ d \in Decision
    BY <1>5, ZeroTypes
  <2>2. Served(Done(miss)) = Served(cl)
    <3> HIDE DEF cl, d
    <3> QED BY <1>1, <2>1, ServedByGet, ZenonT(30)
  <2>3. call' = [call EXCEPT ![c] = Done(miss)]
    BY <1>5 DEF GetStep
  <2> HIDE DEF Done, miss, d
  <2>4. ServedAll' = ServedAll
    <3>1. ServedAll' = [ServedAll EXCEPT ![c] = Served(Done(miss))]
      BY <2>3, ServedUpdate, ZenonT(30)
    <3> QED BY <2>2, <3>1, ZenonT(30) DEF ServedAll
  <2>5. Promise!Forget
    BY <1>3 DEF Promise!Forget, Shrinks
  <2>6. Promise!Miss
    BY <1>1, <1>3, <2>4, <2>5 DEF Promise!Miss, ServedAll
  <2> QED BY <2>6 DEF Promise!Next
<1> QED BY <1>4, <1>5

LEMMA ObserveStepMaps ==
    ASSUME IInv, NEW c \in Caller, ObserveStep(c)
    PROVE  Promise!Next
<1> DEFINE cl == call[c]
           k == cl.reqs[Head(cl.todo)]
           d == cl.out[Head(cl.todo)]
           left == Tail(cl.todo)
           denies == ~(d.allowed /\ d.cacheable) /\ ~cache.closed
           m == [decision |-> d, asked |-> cl.asked]
           r == IF left # <<>> THEN [cl EXCEPT !.todo = left]
                ELSE IF cl.batch /\ ~cl.again THEN [cl EXCEPT !.pc = "check", !.todo = left]
                ELSE Returning(cl)
<1>1. CallOK(cl) /\ cl.pc = "observe" /\ mayStore \in [Caller -> SUBSET Key]
  BY DEF IInv, ObserveStep
<1>2. /\ call' = [call EXCEPT ![c] = r] /\ now' = now
      /\ mayStore' = [b \in Caller |->
              IF b = c /\ left = <<>> THEN {}
              ELSE IF denies THEN mayStore[b] \ {k} ELSE mayStore[b]]
  BY DEF ObserveStep
<1>3. /\ k \in Key /\ d \in Decision /\ ~d.local
      /\ cl.stamp \in Nat /\ cl.asked \in Nat
      /\ k \notin mayStore[c] => cache.closed \/ Overtaken(cache, k, cl.stamp)
      /\ cache' = Observe(cache, k, d, cl.stamp, cl.asked, now)
      /\ CacheInv(cache) /\ Len(cache.lru) <= MaxEntries /\ now \in Nat
  BY <1>1, ObserveStepFacts, CallFields, ZenonT(30)
<1>4. Served(r) = Served(cl)
  BY <1>1, ObserveCallLemma, ZenonT(30)
<1>5. /\ Learns(cache, cache', k, m)
      /\ denies => Remembered(cache', k) = None /\ Shrinks(cache, cache')
      /\ \/ Shrinks(cache, cache')
         \/ /\ ~Overtaken(cache, k, cl.stamp) /\ ~cache.closed
            /\ d.allowed /\ now \in cl.asked .. cl.asked + MaxTTL - 1 /\ now < d.exp
  <2> HIDE DEF cl, k, d
  <2> QED BY <1>3, ObserveLemma, ZenonT(30)
<1>6. ServedAll' = ServedAll
  <2> HIDE DEF r
  <2>1. ServedAll' = [ServedAll EXCEPT ![c] = Served(r)]
    BY <1>2, ServedUpdate, ZenonT(30)
  <2> QED BY <1>4, <2>1, ZenonT(30) DEF ServedAll
<1>7. Promise!Learn
  <2>1. ASSUME NEW j \in Key, Remembered(cache', j) # None
        PROVE  Remembered(cache', j).decision.rev >= cache'.watermark
    <3>1. j \in Live(cache') /\ Remembered(cache', j).decision = cache'.entries[j].decision
      BY <2>1 DEF Remembered
    <3>2. CacheInv(cache')
      BY <1>5, ZenonT(30) DEF Learns
    <3> QED BY <3>1, <3>2 DEF CacheInv, StoredOK
  <2>2. cache'.watermark >= cache.watermark
    BY <1>5, ZenonT(30) DEF Learns
  <2> QED BY <1>2, <1>6, <2>1, <2>2, ZenonT(30) DEF Promise!Learn, ServedAll
<1>8. CASE denies
  <2>1. Promise!Forget
    BY <1>5, <1>8, ZenonT(30) DEF Promise!Forget, Shrinks
  <2>2. \A b \in Caller : mayStore'[b] \in {{}, mayStore[b] \ {k}}
    BY <1>2, <1>8
  <2>3. Promise!LearnDeny(k)
    BY <1>3, <1>5, <1>7, <1>8, <2>1, <2>2, ZenonT(30) DEF Promise!LearnDeny
  <2> QED BY <1>3, <2>3, ZenonT(30) DEF Promise!Next
<1>9. CASE ~denies
  <2>1. mayStore' \in {mayStore, [mayStore EXCEPT ![c] = {}]}
    <3>1. CASE left = <<>>
      <4>1. mayStore' = [mayStore EXCEPT ![c] = {}]
        BY <1>1, <1>2, <1>9, <3>1, ZenonT(30)
      <4> QED BY <4>1
    <3>2. CASE left # <<>>
      <4>1. mayStore' = mayStore
        BY <1>1, <1>2, <1>9, <3>2, ZenonT(30)
      <4> QED BY <4>1
    <3> QED BY <3>1, <3>2
  <2>2. \A j \in Key \ {k} : Remembered(cache', j) \in {Remembered(cache, j), None}
    BY <1>5, ZenonT(30) DEF Learns
  <2>3. \/ Remembered(cache', k) \in {Remembered(cache, k), None}
        \/ k \in mayStore[c] /\ Promise!Usable(Remembered(cache', k), now)
    <3>1. CASE Shrinks(cache, cache')
      BY <1>3, <3>1, ZenonT(30) DEF Shrinks
    <3>2. CASE ~Shrinks(cache, cache')
      <4>1. k \in mayStore[c]
        BY <1>3, <1>5, <3>2, ZenonT(30)
      <4>2. Promise!Usable(m, now)
        <5>1. m.decision = d /\ m.asked = cl.asked
          OBVIOUS
        <5> HIDE DEF m
        <5> QED BY <1>5, <3>2, <5>1, ZenonT(30) DEF Promise!Usable
      <4> HIDE DEF m
      <4> QED BY <1>5, <4>1, <4>2, ZenonT(30) DEF Learns
    <3> QED BY <3>1, <3>2, ZenonT(30)
  <2>4. Promise!LearnAllow(c, k)
    <3> HIDE DEF k, cl, d, left, denies
    <3> QED BY <1>3, <1>7, <2>1, <2>2, <2>3 DEF Promise!LearnAllow
  <2> QED BY <1>3, <2>4, ZenonT(30) DEF Promise!Next
<1> QED BY <1>8, <1>9

\* A step that empties the cache.
LEMMA DropRule ==
    ASSUME Live(cache') = {}, cache'.watermark = cache.watermark,
           mayStore' = [c \in Caller |-> {}], call' = call, now' = now
    PROVE  Promise!Next
<1>1. [k \in Key |-> Remembered(cache', k)] = [k \in Key |-> None]
  BY DEF Remembered
<1>2. Promise!Drop
  BY <1>1 DEF Promise!Drop
<1> QED BY <1>2 DEF Promise!Next

LEMMA StepMaps ==
    ASSUME IInv, [Next]_vars
    PROVE  [Promise!Next]_(Promise!specVars)
<1>1. ASSUME NEW c \in Caller, CallStep(c)
      PROVE  Promise!Next \/ UNCHANGED Promise!specVars
  BY <1>1, BeginMaps, GetStepMaps, StampStepMaps, FailStepMaps, AnswerStepMaps,
     ObserveStepMaps, CheckStepMaps, ReturnMaps DEF CallStep
<1>2. CASE InvalidateAll
  <2>1. /\ cache' = Flush(cache) /\ mayStore' = [c \in Caller |-> {}]
        /\ call' = call /\ now' = now /\ CacheInv(cache)
    BY <1>2 DEF IInv, InvalidateAll
  <2>2. Live(cache') = {} /\ cache'.watermark = cache.watermark
    BY <2>1, FlushLemma
  <2> QED BY <2>1, <2>2, DropRule
<1>3. CASE Close
  <2>1. /\ cache' = Clear([cache EXCEPT !.closed = TRUE])
        /\ mayStore' = [c \in Caller |-> {}]
        /\ call' = call /\ now' = now /\ CacheInv(cache)
    BY <1>3 DEF IInv, Close
  <2>2. Live(cache') = {} /\ cache'.watermark = cache.watermark
    BY <2>1, CloseLemma
  <2> QED BY <2>1, <2>2, DropRule, ZenonT(30)
<1>4. CASE SetClock
  <2>1. Promise!Clock
    BY <1>4, CacheAssumption DEF SetClock, Promise!Clock
  <2> QED BY <2>1 DEF Promise!Next
<1>5. CASE UNCHANGED vars
  BY <1>5 DEF vars, Promise!specVars
<1> QED BY <1>1, <1>2, <1>3, <1>4, <1>5 DEF Next

\* The stamps, tombstones and eviction floor of CachedClient implement the
\* promise: an allow is learned only from a PDP call that no uncacheable
\* verdict, flush or close overtook, and every lookup serves an allow inside
\* its lifetime and at or above the watermark.
THEOREM CacheImplementsPromise == Spec => ImplementsPromise
<1>1. Init => Promise!Init
  BY MappingInit
<1>2. IInv /\ [Next]_vars => [Promise!Next]_(Promise!specVars)
  BY StepMaps
<1> QED BY <1>1, <1>2, Invariance, PTL DEF Spec, ImplementsPromise, Promise!Spec

=============================================================================
