----------------------------- MODULE PumpProofs -----------------------------
(***************************************************************************)
(* Theorems about StreamPump, for any set of ticks, any page limit, any    *)
(* mark of the socket and any number of entries.                           *)
(***************************************************************************)
EXTENDS StreamPump, FiniteSetTheorems, WellFoundedInduction, TLAPS

-----------------------------------------------------------------------------
(* StreamPump: entries in order.                                           *)

\* The induction over the natural numbers the lemmas need: a set of them that is not
\* empty has a least member.
Below == {p \in Nat \X Nat : p[1] < p[2]}

LEMMA LeastMember ==
  ASSUME NEW T \in SUBSET Nat, T # {}
  PROVE  \E x \in T : \A y \in T : x <= y
<1>1. OpToRel(<, Nat) = Below
  BY Zenon DEF OpToRel, Below
<1>2. IsWellFoundedOn(Below, Nat)
  BY <1>1, NatLessThanWellFounded, Zenon
<1>3. PICK x \in T : \A y \in T : <<y, x>> \notin Below
  BY <1>2, WFMin
<1>4. ASSUME NEW y \in T PROVE x <= y
  <2>1. x \in Nat /\ y \in Nat /\ <<y, x>> \in Nat \X Nat /\ <<y, x>>[1] = y /\ <<y, x>>[2] = x
    BY Zenon
  <2>2. ~(y < x)
    BY <1>3, <2>1 DEF Below
  <2>3. QED
    BY <2>1, <2>2
<1>5. QED
  BY <1>4

LEMMA InRange ==
  ASSUME NEW S, NEW s \in Seq(S)
  PROVE  \A x : x \in Range(s) <=> \E i \in 1 .. Len(s) : x = s[i]
<1>1. DOMAIN s = 1 .. Len(s)
  OBVIOUS
<1>2. QED
  BY <1>1 DEF Range

LEMMA SeqWider ==
  ASSUME NEW S, NEW T, S \subseteq T, NEW s \in Seq(S)
  PROVE  s \in Seq(T)
<1>1. \A i \in 1 .. Len(s) : s[i] \in T
  OBVIOUS
<1>2. s = [i \in 1 .. Len(s) |-> s[i]] /\ Len(s) \in Nat
  OBVIOUS
<1>3. QED
  BY <1>1, <1>2

Ordered(some) == \E s \in [1 .. Cardinality(some) -> some] : Lists(s, some)

LEMMA FiniteSome ==
  ASSUME NEW n \in Nat, NEW some \in SUBSET (1 .. n)
  PROVE  IsFiniteSet(some) /\ Cardinality(some) \in Nat
<1>1. IsFiniteSet(1 .. n)
  BY FS_Interval
<1>2. IsFiniteSet(some)
  BY <1>1, FS_Subset
<1>3. QED
  BY <1>2, FS_CardinalityType

\* Any entries can be put in order.
LEMMA CanBeOrdered ==
  ASSUME NEW n \in Nat, NEW some \in SUBSET (1 .. n)
  PROVE  Ordered(some)
<1> DEFINE Fails == {m \in Nat : \E S \in SUBSET (1 .. m) : ~Ordered(S)}
<1>1. ASSUME NEW m \in Nat, \A k \in Nat : k < m => k \notin Fails, NEW S \in SUBSET (1 .. m)
      PROVE  Ordered(S)
  <2>0. IsFiniteSet(S) /\ Cardinality(S) \in Nat
    BY FiniteSome
  <2>1. CASE m = 0
    <3>0. S = {}
      BY <2>1
    <3>1. Cardinality(S) = 0
      BY <3>0, FS_EmptySet
    <3> DEFINE s == [i \in {} |-> i]
    <3>2. s \in [1 .. 0 -> {}] /\ Lists(s, {})
      BY DEF Range, Lists
    <3>3. QED
      BY <3>0, <3>1, <3>2 DEF Ordered
  <2>2. CASE m # 0 /\ m \notin S
    <3>1. S \in SUBSET (1 .. (m - 1)) /\ m - 1 \in Nat /\ m - 1 < m
      BY <2>2
    <3>2. QED
      BY <1>1, <3>1
  <2>3. CASE m # 0 /\ m \in S
    <3> DEFINE R == S \ {m}
               k == Cardinality(R)
    <3>1. R \in SUBSET (1 .. (m - 1)) /\ m - 1 \in Nat /\ m - 1 < m
      BY <2>3
    <3>2. Ordered(R)
      BY <1>1, <3>1
    <3>3. k \in Nat /\ Cardinality(S) = k + 1
      <4>1. k = Cardinality(S) - 1
        BY <2>0, <2>3, FS_RemoveElement
      <4>2. k \in Nat
        BY <3>1, FiniteSome
      <4>3. QED
        BY <2>0, <4>1, <4>2
    <3> HIDE DEF k
    <3>4. PICK r \in [1 .. k -> R] : Lists(r, R)
      BY <3>2 DEF Ordered, k
    <3> DEFINE s == [i \in 1 .. (k + 1) |-> IF i = k + 1 THEN m ELSE r[i]]
    <3>5. s \in [1 .. (k + 1) -> S]
      BY <2>3, <3>3
    <3>6. s[k + 1] = m /\ \A i \in 1 .. k : s[i] = r[i] /\ i \in 1 .. (k + 1)
      BY <3>3
    <3>7. Range(s) = S
      <4>1. \A x \in R : \E i \in 1 .. k : x = r[i]
        BY <3>4 DEF Range, Lists
      <4>2. \A x \in S : \E i \in 1 .. (k + 1) : x = s[i]
        BY <3>3, <3>6, <4>1
      <4>3. QED
        BY <3>5, <4>2 DEF Range
    <3>8. Lists(s, S)
      <4>1. \A i \in 1 .. k : r[i] \in Nat /\ r[i] < m
        <5>1. \A x \in R : x \in Nat /\ x < m
          BY <3>1
        <5>2. QED
          BY <3>4, <5>1
      <4>2. DOMAIN s = 1 .. (k + 1) /\ DOMAIN r = 1 .. k
        OBVIOUS
      <4> HIDE DEF s
      <4>3. ASSUME NEW i \in 1 .. (k + 1), NEW j \in 1 .. (k + 1), i < j
            PROVE  s[i] < s[j]
        <5>1. i \in 1 .. k
          BY <3>3, <4>3
        <5>2. CASE j = k + 1
          BY <3>6, <4>1, <5>1, <5>2
        <5>3. CASE j # k + 1
          <6>1. j \in 1 .. k
            BY <3>3, <5>3
          <6>2. QED
            BY <3>4, <3>6, <4>2, <4>3, <5>1, <6>1 DEF Lists
        <5>4. QED
          BY <5>2, <5>3
      <4>4. QED
        BY <3>7, <4>2, <4>3 DEF Lists
    <3>9. QED
      BY <3>3, <3>5, <3>8 DEF Ordered
  <2>4. QED
    BY <2>1, <2>2, <2>3
<1>2. Fails = {}
  <2> SUFFICES ASSUME Fails # {} PROVE FALSE
    OBVIOUS
  <2>1. Fails \in SUBSET Nat
    OBVIOUS
  <2> HIDE DEF Fails
  <2>2. PICK m \in Fails : \A k \in Fails : m <= k
    BY <2>1, LeastMember
  <2>3. m \in Nat
    BY <2>1
  <2>4. \A k \in Nat : k < m => k \notin Fails
    BY <2>2, <2>3
  <2>5. QED
    BY <1>1, <2>3, <2>4 DEF Fails
<1>3. QED
  BY <1>2

LEMMA InOrderIs ==
  ASSUME NEW n \in Nat, NEW some \in SUBSET (1 .. n)
  PROVE  InOrder(some) \in Seq(some) /\ Lists(InOrder(some), some)
<1>1. InOrder(some) \in [1 .. Cardinality(some) -> some] /\ Lists(InOrder(some), some)
  BY CanBeOrdered DEF Ordered, InOrder
<1>2. Cardinality(some) \in Nat
  BY FiniteSome
<1>3. QED
  BY <1>1, <1>2

-----------------------------------------------------------------------------
(* StreamPump: the inductive invariant.                                    *)

\* One tick is under way at a time.  It asked from the pump's place, which stays
\* until it has written, and does not find the pump paused.
OneTick ==
  /\ \A t, u \in InFlight : t = u
  /\ \A t \in InFlight : ~paused /\ tick[t].from = position
  /\ \A t \in Ticks : tick[t].stage = "answered" =>
       tick[t].from <= tick[t].mark /\ tick[t].mark <= Len(entries)

\* The socket at its mark has asked to wait; beyond it the pump waits.
SocketWaits ==
  /\ buffer >= HighWater => needDrain
  /\ buffer > HighWater => paused

PumpInv == PumpTypeOK /\ OneTick /\ SocketWaits /\ WrittenOnce /\ Backpressure

LEMMA PumpStarts == PumpInit => PumpInv
<1> SUFFICES ASSUME PumpInit PROVE PumpInv
  OBVIOUS
<1> USE PumpLimitAssumption, PumpBoundAssumption
<1>1. PICK t \in Ticks : tick = [u \in Ticks |-> IF u = t THEN [Idle EXCEPT !.stage = "asked"] ELSE Idle]
  BY DEF PumpInit
<1>2. Idle \in Tick /\ [Idle EXCEPT !.stage = "asked"] \in Tick /\ Idle.stage = "idle"
      /\ [Idle EXCEPT !.stage = "asked"].stage = "asked" /\ [Idle EXCEPT !.stage = "asked"].from = 0
  BY DEF Idle, Tick
<1>3. tick \in [Ticks -> Tick]
  BY <1>1, <1>2
<1>4. /\ entries = <<>> /\ position = 0 /\ ~paused /\ ~stopped /\ ~serving /\ open /\ buffer = 0
      /\ ~needDrain /\ sent = <<>>
  BY DEF PumpInit
<1>5. PumpTypeOK
  <2>1. paused \in BOOLEAN /\ stopped \in BOOLEAN /\ serving \in BOOLEAN /\ open \in BOOLEAN /\ needDrain \in BOOLEAN
    BY Zenon DEF PumpInit
  <2>2. entries \in Seq(BOOLEAN) /\ Len(entries) <= MaxLen /\ position \in 0 .. Len(entries) /\ buffer \in Nat
        /\ sent \in Seq(1 .. MaxLen)
    BY <1>4
  <2>3. QED
    BY <1>3, <2>1, <2>2 DEF PumpTypeOK
<1>6. InFlight = {t} /\ tick[t].from = 0 /\ \A u \in Ticks : tick[u].stage \in {"idle", "asked"}
  BY <1>1, <1>2 DEF InFlight
<1>7. OneTick /\ SocketWaits
  BY <1>4, <1>6 DEF OneTick, SocketWaits
<1>8. WrittenOnce
  BY <1>4 DEF WrittenOnce, Range, Lists
<1>9. QED
  BY <1>4, <1>5, <1>7, <1>8 DEF PumpInv, Backpressure

\* A tick under way, ended or asking.
LEMMA TickFacts ==
  ASSUME PumpInv
  PROVE  /\ tick \in [Ticks -> Tick]
         /\ \A t \in Ticks : t \in InFlight <=> tick[t].stage # "idle"
         /\ Idle \in Tick /\ Idle.stage = "idle"
         /\ position \in Nat /\ Len(entries) \in Nat /\ position <= Len(entries) /\ Len(entries) <= MaxLen
         /\ entries \in Seq(BOOLEAN) /\ MaxLen \in Nat
  BY PumpBoundAssumption DEF PumpInv, PumpTypeOK, InFlight, Idle, Tick

\* A tick begins: none is under way, and the pump does not wait once it does.
LEMMA AskKeeps ==
  ASSUME PumpInv, NEW t \in Ticks, Ask(t), ~paused', UNCHANGED <<entries, position>>
  PROVE  tick' \in [Ticks -> Tick] /\ OneTick'
<1>1. /\ InFlight = {}
      /\ tick' = [tick EXCEPT ![t] = [stage |-> "asked", from |-> position, mark |-> 0]]
  BY DEF Ask, MayTick
<1> DEFINE new == [stage |-> "asked", from |-> position, mark |-> 0]
<1>2. new \in Tick /\ new.stage = "asked" /\ new.from = position
  <2>1. position \in 0 .. MaxLen /\ 0 \in 0 .. MaxLen
    BY TickFacts
  <2>2. QED
    BY <2>1 DEF Tick
<1> HIDE DEF new
<1>3. tick' \in [Ticks -> Tick] /\ tick'[t] = new /\ \A u \in Ticks \ {t} : tick'[u] = tick[u]
  BY <1>1, <1>2, TickFacts DEF new
<1>4. \A u \in Ticks \ {t} : tick'[u].stage = "idle"
  BY <1>1, <1>3 DEF InFlight
<1>5. InFlight' = {t}
  BY <1>2, <1>3, <1>4 DEF InFlight
<1>6. QED
  BY <1>2, <1>3, <1>4, <1>5 DEF OneTick

\* A tick ends: none is under way.
LEMMA EndKeeps ==
  ASSUME PumpInv, NEW t \in InFlight, EndTick(t)
  PROVE  /\ tick' \in [Ticks -> Tick] /\ InFlight' = {} /\ serving' \in BOOLEAN
         /\ \A u \in Ticks : tick'[u].stage = "idle"
<1>1. tick' = [tick EXCEPT ![t] = Idle] /\ serving' = TRUE
  BY DEF EndTick
<1>2. t \in Ticks /\ \A u \in Ticks \ {t} : tick[u].stage = "idle"
  BY DEF InFlight, PumpInv, OneTick
<1>3. tick' \in [Ticks -> Tick] /\ \A u \in Ticks : tick'[u].stage = "idle"
  BY <1>1, <1>2, TickFacts
<1>4. serving' \in BOOLEAN
  BY <1>1, Zenon
<1>5. QED
  BY <1>3, <1>4 DEF InFlight

\* What the page's entries are, in order.
LEMMA ItemsAre ==
  ASSUME PumpInv, NEW t \in Ticks, tick[t].stage = "answered"
  PROVE  /\ Items(t) \in Seq(1 .. tick[t].mark)
         /\ Lists(Items(t), {i \in 1 .. tick[t].mark : i > position /\ entries[i]})
         /\ tick[t].mark \in Nat /\ position <= tick[t].mark /\ tick[t].mark <= Len(entries)
<1> DEFINE some == {i \in 1 .. tick[t].mark : i > tick[t].from /\ entries[i]}
<1>1. t \in InFlight /\ tick[t].from = position /\ tick[t].from <= tick[t].mark /\ tick[t].mark <= Len(entries)
  BY DEF PumpInv, OneTick, InFlight
<1>2. tick[t].mark \in Nat
  BY TickFacts DEF Tick
<1>3. some \in SUBSET (1 .. tick[t].mark)
  OBVIOUS
<1>4. Items(t) = InOrder(some)
  BY DEF Items
<1> HIDE DEF some
<1>5. InOrder(some) \in Seq(some) /\ Lists(InOrder(some), some)
  BY <1>2, <1>3, InOrderIs
<1>6. InOrder(some) \in Seq(1 .. tick[t].mark)
  BY <1>3, <1>5, SeqWider
<1>7. QED
  BY <1>1, <1>2, <1>4, <1>5, <1>6 DEF some

\* Entries beyond what was written, written in order.
LEMMA Appends ==
  ASSUME NEW n \in Nat, NEW written, NEW page,
         NEW s \in Seq(1 .. n), NEW out \in Seq(1 .. n), Lists(s, written), Lists(out, page),
         \A i \in written, j \in page : i < j
  PROVE  s \o out \in Seq(1 .. n) /\ Lists(s \o out, written \cup page)
<1>1. s \o out \in Seq(1 .. n) /\ Len(s \o out) = Len(s) + Len(out) /\ Len(s) \in Nat /\ Len(out) \in Nat
  OBVIOUS
<1>r. /\ \A x : x \in Range(s) <=> \E i \in 1 .. Len(s) : x = s[i]
      /\ \A x : x \in Range(out) <=> \E i \in 1 .. Len(out) : x = out[i]
      /\ \A x : x \in Range(s \o out) <=> \E i \in 1 .. Len(s \o out) : x = (s \o out)[i]
  <2>1. \A x : x \in Range(s \o out) <=> \E i \in 1 .. Len(s \o out) : x = (s \o out)[i]
    BY <1>1, InRange
  <2>2. QED
    BY <2>1, InRange
<1>2. /\ \A i \in 1 .. Len(s) : (s \o out)[i] = s[i] /\ s[i] \in Range(s)
      /\ \A i \in (Len(s) + 1) .. Len(s \o out) :
           /\ i - Len(s) \in 1 .. Len(out)
           /\ (s \o out)[i] = out[i - Len(s)] /\ out[i - Len(s)] \in Range(out)
  BY <1>r, <1>1
<1>0. Range(s) = written /\ Range(out) = page
  BY DEF Lists
<1>3. \A i, j \in DOMAIN (s \o out) : i < j => (s \o out)[i] < (s \o out)[j]
  <2>1. ASSUME NEW i \in 1 .. Len(s \o out), NEW j \in 1 .. Len(s \o out), i < j
        PROVE  (s \o out)[i] < (s \o out)[j]
    <3>1. CASE j \in 1 .. Len(s)
      <4>1. i \in 1 .. Len(s)
        BY <2>1, <3>1
      <4>2. s[i] < s[j]
        BY <2>1, <3>1, <4>1 DEF Lists
      <4>3. QED
        BY <1>2, <3>1, <4>1, <4>2
    <3>2. CASE i \in 1 .. Len(s) /\ j \in (Len(s) + 1) .. Len(s \o out)
      BY <1>0, <1>2, <3>2
    <3>3. CASE i \in (Len(s) + 1) .. Len(s \o out) /\ j \in (Len(s) + 1) .. Len(s \o out)
      <4>1. out[i - Len(s)] < out[j - Len(s)]
        BY <1>1, <1>2, <2>1, <3>3 DEF Lists
      <4>2. QED
        BY <1>2, <3>3, <4>1
    <3>4. QED
      BY <1>1, <2>1, <3>1, <3>2, <3>3
  <2>2. QED
    BY <1>1, <2>1
<1>4. Range(s \o out) = Range(s) \cup Range(out)
  <2>1. \A x \in Range(s) : x \in Range(s \o out)
    BY <1>r, <1>1, <1>2
  <2>2. ASSUME NEW x \in Range(out) PROVE x \in Range(s \o out)
    <3>1. PICK i \in 1 .. Len(out) : x = out[i]
      BY <1>r
    <3>2. i + Len(s) \in (Len(s) + 1) .. Len(s \o out) /\ (i + Len(s)) - Len(s) = i
      BY <1>1
    <3>3. (s \o out)[i + Len(s)] = x
      BY <1>2, <3>1, <3>2
    <3>4. i + Len(s) \in 1 .. Len(s \o out)
      BY <1>1, <3>2
    <3>5. QED
      BY <1>r, <3>3, <3>4
  <2>3. \A x \in Range(s \o out) : x \in Range(s) \cup Range(out)
    BY <1>r, <1>1, <1>2
  <2>4. QED
    BY <2>1, <2>2, <2>3
<1>5. QED
  BY <1>0, <1>1, <1>3, <1>4 DEF Lists

\* A beginning of ascending entries is all of them up to the one it ends with.
LEMMA Begins ==
  ASSUME NEW n \in Nat, NEW some, NEW out \in Seq(1 .. n), Lists(out, some), NEW m \in 1 .. Len(out)
  PROVE  /\ SubSeq(out, 1, m) \in Seq(1 .. n) /\ Len(SubSeq(out, 1, m)) = m
         /\ out[m] \in some
         /\ Lists(SubSeq(out, 1, m), {i \in some : i <= out[m]})
<1>0. Len(out) \in Nat /\ m \in Nat /\ m <= Len(out) /\ \A i \in 1 .. Len(out) : out[i] \in Nat
  OBVIOUS
<1>1. /\ SubSeq(out, 1, m) \in Seq(1 .. n) /\ Len(SubSeq(out, 1, m)) = m
      /\ \A i \in 1 .. m : SubSeq(out, 1, m)[i] = out[i]
  BY <1>0
<1>2. \A i, j \in DOMAIN SubSeq(out, 1, m) : i < j => SubSeq(out, 1, m)[i] < SubSeq(out, 1, m)[j]
  BY <1>0, <1>1 DEF Lists
<1>r. /\ \A x : x \in Range(out) <=> \E i \in 1 .. Len(out) : x = out[i]
      /\ \A x : x \in Range(SubSeq(out, 1, m)) <=>
           \E i \in 1 .. Len(SubSeq(out, 1, m)) : x = SubSeq(out, 1, m)[i]
  BY <1>1, InRange
<1>3. ASSUME NEW i \in 1 .. Len(out) PROVE out[i] <= out[m] <=> i <= m
  <2>1. i < m => out[i] < out[m]
    BY <1>0 DEF Lists
  <2>2. m < i => out[m] < out[i]
    BY <1>0 DEF Lists
  <2>3. QED
    BY <1>0, <2>1, <2>2
<1>4. Range(SubSeq(out, 1, m)) = {i \in Range(out) : i <= out[m]}
  <2>1. \A x \in Range(SubSeq(out, 1, m)) : x \in Range(out) /\ x <= out[m]
    BY <1>r, <1>0, <1>1, <1>3
  <2>2. \A x \in Range(out) : x <= out[m] => x \in Range(SubSeq(out, 1, m))
    BY <1>r, <1>0, <1>1, <1>3
  <2>3. QED
    BY <2>1, <2>2
<1>5. out[m] \in Range(out)
  BY <1>r
<1>6. Range(out) = some
  BY DEF Lists
<1>7. QED
  BY <1>1, <1>2, <1>4, <1>5, <1>6 DEF Lists

\* What a page written does: the place moves on to the last entry written or scanned,
\* what was written stays what the filter keeps up to there, and the socket takes no
\* more than one frame beyond its mark.
LEMMA WriteKeeps ==
  ASSUME PumpInv, NEW t \in Ticks, tick[t].stage = "answered", WriteOut(t), UNCHANGED <<entries, open>>
  PROVE  /\ position' \in 0 .. Len(entries) /\ paused' \in BOOLEAN /\ needDrain' \in BOOLEAN
         /\ buffer' \in Nat /\ sent' \in Seq(1 .. MaxLen) /\ position <= position'
         /\ WrittenOnce' /\ SocketWaits' /\ Backpressure'
<1> USE PumpLimitAssumption
<1> DEFINE n == Len(entries)
           items == Items(t)
           full == Len(items) >= Room
           out == IF full THEN SubSeq(items, 1, Room) ELSE items
<1>0. /\ n \in Nat /\ position \in Nat /\ position <= n /\ n <= MaxLen /\ MaxLen \in Nat
      /\ buffer \in Nat /\ sent \in Seq(1 .. MaxLen) /\ paused \in BOOLEAN /\ needDrain \in BOOLEAN
      /\ HighWater \in Nat \ {0}
  BY TickFacts DEF PumpInv, PumpTypeOK
<1>1. /\ items \in Seq(1 .. tick[t].mark)
      /\ Lists(items, {i \in 1 .. tick[t].mark : i > position /\ entries[i]})
      /\ tick[t].mark \in Nat /\ position <= tick[t].mark /\ tick[t].mark <= n
  BY ItemsAre
<1>2. Room \in Nat \ {0} /\ (open /\ buffer < HighWater => Room = HighWater - buffer)
                        /\ (~(open /\ buffer < HighWater) => Room = 1)
  BY <1>0 DEF Room
<1>3. ~paused
  BY DEF PumpInv, OneTick, InFlight
<1>4. items \in Seq(1 .. n) /\ Len(items) \in Nat
  <2>1. 1 .. tick[t].mark \subseteq 1 .. n
    BY <1>0, <1>1
  <2>2. QED
    BY <1>1, <2>1, SeqWider
<1>5. /\ position' = IF full THEN items[Room] ELSE tick[t].mark
      /\ paused' = full
      /\ IF open THEN /\ buffer' = buffer + Len(out)
                      /\ needDrain' = (needDrain \/ full)
                      /\ sent' = sent \o out
                 ELSE UNCHANGED <<buffer, needDrain, sent>>
  BY <1>2, <1>4 DEF WriteOut, Place
<1> HIDE DEF items
<1> DEFINE page == {i \in 1 .. tick[t].mark : i > position /\ entries[i]}
<1>6. /\ position' \in position .. n /\ position' <= tick[t].mark
      /\ out \in Seq(1 .. n) /\ Lists(out, {i \in page : i <= position'})
      /\ Len(out) \in Nat /\ Len(out) <= Room /\ (~full => Len(out) < Room)
  <2>1. CASE full
    <3>1. Room \in 1 .. Len(items) /\ position' = items[Room] /\ out = SubSeq(items, 1, Room)
      BY <1>2, <1>4, <1>5, <2>1
    <3>2. /\ SubSeq(items, 1, Room) \in Seq(1 .. n) /\ Len(SubSeq(items, 1, Room)) = Room
          /\ items[Room] \in page /\ Lists(SubSeq(items, 1, Room), {i \in page : i <= items[Room]})
      <4>1. Lists(items, page) /\ n \in Nat /\ Room \in 1 .. Len(items) /\ items \in Seq(1 .. n)
        BY <1>0, <1>1, <1>4, <3>1
      <4> HIDE DEF page, n
      <4>2. QED
        BY <4>1, Begins
    <3>3. position' \in Nat /\ position' > position /\ position' <= tick[t].mark
      BY <1>1, <3>1, <3>2
    <3>4. QED
      BY <1>0, <1>1, <1>2, <2>1, <3>1, <3>2, <3>3
  <2>2. CASE ~full
    <3>1. position' = tick[t].mark /\ out = items
      BY <1>5, <2>2
    <3>2. page = {i \in page : i <= tick[t].mark}
      BY <1>1
    <3>3. Lists(items, {i \in page : i <= tick[t].mark})
      BY <1>1, <3>2
    <3>4. QED
      BY <1>0, <1>1, <1>2, <1>4, <2>2, <3>1, <3>3
  <2>3. QED
    BY <2>1, <2>2
<1>b. full \in BOOLEAN
  OBVIOUS
<1> HIDE DEF out, full
<1>d. paused' \in BOOLEAN /\ needDrain' \in BOOLEAN
  <2>1. paused' = full /\ needDrain' \in {needDrain, needDrain \/ full}
    BY <1>5
  <2>2. (needDrain \/ full) \in BOOLEAN
    OBVIOUS
  <2>3. QED
    BY <1>0, <1>b, <2>1, <2>2
<1>7. sent' \in Seq(1 .. MaxLen) /\ WrittenOnce'
  <2>1. CASE open
    <3>1. 1 .. n \subseteq 1 .. MaxLen
      BY <1>0
    <3>2. out \in Seq(1 .. MaxLen)
      BY <1>6, <3>1, SeqWider
    <3> DEFINE old == {i \in 1 .. position : entries[i]}
               new == {i \in page : i <= position'}
    <3>3. Lists(sent, old)
      BY <2>1 DEF PumpInv, WrittenOnce
    <3>4. position' \in Nat /\ position <= position' /\ position' <= tick[t].mark
      BY <1>0, <1>6
    <3>5. \A i \in old, j \in new : i < j
      BY <1>0
    <3>6. old \cup new = {i \in 1 .. position' : entries[i]}
      BY <1>0, <1>1, <3>4
    <3>7. Lists(out, new)
      BY <1>6
    <3> HIDE DEF old, new
    <3>8. sent \o out \in Seq(1 .. MaxLen) /\ Lists(sent \o out, old \cup new)
      BY <1>0, <3>2, <3>3, <3>5, <3>7, Appends
    <3>9. QED
      BY <1>5, <2>1, <3>6, <3>8 DEF WrittenOnce
  <2>2. CASE ~open
    BY <1>0, <1>5, <2>2 DEF WrittenOnce
  <2>3. QED
    BY <2>1, <2>2
<1>8. buffer <= HighWater /\ (buffer >= HighWater => needDrain)
  BY <1>0, <1>3 DEF PumpInv, SocketWaits
<1>9. buffer' \in Nat /\ SocketWaits' /\ Backpressure'
  <2>1. CASE open
    <3>1. buffer' = buffer + Len(out) /\ (full => paused' /\ needDrain') /\ (needDrain => needDrain')
      BY <1>5, <2>1
    <3>2. CASE buffer < HighWater
      BY <1>0, <1>2, <1>6, <2>1, <3>1, <3>2 DEF SocketWaits, Backpressure
    <3>3. CASE buffer = HighWater
      BY <1>0, <1>2, <1>6, <1>8, <2>1, <3>1, <3>3 DEF SocketWaits, Backpressure
    <3>4. QED
      BY <1>0, <1>8, <3>2, <3>3
  <2>2. CASE ~open
    BY <1>0, <1>5, <1>8, <2>2 DEF SocketWaits, Backpressure
  <2>3. QED
    BY <2>1, <2>2
<1>10. QED
  BY <1>0, <1>6, <1>7, <1>9, <1>d

\* What is left alone: the pump's and the socket's typing as one fact.
LEMMA PumpRanges ==
  ASSUME PumpInv
  PROVE  /\ paused \in BOOLEAN /\ stopped \in BOOLEAN /\ serving \in BOOLEAN
         /\ open \in BOOLEAN /\ needDrain \in BOOLEAN
         /\ buffer \in Nat /\ sent \in Seq(1 .. MaxLen) /\ position \in 0 .. Len(entries)
  BY Zenon DEF PumpInv, PumpTypeOK

\* A step that leaves what was written and what the socket holds alone.
LEMMA TickMoves ==
  ASSUME PumpInv, tick' \in [Ticks -> Tick], OneTick', serving' \in BOOLEAN,
         UNCHANGED <<entries, position, paused, stopped, socket, sent>>
  PROVE  PumpInv'
<1>1. PumpTypeOK'
  BY Zenon DEF PumpInv, PumpTypeOK, socket
<1>2. SocketWaits' /\ WrittenOnce' /\ Backpressure'
  BY DEF PumpInv, SocketWaits, WrittenOnce, Backpressure, socket
<1>3. QED
  BY <1>1, <1>2 DEF PumpInv

LEMMA PollKeeps ==
  ASSUME PumpInv, NEW t \in Ticks, Poll(t)
  PROVE  PumpInv'
<1>1. Ask(t) /\ ~paused' /\ UNCHANGED <<entries, position, paused, stopped, serving, socket, sent>>
  BY DEF Poll
<1>2. tick' \in [Ticks -> Tick] /\ OneTick'
  BY <1>1, AskKeeps
<1>3. serving' \in BOOLEAN
  BY <1>1, PumpRanges
<1>4. QED
  BY <1>1, <1>2, <1>3, TickMoves

LEMMA AnswerKeeps ==
  ASSUME PumpInv, NEW t \in Ticks, Answer(t)
  PROVE  PumpInv'
<1>1. PICK mark \in tick[t].from .. Len(entries) :
        tick' = [tick EXCEPT ![t].stage = "answered", ![t].mark = mark]
  BY DEF Answer
<1>2. tick[t].stage = "asked" /\ UNCHANGED <<entries, position, paused, stopped, serving, socket, sent>>
  BY DEF Answer
<1>3. tick[t] \in Tick /\ tick[t].from \in Nat
  BY TickFacts DEF Tick
<1>4. mark \in 0 .. MaxLen /\ tick[t].from <= mark /\ mark <= Len(entries)
  BY <1>3, TickFacts
<1> DEFINE new == [tick[t] EXCEPT !.stage = "answered", !.mark = mark]
<1>5. new \in Tick /\ new.stage = "answered" /\ new.mark = mark /\ new.from = tick[t].from
  BY <1>3, <1>4 DEF Tick
<1>6. tick' = [tick EXCEPT ![t] = new]
  BY <1>1, TickFacts
<1> HIDE DEF new
<1>7. tick' \in [Ticks -> Tick] /\ tick'[t] = new /\ \A u \in Ticks \ {t} : tick'[u] = tick[u]
  BY <1>5, <1>6, TickFacts
<1>8. InFlight' = InFlight
  BY <1>2, <1>5, <1>7 DEF InFlight
<1>9. \A u \in InFlight : tick'[u].from = tick[u].from
  BY <1>5, <1>7 DEF InFlight
<1>10. OneTick'
  <2>1. \A u \in Ticks : tick'[u].stage = "answered" =>
           tick'[u].from <= tick'[u].mark /\ tick'[u].mark <= Len(entries)
    BY <1>4, <1>5, <1>7 DEF PumpInv, OneTick
  <2>2. QED
    BY <1>2, <1>8, <1>9, <2>1 DEF PumpInv, OneTick
<1>11. serving' \in BOOLEAN
  BY <1>2, PumpRanges
<1>12. QED
  BY <1>2, <1>7, <1>10, <1>11, TickMoves

LEMMA ReadFailsKeeps ==
  ASSUME PumpInv, NEW t \in Ticks, ReadFails(t)
  PROVE  PumpInv'
<1>1. t \in InFlight /\ EndTick(t) /\ UNCHANGED <<entries, position, paused, stopped, socket, sent>>
  BY DEF ReadFails, InFlight
<1>2. /\ tick' \in [Ticks -> Tick] /\ InFlight' = {} /\ serving' \in BOOLEAN
      /\ \A u \in Ticks : tick'[u].stage = "idle"
  BY <1>1, EndKeeps
<1>3. OneTick'
  BY <1>2 DEF OneTick
<1>4. QED
  BY <1>1, <1>2, <1>3, TickMoves

LEMMA WritePageKeeps ==
  ASSUME PumpInv, NEW t \in Ticks, WritePage(t)
  PROVE  PumpInv'
<1>1. t \in InFlight /\ tick[t].stage = "answered" /\ EndTick(t) /\ UNCHANGED <<entries, stopped, open>>
  BY DEF WritePage, InFlight
<1>2. /\ tick' \in [Ticks -> Tick] /\ InFlight' = {} /\ serving' \in BOOLEAN
      /\ \A u \in Ticks : tick'[u].stage = "idle"
  BY <1>1, EndKeeps
<1>3. OneTick'
  BY <1>2 DEF OneTick
<1>4. CASE stopped
  <2>1. UNCHANGED <<entries, position, paused, stopped, socket, sent>>
    BY <1>1, <1>4 DEF WritePage, socket
  <2>2. QED
    BY <1>2, <1>3, <2>1, TickMoves
<1>5. CASE ~stopped
  <2>1. WriteOut(t)
    BY <1>5 DEF WritePage
  <2>2. /\ position' \in 0 .. Len(entries) /\ paused' \in BOOLEAN /\ needDrain' \in BOOLEAN
        /\ buffer' \in Nat /\ sent' \in Seq(1 .. MaxLen)
        /\ WrittenOnce' /\ SocketWaits' /\ Backpressure'
    BY <1>1, <2>1, WriteKeeps
  <2>3. entries' = entries /\ stopped' \in BOOLEAN /\ open' \in BOOLEAN
    BY <1>1, PumpRanges
  <2>4. entries' \in Seq(BOOLEAN) /\ Len(entries') <= MaxLen /\ position' \in 0 .. Len(entries')
    BY <2>2, <2>3, TickFacts
  <2>5. PumpTypeOK'
    BY <1>2, <2>2, <2>3, <2>4, Zenon DEF PumpTypeOK
  <2>6. QED
    BY <1>3, <2>2, <2>5 DEF PumpInv
<1>6. QED
  BY <1>4, <1>5

\* The socket holds another number of frames, or waits or not: the pump and what was
\* written are left alone.
LEMMA SocketMoves ==
  ASSUME PumpInv, buffer' \in Nat, needDrain' \in BOOLEAN, SocketWaits', Backpressure',
         UNCHANGED <<entries, position, tick, paused, stopped, serving, open, sent>>
  PROVE  PumpInv'
<1>1. PumpTypeOK'
  BY Zenon DEF PumpInv, PumpTypeOK
<1>2. OneTick' /\ WrittenOnce'
  BY DEF PumpInv, OneTick, WrittenOnce, InFlight
<1>3. QED
  BY <1>1, <1>2 DEF PumpInv

LEMMA HeartbeatKeeps ==
  ASSUME PumpInv, Heartbeat
  PROVE  PumpInv'
<1>0. HighWater \in Nat \ {0}
  BY PumpLimitAssumption
<1>1. buffer \in Nat /\ buffer <= HighWater /\ (buffer >= HighWater => needDrain)
  BY <1>0, PumpRanges DEF Heartbeat, PumpInv, SocketWaits
<1>2. /\ ~needDrain /\ buffer' = buffer + 1 /\ needDrain' = (buffer + 1 >= HighWater)
      /\ UNCHANGED <<entries, position, tick, paused, stopped, serving, open, sent>>
  BY DEF Heartbeat
<1>3. needDrain' \in BOOLEAN
  <2>1. (buffer + 1 >= HighWater) \in BOOLEAN
    OBVIOUS
  <2>2. QED
    BY <1>2, <2>1, Zenon
<1>w. buffer + 1 >= HighWater => needDrain'
  BY <1>2, Zenon
<1>4. buffer' \in Nat /\ SocketWaits' /\ Backpressure'
  BY <1>0, <1>1, <1>2, <1>w DEF SocketWaits, Backpressure
<1>5. QED
  BY <1>2, <1>3, <1>4, SocketMoves

LEMMA SendKeeps ==
  ASSUME PumpInv, Send
  PROVE  PumpInv'
<1>0. HighWater \in Nat \ {0} /\ buffer \in Nat
  BY PumpLimitAssumption, PumpRanges
<1>1. /\ buffer > 0 /\ buffer' = buffer - 1 /\ needDrain' = needDrain
      /\ UNCHANGED <<entries, position, tick, paused, stopped, serving, open, sent>>
  BY DEF Send
<1>2. buffer' \in Nat /\ SocketWaits' /\ Backpressure'
  BY <1>0, <1>1 DEF PumpInv, SocketWaits, Backpressure
<1>3. needDrain' \in BOOLEAN
  BY <1>1, PumpRanges
<1>4. QED
  BY <1>1, <1>2, <1>3, SocketMoves

LEMMA DrainKeeps ==
  ASSUME PumpInv, Drain
  PROVE  PumpInv'
<1>0. HighWater \in Nat \ {0}
  BY PumpLimitAssumption
<1>1. /\ buffer = 0 /\ ~needDrain' /\ ~paused'
      /\ UNCHANGED <<entries, position, stopped, serving, open, buffer, sent>>
  BY DEF Drain
<1>2. tick' \in [Ticks -> Tick] /\ OneTick'
  <2>1. CASE paused /\ MayTick
    <3>1. PICK t \in Ticks : Ask(t)
      BY <2>1 DEF Drain
    <3>2. QED
      BY <1>1, <3>1, AskKeeps
  <2>2. CASE ~(paused /\ MayTick)
    <3>1. tick' = tick
      BY <2>2 DEF Drain
    <3>2. QED
      BY <1>1, <3>1, TickFacts DEF PumpInv, OneTick, InFlight
  <2>3. QED
    BY <2>1, <2>2
<1>3. PumpTypeOK'
  <2>1. paused' \in BOOLEAN /\ needDrain' \in BOOLEAN
    BY Zenon DEF Drain
  <2>2. QED
    BY <1>1, <1>2, <2>1, Zenon DEF PumpInv, PumpTypeOK
<1>4. SocketWaits' /\ Backpressure' /\ WrittenOnce'
  BY <1>0, <1>1 DEF PumpInv, SocketWaits, Backpressure, WrittenOnce
<1>5. QED
  BY <1>2, <1>3, <1>4 DEF PumpInv

LEMMA CloseKeeps ==
  ASSUME PumpInv, Close
  PROVE  PumpInv'
<1>1. /\ ~open' /\ stopped' = serving
      /\ UNCHANGED <<entries, position, tick, paused, serving, buffer, needDrain, sent>>
  BY DEF Close
<1>2. open' \in BOOLEAN /\ stopped' \in BOOLEAN
  <2>1. open' \in BOOLEAN
    BY Zenon DEF Close
  <2>2. QED
    BY <1>1, <2>1, PumpRanges
<1>3. PumpTypeOK'
  BY <1>1, <1>2, Zenon DEF PumpInv, PumpTypeOK
<1>4. OneTick' /\ SocketWaits' /\ Backpressure' /\ WrittenOnce'
  BY <1>1 DEF PumpInv, OneTick, InFlight, SocketWaits, Backpressure, WrittenOnce
<1>5. QED
  BY <1>3, <1>4 DEF PumpInv

LEMMA PublishKeeps ==
  ASSUME PumpInv, NEW kept \in BOOLEAN, Publish(kept)
  PROVE  PumpInv'
<1>1. /\ Len(entries) < MaxLen /\ entries' = Append(entries, kept)
      /\ UNCHANGED <<position, tick, paused, stopped, serving, socket, sent>>
  BY DEF Publish
<1>2. /\ entries' \in Seq(BOOLEAN) /\ Len(entries') = Len(entries) + 1
      /\ \A i \in 1 .. Len(entries) : entries'[i] = entries[i]
  BY <1>1, TickFacts
<1>3. Len(entries') <= MaxLen /\ position' \in 0 .. Len(entries')
  BY <1>1, <1>2, TickFacts
<1>4. PumpTypeOK'
  BY <1>1, <1>2, <1>3, Zenon DEF PumpInv, PumpTypeOK, socket
<1>5. OneTick'
  <2>1. InFlight' = InFlight
    BY <1>1 DEF InFlight
  <2>2. \A u \in Ticks : tick[u].mark \in Nat
    BY TickFacts DEF Tick
  <2>3. \A u \in Ticks : tick[u].stage = "answered" =>
           tick[u].from <= tick[u].mark /\ tick[u].mark <= Len(entries')
    BY <1>2, <2>2, TickFacts DEF PumpInv, OneTick
  <2>4. QED
    BY <1>1, <2>1, <2>3 DEF PumpInv, OneTick
<1>6. WrittenOnce'
  <2>1. {i \in 1 .. position : entries'[i]} = {i \in 1 .. position : entries[i]}
    BY <1>2, TickFacts
  <2>2. QED
    BY <1>1, <2>1 DEF PumpInv, WrittenOnce, socket
<1>7. SocketWaits' /\ Backpressure'
  BY <1>1 DEF PumpInv, SocketWaits, Backpressure, socket
<1>8. QED
  BY <1>4, <1>5, <1>6, <1>7 DEF PumpInv

LEMMA PumpSteps == PumpInv /\ [PumpNext]_pumpVars => PumpInv'
<1> SUFFICES ASSUME PumpInv, [PumpNext]_pumpVars PROVE PumpInv'
  OBVIOUS
<1>1. ASSUME NEW t \in Ticks, Poll(t) PROVE PumpInv'
  BY <1>1, PollKeeps
<1>2. ASSUME NEW t \in Ticks, Answer(t) PROVE PumpInv'
  BY <1>2, AnswerKeeps
<1>3. ASSUME NEW t \in Ticks, ReadFails(t) PROVE PumpInv'
  BY <1>3, ReadFailsKeeps
<1>4. ASSUME NEW t \in Ticks, WritePage(t) PROVE PumpInv'
  BY <1>4, WritePageKeeps
<1>5. CASE Heartbeat
  BY <1>5, HeartbeatKeeps
<1>6. CASE Send
  BY <1>6, SendKeeps
<1>7. CASE Drain
  BY <1>7, DrainKeeps
<1>8. CASE Close
  BY <1>8, CloseKeeps
<1>9. ASSUME NEW kept \in BOOLEAN, Publish(kept) PROVE PumpInv'
  BY <1>9, PublishKeeps
<1>10. CASE UNCHANGED pumpVars
  <2>1. UNCHANGED <<entries, position, tick, paused, stopped, serving, open, buffer, needDrain, sent>>
    BY <1>10 DEF pumpVars, socket
  <2>2. QED
    BY <2>1 DEF PumpInv, PumpTypeOK, OneTick, InFlight, SocketWaits, WrittenOnce, Backpressure
<1>11. QED
  BY <1>1, <1>2, <1>3, <1>4, <1>5, <1>6, <1>7, <1>8, <1>9, <1>10 DEF PumpNext

LEMMA PumpHolds == PumpSpec => []PumpInv
  BY PumpStarts, PumpSteps, PTL DEF PumpSpec

\* The pump's state stays what it is declared to be (stream-pump.ts, the pump's fields):
\* its place is an entry of the journal or the start.
THEOREM PumpTypeCorrect == PumpSpec => []PumpTypeOK
<1>1. PumpInv => PumpTypeOK
  BY DEF PumpInv
<1>2. QED
  BY <1>1, PumpHolds, PTL

\* What an open connection was sent is every entry the filter keeps up to the pump's
\* place, once each and in order (stream-pump.ts, tick and writeBatch), for any number
\* of ticks the timer and the drain start, any page limit and any mark of the socket.
THEOREM StreamWrittenOnce == PumpSpec => []WrittenOnce
<1>1. PumpInv => WrittenOnce
  BY DEF PumpInv
<1>2. QED
  BY <1>1, PumpHolds, PTL

\* A peer that does not read makes the process hold no more than the socket's mark and
\* one frame (stream-pump.ts, the write loop, and the route's heartbeat).
THEOREM StreamBackpressure == PumpSpec => []Backpressure
<1>1. PumpInv => Backpressure
  BY DEF PumpInv
<1>2. QED
  BY <1>1, PumpHolds, PTL

-----------------------------------------------------------------------------
(* A connection implements the feed.                                       *)

\* The rows of the feed: the order of places, and what an open connection was sent.
KeptRows(n) == {At(i) : i \in {j \in 1 .. n : entries[j]}}

LEMMA Places ==
  /\ \A i, j : At(i) = At(j) => i = j
  /\ \A i, j \in Nat : Streamed!Before(At(i), At(j)) <=> i < j
<1>1. \A i : At(i).seq = i
  BY DEF At
<1>2. \A i, j \in Nat : Streamed!Before(At(i), At(j)) <=> i < j
  BY DEF Streamed!Before, At
<1>3. QED
  BY <1>1, <1>2

LEMMA SentAreKept ==
  ASSUME WrittenOnce, open
  PROVE  SentRows = KeptRows(position)
<1>1. Range(sent) = {j \in 1 .. position : entries[j]}
  BY DEF WrittenOnce, Lists
<1>2. QED
  BY <1>1 DEF SentRows, KeptRows

\* A page written moves the mark on over what it wrote, or nothing at all.
LEMMA WritePageAdvances ==
  ASSUME PumpInv, PumpInv', NEW t \in Ticks, WritePage(t)
  PROVE  Streamed!Advance \/ UNCHANGED <<OwedRows, At(position), SentRows>>
<1>1. UNCHANGED <<entries, open>> /\ OwedRows' = OwedRows
  BY DEF WritePage, OwedRows
<1>2. /\ position \in Nat /\ position' \in Nat /\ Len(entries) \in Nat
      /\ position <= position' /\ (~open => sent' = sent)
  <2>1. position \in Nat /\ Len(entries) \in Nat
    BY TickFacts, PumpRanges
  <2>2. CASE stopped
    BY <2>1, <2>2 DEF WritePage
  <2>3. CASE ~stopped
    <3>1. WriteOut(t) /\ tick[t].stage = "answered"
      BY <2>3 DEF WritePage
    <3>2. position <= position' /\ position' \in 0 .. Len(entries)
      BY <1>1, <3>1, WriteKeeps
    <3>3. ~open => sent' = sent
      BY <3>1 DEF WriteOut
    <3>4. QED
      BY <2>1, <3>2, <3>3
  <2>4. QED
    BY <2>2, <2>3
<1>3. /\ open => SentRows = KeptRows(position)
      /\ open => SentRows' = KeptRows(position')
      /\ ~open => SentRows' = SentRows
  <2>1. open => SentRows = KeptRows(position)
    BY SentAreKept DEF PumpInv
  <2>2. open => Range(sent') = {j \in 1 .. position' : entries[j]}
    BY <1>1 DEF PumpInv, WrittenOnce, Lists
  <2>3. QED
    BY <1>1, <1>2, <2>1, <2>2 DEF SentRows, KeptRows
<1>4. CASE position' = position
  <2>1. SentRows' = SentRows /\ At(position') = At(position)
    BY <1>3, <1>4
  <2>2. QED
    BY <1>1, <2>1
<1>5. CASE position' # position
  <2>1. Streamed!Before(At(position), At(position'))
    BY <1>2, <1>5, Places
  <2>2. KeptRows(position) \subseteq KeptRows(position')
    BY <1>2 DEF KeptRows
  <2>3. SentRows \subseteq SentRows'
    BY <1>3, <2>2
  <2>4. ASSUME NEW e \in OwedRows PROVE Streamed!Before(At(position'), e) \/ e \in SentRows'
    <3>1. PICK i \in 1 .. Len(entries) : open /\ entries[i] /\ e = At(i)
      BY <2>4 DEF OwedRows
    <3>2. i <= position' \/ Streamed!Before(At(position'), e)
      BY <1>2, <3>1, Places
    <3>3. i <= position' => e \in KeptRows(position')
      BY <1>2, <3>1 DEF KeptRows
    <3>4. QED
      BY <1>3, <3>1, <3>2, <3>3
  <2>5. QED
    BY <1>1, <2>1, <2>3, <2>4 DEF Streamed!Advance
<1>6. QED
  BY <1>4, <1>5

\* A connection of the live stream (stream-pump.ts and the route of /peer/stream)
\* implements the feed: as for a pull, the place moves only forward, over nothing the
\* filter keeps and the connection was not sent.
THEOREM StreamImplementsFeed == PumpSpec => PumpFeed
<1>1. PumpInit => Streamed!Init
  <2> SUFFICES ASSUME PumpInit PROVE Streamed!Init
    OBVIOUS
  <2>1. entries = <<>> /\ sent = <<>> /\ position = 0
    BY DEF PumpInit
  <2>2. OwedRows = {} /\ SentRows = {}
    BY <2>1 DEF OwedRows, SentRows, Range
  <2>3. QED
    BY <2>1, <2>2 DEF Streamed!Init, Streamed!Start, At
<1>2. PumpInv /\ PumpInv' /\ [PumpNext]_pumpVars
        => [Streamed!Next]_<<OwedRows, At(position), SentRows>>
  <2> SUFFICES ASSUME PumpInv, PumpInv', [PumpNext]_pumpVars
               PROVE  Streamed!Next \/ UNCHANGED <<OwedRows, At(position), SentRows>>
    OBVIOUS
  <2>1. ASSUME NEW t \in Ticks, WritePage(t)
        PROVE  Streamed!Advance \/ UNCHANGED <<OwedRows, At(position), SentRows>>
    BY <2>1, WritePageAdvances
  <2>2. ASSUME UNCHANGED <<entries, open, position, sent>>
        PROVE  UNCHANGED <<OwedRows, At(position), SentRows>>
    BY <2>2 DEF OwedRows, SentRows
  <2>3. ASSUME NEW t \in Ticks, Poll(t) \/ Answer(t) \/ ReadFails(t)
        PROVE  UNCHANGED <<entries, open, position, sent>>
    BY <2>3 DEF Poll, Answer, ReadFails, socket
  <2>4. CASE Heartbeat \/ Send \/ Drain \/ UNCHANGED pumpVars
    <3>1. UNCHANGED <<entries, open, position, sent>>
      BY <2>4 DEF Heartbeat, Send, Drain, pumpVars, socket
    <3>2. QED
      BY <2>2, <3>1
  <2>5. ASSUME Close PROVE Streamed!Publish
    <3>1. ~open' /\ UNCHANGED <<position, sent>>
      BY <2>5 DEF Close
    <3>2. OwedRows' = {} /\ At(position') = At(position) /\ SentRows' = SentRows
      BY <3>1 DEF OwedRows, SentRows
    <3>3. QED
      BY <3>2 DEF Streamed!Publish
  <2>6. ASSUME NEW keep \in BOOLEAN, Publish(keep) PROVE Streamed!Publish
    <3>1. entries' = Append(entries, keep) /\ UNCHANGED <<open, position, sent>>
      BY <2>6 DEF Publish, socket
    <3>2. /\ Len(entries) \in Nat /\ Len(entries') = Len(entries) + 1
          /\ \A i \in 1 .. Len(entries) : entries'[i] = entries[i]
      BY <3>1, TickFacts
    <3>3. position \in Nat /\ position <= Len(entries)
      BY <3>2, PumpRanges
    <3>4. ASSUME NEW e \in OwedRows', e \notin OwedRows PROVE Streamed!Before(At(position), e)
      <4>1. PICK i \in 1 .. Len(entries') : open /\ entries'[i] /\ e = At(i)
        BY <3>1, <3>4 DEF OwedRows
      <4>2. i \notin 1 .. Len(entries)
        BY <3>2, <3>4, <4>1 DEF OwedRows
      <4>3. QED
        BY <3>2, <3>3, <4>1, <4>2, Places
    <3>5. At(position') = At(position) /\ SentRows' = SentRows
      BY <3>1 DEF SentRows
    <3>6. QED
      BY <3>4, <3>5 DEF Streamed!Publish
  <2>7. QED
    BY <2>1, <2>2, <2>3, <2>4, <2>5, <2>6 DEF PumpNext, Streamed!Next
<1>3. QED
  BY <1>1, <1>2, PumpHolds, PTL DEF PumpSpec, PumpFeed, Streamed!Spec
=============================================================================
