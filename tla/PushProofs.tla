----------------------------- MODULE PushProofs -----------------------------
(***************************************************************************)
(* Theorems about WebhookPush, for any sets of cycles, inboxes, kinds and  *)
(* settings, any threshold and page, and any number of entries and events.  *)
(***************************************************************************)
EXTENDS WebhookPush, FiniteSetTheorems, TLAPS

USE AskedAssumption, LimitAssumption, BoundAssumption

-----------------------------------------------------------------------------
(* The page.                                                               *)

\* A page is closed downward: an entry scanned is on it with any later one.
LEMMA PageClosed ==
  ASSUME NEW n \in Nat, NEW scan \in SUBSET (1 .. n),
         NEW m \in FirstOf(scan), NEW i \in scan, i <= m
  PROVE  i \in FirstOf(scan)
<1> DEFINE upTo(k) == {j \in scan : j <= k}
<1>1. m \in scan /\ m \in Nat /\ i \in Nat
  BY DEF FirstOf
<1>2. upTo(i) \subseteq upTo(m)
  <2> SUFFICES ASSUME NEW j \in scan, j <= i PROVE j <= m
    OBVIOUS
  <2>1. j \in Nat
    OBVIOUS
  <2> QED BY <1>1, <2>1
<1>3. IsFiniteSet(scan)
  <2>1. IsFiniteSet(1 .. n)
    BY FS_Interval
  <2> QED BY <2>1, FS_Subset
<1>4. IsFiniteSet(upTo(m)) /\ IsFiniteSet(upTo(i))
  BY <1>3, FS_Subset
<1>5. Cardinality(upTo(i)) <= Cardinality(upTo(m))
  BY <1>2, <1>4, FS_Subset
<1>6. Cardinality(upTo(i)) \in Nat /\ Cardinality(upTo(m)) \in Nat
  BY <1>4, FS_CardinalityType
<1>7. Cardinality(upTo(m)) <= PageLimit
  BY DEF FirstOf
<1>8. Cardinality(upTo(i)) <= PageLimit
  BY <1>5, <1>6, <1>7
<1> QED BY <1>8 DEF FirstOf

\* A page misses nothing up to its mark: what row r carries is among the
\* entries kept, up to the entry the page leads to.
LEMMA PageWhole ==
  ASSUME TypeOK, NEW r \in Subscription,
         NEW to \in 0 .. Len(journal), IsMark(to, r, FirstOf(Scanned(r))),
         NEW i \in r.cursor + 1 .. to, Carries(r, i)
  PROVE  i \in {j \in FirstOf(Scanned(r)) : Wants(r, j)}
<1>1. Len(journal) \in Nat /\ r.cursor \in Nat
  BY DEF TypeOK, Subscription
<1>2. Scanned(r) \in SUBSET (1 .. Len(journal))
  BY <1>1 DEF Scanned
<1>3. to \in FirstOf(Scanned(r))
  BY <1>1 DEF IsMark
<1>4. i \in Scanned(r) /\ i <= to
  BY <1>1 DEF Scanned, Carries
<1>5. i \in FirstOf(Scanned(r))
  BY <1>1, <1>2, <1>3, <1>4, PageClosed
<1> QED BY <1>5 DEF Carries

-----------------------------------------------------------------------------
(* The inductive invariant.                                                *)

\* A cycle under way loaded a row, and its page misses nothing up to its mark.
PageRead ==
  \A c \in Cycles :
    LET t == turn[c]
    IN /\ t.stage # "idle" => t.row # None
       /\ t.stage \in {"posting", "acked", "failed", "empty"} =>
            /\ t.row.cursor < t.mark /\ t.mark <= Len(journal)
            /\ \A i \in t.row.cursor + 1 .. t.mark : Carries(t.row, i) => i \in t.items
       /\ t.stage = "empty" => t.items = {}

\* A cycle whose row was not written since holds the row in force, and it is
\* active; the page it saw acknowledged is one that row's inbox acknowledged.
InForce ==
  \A c \in current : turn[c].stage # "idle" =>
    /\ sub # None /\ turn[c].row = sub /\ sub.status = "active"
    /\ turn[c].stage = "acked" => turn[c].items \subseteq acked[sub.settings.inbox]

\* The row counts no failure that did not happen, and is disabled exactly at
\* the threshold.
Counted ==
  sub # None => /\ sub.failures <= streak
                /\ sub.status = "active" <=> sub.failures < Threshold

\* A failure that is about to be counted happened.
FailureSeen ==
  \A c \in current : turn[c].stage = "failed" => turn[c].row.failures + 1 <= streak

Inv == TypeOK /\ PageRead /\ InForce /\ Counted /\ FailureSeen

LEMMA InitInv == Init => Inv
BY DEF Init, Inv, TypeOK, PageRead, InForce, Counted, FailureSeen, Turn, Idle

\* What the peer, the operator and the journal do.
LEMMA RequestInv ==
  ASSUME Inv,
         \/ \E k \in Kinds : Publish(k)
         \/ \E settings \in Asked : Create(settings) \/ Patch(settings)
         \/ Delete \/ Trust \/ InboxesTurn
  PROVE  Inv'
<1> USE DEF Inv
<1>1. ASSUME NEW k \in Kinds, Publish(k) PROVE Inv'
  <2>1. TypeOK'
    BY <1>1 DEF Publish, TypeOK
  <2>2. \A i \in 1 .. Len(journal) : journal'[i] = journal[i]
    BY <1>1 DEF Publish, TypeOK
  <2>3. Len(journal) <= Len(journal') /\ Len(journal) \in Nat /\ Len(journal') \in Nat
    BY <1>1 DEF Publish, TypeOK
  <2>4. PageRead'
    <3> SUFFICES ASSUME NEW c \in Cycles,
                        turn[c].stage \in {"posting", "acked", "failed", "empty"}
                 PROVE  /\ turn[c].mark <= Len(journal')
                        /\ \A i \in turn[c].row.cursor + 1 .. turn[c].mark :
                             Carries(turn[c].row, i)' => i \in turn[c].items
      BY <1>1 DEF PageRead, Publish
    <3>1. turn[c].row \in Subscription /\ turn[c].mark \in Nat
      BY DEF PageRead, TypeOK, Turn
    <3>2. turn[c].mark <= Len(journal')
      BY <2>3, <3>1 DEF PageRead
    <3>3. ASSUME NEW i \in turn[c].row.cursor + 1 .. turn[c].mark,
                 Carries(turn[c].row, i)'
          PROVE  i \in turn[c].items
      <4>1. i \in 1 .. Len(journal)
        BY <2>3, <3>1 DEF PageRead, Subscription
      <4>2. Carries(turn[c].row, i)
        BY <1>1, <2>2, <3>3, <4>1 DEF Carries, Wants, Publish
      <4> QED BY <4>2 DEF PageRead
    <3> QED BY <3>2, <3>3
  <2>5. InForce' /\ Counted' /\ FailureSeen'
    BY <1>1 DEF Publish, InForce, Counted, FailureSeen
  <2> QED BY <2>1, <2>4, <2>5
<1>2. ASSUME NEW settings \in Asked, Create(settings)
      PROVE  Inv'
  <2>1. TypeOK'
    BY <1>2 DEF Create, Event, TypeOK, Subscription
  <2>2. PageRead'
    BY <1>2 DEF Create, PageRead, Carries, Wants
  <2>3. InForce' /\ FailureSeen'
    BY <1>2 DEF Create, InForce, FailureSeen
  <2>4. Counted'
    BY <1>2 DEF Create, Counted
  <2> QED BY <2>1, <2>2, <2>3, <2>4
<1>3. ASSUME NEW settings \in Asked, Patch(settings)
      PROVE  Inv'
  <2>0. /\ sub' \in Subscription
        /\ sub'.failures = 0 /\ sub'.status = "active"
    <3>1. sub \in Subscription
      BY <1>3 DEF Patch, TypeOK
    <3>2. sub' = [sub EXCEPT !.settings = settings, !.failures = 0, !.status = "active"]
      BY <1>3 DEF Patch
    <3> 0 \in 0 .. Threshold /\ "active" \in {"active", "push_disabled"}
      OBVIOUS
    <3>3. sub' \in Subscription
      BY <3>1, <3>2, Zenon DEF Subscription
    <3>4. sub'.failures = 0 /\ sub'.status = "active"
      BY <3>1, <3>2 DEF Subscription
    <3> QED BY <3>3, <3>4
  <2>1. TypeOK'
    <3>1. events < MaxEvents /\ events' = events + 1 /\ streak' = 0
      BY <1>3 DEF Patch, Event
    <3>2. events' \in 0 .. MaxEvents /\ streak' \in 0 .. Threshold
      BY <3>1 DEF TypeOK
    <3>3. current' = {} /\ UNCHANGED <<journal, trusted, up, turn, backoff, acked>>
      BY <1>3 DEF Patch
    <3> QED BY <2>0, <3>2, <3>3 DEF TypeOK
  <2>2. PageRead'
    BY <1>3 DEF Patch, PageRead, Carries, Wants
  <2>3. InForce' /\ FailureSeen'
    BY <1>3 DEF Patch, InForce, FailureSeen
  <2>4. Counted'
    <3>1. streak' = 0
      BY <1>3 DEF Patch
    <3> QED BY <2>0, <3>1 DEF Counted
  <2> QED BY <2>1, <2>2, <2>3, <2>4
<1>4. CASE Delete
  BY <1>4 DEF Delete, Event, TypeOK, PageRead, Carries, Wants, InForce, Counted, FailureSeen
<1>5. CASE Trust
  BY <1>5 DEF Trust, Event, TypeOK, PageRead, Carries, Wants, InForce, Counted, FailureSeen
<1>6. CASE InboxesTurn
  BY <1>6 DEF InboxesTurn, TypeOK, PageRead, Carries, Wants, InForce, Counted, FailureSeen
<1> QED BY <1>1, <1>2, <1>3, <1>4, <1>5, <1>6

\* A page read misses nothing, and is the row's that was loaded.
LEMMA ReadInv ==
  ASSUME Inv, NEW c \in Cycles, Read(c)
  PROVE  Inv'
<1> USE DEF Inv
<1> DEFINE r == turn[c].row
           scan == FirstOf(Scanned(r))
           keep == {i \in scan : Wants(r, i)}
<1>1. r \in Subscription
  BY DEF Read, PageRead, TypeOK, Turn
<1>2. PICK to \in 0 .. Len(journal) :
        /\ IsMark(to, r, scan)
        /\ turn' = [turn EXCEPT ![c] =
             IF to = r.cursor THEN Idle
             ELSE [@ EXCEPT !.stage = IF keep = {} THEN "empty" ELSE "posting",
                            !.items = keep, !.mark = to]]
  BY DEF Read
<1>3. r.cursor \in Nat /\ Len(journal) \in Nat /\ Len(journal) <= MaxLen
  BY <1>1 DEF Subscription, TypeOK
<1>4. scan \in SUBSET (r.cursor + 1 .. Len(journal))
  BY <1>3 DEF FirstOf, Scanned
<1>5. keep \in SUBSET (1 .. MaxLen)
  BY <1>3, <1>4
<1>6. to # r.cursor => r.cursor < to
  BY <1>2, <1>3, <1>4 DEF IsMark
<1>7. \A i \in r.cursor + 1 .. to : Carries(r, i) => i \in keep
  BY <1>1, <1>2, PageWhole
<1> HIDE DEF keep, scan
<1>8. \A d \in Cycles \ {c} : turn'[d] = turn[d]
  BY <1>2 DEF TypeOK
<1>9. \/ turn'[c] = Idle
      \/ /\ turn'[c].stage = IF keep = {} THEN "empty" ELSE "posting"
         /\ turn'[c].row = r /\ turn'[c].items = keep /\ turn'[c].mark = to
         /\ to # r.cursor
  BY <1>2 DEF TypeOK, Turn
<1>10. turn[c].stage = "loaded"
       /\ UNCHANGED <<journal, sub, trusted, up, current, backoff, acked, streak, events>>
  BY DEF Read
<1>11. TypeOK'
  <2>1. to \in 0 .. MaxLen
    BY <1>3
  <2>2. turn[c] \in Turn /\ Idle \in Turn
    BY DEF TypeOK, Turn, Idle
  <2>3. [turn[c] EXCEPT !.stage = IF keep = {} THEN "empty" ELSE "posting",
                        !.items = keep, !.mark = to] \in Turn
    BY <1>5, <2>1, <2>2 DEF Turn
  <2>4. turn' \in [Cycles -> Turn]
    BY <1>2, <2>2, <2>3 DEF TypeOK
  <2> QED BY <1>10, <2>4 DEF TypeOK
<1>12. PageRead'
  <2> SUFFICES ASSUME NEW d \in Cycles
               PROVE LET t == turn'[d] IN
                 /\ t.stage # "idle" => t.row # None
                 /\ t.stage \in {"posting", "acked", "failed", "empty"} =>
                      /\ t.row.cursor < t.mark /\ t.mark <= Len(journal)
                      /\ \A i \in t.row.cursor + 1 .. t.mark :
                           Carries(t.row, i) => i \in t.items
                 /\ t.stage = "empty" => t.items = {}
    BY <1>10 DEF PageRead, Carries, Wants
  <2>1. CASE d # c
    BY <1>8, <2>1 DEF PageRead
  <2>2. CASE d = c /\ turn'[c] = Idle
    BY <2>2 DEF Idle
  <2>3. CASE d = c /\ turn'[c] # Idle
    BY <1>3, <1>6, <1>7, <1>9, <1>10, <2>3 DEF PageRead
  <2> QED BY <2>1, <2>2, <2>3
<1>13. InForce'
  BY <1>8, <1>9, <1>10 DEF InForce, Idle, TypeOK
<1>14. Counted'
  BY <1>10 DEF Counted
<1>15. FailureSeen'
  BY <1>8, <1>9, <1>10 DEF FailureSeen, Idle, TypeOK
<1> QED BY <1>11, <1>12, <1>13, <1>14, <1>15

\* The other steps up to the answer write no row.
LEMMA PostInv ==
  ASSUME Inv, NEW c \in Cycles,
         Load(c) \/ Answer(c) \/ NoAnswer(c) \/ AskedToWait(c) \/ WaitOver(c) \/ Crash(c)
  PROVE  Inv'
<1> USE DEF Inv
<1>1. CASE Load(c)
  <2>1. sub \in Subscription /\ sub # None
    BY <1>1 DEF Load, TypeOK
  <2>2. [Idle EXCEPT !.stage = "loaded", !.row = sub] \in Turn
    <3>1. Idle \in Turn
      BY DEF Idle, Turn
    <3> QED BY <2>1, <3>1 DEF Turn
  <2>3. TypeOK'
    BY <1>1, <2>2 DEF Load, TypeOK
  <2>4. PageRead'
    BY <1>1, <2>1 DEF Load, PageRead, Carries, Wants, Idle, TypeOK
  <2>5. InForce' /\ Counted' /\ FailureSeen'
    BY <1>1 DEF Load, InForce, Counted, FailureSeen, Idle, TypeOK
  <2> QED BY <2>3, <2>4, <2>5
<1>2. CASE Answer(c)
  <2>1. turn[c] \in Turn /\ turn[c].row \in Subscription
    BY <1>2 DEF Answer, PageRead, TypeOK, Turn
  <2>2. turn[c].row.settings.inbox \in Inboxes
    BY <2>1 DEF Subscription, Settings
  <2>3. TypeOK'
    BY <1>2, <2>1, <2>2 DEF Answer, TypeOK, Turn
  <2>4. /\ \A d \in Cycles \ {c} : turn'[d] = turn[d]
        /\ turn'[c].stage = "acked" /\ turn'[c].row = turn[c].row
        /\ turn'[c].items = turn[c].items /\ turn'[c].mark = turn[c].mark
    BY <1>2, <2>1 DEF Answer, TypeOK, Turn
  <2>5. PageRead'
    BY <1>2, <2>4 DEF Answer, PageRead, Carries, Wants
  <2>6. \A i \in Inboxes : acked[i] \subseteq acked'[i]
    BY <1>2 DEF Answer, TypeOK
  <2>7. turn[c].items \subseteq acked'[turn[c].row.settings.inbox]
    BY <1>2, <2>2 DEF Answer, TypeOK
  <2>8. InForce'
    <3> SUFFICES ASSUME NEW d \in current, turn'[d].stage # "idle"
                 PROVE /\ sub # None /\ turn'[d].row = sub /\ sub.status = "active"
                       /\ turn'[d].stage = "acked" => turn'[d].items \subseteq acked'[sub.settings.inbox]
      BY <1>2 DEF Answer, InForce
    <3>1. CASE d = c
      BY <1>2, <2>4, <2>7, <3>1 DEF Answer, InForce
    <3>2. CASE d # c
      <4>1. turn'[d] = turn[d]
        BY <2>4, <3>2 DEF TypeOK
      <4>2. sub # None => sub.settings.inbox \in Inboxes
        BY DEF TypeOK, Subscription, Settings
      <4> QED BY <2>6, <4>1, <4>2 DEF InForce
    <3> QED BY <3>1, <3>2
  <2>9. Counted' /\ FailureSeen'
    BY <1>2, <2>4 DEF Answer, Counted, FailureSeen, TypeOK
  <2> QED BY <2>3, <2>5, <2>8, <2>9
<1>3. CASE NoAnswer(c)
  <2>1. turn[c] \in Turn
    BY DEF TypeOK
  <2>2. /\ \A d \in Cycles \ {c} : turn'[d] = turn[d]
        /\ turn'[c].stage = "failed" /\ turn'[c].row = turn[c].row
        /\ turn'[c].items = turn[c].items /\ turn'[c].mark = turn[c].mark
    BY <1>3, <2>1 DEF NoAnswer, TypeOK, Turn
  <2>3. streak' = IF streak < Threshold THEN streak + 1 ELSE streak
    BY <1>3 DEF NoAnswer
  <2>4. TypeOK'
    <3>1. streak' \in 0 .. Threshold
      BY <2>3 DEF TypeOK
    <3>2. [turn[c] EXCEPT !.stage = "failed"] \in Turn
      BY <2>1 DEF Turn
    <3>3. turn' \in [Cycles -> Turn]
      BY <1>3, <3>2 DEF NoAnswer, TypeOK
    <3> QED BY <1>3, <3>1, <3>3 DEF NoAnswer, TypeOK
  <2>5. PageRead'
    BY <1>3, <2>2 DEF NoAnswer, PageRead, Carries, Wants
  <2>6. InForce'
    BY <1>3, <2>2 DEF NoAnswer, InForce, TypeOK
  <2>7. Counted'
    BY <1>3, <2>3 DEF NoAnswer, Counted, TypeOK, Subscription
  <2>8. FailureSeen'
    <3> SUFFICES ASSUME NEW d \in current, turn'[d].stage = "failed"
                 PROVE  turn'[d].row.failures + 1 <= streak'
      BY <1>3 DEF NoAnswer, FailureSeen
    <3>1. d \in Cycles /\ streak \in Nat
      BY DEF TypeOK
    <3>2. turn'[d].row = turn[d].row /\ turn[d].stage # "idle"
      BY <1>3, <2>2, <3>1 DEF NoAnswer
    <3>3. turn[d].row = sub /\ sub \in Subscription /\ sub.status = "active"
      BY <3>2 DEF InForce, TypeOK
    <3>4. sub.failures \in Nat /\ sub.failures <= streak /\ sub.failures < Threshold
      BY <3>2, <3>3 DEF Counted, Subscription, InForce
    <3> QED BY <2>3, <3>1, <3>2, <3>3, <3>4
  <2> QED BY <2>4, <2>5, <2>6, <2>7, <2>8
<1>4. CASE AskedToWait(c)
  BY <1>4 DEF AskedToWait, TypeOK, PageRead, Carries, Wants, InForce, Counted,
              FailureSeen, Idle, Turn
<1>5. CASE WaitOver(c)
  BY <1>5 DEF WaitOver, TypeOK, PageRead, Carries, Wants, InForce, Counted, FailureSeen
<1>6. CASE Crash(c)
  BY <1>6 DEF Crash, Event, TypeOK, PageRead, Carries, Wants, InForce, Counted,
              FailureSeen, Idle, Turn
<1> QED BY <1>1, <1>2, <1>3, <1>4, <1>5, <1>6

\* What a write of the row leaves to show: it stands on the row in force, and
\* every cycle that had loaded it now knows nothing.
LEMMA WriteInv ==
  ASSUME Inv, NEW c \in Cycles, NEW r \in Subscription, Write(c, r),
         UNCHANGED <<journal, trusted, up, acked, events>>,
         streak' \in 0 .. Threshold, c \notin current => streak' = streak,
         c \in current => /\ r.failures <= streak'
                          /\ r.status = "active" <=> r.failures < Threshold
  PROVE  Inv'
<1> USE DEF Inv
<1>1. turn' = [turn EXCEPT ![c] = Idle]
  BY DEF Write
<1>2. TypeOK'
  BY <1>1 DEF Write, TypeOK, Idle, Turn
<1>3. PageRead'
  BY <1>1 DEF PageRead, Carries, Wants, Idle, TypeOK
<1>4. CASE c \in current
  BY <1>2, <1>3, <1>4 DEF Write, InForce, Counted, FailureSeen
<1>5. CASE c \notin current
  <2>1. UNCHANGED <<sub, current, streak>>
    BY <1>5 DEF Write
  <2>2. InForce' /\ Counted' /\ FailureSeen'
    BY <1>1, <1>5, <2>1 DEF InForce, Counted, FailureSeen, TypeOK
  <2> QED BY <1>2, <1>3, <2>2
<1> QED BY <1>4, <1>5

\* A cycle's update at the revision it loaded leaves a row of every field, and
\* elsewhere it is no write of the row.
LEMMA OutcomeInv ==
  ASSUME Inv, NEW c \in Cycles, Advance(c) \/ CountFailure(c)
  PROVE  Inv'
<1> USE DEF Inv
<1> DEFINE t == turn[c]
<1>1. t \in Turn /\ t.row \in Subscription
  BY DEF Advance, CountFailure, PageRead, TypeOK, Turn
<1>2. c \in current => t.row = sub /\ sub # None /\ sub.status = "active"
  BY DEF Advance, CountFailure, InForce
<1>3. streak \in 0 .. Threshold
  BY DEF TypeOK
<1>4. CASE c \notin current
  <2>1. Write(c, t.row)
    BY <1>4 DEF Write, Advance, CountFailure
  <2>2. UNCHANGED <<journal, trusted, up, acked, events>> /\ streak' = streak
    BY <1>4 DEF Advance, CountFailure
  <2> QED BY <1>1, <1>3, <1>4, <2>1, <2>2, WriteInv
<1>5. CASE c \in current /\ Advance(c)
  <2> DEFINE r == [sub EXCEPT !.cursor = t.mark, !.failures = 0,
                              !.status = IF t.stage = "acked" THEN "active" ELSE @]
  <2>1. r = [sub EXCEPT !.cursor = t.mark, !.failures = 0, !.status = "active"]
    BY <1>1, <1>2, <1>5 DEF Subscription
  <2>2. r \in Subscription
    <3>1. t.mark \in 0 .. MaxLen /\ 0 \in 0 .. Threshold
          /\ "active" \in {"active", "push_disabled"}
      BY <1>1 DEF Turn
    <3> HIDE DEF r, t
    <3> QED BY <1>1, <1>2, <1>5, <2>1, <3>1, Zenon DEF Subscription
  <2>3. r.failures = 0 /\ r.status = "active"
    BY <1>1, <1>2, <1>5, <2>1 DEF Subscription
  <2>4. Write(c, r) /\ streak' = 0 /\ UNCHANGED <<journal, trusted, up, acked, events>>
    BY <1>5 DEF Advance
  <2> HIDE DEF r
  <2> QED BY <1>3, <1>5, <2>2, <2>3, <2>4, WriteInv
<1>6. CASE c \in current /\ CountFailure(c)
  <2> DEFINE n == t.row.failures + 1
             status == IF n >= Threshold THEN "push_disabled" ELSE t.row.status
             r == [sub EXCEPT !.failures = n, !.status = status]
  <2>1. Write(c, r) /\ UNCHANGED <<journal, trusted, up, acked, streak, events>>
    BY <1>6 DEF CountFailure
  <2>2. n \in Nat /\ n <= Threshold /\ n \in 0 .. Threshold
    BY <1>1, <1>2, <1>6 DEF Counted, Subscription
  <2>3. n <= streak
    BY <1>6 DEF CountFailure, FailureSeen
  <2>4. status = IF n >= Threshold THEN "push_disabled" ELSE "active"
    BY <1>2, <1>6
  <2>5. status \in {"active", "push_disabled"} /\ (status = "active" <=> n < Threshold)
    BY <2>2, <2>4
  <2> HIDE DEF n, status
  <2>6. r \in Subscription
    BY <1>1, <1>2, <1>6, <2>2, <2>5, Zenon DEF Subscription
  <2>7. r.failures = n /\ r.status = status
    BY <1>1, <1>2, <1>6 DEF Subscription
  <2> HIDE DEF r
  <2> QED BY <1>3, <1>6, <2>1, <2>3, <2>5, <2>6, <2>7, WriteInv
<1> QED BY <1>4, <1>5, <1>6

\* Every step keeps the invariant.
LEMMA StepInv == Inv /\ [Next]_vars => Inv'
<1> SUFFICES ASSUME Inv, [Next]_vars PROVE Inv'
  OBVIOUS
<1>1. CASE UNCHANGED vars
  BY <1>1 DEF vars, Inv, TypeOK, PageRead, Carries, Wants, InForce, Counted, FailureSeen
<1>2. ASSUME NEW c \in Cycles, Crash(c) \/ Step(c) PROVE Inv'
  BY <1>2, ReadInv, PostInv, OutcomeInv DEF Step
<1> QED BY <1>1, <1>2, RequestInv DEF Next

LEMMA InvHolds == Spec => []Inv
BY InitInv, StepInv, PTL DEF Spec

-----------------------------------------------------------------------------
(* Theorems.                                                               *)

\* Every reachable state has the types of TypeOK: among them, the count of
\* failures never passes the threshold.
THEOREM TypeCorrect == Spec => []TypeOK
<1>1. Inv => TypeOK
  BY DEF Inv
<1> QED BY <1>1, InvHolds, PTL

\* The push is disabled only by as many failed answers as the threshold, since
\* the peer's last request and the last delivery the row notes.
THEOREM DisabledDeserved == Spec => []DisabledWhenDeserved
<1>1. Inv => DisabledWhenDeserved
  BY DEF Inv, TypeOK, Counted, Subscription, DisabledWhenDeserved
<1> QED BY <1>1, InvHolds, PTL

\* A step that writes the row over a row writes it at the revision it loaded.
LEMMA RowWritten ==
  ASSUME Inv, [Next]_vars, sub # None, sub' # None, sub' # sub, events' = events
  PROVE  \E c \in current : (Advance(c) \/ CountFailure(c)) /\ turn[c].row = sub
<1>1. events \in Nat
  BY DEF Inv, TypeOK
<1>2. PICK c \in Cycles : Advance(c) \/ CountFailure(c)
  <2>1. ~UNCHANGED vars
    BY DEF vars
  <2>2. ASSUME NEW settings \in Asked, Create(settings) \/ Patch(settings)
        PROVE  FALSE
    BY <1>1, <2>2 DEF Create, Patch, Event
  <2>3. ~Delete /\ ~Trust
    BY <1>1 DEF Delete, Trust, Event
  <2>4. ~InboxesTurn /\ \A k \in Kinds : ~Publish(k)
    <3>1. ~InboxesTurn
      BY DEF InboxesTurn
    <3>2. \A k \in Kinds : ~Publish(k)
      BY DEF Publish
    <3> QED BY <3>1, <3>2
  <2>5. PICK c \in Cycles : Crash(c) \/ Step(c)
    BY <2>1, <2>2, <2>3, <2>4 DEF Next
  <2>6. ~Crash(c)
    BY <1>1 DEF Crash, Event
  <2>7. Advance(c) \/ CountFailure(c)
    BY <2>5, <2>6 DEF Step, Load, Read, Answer, NoAnswer, AskedToWait, WaitOver
  <2> QED BY <2>7
<1>3. c \in current
  BY <1>2 DEF Advance, CountFailure, Write
<1>4. turn[c].row = sub
  BY <1>2, <1>3 DEF Inv, InForce, Advance, CountFailure
<1> QED BY <1>2, <1>3, <1>4

\* The cursor moves only forward, and only over entries the row in force does
\* not ask for or its own inbox acknowledged.
THEOREM CursorIsEarned == Spec => CursorEarned
<1> DEFINE Earned ==
      sub # None /\ sub' # None /\ sub'.cursor # sub.cursor =>
        /\ sub'.cursor > sub.cursor
        /\ \A i \in sub.cursor + 1 .. sub'.cursor :
             Carries(sub', i) => i \in acked[sub'.settings.inbox]
<1>1. Inv /\ [Next]_vars => Earned
  <2> SUFFICES ASSUME Inv, [Next]_vars, sub # None, sub' # None, sub'.cursor # sub.cursor
               PROVE  /\ sub'.cursor > sub.cursor
                      /\ \A i \in sub.cursor + 1 .. sub'.cursor :
                           Carries(sub', i) => i \in acked[sub'.settings.inbox]
    OBVIOUS
  <2>1. sub \in Subscription /\ sub' # sub
    BY DEF Inv, TypeOK
  <2>2. events' = events
    BY <2>1 DEF Next, Step, vars, Publish, Create, Patch, Delete, Trust, InboxesTurn,
         Crash, Load, Read, Answer, NoAnswer, AskedToWait, WaitOver, Advance, CountFailure,
         Subscription
  <2>3. PICK c \in current : (Advance(c) \/ CountFailure(c)) /\ turn[c].row = sub
    BY <2>1, <2>2, RowWritten
  <2>4. Advance(c)
    <3>1. CASE CountFailure(c)
      BY <2>1, <2>3, <3>1 DEF CountFailure, Write, Subscription
    <3> QED BY <2>3, <3>1
  <2>5. \E status : sub' = [sub EXCEPT !.cursor = turn[c].mark, !.failures = 0,
                                      !.status = status]
    BY <2>3, <2>4 DEF Advance, Write
  <2>6. sub'.cursor = turn[c].mark /\ sub'.settings = sub.settings
    BY <2>1, <2>5 DEF Subscription
  <2>7. c \in Cycles
    BY DEF Inv, TypeOK
  <2>8. /\ sub.cursor < turn[c].mark
        /\ \A i \in sub.cursor + 1 .. turn[c].mark : Carries(sub, i) => i \in turn[c].items
    BY <2>3, <2>4, <2>7 DEF Advance, Inv, PageRead
  <2>9. turn[c].items \subseteq acked[sub.settings.inbox]
    BY <2>4, <2>7 DEF Advance, Inv, InForce, PageRead
  <2>10. \A i : Carries(sub', i) => Carries(sub, i)
    BY <2>6 DEF Carries, Wants
  <2>11. turn[c].mark \in Nat /\ sub.cursor \in Nat
    BY <2>1, <2>7 DEF Inv, TypeOK, Turn, Subscription
  <2> QED BY <2>6, <2>8, <2>9, <2>10, <2>11
<1> QED BY <1>1, InvHolds, PTL DEF Spec, CursorEarned
=============================================================================
