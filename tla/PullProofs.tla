----------------------------- MODULE PullProofs -----------------------------
(***************************************************************************)
(* Theorems about what a pull brings and finds: a replica's copy           *)
(* (Replica), for any number of revisions and journal entries, any page    *)
(* size, any changes and any faults of the push, and that a copy converges *)
(* unless a push stops or is late over changes at one revision; and that   *)
(* nothing falls between the archive and the window (Backfill), for any    *)
(* records, page size, window, retention and archive schedule that keep    *)
(* the margins MarginAssumption states.                                    *)
(***************************************************************************)
EXTENDS Replica, Backfill, TLAPS

USE BoundAssumption

-----------------------------------------------------------------------------
(* Replica: the inductive invariant.                                       *)

InFlight == page["pull"] \cup page["push"] \cup late

\* The revisions of the erasures in the journal, in flight and landed.
IsErasure(e) == e.reason = "erased"
ErasedRev(x) ==
  \/ x = erasedAt
  \/ \E e \in log \cup InFlight : IsErasure(e) /\ x = e.rev

\* Only a delete erases.
OnlyDeletesErase == \A e \in log \cup InFlight : IsErasure(e) => e.op = "delete"

\* The record is newer than its erasures while it is live, and never older; so
\* are the changes the journal still holds.
RecordNewer ==
  \A x \in Nat : ErasedRev(x) => x <= own.rev /\ (IsLive(own) => x < own.rev)
ChangesNewer ==
  \A e \in log : e.op = "change" => \A x \in Nat : ErasedRev(x) => x < e.rev

\* Until its fact is forgotten an erasure fences what is in flight.
FlightFenced ==
  ~fact => \A e \in InFlight : e.op = "change" => erasedAt < e.rev

\* A channel that is not busy carries nothing.
IdleEmpty == \A c \in Channel : ~busy[c] => page[c] = {}

\* Whatever the copy is, other than erased, is newer than every erasure that
\* landed; only an erasure moves it past the publisher's revisions.
CopyNewer == copy.rev > 0 /\ copy.status # "erased" => erasedAt < copy.rev
CopyBounded == copy.rev > MaxRev => copy.status = "erased"

\* The parts of the invariant other than the types.
Fenced ==
  /\ OnlyDeletesErase
  /\ RecordNewer
  /\ ChangesNewer
  /\ FlightFenced
  /\ IdleEmpty
  /\ CopyNewer
  /\ CopyBounded

Inv == TypeOK /\ Fenced

-----------------------------------------------------------------------------
(* Types.                                                                  *)

OwnRecord == [rev : 0 .. MaxRev, status : {"live"} \cup Ended, life : Life,
              out : {"open", "restricted", "withdrawn"}]
Copy == [rev : 0 .. MaxRev + 1, status : {"live"} \cup Ended, life : Life]

\* The entry of a record the journal may hold is one.
LEMMA EntryType ==
  ASSUME TypeOK, NEW r \in OwnRecord, r.rev > 0, newest < MaxLog,
         NEW op \in {"change", "retract", "delete"}
  PROVE  EntryOf(r, op) \in Entry
<1>1. newest + 1 \in 1 .. MaxLog
  BY BoundAssumption DEF TypeOK
<1>2. r.rev \in 1 .. MaxRev /\ r.life \in Life
  BY BoundAssumption DEF OwnRecord
<1>3. (IF r.status = "live" THEN "withdrawn" ELSE r.status) \in Ended
  BY DEF OwnRecord, Ended
<1> QED BY <1>1, <1>2, <1>3 DEF EntryOf, Entry

\* Journalling an entry keeps the journal's type.
LEMMA JournalType ==
  ASSUME TypeOK, NEW r \in OwnRecord, r.rev > 0,
         NEW op \in {"change", "retract", "delete"}, Journal(r, op)
  PROVE  log' \subseteq Entry /\ newest' \in 0 .. MaxLog
<1>1. EntryOf(r, op) \in Entry
  BY EntryType DEF Journal
<1> QED BY <1>1, BoundAssumption DEF Journal, TypeOK

\* Landing an entry keeps the copy's type.
LEMMA LandType ==
  ASSUME Inv, NEW e \in Entry, LandEntry(e)
  PROVE  copy' \in Copy /\ lapsed' = lapsed /\ fact' \in BOOLEAN /\ erasedAt' \in 0 .. MaxRev
<1>1. copy \in Copy /\ fact \in BOOLEAN /\ erasedAt \in 0 .. MaxRev
  BY DEF Inv, TypeOK, Copy
<1>2. e.rev \in 1 .. MaxRev /\ e.life \in Life /\ e.reason \in Ended
  BY DEF Entry
<1>3. CASE LandChange(e)
  BY <1>1, <1>2, <1>3, BoundAssumption DEF LandChange, Copy
<1>4. CASE LandDelete(e)
  <2>1. copy' \in Copy
    <3>1. CASE Applies(e)
      <4>1. EndedRevision(e) \in 0 .. MaxRev + 1
        <5>1. copy.rev \in 0 .. MaxRev + 1 /\ MaxRev \in Nat
          BY <1>1, BoundAssumption DEF Copy
        <5>2. CASE copy.rev <= MaxRev
          BY <1>2, <5>1, <5>2 DEF EndedRevision
        <5>3. CASE copy.rev > MaxRev
          <6>1. copy.status = "erased"
            BY <5>3 DEF Inv, Fenced, CopyBounded
          <6> QED BY <3>1, <6>1 DEF Applies, IsLapsed
        <5> QED BY <5>1, <5>2, <5>3
      <4> QED BY <1>1, <1>2, <1>4, <3>1, <4>1 DEF LandDelete, Copy
    <3>2. CASE ~Applies(e)
      BY <1>1, <1>4, <3>2 DEF LandDelete
    <3> QED BY <3>1, <3>2
  <2>2. fact' \in BOOLEAN
    BY <1>1, <1>4 DEF LandDelete
  <2>3. erasedAt' \in 0 .. MaxRev
    BY <1>1, <1>2, <1>4, BoundAssumption DEF LandDelete, Max2
  <2> QED BY <1>4, <2>1, <2>2, <2>3 DEF LandDelete
<1> QED BY <1>3, <1>4 DEF LandEntry

-----------------------------------------------------------------------------
(* The type invariant.                                                     *)

LEMMA InitType == Init => TypeOK
<1> SUFFICES ASSUME Init PROVE TypeOK
  OBVIOUS
<1>1. own \in [rev : 0 .. MaxRev, status : {"live"} \cup Ended, life : Life,
               out : {"open", "restricted", "withdrawn"}]
  BY BoundAssumption DEF Init, Life, Unlimited, Ended
<1>2. copy \in [rev : 0 .. MaxRev + 1, status : {"live"} \cup Ended, life : Life]
  BY BoundAssumption DEF Init, Life, Unlimited, Ended
<1>3. /\ now \in 0 .. MaxTime /\ newest \in 0 .. MaxLog
      /\ lapsed \in 0 .. MaxRev + 1 /\ erasedAt \in 0 .. MaxRev
  BY BoundAssumption DEF Init
<1>4. /\ cursor \in [Channel -> 0 .. MaxLog] /\ mark \in [Channel -> 0 .. MaxLog]
      /\ busy \in [Channel -> BOOLEAN] /\ page \in [Channel -> SUBSET Entry]
  BY BoundAssumption DEF Init
<1> QED BY <1>1, <1>2, <1>3, <1>4 DEF Init, TypeOK

\* The publisher's steps journal entries of the record as they leave it.
LEMMA PublisherType ==
  ASSUME TypeOK, Publisher, UNCHANGED scenario
  PROVE  TypeOK'
<1> DEFINE Captured == \/ UNCHANGED <<log, newest>>
                       \/ \E op \in {"change", "retract", "delete"} : Journal(own', op)
                       \/ Erase
<1>1. UNCHANGED <<now, channels, held>> /\ own' \in OwnRecord
  <2>0. own \in OwnRecord
    BY DEF TypeOK, OwnRecord
  <2>8. scenario.revs \in 1 .. MaxRev
    BY ScenariosAssumption DEF TypeOK
  <2>9. own.rev < scenario.revs => own.rev + 1 \in 0 .. MaxRev
    BY <2>0, <2>8, BoundAssumption DEF OwnRecord
  <2>1. ASSUME NEW life \in Life, Revise(life)
        PROVE  UNCHANGED <<now, channels, held>> /\ own' \in OwnRecord
    BY <2>0, <2>1, <2>9 DEF Revise, PublisherStep, OwnRecord
  <2>2. ASSUME NEW life \in Life, MoveLife(life)
        PROVE  UNCHANGED <<now, channels, held>> /\ own' \in OwnRecord
    BY <2>0, <2>2 DEF MoveLife, OwnRecord
  <2>3. ASSUME NEW reason \in {"withdrawn", "expired"}, End(reason)
        PROVE  UNCHANGED <<now, channels, held>> /\ own' \in OwnRecord
    BY <2>0, <2>3, <2>9 DEF End, PublisherStep, OwnRecord, Ended
  <2>4. CASE Erase
    BY <2>0, <2>4, <2>9 DEF Erase, PublisherStep, OwnRecord, Ended
  <2>5. CASE Restrict \/ Withdraw \/ Reopen
    BY <2>0, <2>5 DEF Restrict, Withdraw, Reopen, OwnRecord
  <2> QED BY <2>1, <2>2, <2>3, <2>4, <2>5 DEF Publisher
<1>2. log' \subseteq Entry /\ newest' \in 0 .. MaxLog
  <2>0. own \in OwnRecord /\ own.rev \in Nat
    BY BoundAssumption DEF TypeOK, OwnRecord
  <2>1. CASE UNCHANGED <<log, newest>>
    BY <2>1 DEF TypeOK
  <2>2. ASSUME own'.rev > 0, NEW op \in {"change", "retract", "delete"}, Journal(own', op)
        PROVE  log' \subseteq Entry /\ newest' \in 0 .. MaxLog
    BY <1>1, <2>2, JournalType
  <2>3. ASSUME own'.rev > 0, CaptureChange(own')
        PROVE  log' \subseteq Entry /\ newest' \in 0 .. MaxLog
    <3>1. own'.out \in {"open", "restricted", "withdrawn"}
      BY <1>1 DEF OwnRecord
    <3> QED BY <2>1, <2>2, <2>3, <3>1 DEF CaptureChange
  <2>4. ASSUME NEW life \in Life, Revise(life)
        PROVE  log' \subseteq Entry /\ newest' \in 0 .. MaxLog
    <3>1. own'.rev > 0
      BY <2>0, <2>4 DEF Revise, OwnRecord
    <3> QED BY <2>3, <2>4, <3>1 DEF Revise
  <2>5. ASSUME NEW life \in Life, MoveLife(life)
        PROVE  log' \subseteq Entry /\ newest' \in 0 .. MaxLog
    <3>1. own'.rev > 0
      BY <2>0, <2>5 DEF MoveLife, IsLive, OwnRecord
    <3> QED BY <2>3, <2>5, <3>1 DEF MoveLife
  <2>6. ASSUME NEW reason \in {"withdrawn", "expired"}, End(reason)
        PROVE  log' \subseteq Entry /\ newest' \in 0 .. MaxLog
    <3>1. own'.rev > 0
      BY <2>0, <2>6 DEF End, OwnRecord
    <3> QED BY <2>1, <2>2, <2>6, <3>1 DEF End, CaptureEnd
  <2>7. CASE Erase
    <3>1. own'.rev > 0
      BY <2>0, <2>7 DEF Erase, OwnRecord
    <3>2. newest < MaxLog => EntryOf(own', "delete") \in Entry
      BY <1>1, <3>1, EntryType
    <3> QED BY <2>1, <2>7, <3>2, BoundAssumption DEF Erase, TypeOK
  <2>8. CASE Withdraw
    <3>1. own'.rev > 0
      BY <2>0, <2>8 DEF Withdraw, IsLive, OwnRecord
    <3> QED BY <2>3, <2>8, <3>1 DEF Withdraw
  <2>9. CASE Restrict \/ Reopen
    <3>1. CASE ~IsLive(own)
      BY <2>1, <2>9, <3>1 DEF Restrict, Reopen
    <3>2. CASE IsLive(own)
      BY <2>0, <2>9, <3>2, JournalType DEF Restrict, Reopen, IsLive
    <3> QED BY <3>1, <3>2
  <2> QED BY <2>4, <2>5, <2>6, <2>7, <2>8, <2>9 DEF Publisher
<1> QED BY <1>1, <1>2 DEF TypeOK, OwnRecord, channels, held

\* The channels carry entries of the journal.
LEMMA ChannelType ==
  ASSUME Inv, NEW c \in Channel, Fetch(c) \/ Land(c) \/ Store(c) \/ Fail(c),
         UNCHANGED scenario
  PROVE  TypeOK'
<1>1. TypeOK
  BY DEF Inv
<1>2. CASE Fetch(c)
  <2>1. page' \in [Channel -> SUBSET Entry]
    BY <1>1, <1>2 DEF Fetch, TypeOK
  <2>2. mark' \in [Channel -> 0 .. MaxLog]
    <3>1. PICK to \in cursor[c] + 1 .. newest : mark' = [mark EXCEPT ![c] = to]
      BY <1>2 DEF Fetch
    <3>2. to \in 0 .. MaxLog
      BY <1>1, <3>1, BoundAssumption DEF TypeOK
    <3> QED BY <1>1, <3>1, <3>2 DEF TypeOK
  <2>3. busy' \in [Channel -> BOOLEAN]
    BY <1>1, <1>2 DEF Fetch, TypeOK
  <2> QED BY <1>1, <1>2, <2>1, <2>2, <2>3 DEF Fetch, TypeOK, journalled, held
<1>3. CASE Land(c)
  <2>1. PICK e \in page[c] : LandEntry(e) /\ page' = [page EXCEPT ![c] = @ \ {e}]
    BY <1>3 DEF Land
  <2>2. e \in Entry
    BY <1>1, <2>1 DEF TypeOK
  <2>3. page' \in [Channel -> SUBSET Entry]
    BY <1>1, <2>1 DEF TypeOK
  <2>4. copy' \in Copy /\ lapsed' = lapsed /\ fact' \in BOOLEAN /\ erasedAt' \in 0 .. MaxRev
    BY <2>1, <2>2, LandType
  <2> QED BY <1>1, <1>3, <2>3, <2>4 DEF Land, TypeOK, journalled, Copy
<1>4. CASE Store(c)
  <2>1. cursor' \in [Channel -> 0 .. MaxLog]
    BY <1>1, <1>4 DEF Store, TypeOK, Max2
  <2>2. busy' \in [Channel -> BOOLEAN]
    BY <1>1, <1>4 DEF Store, TypeOK
  <2> QED BY <1>1, <1>4, <2>1, <2>2 DEF Store, TypeOK, journalled, held
<1>5. CASE Fail(c)
  <2>1. busy' \in [Channel -> BOOLEAN] /\ page' \in [Channel -> SUBSET Entry]
    BY <1>1, <1>5 DEF Fail, TypeOK
  <2> QED BY <1>1, <1>5, <2>1 DEF Fail, TypeOK, journalled, held
<1> QED BY <1>2, <1>3, <1>4, <1>5

\* The late push and the subscriber's own steps.
LEMMA SubscriberType ==
  ASSUME Inv, GiveUp \/ LandLate \/ StopPush \/ Expire \/ Lapse \/ HearPeer
              \/ ForgetErasure \/ Tick,
         UNCHANGED scenario
  PROVE  TypeOK'
<1>1. TypeOK
  BY DEF Inv
<1>2. CASE GiveUp
  <2>1. /\ busy' \in [Channel -> BOOLEAN] /\ page' \in [Channel -> SUBSET Entry]
        /\ late' \subseteq Entry
    BY <1>1, <1>2 DEF GiveUp, TypeOK, Channel
  <2> QED BY <1>1, <1>2, <2>1 DEF GiveUp, TypeOK, journalled, held
<1>3. CASE LandLate
  <2>1. PICK e \in late : LandEntry(e) /\ late' = late \ {e}
    BY <1>3 DEF LandLate
  <2>2. e \in Entry /\ late' \subseteq Entry
    BY <1>1, <2>1 DEF TypeOK
  <2>3. copy' \in Copy /\ lapsed' = lapsed /\ fact' \in BOOLEAN /\ erasedAt' \in 0 .. MaxRev
    BY <2>1, <2>2, LandType
  <2> QED BY <1>1, <1>3, <2>2, <2>3 DEF LandLate, TypeOK, journalled, Copy
<1>4. CASE StopPush
  BY <1>1, <1>4 DEF StopPush, TypeOK, journalled, held
<1>5. CASE Expire
  BY <1>1, <1>5 DEF Expire, TypeOK, journalled, channels, Ended
<1>6. CASE Lapse
  BY <1>1, <1>6 DEF Lapse, TypeOK, journalled, channels, Ended
<1>7. CASE HearPeer
  BY <1>1, <1>7, BoundAssumption DEF HearPeer, TypeOK, journalled, channels
<1>8. CASE ForgetErasure
  BY <1>1, <1>8 DEF ForgetErasure, TypeOK, journalled, channels
<1>9. CASE Tick
  <2>1. scenario.until \in 0 .. MaxTime
    BY <1>1, ScenariosAssumption DEF TypeOK
  <2>2. now' \in 0 .. MaxTime
    BY <1>1, <1>9, <2>1, BoundAssumption DEF Tick, TypeOK
  <2> QED BY <1>1, <1>9, <2>2 DEF Tick, TypeOK, journalled, channels, held
<1> QED BY <1>2, <1>3, <1>4, <1>5, <1>6, <1>7, <1>8, <1>9

-----------------------------------------------------------------------------
(* The publisher's steps keep the invariant.                               *)

LEMMA InitFenced == Init => Fenced
<1> SUFFICES ASSUME Init PROVE Fenced
  OBVIOUS
<1>1. log = {} /\ InFlight = {} /\ erasedAt = 0
  BY DEF Init, InFlight, Channel
<1>2. OnlyDeletesErase /\ RecordNewer /\ ChangesNewer /\ FlightFenced
  BY <1>1 DEF Init, OnlyDeletesErase, RecordNewer, ChangesNewer, FlightFenced, ErasedRev, IsLive
<1>3. IdleEmpty /\ CopyNewer /\ CopyBounded
  BY BoundAssumption DEF Init, IdleEmpty, CopyNewer, CopyBounded
<1> QED BY <1>2, <1>3 DEF Fenced

\* A step of the record that erases nothing, and journals at most an entry of
\* the record as it leaves it, a change only of a live record.
LEMMA JournalFenced ==
  ASSUME Inv, UNCHANGED <<channels, held>>, own' \in OwnRecord,
         own'.rev > own.rev \/ (own'.rev = own.rev /\ own'.status = own.status),
         \/ log' = log
         \/ /\ own'.status # "erased"
            /\ \E op \in {"change", "retract", "delete"} :
                 /\ log' = log \cup {EntryOf(own', op)}
                 /\ op = "change" => IsLive(own')
  PROVE  Fenced'
<1>1. /\ UNCHANGED <<InFlight, busy, page, copy, fact, erasedAt>>
      /\ IdleEmpty' /\ CopyNewer' /\ CopyBounded' /\ FlightFenced'
  BY DEF channels, held, InFlight, Inv, Fenced, IdleEmpty, CopyNewer, CopyBounded, FlightFenced,
         Channel
<1>2. own.rev \in Nat /\ own'.rev \in Nat
  BY BoundAssumption DEF Inv, TypeOK, OwnRecord
<1>3. \A e \in log' : \/ e \in log
                      \/ /\ e.rev = own'.rev /\ ~IsErasure(e)
                         /\ e.op = "change" => IsLive(own')
  BY DEF EntryOf, IsErasure
<1>4. ASSUME NEW x \in Nat, ErasedRev(x)' PROVE ErasedRev(x)
  BY <1>1, <1>3, <1>4 DEF ErasedRev
<1>5. OnlyDeletesErase'
  BY <1>1, <1>3 DEF Inv, Fenced, OnlyDeletesErase
<1>6. RecordNewer'
  BY <1>2, <1>4 DEF RecordNewer, Inv, Fenced, IsLive
<1>7. ChangesNewer'
  <2> SUFFICES ASSUME NEW e \in log', e.op = "change", NEW x \in Nat, ErasedRev(x)'
               PROVE  x < e.rev
    BY DEF ChangesNewer
  <2>1. CASE e \in log
    BY <1>4, <2>1 DEF ChangesNewer, Inv, Fenced
  <2>2. CASE e \notin log
    <3>1. e.rev = own'.rev /\ IsLive(own')
      BY <1>3, <2>2
    <3> QED BY <1>6, <3>1 DEF RecordNewer, IsLive
  <2> QED BY <2>1, <2>2
<1> QED BY <1>1, <1>5, <1>6, <1>7 DEF Fenced

\* The erasure takes the record's changes from the journal, so the one that is
\* left to carry is newer than everything there.
LEMMA EraseFenced ==
  ASSUME Inv, Erase
  PROVE  Fenced'
<1>1. /\ UNCHANGED <<InFlight, busy, page, copy, fact, erasedAt>>
      /\ IdleEmpty' /\ CopyNewer' /\ CopyBounded' /\ FlightFenced'
  BY DEF Erase, PublisherStep, channels, held, InFlight, Inv, Fenced, IdleEmpty, CopyNewer,
         CopyBounded, FlightFenced, Channel
<1>2. own'.rev = own.rev + 1 /\ own'.status = "erased" /\ own.rev \in Nat
  BY BoundAssumption DEF Erase, Inv, TypeOK
<1>3. \A e \in log' : \/ e \in log /\ e.op = "delete"
                      \/ e.rev = own'.rev /\ e.op = "delete"
  BY DEF Erase, EntryOf
<1>4. ASSUME NEW x \in Nat, ErasedRev(x)' PROVE ErasedRev(x) \/ x = own'.rev
  BY <1>1, <1>3, <1>4 DEF ErasedRev
<1>5. OnlyDeletesErase'
  BY <1>1, <1>3 DEF Inv, Fenced, OnlyDeletesErase
<1>6. RecordNewer'
  BY <1>2, <1>4 DEF RecordNewer, Inv, Fenced, IsLive
<1>7. ChangesNewer'
  BY <1>3 DEF ChangesNewer
<1> QED BY <1>1, <1>5, <1>6, <1>7 DEF Fenced

LEMMA PublisherFenced ==
  ASSUME Inv, Publisher, UNCHANGED scenario
  PROVE  Fenced'
<1>0. own \in OwnRecord /\ own.rev \in Nat
  BY BoundAssumption DEF Inv, TypeOK, OwnRecord
<1>1. own' \in OwnRecord
  BY PublisherType DEF Inv, TypeOK, OwnRecord
<1>2. ASSUME NEW life \in Life, Revise(life) PROVE Fenced'
  <2>1. own'.rev > own.rev /\ IsLive(own') /\ UNCHANGED <<channels, held>>
    BY <1>0, <1>2 DEF Revise, PublisherStep, IsLive, OwnRecord
  <2>2. \/ log' = log
        \/ \E op \in {"change", "retract", "delete"} :
             log' = log \cup {EntryOf(own', op)}
    BY <1>1, <1>2 DEF Revise, CaptureChange, Journal, OwnRecord
  <2> QED BY <1>1, <2>1, <2>2, JournalFenced DEF IsLive
<1>3. ASSUME NEW life \in Life, MoveLife(life) PROVE Fenced'
  <2>1. /\ own'.rev = own.rev /\ own'.status = own.status /\ IsLive(own')
        /\ UNCHANGED <<channels, held>>
    BY <1>0, <1>3 DEF MoveLife, IsLive, OwnRecord
  <2>2. \/ log' = log
        \/ \E op \in {"change", "retract", "delete"} :
             log' = log \cup {EntryOf(own', op)}
    BY <1>1, <1>3 DEF MoveLife, CaptureChange, Journal, OwnRecord
  <2> QED BY <1>1, <2>1, <2>2, JournalFenced DEF IsLive
<1>4. ASSUME NEW reason \in {"withdrawn", "expired"}, End(reason) PROVE Fenced'
  <2>1. own'.rev > own.rev /\ own'.status # "erased" /\ UNCHANGED <<channels, held>>
    BY <1>0, <1>4 DEF End, PublisherStep, OwnRecord
  <2>2. log' = log \/ log' = log \cup {EntryOf(own', "delete")}
    BY <1>4 DEF End, CaptureEnd, Journal
  <2> QED BY <1>1, <2>1, <2>2, JournalFenced
<1>5. CASE Erase
  BY <1>5, EraseFenced
<1>6. CASE Restrict \/ Withdraw \/ Reopen
  <2>1. own'.rev = own.rev /\ own'.status = own.status /\ UNCHANGED <<channels, held>>
    BY <1>0, <1>6 DEF Restrict, Withdraw, Reopen, OwnRecord
  <2>2. CASE ~IsLive(own)
    <3>1. log' = log
      BY <1>6, <2>2 DEF Restrict, Withdraw, Reopen
    <3> QED BY <1>1, <2>1, <3>1, JournalFenced
  <2>3. CASE IsLive(own)
    <3>1. IsLive(own')
      BY <2>1, <2>3 DEF IsLive
    <3>2. \/ log' = log
          \/ \E op \in {"change", "retract", "delete"} :
               log' = log \cup {EntryOf(own', op)}
      <4>1. CASE Restrict
        <5>1. EntryOf(own, "delete") = EntryOf(own', "delete")
          BY <1>0, <4>1 DEF Restrict, EntryOf, OwnRecord
        <5> QED BY <2>3, <4>1, <5>1 DEF Restrict, Journal
      <4>2. CASE Withdraw
        BY <1>1, <4>2 DEF Withdraw, CaptureChange, Journal, OwnRecord
      <4>3. CASE Reopen
        <5>1. EntryOf(own, "change") = EntryOf(own', "change")
          BY <1>0, <4>3 DEF Reopen, EntryOf, OwnRecord
        <5> QED BY <2>3, <4>3, <5>1 DEF Reopen, Journal
      <4> QED BY <1>6, <4>1, <4>2, <4>3
    <3> QED BY <1>1, <2>1, <3>1, <3>2, JournalFenced DEF IsLive
  <2> QED BY <2>2, <2>3
<1> QED BY <1>2, <1>3, <1>4, <1>5, <1>6 DEF Publisher

-----------------------------------------------------------------------------
(* The subscriber's steps keep the invariant.                              *)

\* Landing an entry in flight: a change is fenced by the fact or newer than
\* every erasure; an erasure ends whatever copy is held.
LEMMA LandFenced ==
  ASSUME Inv, UNCHANGED journalled, NEW e \in InFlight, LandEntry(e),
         InFlight' \subseteq InFlight, IdleEmpty'
  PROVE  Fenced'
<1>1. /\ e \in Entry /\ copy.rev \in Nat /\ e.rev \in Nat /\ erasedAt \in Nat
      /\ fact \in BOOLEAN /\ e.rev <= MaxRev /\ e.rev > 0 /\ MaxRev \in Nat
  BY BoundAssumption DEF Inv, TypeOK, InFlight, Entry, Channel
<1>2. UNCHANGED <<own, log>>
  BY DEF journalled
<1>3. /\ IsErasure(e) => e.op = "delete"
      /\ ~fact /\ e.op = "change" => erasedAt < e.rev
  BY DEF Inv, Fenced, OnlyDeletesErase, FlightFenced
<1>4. erasedAt' = erasedAt \/ (IsErasure(e) /\ erasedAt' = e.rev)
  BY DEF LandEntry, LandChange, LandDelete, IsErasure, Max2
<1>5. ASSUME NEW x \in Nat, ErasedRev(x)' PROVE ErasedRev(x)
  BY <1>2, <1>4, <1>5 DEF ErasedRev
<1>6. OnlyDeletesErase' /\ RecordNewer' /\ ChangesNewer'
  <2>1. OnlyDeletesErase'
    BY <1>2 DEF Inv, Fenced, OnlyDeletesErase
  <2>2. RecordNewer'
    BY <1>2, <1>5 DEF Inv, Fenced, RecordNewer, IsLive
  <2>3. ChangesNewer'
    BY <1>2, <1>5 DEF Inv, Fenced, ChangesNewer
  <2> QED BY <2>1, <2>2, <2>3
<1>7. FlightFenced' /\ CopyNewer' /\ CopyBounded'
  <2>1. CASE e.op = "change" /\ LandChange(e)
    <3>1. fact' = fact /\ erasedAt' = erasedAt
      BY <2>1 DEF LandChange
    <3>2. FlightFenced'
      BY <3>1 DEF Inv, Fenced, FlightFenced
    <3>3. \/ copy' = copy
          \/ ~fact /\ copy'.rev = e.rev /\ e.op = "change"
      BY <2>1 DEF LandChange
    <3> QED BY <1>1, <1>3, <3>1, <3>2, <3>3 DEF Inv, Fenced, CopyNewer, CopyBounded
  <2>2. CASE e.op # "change" /\ LandDelete(e)
    <3>1. FlightFenced'
      <4>1. fact' => FlightFenced'
        BY DEF FlightFenced
      <4>2. ~fact' => ~fact /\ erasedAt' = erasedAt
        BY <2>2 DEF LandDelete
      <4> QED BY <4>1, <4>2 DEF Inv, Fenced, FlightFenced
    <3>2. CASE ~Applies(e)
      <4>1. copy' = copy
        BY <2>2, <3>2 DEF LandDelete
      <4>2. copy.rev > 0 /\ copy.status # "erased" => ~IsErasure(e)
        BY <3>2 DEF Applies, IsErasure
      <4> QED BY <1>4, <3>1, <4>1, <4>2 DEF Inv, Fenced, CopyNewer, CopyBounded
    <3>3. CASE Applies(e)
      <4>1. copy'.status = e.reason /\ copy'.rev = EndedRevision(e)
        BY <2>2, <3>3 DEF LandDelete, Inv, TypeOK
      <4>2. CASE IsErasure(e)
        BY <3>1, <4>1, <4>2 DEF IsErasure, CopyNewer, CopyBounded
      <4>3. CASE ~IsErasure(e)
        <5>1. copy.rev <= e.rev /\ copy.status # "erased" /\ copy.rev > 0
          BY <3>3, <4>3 DEF Applies, IsErasure, IsLapsed
        <5>2. copy'.rev = e.rev /\ erasedAt' = erasedAt /\ erasedAt < copy.rev
          BY <1>1, <1>4, <4>1, <4>3, <5>1 DEF EndedRevision, Inv, Fenced, CopyNewer
        <5> QED BY <1>1, <3>1, <5>1, <5>2 DEF CopyNewer, CopyBounded
      <4> QED BY <4>2, <4>3
    <3> QED BY <3>2, <3>3
  <2> QED BY <2>1, <2>2 DEF LandEntry
<1> QED BY <1>6, <1>7 DEF Fenced

LEMMA ChannelFenced ==
  ASSUME Inv, NEW c \in Channel, Fetch(c) \/ Land(c) \/ Store(c) \/ Fail(c)
  PROVE  Fenced'
<1>0. page \in [Channel -> SUBSET Entry] /\ busy \in [Channel -> BOOLEAN]
  BY DEF Inv, TypeOK
<1>1. CASE Land(c)
  <2>1. PICK e \in page[c] : LandEntry(e) /\ page' = [page EXCEPT ![c] = @ \ {e}]
    BY <1>1 DEF Land
  <2>2. e \in InFlight /\ InFlight' \subseteq InFlight
    BY <1>0, <1>1, <2>1 DEF Land, InFlight, Channel
  <2>3. IdleEmpty'
    BY <1>0, <1>1, <2>1 DEF Land, IdleEmpty, Inv, Fenced
  <2> QED BY <1>1, <2>1, <2>2, <2>3, LandFenced DEF Land
<1>2. CASE Fetch(c)
  <2>1. UNCHANGED <<own, log, copy, fact, erasedAt>>
    BY <1>2 DEF Fetch, journalled, held
  <2>2. InFlight' \subseteq InFlight \cup log
    BY <1>0, <1>2 DEF Fetch, InFlight, Channel
  <2>3. \A x : ErasedRev(x)' => ErasedRev(x)
    BY <2>1, <2>2 DEF ErasedRev
  <2>4. OnlyDeletesErase' /\ RecordNewer' /\ ChangesNewer'
    BY <2>1, <2>2, <2>3 DEF Inv, Fenced, OnlyDeletesErase, RecordNewer, ChangesNewer, IsLive
  <2>5. FlightFenced'
    <3>1. erasedAt \in Nat /\ ErasedRev(erasedAt)
      BY DEF Inv, TypeOK, ErasedRev
    <3>2. \A e \in log : e.op = "change" => erasedAt < e.rev
      BY <3>1 DEF Inv, Fenced, ChangesNewer
    <3> QED BY <2>1, <2>2, <3>2 DEF Inv, Fenced, FlightFenced
  <2>6. IdleEmpty'
    BY <1>0, <1>2 DEF Fetch, IdleEmpty, Inv, Fenced
  <2> QED BY <2>1, <2>4, <2>5, <2>6 DEF Inv, Fenced, CopyNewer, CopyBounded
<1>3. CASE Store(c) \/ Fail(c)
  <2>1. UNCHANGED <<own, log, copy, fact, erasedAt>>
    BY <1>3 DEF Store, Fail, journalled, held
  <2>2. InFlight' \subseteq InFlight
    BY <1>0, <1>3 DEF Store, Fail, InFlight, Channel
  <2>3. \A x : ErasedRev(x)' => ErasedRev(x)
    BY <2>1, <2>2 DEF ErasedRev
  <2>4. OnlyDeletesErase' /\ RecordNewer' /\ ChangesNewer' /\ FlightFenced'
    BY <2>1, <2>2, <2>3 DEF Inv, Fenced, OnlyDeletesErase, RecordNewer, ChangesNewer, FlightFenced,
                            IsLive
  <2>5. IdleEmpty'
    BY <1>0, <1>3 DEF Store, Fail, IdleEmpty, Inv, Fenced
  <2> QED BY <2>1, <2>4, <2>5 DEF Inv, Fenced, CopyNewer, CopyBounded
<1> QED BY <1>1, <1>2, <1>3

LEMMA SubscriberFenced ==
  ASSUME Inv, GiveUp \/ LandLate \/ StopPush \/ Expire \/ Lapse \/ HearPeer
              \/ ForgetErasure \/ Tick
  PROVE  Fenced'
<1>0. page \in [Channel -> SUBSET Entry] /\ busy \in [Channel -> BOOLEAN]
  BY DEF Inv, TypeOK
<1>1. CASE LandLate
  <2>1. PICK e \in late : LandEntry(e) /\ late' = late \ {e}
    BY <1>1 DEF LandLate
  <2>2. e \in InFlight /\ InFlight' \subseteq InFlight
    BY <1>1, <2>1 DEF LandLate, InFlight
  <2>3. IdleEmpty'
    BY <1>1 DEF LandLate, IdleEmpty, Inv, Fenced
  <2> QED BY <1>1, <2>1, <2>2, <2>3, LandFenced DEF LandLate
<1>2. ASSUME UNCHANGED <<own, log, fact, erasedAt>>, InFlight' \subseteq InFlight
      PROVE  OnlyDeletesErase' /\ RecordNewer' /\ ChangesNewer' /\ FlightFenced'
  <2>1. \A x : ErasedRev(x)' => ErasedRev(x)
    BY <1>2 DEF ErasedRev
  <2> QED BY <1>2, <2>1 DEF Inv, Fenced, OnlyDeletesErase, RecordNewer, ChangesNewer, FlightFenced,
                            IsLive
<1>3. CASE GiveUp
  <2>1. UNCHANGED <<own, log, fact, erasedAt, copy>>
    BY <1>3 DEF GiveUp, journalled, held
  <2>2. InFlight' \subseteq InFlight /\ IdleEmpty'
    BY <1>0, <1>3 DEF GiveUp, InFlight, IdleEmpty, Inv, Fenced, Channel
  <2> QED BY <1>2, <2>1, <2>2 DEF Inv, Fenced, CopyNewer, CopyBounded
<1>4. CASE StopPush \/ Tick
  <2>1. UNCHANGED <<own, log, fact, erasedAt, copy, page, late, busy>>
    BY <1>4 DEF StopPush, Tick, journalled, held, channels
  <2>2. InFlight' = InFlight /\ IdleEmpty'
    BY <2>1 DEF InFlight, IdleEmpty, Inv, Fenced
  <2> QED BY <1>2, <2>1, <2>2 DEF Inv, Fenced, CopyNewer, CopyBounded
<1>5. CASE Expire \/ Lapse \/ HearPeer
  <2>1. UNCHANGED <<own, log, fact, erasedAt, page, late, busy>>
    BY <1>5 DEF Expire, Lapse, HearPeer, journalled, channels
  <2>2. InFlight' = InFlight /\ IdleEmpty'
    BY <2>1 DEF InFlight, IdleEmpty, Inv, Fenced
  <2>3. /\ copy'.rev = copy.rev
        /\ copy.rev > 0 /\ copy'.status # copy.status => copy.status # "erased"
        /\ copy'.status # copy.status => copy.status # "erased"
    BY <1>5 DEF Expire, Lapse, HearPeer, IsLive, IsLapsed, Inv, TypeOK
  <2> QED BY <1>2, <2>1, <2>2, <2>3 DEF Inv, Fenced, CopyNewer, CopyBounded
<1>6. CASE ForgetErasure
  <2>1. UNCHANGED <<own, log, erasedAt, copy, page, late, busy>>
    BY <1>6 DEF ForgetErasure, journalled, channels
  <2>2. InFlight' = {} /\ InFlight = {}
    BY <1>6, <2>1 DEF ForgetErasure, NothingInFlight, InFlight, Inv, Fenced, IdleEmpty, Channel
  <2>3. \A x : ErasedRev(x)' => ErasedRev(x)
    BY <2>1, <2>2 DEF ErasedRev
  <2>4. OnlyDeletesErase' /\ RecordNewer' /\ ChangesNewer' /\ FlightFenced'
    BY <2>1, <2>2, <2>3 DEF Inv, Fenced, OnlyDeletesErase, RecordNewer, ChangesNewer, FlightFenced,
                            IsLive
  <2> QED BY <2>1, <2>4 DEF Inv, Fenced, IdleEmpty, CopyNewer, CopyBounded
<1> QED BY <1>1, <1>3, <1>4, <1>5, <1>6

-----------------------------------------------------------------------------
(* The theorems.                                                           *)

LEMMA Invariance == Spec => []Inv
<1>1. Init => Inv
  BY InitType, InitFenced DEF Inv
<1>2. Inv /\ [Next]_vars => Inv'
  <2> SUFFICES ASSUME Inv, [Next]_vars PROVE Inv'
    OBVIOUS
  <2>0. (Step /\ UNCHANGED scenario) \/ UNCHANGED vars
    BY DEF Next
  <2>1. CASE Publisher /\ UNCHANGED scenario
    BY <2>1, PublisherType, PublisherFenced DEF Inv
  <2>2. ASSUME NEW c \in Channel, Fetch(c) \/ Land(c) \/ Store(c) \/ Fail(c),
               UNCHANGED scenario
        PROVE  Inv'
    BY <2>2, ChannelType, ChannelFenced DEF Inv
  <2>3. CASE /\ GiveUp \/ LandLate \/ StopPush \/ Expire \/ Lapse \/ HearPeer
                \/ ForgetErasure \/ Tick
             /\ UNCHANGED scenario
    BY <2>3, SubscriberType, SubscriberFenced DEF Inv
  <2>4. CASE UNCHANGED vars
    <3>1. TypeOK'
      BY <2>4 DEF Inv, TypeOK, vars, journalled, channels, held
    <3>2. Fenced'
      BY <2>4 DEF Inv, Fenced, vars, journalled, channels, held, OnlyDeletesErase, RecordNewer,
                  ChangesNewer, FlightFenced, IdleEmpty, CopyNewer, CopyBounded, ErasedRev,
                  InFlight, IsLive
    <3> QED BY <3>1, <3>2 DEF Inv
  <2> QED BY <2>0, <2>1, <2>2, <2>3, <2>4 DEF Step
<1> QED BY <1>1, <1>2, PTL DEF Spec

\* Every state the publisher, the channels and the inbox reach is of its type:
\* a retraction's reason is one the wire knows, and a copy's revision passes the
\* publisher's by at most one.
THEOREM TypeCorrect == Spec => []TypeOK
<1>1. Inv => TypeOK
  BY DEF Inv
<1> QED BY <1>1, Invariance, PTL

\* Erased content never comes back at the subscriber, whatever page was in
\* flight, whichever channel brings it, however late, and whatever liveness of
\* the peer arrives.
THEOREM ErasureStays == Spec => []ErasedStays
<1>1. Inv => ErasedStays
  BY DEF Inv, Fenced, CopyNewer, ErasedStays, IsLive, TypeOK
<1> QED BY <1>1, Invariance, PTL

\* The revision of the copy never moves back, in whatever order two channels
\* land changes, retractions and erasures.
THEOREM RevisionMonotonic == Spec => RevisionNeverBack
<1>1. Inv /\ [Next]_vars => [copy'.rev >= copy.rev]_copy
  <2> SUFFICES ASSUME Inv, Next, copy' # copy PROVE copy'.rev >= copy.rev
    BY DEF vars, held
  <2>1. copy \in Copy /\ copy.rev \in Nat
    BY BoundAssumption DEF Inv, TypeOK, Copy
  <2>2. ASSUME NEW e \in Entry, LandEntry(e) PROVE copy'.rev >= copy.rev
    <3>1. e.rev \in Nat
      BY DEF Entry
    <3>2. CASE LandChange(e)
      BY <2>1, <3>1, <3>2 DEF LandChange, Copy
    <3>3. CASE LandDelete(e)
      BY <2>1, <3>1, <3>3 DEF LandDelete, EndedRevision, Copy
    <3> QED BY <2>2, <3>2, <3>3 DEF LandEntry
  <2>3. ASSUME NEW c \in Channel, Land(c) PROVE copy'.rev >= copy.rev
    BY <2>2, <2>3 DEF Land, Inv, TypeOK
  <2>4. CASE LandLate
    BY <2>2, <2>4 DEF LandLate, Inv, TypeOK
  <2>5. CASE Expire \/ Lapse \/ HearPeer
    BY <2>1, <2>5 DEF Expire, Lapse, HearPeer, Copy
  <2>6. UNCHANGED copy \/ (\E c \in Channel : Land(c)) \/ LandLate \/ Expire \/ Lapse \/ HearPeer
    BY DEF Next, Step, Publisher, Revise, MoveLife, End, Erase, Restrict, Withdraw, Reopen, PublisherStep,
           Fetch, Store, Fail, GiveUp, StopPush, ForgetErasure, Tick, held
  <2> QED BY <2>3, <2>4, <2>5, <2>6
<1> QED BY <1>1, Invariance, PTL DEF Spec, RevisionNeverBack

-----------------------------------------------------------------------------
(* Replica: a subscriber that caught up.                                   *)

\* What keeps a copy in step: a push that goes on and lands in time, or changes that
\* each take a new revision.
OneRevEach == scenario.changes \subseteq {"revise", "end", "erase"}
Lasting == scenario.faults = {} \/ OneRevEach

\* No erasure was journalled so far, and none landed.
Unerased == erasedAt = 0 /\ \A e \in log : ~IsErasure(e)

\* Whether a channel has an entry still before it.
Ahead(c, e) == IF busy[c] THEN e \in page[c] \/ e.idx > mark[c] ELSE e.idx > cursor[c]

\* Where the channels stand in the journal; an erasure is ahead of the pull until
\* one landed.
InPlace ==
  /\ \A e \in log : e.idx <= newest
  /\ \A c \in Channel :
       /\ cursor[c] <= newest
       /\ busy[c] => cursor[c] < mark[c] /\ mark[c] <= newest
       /\ \A e \in page[c] : cursor[c] < e.idx /\ e.idx <= mark[c]
ErasureAhead == \A e \in log : IsErasure(e) => erasedAt > 0 \/ Ahead("pull", e)

\* The journal, while nothing is erased: an entry of each number, in the order of
\* revisions; the newest says whether the record goes out, and how; and a revision
\* that expired is no change's.
GoesOut == IsLive(own) /\ own.out = "open"
InTurn ==
  /\ \A i \in 1 .. newest : \E e \in log : e.idx = i
  /\ \A e, f \in log : e.idx = f.idx => e = f
  /\ \A e, f \in log : e.idx <= f.idx => e.rev <= f.rev
  /\ \A e \in log : e.rev <= own.rev
NewestSays ==
  /\ newest = 0 => ~GoesOut
  /\ \A e \in log : e.idx = newest =>
       IF GoesOut THEN e.op = "change" /\ e.rev = own.rev /\ e.life = own.life
                  ELSE e.op # "change"
ExpiredApart ==
  \A e \in log : e.reason = "expired" =>
    /\ ~(IsLive(own) /\ own.rev = e.rev)
    /\ \A f \in log : f.op = "change" => f.rev # e.rev

\* The copy, while nothing is erased: it is of a revision journalled, a live or
\* lapsed one of a change's, and it expired for a reason.
ChangeOf(rev) == \E e \in log : e.op = "change" /\ e.rev = rev
ExpiryOf(rev) == \E e \in log : e.reason = "expired" /\ e.rev = rev
CopySays ==
  /\ ~fact /\ copy.status # "erased"
  /\ copy.rev > 0 => \E e \in log : e.rev = copy.rev
  /\ IsLive(copy) => ChangeOf(copy.rev)
  /\ lapsed > 0 => ChangeOf(lapsed)
  /\ copy.status = "expired" => IsLapsed \/ copy.life < now \/ ExpiryOf(copy.rev)

\* A page in flight ends with the newest entry, unless that is beyond it.
PageEnds ==
  \A c \in Channel : busy[c] /\ page[c] # {} =>
    \A e \in log : e.idx = newest => Ahead(c, e)

\* The copy is what the record is, also once the peer's liveness brings it back.
Settled ==
  IF GoesOut
    THEN \/ own.life <= now
         \/ /\ copy.rev = own.rev /\ copy.life = own.life
            /\ IsLive(copy) \/ IsLapsed
    ELSE ~IsLive(copy) /\ ~IsLapsed

\* Over a push that goes on and lands in time: the copy is settled, or some channel
\* has the newest entry still before it.
NewestSettles ==
  /\ newest = 0 => Settled
  /\ \A e \in log : e.idx = newest => Settled \/ \E c \in Channel : Ahead(c, e)

\* When each change takes a revision of its own: entries are numbered as revisions,
\* a retraction follows the change it retracts, the copy is as its revision's entry
\* left it, and of none older than what the pull has passed.
OneEach == own.out = "open" /\ own.life = Unlimited /\ own.rev = newest
EachFollows ==
  \A e \in log :
    /\ e.rev = e.idx /\ e.life = Unlimited
    /\ e.op # "change" /\ e.idx > 1 => \E f \in log : f.op = "change" /\ f.idx = e.idx - 1
    /\ e.op # "change" => e.idx > 1
CopyAs ==
  \A e \in log : e.rev = copy.rev =>
    IF e.op = "change" THEN copy.life = Unlimited /\ (IsLive(copy) \/ IsLapsed)
                       ELSE ~IsLive(copy) /\ ~IsLapsed
PullPassed == \A e \in log : ~Ahead("pull", e) => e.rev <= copy.rev

\* The parts together, each for the behaviours it is about.
ConvInv ==
  /\ InPlace /\ ErasureAhead
  /\ Unerased => InTurn /\ NewestSays /\ ExpiredApart /\ CopySays /\ InFlight \subseteq log /\ PageEnds
  /\ scenario.faults = {} => pushOn /\ late = {} /\ (Unerased => NewestSettles)
  /\ OneRevEach => OneEach /\ (Unerased => EachFollows /\ CopyAs /\ PullPassed)

LEMMA Ranges ==
  ASSUME Inv
  PROVE  /\ newest \in Nat /\ now \in Nat /\ erasedAt \in Nat /\ lapsed \in Nat /\ fact \in BOOLEAN
         /\ own \in OwnRecord /\ own.rev \in Nat /\ own.life \in Nat /\ own.life <= Unlimited
         /\ copy \in Copy /\ copy.rev \in Nat /\ copy.life \in Nat /\ now < Unlimited
         /\ Unlimited \in Nat
         /\ \A c \in Channel : cursor[c] \in Nat /\ mark[c] \in Nat /\ busy[c] \in BOOLEAN
         /\ \A c \in Channel : page[c] \subseteq Entry
         /\ log \subseteq Entry /\ late \subseteq Entry
         /\ busy \in [Channel -> BOOLEAN] /\ page \in [Channel -> SUBSET Entry]
         /\ mark \in [Channel -> 0 .. MaxLog] /\ cursor \in [Channel -> 0 .. MaxLog]
         /\ \A e \in Entry : /\ e.idx \in Nat /\ e.idx > 0 /\ e.rev \in Nat /\ e.rev > 0 /\ e.life \in Nat
                             /\ e.reason \in Ended /\ e.op \in {"change", "retract", "delete"}
<1>1. /\ own \in OwnRecord /\ copy \in Copy
      /\ newest \in Nat /\ now \in Nat /\ erasedAt \in Nat /\ lapsed \in Nat /\ fact \in BOOLEAN
      /\ log \subseteq Entry /\ late \subseteq Entry
      /\ busy \in [Channel -> BOOLEAN] /\ page \in [Channel -> SUBSET Entry]
      /\ mark \in [Channel -> 0 .. MaxLog] /\ cursor \in [Channel -> 0 .. MaxLog]
  BY DEF Inv, TypeOK, OwnRecord, Copy
<1>2. now < Unlimited /\ Unlimited \in Nat
  BY DEF Inv, TypeOK, Unlimited
<1>3. \A r \in OwnRecord : r.rev \in Nat /\ r.life \in Nat /\ r.life <= Unlimited
  BY DEF OwnRecord, Life, Unlimited
<1>4. copy.rev \in Nat /\ copy.life \in Nat
  BY <1>1 DEF Copy, Life
<1>5. \A e \in Entry : /\ e.idx \in Nat /\ e.idx > 0 /\ e.rev \in Nat /\ e.rev > 0 /\ e.life \in Nat
                       /\ e.reason \in Ended /\ e.op \in {"change", "retract", "delete"}
  BY DEF Entry, Life
<1>6. \A c \in Channel : /\ cursor[c] \in Nat /\ mark[c] \in Nat /\ busy[c] \in BOOLEAN
                         /\ page[c] \subseteq Entry
  BY <1>1
<1>7. QED
  BY <1>1, <1>2, <1>3, <1>4, <1>5, <1>6

-----------------------------------------------------------------------------
(* Replica: what the publisher journals.                                   *)

\* What a step of the record's journals: nothing, of a record that does not go out,
\* before or after; an erasure; or an entry of it as it then is.
NewEntry(n) ==
  /\ newest' = newest + 1 /\ log' = log \cup {n}
  /\ n.idx = newest + 1 /\ n.rev = own'.rev
  /\ n.op = "change" <=> GoesOut'
  /\ n.op = "change" => n.life = own'.life /\ n.reason = "withdrawn"
  /\ n.reason = "expired" => ~IsLive(own') /\ own'.rev > own.rev

LEMMA PublisherDoes ==
  ASSUME Inv, Publisher, UNCHANGED scenario
  PROVE  /\ UNCHANGED <<now, channels, held>>
         /\ own'.rev \in Nat /\ own'.rev >= own.rev
         /\ IsLive(own') => own'.rev > own.rev \/ IsLive(own)
         /\ \/ UNCHANGED <<log, newest>> /\ ~GoesOut /\ ~GoesOut'
            \/ /\ newest' = newest + 1
               /\ \E n \in log' : IsErasure(n) /\ n.idx = newest + 1 /\ log' \subseteq log \cup {n}
               /\ \A e \in log : e.op = "delete" => e \in log'
            \/ \E n : NewEntry(n)
<1>0. own \in OwnRecord /\ own.rev \in Nat /\ newest \in Nat
  BY Ranges
<1>1. ASSUME NEW r \in OwnRecord, NEW op \in {"change", "retract", "delete"}
      PROVE  /\ EntryOf(r, op).idx = newest + 1 /\ EntryOf(r, op).rev = r.rev
             /\ EntryOf(r, op).op = op /\ EntryOf(r, op).life = r.life
             /\ r.status = "live" => EntryOf(r, op).reason = "withdrawn"
             /\ r.status # "live" => EntryOf(r, op).reason = r.status
  BY DEF EntryOf
<1>2. own' \in OwnRecord
  BY PublisherType DEF Inv, TypeOK, OwnRecord
<1>3. ASSUME NEW life \in Life, Revise(life) \/ MoveLife(life)
      PROVE  /\ UNCHANGED <<now, channels, held>> /\ own'.rev \in Nat /\ own'.rev >= own.rev
             /\ own'.rev > own.rev \/ IsLive(own)
             /\ (UNCHANGED <<log, newest>> /\ ~GoesOut /\ ~GoesOut') \/ \E n : NewEntry(n)
  <2>1. /\ UNCHANGED <<now, channels, held>> /\ own'.out = own.out /\ own'.rev \in Nat /\ IsLive(own')
        /\ own'.rev > own.rev \/ (own'.rev = own.rev /\ IsLive(own))
        /\ CaptureChange(own')
    <3>1. CASE Revise(life)
      <4>1. own' = [own EXCEPT !.rev = @ + 1, !.status = "live", !.life = life]
        BY <3>1 DEF Revise
      <4>2. own'.rev = own.rev + 1 /\ own'.status = "live" /\ own'.out = own.out
        BY <1>0, <4>1 DEF OwnRecord
      <4>3. QED
        BY <1>0, <3>1, <4>2 DEF Revise, PublisherStep, IsLive
    <3>2. CASE MoveLife(life)
      BY <1>0, <3>2 DEF MoveLife, OwnRecord, IsLive
    <3>3. QED
      BY <1>3, <3>1, <3>2
  <2>2. CASE own'.out = "restricted"
    BY <1>0, <2>1, <2>2 DEF CaptureChange, GoesOut
  <2>3. CASE own'.out = "open"
    <3>1. NewEntry(EntryOf(own', "change"))
      BY <1>1, <1>2, <2>1, <2>3 DEF CaptureChange, Journal, NewEntry, GoesOut, IsLive
    <3>2. QED
      BY <1>0, <2>1, <3>1
  <2>4. CASE own'.out = "withdrawn"
    <3>1. NewEntry(EntryOf(own', "retract"))
      BY <1>1, <1>2, <2>1, <2>4 DEF CaptureChange, Journal, NewEntry, GoesOut, IsLive
    <3>2. QED
      BY <1>0, <2>1, <3>1
  <2>5. QED
    BY <1>2, <2>2, <2>3, <2>4 DEF OwnRecord
<1>4. ASSUME NEW reason \in {"withdrawn", "expired"}, End(reason)
      PROVE  /\ UNCHANGED <<now, channels, held>> /\ own'.rev \in Nat /\ own'.rev >= own.rev
             /\ ~IsLive(own')
             /\ (UNCHANGED <<log, newest>> /\ ~GoesOut /\ ~GoesOut') \/ \E n : NewEntry(n)
  <2>1. /\ UNCHANGED <<now, channels, held>> /\ own'.out = own.out /\ own'.rev = own.rev + 1
        /\ ~IsLive(own') /\ CaptureEnd(own')
    BY <1>0, <1>4 DEF End, PublisherStep, OwnRecord, IsLive
  <2>2. CASE own'.out = "restricted"
    BY <1>0, <2>1, <2>2 DEF CaptureEnd, GoesOut
  <2>3. CASE own'.out # "restricted"
    <3>1. NewEntry(EntryOf(own', "delete"))
      BY <1>0, <1>1, <1>2, <2>1, <2>3 DEF CaptureEnd, Journal, NewEntry, GoesOut
    <3>2. QED
      BY <1>0, <2>1, <3>1
  <2>4. QED
    BY <2>2, <2>3
<1>5. CASE Erase
  <2>1. /\ UNCHANGED <<now, channels, held>> /\ own'.out = own.out /\ own'.rev = own.rev + 1
        /\ ~IsLive(own') /\ own'.status = "erased"
    BY <1>0, <1>5 DEF Erase, PublisherStep, OwnRecord, IsLive
  <2>2. CASE own.out = "restricted" /\ log = {}
    BY <1>0, <1>5, <2>1, <2>2 DEF Erase, GoesOut
  <2>3. CASE ~(own.out = "restricted" /\ log = {})
    <3>1. /\ newest' = newest + 1
          /\ log' = {e \in log : e.op = "delete"} \cup {EntryOf(own', "delete")}
      BY <1>5, <2>3 DEF Erase
    <3>2. IsErasure(EntryOf(own', "delete")) /\ EntryOf(own', "delete").idx = newest + 1
      BY <1>1, <1>2, <2>1 DEF IsErasure
    <3>3. \E n \in log' : IsErasure(n) /\ n.idx = newest + 1 /\ log' \subseteq log \cup {n}
      BY <3>1, <3>2
    <3>4. QED
      BY <1>0, <2>1, <3>1, <3>3
  <2>4. QED
    BY <2>2, <2>3
<1>6. CASE Restrict \/ Withdraw \/ Reopen
  <2>1. /\ UNCHANGED <<now, channels, held>> /\ own'.rev = own.rev /\ own'.status = own.status
        /\ own'.life = own.life /\ (IsLive(own') <=> IsLive(own))
    BY <1>0, <1>6 DEF Restrict, Withdraw, Reopen, OwnRecord, IsLive
  <2>2. CASE ~IsLive(own)
    BY <1>0, <1>6, <2>1, <2>2 DEF Restrict, Withdraw, Reopen, GoesOut
  <2>3. CASE IsLive(own)
    <3>1. CASE Restrict
      <4>1. NewEntry(EntryOf(own, "delete"))
        BY <1>0, <1>1, <2>1, <2>3, <3>1 DEF Restrict, Journal, NewEntry, GoesOut, IsLive, OwnRecord
      <4>2. QED
        BY <1>0, <2>1, <2>3, <4>1
    <3>2. CASE Withdraw
      <4>1. NewEntry(EntryOf(own', "retract"))
        BY <1>0, <1>1, <1>2, <2>1, <2>3, <3>2
           DEF Withdraw, CaptureChange, Journal, NewEntry, GoesOut, IsLive, OwnRecord
      <4>2. QED
        BY <1>0, <2>1, <2>3, <4>1
    <3>3. CASE Reopen
      <4>1. NewEntry(EntryOf(own, "change"))
        BY <1>0, <1>1, <2>1, <2>3, <3>3 DEF Reopen, Journal, NewEntry, GoesOut, IsLive, OwnRecord
      <4>2. QED
        BY <1>0, <2>1, <2>3, <4>1
    <3>4. QED
      BY <1>6, <3>1, <3>2, <3>3
  <2>4. QED
    BY <2>2, <2>3
<1>7. QED
  BY <1>3, <1>4, <1>5, <1>6 DEF Publisher

LEMMA ErasuresStay ==
  ASSUME Inv, Publisher, UNCHANGED scenario, Unerased'
  PROVE  /\ Unerased
         /\ (UNCHANGED <<log, newest>> /\ ~GoesOut /\ ~GoesOut') \/ \E n : NewEntry(n)
<1>1. erasedAt' = erasedAt
  BY PublisherDoes DEF held
<1>2. OnlyDeletesErase
  BY DEF Inv, Fenced
<1>3. ~\E n \in log' : IsErasure(n)
  BY DEF Unerased, IsErasure
<1>4. \A e \in log : IsErasure(e) => e.op = "delete"
  BY <1>2 DEF OnlyDeletesErase
<1>5. (UNCHANGED <<log, newest>> /\ ~GoesOut /\ ~GoesOut') \/ \E n : NewEntry(n)
  BY <1>3, PublisherDoes
<1>6. log \subseteq log'
  BY <1>5 DEF NewEntry
<1>7. QED
  BY <1>1, <1>3, <1>5, <1>6 DEF Unerased, IsErasure

\* A new entry is before every channel.
LEMMA AheadOfAll ==
  ASSUME Inv, InPlace, newest' = newest + 1 \/ newest' = newest, UNCHANGED channels,
         NEW n, n.idx = newest + 1, NEW c \in Channel
  PROVE  /\ Ahead(c, n)'
         /\ \A e : Ahead(c, e)' <=> Ahead(c, e)
<1>1. UNCHANGED <<busy, page, mark, cursor>>
  BY DEF channels
<1>2. cursor[c] <= newest /\ (busy[c] => mark[c] <= newest)
  BY DEF InPlace
<1>3. newest \in Nat /\ mark[c] \in Nat /\ cursor[c] \in Nat /\ busy[c] \in BOOLEAN
  BY Ranges
<1>4. Ahead(c, n)'
  BY <1>1, <1>2, <1>3 DEF Ahead
<1>5. \A e : Ahead(c, e)' <=> Ahead(c, e)
  BY <1>1 DEF Ahead
<1>6. QED
  BY <1>4, <1>5

LEMMA PublisherPlaces ==
  ASSUME Inv, ConvInv, Publisher, UNCHANGED scenario
  PROVE  InPlace' /\ ErasureAhead'
<1>0. InPlace /\ ErasureAhead
  BY DEF ConvInv
<1>1. UNCHANGED <<channels, held>>
  BY PublisherDoes
<1>2. UNCHANGED <<busy, page, mark, cursor, erasedAt>>
  BY <1>1 DEF channels, held
<1>3. \/ UNCHANGED <<log, newest>>
      \/ /\ newest' = newest + 1
         /\ \E n : n.idx = newest + 1 /\ log' \subseteq log \cup {n}
  BY PublisherDoes DEF NewEntry
<1>4. newest \in Nat /\ log \subseteq Entry /\ (\A e \in Entry : e.idx \in Nat)
      /\ \A c \in Channel : cursor[c] \in Nat /\ mark[c] \in Nat
  BY Ranges
<1>5. CASE UNCHANGED <<log, newest>>
  BY <1>0, <1>2, <1>5 DEF InPlace, ErasureAhead, Ahead
<1>6. ASSUME newest' = newest + 1, NEW n, n.idx = newest + 1, log' \subseteq log \cup {n}
      PROVE  InPlace' /\ ErasureAhead'
  <2>1. \A e \in log' : e.idx <= newest'
    BY <1>0, <1>4, <1>6 DEF InPlace
  <2>2. \A c \in Channel : /\ cursor[c] <= newest'
                           /\ busy[c] => cursor[c] < mark[c] /\ mark[c] <= newest'
                           /\ \A e \in page[c] : cursor[c] < e.idx /\ e.idx <= mark[c]
    BY <1>0, <1>4, <1>6 DEF InPlace
  <2>3. InPlace'
    BY <1>2, <2>1, <2>2 DEF InPlace
  <2>4. "pull" \in Channel
    BY DEF Channel
  <2>5. ErasureAhead'
    <3>1. SUFFICES ASSUME NEW e \in log', IsErasure(e) PROVE erasedAt' > 0 \/ Ahead("pull", e)'
      BY DEF ErasureAhead, IsErasure
    <3>2. CASE e \in log
      BY <1>0, <1>1, <1>2, <1>6, <2>4, <3>1, <3>2, AheadOfAll DEF ErasureAhead
    <3>3. CASE e = n
      BY <1>0, <1>1, <1>6, <2>4, <3>3, AheadOfAll
    <3>4. QED
      BY <1>6, <3>2, <3>3
  <2>6. QED
    BY <2>3, <2>5
<1>7. QED
  BY <1>3, <1>5, <1>6

LEMMA PublisherJournals ==
  ASSUME Inv, ConvInv, Publisher, UNCHANGED scenario, Unerased'
  PROVE  Unerased /\ InTurn' /\ NewestSays' /\ ExpiredApart'
<1>0. Unerased /\ InTurn /\ NewestSays /\ ExpiredApart /\ InPlace
  BY ErasuresStay DEF ConvInv
<1>1. /\ own'.rev \in Nat /\ own'.rev >= own.rev
      /\ IsLive(own') => own'.rev > own.rev \/ IsLive(own)
  BY PublisherDoes
<1>2. own.rev \in Nat /\ newest \in Nat /\ log \subseteq Entry
      /\ \A e \in log : e.idx \in Nat /\ e.rev \in Nat /\ e.idx > 0
  BY Ranges
<1>3. CASE UNCHANGED <<log, newest>> /\ ~GoesOut /\ ~GoesOut'
  <2>1. InTurn'
    BY <1>0, <1>1, <1>2, <1>3 DEF InTurn
  <2>2. NewestSays'
    BY <1>0, <1>3 DEF NewestSays
  <2>3. ExpiredApart'
    <3>1. ASSUME NEW e \in log, e.reason = "expired", IsLive(own'), own'.rev = e.rev PROVE FALSE
      <4>1. e.rev <= own.rev
        BY <1>0 DEF InTurn
      <4>2. own.rev = e.rev /\ IsLive(own)
        BY <1>1, <1>2, <3>1, <4>1
      <4>3. QED
        BY <1>0, <3>1, <4>2 DEF ExpiredApart
    <3>2. QED
      BY <1>0, <1>3, <3>1 DEF ExpiredApart, IsLive
  <2>4. QED
    BY <1>0, <2>1, <2>2, <2>3
<1>4. ASSUME NEW n, NewEntry(n) PROVE InTurn' /\ NewestSays' /\ ExpiredApart'
  <2>1. newest' = newest + 1 /\ log' = log \cup {n} /\ n.idx = newest + 1 /\ n.rev = own'.rev
    BY <1>4 DEF NewEntry
  <2>2. \A e \in log : e.idx <= newest /\ e.rev <= own.rev
    BY <1>0 DEF InPlace, InTurn
  <2>3. InTurn'
    <3>1. \A i \in 1 .. newest' : \E e \in log' : e.idx = i
      <4>1. \A i \in 1 .. newest' : i \in 1 .. newest \/ i = n.idx
        BY <1>2, <2>1
      <4>2. QED
        BY <1>0, <2>1, <4>1 DEF InTurn
    <3>2. \A e, f \in log' : e.idx = f.idx => e = f
      BY <1>0, <1>2, <2>1, <2>2 DEF InTurn
    <3>3. \A e, f \in log' : e.idx <= f.idx => e.rev <= f.rev
      BY <1>0, <1>1, <1>2, <2>1, <2>2 DEF InTurn
    <3>4. \A e \in log' : e.rev <= own'.rev
      BY <1>1, <1>2, <2>1, <2>2
    <3>5. QED
      BY <3>1, <3>2, <3>3, <3>4 DEF InTurn
  <2>4. NewestSays'
    <3>1. \A e \in log' : e.idx = newest' => e = n
      BY <1>2, <2>1, <2>2
    <3>2. IF GoesOut' THEN n.op = "change" /\ n.rev = own'.rev /\ n.life = own'.life ELSE n.op # "change"
      BY <1>4 DEF NewEntry
    <3>3. newest' # 0
      BY <1>2, <2>1
    <3>4. QED
      BY <3>1, <3>2, <3>3 DEF NewestSays
  <2>5. ExpiredApart'
    <3>1. SUFFICES ASSUME NEW e \in log', e.reason = "expired"
                   PROVE  ~(IsLive(own') /\ own'.rev = e.rev) /\ \A f \in log' : f.op = "change" => f.rev # e.rev
      BY DEF ExpiredApart, IsLive
    <3>2. CASE e \in log
      <4>1. ~(IsLive(own') /\ own'.rev = e.rev)
        <5>1. SUFFICES ASSUME IsLive(own'), own'.rev = e.rev PROVE FALSE
          OBVIOUS
        <5>2. own.rev = e.rev /\ IsLive(own)
          BY <1>1, <1>2, <2>2, <3>2, <5>1
        <5>3. QED
          BY <1>0, <3>1, <3>2, <5>2 DEF ExpiredApart
      <4>2. n.op = "change" => n.rev # e.rev
        BY <1>4, <2>1, <4>1 DEF NewEntry, GoesOut
      <4>3. QED
        BY <1>0, <2>1, <3>1, <3>2, <4>1, <4>2 DEF ExpiredApart
    <3>3. CASE e = n
      <4>1. ~IsLive(own') /\ own'.rev > own.rev
        BY <1>4, <3>1, <3>3 DEF NewEntry
      <4>2. \A f \in log : f.rev # e.rev
        BY <1>1, <1>2, <2>1, <2>2, <3>3, <4>1
      <4>3. n.op # "change"
        BY <1>4, <3>1, <3>3 DEF NewEntry
      <4>4. QED
        BY <2>1, <3>3, <4>1, <4>2, <4>3
    <3>4. QED
      BY <2>1, <3>2, <3>3
  <2>6. QED
    BY <2>3, <2>4, <2>5
<1>5. QED
  BY <1>0, <1>3, <1>4, ErasuresStay

LEMMA PublisherLeaves ==
  ASSUME Inv, ConvInv, Publisher, UNCHANGED scenario, Unerased'
  PROVE  CopySays' /\ (InFlight \subseteq log)' /\ PageEnds'
<1>0. Unerased /\ CopySays /\ InFlight \subseteq log /\ PageEnds /\ InPlace
  BY ErasuresStay DEF ConvInv
<1>1. UNCHANGED <<now, channels, held>>
  BY PublisherDoes
<1>2. UNCHANGED <<now, busy, page, mark, cursor, late, copy, lapsed, fact>>
  BY <1>1 DEF channels, held
<1>3. log \subseteq log'
  BY ErasuresStay DEF NewEntry
<1>4. CopySays'
  <2>1. \A rev : /\ ChangeOf(rev) => ChangeOf(rev)'
                 /\ ExpiryOf(rev) => ExpiryOf(rev)'
    BY <1>3 DEF ChangeOf, ExpiryOf
  <2>2. /\ IsLive(copy') <=> IsLive(copy)
        /\ IsLapsed' <=> IsLapsed
    BY <1>2 DEF IsLapsed, IsLive
  <2>3. QED
    BY <1>0, <1>2, <1>3, <2>1, <2>2 DEF CopySays
<1>5. (InFlight \subseteq log)'
  BY <1>0, <1>2, <1>3 DEF InFlight
<1>6. PageEnds'
  <2>1. SUFFICES ASSUME NEW c \in Channel, busy[c], page[c] # {}, NEW e \in log', e.idx = newest'
                 PROVE  Ahead(c, e)'
    BY <1>2 DEF PageEnds
  <2>2. CASE UNCHANGED <<log, newest>>
    BY <1>0, <1>2, <2>1, <2>2 DEF PageEnds, Ahead
  <2>3. ASSUME NEW n, NewEntry(n) PROVE Ahead(c, e)'
    <3>1. newest \in Nat /\ \A f \in log : f.idx <= newest
      BY <1>0, Ranges DEF InPlace
    <3>2. newest' = newest + 1
      BY <2>3 DEF NewEntry
    <3>3. e.idx = newest + 1
      BY <2>1, <3>2
    <3>4. QED
      BY <1>0, <1>1, <3>2, <3>3, AheadOfAll
  <2>4. QED
    BY <2>2, <2>3, ErasuresStay
<1>7. QED
  BY <1>4, <1>5, <1>6

LEMMA PublisherSettles ==
  ASSUME Inv, ConvInv, Publisher, UNCHANGED scenario, scenario.faults = {}
  PROVE  pushOn' /\ late' = {} /\ (Unerased' => NewestSettles')
<1>1. UNCHANGED <<now, channels, held>>
  BY PublisherDoes
<1>2. UNCHANGED <<now, busy, page, mark, cursor, late, pushOn, copy, lapsed>>
  BY <1>1 DEF channels, held
<1>3. pushOn' /\ late' = {}
  BY <1>2 DEF ConvInv
<1>4. ASSUME Unerased' PROVE NewestSettles'
  <2>0. NewestSettles /\ InPlace
    BY <1>4, ErasuresStay DEF ConvInv
  <2>1. CASE UNCHANGED <<log, newest>> /\ ~GoesOut /\ ~GoesOut'
    <3>1. Settled => Settled'
      BY <1>2, <2>1 DEF Settled, IsLive, IsLapsed
    <3>2. \A c, e : Ahead(c, e)' <=> Ahead(c, e)
      BY <1>2 DEF Ahead
    <3>3. QED
      BY <2>0, <2>1, <3>1, <3>2 DEF NewestSettles
  <2>2. ASSUME NEW n, NewEntry(n) PROVE NewestSettles'
    <3>1. newest \in Nat
      BY Ranges
    <3>2. newest' = newest + 1
      BY <2>2 DEF NewEntry
    <3>3. \A e : e.idx = newest' => Ahead("pull", e)'
      BY <1>1, <2>0, <3>2, AheadOfAll DEF Channel
    <3>4. newest' # 0
      BY <3>1, <3>2
    <3>5. QED
      BY <3>3, <3>4 DEF NewestSettles, Channel
  <2>3. QED
    BY <1>4, <2>1, <2>2, ErasuresStay
<1>5. QED
  BY <1>3, <1>4

\* A step of a record whose changes each take a revision journals one of them.
LEMMA OneByOne ==
  ASSUME Inv, OneEach, OneRevEach, Publisher, UNCHANGED scenario
  PROVE  /\ OneEach' /\ newest' = newest + 1
         /\ Unerased' => \E n : NewEntry(n) /\ (n.op = "change" \/ GoesOut)
                                /\ n.life = Unlimited
<1>0. own \in OwnRecord /\ own.rev \in Nat /\ newest \in Nat
  BY Ranges
<1>1. own.out = "open" /\ own.life = Unlimited /\ own.rev = newest
  BY DEF OneEach
<1>2. "life" \notin scenario.changes /\ "restrict" \notin scenario.changes
      /\ "withdraw" \notin scenario.changes
  BY DEF OneRevEach
<1>3. ASSUME NEW life \in Life, Revise(life)
      PROVE  /\ own'.out = "open" /\ own'.life = Unlimited /\ own'.rev = newest + 1
             /\ own'.status = "live"
             /\ Journal(own', "change")
  <2>1. /\ own' = [own EXCEPT !.rev = @ + 1, !.status = "live", !.life = life]
        /\ life = Unlimited /\ CaptureChange(own')
    BY <1>2, <1>3 DEF Revise
  <2>2. own'.out = "open" /\ own'.life = Unlimited /\ own'.rev = newest + 1 /\ own'.status = "live"
    BY <1>0, <1>1, <2>1 DEF OwnRecord
  <2>3. QED
    BY <2>1, <2>2 DEF CaptureChange
<1>4. ASSUME NEW reason \in {"withdrawn", "expired"}, End(reason)
      PROVE  /\ own'.out = "open" /\ own'.life = Unlimited /\ own'.rev = newest + 1
             /\ own'.status = reason /\ GoesOut
             /\ Journal(own', "delete")
  <2>1. own' = [own EXCEPT !.rev = @ + 1, !.status = reason] /\ CaptureEnd(own') /\ IsLive(own)
    BY <1>4 DEF End
  <2>2. own'.out = "open" /\ own'.life = Unlimited /\ own'.rev = newest + 1 /\ own'.status = reason
    BY <1>0, <1>1, <2>1 DEF OwnRecord
  <2>3. QED
    BY <1>1, <2>1, <2>2 DEF CaptureEnd, GoesOut
<1>5. ASSUME Erase
      PROVE  /\ own'.out = "open" /\ own'.life = Unlimited /\ own'.rev = newest + 1
             /\ newest' = newest + 1
             /\ EntryOf(own', "delete") \in log' /\ own'.status = "erased"
  <2>1. own' = [own EXCEPT !.rev = @ + 1, !.status = "erased"]
    BY <1>5 DEF Erase
  <2>2. own'.out = "open" /\ own'.life = Unlimited /\ own'.rev = newest + 1 /\ own'.status = "erased"
    BY <1>0, <1>1, <2>1 DEF OwnRecord
  <2>3. newest' = newest + 1 /\ EntryOf(own', "delete") \in log'
    BY <1>1, <1>5 DEF Erase
  <2>4. QED
    BY <2>2, <2>3
<1>6. ~(Restrict \/ Withdraw \/ Reopen) /\ \A life \in Life : ~MoveLife(life)
  BY <1>1, <1>2 DEF Restrict, Withdraw, Reopen, MoveLife
<1>7. CASE Erase
  <2>1. IsErasure(EntryOf(own', "delete"))
    BY <1>5, <1>7 DEF EntryOf, IsErasure
  <2>2. ~Unerased'
    BY <1>5, <1>7, <2>1 DEF Unerased, IsErasure
  <2>3. QED
    BY <1>5, <1>7, <2>2 DEF OneEach
<1>8. ASSUME NEW life \in Life, Revise(life) PROVE OneEach' /\ newest' = newest + 1 /\ \E n : NewEntry(n) /\ n.op = "change" /\ n.life = Unlimited
  <2> DEFINE n == EntryOf(own', "change")
  <2>1. newest' = newest + 1 /\ log' = log \cup {n}
    BY <1>3, <1>8 DEF Journal
  <2>2. n.op = "change" /\ n.idx = newest + 1 /\ n.rev = own'.rev /\ n.life = own'.life
        /\ n.reason = "withdrawn"
    BY <1>3, <1>8 DEF EntryOf
  <2>3. GoesOut'
    BY <1>0, <1>3, <1>8 DEF GoesOut, IsLive
  <2> HIDE DEF n
  <2>4. NewEntry(n)
    BY <2>1, <2>2, <2>3 DEF NewEntry
  <2>5. QED
    BY <1>3, <1>8, <2>1, <2>2, <2>4 DEF OneEach
<1>9. ASSUME NEW reason \in {"withdrawn", "expired"}, End(reason) PROVE OneEach' /\ newest' = newest + 1 /\ \E n : NewEntry(n) /\ GoesOut /\ n.life = Unlimited
  <2> DEFINE n == EntryOf(own', "delete")
  <2>1. newest' = newest + 1 /\ log' = log \cup {n}
    BY <1>4, <1>9 DEF Journal
  <2>2. n.op = "delete" /\ n.idx = newest + 1 /\ n.rev = own'.rev /\ n.life = own'.life
    BY <1>4, <1>9 DEF EntryOf
  <2>3. ~IsLive(own') /\ ~GoesOut' /\ own'.rev > own.rev
    BY <1>0, <1>1, <1>4, <1>9 DEF GoesOut, IsLive
  <2> HIDE DEF n
  <2>4. NewEntry(n)
    BY <2>1, <2>2, <2>3 DEF NewEntry
  <2>5. QED
    BY <1>4, <1>9, <2>1, <2>2, <2>4 DEF OneEach
<1>10. QED
  BY <1>6, <1>7, <1>8, <1>9 DEF Publisher

LEMMA PublisherFollows ==
  ASSUME Inv, ConvInv, Publisher, UNCHANGED scenario, OneRevEach
  PROVE  OneEach' /\ (Unerased' => EachFollows' /\ CopyAs' /\ PullPassed')
<1>0. OneEach /\ InPlace
  BY DEF ConvInv
<1>1. OneEach'
  BY <1>0, OneByOne
<1>2. ASSUME Unerased' PROVE EachFollows' /\ CopyAs' /\ PullPassed'
  <2>0. Unerased /\ EachFollows /\ CopyAs /\ PullPassed /\ InTurn /\ NewestSays /\ CopySays
    BY <1>2, ErasuresStay DEF ConvInv
  <2>1. PICK n : NewEntry(n) /\ (n.op = "change" \/ GoesOut) /\ n.life = Unlimited
    BY <1>0, <1>2, OneByOne
  <2>2. newest' = newest + 1 /\ log' = log \cup {n} /\ n.idx = newest + 1 /\ n.rev = newest + 1
    BY <1>1, <2>1 DEF NewEntry, OneEach
  <2>3. newest \in Nat /\ copy.rev \in Nat /\ log \subseteq Entry
        /\ \A e \in Entry : e.idx \in Nat /\ e.rev \in Nat
    BY Ranges
  <2>4. UNCHANGED <<channels, held>> /\ UNCHANGED <<copy, lapsed>>
    BY PublisherDoes DEF held
  <2>5. EachFollows'
    <3>1. n.op # "change" => n.idx > 1 /\ \E f \in log : f.op = "change" /\ f.idx = n.idx - 1
      <4>1. SUFFICES ASSUME GoesOut PROVE n.idx > 1 /\ \E f \in log : f.op = "change" /\ f.idx = n.idx - 1
        BY <2>1
      <4>2. newest \in 1 .. newest
        BY <2>0, <2>3, <4>1 DEF NewestSays
      <4>3. PICK f \in log : f.idx = newest
        BY <2>0, <4>2 DEF InTurn
      <4>4. f.op = "change"
        BY <2>0, <4>1, <4>3 DEF NewestSays
      <4>5. QED
        BY <2>2, <2>3, <4>2, <4>3, <4>4
    <3>2. QED
      BY <2>0, <2>1, <2>2, <3>1 DEF EachFollows
  <2>6. CopyAs'
    <3>1. n.rev # copy.rev
      <4>1. copy.rev > 0 => \E e \in log : e.rev = copy.rev
        BY <2>0 DEF CopySays
      <4>2. \A e \in log : e.rev <= newest
        BY <1>0, <2>0 DEF OneEach, InTurn
      <4>3. QED
        BY <2>2, <2>3, <4>1, <4>2
    <3>2. IsLive(copy)' = IsLive(copy) /\ IsLapsed' = IsLapsed
      BY <2>4 DEF IsLive, IsLapsed
    <3>3. QED
      BY <2>0, <2>2, <2>4, <3>1, <3>2 DEF CopyAs
  <2>7. PullPassed'
    <3>1. \A e : Ahead("pull", e)' <=> Ahead("pull", e)
      BY <1>0, <2>2, <2>4, AheadOfAll DEF Channel
    <3>2. Ahead("pull", n)'
      BY <1>0, <2>2, <2>4, AheadOfAll DEF Channel
    <3>3. QED
      BY <2>0, <2>2, <2>4, <3>1, <3>2 DEF PullPassed
  <2>8. QED
    BY <2>5, <2>6, <2>7
<1>3. QED
  BY <1>1, <1>2

LEMMA PublisherConverges ==
  ASSUME Inv, ConvInv, Publisher, UNCHANGED scenario
  PROVE  ConvInv'
<1>1. OneRevEach' <=> OneRevEach
  BY DEF OneRevEach
<1>2. QED
  BY <1>1, PublisherPlaces, PublisherJournals, PublisherLeaves, PublisherSettles, PublisherFollows
     DEF ConvInv

-----------------------------------------------------------------------------
(* Replica: what the channels carry.                                       *)

\* Reading, storing, failing and giving up leave before a channel what was before it.
Carries(c) == Fetch(c) \/ Store(c) \/ Fail(c) \/ (GiveUp /\ c = "push")

LEMMA Carried ==
  ASSUME Inv, InPlace, NEW c \in Channel, Carries(c)
  PROVE  /\ InPlace' /\ UNCHANGED <<now, journalled, pushOn, held>>
         /\ InFlight' \subseteq InFlight \cup log
         /\ \A d \in Channel, e \in log : Serves(e) /\ Ahead(d, e) => Ahead(d, e)'
         /\ \A d \in Channel \ {c} : busy'[d] = busy[d] /\ page'[d] = page[d]
                                     /\ \A e : Ahead(d, e)' <=> Ahead(d, e)
         /\ busy'[c] => /\ ~busy[c] /\ mark'[c] \in Nat /\ cursor[c] < mark'[c] /\ mark'[c] <= newest
                        /\ page'[c] = {e \in log : cursor[c] < e.idx /\ e.idx <= mark'[c] /\ Serves(e)}
<1>0. /\ newest \in Nat /\ cursor[c] \in Nat /\ mark[c] \in Nat /\ busy[c] \in BOOLEAN
      /\ busy \in [Channel -> BOOLEAN] /\ page \in [Channel -> SUBSET Entry]
      /\ mark \in [Channel -> 0 .. MaxLog] /\ cursor \in [Channel -> 0 .. MaxLog]
      /\ log \subseteq Entry /\ \A e \in Entry : e.idx \in Nat
  BY Ranges
<1>1. UNCHANGED <<now, journalled, pushOn, held>> /\ UNCHANGED <<log, newest>>
  BY DEF Carries, Fetch, Store, Fail, GiveUp, journalled
<1>2. /\ \A d \in Channel \ {c} : /\ busy'[d] = busy[d] /\ page'[d] = page[d]
                                  /\ mark'[d] = mark[d] /\ cursor'[d] = cursor[d]
  BY <1>0 DEF Carries, Fetch, Store, Fail, GiveUp
<1>3. InFlight' \subseteq InFlight \cup log
  <2>1. late' \subseteq InFlight
    BY DEF Carries, Fetch, Store, Fail, GiveUp, InFlight
  <2>2. \A d \in Channel : page'[d] \subseteq page[d] \cup log
    BY <1>0 DEF Carries, Fetch, Store, Fail, GiveUp
  <2>3. QED
    BY <2>1, <2>2 DEF InFlight, Channel
<1>4. busy'[c] => /\ ~busy[c] /\ mark'[c] \in Nat /\ cursor[c] < mark'[c] /\ mark'[c] <= newest
                  /\ cursor'[c] = cursor[c]
                  /\ page'[c] = {e \in log : cursor[c] < e.idx /\ e.idx <= mark'[c] /\ Serves(e)}
  BY <1>0 DEF Carries, Fetch, Store, Fail, GiveUp
<1>5. ~busy'[c] => /\ busy[c] /\ page'[c] = {}
                   /\ cursor'[c] = cursor[c] \/ (page[c] = {} /\ cursor'[c] = mark[c])
  <2>1. busy[c] => cursor[c] < mark[c]
    BY DEF InPlace
  <2>2. QED
    BY <1>0, <2>1 DEF Carries, Fetch, Store, Fail, GiveUp, Max2
<1>6. InPlace'
  <2>1. SUFFICES ASSUME NEW d \in Channel
                 PROVE  /\ cursor'[d] <= newest
                        /\ busy'[d] => cursor'[d] < mark'[d] /\ mark'[d] <= newest
                        /\ \A e \in page'[d] : cursor'[d] < e.idx /\ e.idx <= mark'[d]
    BY <1>1 DEF InPlace
  <2>2. CASE d # c
    BY <1>2, <2>2 DEF InPlace
  <2>3. CASE d = c
    BY <1>0, <1>4, <1>5, <2>3 DEF InPlace
  <2>4. QED
    BY <2>2, <2>3
<1>7. \A d \in Channel \ {c} : \A e : Ahead(d, e)' <=> Ahead(d, e)
  BY <1>2 DEF Ahead
<1>8. \A e \in log : Serves(e) /\ Ahead(c, e) => Ahead(c, e)'
  <2>1. SUFFICES ASSUME NEW e \in log, Serves(e), Ahead(c, e) PROVE Ahead(c, e)'
    OBVIOUS
  <2>2. CASE busy'[c]
    <3>1. ~busy[c] /\ e.idx \in Nat /\ cursor[c] < e.idx
      BY <1>0, <1>4, <2>1, <2>2 DEF Ahead
    <3>2. e.idx <= mark'[c] => e \in page'[c]
      BY <1>4, <2>1, <2>2, <3>1
    <3>3. QED
      BY <1>4, <2>2, <3>1, <3>2 DEF Ahead
  <2>3. CASE ~busy'[c]
    <3>1. cursor[c] < e.idx /\ (page[c] = {} => mark[c] < e.idx)
      BY <1>0, <1>5, <2>1, <2>3 DEF Ahead, InPlace
    <3>2. QED
      BY <1>0, <1>5, <2>3, <3>1 DEF Ahead
  <2>4. QED
    BY <2>2, <2>3
<1>9. QED
  BY <1>1, <1>2, <1>3, <1>4, <1>6, <1>7, <1>8

LEMMA CarryConverges ==
  ASSUME Inv, ConvInv, NEW c \in Channel, Carries(c), UNCHANGED scenario
  PROVE  ConvInv'
<1>0. InPlace /\ ErasureAhead
  BY DEF ConvInv
<1>1. /\ UNCHANGED <<now, own, log, newest, pushOn, copy, lapsed, fact, erasedAt>>
      /\ IsLapsed' = IsLapsed /\ IsLive(copy)' = IsLive(copy) /\ IsLive(own)' = IsLive(own)
      /\ GoesOut' = GoesOut
  BY <1>0, Carried DEF journalled, held, IsLapsed, IsLive, GoesOut
<1>2. Unerased' = Unerased /\ OneRevEach' = OneRevEach
  BY <1>1 DEF Unerased, OneRevEach
<1>3. \A e \in log : IsErasure(e) => Serves(e)
  BY DEF Inv, Fenced, OnlyDeletesErase, Serves
<1>4. InPlace' /\ ErasureAhead'
  BY <1>0, <1>1, <1>3, Carried DEF ErasureAhead, Channel
<1>5. ASSUME Unerased
      PROVE  /\ InTurn' /\ NewestSays' /\ ExpiredApart' /\ CopySays' /\ (InFlight \subseteq log)'
             /\ PageEnds'
             /\ \A d \in Channel, e \in log : e.idx = newest /\ Ahead(d, e) => Ahead(d, e)'
  <2>0. InTurn /\ NewestSays /\ ExpiredApart /\ CopySays /\ InFlight \subseteq log /\ PageEnds
    BY <1>5 DEF ConvInv
  <2>1. InTurn'
    BY <1>1, <2>0 DEF InTurn
  <2>2. NewestSays' /\ ExpiredApart'
    BY <1>1, <2>0 DEF NewestSays, ExpiredApart
  <2>3. CopySays'
    BY <1>1, <2>0 DEF CopySays, ChangeOf, ExpiryOf
  <2>4. (InFlight \subseteq log)'
    BY <1>0, <1>1, <2>0, Carried
  <2>5. \A e \in log : e.idx = newest => Serves(e)
    BY <2>0 DEF NewestSays, GoesOut, Serves
  <2>6. \A d \in Channel, e \in log : e.idx = newest /\ Ahead(d, e) => Ahead(d, e)'
    BY <1>0, <2>5, Carried
  <2>7. PageEnds'
    <3>1. SUFFICES ASSUME NEW d \in Channel, busy'[d], page'[d] # {}, NEW e \in log, e.idx = newest
                   PROVE  Ahead(d, e)'
      BY <1>1 DEF PageEnds
    <3>2. CASE d # c
      BY <1>0, <2>0, <3>1, <3>2, Carried DEF PageEnds
    <3>3. CASE d = c
      <4>1. ~busy[c] /\ cursor[c] < newest
        BY <1>0, <3>1, <3>3, Carried, Ranges
      <4>2. Ahead(c, e)
        BY <3>1, <4>1 DEF Ahead
      <4>3. QED
        BY <2>6, <3>1, <3>3, <4>2
    <3>4. QED
      BY <3>2, <3>3
  <2>8. QED
    BY <2>1, <2>2, <2>3, <2>4, <2>6, <2>7
<1>6. ASSUME scenario.faults = {} PROVE pushOn' /\ late' = {} /\ (Unerased => NewestSettles')
  <2>1. pushOn' /\ late' = {}
    <3>1. pushOn /\ late = {} /\ "late" \notin scenario.faults
      BY <1>6 DEF ConvInv
    <3>2. QED
      BY <1>1, <3>1 DEF Carries, Fetch, Store, Fail, GiveUp
  <2>2. ASSUME Unerased PROVE NewestSettles'
    <3>1. Settled' = Settled
      BY <1>1 DEF Settled
    <3>2. NewestSettles
      BY <1>6, <2>2 DEF ConvInv
    <3>3. QED
      BY <1>1, <1>5, <2>2, <3>1, <3>2 DEF NewestSettles
  <2>3. QED
    BY <2>1, <2>2
<1>7. ASSUME OneRevEach PROVE OneEach' /\ (Unerased => EachFollows' /\ CopyAs' /\ PullPassed')
  <2>1. OneEach /\ OneEach'
    BY <1>1, <1>7 DEF ConvInv, OneEach
  <2>2. ASSUME Unerased PROVE EachFollows' /\ CopyAs' /\ PullPassed'
    <3>0. EachFollows /\ CopyAs /\ PullPassed
      BY <1>7, <2>2 DEF ConvInv
    <3>1. EachFollows' /\ CopyAs'
      BY <1>1, <3>0 DEF EachFollows, CopyAs
    <3>2. \A e \in log : Serves(e)
      BY <2>1 DEF OneEach, Serves
    <3>3. PullPassed'
      BY <1>0, <1>1, <3>0, <3>2, Carried DEF PullPassed, Channel
    <3>4. QED
      BY <3>1, <3>3
  <2>3. QED
    BY <2>1, <2>2
<1>8. scenario' = scenario
  OBVIOUS
<1>9. QED
  BY <1>2, <1>4, <1>5, <1>6, <1>7, <1>8 DEF ConvInv

-----------------------------------------------------------------------------
(* Replica: what lands.                                                    *)

\* What an entry of the journal does to the copy, while nothing is erased.
Lands(e) == LandEntry(e) /\ UNCHANGED <<now, journalled>>
TakenOver(e) == copy' = [rev |-> e.rev, status |-> "live", life |-> e.life]
EndedBy(e) == copy' = [copy EXCEPT !.status = e.reason, !.rev = e.rev]
Endable == copy.rev > 0 /\ (copy.status = "live" \/ IsLapsed)

LEMMA LandDoes ==
  ASSUME Inv, ConvInv, Unerased, NEW e \in log, Lands(e)
  PROVE  /\ UNCHANGED <<now, own, log, newest, lapsed, fact, erasedAt>>
         /\ ~fact /\ ~IsErasure(e) /\ e \in Entry
         /\ e.op = "change" =>
              \/ copy.rev <= e.rev /\ TakenOver(e)
              \/ /\ copy' = copy
                 /\ copy.rev > e.rev \/ (/\ copy.rev = e.rev /\ copy.status = "expired"
                                         /\ e.life = copy.life \/ e.life <= now)
         /\ e.op # "change" =>
              \/ copy.rev <= e.rev /\ Endable /\ EndedBy(e)
              \/ copy' = copy /\ ~(copy.rev <= e.rev /\ Endable)
<1>1. ~fact /\ copy.status # "erased"
  BY DEF ConvInv, CopySays
<1>2. ~IsErasure(e) /\ e \in Entry
  BY Ranges DEF Unerased
<1>3. copy.rev \in Nat /\ e.rev \in Nat /\ e.life \in Nat /\ now \in Nat /\ copy \in Copy
  BY <1>2, Ranges
<1>4. CASE e.op = "change"
  <2>1. LandChange(e)
    BY <1>4 DEF Lands, LandEntry
  <2>2. UNCHANGED <<now, own, log, newest, lapsed, fact, erasedAt>>
    BY <2>1 DEF Lands, LandChange, journalled
  <2>3. copy.status \in {"live", "withdrawn", "expired"}
    BY <1>1, <1>3 DEF Copy, Ended
  <2>4. QED
    BY <1>1, <1>2, <1>3, <1>4, <2>1, <2>2, <2>3 DEF LandChange, TakenOver
<1>5. CASE e.op # "change"
  <2>1. LandDelete(e)
    BY <1>5 DEF Lands, LandEntry
  <2>2. UNCHANGED <<now, own, log, newest, lapsed, fact, erasedAt>>
    <3>1. UNCHANGED <<now, own, log, newest, lapsed, erasedAt>>
      BY <1>2, <2>1 DEF Lands, LandDelete, journalled, IsErasure
    <3>2. fact' = (fact \/ FALSE) /\ fact = FALSE
      BY <1>1, <1>2, <2>1, Ranges DEF LandDelete, IsErasure
    <3>3. QED
      BY <3>1, <3>2
  <2>3. Applies(e) <=> copy.rev <= e.rev /\ Endable
    BY <1>2 DEF Applies, IsErasure, Endable
  <2>4. copy.rev <= e.rev => EndedRevision(e) = e.rev
    BY <1>3 DEF EndedRevision
  <2>5. QED
    BY <1>1, <1>2, <1>3, <1>5, <2>1, <2>2, <2>3, <2>4 DEF LandDelete, EndedBy
<1>6. QED
  BY <1>4, <1>5

LEMMA LandSays ==
  ASSUME Inv, ConvInv, Unerased, NEW e \in log, Lands(e)
  PROVE  CopySays' /\ copy'.rev >= copy.rev
<1>0. CopySays /\ ExpiredApart
  BY DEF ConvInv
<1>1. /\ UNCHANGED <<now, own, log, newest, lapsed, fact, erasedAt>>
      /\ ~fact /\ ~IsErasure(e) /\ e \in Entry
  BY LandDoes
<1>2. copy.rev \in Nat /\ e.rev \in Nat /\ e.rev > 0 /\ e.reason \in Ended /\ copy \in Copy
  BY <1>1, Ranges
<1>3. \A rev : ChangeOf(rev)' = ChangeOf(rev) /\ ExpiryOf(rev)' = ExpiryOf(rev)
  BY <1>1 DEF ChangeOf, ExpiryOf
<1>4. CASE copy' = copy
  <2>1. IsLive(copy)' = IsLive(copy) /\ IsLapsed' = IsLapsed
    BY <1>1, <1>4 DEF IsLive, IsLapsed
  <2>2. QED
    BY <1>0, <1>1, <1>2, <1>3, <1>4, <2>1 DEF CopySays
<1>5. CASE e.op = "change" /\ copy.rev <= e.rev /\ TakenOver(e)
  <2>1. copy'.rev = e.rev /\ copy'.status = "live"
    BY <1>5 DEF TakenOver
  <2>2. ChangeOf(copy'.rev) /\ \E f \in log : f.rev = copy'.rev
    BY <1>5, <2>1 DEF ChangeOf
  <2>3. QED
    BY <1>0, <1>1, <1>2, <1>3, <1>5, <2>1, <2>2 DEF CopySays
<1>6. CASE e.op # "change" /\ copy.rev <= e.rev /\ EndedBy(e)
  <2>1. copy'.status = e.reason /\ copy'.rev = e.rev
    BY <1>2, <1>6 DEF Copy, EndedBy
  <2>2. e.reason # "live" /\ e.reason # "erased"
    BY <1>1, <1>2 DEF Ended, IsErasure
  <2>3. e.reason = "expired" => ExpiryOf(copy'.rev)
    BY <2>1 DEF ExpiryOf
  <2>4. ~IsLive(copy') /\ \E f \in log : f.rev = copy'.rev
    BY <2>1, <2>2 DEF IsLive
  <2>5. QED
    BY <1>0, <1>1, <1>2, <1>3, <1>6, <2>1, <2>2, <2>3, <2>4 DEF CopySays
<1>7. QED
  BY <1>2, <1>4, <1>5, <1>6, LandDoes

\* A retraction that applies ends a copy for good: what lapsed was of another revision.
LEMMA NotLapsed ==
  ASSUME Inv, ConvInv, Unerased, NEW e \in log, Lands(e), e.op # "change", EndedBy(e)
  PROVE  ~IsLive(copy') /\ ~IsLapsed'
<1>1. e \in Entry /\ lapsed' = lapsed
  BY LandDoes
<1>2. copy'.status = e.reason /\ copy'.rev = e.rev /\ e.reason # "live"
  BY <1>1, Ranges DEF Copy, Ended, EndedBy
<1>3. lapsed > 0 /\ e.reason = "expired" => lapsed # e.rev
  BY DEF ConvInv, CopySays, ExpiredApart, ChangeOf
<1>4. QED
  BY <1>1, <1>2, <1>3 DEF IsLive, IsLapsed

\* The newest entry settles the copy when it lands.
LEMMA LandSettles ==
  ASSUME Inv, ConvInv, Unerased, NEW e \in log, Lands(e), e.idx = newest
  PROVE  Settled'
<1>0. InTurn /\ NewestSays /\ ExpiredApart /\ CopySays /\ InPlace
  BY DEF ConvInv
<1>1. /\ UNCHANGED <<now, own, log, newest, lapsed, fact, erasedAt>>
      /\ ~fact /\ ~IsErasure(e) /\ e \in Entry
  BY LandDoes
<1>2. /\ copy.rev \in Nat /\ e.rev \in Nat /\ e.rev > 0 /\ e.life \in Nat /\ now \in Nat
      /\ copy \in Copy /\ copy.life \in Nat
      /\ \A f \in log : f.idx \in Nat /\ f.rev \in Nat
  BY <1>1, Ranges
<1>3. copy.rev <= e.rev
  <2>1. copy.rev > 0 => \E f \in log : f.rev = copy.rev
    BY <1>0 DEF CopySays
  <2>2. \A f \in log : f.rev <= e.rev
    BY <1>0 DEF InPlace, InTurn
  <2>3. QED
    BY <1>2, <2>1, <2>2
<1>4. GoesOut' = GoesOut
  BY <1>1 DEF GoesOut, IsLive
<1>5. CASE GoesOut
  <2>1. e.op = "change" /\ e.rev = own.rev /\ e.life = own.life
    BY <1>0, <1>5 DEF NewestSays
  <2>2. CASE TakenOver(e)
    BY <1>1, <1>2, <1>4, <1>5, <2>1, <2>2 DEF Settled, IsLive, TakenOver
  <2>3. CASE /\ copy' = copy /\ copy.rev = e.rev /\ copy.status = "expired"
             /\ e.life = copy.life \/ e.life <= now
    <3>1. CASE e.life <= now
      BY <1>1, <1>4, <1>5, <2>1, <3>1 DEF Settled
    <3>2. CASE e.life = copy.life /\ ~(e.life <= now)
      <4>1. ~ExpiryOf(copy.rev)
        BY <1>0, <2>1, <2>3 DEF ExpiredApart, ExpiryOf
      <4>2. IsLapsed
        BY <1>0, <1>2, <2>3, <3>2, <4>1 DEF CopySays
      <4>3. IsLapsed'
        BY <1>1, <2>3, <4>2 DEF IsLapsed
      <4>4. QED
        BY <1>1, <1>4, <1>5, <2>1, <2>3, <3>2, <4>3 DEF Settled
    <3>3. QED
      BY <2>3, <3>1, <3>2
  <2>4. QED
    BY <1>2, <1>3, <2>1, <2>2, <2>3, LandDoes
<1>6. CASE ~GoesOut
  <2>1. e.op # "change"
    BY <1>0, <1>6 DEF NewestSays
  <2>2. CASE Endable
    <3>1. EndedBy(e)
      BY <1>3, <2>1, <2>2, LandDoes
    <3>2. QED
      BY <1>4, <1>6, <2>1, <3>1, NotLapsed DEF Settled
  <2>3. CASE ~Endable
    <3>1. copy' = copy
      BY <2>1, <2>3, LandDoes
    <3>2. ~IsLive(copy) /\ ~IsLapsed
      <4>1. lapsed > 0 /\ copy.rev = lapsed => copy.rev > 0
        OBVIOUS
      <4>2. QED
        BY <2>3, <4>1 DEF IsLive, IsLapsed, Endable
    <3>3. ~IsLive(copy)' /\ ~IsLapsed'
      BY <1>1, <3>1, <3>2 DEF IsLive, IsLapsed
    <3>4. QED
      BY <1>4, <1>6, <3>3 DEF Settled
  <2>4. QED
    BY <2>2, <2>3
<1>7. QED
  BY <1>5, <1>6

\* With a revision for each change, landing leaves the copy as its revision's entry
\* would, and the next entry to one that has all before it takes it on.
LEMMA LandFollows ==
  ASSUME Inv, ConvInv, Unerased, OneRevEach, NEW e \in log, Lands(e)
  PROVE  /\ CopyAs'
         /\ (\A f \in log : f.idx < e.idx => f.rev <= copy.rev) => copy'.rev >= e.rev
<1>0. EachFollows /\ CopyAs /\ InTurn
  BY DEF ConvInv
<1>1. /\ UNCHANGED <<now, own, log, newest, lapsed, fact, erasedAt>>
      /\ ~fact /\ ~IsErasure(e) /\ e \in Entry
  BY LandDoes
<1>2. /\ copy.rev \in Nat /\ e.rev \in Nat /\ e.rev > 0 /\ e.life \in Nat /\ now \in Nat
      /\ now < Unlimited /\ Unlimited \in Nat
      /\ copy \in Copy /\ copy.life \in Nat
      /\ \A f \in log : f.idx \in Nat /\ f.rev \in Nat
  BY <1>1, Ranges
<1>3. \A f \in log : f.rev = e.rev => f = e
  BY <1>0 DEF EachFollows, InTurn
<1>4. e.rev = e.idx /\ e.life = Unlimited
  BY <1>0 DEF EachFollows
<1>5. CASE copy' = copy
  <2>1. CopyAs'
    BY <1>0, <1>1, <1>5 DEF CopyAs, IsLive, IsLapsed
  <2>2. ASSUME \A f \in log : f.idx < e.idx => f.rev <= copy.rev PROVE copy'.rev >= e.rev
    <3>1. CASE e.op = "change"
      BY <1>2, <1>5, <3>1, LandDoes DEF TakenOver
    <3>2. CASE e.op # "change"
      <4>1. SUFFICES ASSUME copy.rev < e.rev PROVE FALSE
        BY <1>2, <1>5
      <4>2. PICK f \in log : f.op = "change" /\ f.idx = e.idx - 1
        BY <1>0, <3>2 DEF EachFollows
      <4>3. f.rev = f.idx /\ f.rev <= copy.rev /\ f.idx \in Nat /\ e.idx \in Nat
        BY <1>0, <1>2, <2>2, <4>2 DEF EachFollows
      <4>4. copy.rev = f.rev
        BY <1>2, <1>4, <4>1, <4>2, <4>3
      <4>5. IsLive(copy) \/ IsLapsed
        BY <1>0, <4>2, <4>4 DEF CopyAs
      <4>6. Endable
        BY <1>2, <4>5 DEF IsLive, IsLapsed, Endable
      <4>7. EndedBy(e)
        BY <1>2, <3>2, <4>1, <4>6, LandDoes
      <4>8. QED
        BY <1>2, <1>5, <4>1, <4>7 DEF Copy, EndedBy
    <3>3. QED
      BY <3>1, <3>2
  <2>3. QED
    BY <2>1, <2>2
<1>6. CASE e.op = "change" /\ TakenOver(e)
  <2>1. copy'.rev = e.rev /\ copy'.life = Unlimited /\ IsLive(copy')
    BY <1>2, <1>4, <1>6 DEF IsLive, TakenOver
  <2>2. QED
    BY <1>1, <1>2, <1>3, <1>6, <2>1 DEF CopyAs
<1>7. CASE e.op # "change" /\ EndedBy(e)
  <2>1. ~IsLive(copy') /\ ~IsLapsed' /\ copy'.rev = e.rev
    BY <1>2, <1>7, NotLapsed DEF Copy, EndedBy
  <2>2. QED
    BY <1>1, <1>2, <1>3, <1>7, <2>1 DEF CopyAs
<1>8. QED
  BY <1>5, <1>6, <1>7, LandDoes

\* Whatever lands, landed erasures are not forgotten, and an erasure that lands is noted.
LEMMA ErasuresNoted ==
  ASSUME Inv, NEW e \in InFlight, LandEntry(e)
  PROVE  /\ erasedAt' \in Nat /\ erasedAt' >= erasedAt
         /\ IsErasure(e) => erasedAt' > 0
<1>1. e \in Entry /\ e.rev \in Nat /\ e.rev > 0 /\ erasedAt \in Nat
  BY Ranges DEF InFlight, Channel
<1>2. IsErasure(e) => e.op = "delete"
  BY DEF Inv, Fenced, OnlyDeletesErase
<1>3. QED
  BY <1>1, <1>2 DEF LandEntry, LandChange, LandDelete, IsErasure, Max2

LEMMA LandConverges ==
  ASSUME Inv, ConvInv, NEW c \in Channel, Land(c), UNCHANGED scenario
  PROVE  ConvInv'
<1>1. PICK e \in page[c] : /\ IsNext(e, page[c]) /\ LandEntry(e)
                           /\ page' = [page EXCEPT ![c] = @ \ {e}]
  BY DEF Land
<1>2. /\ busy[c] /\ UNCHANGED <<now, own, log, newest, cursor, busy, mark, pushOn, late>>
      /\ Lands(e)
  BY <1>1 DEF Land, Lands, journalled
<1>3. /\ newest \in Nat /\ page \in [Channel -> SUBSET Entry] /\ e \in Entry /\ e \in InFlight
      /\ log \subseteq Entry /\ erasedAt \in Nat
      /\ \A d \in Channel : cursor[d] \in Nat /\ mark[d] \in Nat
      /\ \A f \in Entry : f.idx \in Nat
  BY <1>1, Ranges DEF InFlight, Channel
<1>4. /\ page'[c] = page[c] \ {e}
      /\ \A d \in Channel \ {c} : page'[d] = page[d]
  BY <1>1, <1>3
<1>5. InPlace /\ ErasureAhead
  BY DEF ConvInv
<1>6. InFlight' \subseteq InFlight
  BY <1>2, <1>4 DEF InFlight, Channel
<1>7. \A d \in Channel : \A f : Ahead(d, f) /\ ~(d = c /\ f = e) => Ahead(d, f)'
  BY <1>2, <1>4 DEF Ahead
<1>8. erasedAt' \in Nat /\ erasedAt' >= erasedAt /\ (IsErasure(e) => erasedAt' > 0)
  BY <1>1, <1>3, ErasuresNoted
<1>9. InPlace'
  BY <1>2, <1>4, <1>5 DEF InPlace
<1>10. ErasureAhead'
  <2>1. SUFFICES ASSUME NEW f \in log, IsErasure(f), ~(erasedAt' > 0) PROVE Ahead("pull", f)'
    BY <1>2 DEF ErasureAhead
  <2>2. f # e /\ ~(erasedAt > 0)
    BY <1>3, <1>8, <2>1
  <2>3. QED
    BY <1>5, <1>7, <2>1, <2>2 DEF ErasureAhead, Channel
<1>11. Unerased' => Unerased
  BY <1>2, <1>3, <1>8 DEF Unerased
<1>12. Unerased => e \in log
  BY <1>3 DEF ConvInv
<1>13. ASSUME Unerased'
       PROVE  InTurn' /\ NewestSays' /\ ExpiredApart' /\ CopySays' /\ (InFlight \subseteq log)' /\ PageEnds'
  <2>0. /\ InTurn /\ NewestSays /\ ExpiredApart /\ InFlight \subseteq log /\ PageEnds
        /\ Unerased /\ e \in log
    BY <1>11, <1>12, <1>13 DEF ConvInv
  <2>1. InTurn' /\ NewestSays' /\ ExpiredApart'
    BY <1>2, <2>0 DEF InTurn, NewestSays, ExpiredApart, GoesOut, IsLive
  <2>2. CopySays'
    BY <1>2, <2>0, LandSays
  <2>3. PageEnds'
    <3>1. SUFFICES ASSUME NEW d \in Channel, busy[d], page'[d] # {}, NEW f \in log, f.idx = newest
                   PROVE  Ahead(d, f)'
      BY <1>2 DEF PageEnds
    <3>2. page[d] # {}
      BY <1>4, <3>1
    <3>3. Ahead(d, f)
      BY <2>0, <3>1, <3>2 DEF PageEnds
    <3>4. ~(d = c /\ f = e)
      <4>1. SUFFICES ASSUME d = c, f = e PROVE FALSE
        OBVIOUS
      <4>2. PICK g \in page[c] : g # e
        BY <1>4, <3>1, <4>1
      <4>3. g \in log
        BY <2>0, <4>2 DEF InFlight, Channel
      <4>4. e.idx <= g.idx /\ g.idx <= newest
        BY <1>1, <1>5, <4>2, <4>3 DEF IsNext, InPlace
      <4>5. g.idx = e.idx
        BY <1>3, <3>1, <4>1, <4>3, <4>4
      <4>6. QED
        BY <2>0, <4>2, <4>3, <4>5 DEF InTurn
    <3>5. QED
      BY <1>7, <3>3, <3>4
  <2>4. QED
    BY <1>2, <1>6, <2>0, <2>1, <2>2, <2>3
<1>14. ASSUME scenario.faults = {} PROVE pushOn' /\ late' = {} /\ (Unerased' => NewestSettles')
  <2>1. pushOn' /\ late' = {}
    BY <1>2, <1>14 DEF ConvInv
  <2>2. ASSUME Unerased' PROVE NewestSettles'
    <3>0. NewestSettles /\ PageEnds /\ InTurn /\ Unerased /\ e \in log
      BY <1>11, <1>12, <1>14, <2>2 DEF ConvInv
    <3>1. newest # 0
      BY <1>5, <3>0, Ranges DEF InPlace
    <3>2. SUFFICES ASSUME NEW f \in log, f.idx = newest
                   PROVE  Settled' \/ \E d \in Channel : Ahead(d, f)'
      BY <1>2, <3>1 DEF NewestSettles
    <3>3. CASE f = e
      BY <1>2, <3>0, <3>2, <3>3, LandSettles
    <3>4. CASE f # e
      BY <1>1, <1>2, <1>7, <3>0, <3>2, <3>4 DEF PageEnds
    <3>5. QED
      BY <3>3, <3>4
  <2>3. QED
    BY <2>1, <2>2
<1>15. ASSUME OneRevEach PROVE OneEach' /\ (Unerased' => EachFollows' /\ CopyAs' /\ PullPassed')
  <2>1. OneEach'
    BY <1>2, <1>15 DEF ConvInv, OneEach
  <2>2. ASSUME Unerased' PROVE EachFollows' /\ CopyAs' /\ PullPassed'
    <3>0. EachFollows /\ PullPassed /\ Unerased /\ e \in log /\ InFlight \subseteq log /\ InTurn
      BY <1>11, <1>12, <1>15, <2>2 DEF ConvInv
    <3>1. EachFollows'
      BY <1>2, <3>0 DEF EachFollows
    <3>2. CopyAs'
      BY <1>2, <1>15, <3>0, LandFollows
    <3>3. copy'.rev >= copy.rev /\ copy.rev \in Nat /\ copy'.rev \in Nat
          /\ \A f \in log : f.rev \in Nat
      <4>1. copy' \in Copy
        BY <1>1, <1>3, LandType
      <4>2. QED
        BY <1>2, <3>0, <4>1, LandSays, Ranges DEF Copy
    <3>4. c = "pull" => copy'.rev >= e.rev
      <4>1. SUFFICES ASSUME c = "pull", NEW f \in log, f.idx < e.idx PROVE f.rev <= copy.rev
        BY <1>2, <1>15, <3>0, LandFollows
      <4>2. f \notin page["pull"]
        BY <1>1, <1>3, <4>1 DEF IsNext
      <4>3. e.idx <= mark["pull"]
        BY <1>1, <1>5, <4>1 DEF InPlace
      <4>4. ~Ahead("pull", f)
        BY <1>2, <1>3, <4>1, <4>2, <4>3 DEF Ahead, Channel
      <4>5. QED
        BY <3>0, <4>1, <4>4 DEF PullPassed
    <3>5. PullPassed'
      <4>1. SUFFICES ASSUME NEW f \in log, ~Ahead("pull", f)' PROVE f.rev <= copy'.rev
        BY <1>2 DEF PullPassed
      <4>2. ~Ahead("pull", f) \/ (c = "pull" /\ f = e)
        BY <1>7, <4>1 DEF Channel
      <4>3. QED
        BY <3>0, <3>3, <3>4, <4>2 DEF PullPassed
    <3>6. QED
      BY <3>1, <3>2, <3>5
  <2>3. QED
    BY <2>1, <2>2
<1>16. scenario' = scenario /\ (OneRevEach' <=> OneRevEach)
  BY DEF OneRevEach
<1>17. QED
  BY <1>9, <1>10, <1>13, <1>14, <1>15, <1>16 DEF ConvInv

-----------------------------------------------------------------------------
(* Replica: the sweep and the late push.                                   *)

\* What a step that touches neither journal nor channels but the copy must keep.
LEMMA CopyConverges ==
  ASSUME Inv, ConvInv, UNCHANGED <<scenario, journalled, cursor, busy, page, mark, late, erasedAt>>,
         scenario.faults = {} => pushOn',
         Unerased => CopySays',
         scenario.faults = {} /\ Unerased /\ Settled => Settled',
         OneRevEach /\ Unerased => CopyAs' /\ copy'.rev = copy.rev
  PROVE  ConvInv'
<1>1. UNCHANGED <<own, log, newest>> /\ InFlight' = InFlight
  BY DEF journalled, InFlight
<1>2. /\ \A c, e : Ahead(c, e)' <=> Ahead(c, e)
      /\ Unerased' <=> Unerased
      /\ OneRevEach' <=> OneRevEach
      /\ OneEach' <=> OneEach
      /\ GoesOut' <=> GoesOut
  BY <1>1 DEF Ahead, Unerased, OneRevEach, OneEach, GoesOut, IsLive
<1>3. InPlace /\ ErasureAhead => InPlace' /\ ErasureAhead'
  BY <1>1, <1>2 DEF InPlace, ErasureAhead
<1>4. InTurn /\ NewestSays /\ ExpiredApart /\ InFlight \subseteq log /\ PageEnds
      => InTurn' /\ NewestSays' /\ ExpiredApart' /\ (InFlight \subseteq log)' /\ PageEnds'
  BY <1>1, <1>2 DEF InTurn, NewestSays, ExpiredApart, PageEnds, IsLive
<1>5. NewestSettles /\ (Settled => Settled') => NewestSettles'
  BY <1>1, <1>2 DEF NewestSettles
<1>6. EachFollows /\ PullPassed /\ copy'.rev = copy.rev => EachFollows' /\ PullPassed'
  BY <1>1, <1>2 DEF EachFollows, PullPassed
<1>7. scenario' = scenario /\ late' = late
  OBVIOUS
<1>8. QED
  BY <1>2, <1>3, <1>4, <1>5, <1>6, <1>7 DEF ConvInv

LEMMA SweepConverges ==
  ASSUME Inv, ConvInv, UNCHANGED scenario,
         StopPush \/ Expire \/ Lapse \/ HearPeer \/ ForgetErasure \/ Tick
  PROVE  ConvInv'
<1>0. /\ copy \in Copy /\ copy.rev \in Nat /\ copy.life \in Nat /\ now \in Nat /\ lapsed \in Nat
      /\ own.life \in Nat /\ now < Unlimited /\ Unlimited \in Nat
      /\ \A e \in log : e.rev \in Nat
  BY Ranges
<1>1. Unerased => CopySays /\ ExpiredApart
  BY DEF ConvInv
<1>2. CASE StopPush \/ Tick
  <2>1. /\ UNCHANGED <<journalled, cursor, busy, page, mark, late, erasedAt, copy, lapsed, fact, own, log>>
        /\ now' \in Nat /\ now <= now'
        /\ pushOn' = pushOn \/ "stop" \in scenario.faults
    BY <1>0, <1>2 DEF StopPush, Tick, channels, held, journalled
  <2>2. /\ IsLive(copy)' = IsLive(copy) /\ IsLapsed' = IsLapsed /\ GoesOut' = GoesOut
        /\ \A rev : ChangeOf(rev)' = ChangeOf(rev) /\ ExpiryOf(rev)' = ExpiryOf(rev)
    BY <2>1 DEF IsLive, IsLapsed, GoesOut, ChangeOf, ExpiryOf
  <2>3. Unerased => CopySays'
    BY <1>0, <1>1, <2>1, <2>2 DEF CopySays
  <2>4. Settled => Settled'
    BY <1>0, <2>1, <2>2 DEF Settled
  <2>5. CopyAs => CopyAs'
    BY <2>1, <2>2 DEF CopyAs
  <2>6. scenario.faults = {} => pushOn'
    BY <2>1 DEF ConvInv
  <2>7. QED
    BY <2>1, <2>3, <2>4, <2>5, <2>6, CopyConverges DEF ConvInv
<1>3. CASE Expire \/ Lapse
  <2>1. /\ UNCHANGED <<journalled, cursor, busy, page, mark, late, erasedAt, pushOn, fact, own, log, now>>
        /\ copy'.rev = copy.rev /\ copy'.life = copy.life /\ copy'.status = "expired"
        /\ IsLive(copy)
        /\ \/ lapsed' = lapsed /\ copy.life < now
           \/ lapsed' = copy.rev
    BY <1>0, <1>3 DEF Expire, Lapse, channels, journalled, Copy
  <2>2. /\ ~IsLive(copy)' /\ GoesOut' = GoesOut /\ copy.rev > 0
        /\ \A rev : ChangeOf(rev)' = ChangeOf(rev) /\ ExpiryOf(rev)' = ExpiryOf(rev)
        /\ lapsed' = copy.rev => IsLapsed'
    BY <1>0, <2>1 DEF IsLive, IsLapsed, GoesOut, ChangeOf, ExpiryOf
  <2>3. Unerased => CopySays'
    BY <1>0, <1>1, <2>1, <2>2 DEF CopySays
  <2>4. Settled => Settled'
    BY <1>0, <2>1, <2>2 DEF Settled
  <2>5. ASSUME OneRevEach, Unerased PROVE CopyAs'
    <3>1. CopyAs /\ EachFollows /\ CopySays
      BY <2>5 DEF ConvInv
    <3>2. PICK e \in log : e.op = "change" /\ e.rev = copy.rev
      BY <2>1, <3>1 DEF CopySays, ChangeOf
    <3>3. copy.life = Unlimited
      BY <3>1, <3>2 DEF CopyAs
    <3>4. IsLapsed'
      BY <1>0, <2>1, <2>2, <3>3
    <3>5. \A f \in log : f.rev = copy.rev => f.op = "change"
      BY <2>1, <3>1 DEF CopyAs
    <3>6. QED
      BY <2>1, <3>3, <3>4, <3>5 DEF CopyAs
  <2>6. QED
    BY <2>1, <2>3, <2>4, <2>5, CopyConverges DEF ConvInv
<1>4. CASE HearPeer
  <2>1. /\ UNCHANGED <<journalled, cursor, busy, page, mark, late, erasedAt, pushOn, fact, own, log, now>>
        /\ lapsed > 0 /\ lapsed' = 0 /\ copy'.rev = copy.rev /\ copy'.life = copy.life
        /\ copy'.status = IF IsLapsed THEN "live" ELSE copy.status
    BY <1>0, <1>4 DEF HearPeer, channels, journalled, Copy
  <2>2. /\ IsLive(copy)' <=> IsLive(copy) \/ IsLapsed
        /\ ~IsLapsed' /\ GoesOut' = GoesOut
        /\ IsLapsed => copy.rev = lapsed
        /\ \A rev : ChangeOf(rev)' = ChangeOf(rev) /\ ExpiryOf(rev)' = ExpiryOf(rev)
    BY <1>0, <2>1 DEF IsLive, IsLapsed, GoesOut, ChangeOf, ExpiryOf
  <2>3. Unerased => CopySays'
    <3>1. SUFFICES ASSUME Unerased PROVE CopySays'
      OBVIOUS
    <3>2. CASE IsLapsed
      BY <1>0, <1>1, <2>1, <2>2, <3>1, <3>2 DEF CopySays
    <3>3. CASE ~IsLapsed
      BY <1>0, <1>1, <2>1, <2>2, <3>1, <3>3 DEF CopySays
    <3>4. QED
      BY <3>2, <3>3
  <2>4. Settled => Settled'
    BY <1>0, <2>1, <2>2 DEF Settled
  <2>5. CopyAs => CopyAs'
    BY <2>1, <2>2 DEF CopyAs
  <2>6. QED
    BY <2>1, <2>3, <2>4, <2>5, CopyConverges DEF ConvInv
<1>5. CASE ForgetErasure
  <2>1. /\ UNCHANGED <<journalled, cursor, busy, page, mark, late, erasedAt, pushOn, copy, lapsed>>
        /\ fact
    BY <1>5 DEF ForgetErasure, channels, journalled
  <2>2. ~Unerased
    BY <1>1, <2>1 DEF CopySays
  <2>3. QED
    BY <2>1, <2>2, CopyConverges DEF ConvInv
<1>6. QED
  BY <1>2, <1>3, <1>4, <1>5

\* A push that lands late: with a revision for each change nothing old is taken.
LEMMA LateConverges ==
  ASSUME Inv, ConvInv, LandLate, UNCHANGED scenario
  PROVE  ConvInv'
<1>1. PICK e \in late : LandEntry(e) /\ late' = late \ {e}
  BY DEF LandLate
<1>2. /\ UNCHANGED <<now, own, log, newest, cursor, busy, page, mark, pushOn>> /\ Lands(e)
  BY <1>1 DEF LandLate, Lands, journalled
<1>3. e \in InFlight /\ e \in Entry /\ erasedAt \in Nat /\ InFlight' \subseteq InFlight
  BY <1>1, <1>2, Ranges DEF InFlight
<1>4. erasedAt' \in Nat /\ erasedAt' >= erasedAt
  BY <1>1, <1>3, ErasuresNoted
<1>5. Unerased' => Unerased
  BY <1>2, <1>3, <1>4 DEF Unerased
<1>6. Unerased => e \in log
  BY <1>3 DEF ConvInv
<1>7. \A c, f : Ahead(c, f)' <=> Ahead(c, f)
  BY <1>2 DEF Ahead
<1>8. InPlace'
  BY <1>2 DEF ConvInv, InPlace
<1>9. ErasureAhead'
  <2>1. erasedAt > 0 => erasedAt' > 0
    BY <1>3, <1>4
  <2>2. QED
    BY <1>2, <1>7, <2>1 DEF ConvInv, ErasureAhead
<1>10. ASSUME Unerased'
       PROVE  InTurn' /\ NewestSays' /\ ExpiredApart' /\ CopySays' /\ (InFlight \subseteq log)' /\ PageEnds'
  <2>0. /\ InTurn /\ NewestSays /\ ExpiredApart /\ InFlight \subseteq log /\ PageEnds
        /\ Unerased /\ e \in log
    BY <1>5, <1>6, <1>10 DEF ConvInv
  <2>1. InTurn' /\ NewestSays' /\ ExpiredApart' /\ PageEnds'
    BY <1>2, <1>7, <2>0 DEF InTurn, NewestSays, ExpiredApart, GoesOut, IsLive, PageEnds
  <2>2. QED
    BY <1>2, <1>3, <2>0, <2>1, LandSays
<1>11. scenario.faults # {}
  BY <1>1 DEF ConvInv
<1>12. ASSUME OneRevEach PROVE OneEach' /\ (Unerased' => EachFollows' /\ CopyAs' /\ PullPassed')
  <2>1. OneEach'
    BY <1>2, <1>12 DEF ConvInv, OneEach
  <2>2. ASSUME Unerased' PROVE EachFollows' /\ CopyAs' /\ PullPassed'
    <3>0. EachFollows /\ PullPassed /\ Unerased /\ e \in log
      BY <1>5, <1>6, <1>12, <2>2 DEF ConvInv
    <3>1. EachFollows' /\ CopyAs'
      BY <1>2, <1>12, <3>0, LandFollows DEF EachFollows
    <3>2. copy'.rev >= copy.rev /\ copy.rev \in Nat /\ copy'.rev \in Nat
          /\ \A f \in log : f.rev \in Nat
      <4>1. copy' \in Copy
        BY <1>1, <1>3, LandType
      <4>2. QED
        BY <1>2, <3>0, <4>1, LandSays, Ranges DEF Copy
    <3>3. PullPassed'
      BY <1>2, <1>7, <3>0, <3>2 DEF PullPassed
    <3>4. QED
      BY <3>1, <3>3
  <2>3. QED
    BY <2>1, <2>2
<1>13. scenario' = scenario /\ (OneRevEach' <=> OneRevEach)
  BY DEF OneRevEach
<1>14. QED
  BY <1>8, <1>9, <1>10, <1>11, <1>12, <1>13 DEF ConvInv

-----------------------------------------------------------------------------
(* Replica: convergence.                                                   *)

LEMMA InitConverges == Init => ConvInv
<1> SUFFICES ASSUME Init PROVE ConvInv
  OBVIOUS
<1>1. /\ log = {} /\ InFlight = {} /\ newest = 0 /\ erasedAt = 0 /\ pushOn /\ late = {} /\ ~fact
      /\ lapsed = 0 /\ copy.rev = 0 /\ copy.status = "withdrawn" /\ own.rev = 0 /\ own.out = "open"
      /\ own.life = Unlimited
      /\ \A c \in Channel : cursor[c] = 0 /\ ~busy[c] /\ page[c] = {}
  BY DEF Init, InFlight, Channel
<1>2. ~IsLive(own) /\ ~IsLive(copy) /\ ~IsLapsed /\ ~GoesOut
  BY <1>1 DEF IsLive, IsLapsed, GoesOut
<1>3. InPlace /\ ErasureAhead /\ PageEnds
  BY <1>1 DEF InPlace, ErasureAhead, PageEnds
<1>4. InTurn /\ NewestSays /\ ExpiredApart
  BY <1>1, <1>2 DEF InTurn, NewestSays, ExpiredApart
<1>5. CopySays
  BY <1>1, <1>2 DEF CopySays
<1>6. NewestSettles
  BY <1>1, <1>2 DEF NewestSettles, Settled
<1>7. OneEach /\ EachFollows /\ CopyAs /\ PullPassed
  BY <1>1 DEF OneEach, EachFollows, CopyAs, PullPassed
<1>8. QED
  BY <1>1, <1>3, <1>4, <1>5, <1>6, <1>7 DEF ConvInv

LEMMA StepConverges == Inv /\ ConvInv /\ [Next]_vars => ConvInv'
<1> SUFFICES ASSUME Inv, ConvInv, [Next]_vars PROVE ConvInv'
  OBVIOUS
<1>0. (Step /\ UNCHANGED scenario) \/ UNCHANGED vars
  BY DEF Next
<1>1. CASE Publisher /\ UNCHANGED scenario
  BY <1>1, PublisherConverges
<1>2. ASSUME NEW c \in Channel, Fetch(c) \/ Land(c) \/ Store(c) \/ Fail(c), UNCHANGED scenario
      PROVE  ConvInv'
  BY <1>2, CarryConverges, LandConverges DEF Carries
<1>3. CASE GiveUp /\ UNCHANGED scenario
  BY <1>3, CarryConverges DEF Carries, Channel
<1>4. CASE LandLate /\ UNCHANGED scenario
  BY <1>4, LateConverges
<1>5. CASE /\ StopPush \/ Expire \/ Lapse \/ HearPeer \/ ForgetErasure \/ Tick
           /\ UNCHANGED scenario
  BY <1>5, SweepConverges
<1>6. CASE UNCHANGED vars
  <2>1. UNCHANGED <<scenario, journalled, cursor, busy, page, mark, late, erasedAt, pushOn, copy, lapsed,
                    fact, own, log, now>>
    BY <1>6 DEF vars, journalled, channels, held
  <2>2. CopySays => CopySays'
    BY <2>1 DEF CopySays, IsLive, IsLapsed, ChangeOf, ExpiryOf
  <2>3. (Settled => Settled') /\ (CopyAs => CopyAs')
    BY <2>1 DEF Settled, CopyAs, GoesOut, IsLive, IsLapsed
  <2>4. QED
    BY <2>1, <2>2, <2>3, CopyConverges DEF ConvInv
<1>7. QED
  BY <1>0, <1>1, <1>2, <1>3, <1>4, <1>5, <1>6 DEF Step

\* A subscriber whose channels caught up holds what the publisher circulates, whatever
\* the two interleave and however often they fail: for a push that goes on and lands
\* in time, or for changes that each take a new revision, whatever the push does.
THEOREM CaughtUpConverges == Spec => [](Lasting => Converges)
<1>1. Inv /\ ConvInv => (Lasting => Converges)
  <2> SUFFICES ASSUME Inv, ConvInv, Lasting, CaughtUp, erasedAt = 0 PROVE Matches
    BY DEF Converges
  <2>1. ~busy["pull"] /\ ~busy["push"] /\ cursor["pull"] = newest
        /\ (pushOn => cursor["push"] = newest)
    BY DEF CaughtUp, NothingInFlight, Channel
  <2>2. /\ newest \in Nat /\ copy.rev \in Nat /\ own.rev \in Nat
        /\ \A e \in log : e.idx \in Nat /\ e.rev \in Nat /\ e.idx <= newest
    BY Ranges DEF ConvInv, InPlace
  <2>3. \A e \in log : ~Ahead("pull", e) /\ (pushOn => ~Ahead("push", e))
    BY <2>1, <2>2 DEF Ahead
  <2>4. Unerased
    BY <2>3 DEF ConvInv, ErasureAhead, Unerased
  <2>5. InTurn /\ NewestSays /\ CopySays
    BY <2>4 DEF ConvInv
  <2>6. newest > 0 => \E e \in log : e.idx = newest
    BY <2>2, <2>5 DEF InTurn
  <2>7. Settled => Matches
    BY DEF Settled, Matches, GoesOut
  <2>8. CASE scenario.faults = {}
    <3>1. NewestSettles /\ pushOn
      BY <2>4, <2>8 DEF ConvInv
    <3>2. Settled
      BY <2>2, <2>3, <2>6, <3>1 DEF NewestSettles, Channel
    <3>3. QED
      BY <2>7, <3>2
  <2>9. CASE OneRevEach
    <3>1. OneEach /\ EachFollows /\ CopyAs /\ PullPassed
      BY <2>4, <2>9 DEF ConvInv
    <3>2. CASE newest = 0
      <4>1. ~GoesOut /\ log = {}
        BY <2>2, <2>5, <3>2, Ranges DEF NewestSays
      <4>2. ~IsLive(copy)
        BY <2>5, <4>1 DEF CopySays, ChangeOf
      <4>3. QED
        BY <4>1, <4>2 DEF Matches, GoesOut
    <3>3. CASE newest > 0
      <4>1. PICK e \in log : e.idx = newest
        BY <2>6, <3>3
      <4>2. e.rev = newest /\ newest <= copy.rev
        BY <2>3, <3>1, <4>1 DEF EachFollows, PullPassed
      <4>3. copy.rev <= newest
        BY <2>2, <2>5, <3>1 DEF CopySays, OneEach, InTurn
      <4>4. e.rev = copy.rev
        BY <2>2, <4>2, <4>3
      <4>5. CASE GoesOut
        <5>1. e.op = "change" /\ e.rev = own.rev
          BY <2>5, <4>1, <4>5 DEF NewestSays
        <5>2. QED
          BY <3>1, <4>4, <4>5, <5>1 DEF Matches, GoesOut, CopyAs, OneEach
      <4>6. CASE ~GoesOut
        <5>1. e.op # "change"
          BY <2>5, <4>1, <4>6 DEF NewestSays
        <5>2. QED
          BY <3>1, <4>4, <4>6, <5>1 DEF Matches, GoesOut, CopyAs
      <4>7. QED
        BY <4>5, <4>6
    <3>4. QED
      BY <2>2, <3>2, <3>3
  <2>10. QED
    BY <2>8, <2>9 DEF Lasting
<1>2. QED
  BY <1>1, Invariance, InitConverges, StepConverges, PTL DEF Spec

-----------------------------------------------------------------------------
(* Backfill: nothing falls between the archive and the window.            *)

USE DurationAssumption, PageAssumption, HorizonAssumption

-----------------------------------------------------------------------------
(* The inductive invariant.                                                *)

KeptEntry == [rec : Records, as : Version]
Built == [built : 0 .. MaxClock, held : [Records -> Version]]

\* Whether v is a version of record r: of a live one, the newest or an older one.
Dated(v, r) ==
  /\ v.seq <= latest[r].seq
  /\ latest[r].live /\ v.seq = latest[r].seq => v = latest[r]

\* The journal's entries are numbered in the order of time.
Numbered ==
  /\ lastAt <= clock /\ place <= tip
  /\ \A r \in Records : latest[r].seq <= tip /\ latest[r].at <= lastAt
  /\ \A e \in entries :
       /\ Dated(e.as, e.rec)
       /\ e.as.at <= lastAt
       /\ \A r \in Records : e.as.seq <= latest[r].seq => e.as.at <= latest[r].at

\* A record's newest entry is in the journal for as long as the retention.
Row(r) == [rec |-> r, as |-> latest[r]]
Kept ==
  \A r \in Records :
    latest[r].live /\ clock <= latest[r].at + Retention => Row(r) \in entries

\* Every silence within the retention ends with an entry.
NeverSilent ==
  /\ clock <= lastAt + Silence
  /\ \A t \in 1 .. lastAt :
       clock <= t + Retention =>
         \E e \in entries : t <= e.as.at /\ e.as.at < t + Silence

\* What an archive holds: every live record that did not change since its night.
Holds(a) ==
  \A r \in Records :
    /\ Dated(a.held[r], r)
    /\ latest[r].live /\ latest[r].at < a.built => a.held[r] = latest[r]
ArchiveHolds ==
  /\ archive.built <= clock /\ clock <= archive.built + ArchiveAge
  /\ Holds(archive)

\* The peer's copies are versions of the record, and those of the archive it
\* noted are as that archive held them or newer.
MirrorDated == \A r \in Records : Dated(mirror[r], r)
NotedLanded ==
  \A n \in noted :
    /\ n.built <= clock /\ n.at <= n.built + ArchiveAge + Flight
    /\ \A r \in Records : latest[r].live /\ latest[r].at < n.built => mirror[r] = latest[r]

\* What a page's mark passes: versions the peer holds, the page's items, and
\* what the archive the page names holds.
Passes(p) ==
  \A r \in Records :
    latest[r].live /\ latest[r].seq <= p.mark =>
      \/ mirror[r] = latest[r]
      \/ Row(r) \in p.items
      \/ p.beyond /\ latest[r].at < p.archive.built /\ latest[r].at + Window < p.asked
PageSound ==
  \A p \in pulling :
    /\ p.asked <= clock /\ clock <= p.asked + Flight
    /\ p.archive.built <= p.asked /\ p.asked <= p.archive.built + ArchiveAge
    /\ p.mark <= tip
    /\ Holds(p.archive)
    /\ \A e \in p.items : Dated(e.as, e.rec)
    /\ Passes(p)

Sound ==
  /\ Numbered
  /\ Kept
  /\ NeverSilent
  /\ ArchiveHolds
  /\ MirrorDated
  /\ NotedLanded
  /\ PageSound
  /\ NothingFallsBetween
BackfillInv == BackfillTypeOK /\ Sound

-----------------------------------------------------------------------------
(* The initial state and the types.                                        *)

LEMMA InitSound == BackfillInit => BackfillInv
<1> SUFFICES ASSUME BackfillInit PROVE BackfillInv
  OBVIOUS
<1>1. Unknown \in Version
  BY DEF Unknown, Version
<1>2. BackfillTypeOK
  BY <1>1 DEF BackfillInit, BackfillTypeOK
<1>3. Numbered /\ Kept /\ NeverSilent
  BY DEF BackfillInit, Numbered, Kept, NeverSilent, Unknown
<1>4. ArchiveHolds /\ MirrorDated /\ NotedLanded /\ PageSound /\ NothingFallsBetween
  BY DEF BackfillInit, ArchiveHolds, Holds, Dated, MirrorDated, NotedLanded, PageSound,
         NothingFallsBetween, Unknown
<1> QED BY <1>2, <1>3, <1>4 DEF BackfillInv, Sound

\* The publisher's steps, the clock and the peer's steps keep the types.
LEMMA TypeStep ==
  ASSUME BackfillTypeOK, BackfillNext
  PROVE  BackfillTypeOK'
<1>1. ASSUME NEW r \in Records, NEW live \in BOOLEAN, Publish(r, live)
      PROVE  BackfillTypeOK'
  <2> DEFINE v == [seq |-> tip + 1, at |-> clock, live |-> live]
  <2>1. v \in Version /\ tip + 1 \in 0 .. MaxEntries
    BY <1>1 DEF Publish, BackfillTypeOK, Version
  <2>2. /\ latest' = [latest EXCEPT ![r] = v] /\ entries' = entries \cup {[rec |-> r, as |-> v]}
        /\ tip' = tip + 1 /\ lastAt' = clock
        /\ UNCHANGED <<clock, archive, peering>>
    BY <1>1 DEF Publish
  <2> HIDE DEF v
  <2> QED BY <2>1, <2>2 DEF BackfillTypeOK, peering
<1>2. CASE BuildArchive
  <2>1. Unknown \in Version
    BY DEF Unknown, Version
  <2>2. [r \in Records |-> IF latest[r].live THEN latest[r] ELSE Unknown] \in [Records -> Version]
    BY <2>1 DEF BackfillTypeOK
  <2> QED BY <1>2, <2>2 DEF BuildArchive, BackfillTypeOK, publishing, peering
<1>3. CASE PruneOutbox
  BY <1>3 DEF PruneOutbox, BackfillTypeOK, peering
<1>4. CASE Elapse
  BY <1>4 DEF Elapse, BackfillTypeOK, publishing, peering
<1>5. CASE ReceivePage
  <2> DEFINE servable == {e \in entries : e.as.seq > place /\ Served(e.as.at)}
  <2>1. PICK m \in {place} \cup {e.as.seq : e \in servable} :
          pulling' = {[items |-> PageTo(m, servable), mark |-> m,
                       beyond |-> NamesArchive, archive |-> archive, asked |-> clock]}
    BY <1>5 DEF ReceivePage
  <2>2. m \in 0 .. MaxEntries
    BY <2>1 DEF BackfillTypeOK, Version
  <2>3. PageTo(m, servable) \in SUBSET [rec : Records, as : Version]
    BY DEF PageTo, BackfillTypeOK
  <2>4. NamesArchive \in BOOLEAN
    BY DEF NamesArchive
  <2>5. /\ archive \in [built : 0 .. MaxClock, held : [Records -> Version]]
        /\ clock \in 0 .. MaxClock
    BY DEF BackfillTypeOK
  <2> DEFINE items == PageTo(m, servable)
             beyond == NamesArchive
  <2>6. pulling' \subseteq
          [items : SUBSET [rec : Records, as : Version], mark : 0 .. MaxEntries,
           beyond : BOOLEAN, archive : [built : 0 .. MaxClock, held : [Records -> Version]],
           asked : 0 .. MaxClock]
    <3> HIDE DEF items, beyond, servable
    <3>1. items \in SUBSET [rec : Records, as : Version] /\ beyond \in BOOLEAN
      BY <2>3, <2>4 DEF items, beyond
    <3>2. pulling' = {[items |-> items, mark |-> m, beyond |-> beyond, archive |-> archive,
                       asked |-> clock]}
      BY <2>1 DEF items, beyond
    <3> QED BY <2>2, <2>5, <3>1, <3>2
  <2>7. UNCHANGED <<clock, publishing, archive, place, mirror, noted>>
    BY <1>5 DEF ReceivePage
  <2> HIDE DEF servable
  <2> QED BY <2>6, <2>7 DEF BackfillTypeOK, publishing
<1>6. CASE ImportArchive
  <2>1. PICK p \in pulling :
          /\ mirror' = [r \in Records |-> Newer(mirror[r], p.archive.held[r])]
          /\ noted' = {[built |-> p.archive.built, at |-> clock]}
    BY <1>6 DEF ImportArchive
  <2>2. mirror' \in [Records -> Version]
    BY <2>1 DEF BackfillTypeOK, Newer
  <2>3. noted' \subseteq [built : 0 .. MaxClock, at : 0 .. MaxClock]
    BY <2>1 DEF BackfillTypeOK
  <2> QED BY <1>6, <2>2, <2>3 DEF ImportArchive, BackfillTypeOK, publishing
<1>7. CASE FailImport
  <2>1. PICK p \in pulling, landed \in SUBSET Records :
          mirror' = [r \in Records |-> IF r \in landed THEN Newer(mirror[r], p.archive.held[r])
                                                      ELSE mirror[r]]
    BY <1>7 DEF FailImport
  <2>2. mirror' \in [Records -> Version]
    BY <2>1 DEF BackfillTypeOK, Newer
  <2> QED BY <1>7, <2>2 DEF FailImport, BackfillTypeOK, publishing
<1>8. CASE LandPage
  <2>1. PICK p \in pulling :
          /\ mirror' \in [Records -> {mirror[r] : r \in Records} \cup {e.as : e \in p.items}]
          /\ place' = AtLeast(place, p.mark)
    BY <1>8 DEF LandPage
  <2>2. {mirror[r] : r \in Records} \cup {e.as : e \in p.items} \subseteq Version
    BY DEF BackfillTypeOK
  <2>3. mirror' \in [Records -> Version] /\ place' \in 0 .. MaxEntries
    BY <2>1, <2>2 DEF BackfillTypeOK, AtLeast
  <2> QED BY <1>8, <2>3 DEF LandPage, BackfillTypeOK, publishing
<1>9. CASE DropPage
  BY <1>9 DEF DropPage, BackfillTypeOK, publishing
<1> QED BY <1>1, <1>2, <1>3, <1>4, <1>5, <1>6, <1>7, <1>8, <1>9 DEF BackfillNext

-----------------------------------------------------------------------------
(* The publisher's steps keep the invariant.                               *)

\* A new entry's number is above every version there is.
LEMMA PublishSound ==
  ASSUME BackfillInv, NEW r \in Records, NEW live \in BOOLEAN, Publish(r, live),
         BackfillTypeOK'
  PROVE  Sound'
<1> DEFINE v == [seq |-> tip + 1, at |-> clock, live |-> live]
<1>1. /\ latest' = [latest EXCEPT ![r] = v] /\ entries' = entries \cup {[rec |-> r, as |-> v]}
      /\ tip' = tip + 1 /\ lastAt' = clock
      /\ UNCHANGED <<clock, archive, place, mirror, noted, pulling>>
  BY DEF Publish, peering
<1>2. /\ tip \in Nat /\ clock \in Nat /\ lastAt \in Nat /\ place \in Nat
      /\ v.seq = tip + 1 /\ v.at = clock /\ v.live = live
      /\ latest' [r] = v /\ \A q \in Records \ {r} : latest'[q] = latest[q]
  BY <1>1 DEF BackfillInv, BackfillTypeOK
<1>3. \A q \in Records : /\ latest[q].seq \in Nat /\ latest[q].at \in Nat
                          /\ latest[q].seq <= tip /\ latest[q].at <= lastAt
  BY DEF BackfillInv, BackfillTypeOK, Version, Sound, Numbered
<1>4. lastAt <= clock
  BY DEF BackfillInv, Sound, Numbered
<1> HIDE DEF v
<1>5. ASSUME NEW q \in Records, NEW w \in Version, Dated(w, q)
      PROVE  Dated(w, q)'
  <2>1. w.seq \in Nat /\ w.seq <= tip
    BY <1>2, <1>3, <1>5 DEF Dated, Version
  <2> QED BY <1>2, <1>5, <2>1 DEF Dated
<1>6. Numbered'
  <2>1. \A q \in Records : latest'[q].seq <= tip' /\ latest'[q].at <= lastAt'
    BY <1>1, <1>2, <1>3, <1>4
  <2>2. ASSUME NEW e \in entries
        PROVE  /\ Dated(e.as, e.rec)' /\ e.as.at <= lastAt'
               /\ \A q \in Records : e.as.seq <= latest'[q].seq => e.as.at <= latest'[q].at
    <3>1. e.rec \in Records /\ e.as \in Version /\ e.as.at \in Nat
      BY DEF BackfillInv, BackfillTypeOK, Version
    <3>2. /\ Dated(e.as, e.rec) /\ e.as.at <= lastAt
          /\ \A q \in Records : e.as.seq <= latest[q].seq => e.as.at <= latest[q].at
      BY DEF BackfillInv, Sound, Numbered
    <3>3. Dated(e.as, e.rec)'
      BY <1>5, <3>1, <3>2
    <3> QED BY <1>1, <1>2, <1>4, <3>1, <3>2, <3>3
  <2>3. ASSUME NEW e, e = [rec |-> r, as |-> v]
        PROVE  /\ Dated(e.as, e.rec)' /\ e.as.at <= lastAt'
               /\ \A q \in Records : e.as.seq <= latest'[q].seq => e.as.at <= latest'[q].at
    BY <1>1, <1>2, <1>3, <2>3 DEF Dated
  <2>4. ASSUME NEW e \in entries'
        PROVE  /\ Dated(e.as, e.rec)' /\ e.as.at <= lastAt'
               /\ \A q \in Records : e.as.seq <= latest'[q].seq => e.as.at <= latest'[q].at
    BY <1>1, <2>2, <2>3
  <2>5. lastAt' <= clock' /\ place' <= tip'
    BY <1>1, <1>2 DEF BackfillInv, Sound, Numbered
  <2> QED BY <2>1, <2>4, <2>5 DEF Numbered
<1>7. Kept'
  BY <1>1, <1>2 DEF BackfillInv, Sound, Kept, Row
<1>8. NeverSilent'
  <2>1. clock' <= lastAt' + Silence
    BY <1>1, <1>2
  <2>2. ASSUME NEW t \in 1 .. lastAt', clock' <= t + Retention
        PROVE  \E e \in entries' : t <= e.as.at /\ e.as.at < t + Silence
    <3>1. CASE t <= lastAt
      BY <1>1, <1>2, <2>2, <3>1 DEF BackfillInv, Sound, NeverSilent
    <3>2. CASE t > lastAt
      <4>1. t <= v.at /\ v.at < t + Silence
        BY <1>1, <1>2, <2>2, <3>2 DEF BackfillInv, Sound, NeverSilent
      <4>2. [rec |-> r, as |-> v] \in entries'
        BY <1>1
      <4> QED BY <4>1, <4>2
    <3> QED BY <1>1, <1>2, <2>2, <3>1, <3>2
  <2> QED BY <2>1, <2>2 DEF NeverSilent
<1>9. ASSUME NEW a \in Built, Holds(a), a.built <= clock
      PROVE  Holds(a)'
  <2>1. \A q \in Records : a.held[q] \in Version
    BY DEF Built
  <2> QED BY <1>2, <1>5, <1>9, <2>1 DEF Holds, Built
<1>10. ArchiveHolds'
  <2>1. archive \in Built
    BY DEF BackfillInv, BackfillTypeOK, Built
  <2> QED BY <1>1, <1>9, <2>1 DEF BackfillInv, Sound, ArchiveHolds
<1>11. MirrorDated'
  BY <1>1, <1>5 DEF BackfillInv, BackfillTypeOK, Sound, MirrorDated
<1>12. ASSUME NEW n \in noted
       PROVE  n.built <= clock
  BY <1>12 DEF BackfillInv, Sound, NotedLanded
<1>13. NotedLanded'
  BY <1>1, <1>2, <1>12 DEF BackfillInv, BackfillTypeOK, Sound, NotedLanded
<1>14. PageSound'
  <2> SUFFICES ASSUME NEW p \in pulling
               PROVE  /\ p.mark <= tip' /\ Holds(p.archive)'
                      /\ \A e \in p.items : Dated(e.as, e.rec)'
                      /\ Passes(p)'
    BY <1>1 DEF BackfillInv, Sound, PageSound
  <2>1. /\ p.archive \in Built /\ p.mark \in Nat /\ p.items \subseteq KeptEntry
        /\ p.archive.built \in Nat /\ p.asked \in Nat
    BY DEF BackfillInv, BackfillTypeOK, Built, KeptEntry
  <2>2. /\ p.asked <= clock /\ p.archive.built <= p.asked /\ p.mark <= tip
        /\ Holds(p.archive) /\ \A e \in p.items : Dated(e.as, e.rec)
        /\ Passes(p)
    BY DEF BackfillInv, Sound, PageSound
  <2>3. Holds(p.archive)'
    BY <1>2, <1>9, <2>1, <2>2
  <2>4. \A e \in p.items : Dated(e.as, e.rec)'
    BY <1>5, <2>1, <2>2 DEF KeptEntry
  <2>5. Passes(p)'
    BY <1>1, <1>2, <2>1, <2>2 DEF Passes, Row
  <2> QED BY <1>1, <1>2, <2>1, <2>2, <2>3, <2>4, <2>5
<1>15. NothingFallsBetween'
  BY <1>1, <1>2, <1>3 DEF BackfillInv, Sound, Numbered, NothingFallsBetween
<1> QED BY <1>6, <1>7, <1>8, <1>10, <1>11, <1>13, <1>14, <1>15 DEF Sound

\* A build of the archive holds every live record as it is.
LEMMA BuildSound ==
  ASSUME BackfillInv, BuildArchive
  PROVE  Sound'
<1>1. /\ archive'.built = clock
      /\ \A r \in Records : archive'.held[r] = IF latest[r].live THEN latest[r] ELSE Unknown
      /\ UNCHANGED <<clock, publishing, peering>>
  BY DEF BuildArchive
<1>2. /\ clock \in Nat /\ \A r \in Records : latest[r] \in Version /\ latest[r].seq \in Nat
  BY DEF BackfillInv, BackfillTypeOK, Version
<1>4. Holds(archive')
  BY <1>1, <1>2 DEF Holds, Dated, Unknown
<1>5. ArchiveHolds'
  BY <1>1, <1>2, <1>4 DEF ArchiveHolds, Holds, Dated, publishing
<1> QED BY <1>1, <1>5 DEF BackfillInv, Sound, Numbered, Kept, NeverSilent, MirrorDated,
           NotedLanded, PageSound, NothingFallsBetween, Passes, Holds, Dated, Row,
           publishing, peering

\* Pruning keeps the entries within the retention.
LEMMA PruneSound ==
  ASSUME BackfillInv, PruneOutbox
  PROVE  Sound'
<1>1. /\ entries' = {e \in entries : e.as.at + Retention >= clock}
      /\ UNCHANGED <<clock, tip, lastAt, latest, archive, place, mirror, noted, pulling>>
  BY DEF PruneOutbox, peering
<1>2. \A e \in entries : e.as.at \in Nat
  BY DEF BackfillInv, BackfillTypeOK, Version
<1>3. clock \in Nat /\ lastAt \in Nat
  BY DEF BackfillInv, BackfillTypeOK
<1>4. Numbered' /\ Kept'
  BY <1>1, <1>2 DEF BackfillInv, Sound, Numbered, Kept, Row, Dated
<1>5. NeverSilent'
  <2> SUFFICES ASSUME NEW t \in 1 .. lastAt, clock <= t + Retention
               PROVE  \E e \in entries' : t <= e.as.at /\ e.as.at < t + Silence
    BY <1>1 DEF BackfillInv, Sound, NeverSilent
  <2>1. PICK e \in entries : t <= e.as.at /\ e.as.at < t + Silence
    BY DEF BackfillInv, Sound, NeverSilent
  <2>2. e \in entries'
    BY <1>1, <1>2, <1>3, <2>1
  <2> QED BY <2>1, <2>2
<1> QED BY <1>1, <1>4, <1>5 DEF BackfillInv, Sound, ArchiveHolds, MirrorDated, NotedLanded,
           PageSound, NothingFallsBetween, Passes, Holds, Dated, Row

\* Time passes within the margins.
LEMMA ElapseSound ==
  ASSUME BackfillInv, Elapse
  PROVE  Sound'
<1>1. /\ clock' = clock + 1
      /\ clock < archive.built + ArchiveAge /\ clock < lastAt + Silence
      /\ \A p \in pulling : clock < p.asked + Flight
      /\ UNCHANGED <<entries, tip, lastAt, latest, archive, place, mirror, noted, pulling>>
  BY DEF Elapse, publishing, peering
<1>2. /\ clock \in Nat /\ lastAt \in Nat /\ archive.built \in Nat
      /\ \A r \in Records : latest[r].at \in Nat
      /\ \A p \in pulling : p.asked \in Nat
      /\ \A n \in noted : n.built \in Nat
  BY DEF BackfillInv, BackfillTypeOK, Version
<1>3. Numbered' /\ Kept'
  BY <1>1, <1>2 DEF BackfillInv, Sound, Numbered, Kept, Row, Dated
<1>4. NeverSilent'
  BY <1>1, <1>2 DEF BackfillInv, Sound, NeverSilent
<1>5. ArchiveHolds'
  BY <1>1, <1>2 DEF BackfillInv, Sound, ArchiveHolds, Holds, Dated
<1>6. PageSound'
  BY <1>1, <1>2 DEF BackfillInv, Sound, PageSound, Passes, Holds, Dated, Row
<1>7. NotedLanded'
  BY <1>1, <1>2 DEF BackfillInv, Sound, NotedLanded
<1> QED BY <1>1, <1>3, <1>4, <1>5, <1>6, <1>7 DEF BackfillInv, Sound, MirrorDated,
           NothingFallsBetween, Dated

-----------------------------------------------------------------------------
(* The peer's steps keep the invariant.                                    *)

\* An instant before the floor is before the archive's night.
LEMMA BeforeFloor ==
  ASSUME BackfillInv, NEW at \in Nat, ~Served(at)
  PROVE  at + Window < clock /\ at < archive.built
BY MarginAssumption DEF BackfillInv, BackfillTypeOK, Sound, ArchiveHolds, Served

\* A version the journal pruned is before the floor, and an entry after it,
\* also before the floor, is left to say so.
LEMMA PrunedNamed ==
  ASSUME BackfillInv, NEW r \in Records, latest[r].live, latest[r].seq > place,
         Row(r) \notin entries
  PROVE  ~Served(latest[r].at) /\ NamesArchive
<1>1. /\ clock \in Nat /\ lastAt \in Nat /\ archive.built \in Nat /\ place \in Nat
      /\ latest[r].at \in Nat /\ latest[r].seq \in Nat
      /\ \A e \in entries : e.as.at \in Nat /\ e.as.seq \in Nat
  BY DEF BackfillInv, BackfillTypeOK, Version
<1>2. latest[r].at + Retention < clock
  BY <1>1 DEF BackfillInv, Sound, Kept
<1>3. /\ clock <= archive.built + ArchiveAge /\ clock <= lastAt + Silence
  BY DEF BackfillInv, Sound, ArchiveHolds, NeverSilent
<1>4. ~Served(latest[r].at)
  BY <1>1, <1>2, <1>3, MarginAssumption DEF Served
<1> DEFINE t == clock - Retention
<1>5. t \in 1 .. lastAt /\ clock <= t + Retention
  BY <1>1, <1>2, <1>3, MarginAssumption
<1>6. PICK e \in entries : t <= e.as.at /\ e.as.at < t + Silence
  BY <1>5 DEF BackfillInv, Sound, NeverSilent
<1>7. e.as.at > latest[r].at
  BY <1>1, <1>2, <1>6
<1>8. e.as.seq > place
  BY <1>1, <1>7 DEF BackfillInv, Sound, Numbered
<1>9. ~Served(e.as.at)
  BY <1>1, <1>3, <1>6, MarginAssumption DEF Served
<1> QED BY <1>4, <1>8, <1>9 DEF NamesArchive

\* A page passes only what the peer holds, what it carries and what the
\* archive it names holds.
LEMMA ReceiveSound ==
  ASSUME BackfillInv, ReceivePage
  PROVE  Sound'
<1> DEFINE servable == {e \in entries : e.as.seq > place /\ Served(e.as.at)}
<1>1. PICK m \in {place} \cup {e.as.seq : e \in servable} :
        pulling' = {[items |-> PageTo(m, servable), mark |-> m,
                     beyond |-> NamesArchive, archive |-> archive, asked |-> clock]}
  BY DEF ReceivePage
<1>2. UNCHANGED <<clock, entries, tip, lastAt, latest, archive, place, mirror, noted>>
  BY DEF ReceivePage, publishing
<1>3. /\ tip \in Nat /\ place \in Nat /\ clock \in Nat /\ m \in Nat /\ m <= tip
  <2>1. \A e \in entries : e.rec \in Records /\ e.as.seq \in Nat /\ e.as.seq <= tip
    BY DEF BackfillInv, BackfillTypeOK, Version, Sound, Numbered, Dated
  <2> QED BY <1>1, <2>1 DEF BackfillInv, BackfillTypeOK, Sound, Numbered
<1> DEFINE p == [items |-> PageTo(m, servable), mark |-> m,
                 beyond |-> NamesArchive, archive |-> archive, asked |-> clock]
<1>4. Passes(p)
  <2> SUFFICES ASSUME NEW r \in Records, latest[r].live, latest[r].seq <= m
               PROVE  \/ mirror[r] = latest[r]
                      \/ Row(r) \in PageTo(m, servable)
                      \/ /\ NamesArchive /\ latest[r].at < archive.built
                         /\ latest[r].at + Window < clock
    BY DEF Passes
  <2>1. latest[r].seq \in Nat /\ latest[r].at \in Nat
    BY DEF BackfillInv, BackfillTypeOK, Version
  <2>2. CASE latest[r].seq <= place
    BY <2>2 DEF BackfillInv, Sound, NothingFallsBetween
  <2>3. CASE latest[r].seq > place /\ Served(latest[r].at) /\ Row(r) \in entries
    BY <2>3 DEF PageTo, Row
  <2>4. CASE latest[r].seq > place /\ ~Served(latest[r].at) /\ Row(r) \in entries
    BY <2>1, <2>4, BeforeFloor DEF NamesArchive, Row
  <2>5. CASE latest[r].seq > place /\ Row(r) \notin entries
    BY <2>1, <2>5, PrunedNamed, BeforeFloor
  <2> QED BY <1>3, <2>1, <2>2, <2>3, <2>4, <2>5
<1>5. /\ p.asked <= clock /\ clock <= p.asked + Flight
      /\ p.archive.built <= p.asked /\ p.asked <= p.archive.built + ArchiveAge
      /\ p.mark <= tip
      /\ Holds(p.archive)
  BY <1>3 DEF BackfillInv, Sound, ArchiveHolds
<1>6. \A e \in p.items : Dated(e.as, e.rec)
  BY DEF PageTo, BackfillInv, Sound, Numbered
<1>7. pulling' = {p}
  BY <1>1
<1> HIDE DEF p
<1>8. PageSound'
  BY <1>2, <1>4, <1>5, <1>6, <1>7 DEF PageSound, Passes, Holds, Dated, Row
<1> QED BY <1>2, <1>8 DEF BackfillInv, Sound, Numbered, Kept, NeverSilent, ArchiveHolds,
           MirrorDated, NotedLanded, NothingFallsBetween, Holds, Dated, Row

\* Whether the peer's copies only got newer.
Renewed ==
  \A r \in Records :
    /\ Dated(mirror'[r], r)
    /\ latest[r].live /\ mirror[r] = latest[r] => mirror'[r] = latest[r]

\* Newer copies keep what a page passes.
LEMMA RenewedSound ==
  ASSUME BackfillInv, Renewed, UNCHANGED <<clock, publishing, archive, place>>,
         \/ pulling' = {}
         \/ pulling' = pulling
  PROVE  /\ Numbered' /\ Kept' /\ NeverSilent' /\ ArchiveHolds' /\ MirrorDated'
         /\ PageSound' /\ NothingFallsBetween'
         /\ noted' = noted => NotedLanded'
<1>1. /\ Numbered' /\ Kept' /\ NeverSilent' /\ ArchiveHolds'
  BY DEF BackfillInv, Sound, Numbered, Kept, NeverSilent, ArchiveHolds, Holds, Dated, Row,
         publishing
<1>2. MirrorDated' /\ NothingFallsBetween'
  BY DEF BackfillInv, Sound, Renewed, MirrorDated, NothingFallsBetween, Dated, publishing
<1>3. noted' = noted => NotedLanded'
  BY DEF BackfillInv, Sound, Renewed, NotedLanded, publishing
<1>4. PageSound'
  BY DEF BackfillInv, Sound, Renewed, PageSound, Passes, Holds, Dated, Row, publishing
<1> QED BY <1>1, <1>2, <1>3, <1>4

LEMMA NewerRenews ==
  ASSUME BackfillInv, NEW p \in pulling, NEW r \in Records
  PROVE  /\ Newer(mirror[r], p.archive.held[r]) \in Version
         /\ Dated(Newer(mirror[r], p.archive.held[r]), r)
         /\ latest[r].live /\ mirror[r] = latest[r]
              => Newer(mirror[r], p.archive.held[r]) = latest[r]
         /\ latest[r].live /\ latest[r].at < p.archive.built
              => Newer(mirror[r], p.archive.held[r]) = latest[r]
<1>1. /\ mirror[r] \in Version /\ p.archive.held[r] \in Version
      /\ mirror[r].seq \in Nat /\ p.archive.held[r].seq \in Nat /\ latest[r].seq \in Nat
  BY DEF BackfillInv, BackfillTypeOK, Version
<1>2. Dated(mirror[r], r) /\ Dated(p.archive.held[r], r)
  BY DEF BackfillInv, Sound, MirrorDated, PageSound, Holds
<1>3. latest[r].live /\ latest[r].at < p.archive.built => p.archive.held[r] = latest[r]
  BY DEF BackfillInv, Sound, PageSound, Holds
<1> QED BY <1>1, <1>2, <1>3 DEF Newer, Dated

\* A whole archive brings every live record that did not change since its night.
LEMMA ImportSound ==
  ASSUME BackfillInv, ImportArchive
  PROVE  Sound'
<1>1. PICK p \in pulling :
        /\ mirror' = [r \in Records |-> Newer(mirror[r], p.archive.held[r])]
        /\ noted' = {[built |-> p.archive.built, at |-> clock]}
  BY DEF ImportArchive
<1>2. UNCHANGED <<clock, publishing, archive, place, pulling>>
  BY DEF ImportArchive
<1>3. /\ clock \in Nat /\ p.asked \in Nat /\ p.archive.built \in Nat
      /\ p.asked <= clock /\ clock <= p.asked + Flight
      /\ p.archive.built <= p.asked /\ p.asked <= p.archive.built + ArchiveAge
  BY DEF BackfillInv, BackfillTypeOK, Sound, PageSound
<1>4. Renewed
  BY <1>1, NewerRenews DEF Renewed
<1>5. NotedLanded'
  BY <1>1, <1>2, <1>3, NewerRenews DEF NotedLanded, publishing
<1> QED BY <1>2, <1>4, <1>5, RenewedSound DEF Sound

\* One that landed in part brings nothing older either.
LEMMA FailImportSound ==
  ASSUME BackfillInv, FailImport
  PROVE  Sound'
<1>1. PICK p \in pulling, landed \in SUBSET Records :
        mirror' = [r \in Records |-> IF r \in landed THEN Newer(mirror[r], p.archive.held[r])
                                                    ELSE mirror[r]]
  BY DEF FailImport
<1>2. UNCHANGED <<clock, publishing, archive, place, noted>> /\ pulling' = {}
  BY DEF FailImport
<1>3. Renewed
  BY <1>1, NewerRenews DEF Renewed, BackfillInv, Sound, MirrorDated
<1> QED BY <1>2, <1>3, RenewedSound DEF Sound

\* A page whose archive is not due moves the cursor past nothing the peer lacks:
\* what neither it nor the page holds was in the archive the peer noted.
LEMMA LandSound ==
  ASSUME BackfillInv, LandPage
  PROVE  Sound'
<1>1. PICK p \in pulling :
        /\ ~ArchiveDue(p)
        /\ \A r \in Records : IsNewest(mirror'[r], Heard(p, r))
        /\ place' = AtLeast(place, p.mark)
  BY DEF LandPage
<1>2. UNCHANGED <<clock, publishing, archive, noted>> /\ pulling' = {}
  BY DEF LandPage
<1>3. /\ clock \in Nat /\ place \in Nat /\ tip \in Nat
      /\ p.asked \in Nat /\ p.archive.built \in Nat /\ p.mark \in Nat
      /\ p.asked <= clock /\ p.mark <= tip /\ place <= tip
  BY DEF BackfillInv, BackfillTypeOK, Sound, PageSound, Numbered
<1>4. ASSUME NEW r \in Records
      PROVE  /\ \A v \in Heard(p, r) : v.seq \in Nat /\ Dated(v, r)
             /\ latest[r].seq \in Nat /\ latest[r].at \in Nat
  BY DEF Heard, BackfillInv, BackfillTypeOK, Version, Sound, MirrorDated, PageSound
<1>5. Renewed
  <2> SUFFICES ASSUME NEW r \in Records
               PROVE  /\ Dated(mirror'[r], r)
                      /\ latest[r].live /\ mirror[r] = latest[r] => mirror'[r] = latest[r]
    BY DEF Renewed
  <2>1. mirror'[r] \in Heard(p, r) /\ mirror[r].seq <= mirror'[r].seq
    BY <1>1 DEF IsNewest, Heard
  <2> QED BY <1>4, <2>1 DEF Dated
<1>6. ASSUME NEW r \in Records, latest[r].live, latest[r].seq <= p.mark
      PROVE  mirror'[r] = latest[r]
  <2>1. CASE mirror[r] = latest[r]
    BY <1>5, <1>6, <2>1 DEF Renewed
  <2>2. CASE Row(r) \in p.items
    <3>1. latest[r] \in Heard(p, r)
      BY <2>2 DEF Heard, Row
    <3>2. mirror'[r] \in Heard(p, r) /\ latest[r].seq <= mirror'[r].seq
      BY <1>1, <3>1 DEF IsNewest
    <3> QED BY <1>4, <1>6, <3>2 DEF Dated
  <2>3. CASE p.beyond /\ latest[r].at < p.archive.built /\ latest[r].at + Window < p.asked
    <3>1. PICK n \in noted : ~(n.built < p.archive.built /\ n.at + Reland <= clock)
      BY <1>1, <2>3 DEF ArchiveDue
    <3>2. n.built \in Nat /\ n.at \in Nat /\ n.at <= n.built + ArchiveAge + Flight
      BY DEF BackfillInv, BackfillTypeOK, Sound, NotedLanded
    <3>3. latest[r].at < n.built
      BY <1>3, <1>4, <2>3, <3>1, <3>2, MarginAssumption
    <3>4. mirror[r] = latest[r]
      BY <1>6, <3>3 DEF BackfillInv, Sound, NotedLanded
    <3> QED BY <1>5, <1>6, <3>4 DEF Renewed
  <2>4. Passes(p)
    BY DEF BackfillInv, Sound, PageSound
  <2> QED BY <1>6, <2>1, <2>2, <2>3, <2>4 DEF Passes
<1>7. /\ Numbered' /\ Kept' /\ NeverSilent' /\ ArchiveHolds' /\ PageSound'
  BY <1>1, <1>2, <1>3 DEF BackfillInv, Sound, Numbered, Kept, NeverSilent, ArchiveHolds, Holds,
         Dated, Row, PageSound, AtLeast, publishing
<1>8. MirrorDated' /\ NotedLanded'
  BY <1>2, <1>5 DEF BackfillInv, Sound, Renewed, MirrorDated, NotedLanded, Dated, publishing
<1>9. NothingFallsBetween'
  <2> SUFFICES ASSUME NEW r \in Records, latest[r].live,
                      latest[r].seq <= place \/ latest[r].seq <= p.mark
               PROVE  mirror'[r] = latest[r]
    BY <1>1, <1>2, <1>3 DEF NothingFallsBetween, AtLeast, publishing
  <2>1. CASE latest[r].seq <= place
    BY <1>5, <2>1 DEF BackfillInv, Sound, NothingFallsBetween, Renewed
  <2> QED BY <1>6, <2>1
<1> QED BY <1>7, <1>8, <1>9 DEF Sound

LEMMA DropSound ==
  ASSUME BackfillInv, DropPage
  PROVE  Sound'
BY DEF DropPage, publishing, BackfillInv, Sound, Numbered, Kept, NeverSilent, ArchiveHolds,
       MirrorDated, NotedLanded, PageSound, NothingFallsBetween, Holds, Dated, Row

-----------------------------------------------------------------------------
(* The theorems.                                                           *)

LEMMA BackfillInvariance == BackfillSpec => []BackfillInv
<1>1. BackfillInv /\ [BackfillNext]_backfill => BackfillInv'
  <2> SUFFICES ASSUME BackfillInv, [BackfillNext]_backfill PROVE BackfillInv'
    OBVIOUS
  <2>1. CASE UNCHANGED backfill
    BY <2>1 DEF backfill, publishing, peering, BackfillInv, BackfillTypeOK, Sound, Numbered, Kept,
                NeverSilent, ArchiveHolds, MirrorDated, NotedLanded, PageSound,
                NothingFallsBetween, Passes, Holds, Dated, Row
  <2>2. CASE BackfillNext
    <3>1. BackfillTypeOK'
      BY <2>2, TypeStep DEF BackfillInv
    <3>2. Sound'
      BY <2>2, <3>1, PublishSound, BuildSound, PruneSound, ElapseSound, ReceiveSound, ImportSound,
         FailImportSound, LandSound, DropSound DEF BackfillNext
    <3> QED BY <3>1, <3>2 DEF BackfillInv
  <2> QED BY <2>1, <2>2
<1> QED BY InitSound, <1>1, PTL DEF BackfillSpec

\* Type correctness of the publisher's journal and archive and of a pull.
THEOREM BackfillTypeCorrect == BackfillSpec => []BackfillTypeOK
<1>1. BackfillInv => BackfillTypeOK
  BY DEF BackfillInv
<1> QED BY <1>1, BackfillInvariance, PTL

\* A peer holds every live record its cursor passed, however long it was away,
\* whatever of an archive failed to land and whenever its pulls ended, as long
\* as the durations keep MarginAssumption.
THEOREM NothingLost == BackfillSpec => []NothingFallsBetween
<1>1. BackfillInv => NothingFallsBetween
  BY DEF BackfillInv, Sound
<1> QED BY <1>1, BackfillInvariance, PTL
=============================================================================
