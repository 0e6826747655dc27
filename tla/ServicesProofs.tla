--------------------------- MODULE ServicesProofs ---------------------------
(***************************************************************************)
(* Theorems about Reconcile, the reconcile of a source's restricted flag,  *)
(* for any number of records, revisions and boots; and about Evidence, for *)
(* any number of reports, any keys and thresholds, any bound of the walk   *)
(* and any number of events.                                               *)
(***************************************************************************)
EXTENDS Reconcile, Evidence, WellFoundedInduction, TLAPS

LEMMA RecordNumbers == 1 \in Record /\ NumRecords \in Record /\ Record \subseteq Nat
  BY RecordAssumption DEF Record

-----------------------------------------------------------------------------
(* Reconcile: what journalling does to a subscriber.                       *)

\* What a subscriber holds is of its type.
HeldTyped ==
  /\ last \in [Record -> {"none", "change", "delete"}]
  /\ peer \in [Record -> [rev : 0 .. MaxRev, live : BOOLEAN]]

LEMMA ChangeGoesOut ==
  ASSUME NEW r \in Record, NEW rev \in 0 .. MaxRev, HeldTyped, JournalChange(r, rev)
  PROVE  /\ HeldTyped'
         /\ last'[r] = "change" /\ peer'[r].live /\ peer'[r].rev = rev
         /\ \A s \in Record \ {r} : last'[s] = last[s] /\ peer'[s] = peer[s]
  BY DEF HeldTyped, JournalChange

LEMMA DeleteGoesOut ==
  ASSUME NEW r \in Record, NEW rev \in 0 .. MaxRev, HeldTyped, JournalDelete(r, rev)
  PROVE  /\ HeldTyped'
         /\ last'[r] = "delete" /\ peer'[r].rev = peer[r].rev
         /\ peer'[r].live <=> peer[r].live /\ peer[r].rev > rev
         /\ \A s \in Record \ {r} : last'[s] = last[s] /\ peer'[s] = peer[s]
  BY DEF HeldTyped, JournalDelete

-----------------------------------------------------------------------------
(* Reconcile: type correctness.                                            *)

LEMMA TypeStep ==
  ASSUME ReconcileTypeOK, [ReconcileNext]_reconcileVars
  PROVE  ReconcileTypeOK'
  <1> USE BoundAssumption, RecordNumbers
  <1>1. HeldTyped
    BY DEF ReconcileTypeOK, HeldTyped
  <1>2. ASSUME NEW r \in Record, Poll(r) PROVE ReconcileTypeOK'
    <2>1. rec[r].rev \in 0 .. MaxRev /\ rec[r].rev < MaxRev
      BY <1>2 DEF ReconcileTypeOK, Poll, StoreLive, Withdraw, Erase
    <2>2. rec[r].rev + 1 \in 0 .. MaxRev
      BY <2>1
    <2>3. rec' \in [Record -> [rev : 0 .. MaxRev, status : Status]]
      BY <1>2, <2>2 DEF ReconcileTypeOK, Poll, StoreLive, Withdraw, Erase, Status
    <2>4. \/ UNCHANGED <<last, peer>>
          \/ JournalChange(r, rec[r].rev + 1) \/ JournalDelete(r, rec[r].rev + 1)
      BY <1>2 DEF Poll, StoreLive, Withdraw, Erase
    <2>5. HeldTyped'
      BY <1>1, <2>2, <2>4, ChangeGoesOut, DeleteGoesOut DEF HeldTyped
    <2> QED BY <1>2, <2>3, <2>5
      DEF ReconcileTypeOK, HeldTyped, Poll, StoreLive, Withdraw, Erase, source, process
  <1>3. ASSUME NEW r \in Record, Prune(r) PROVE ReconcileTypeOK'
    BY <1>3 DEF ReconcileTypeOK, Prune, source, process
  <1>4. ASSUME NEW catalogue \in Flag, Boot(catalogue) PROVE ReconcileTypeOK'
    <2>1. boots' \in 0 .. MaxBoot
      BY <1>4 DEF ReconcileTypeOK, Boot
    <2>3. old' \in {{}, old, {r \in Record : rec[r].rev > 0}}
      BY <1>4, Zenon DEF Boot
    <2>4. old' \subseteq Record
      BY <2>3 DEF ReconcileTypeOK
    <2>2. flag' \in Flag /\ pc' = "booted"
          /\ UNCHANGED <<basis, begun, rec, last, peer, toward, next>>
      BY <1>4 DEF Boot, records
    <2> QED BY <2>1, <2>2, <2>4 DEF ReconcileTypeOK
  <1>5. CASE List
    BY <1>5 DEF ReconcileTypeOK, List, records, Flag
  <1>6. CASE ReconcilePage
    <2>1. rec[next].rev \in 0 .. MaxRev
      BY DEF ReconcileTypeOK
    <2>2. \/ UNCHANGED <<last, peer>>
          \/ JournalChange(next, rec[next].rev) \/ JournalDelete(next, rec[next].rev)
      BY <1>6 DEF ReconcilePage, Retract, Publish
    <2>3. HeldTyped'
      BY <1>1, <2>1, <2>2, ChangeGoesOut, DeleteGoesOut DEF HeldTyped, ReconcileTypeOK
    <2>4. next' \in Record
      BY <1>6, RecordAssumption DEF ReconcilePage, IsLastPage, ReconcileTypeOK, Record
    <2> QED BY <1>6, <2>3, <2>4 DEF ReconcileTypeOK, HeldTyped, ReconcilePage
  <1>7. CASE ReconcileFails \/ Stop
    BY <1>7 DEF ReconcileTypeOK, ReconcileFails, Stop, source, records
  <1>8. CASE UNCHANGED reconcileVars
    BY <1>8 DEF ReconcileTypeOK, reconcileVars, source, records, process
  <1> QED BY <1>2, <1>3, <1>4, <1>5, <1>6, <1>7, <1>8 DEF ReconcileNext

LEMMA TypeInit == ReconcileInit => ReconcileTypeOK
  <1> SUFFICES ASSUME ReconcileInit PROVE ReconcileTypeOK
    OBVIOUS
  <1>1. 0 \in 0 .. MaxRev /\ boots \in 0 .. MaxBoot /\ next \in Record
    BY BoundAssumption, RecordNumbers DEF ReconcileInit
  <1>2. rec \in [Record -> [rev : 0 .. MaxRev, status : Status]]
    BY <1>1 DEF ReconcileInit, Status
  <1>3. peer \in [Record -> [rev : 0 .. MaxRev, live : BOOLEAN]]
    BY <1>1 DEF ReconcileInit
  <1>4. last \in [Record -> {"none", "change", "delete"}]
    BY DEF ReconcileInit
  <1>5. toward \in Flag /\ old \subseteq Record
    BY DEF ReconcileInit, Flag
  <1> QED BY <1>1, <1>2, <1>3, <1>4, <1>5 DEF ReconcileInit, ReconcileTypeOK

\* Type correctness.
THEOREM TypeCorrect == ReconcileSpec => []ReconcileTypeOK
  BY TypeInit, TypeStep, PTL DEF ReconcileSpec

-----------------------------------------------------------------------------
(* Reconcile: a restricted source's content.                               *)

\* Nothing of a restricted source goes out (federation_may_carry).
THEOREM RestrictedStaysIn == ReconcileSpec => NothingGoesOut
  <1>1. ReconcileTypeOK /\ [ReconcileNext]_reconcileVars =>
          [\A r \in Record :
             Restricted /\ peer'[r].live => peer[r].live /\ peer'[r].rev = peer[r].rev]_reconcileVars
    <2> SUFFICES ASSUME ReconcileTypeOK, ReconcileNext, Restricted,
                        NEW r \in Record, peer'[r].live
                 PROVE  peer[r].live /\ peer'[r].rev = peer[r].rev
      OBVIOUS
    <2>1. HeldTyped /\ \A s \in Record : rec[s].rev \in 0 .. MaxRev
      BY DEF ReconcileTypeOK, HeldTyped
    <2>2. \/ UNCHANGED peer
          \/ \E s \in Record, rev \in 0 .. MaxRev : JournalDelete(s, rev)
      <3>1. ASSUME NEW s \in Record, Poll(s)
            PROVE  UNCHANGED peer \/ \E rev \in 0 .. MaxRev : JournalDelete(s, rev)
        <4>1. rec[s].rev + 1 \in 0 .. MaxRev
          BY <3>1, <2>1, BoundAssumption DEF Poll, StoreLive, Withdraw, Erase
        <4> QED BY <3>1, <4>1 DEF Poll, StoreLive, Withdraw, Erase
      <3>2. CASE ReconcilePage
        BY <3>2, <2>1 DEF ReconcilePage, Retract, Publish, ReconcileTypeOK
      <3> QED BY <3>1, <3>2
        DEF ReconcileNext, Prune, Boot, List, ReconcileFails, Stop, records
    <2> QED BY <2>1, <2>2, DeleteGoesOut
  <1> QED BY <1>1, TypeCorrect, PTL DEF ReconcileSpec, NothingGoesOut

-----------------------------------------------------------------------------
(* Reconcile: erasures.                                                    *)

\* What a subscriber holds was journalled here, at no later revision, and is
\* known to have been shared even once its entries are pruned.
PeerKnown ==
  \A r \in Record : peer[r].live =>
    /\ rec[r].rev > 0 /\ peer[r].rev <= rec[r].rev
    /\ ~Restricted \/ r \in old

\* A record whose latest entry is a delete has ended at every subscriber.
DeleteEnds == \A r \in Record : last[r] = "delete" => ~peer[r].live

\* A record that was never stored has no entries.
Stored == \A r \in Record : last[r] # "none" => rec[r].rev > 0

EndsInv == PeerKnown /\ DeleteEnds /\ Stored /\ ErasedEnds

LEMMA EndsStep ==
  ASSUME ReconcileTypeOK, EndsInv, [ReconcileNext]_reconcileVars
  PROVE  EndsInv'
  <1> USE BoundAssumption DEF EndsInv
  <1>1. /\ HeldTyped
        /\ \A s \in Record : rec[s].rev \in 0 .. MaxRev /\ peer[s].rev \in 0 .. MaxRev
      BY DEF ReconcileTypeOK, HeldTyped
  <1>2. ASSUME NEW r \in Record, Poll(r) PROVE EndsInv'
    <2> DEFINE rev == rec[r].rev + 1
    <2>1. /\ rev \in 0 .. MaxRev /\ rev > 0
          /\ peer[r].live => peer[r].rev < rev
          /\ UNCHANGED <<flag, old>>
      BY <1>1, <1>2 DEF Poll, StoreLive, Withdraw, Erase, PeerKnown, source
    <2>2. /\ rec'[r].rev = rev
          /\ rec'[r].status \in {"live", "withdrawn", "erased"}
          /\ \A s \in Record \ {r} : rec'[s] = rec[s]
      BY <1>2 DEF Poll, StoreLive, Withdraw, Erase, ReconcileTypeOK
    <2>3. CASE UNCHANGED <<last, peer>>
      <3>1. rec'[r].status = "erased" => ~peer[r].live
        BY <1>2, <2>3, <2>1, <1>1
          DEF Poll, StoreLive, Withdraw, Erase, WasShared, PeerKnown, DeleteEnds,
              JournalDelete, ReconcileTypeOK
      <3> QED BY <2>1, <2>2, <2>3, <3>1, <1>1 DEF PeerKnown, DeleteEnds, Stored, ErasedEnds, Restricted
    <2>4. CASE JournalChange(r, rev) /\ ~Restricted /\ rec'[r].status = "live"
      <3>1. /\ last'[r] = "change" /\ peer'[r].live /\ peer'[r].rev = rev
            /\ \A s \in Record \ {r} : last'[s] = last[s] /\ peer'[s] = peer[s]
        BY <2>4, <2>1, <1>1, ChangeGoesOut
      <3> QED BY <2>1, <2>2, <2>4, <3>1 DEF PeerKnown, DeleteEnds, Stored, ErasedEnds, Restricted
    <2>5. CASE JournalDelete(r, rev)
      <3>1. /\ ~peer'[r].live
            /\ \A s \in Record \ {r} : last'[s] = last[s] /\ peer'[s] = peer[s]
        BY <2>5, <2>1, <1>1, DeleteGoesOut
      <3> QED BY <2>1, <2>2, <3>1 DEF PeerKnown, DeleteEnds, Stored, ErasedEnds, Restricted
    <2> QED BY <1>2, <2>3, <2>4, <2>5 DEF Poll, StoreLive, Withdraw, Erase, ReconcileTypeOK
  <1>3. ASSUME NEW r \in Record, Prune(r) PROVE EndsInv'
    <2>1. \A s \in Record : last'[s] = last[s] \/ last'[s] = "none"
      BY <1>3, <1>1 DEF Prune, HeldTyped
    <2> QED BY <1>3, <2>1
      DEF Prune, PeerKnown, DeleteEnds, Stored, ErasedEnds, Restricted, source, process
  <1>4. ASSUME NEW catalogue \in Flag, Boot(catalogue) PROVE EndsInv'
    <2>1. UNCHANGED <<rec, last, peer>>
      BY <1>4 DEF Boot, records
    <2>2. \A r \in Record : peer[r].live => ~Restricted' \/ r \in old'
      BY <1>4 DEF Boot, Restricted, PeerKnown, Flag
    <2> QED BY <2>1, <2>2 DEF PeerKnown, DeleteEnds, Stored, ErasedEnds
  <1>5. CASE List \/ ReconcileFails \/ Stop
    <2>1. UNCHANGED <<flag, old, rec, last, peer>>
      BY <1>5 DEF List, ReconcileFails, Stop, source, records
    <2> QED BY <2>1 DEF PeerKnown, DeleteEnds, Stored, ErasedEnds, Restricted
  <1>6. CASE ReconcilePage
    <2>1. next \in Record /\ UNCHANGED <<flag, old, rec>>
      BY <1>6 DEF ReconcilePage, ReconcileTypeOK
    <2>2. CASE UNCHANGED <<last, peer>>
      BY <2>1, <2>2 DEF PeerKnown, DeleteEnds, Stored, ErasedEnds, Restricted
    <2>3. CASE JournalChange(next, rec[next].rev) /\ IsLive(next) /\ ~Restricted
      <3>1. /\ last'[next] = "change" /\ peer'[next].live /\ peer'[next].rev = rec[next].rev
            /\ \A s \in Record \ {next} : last'[s] = last[s] /\ peer'[s] = peer[s]
        BY <2>1, <2>3, <1>1, ChangeGoesOut
      <3> QED BY <2>1, <2>3, <3>1, <1>1
        DEF PeerKnown, DeleteEnds, Stored, ErasedEnds, Restricted, IsLive
    <2>4. CASE JournalDelete(next, rec[next].rev) /\ rec[next].rev > 0
      <3>1. /\ ~peer'[next].live
            /\ \A s \in Record \ {next} : last'[s] = last[s] /\ peer'[s] = peer[s]
        BY <2>1, <2>4, <1>1, DeleteGoesOut DEF PeerKnown
      <3> QED BY <2>1, <2>4, <3>1 DEF PeerKnown, DeleteEnds, Stored, ErasedEnds, Restricted
    <2> QED BY <1>6, <2>2, <2>3, <2>4 DEF ReconcilePage, Retract, Publish
  <1>7. CASE UNCHANGED reconcileVars
    BY <1>7 DEF PeerKnown, DeleteEnds, Stored, ErasedEnds, Restricted, reconcileVars, source, records
  <1> QED BY <1>2, <1>3, <1>4, <1>5, <1>6, <1>7 DEF ReconcileNext

LEMMA EndsInit == ReconcileInit => EndsInv
  BY DEF ReconcileInit, EndsInv, PeerKnown, DeleteEnds, Stored, ErasedEnds

LEMMA EndsHold == ReconcileSpec => []EndsInv
  BY TypeCorrect, EndsInit, EndsStep, PTL DEF ReconcileSpec

\* The erasure of a record ends every subscriber's copy, also when the source is
\* restricted by then and the record's entries are pruned (federation_was_shared).
THEOREM ErasuresReach == ReconcileSpec => []ErasedEnds
  <1>1. EndsInv => ErasedEnds
    BY DEF EndsInv
  <1> QED BY <1>1, EndsHold, PTL

-----------------------------------------------------------------------------
(* Reconcile: settling.                                                    *)

\* Nothing of a record is out: no subscriber holds it, and its journal does not
\* say one does.
Out(r) == ~peer[r].live /\ last[r] # "change"

\* A record subscribers hold is the one stored, and a change is held.
Follows(r) ==
  /\ peer[r].live => IsLive(r) /\ peer[r].rev = rec[r].rev
  /\ last[r] = "change" => peer[r].live

\* A record that is live is held.
Reached(r) == IsLive(r) => peer[r].live

\* What the flag asks of a record's journal.
Brought(r) == IF Restricted THEN Out(r) ELSE Reached(r)

\* The journal reflects the flag, of a source without a basis too.
UpToDate == ~begun /\ basis \in {flag, Unknown}

SettleInv ==
  /\ basis = Unknown => ~begun /\ pc # "reconciling"
  /\ pc = "reconciling" => toward = flag /\ \A r \in Record : r < next => Brought(r)
  /\ ~Restricted => \A r \in Record : Follows(r)
  /\ UpToDate => \A r \in Record : Brought(r)

\* While polls, erasures and pruning go on, a record brought to the flag stays so,
\* and a public one follows.
LEMMA PollKeeps ==
  ASSUME ReconcileTypeOK, EndsInv, NEW r \in Record, Poll(r) \/ Prune(r)
  PROVE  /\ ~Restricted => \A s \in Record : Follows(s) => Follows(s)'
         /\ \A s \in Record : Brought(s) => Brought(s)'
  <1>1. /\ HeldTyped /\ UNCHANGED flag
        /\ \A s \in Record : rec[s].rev \in 0 .. MaxRev /\ peer[s].rev \in 0 .. MaxRev
      BY DEF ReconcileTypeOK, HeldTyped, Poll, StoreLive, Withdraw, Erase, Prune, source
  <1>2. CASE Prune(r)
    <2>1. /\ UNCHANGED <<rec, peer>>
          /\ \A s \in Record : last'[s] = last[s] \/ last'[s] = "none"
      BY <1>1, <1>2 DEF Prune, HeldTyped
    <2> QED BY <2>1, <1>1 DEF Follows, Brought, Out, Reached, IsLive, Restricted
  <1>3. CASE Poll(r)
    <2> DEFINE rev == rec[r].rev + 1
    <2>1. /\ rev \in 0 .. MaxRev /\ rev > 0
          /\ peer[r].live => peer[r].rev < rev
      BY <1>1, <1>3, BoundAssumption
        DEF Poll, StoreLive, Withdraw, Erase, EndsInv, PeerKnown
    <2>2. /\ rec'[r].rev = rev
          /\ \A s \in Record \ {r} : rec'[s] = rec[s]
      BY <1>3 DEF Poll, StoreLive, Withdraw, Erase, ReconcileTypeOK
    <2>3. CASE UNCHANGED <<last, peer>> /\ Restricted
      BY <2>3, <1>1 DEF Brought, Out, Restricted
    <2>4. CASE JournalChange(r, rev) /\ rec'[r].status = "live" /\ ~Restricted
      <3>1. /\ last'[r] = "change" /\ peer'[r].live /\ peer'[r].rev = rev
            /\ \A s \in Record \ {r} : last'[s] = last[s] /\ peer'[s] = peer[s]
        BY <2>4, <2>1, <1>1, ChangeGoesOut
      <3> QED BY <1>1, <2>1, <2>2, <2>4, <3>1
        DEF Follows, Brought, Reached, IsLive, Restricted
    <2>5. CASE JournalDelete(r, rev) /\ rec'[r].status # "live"
      <3>1. /\ ~peer'[r].live /\ last'[r] = "delete"
            /\ \A s \in Record \ {r} : last'[s] = last[s] /\ peer'[s] = peer[s]
        BY <2>5, <2>1, <1>1, DeleteGoesOut
      <3> QED BY <1>1, <2>1, <2>2, <2>5, <3>1
        DEF Follows, Brought, Out, Reached, IsLive, Restricted
    <2> QED BY <1>3, <2>3, <2>4, <2>5
      DEF Poll, StoreLive, Withdraw, Erase, WasShared, ReconcileTypeOK
  <1> QED BY <1>2, <1>3

\* A page brings its record to the flag the reconcile runs toward, and leaves the
\* others as they are.
LEMMA PageBrings ==
  ASSUME ReconcileTypeOK, EndsInv, ReconcilePage, toward = flag,
         ~Restricted => \A r \in Record : Follows(r)
  PROVE  /\ \A r \in Record : r = next \/ Brought(r) => Brought(r)'
         /\ ~Restricted => \A r \in Record : Follows(r)'
  <1>1. /\ HeldTyped /\ UNCHANGED <<flag, rec>> /\ next \in Record
        /\ \A s \in Record : rec[s].rev \in 0 .. MaxRev /\ peer[s].rev \in 0 .. MaxRev
      BY DEF ReconcileTypeOK, HeldTyped, ReconcilePage
  <1>2. CASE Restricted
    <2>1. Retract(next)
      BY <1>2 DEF ReconcilePage, Restricted
    <2>2. CASE JournalDelete(next, rec[next].rev)
      <3>1. /\ ~peer'[next].live /\ last'[next] = "delete"
            /\ \A s \in Record \ {next} : last'[s] = last[s] /\ peer'[s] = peer[s]
        BY <2>2, <1>1, DeleteGoesOut DEF EndsInv, PeerKnown
      <3> QED BY <1>1, <1>2, <3>1 DEF Brought, Out, Restricted
    <2>3. CASE UNCHANGED <<last, peer>> /\ (rec[next].rev = 0 \/ last[next] = "delete" \/ ~WasShared(next))
      <3>1. Out(next)
        BY <1>1, <1>2, <2>3 DEF Out, EndsInv, PeerKnown, DeleteEnds, Stored, WasShared
      <3> QED BY <1>1, <1>2, <2>3, <3>1 DEF Brought, Out, Restricted
    <2> QED BY <1>1, <1>2, <2>1, <2>2, <2>3 DEF Retract
  <1>3. CASE ~Restricted
    <2>1. Publish(next)
      BY <1>3 DEF ReconcilePage, Restricted, ReconcileTypeOK, Flag
    <2>2. CASE JournalChange(next, rec[next].rev) /\ IsLive(next)
      <3>1. /\ last'[next] = "change" /\ peer'[next].live /\ peer'[next].rev = rec[next].rev
            /\ \A s \in Record \ {next} : last'[s] = last[s] /\ peer'[s] = peer[s]
        BY <2>2, <1>1, ChangeGoesOut
      <3> QED BY <1>1, <1>3, <2>2, <3>1 DEF Brought, Reached, Follows, IsLive, Restricted
    <2>3. CASE UNCHANGED <<last, peer>> /\ (~IsLive(next) \/ last[next] = "change")
      BY <1>1, <1>3, <2>3 DEF Brought, Reached, Follows, IsLive, Restricted
    <2> QED BY <1>3, <2>1, <2>2, <2>3 DEF Publish
  <1> QED BY <1>2, <1>3

\* The catalogue may flip a source only when it is settled or being published.
Orderly == MayFlip \subseteq {"settled", "publishing"}

LEMMA SettleStep ==
  ASSUME Orderly, ReconcileTypeOK, EndsInv, SettleInv, [ReconcileNext]_reconcileVars
  PROVE  SettleInv'
  <1>1. ASSUME NEW r \in Record, Poll(r) \/ Prune(r) PROVE SettleInv'
    <2>1. UNCHANGED <<source, process>>
      BY <1>1 DEF Poll, StoreLive, Withdraw, Erase, Prune
    <2> QED BY <1>1, <2>1, PollKeeps DEF SettleInv, UpToDate, Restricted, source, process
  <1>2. ASSUME NEW catalogue \in Flag, Boot(catalogue) PROVE SettleInv'
    <2>1. /\ UNCHANGED <<basis, begun, rec, last, peer>>
          /\ flag' = catalogue /\ pc = "down" /\ pc' = "booted"
      BY <1>2 DEF Boot, records
    <2>2. CASE catalogue = flag
      BY <2>1, <2>2
        DEF SettleInv, UpToDate, Brought, Follows, Out, Reached, IsLive, Restricted
    <2>3. CASE catalogue # flag
      <3>1. Progress \in {"settled", "publishing"}
        BY <1>2, <2>3 DEF Boot, Orderly
      <3>2. Settled \/ (begun /\ ~Restricted)
        BY <3>1 DEF Progress, Settled
      <3>3. basis # Unknown
        BY <3>2 DEF SettleInv, Settled, Unknown, ReconcileTypeOK, Flag
      <3>4. ~UpToDate'
        BY <2>1, <2>3, <3>2, <3>3 DEF UpToDate, Settled, Flag, Restricted, ReconcileTypeOK
      <3>5. ~Restricted' => \A r \in Record : Follows(r)'
        <4>1. ASSUME ~Restricted' PROVE Restricted /\ UpToDate
          BY <4>1, <2>1, <2>3, <3>2 DEF Restricted, UpToDate, Settled, Flag, ReconcileTypeOK
        <4> QED BY <4>1, <2>1 DEF SettleInv, Brought, Out, Follows
      <3> QED BY <2>1, <3>3, <3>4, <3>5 DEF SettleInv
    <2> QED BY <2>2, <2>3
  <1>3. CASE List
    <2>1. UNCHANGED <<flag, begun, rec, last, peer>> /\ next' = 1 /\ toward' = flag
      BY <1>3 DEF List, records
    <2>2. \A r \in Record : ~(r < next')
      BY <2>1 DEF Record
    <2>3. UpToDate' => UpToDate
      BY <1>3 DEF List, UpToDate, Unknown, ReconcileTypeOK, Flag
    <2>4. basis' = Unknown => ~begun' /\ pc' # "reconciling"
      BY <1>3 DEF List, SettleInv, Unknown, ReconcileTypeOK, Flag
    <2> QED BY <2>1, <2>2, <2>3, <2>4
      DEF SettleInv, Brought, Follows, Out, Reached, IsLive, Restricted
  <1>4. CASE ReconcilePage
    <2>1. /\ pc = "reconciling" /\ toward = flag /\ basis # Unknown /\ next \in Record
          /\ UNCHANGED <<flag, toward>>
      BY <1>4 DEF ReconcilePage, SettleInv, ReconcileTypeOK
    <2>2. /\ \A r \in Record : r = next \/ Brought(r) => Brought(r)'
          /\ ~Restricted => \A r \in Record : Follows(r)'
      BY <1>4, <2>1, PageBrings DEF SettleInv
    <2>3. \A r \in Record : r <= next => Brought(r)'
      BY <2>1, <2>2 DEF SettleInv, Record
    <2>4. CASE IsLastPage
      <3>1. begun' = FALSE /\ basis' = flag /\ pc' = "serving"
        BY <1>4, <2>1, <2>4 DEF ReconcilePage
      <3>2. \A r \in Record : Brought(r)'
        BY <2>3, <2>4 DEF IsLastPage, Record
      <3> QED BY <2>1, <2>2, <3>1, <3>2 DEF SettleInv, Restricted
    <2>5. CASE ~IsLastPage
      <3>1. begun' = TRUE /\ basis' = basis /\ pc' = pc /\ next' = next + 1
        BY <1>4, <2>5 DEF ReconcilePage
      <3>2. \A r \in Record : r < next' => Brought(r)'
        BY <2>1, <2>3, <3>1 DEF Record
      <3> QED BY <2>1, <2>2, <3>1, <3>2 DEF SettleInv, UpToDate, Restricted
    <2> QED BY <2>4, <2>5
  <1>5. CASE ReconcileFails \/ Stop
    BY <1>5 DEF ReconcileFails, Stop, source, records, SettleInv, UpToDate, Brought,
                Follows, Out, Reached, IsLive, Restricted
  <1>6. CASE UNCHANGED reconcileVars
    BY <1>6 DEF reconcileVars, source, records, process, SettleInv, UpToDate, Brought,
                Follows, Out, Reached, IsLive, Restricted
  <1> QED BY <1>1, <1>2, <1>3, <1>4, <1>5, <1>6 DEF ReconcileNext

LEMMA SettleInit == ReconcileInit => SettleInv
  BY RecordAssumption
    DEF ReconcileInit, SettleInv, UpToDate, Brought, Follows, Out, Reached, IsLive

\* A settled source's subscribers hold exactly what its flag lets them hold, however
\* often its reconcile stopped and whatever polls did meanwhile, as long as the
\* catalogue flips it only when it is settled or being published
\* (reconcileFederation).
THEOREM SettlesInSync == Orderly /\ ReconcileSpec => []SettledInSync
  <1>1. Orderly /\ ReconcileTypeOK /\ EndsInv /\ SettleInv /\ [ReconcileNext]_reconcileVars
          => SettleInv'
    BY SettleStep
  <1>2. SettleInv => SettledInSync
    BY DEF SettleInv, UpToDate, SettledInSync, Settled, InSync, Brought, Out, Reached, Follows
  <1>3. ASSUME Orderly PROVE ReconcileSpec => []SettledInSync
    <2>1. ReconcileTypeOK /\ EndsInv /\ SettleInv /\ [ReconcileNext]_reconcileVars => SettleInv'
      BY <1>1, <1>3
    <2> QED BY <2>1, <1>2, SettleInit, TypeCorrect, EndsHold, PTL DEF ReconcileSpec
  <1> QED BY <1>3

-----------------------------------------------------------------------------
(* Evidence: where merges lead.                                            *)

\* What a report and the members of a set were merged into is in the set.
Closed(C, r) == \A c \in C \cup {r} : into[c] \in C \cup {0}

IntoTyped == into \in [Reports -> 0 .. NumReports]

LEMMA Closing ==
  ASSUME NEW r, NEW h
  PROVE  LeadsTo(r, h) <=> \A C \in SUBSET (Reports \ {h}) : ~Closed(C, r)
BY DEF LeadsTo, Closed

LEMMA NumbersOfReports ==
  ASSUME IntoTyped, NEW r \in Reports
  PROVE  r \in Nat /\ r # 0 /\ into[r] \in Nat /\ (into[r] # 0 => into[r] \in Reports)
BY KeyAssumption DEF Reports, IntoTyped

\* A report not merged leads nowhere.
LEMMA RestLeadsNowhere ==
  ASSUME IntoTyped, NEW r \in Reports, into[r] = 0, NEW h \in Reports
  PROVE  ~LeadsTo(r, h)
<1>1. {} \in SUBSET (Reports \ {h}) /\ Closed({}, r)
  BY DEF Closed
<1>2. QED
  BY <1>1, Closing

\* A merged report leads to what it was merged into, and where that leads.
LEMMA LeadsOn ==
  ASSUME IntoTyped, NEW r \in Reports, into[r] # 0, NEW h \in Reports
  PROVE  LeadsTo(r, h) <=> h = into[r] \/ LeadsTo(into[r], h)
<1>0. into[r] \in Reports /\ h # 0
  BY NumbersOfReports
<1>1. ASSUME h = into[r], NEW C \in SUBSET (Reports \ {h}) PROVE ~Closed(C, r)
  BY <1>0, <1>1 DEF Closed
<1>2. ASSUME LeadsTo(into[r], h), NEW C \in SUBSET (Reports \ {h}) PROVE ~Closed(C, r)
  <2>1. CASE into[r] \in C
    <3>1. ~Closed(C, into[r])
      BY <1>2, Closing
    <3>2. QED
      BY <2>1, <3>1 DEF Closed
  <2>2. CASE into[r] \notin C
    BY <1>0, <2>2 DEF Closed
  <2>3. QED
    BY <2>1, <2>2
<1>3. ASSUME LeadsTo(r, h), h # into[r], NEW C \in SUBSET (Reports \ {h}) PROVE ~Closed(C, into[r])
  <2> DEFINE D == C \cup {into[r]}
  <2>1. D \in SUBSET (Reports \ {h})
    BY <1>0, <1>3
  <2>2. ~Closed(D, r)
    BY <1>3, <2>1, Closing
  <2>3. QED
    BY <2>2 DEF Closed
<1>4. QED
  BY <1>1, <1>2, <1>3, Closing

LEMMA LeadsFurther ==
  ASSUME NEW a, NEW b, NEW c, LeadsTo(a, b), LeadsTo(b, c)
  PROVE  LeadsTo(a, c)
<1> SUFFICES ASSUME NEW C \in SUBSET (Reports \ {c}), Closed(C, a) PROVE FALSE
  BY Closing
<1>1. CASE b \in C
  <2>1. Closed(C, b)
    BY <1>1 DEF Closed
  <2>2. QED
    BY <2>1, Closing
<1>2. CASE b \notin C
  <2>1. C \in SUBSET (Reports \ {b})
    BY <1>2
  <2>2. QED
    BY <2>1, Closing
<1>3. QED
  BY <1>1, <1>2

\* Merges lead to earlier reports when each does.
Earlier == \A r \in Reports : into[r] # 0 => into[r] < r

LEMMA LeadsEarlier ==
  ASSUME IntoTyped, Earlier, NEW r \in Reports, NEW h \in Reports, LeadsTo(r, h)
  PROVE  h < r
<1> SUFFICES ASSUME ~(h < r) PROVE FALSE
  OBVIOUS
<1> DEFINE C == {x \in Reports : x < r}
<1>1. C \in SUBSET (Reports \ {h})
  OBVIOUS
<1>2. ASSUME NEW c \in C \cup {r} PROVE into[c] \in C \cup {0}
  <2>1. c \in Reports /\ c \in Nat /\ r \in Nat /\ (c < r \/ c = r)
    BY NumbersOfReports
  <2>2. CASE into[c] # 0
    <3>1. into[c] < c /\ into[c] \in Nat /\ into[c] \in Reports
      BY <2>1, <2>2, NumbersOfReports DEF Earlier
    <3>2. QED
      BY <2>1, <3>1
  <2>3. QED
    BY <2>2
<1>3. Closed(C, r)
  BY <1>2 DEF Closed
<1>4. QED
  BY <1>1, <1>3, Closing

\* All a report leads through leads to the one its chain ends at.
LEMMA LeadsToEnd ==
  ASSUME IntoTyped, NEW r \in Reports, NEW a \in Reports, NEW b \in Reports,
         LeadsTo(r, a), into[a] = 0, LeadsTo(r, b)
  PROVE  b = a \/ LeadsTo(b, a)
<1> SUFFICES ASSUME b # a, ~LeadsTo(b, a) PROVE FALSE
  OBVIOUS
<1> DEFINE C == {x \in Reports : x = a \/ LeadsTo(x, a)}
<1>1. C \in SUBSET (Reports \ {b})
  OBVIOUS
<1>2. ASSUME NEW c \in C \cup {r} PROVE into[c] \in C \cup {0}
  <2>1. c \in Reports /\ (c = a \/ LeadsTo(c, a))
    OBVIOUS
  <2>2. CASE into[c] # 0
    <3>1. LeadsTo(c, a) /\ into[c] \in Reports
      BY <2>1, <2>2, NumbersOfReports
    <3>2. a = into[c] \/ LeadsTo(into[c], a)
      BY <2>1, <2>2, <3>1, LeadsOn
    <3>3. QED
      BY <3>1, <3>2
  <2>3. QED
    BY <2>2
<1>3. Closed(C, r)
  BY <1>2 DEF Closed
<1>4. QED
  BY <1>1, <1>3, Closing

\* A merge of two reports not merged before leads what led to the one to the other.
LEMMA MergeLeads ==
  ASSUME IntoTyped, NEW m \in Reports, NEW s \in Reports, m # s, into[m] = 0, into[s] = 0,
         into' = [into EXCEPT ![m] = s],
         NEW r \in Reports, NEW h \in Reports
  PROVE  LeadsTo(r, h)' <=> LeadsTo(r, h) \/ (h = s /\ (r = m \/ LeadsTo(r, m)))
<1> DEFINE Shut(C) == \A c \in C \cup {r} : into'[c] \in C \cup {0}
<1>0. /\ s \in Nat /\ s # 0 /\ into'[m] = s /\ into'[s] = 0
      /\ \A c \in Reports \ {m} : into'[c] = into[c]
  BY NumbersOfReports DEF IntoTyped
<1>1. LeadsTo(r, h)' <=> \A C \in SUBSET (Reports \ {h}) : ~Shut(C)
  BY DEF LeadsTo
<1>2. ASSUME LeadsTo(r, h), NEW C \in SUBSET (Reports \ {h}), Shut(C) PROVE FALSE
  <2>1. Closed(C, r)
    BY <1>0, <1>2 DEF Closed
  <2>2. QED
    BY <1>2, <2>1, Closing
<1>3. ASSUME r = m \/ LeadsTo(r, m), NEW C \in SUBSET (Reports \ {s}), Shut(C) PROVE FALSE
  <2>1. m \notin C \cup {r}
    BY <1>0, <1>3
  <2>2. C \in SUBSET (Reports \ {m}) /\ Closed(C, r) /\ LeadsTo(r, m)
    BY <1>0, <1>3, <2>1 DEF Closed
  <2>3. QED
    BY <2>2, Closing
<1>4. ASSUME ~LeadsTo(r, h), ~(h = s /\ (r = m \/ LeadsTo(r, m)))
      PROVE  \E C \in SUBSET (Reports \ {h}) : Shut(C)
  <2>1. PICK D \in SUBSET (Reports \ {h}) : Closed(D, r)
    BY <1>4, Closing
  <2>2. CASE h # s
    <3>1. D \cup {s} \in SUBSET (Reports \ {h}) /\ Shut(D \cup {s})
      BY <1>0, <2>1, <2>2 DEF Closed
    <3>2. QED
      BY <3>1
  <2>3. CASE r # m /\ ~LeadsTo(r, m)
    <3>1. PICK G \in SUBSET (Reports \ {m}) : Closed(G, r)
      BY <2>3, Closing
    <3>2. D \cap G \in SUBSET (Reports \ {h}) /\ Shut(D \cap G)
      BY <1>0, <2>1, <2>3, <3>1 DEF Closed
    <3>3. QED
      BY <3>2
  <2>4. QED
    BY <1>4, <2>2, <2>3
<1>5. QED
  BY <1>1, <1>2, <1>3, <1>4

-----------------------------------------------------------------------------
(* Evidence: the walk to a survivor.                                       *)

\* The induction over the natural numbers the walk needs: a set of them that is not
\* empty has a least member.
Below == {p \in Nat \X Nat : p[1] < p[2]}

LEMMA LeastMember ==
  ASSUME NEW T \in SUBSET Nat, T # {}
  PROVE  \E x \in T : \A y \in T : x <= y
<1>1. OpToRel(<, Nat) = Below
  BY Zenon DEF OpToRel, Below
<1>2. IsWellFoundedOn(Below, Nat)
  BY <1>1, NatLessThanWellFounded, Zenon
<1>3. PICK x \in T : \A y \in T : <<y, x>> \notin Below
  BY <1>2, WFMin
<1>4. ASSUME NEW y \in T PROVE x <= y
  <2>1. x \in Nat /\ y \in Nat /\ <<y, x>> \in Nat \X Nat /\ <<y, x>>[1] = y /\ <<y, x>>[2] = x
    BY Zenon
  <2>2. ~(y < x)
    BY <1>3, <2>1 DEF Below
  <2>3. QED
    BY <2>1, <2>2
<1>5. QED
  BY <1>4

\* The parent a walk takes: a live one if there is one, and else the earliest.
LEMMA ParentIs ==
  ASSUME NEW r \in Reports, Parents(r) # {}
  PROVE  /\ ParentOf(r) \in Parents(r) /\ ParentOf(r) \in Reports
         /\ (\E p \in Parents(r) : Live(p)) => Live(ParentOf(r))
         /\ (\A p \in Parents(r) : ~Live(p)) => \A p \in Parents(r) : ParentOf(r) <= p
<1> DEFINE best == IF \E p \in Parents(r) : Live(p) THEN {p \in Parents(r) : Live(p)}
                                                    ELSE Parents(r)
<1>1. Parents(r) \subseteq Reports
  BY DEF Parents
<1>2. best \subseteq Parents(r) /\ best # {}
  OBVIOUS
<1>3. best \in SUBSET Nat
  BY <1>1, <1>2, KeyAssumption DEF Reports
<1>4. \E p \in best : \A q \in best : p <= q
  BY <1>2, <1>3, LeastMember
<1>5. ParentOf(r) = CHOOSE p \in best : \A q \in best : p <= q
  BY DEF ParentOf
<1> HIDE DEF best
<1>6. ParentOf(r) \in best /\ \A q \in best : ParentOf(r) <= q
  BY <1>4, <1>5
<1>7. QED
  BY <1>1, <1>2, <1>6 DEF best

\* One hop of the walks.
Hop(g) == [r \in Reports |->
             IF Live(r) THEN r
             ELSE IF status[r] = "superseded" /\ Parents(r) # {} THEN g[ParentOf(r)] ELSE 0]

Places == [Reports -> 0 .. NumReports]

LEMMA HopTyped ==
  ASSUME NEW g \in Places
  PROVE  Hop(g) \in Places
<1>1. \A r \in Reports : r \in 0 .. NumReports /\ 0 \in 0 .. NumReports
  BY KeyAssumption DEF Reports
<1>2. \A r \in Reports : Parents(r) # {} => g[ParentOf(r)] \in 0 .. NumReports
  BY ParentIs DEF Places
<1>3. QED
  BY <1>1, <1>2 DEF Hop, Places

Nowhere == [r \in Reports |-> 0]

\* The walks of so many hops.
WalksOf(n, f) ==
  /\ f \in [0 .. n -> Places]
  /\ f[0] = Nowhere
  /\ \A h \in 1 .. n : f[h] = Hop(f[h - 1])

LEMMA WalksExist ==
  ASSUME NEW n \in Nat
  PROVE  \E f : WalksOf(n, f)
<1> DEFINE Fails == {m \in Nat : ~\E f : WalksOf(m, f)}
<1> SUFFICES ASSUME Fails # {} PROVE FALSE
  OBVIOUS
<1>1. Nowhere \in Places
  BY KeyAssumption DEF Nowhere, Places
<1>2. Fails \in SUBSET Nat
  OBVIOUS
<1> HIDE DEF Fails
<1>3. PICK m \in Fails : \A k \in Fails : m <= k
  BY <1>2, LeastMember
<1>4. m \in Nat /\ ~\E f : WalksOf(m, f)
  BY <1>3 DEF Fails
<1>5. CASE m = 0
  <2> DEFINE f == [h \in 0 .. 0 |-> Nowhere]
  <2>1. WalksOf(0, f)
    BY <1>1 DEF WalksOf
  <2>2. QED
    BY <1>4, <1>5, <2>1
<1>6. CASE m # 0
  <2>1. m - 1 \in Nat /\ m - 1 \notin Fails
    BY <1>3, <1>4, <1>6
  <2>2. PICK g : WalksOf(m - 1, g)
    BY <2>1 DEF Fails
  <2> DEFINE f == [h \in 0 .. m |-> IF h = m THEN Hop(g[m - 1]) ELSE g[h]]
  <2>3. g \in [0 .. (m - 1) -> Places] /\ g[0] = Nowhere /\ \A h \in 1 .. (m - 1) : g[h] = Hop(g[h - 1])
    BY <2>2 DEF WalksOf
  <2>4. Hop(g[m - 1]) \in Places
    BY <2>1, <2>3, HopTyped
  <2>5. \A h \in 0 .. m : h # m => h \in 0 .. (m - 1)
    BY <1>4
  <2>6. f \in [0 .. m -> Places]
    BY <2>3, <2>4, <2>5
  <2>7. f[m] = Hop(g[m - 1]) /\ \A h \in 0 .. (m - 1) : f[h] = g[h]
    BY <1>4, <1>6
  <2> HIDE DEF f
  <2>8. ASSUME NEW h \in 1 .. m PROVE f[h] = Hop(f[h - 1])
    <3>1. h - 1 \in 0 .. (m - 1)
      BY <1>4
    <3>2. CASE h = m
      BY <2>7, <3>1, <3>2
    <3>3. CASE h # m
      <4>1. h \in 1 .. (m - 1) /\ h \in 0 .. (m - 1)
        BY <1>4, <3>3
      <4>2. QED
        BY <2>3, <2>7, <3>1, <4>1
    <3>4. QED
      BY <3>2, <3>3
  <2>9. f[0] = Nowhere
    <3>1. 0 \in 0 .. (m - 1)
      BY <1>4, <1>6
    <3>2. QED
      BY <2>3, <2>7, <3>1
  <2>10. WalksOf(m, f)
    BY <2>6, <2>8, <2>9 DEF WalksOf
  <2>11. QED
    BY <1>4, <2>10
<1>7. QED
  BY <1>5, <1>6

\* A walk stands at a live report, or goes on from the parent of a merged one.
LEMMA WalkIs ==
  ASSUME NEW h \in 1 .. MaxHops
  PROVE  Walk[h] = Hop(Walk[h - 1])
<1> DEFINE Body(g) ==
      [hops \in 0 .. MaxHops |->
        [r \in Reports |->
           IF hops > 0 /\ Live(r) THEN r
           ELSE IF hops > 0 /\ status[r] = "superseded" /\ Parents(r) # {}
             THEN g[hops - 1][ParentOf(r)] ELSE 0]]
<1>0. MaxHops \in Nat
  BY HopsAssumption
<1>1. PICK f : WalksOf(MaxHops, f)
  BY <1>0, WalksExist
<1>2. ASSUME NEW hops \in 0 .. MaxHops PROVE f[hops] = Body(f)[hops]
  <2>1. CASE hops = 0
    BY <1>0, <1>1, <2>1 DEF WalksOf, Nowhere
  <2>2. CASE hops # 0
    <3>1. hops \in 1 .. MaxHops /\ hops > 0
      BY <1>0, <2>2
    <3>2. f[hops] = Hop(f[hops - 1])
      BY <1>1, <3>1 DEF WalksOf
    <3>3. Hop(f[hops - 1]) = Body(f)[hops]
      BY <2>2, <3>1 DEF Hop
    <3>4. QED
      BY <3>2, <3>3
  <2>3. QED
    BY <2>1, <2>2
<1>3. f \in [0 .. MaxHops -> Places]
  BY <1>1 DEF WalksOf
<1>4. f = Body(f)
  BY <1>2, <1>3
<1>5. Walk = CHOOSE g : g = Body(g)
  BY DEF Walk
<1>6. Walk = Body(Walk)
  BY <1>4, <1>5
<1>7. h \in 0 .. MaxHops /\ h > 0 /\ h # 0
  BY <1>0
<1>8. Body(Walk)[h] = Hop(Walk[h - 1])
  BY <1>7 DEF Hop
<1>9. QED
  BY <1>6, <1>8

\* A merge leaves its two reports' ids where the walk looks for them: the ledgers that
\* name a report are those of the reports it led to.
Carried ==
  \A p, m \in Reports :
    (\E row \in confirms[p] : row.by = "report" /\ row.of = m) <=> LeadsTo(m, p)

Gone == \A r \in Reports : into[r] # 0 <=> status[r] = "superseded"

Merges == IntoTyped /\ Gone /\ Earlier /\ Carried

\* The parents of a merged report: what it led to, as far as that is live or merged.
LEMMA ParentsLed ==
  ASSUME Merges, NEW r \in Reports
  PROVE  Parents(r) = {p \in Path(r) : status[p] \in {"live", "superseded"}}
<1>1. \A p \in Reports : LeadsTo(r, p) => p # r
  <2>1. r \in Nat
    BY NumbersOfReports DEF Merges
  <2>2. QED
    BY <2>1, LeadsEarlier DEF Merges
<1>2. \A p \in Reports : (\E row \in confirms[p] : row.by = "report" /\ row.of = r) <=> LeadsTo(r, p)
  BY DEF Merges, Carried
<1>3. QED
  BY <1>1, <1>2 DEF Parents, Path

\* Where the walk from each report ends, with two hops or more.
LEMMA SurvivorIs ==
  ASSUME Merges, NEW r \in Reports
  PROVE  /\ Live(r) => Survivor(r) = r
         /\ ~Live(r) /\ status[r] # "superseded" => Survivor(r) = 0
         /\ status[r] = "superseded" =>
              IF \E h \in Path(r) : Live(h)
                THEN /\ Survivor(r) \in Path(r) /\ Live(Survivor(r))
                     /\ \A h \in Path(r) : Live(h) => h = Survivor(r)
                ELSE Survivor(r) = 0
<1>0. /\ MaxHops \in 1 .. MaxHops /\ MaxHops - 1 \in 1 .. MaxHops
      /\ IntoTyped /\ Gone /\ Earlier
  BY HopsAssumption DEF Merges
<1> DEFINE W1 == Walk[MaxHops - 1]
           W2 == Walk[(MaxHops - 1) - 1]
<1>1. Survivor(r) = Hop(W1)[r] /\ W1 = Hop(W2)
  BY <1>0, WalkIs DEF Survivor
<1> HIDE DEF W1, W2
<1>2. ASSUME Live(r) PROVE Survivor(r) = r
  BY <1>1, <1>2 DEF Hop, Live
<1>3. ASSUME ~Live(r), status[r] # "superseded" PROVE Survivor(r) = 0
  BY <1>1, <1>3 DEF Hop
<1>4. ASSUME status[r] = "superseded", NEW h \in Path(r), Live(h)
      PROVE  /\ Survivor(r) \in Path(r) /\ Live(Survivor(r))
             /\ \A b \in Path(r) : Live(b) => b = Survivor(r)
  <2>1. h \in Parents(r)
    BY <1>4, ParentsLed DEF Live
  <2>2. ParentOf(r) \in Parents(r) /\ ParentOf(r) \in Reports /\ Live(ParentOf(r))
    BY <1>4, <2>1, ParentIs
  <2>3. W1[ParentOf(r)] = ParentOf(r)
    BY <1>1, <2>2 DEF Hop, Live
  <2>4. ~Live(r)
    BY <1>4 DEF Live
  <2>5. Survivor(r) = ParentOf(r)
    BY <1>1, <1>4, <2>1, <2>3, <2>4 DEF Hop
  <2>6. ParentOf(r) \in Path(r)
    BY <2>2, ParentsLed
  <2>7. ASSUME NEW b \in Path(r), Live(b) PROVE b = ParentOf(r)
    <3>1. /\ b \in Reports /\ LeadsTo(r, b) /\ LeadsTo(r, ParentOf(r))
          /\ into[b] = 0 /\ into[ParentOf(r)] = 0
      BY <1>0, <2>2, <2>6, <2>7 DEF Path, Gone, Live
    <3>2. ParentOf(r) = b \/ LeadsTo(ParentOf(r), b)
      BY <1>0, <2>2, <3>1, LeadsToEnd
    <3>3. ~LeadsTo(ParentOf(r), b)
      BY <1>0, <2>2, <3>1, RestLeadsNowhere
    <3>4. QED
      BY <3>2, <3>3
  <2>8. QED
    BY <2>2, <2>5, <2>6, <2>7
<1>5. ASSUME status[r] = "superseded", \A h \in Path(r) : ~Live(h) PROVE Survivor(r) = 0
  <2>0. ~Live(r)
    BY <1>5 DEF Live
  <2>1. CASE Parents(r) = {}
    BY <1>1, <1>5, <2>0, <2>1 DEF Hop
  <2>2. CASE Parents(r) # {}
    <3> DEFINE a == ParentOf(r)
    <3>1. Parents(r) \subseteq Path(r) /\ \A p \in Parents(r) : ~Live(p)
      BY <1>5, ParentsLed
    <3>2. a \in Parents(r) /\ a \in Reports /\ \A p \in Parents(r) : a <= p
      BY <2>2, <3>1, ParentIs
    <3> HIDE DEF a
    <3>3. ~Live(a) /\ LeadsTo(r, a)
      BY <3>1, <3>2 DEF Path
    <3>4. Parents(a) = {}
      <4> SUFFICES ASSUME NEW p \in Parents(a) PROVE FALSE
        OBVIOUS
      <4>1. p \in Reports /\ LeadsTo(a, p) /\ status[p] \in {"live", "superseded"}
        BY <3>2, ParentsLed DEF Path
      <4>2. LeadsTo(r, p)
        BY <3>3, <4>1, LeadsFurther
      <4>3. p \in Parents(r)
        BY <4>1, <4>2, ParentsLed DEF Path
      <4>4. p < a /\ p \in Nat /\ a \in Nat
        BY <1>0, <3>2, <4>1, LeadsEarlier, NumbersOfReports
      <4>5. QED
        BY <3>2, <4>3, <4>4
    <3>5. W1[a] = 0
      BY <1>1, <3>2, <3>3, <3>4 DEF Hop
    <3>6. Survivor(r) = W1[a]
      BY <1>1, <1>5, <2>0, <2>2 DEF Hop, a
    <3>7. QED
      BY <3>5, <3>6
  <2>3. QED
    BY <2>1, <2>2
<1>6. QED
  BY <1>2, <1>3, <1>4, <1>5

LEMMA SurvivorRange ==
  ASSUME Merges, NEW r \in Reports
  PROVE  Survivor(r) \in Reports \cup {0}
<1>1. CASE Live(r)
  BY <1>1, SurvivorIs
<1>2. CASE ~Live(r) /\ status[r] # "superseded"
  BY <1>2, SurvivorIs
<1>3. CASE status[r] = "superseded"
  BY <1>3, SurvivorIs DEF Path
<1>4. QED
  BY <1>1, <1>2, <1>3

LEMMA HeadIs == Merges => HeadFound
<1> SUFFICES ASSUME Merges, NEW r \in Reports, status[r] = "superseded"
             PROVE  Survivor(r) = IF \E h \in Path(r) : Live(h) THEN CHOOSE h \in Path(r) : Live(h) ELSE 0
  BY DEF HeadFound
<1>1. CASE \E h \in Path(r) : Live(h)
  <2>1. \A h \in Path(r) : Live(h) => h = Survivor(r)
    BY <1>1, SurvivorIs
  <2> DEFINE c == CHOOSE h \in Path(r) : Live(h)
  <2>2. c \in Path(r) /\ Live(c)
    BY <1>1
  <2>3. QED
    BY <1>1, <2>1, <2>2
<1>2. CASE ~\E h \in Path(r) : Live(h)
  BY <1>2, SurvivorIs
<1>3. QED
  BY <1>1, <1>2

-----------------------------------------------------------------------------
(* Evidence: the inductive invariant.                                      *)

\* A hook has something left to merge only while it merges, and never its own report;
\* it is met only at its end.
HooksEnd ==
  \A r \in Reports :
    /\ status[r] = "none" => hook[r] = "none"
    /\ met[r] => hook[r] = "done"
    /\ hook[r] # "merging" => targets[r] = {}
    /\ r \notin targets[r]

\* A report that still stands as it landed, and one whose hook has looked what it may
\* be merged with.
Standing(r) == status[r] = "live" /\ dispute[r] = "never"
Looked(r) == met[r] \/ hook[r] = "merging"

\* Of two reports that stand, the later look saw the other: their merge is ahead.
MeetSoon ==
  \A r, s \in Reports :
    /\ r # s /\ KeyOf[r] # KeyOf[s]
    /\ Standing(r) /\ Standing(s) /\ Looked(r) /\ Looked(s)
    => s \in targets[r] \/ r \in targets[s]

EvidenceInv ==
  /\ EvidenceTypeOK /\ Earlier /\ Carried /\ WitnessesExact
  /\ HooksEnd /\ MeetSoon

LEMMA MergesHold == EvidenceInv => Merges
BY DEF EvidenceInv, EvidenceTypeOK, Merges, IntoTyped, Gone

\* Whom the reports and votes of a report and of those that led to it came from.
Told(r, k) ==
  \/ \E m \in Reports : KeyOf[m] = k /\ LeadsTo(m, r)
  \/ k \in Keys /\ \E m \in Reports : Cast(k, m, "confirm") \in votes /\ (m = r \/ LeadsTo(m, r))

\* The key of a row of its ledger.
Named(r, k) == \E row \in confirms[r] : row.key = k

Exact(r) == \A k : k # KeyOf[r] => (Named(r, k) <=> Told(r, k))

AllExact == \A r \in Reports : Exact(r)

LEMMA ExactIs == WitnessesExact <=> AllExact
<1>1. ASSUME NEW r \in Reports
      PROVE  /\ \A k : k \in Confirmers(r) <=> Named(r, k) /\ k # KeyOf[r]
             /\ \A k : k \in ({KeyOf[m] : m \in Cluster(r)}
                              \cup {j \in Keys : \E m \in Reports :
                                      Cast(j, m, "confirm") \in votes /\ (m = r \/ LeadsTo(m, r))})
                             \ {KeyOf[r]} <=> Told(r, k) /\ k # KeyOf[r]
  <2>1. \A k : k \in Confirmers(r) <=> Named(r, k) /\ k # KeyOf[r]
    BY DEF Confirmers, Named
  <2>2. \A k : k \in {KeyOf[m] : m \in Cluster(r)} <=> \E m \in Reports : KeyOf[m] = k /\ LeadsTo(m, r)
    BY DEF Cluster
  <2>3. QED
    BY <2>1, <2>2 DEF Told
<1>2. \A r \in Reports :
        (Confirmers(r) = ({KeyOf[m] : m \in Cluster(r)}
                          \cup {j \in Keys : \E m \in Reports :
                                  Cast(j, m, "confirm") \in votes /\ (m = r \/ LeadsTo(m, r))})
                         \ {KeyOf[r]}) <=> Exact(r)
  BY <1>1, Zenon DEF Exact
<1>3. QED
  BY <1>2, Zenon DEF WitnessesExact, AllExact

LEMMA EvidenceStarts == EvidenceInit => EvidenceInv
<1> SUFFICES ASSUME EvidenceInit PROVE EvidenceInv
  OBVIOUS
<1>0. NumReports \in Nat /\ 0 \in 0 .. NumReports /\ 0 \in 0 .. MaxEvents
  BY KeyAssumption, EventsAssumption
<1>1. EvidenceTypeOK
  <2>1. [r \in Reports |-> FALSE] \in [Reports -> BOOLEAN]
    OBVIOUS
  <2>2. met \in [Reports -> BOOLEAN]
    BY <2>1 DEF EvidenceInit
  <2>3. QED
    BY <1>0, <2>2 DEF EvidenceInit, EvidenceTypeOK
<1>2. Earlier
  BY DEF Earlier, EvidenceInit
<1>3. \A m, p \in Reports : ~LeadsTo(m, p)
  <2>1. IntoTyped /\ \A r \in Reports : into[r] = 0
    BY <1>0 DEF EvidenceInit, IntoTyped
  <2>2. QED
    BY <2>1, RestLeadsNowhere
<1>4. Carried
  BY <1>3 DEF EvidenceInit, Carried
<1>5. WitnessesExact
  <2>1. \A r \in Reports : Exact(r)
    BY <1>3 DEF EvidenceInit, Exact, Named, Told
  <2>2. QED
    BY <2>1, ExactIs DEF AllExact
<1>6. HooksEnd
  BY DEF EvidenceInit, HooksEnd
<1>7. MeetSoon
  BY DEF EvidenceInit, MeetSoon, Standing
<1>8. QED
  BY <1>1, <1>2, <1>4, <1>5, <1>6, <1>7 DEF EvidenceInv

-----------------------------------------------------------------------------
(* Evidence: merges.                                                       *)

\* A merge carries the ids and the witnesses of the report that goes.
LEMMA MergeKeeps ==
  ASSUME EvidenceInv, NEW p \in Reports, NEW m \in Reports, p < m, Live(p), Live(m), Merge(p, m),
         votes' = votes
  PROVE  Earlier' /\ Carried' /\ WitnessesExact'
<1>0. /\ IntoTyped /\ Gone /\ Earlier /\ Carried /\ p # m /\ into[p] = 0 /\ into[m] = 0
      /\ confirms \in [Reports -> SUBSET ConfirmRow]
  BY MergesHold, NumbersOfReports DEF Merges, Gone, Live, EvidenceInv, EvidenceTypeOK
<1>1. into' = [into EXCEPT ![m] = p]
  BY DEF Merge
<1> DEFINE new == WitnessRow(p, m)
<1>2. /\ confirms'[p] = confirms[p] \cup {new} \cup confirms[m]
      /\ \A q \in Reports \ {p} : confirms'[q] = confirms[q]
      /\ new.key = KeyOf[m] /\ new.by = "report" /\ new.of = m
  BY <1>0 DEF Merge, WitnessRow
<1> HIDE DEF new
<1>3. \A r, h \in Reports :
        LeadsTo(r, h)' <=> LeadsTo(r, h) \/ (h = p /\ (r = m \/ LeadsTo(r, m)))
  BY <1>0, <1>1, MergeLeads
<1>4. Earlier'
  BY <1>0, <1>1 DEF Earlier, IntoTyped
<1>5. Carried'
  <2>1. ASSUME NEW q \in Reports, NEW r \in Reports
        PROVE  (\E row \in confirms'[q] : row.by = "report" /\ row.of = r) <=> LeadsTo(r, q)'
    <3>1. CASE q = p
      BY <1>0, <1>2, <1>3, <3>1 DEF Carried
    <3>2. CASE q # p
      BY <1>0, <1>2, <1>3, <3>2 DEF Carried
    <3>3. QED
      BY <3>1, <3>2
  <2>2. QED
    BY <2>1 DEF Carried
<1>6. \A q \in Reports : Exact(q)
  BY ExactIs DEF EvidenceInv, AllExact
<1>7. \A q \in Reports : Exact(q)'
  <2>1. ASSUME NEW q \in Reports, q # p PROVE Exact(q)'
    <3>1. \A k : Named(q, k)' <=> Named(q, k)
      BY <1>2, <2>1 DEF Named
    <3>2. \A k : Told(q, k)' <=> Told(q, k)
      BY <1>3, <2>1 DEF Told, Cast
    <3>3. QED
      BY <1>6, <3>1, <3>2 DEF Exact
  <2>2. Exact(p)'
    <3>1. \A k : Named(p, k)' <=> Named(p, k) \/ k = KeyOf[m] \/ Named(m, k)
      BY <1>2 DEF Named
    <3>2. \A k : Told(p, k)' <=> Told(p, k) \/ k = KeyOf[m] \/ Told(m, k)
      BY <1>3 DEF Told, Cast
    <3>3. QED
      BY <1>6, <3>1, <3>2 DEF Exact
  <2>3. QED
    BY <2>1, <2>2
<1>8. WitnessesExact'
  <2>1. AllExact' => WitnessesExact'
    BY ExactIs, PTL
  <2>2. QED
    BY <1>7, <2>1 DEF AllExact
<1>9. QED
  BY <1>4, <1>5, <1>8

\* A vote for a live report names its key, and no other report is told.
LEMMA VoteKeeps ==
  ASSUME EvidenceInv, NEW k \in Keys, NEW r \in Reports,
         NEW action \in {"confirm", "negate", "flag"}, CastVote(k, r, action)
  PROVE  Earlier' /\ Carried' /\ WitnessesExact'
<1>0. /\ IntoTyped /\ Gone /\ Earlier /\ Carried /\ Live(r) /\ into[r] = 0
      /\ confirms \in [Reports -> SUBSET ConfirmRow]
  BY MergesHold DEF Merges, Gone, Live, EvidenceInv, EvidenceTypeOK, CastVote
<1>1. into' = into /\ votes' = votes \cup {Cast(k, r, action)}
  BY DEF CastVote
<1>2. \A a, b \in Reports : LeadsTo(a, b)' <=> LeadsTo(a, b)
  BY <1>1 DEF LeadsTo
<1>3. \A h \in Reports : ~LeadsTo(r, h)
  BY <1>0, RestLeadsNowhere
<1> DEFINE new == [key |-> k, by |-> "vote", of |-> r]
<1>4. /\ \A q \in Reports \ {r} : confirms'[q] = confirms[q]
      /\ confirms'[r] = IF action = "confirm" /\ (\A row \in confirms[r] : row.key # k)
                          THEN confirms[r] \cup {new} ELSE confirms[r]
      /\ new.key = k /\ new.by = "vote"
  BY <1>0 DEF CastVote
<1> HIDE DEF new
<1>5. Carried'
  <2>1. ASSUME NEW q \in Reports, NEW m \in Reports
        PROVE  (\E row \in confirms'[q] : row.by = "report" /\ row.of = m) <=> LeadsTo(m, q)'
    <3>1. CASE q = r
      BY <1>0, <1>2, <1>4, <3>1 DEF Carried
    <3>2. CASE q # r
      BY <1>0, <1>2, <1>4, <3>2 DEF Carried
    <3>3. QED
      BY <3>1, <3>2
  <2>2. QED
    BY <2>1 DEF Carried
<1>6. \A q \in Reports : Exact(q)
  BY ExactIs DEF EvidenceInv, AllExact
<1>7. \A j, m : Cast(j, m, "confirm") \in votes' <=>
               Cast(j, m, "confirm") \in votes \/ (j = k /\ m = r /\ action = "confirm")
  <2>1. \A j, m : Cast(j, m, "confirm") = Cast(k, r, action) <=> j = k /\ m = r /\ action = "confirm"
    BY DEF Cast
  <2>2. QED
    BY <1>1, <2>1
<1>8. \A q \in Reports : Exact(q)'
  <2>1. ASSUME NEW q \in Reports, q # r PROVE Exact(q)'
    <3>1. \A j : Named(q, j)' <=> Named(q, j)
      BY <1>4, <2>1 DEF Named
    <3>2. \A j : Told(q, j)' <=> Told(q, j)
      BY <1>2, <1>3, <1>7, <2>1 DEF Told, Cast
    <3>3. QED
      BY <1>6, <3>1, <3>2 DEF Exact
  <2>2. Exact(r)'
    <3>1. \A j : Named(r, j)' <=> Named(r, j) \/ (j = k /\ action = "confirm")
      BY <1>4 DEF Named
    <3>2. \A j : Told(r, j)' <=> Told(r, j) \/ (j = k /\ action = "confirm")
      BY <1>2, <1>7 DEF Told, Cast
    <3>3. QED
      BY <1>6, <3>1, <3>2 DEF Exact
  <2>3. QED
    BY <2>1, <2>2
<1>9. WitnessesExact'
  <2>1. AllExact' => WitnessesExact'
    BY ExactIs, PTL
  <2>2. QED
    BY <1>8, <2>1 DEF AllExact
<1>10. Earlier'
  BY <1>0, <1>1 DEF Earlier
<1>11. QED
  BY <1>5, <1>9, <1>10

\* A step that neither votes nor merges.
LEMMA LedgersRest ==
  ASSUME EvidenceInv, UNCHANGED <<confirms, votes, into>>
  PROVE  Earlier' /\ Carried' /\ WitnessesExact'
<1>1. \A a, b \in Reports : LeadsTo(a, b)' <=> LeadsTo(a, b)
  BY DEF LeadsTo
<1>2. \A q \in Reports : Exact(q)
  BY ExactIs DEF EvidenceInv, AllExact
<1>3. \A q \in Reports : Exact(q)'
  <2>1. ASSUME NEW q \in Reports PROVE Exact(q)'
    <3>1. \A k : Named(q, k)' <=> Named(q, k)
      BY DEF Named
    <3>2. \A k : Told(q, k)' <=> Told(q, k)
      BY <1>1 DEF Told, Cast
    <3>3. QED
      BY <1>2, <3>1, <3>2 DEF Exact
  <2>2. QED
    BY <2>1
<1>4. WitnessesExact'
  <2>1. AllExact' => WitnessesExact'
    BY ExactIs, PTL
  <2>2. QED
    BY <1>3, <2>1 DEF AllExact
<1>5. Carried'
  BY <1>1 DEF EvidenceInv, Carried
<1>6. Earlier'
  BY DEF EvidenceInv, Earlier
<1>7. QED
  BY <1>4, <1>5, <1>6

-----------------------------------------------------------------------------
(* Evidence: typing.                                                       *)

Statuses == {"none", "live", "superseded", "rejected", "expired"}
Disputes == {"never", "set", "cleared"}
Resolutions == [by : SUBSET {"official", "accept", "reject"}, last : {"none", "confirmed", "rejected"}]
Stages == {"none", "landed", "disputed", "matching", "merging", "done"}

\* The conjuncts of the type invariant.
StandingTyped ==
  /\ status \in [Reports -> Statuses] /\ dispute \in [Reports -> Disputes]
  /\ IntoTyped /\ Gone
LedgerTyped ==
  /\ confirms \in [Reports -> SUBSET ConfirmRow]
  /\ external \in [Reports -> Resolutions]
  /\ votes \subseteq Vote
HooksTyped ==
  /\ hook \in [Reports -> Stages] /\ targets \in [Reports -> SUBSET Reports]
  /\ met \in [Reports -> BOOLEAN]
RestTyped == checking \subseteq Reports /\ events \in 0 .. MaxEvents

LEMMA TypeParts == EvidenceTypeOK <=> StandingTyped /\ LedgerTyped /\ HooksTyped /\ RestTyped
BY DEF EvidenceTypeOK, StandingTyped, LedgerTyped, HooksTyped, RestTyped, IntoTyped, Gone,
       Statuses, Disputes, Resolutions, Stages

TypedApart == StandingTyped /\ LedgerTyped /\ HooksTyped /\ RestTyped

LEMMA EventTyped ==
  ASSUME RestTyped, Event \/ UNCHANGED events
  PROVE  events' \in 0 .. MaxEvents
BY EventsAssumption DEF RestTyped, Event

\* What a report is to be merged with are other reports.
LEMMA MatchesTyped ==
  ASSUME Merges, NEW r \in Reports
  PROVE  Matches(r) \in SUBSET Reports /\ r \notin Matches(r)
<1>1. \A q \in Reports : Survivor(q) \in Reports \cup {0}
  BY SurvivorRange
<1>2. QED
  BY <1>1 DEF Matches, Witnesses

\* The hook goes on.
LEMMA GoOnTyped ==
  ASSUME HooksTyped, NEW r \in Reports, NEW left \in SUBSET Reports, GoOn(r, left)
  PROVE  /\ HooksTyped'
         /\ targets'[r] = left /\ hook'[r] \in {"done", "merging"}
         /\ hook'[r] = "done" <=> left = {}
         /\ met'[r] <=> left = {}
         /\ \A q \in Reports \ {r} : targets'[q] = targets[q] /\ hook'[q] = hook[q] /\ met'[q] = met[q]
<1> DEFINE empty == left = {}
<1>1. /\ targets' = [targets EXCEPT ![r] = left]
      /\ hook' = [hook EXCEPT ![r] = IF empty THEN "done" ELSE "merging"]
      /\ met' = [met EXCEPT ![r] = empty]
  BY DEF GoOn
<1>2. empty \in BOOLEAN
  OBVIOUS
<1>3. targets' \in [Reports -> SUBSET Reports] /\ hook' \in [Reports -> Stages]
      /\ targets'[r] = left /\ hook'[r] = (IF empty THEN "done" ELSE "merging")
      /\ \A q \in Reports \ {r} : targets'[q] = targets[q] /\ hook'[q] = hook[q]
  BY <1>1 DEF HooksTyped, Stages
<1> HIDE DEF empty
<1>4. met' \in [Reports -> BOOLEAN] /\ met'[r] = empty /\ \A q \in Reports \ {r} : met'[q] = met[q]
  BY <1>1, <1>2 DEF HooksTyped
<1>5. HooksTyped'
  BY <1>3, <1>4, Zenon DEF HooksTyped
<1>6. met'[r] <=> left = {}
  BY <1>4, Zenon DEF empty
<1>7. hook'[r] \in {"done", "merging"} /\ (hook'[r] = "done" <=> left = {})
  BY <1>3 DEF empty
<1>8. QED
  BY <1>3, <1>4, <1>5, <1>6, <1>7

LEMMA ResolveTyped ==
  ASSUME LedgerTyped, NEW r \in Reports, NEW by \in {"official", "accept", "reject"},
         NEW outcome \in {"confirmed", "rejected"}, Resolve(r, by, outcome)
  PROVE  external' \in [Reports -> Resolutions]
<1>1. external[r] \in Resolutions
  BY DEF LedgerTyped
<1>2. (IF by \in external[r].by THEN external[r]
       ELSE [by |-> external[r].by \cup {by}, last |-> outcome]) \in Resolutions
  BY <1>1 DEF Resolutions
<1>3. QED
  BY <1>2 DEF Resolve, LedgerTyped

\* A report's end, which is not a merge.
LEMMA EndTyped ==
  ASSUME StandingTyped, NEW r \in Reports, Live(r), NEW end \in {"rejected", "expired"},
         status' = [status EXCEPT ![r] = end], dispute' \in [Reports -> Disputes], into' = into
  PROVE  StandingTyped'
BY DEF StandingTyped, Statuses, IntoTyped, Gone, Live

\* The two reports of a merge, and what it does.
LEMMA CorroborateIs ==
  ASSUME EvidenceInv, NEW r \in Reports, NEW s \in Reports, Corroborate(r, s)
  PROVE  /\ r # s
         /\ \E p, m \in Reports :
              /\ p < m /\ {p, m} = {r, s}
              /\ \/ Live(p) /\ Live(m) /\ Merge(p, m)
                 \/ ~(Live(p) /\ Live(m)) /\ UNCHANGED <<confirms, status, into>>
<1>1. r # s
  BY DEF Corroborate, EvidenceInv, HooksEnd
<1>2. r \in Nat /\ s \in Nat
  BY KeyAssumption DEF Reports
<1>3. CASE r < s
  BY <1>1, <1>3 DEF Corroborate, MayMerge
<1>4. CASE s < r
  BY <1>1, <1>2, <1>4 DEF Corroborate, MayMerge
<1>5. QED
  BY <1>1, <1>2, <1>3, <1>4

LEMMA MergeTyped ==
  ASSUME EvidenceInv, NEW p \in Reports, NEW m \in Reports, p < m, Live(p), Live(m), Merge(p, m),
         UNCHANGED <<dispute, external, votes>>
  PROVE  StandingTyped' /\ LedgerTyped'
<1>0. StandingTyped /\ LedgerTyped /\ p # 0 /\ p \in 0 .. NumReports /\ p # m
  BY TypeParts, KeyAssumption DEF EvidenceInv, Reports
<1>1. StandingTyped'
  BY <1>0 DEF Merge, StandingTyped, IntoTyped, Gone, Live, Statuses
<1>2. KeyOf[m] \in Keys
  BY KeyAssumption
<1>3. WitnessRow(p, m) \in ConfirmRow
  BY <1>2 DEF WitnessRow, ConfirmRow
<1>4. confirms' \in [Reports -> SUBSET ConfirmRow]
  BY <1>0, <1>3 DEF Merge, LedgerTyped
<1>5. QED
  BY <1>0, <1>1, <1>4 DEF LedgerTyped

LEMMA EvidenceTypeSteps == EvidenceInv /\ [EvidenceNext]_evidenceVars => EvidenceTypeOK'
<1> SUFFICES ASSUME EvidenceInv, [EvidenceNext]_evidenceVars PROVE TypedApart'
  BY TypeParts, PTL DEF TypedApart
<1>0. StandingTyped /\ LedgerTyped /\ HooksTyped /\ RestTyped /\ Merges
  BY TypeParts, MergesHold DEF EvidenceInv
<1>k. UNCHANGED evidence /\ LedgerTyped => LedgerTyped'
  BY DEF LedgerTyped, evidence
<1>h. UNCHANGED hooks /\ HooksTyped => HooksTyped'
  BY Zenon DEF HooksTyped, hooks
<1>t. UNCHANGED <<status, dispute, into>> /\ StandingTyped => StandingTyped'
  BY DEF StandingTyped, IntoTyped, Gone
<1>e. (Event \/ UNCHANGED events) /\ UNCHANGED checking => RestTyped'
  BY <1>0, EventTyped DEF RestTyped
<1>1. ASSUME NEW r \in Reports, Land(r) PROVE TypedApart'
  <2>1. StandingTyped'
    BY <1>0, <1>1 DEF Land, StandingTyped, IntoTyped, Gone, Statuses, Disputes
  <2>2. HooksTyped'
    BY <1>0, <1>1, Zenon DEF Land, HooksTyped, Stages
  <2>3. QED
    BY <1>0, <1>1, <1>k, <1>e, <2>1, <2>2 DEF Land, TypedApart
<1>2. ASSUME NEW r \in Reports, CheckDispute(r) PROVE TypedApart'
  <2>1. HooksTyped'
    BY <1>0, <1>2, Zenon DEF CheckDispute, HooksTyped, Stages
  <2>2. QED
    BY <1>0, <1>2, <1>k, <1>e, <1>t, <2>1 DEF CheckDispute, TypedApart
<1>3. ASSUME NEW r \in Reports, PileOn(r) PROVE TypedApart'
  <2>1. HooksTyped'
    BY <1>0, <1>3, Zenon DEF PileOn, HooksTyped, Stages
  <2>2. StandingTyped'
    BY <1>0, <1>3 DEF PileOn, StandingTyped, IntoTyped, Gone, Disputes
  <2>3. QED
    BY <1>0, <1>3, <1>k, <1>e, <2>1, <2>2 DEF PileOn, TypedApart
<1>4. ASSUME NEW r \in Reports, Match(r) PROVE TypedApart'
  <2>1. HooksTyped'
    BY <1>0, <1>4, MatchesTyped, GoOnTyped DEF Match
  <2>2. QED
    BY <1>0, <1>4, <1>k, <1>e, <1>t, <2>1 DEF Match, TypedApart
<1>5. ASSUME NEW r \in Reports, StopHook(r) PROVE TypedApart'
  <2>1. HooksTyped'
    <3>1. hook' \in [Reports -> Stages] /\ targets' \in [Reports -> SUBSET Reports]
      BY <1>0, <1>5 DEF StopHook, HooksTyped, Stages
    <3>2. QED
      BY <1>0, <1>5, <3>1, Zenon DEF StopHook, HooksTyped
  <2>2. QED
    BY <1>0, <1>5, <1>k, <1>e, <1>t, <2>1 DEF StopHook, TypedApart
<1>6. ASSUME NEW r \in Reports, FindOfficial(r) PROVE TypedApart'
  <2>1. RestTyped'
    BY <1>0, <1>6, EventTyped DEF FindOfficial, RestTyped
  <2>2. QED
    BY <1>0, <1>6, <1>k, <1>h, <1>t, <2>1 DEF FindOfficial, TypedApart
<1>7. ASSUME NEW r \in Reports, ResolveOfficial(r) PROVE TypedApart'
  <2>1. external' \in [Reports -> Resolutions]
    BY <1>0, <1>7, ResolveTyped DEF ResolveOfficial
  <2>2. LedgerTyped' /\ RestTyped'
    BY <1>0, <1>7, <2>1 DEF ResolveOfficial, LedgerTyped, RestTyped
  <2>3. QED
    BY <1>0, <1>7, <1>h, <1>t, <2>2 DEF ResolveOfficial, TypedApart
<1>8. ASSUME NEW r \in Reports, Accept(r) PROVE TypedApart'
  <2>1. external' \in [Reports -> Resolutions]
    BY <1>0, <1>8, ResolveTyped DEF Accept
  <2>2. LedgerTyped'
    BY <1>0, <1>8, <2>1 DEF Accept, LedgerTyped
  <2>3. StandingTyped'
    BY <1>0, <1>8 DEF Accept, StandingTyped, IntoTyped, Gone, Disputes
  <2>4. QED
    BY <1>0, <1>8, <1>h, <1>e, <2>2, <2>3 DEF Accept, TypedApart
<1>9. ASSUME NEW r \in Reports, Reject(r) PROVE TypedApart'
  <2>1. external' \in [Reports -> Resolutions]
    BY <1>0, <1>9, ResolveTyped DEF Reject
  <2>2. LedgerTyped'
    BY <1>0, <1>9, <2>1 DEF Reject, LedgerTyped
  <2>3. dispute' \in [Reports -> Disputes]
    BY <1>0, <1>9 DEF Reject, StandingTyped, Disputes
  <2>4. StandingTyped'
    BY <1>0, <1>9, <2>3, EndTyped DEF Reject
  <2>5. QED
    BY <1>0, <1>9, <1>h, <1>e, <2>2, <2>4 DEF Reject, TypedApart
<1>10. ASSUME NEW r \in Reports, Expire(r) PROVE TypedApart'
  <2>1. dispute' \in [Reports -> Disputes]
    BY <1>0, <1>10 DEF Expire, StandingTyped
  <2>2. StandingTyped'
    BY <1>0, <1>10, <2>1, EndTyped DEF Expire
  <2>3. QED
    BY <1>0, <1>10, <1>h, <1>k, <1>e, <2>2 DEF Expire, TypedApart
<1>11. ASSUME NEW r \in Reports, NEW s \in Reports, Corroborate(r, s) PROVE TypedApart'
  <2>1. HooksTyped'
    <3>1. targets[r] \ {s} \in SUBSET Reports
      BY <1>0 DEF HooksTyped
    <3>2. QED
      BY <1>0, <1>11, <3>1, GoOnTyped DEF Corroborate
  <2>2. StandingTyped' /\ LedgerTyped'
    <3>1. PICK p \in Reports, m \in Reports :
            /\ p < m
            /\ \/ Live(p) /\ Live(m) /\ Merge(p, m)
               \/ ~(Live(p) /\ Live(m)) /\ UNCHANGED <<confirms, status, into>>
      BY <1>11, CorroborateIs
    <3>2. UNCHANGED <<dispute, external, votes>>
      BY <1>11 DEF Corroborate
    <3>3. CASE UNCHANGED <<confirms, status, into>>
      BY <1>0, <1>k, <1>t, <3>2, <3>3 DEF evidence
    <3>4. CASE Live(p) /\ Live(m) /\ Merge(p, m)
      BY <3>1, <3>2, <3>4, MergeTyped
    <3>5. QED
      BY <3>1, <3>3, <3>4
  <2>3. QED
    BY <1>0, <1>11, <1>e, <2>1, <2>2 DEF Corroborate, TypedApart
<1>12. ASSUME NEW k \in Keys, NEW r \in Reports, NEW action \in {"confirm", "negate", "flag"},
              CastVote(k, r, action)
       PROVE  TypedApart'
  <2>1. Cast(k, r, action) \in Vote /\ [key |-> k, by |-> "vote", of |-> r] \in ConfirmRow
    BY DEF Cast, Vote, ConfirmRow
  <2>2. LedgerTyped'
    BY <1>0, <1>12, <2>1 DEF CastVote, LedgerTyped
  <2>3. StandingTyped'
    BY <1>0, <1>12 DEF CastVote, StandingTyped, IntoTyped, Gone, Disputes
  <2>4. QED
    BY <1>0, <1>12, <1>h, <1>e, <2>2, <2>3 DEF CastVote, TypedApart
<1>13. CASE UNCHANGED evidenceVars
  BY <1>0, <1>13, <1>k, <1>h, <1>t, <1>e DEF evidenceVars, TypedApart
<1>14. QED
  BY <1>1, <1>2, <1>3, <1>4, <1>5, <1>6, <1>7, <1>8, <1>9, <1>10, <1>11, <1>12, <1>13 DEF EvidenceNext

-----------------------------------------------------------------------------
(* Evidence: the hooks.                                                    *)

\* No step makes a report stand again, or land twice.
LEMMA StandingFalls ==
  ASSUME EvidenceInv, [EvidenceNext]_evidenceVars, NEW q \in Reports
  PROVE  /\ Standing(q)' => Standing(q) \/ status[q] = "none"
         /\ status'[q] = "none" => status[q] = "none"
<1>0. status \in [Reports -> Statuses] /\ dispute \in [Reports -> Disputes]
  BY TypeParts DEF EvidenceInv, StandingTyped
<1> USE <1>0 DEF Standing
<1>1. ASSUME NEW r \in Reports, Land(r)
      PROVE  (Standing(q)' => Standing(q) \/ status[q] = "none") /\ (status'[q] = "none" => status[q] = "none")
  BY <1>1 DEF Land
<1>2. ASSUME NEW r \in Reports, CheckDispute(r) \/ Match(r) \/ StopHook(r) \/ FindOfficial(r) \/ ResolveOfficial(r)
      PROVE  status' = status /\ dispute' = dispute
  BY <1>2 DEF CheckDispute, Match, StopHook, FindOfficial, ResolveOfficial
<1>3. ASSUME NEW r \in Reports, PileOn(r) \/ Accept(r) \/ Reject(r) \/ Expire(r)
      PROVE  (Standing(q)' => Standing(q) \/ status[q] = "none") /\ (status'[q] = "none" => status[q] = "none")
  BY <1>3 DEF PileOn, Accept, Reject, Expire, Disputes
<1>4. ASSUME NEW r \in Reports, NEW s \in Reports, Corroborate(r, s)
      PROVE  (Standing(q)' => Standing(q) \/ status[q] = "none") /\ (status'[q] = "none" => status[q] = "none")
  <2>1. PICK p \in Reports, m \in Reports :
          \/ Live(p) /\ Live(m) /\ Merge(p, m)
          \/ UNCHANGED <<confirms, status, into>>
    BY <1>4, CorroborateIs
  <2>2. QED
    BY <1>4, <2>1 DEF Corroborate, Merge
<1>5. ASSUME NEW k \in Keys, NEW r \in Reports, NEW action \in {"confirm", "negate", "flag"},
             CastVote(k, r, action)
      PROVE  (Standing(q)' => Standing(q) \/ status[q] = "none") /\ (status'[q] = "none" => status[q] = "none")
  BY <1>5 DEF CastVote
<1>6. CASE UNCHANGED evidenceVars
  BY <1>6 DEF evidenceVars
<1>7. QED
  BY <1>1, <1>2, <1>3, <1>4, <1>5, <1>6 DEF EvidenceNext

\* What each hook does.
LEMMA HooksMove ==
  ASSUME EvidenceInv, [EvidenceNext]_evidenceVars
  PROVE  \/ UNCHANGED hooks
         \/ \E r \in Reports :
              /\ status'[r] # "none"
              /\ UNCHANGED met
              /\ targets' = [targets EXCEPT ![r] = {}]
              /\ \E stage \in {"landed", "disputed", "matching", "done"} : hook' = [hook EXCEPT ![r] = stage]
              /\ hook[r] # "done"
         \/ \E r \in Reports : Match(r)
         \/ \E r, s \in Reports : Corroborate(r, s)
<1>0. /\ status \in [Reports -> Statuses] /\ HooksTyped
      /\ \A r \in Reports : hook[r] # "merging" => targets[r] = {}
      /\ \A r \in Reports : status[r] = "none" => hook[r] = "none"
      /\ \A r \in Reports : status'[r] = "none" => status[r] = "none"
  BY TypeParts, StandingFalls DEF EvidenceInv, StandingTyped, HooksEnd
<1>1. \A r \in Reports : targets[r] = {} => targets = [targets EXCEPT ![r] = {}]
  BY <1>0 DEF HooksTyped
<1>2. ASSUME NEW r \in Reports, Land(r) \/ CheckDispute(r) \/ PileOn(r) \/ StopHook(r)
      PROVE  /\ status'[r] # "none"
             /\ UNCHANGED met
             /\ targets' = [targets EXCEPT ![r] = {}]
             /\ \E stage \in {"landed", "disputed", "matching", "done"} : hook' = [hook EXCEPT ![r] = stage]
             /\ hook[r] # "done"
  <2>1. CASE Land(r)
    BY <1>0, <1>1, <2>1 DEF Land, HooksTyped
  <2>2. CASE CheckDispute(r)
    BY <1>0, <1>1, <2>2 DEF CheckDispute, HooksTyped
  <2>3. CASE PileOn(r)
    BY <1>0, <1>1, <2>3 DEF PileOn, HooksTyped
  <2>4. CASE StopHook(r)
    BY <1>0, <1>1, <2>4 DEF StopHook, HooksTyped
  <2>5. QED
    BY <1>2, <2>1, <2>2, <2>3, <2>4
<1>3. ASSUME NEW r \in Reports,
             FindOfficial(r) \/ ResolveOfficial(r) \/ Accept(r) \/ Reject(r) \/ Expire(r)
      PROVE  UNCHANGED hooks
  BY <1>3 DEF FindOfficial, ResolveOfficial, Accept, Reject, Expire
<1>4. ASSUME NEW k \in Keys, NEW r \in Reports, NEW action \in {"confirm", "negate", "flag"},
             CastVote(k, r, action)
      PROVE  UNCHANGED hooks
  BY <1>4 DEF CastVote
<1>5. CASE UNCHANGED evidenceVars
  BY <1>5 DEF evidenceVars
<1>6. QED
  BY <1>2, <1>3, <1>4, <1>5 DEF EvidenceNext

LEMMA HooksSteps == EvidenceInv /\ [EvidenceNext]_evidenceVars => HooksEnd'
<1> SUFFICES ASSUME EvidenceInv, [EvidenceNext]_evidenceVars PROVE HooksEnd'
  OBVIOUS
<1>0. HooksEnd /\ HooksTyped /\ Merges
  BY TypeParts, MergesHold DEF EvidenceInv
<1>s. \A r \in Reports : status'[r] = "none" => status[r] = "none"
  BY StandingFalls
<1>1. CASE UNCHANGED hooks
  BY <1>0, <1>1, <1>s DEF HooksEnd, hooks
<1>2. ASSUME NEW r \in Reports, status'[r] # "none", UNCHANGED met, targets' = [targets EXCEPT ![r] = {}],
             NEW stage \in {"landed", "disputed", "matching", "done"}, hook' = [hook EXCEPT ![r] = stage],
             hook[r] # "done"
      PROVE  HooksEnd'
  BY <1>0, <1>2, <1>s DEF HooksEnd, HooksTyped
<1>3. ASSUME NEW r \in Reports, NEW left \in SUBSET Reports, r \notin left, status[r] # "none",
             GoOn(r, left)
      PROVE  HooksEnd'
  <2>1. /\ targets'[r] = left /\ hook'[r] \in {"done", "merging"}
        /\ hook'[r] = "done" <=> left = {}
        /\ met'[r] <=> left = {}
        /\ \A q \in Reports \ {r} : targets'[q] = targets[q] /\ hook'[q] = hook[q] /\ met'[q] = met[q]
    BY <1>0, <1>3, GoOnTyped
  <2>2. QED
    BY <1>0, <1>3, <1>s, <2>1 DEF HooksEnd
<1>4. ASSUME NEW r \in Reports, Match(r) PROVE HooksEnd'
  <2>1. Matches(r) \in SUBSET Reports /\ r \notin Matches(r)
    BY <1>0, MatchesTyped
  <2>2. status[r] # "none" /\ GoOn(r, Matches(r))
    BY <1>0, <1>4 DEF Match, HooksEnd
  <2>3. QED
    BY <1>3, <2>1, <2>2
<1>5. ASSUME NEW r \in Reports, NEW s \in Reports, Corroborate(r, s) PROVE HooksEnd'
  <2>1. targets[r] \ {s} \in SUBSET Reports /\ r \notin targets[r] \ {s}
    BY <1>0 DEF HooksEnd, HooksTyped
  <2>2. status[r] # "none" /\ GoOn(r, targets[r] \ {s})
    BY <1>0, <1>5 DEF Corroborate, HooksEnd
  <2>3. QED
    BY <1>3, <2>1, <2>2
<1>6. QED
  BY <1>1, <1>2, <1>4, <1>5, HooksMove

LEMMA MeetSteps == EvidenceInv /\ [EvidenceNext]_evidenceVars => MeetSoon'
<1> SUFFICES ASSUME EvidenceInv, [EvidenceNext]_evidenceVars PROVE MeetSoon'
  OBVIOUS
<1>0. HooksEnd /\ HooksTyped /\ Merges /\ MeetSoon
  BY TypeParts, MergesHold DEF EvidenceInv
<1>l. \A r \in Reports : status[r] = "none" => ~Looked(r)
  BY <1>0 DEF HooksEnd, Looked
<1>s. \A q \in Reports : Standing(q)' => Standing(q) \/ ~Looked(q)
  BY <1>l, StandingFalls
<1>1. ASSUME \A q \in Reports : Looked(q)' => Looked(q) /\ targets'[q] = targets[q]
      PROVE  MeetSoon'
  BY <1>0, <1>1, <1>s DEF MeetSoon
<1>2. CASE UNCHANGED hooks
  BY <1>1, <1>2 DEF hooks, Looked
<1>3. ASSUME NEW r \in Reports, UNCHANGED met, targets' = [targets EXCEPT ![r] = {}],
             NEW stage \in {"landed", "disputed", "matching", "done"}, hook' = [hook EXCEPT ![r] = stage],
             hook[r] # "done"
      PROVE  MeetSoon'
  <2>1. ~Looked(r)'
    BY <1>0, <1>3 DEF Looked, HooksEnd, HooksTyped
  <2>2. \A q \in Reports \ {r} : (Looked(q)' <=> Looked(q)) /\ targets'[q] = targets[q]
    BY <1>0, <1>3 DEF Looked, HooksTyped
  <2>3. QED
    BY <1>1, <2>1, <2>2
<1>4. ASSUME NEW r \in Reports, Match(r) PROVE MeetSoon'
  <2>1. Matches(r) \in SUBSET Reports /\ GoOn(r, Matches(r)) /\ status' = status /\ dispute' = dispute
    BY <1>0, <1>4, MatchesTyped DEF Match
  <2>2. /\ targets'[r] = Matches(r)
        /\ \A q \in Reports \ {r} : targets'[q] = targets[q] /\ (Looked(q)' <=> Looked(q))
    BY <1>0, <2>1, GoOnTyped DEF Looked
  <2>3. ASSUME NEW b \in Reports, b # r, KeyOf[b] # KeyOf[r], Standing(r), Standing(b)
        PROVE  b \in Matches(r)
    <3>1. Live(r) /\ Live(b) /\ ~Disputed(r) /\ ~Disputed(b)
      BY <2>3 DEF Standing, Live, Disputed
    <3>2. Survivor(b) = b /\ b # 0
      BY <1>0, <3>1, SurvivorIs, NumbersOfReports DEF Merges
    <3>3. b \in {Survivor(q) : q \in Reports \ {r}} \ {0, r}
      BY <2>3, <3>2
    <3>4. QED
      BY <2>3, <3>1, <3>3 DEF Matches, Witnesses
  <2>4. \A q \in Reports : Standing(q)' <=> Standing(q)
    BY <2>1 DEF Standing
  <2>5. ASSUME NEW a \in Reports, NEW b \in Reports, a # b, KeyOf[a] # KeyOf[b],
               Standing(a)', Standing(b)', Looked(a)', Looked(b)'
        PROVE  b \in targets'[a] \/ a \in targets'[b]
    BY <1>0, <2>2, <2>3, <2>4, <2>5 DEF MeetSoon
  <2>6. QED
    BY <2>5 DEF MeetSoon
<1>5. ASSUME NEW r \in Reports, NEW s \in Reports, Corroborate(r, s) PROVE MeetSoon'
  <2>1. targets[r] \ {s} \in SUBSET Reports /\ GoOn(r, targets[r] \ {s}) /\ hook[r] = "merging"
    BY <1>0, <1>5 DEF Corroborate, HooksTyped
  <2>2. /\ targets'[r] = targets[r] \ {s} /\ Looked(r)
        /\ \A q \in Reports \ {r} : targets'[q] = targets[q] /\ (Looked(q)' <=> Looked(q))
    BY <1>0, <2>1, GoOnTyped DEF Looked
  <2>3. ~(Standing(r)' /\ Standing(s)')
    <3>1. PICK p \in Reports, m \in Reports :
            /\ {p, m} = {r, s}
            /\ \/ Live(p) /\ Live(m) /\ Merge(p, m)
               \/ ~(Live(p) /\ Live(m)) /\ UNCHANGED <<confirms, status, into>>
      BY <1>5, CorroborateIs
    <3>2. status \in [Reports -> Statuses]
      BY TypeParts DEF EvidenceInv, StandingTyped
    <3>3. ~(Standing(p)' /\ Standing(m)')
      BY <3>1, <3>2 DEF Merge, Standing, Live
    <3>4. QED
      BY <3>1, <3>3
  <2>4. ASSUME NEW a \in Reports, NEW b \in Reports, a # b, KeyOf[a] # KeyOf[b],
               Standing(a)', Standing(b)', Looked(a)', Looked(b)'
        PROVE  b \in targets'[a] \/ a \in targets'[b]
    <3>1. Looked(a) /\ Looked(b)
      BY <2>2, <2>4
    <3>2. Standing(a) /\ Standing(b)
      BY <1>s, <2>4, <3>1
    <3>3. b \in targets[a] \/ a \in targets[b]
      BY <1>0, <2>4, <3>1, <3>2 DEF MeetSoon
    <3>4. ~(a = r /\ b = s) /\ ~(a = s /\ b = r)
      BY <2>3, <2>4
    <3>5. QED
      BY <2>2, <3>3, <3>4
  <2>5. QED
    BY <2>4 DEF MeetSoon
<1>6. QED
  BY <1>2, <1>3, <1>4, <1>5, HooksMove

-----------------------------------------------------------------------------
(* Evidence: the theorems.                                                 *)

LEMMA LedgerSteps ==
  EvidenceInv /\ [EvidenceNext]_evidenceVars => Earlier' /\ Carried' /\ WitnessesExact'
<1> SUFFICES ASSUME EvidenceInv, [EvidenceNext]_evidenceVars
             PROVE  Earlier' /\ Carried' /\ WitnessesExact'
  OBVIOUS
<1>1. ASSUME NEW r \in Reports,
             \/ Land(r) \/ CheckDispute(r) \/ PileOn(r) \/ Match(r) \/ StopHook(r)
             \/ FindOfficial(r) \/ ResolveOfficial(r) \/ Accept(r) \/ Reject(r) \/ Expire(r)
      PROVE  UNCHANGED <<confirms, votes, into>>
  BY <1>1 DEF Land, CheckDispute, PileOn, Match, StopHook, FindOfficial, ResolveOfficial, Accept,
              Reject, Expire, evidence
<1>2. ASSUME NEW r \in Reports, NEW s \in Reports, Corroborate(r, s)
      PROVE  Earlier' /\ Carried' /\ WitnessesExact'
  <2>1. PICK p \in Reports, m \in Reports :
          /\ p < m
          /\ \/ Live(p) /\ Live(m) /\ Merge(p, m)
             \/ UNCHANGED <<confirms, status, into>>
    BY <1>2, CorroborateIs
  <2>2. votes' = votes
    BY <1>2 DEF Corroborate
  <2>3. QED
    BY <2>1, <2>2, MergeKeeps, LedgersRest
<1>3. ASSUME NEW k \in Keys, NEW r \in Reports, NEW action \in {"confirm", "negate", "flag"},
             CastVote(k, r, action)
      PROVE  Earlier' /\ Carried' /\ WitnessesExact'
  BY <1>3, VoteKeeps
<1>4. UNCHANGED evidenceVars => UNCHANGED <<confirms, votes, into>>
  BY DEF evidenceVars, evidence
<1>5. QED
  BY <1>1, <1>2, <1>3, <1>4, LedgersRest DEF EvidenceNext

LEMMA EvidenceSteps == EvidenceInv /\ [EvidenceNext]_evidenceVars => EvidenceInv'
  BY EvidenceTypeSteps, LedgerSteps, HooksSteps, MeetSteps DEF EvidenceInv

LEMMA EvidenceHolds == EvidenceSpec => []EvidenceInv
  BY EvidenceStarts, EvidenceSteps, PTL DEF EvidenceSpec

\* The reports, their ledgers and hooks stay what they are declared to be (recompute.ts,
\* corroborate.ts); a report is merged exactly when it is superseded.
THEOREM EvidenceTypeCorrect == EvidenceSpec => []EvidenceTypeOK
<1>1. EvidenceInv => EvidenceTypeOK
  BY DEF EvidenceInv
<1>2. QED
  BY <1>1, EvidenceHolds, PTL

\* resolveSurvivors (corroborate.ts) finds the one report of a chain of merges that was
\* not merged, when that is live, within any bound of two hops or more, however long the
\* chain and in whatever order its merges came.
THEOREM SurvivorFound == EvidenceSpec => []HeadFound
<1>1. EvidenceInv => HeadFound
  BY MergesHold, HeadIs
<1>2. QED
  BY <1>1, EvidenceHolds, PTL

\* A merged report whose chain ends at a live one leads to its survivor.
LedOn ==
  \A q \in Reports : status[q] = "superseded" /\ (\E h \in Path(q) : Live(h)) => Survivor(q) \in Path(q)

LEMMA LedOnHolds == Merges => LedOn
BY SurvivorIs DEF LedOn

\* A merge (applyCorroboration) takes a live report away only into one that is live in
\* the same state, whatever other hooks, reviewers and the sweep do.
THEOREM MergesLoseNothing == EvidenceSpec => NoReportLost
<1>1. EvidenceInv /\ Merges' /\ [EvidenceNext]_evidenceVars
      => [\A r \in Reports : Live(r) /\ status'[r] = "superseded" => (Survivor(r) # 0)']_evidenceVars
  <2> SUFFICES ASSUME EvidenceInv, Merges', [EvidenceNext]_evidenceVars,
                      NEW r \in Reports, Live(r), status'[r] = "superseded"
               PROVE  (Survivor(r) # 0)'
    OBVIOUS
  <2>0. status \in [Reports -> Statuses] /\ IntoTyped
    BY TypeParts DEF EvidenceInv, StandingTyped
  <2>1. PICK x \in Reports, y \in Reports : Corroborate(x, y)
    BY <2>0 DEF EvidenceNext, evidenceVars, Live, Land, CheckDispute, PileOn, Match, StopHook,
       FindOfficial, ResolveOfficial, Accept, Reject, Expire, CastVote
  <2>2. PICK p \in Reports, m \in Reports : p < m /\ Live(p) /\ Live(m) /\ Merge(p, m)
    BY <2>0, <2>1, CorroborateIs DEF Live
  <2>3. r = m /\ status'[p] = "live" /\ into'[r] = p /\ p # 0
    <3>1. p \in Nat /\ m \in Nat /\ p # 0 /\ p # m
      BY <2>0, <2>2, NumbersOfReports
    <3>2. r = m
      BY <2>0, <2>2 DEF Merge, Live
    <3>3. status'[p] = "live" /\ into'[m] = p
      BY <2>0, <2>2, <3>1 DEF Merge, Live, IntoTyped
    <3>4. QED
      BY <3>1, <3>2, <3>3
  <2>4. LeadsTo(r, p)'
    BY <2>3 DEF LeadsTo
  <2>5. (p \in Path(r) /\ Live(p))'
    BY <2>3, <2>4 DEF Path, Live
  <2>6. (Survivor(r) \in Path(r))'
    <3>1. LedOn'
      BY LedOnHolds, PTL
    <3>2. QED
      BY <2>3, <2>5, <3>1 DEF LedOn
  <2>7. QED
    BY <2>6, KeyAssumption DEF Path, Reports
<1>2. EvidenceInv => Merges
  BY MergesHold
<1>3. QED
  BY <1>1, <1>2, EvidenceHolds, PTL DEF EvidenceSpec, NoReportLost

\* A report's witnesses (evaluateEvidence) are exactly the other keys that reported or
\* confirmed it or a report merged into it: no merge drops, doubles or invents one.
THEOREM WitnessesAreExact == EvidenceSpec => []WitnessesExact
<1>1. EvidenceInv => WitnessesExact
  BY DEF EvidenceInv
<1>2. QED
  BY <1>1, EvidenceHolds, PTL

\* Of two undisputed reports of different keys whose hooks ended without an error, at
\* most one stands (autoCorroborateOnLanding and applyCorroboration).
THEOREM ReportsDoMeet == EvidenceSpec => []ReportsMeet
<1>1. EvidenceInv => ReportsMeet
  <2> SUFFICES ASSUME EvidenceInv, NEW r \in Reports, NEW s \in Reports,
                      r # s, KeyOf[r] # KeyOf[s], met[r], met[s],
                      dispute[r] = "never", dispute[s] = "never", Live(r), Live(s)
               PROVE  FALSE
    BY DEF ReportsMeet
  <2>1. targets[r] = {} /\ targets[s] = {}
    BY DEF EvidenceInv, HooksEnd
  <2>2. Standing(r) /\ Standing(s) /\ Looked(r) /\ Looked(s)
    BY DEF Standing, Looked, Live
  <2>3. QED
    BY <2>1, <2>2 DEF EvidenceInv, MeetSoon
<1>2. QED
  BY <1>1, EvidenceHolds, PTL
=============================================================================
