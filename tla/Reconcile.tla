----------------------------- MODULE Reconcile -----------------------------
(***************************************************************************)
(* A source turns restricted or public, and the journal catches up         *)
(* (packages/storage/src/federation-reconcile.ts, with the capture of      *)
(* 0062_federation_capture.sql and syncSources).                           *)
(*                                                                         *)
(* A boot sets the source's flag from the catalogue; its reconcile then    *)
(* journals deletes or creates for the source's records, a page per        *)
(* transaction, while polls go on writing the same records.  The reconcile *)
(* may fail (a source's lock held too long) or the process may die, and    *)
(* the next boot takes it up again.                                        *)
(*                                                                         *)
(* "peer" is what a subscriber that reads every journal entry then holds:  *)
(* it changes with the entry, as the copy does when the entry lands.       *)
(***************************************************************************)
EXTENDS Naturals

CONSTANTS
  NumRecords,      \* the source's records, in the order the reconcile reads them
  MaxRev,          \* bound: revisions of a record
  MaxBoot,         \* bound: boots
  MayFlip          \* how far the reconcile may be when the catalogue flips the
                   \* source

ASSUME RecordAssumption == NumRecords \in Nat \ {0}
ASSUME BoundAssumption == MaxRev \in Nat \ {0} /\ MaxBoot \in Nat
ASSUME FlipAssumption ==
  MayFlip \subseteq {"settled", "new", "listed", "publishing", "retracting"}

Record == 1 .. NumRecords

Flag == {"public", "restricted"}
Unknown == "unknown"     \* no basis: the source was added since

VARIABLES
  flag,        \* source.restricted
  basis,       \* source.federation_restricted: the flag the journal reflects
  begun,       \* source.federation_pending
  old,         \* records stored by the time the source last turned restricted
  rec,         \* each record here: its revision (0: not stored) and status
  last,        \* each record's latest journal entry: none, change or delete
  peer,        \* each record at a subscriber that read the whole journal
  pc,          \* the process: down, booted, reconciling or serving
  toward,      \* the flag the running reconcile read when it listed the source
  next,        \* the first record of the running reconcile's next page
  boots        \* boots so far

source == <<flag, basis, begun, old>>
records == <<rec, last, peer>>
process == <<pc, toward, next, boots>>
reconcileVars == <<source, records, process>>

Status == {"live", "withdrawn", "erased"}

ReconcileTypeOK ==
  /\ flag \in Flag
  /\ basis \in Flag \cup {Unknown}
  /\ begun \in BOOLEAN
  /\ old \subseteq Record
  /\ rec \in [Record -> [rev : 0 .. MaxRev, status : Status]]
  /\ last \in [Record -> {"none", "change", "delete"}]
  /\ peer \in [Record -> [rev : 0 .. MaxRev, live : BOOLEAN]]
  /\ pc \in {"down", "booted", "reconciling", "serving"}
  /\ toward \in Flag
  /\ next \in Record
  /\ boots \in 0 .. MaxBoot

ReconcileInit ==
  /\ flag \in Flag
  /\ basis = Unknown
  /\ begun = FALSE
  /\ old = {}
  /\ rec = [r \in Record |-> [rev |-> 0, status |-> "withdrawn"]]
  /\ last = [r \in Record |-> "none"]
  /\ peer = [r \in Record |-> [rev |-> 0, live |-> FALSE]]
  /\ pc = "down"
  /\ toward = "public"
  /\ next = 1
  /\ boots = 0

-----------------------------------------------------------------------------
(* Journal entries.                                                        *)

\* A change goes out: the subscriber holds the record at its revision.
JournalChange(r, rev) ==
  /\ last' = [last EXCEPT ![r] = "change"]
  /\ peer' = [peer EXCEPT ![r] = [rev |-> rev, live |-> TRUE]]

\* A delete goes out, at the revision the record ended at: the subscriber ends
\* a copy no newer than that.
JournalDelete(r, rev) ==
  /\ last' = [last EXCEPT ![r] = "delete"]
  /\ peer' = [peer EXCEPT ![r].live = @ /\ peer[r].rev > rev]

Restricted == flag = "restricted"

\* A peer may hold the record: it has entries, or it was stored while the
\* source was public (its entries may have been pruned since).
WasShared(r) == last[r] # "none" \/ ~Restricted \/ r \in old

-----------------------------------------------------------------------------
(* Polls, and what their capture journals.                                 *)

IsLive(r) == rec[r].rev > 0 /\ rec[r].status = "live"

\* Mutant of StoreLive: the capture journals a restricted source's changes.
StoreLiveAlways(r) ==
  /\ pc # "down"
  /\ rec[r].rev < MaxRev
  /\ LET rev == rec[r].rev + 1 IN
       /\ rec' = [rec EXCEPT ![r] = [rev |-> rev, status |-> "live"]]
       /\ JournalChange(r, rev)
  /\ UNCHANGED <<source, process>>

\* A poll stores a record, revises a live one or restores an ended one.  A
\* restricted source's is not journalled.
StoreLive(r) ==
  /\ pc # "down"
  /\ rec[r].rev < MaxRev
  /\ LET rev == rec[r].rev + 1 IN
       /\ rec' = [rec EXCEPT ![r] = [rev |-> rev, status |-> "live"]]
       /\ IF Restricted THEN UNCHANGED <<last, peer>> ELSE JournalChange(r, rev)
  /\ UNCHANGED <<source, process>>

\* A poll no longer holds a record, or the sweep ends it.
Withdraw(r) ==
  /\ pc # "down"
  /\ IsLive(r)
  /\ rec[r].rev < MaxRev
  /\ LET rev == rec[r].rev + 1 IN
       /\ rec' = [rec EXCEPT ![r] = [rev |-> rev, status |-> "withdrawn"]]
       /\ IF Restricted THEN UNCHANGED <<last, peer>> ELSE JournalDelete(r, rev)
  /\ UNCHANGED <<source, process>>

\* Mutant of Erase: a restricted source's erasure is not journalled either.
EraseSilent(r) ==
  /\ pc # "down"
  /\ rec[r].rev \in 1 .. MaxRev - 1
  /\ rec[r].status # "erased"
  /\ LET rev == rec[r].rev + 1 IN
       /\ rec' = [rec EXCEPT ![r] = [rev |-> rev, status |-> "erased"]]
       /\ IF Restricted THEN UNCHANGED <<last, peer>> ELSE JournalDelete(r, rev)
  /\ UNCHANGED <<source, process>>

\* An erasure goes out even of a restricted source, when a peer may hold the
\* record.
Erase(r) ==
  /\ pc # "down"
  /\ rec[r].rev \in 1 .. MaxRev - 1
  /\ rec[r].status # "erased"
  /\ LET rev == rec[r].rev + 1 IN
       /\ rec' = [rec EXCEPT ![r] = [rev |-> rev, status |-> "erased"]]
       /\ IF WasShared(r) THEN JournalDelete(r, rev) ELSE UNCHANGED <<last, peer>>
  /\ UNCHANGED <<source, process>>

\* The retention removes the record's entries; a subscriber keeps its copy.
Prune(r) ==
  /\ last[r] # "none"
  /\ last' = [last EXCEPT ![r] = "none"]
  /\ UNCHANGED <<source, rec, peer, process>>

-----------------------------------------------------------------------------
(* The process: boot, reconcile, failure.                                  *)

Settled == basis = flag /\ ~begun

\* How far the journal is from reflecting the flag.
Progress ==
  CASE basis = Unknown -> "new"
    [] Settled         -> "settled"
    [] ~begun          -> "listed"
    [] begun /\ ~Restricted -> "publishing"
    [] begun /\ Restricted  -> "retracting"

\* A boot mirrors the catalogue before anything polls: the flag is set, and a
\* source that turns restricted notes which records were stored by then.
Boot(catalogue) ==
  /\ pc = "down"
  /\ boots < MaxBoot
  /\ catalogue = flag \/ Progress \in MayFlip
  /\ boots' = boots + 1
  /\ flag' = catalogue
  /\ old' = IF catalogue = "public" THEN {}
            ELSE IF Restricted THEN old
            ELSE {r \in Record : rec[r].rev > 0}
  /\ pc' = "booted"
  /\ UNCHANGED <<basis, begun, records, toward, next>>

\* The reconcile lists the source when the journal may not reflect its flag.
\* A source with no basis settles under its flag at once; one in sync is done.
List ==
  /\ pc = "booted"
  /\ toward' = flag
  /\ next' = 1
  /\ IF basis = Unknown /\ ~begun
       THEN basis' = flag /\ pc' = "serving"
       ELSE basis' = basis /\ pc' = IF Settled THEN "serving" ELSE "reconciling"
  /\ UNCHANGED <<flag, begun, old, records, boots>>

\* Mutant of Retract: only live records are retracted.
RetractLive(r) ==
  IF IsLive(r) /\ last[r] # "delete" /\ WasShared(r)
    THEN JournalDelete(r, rec[r].rev)
    ELSE UNCHANGED <<last, peer>>

\* Toward restricted: a delete for each record a peer may hold that is not
\* retracted yet, an ended one too.
Retract(r) ==
  IF rec[r].rev > 0 /\ last[r] # "delete" /\ WasShared(r)
    THEN JournalDelete(r, rec[r].rev)
    ELSE UNCHANGED <<last, peer>>

\* Toward public: a create for each live record whose latest entry is none or
\* a delete.
Publish(r) ==
  IF IsLive(r) /\ ~Restricted /\ last[r] # "change"
    THEN JournalChange(r, rec[r].rev)
    ELSE UNCHANGED <<last, peer>>

IsLastPage == next = NumRecords

\* One page, in one transaction under the source's lock: the first marks the
\* source begun, the last records its basis and clears the mark.
ReconcilePage ==
  /\ pc = "reconciling"
  /\ IF toward = "restricted" THEN Retract(next) ELSE Publish(next)
  /\ IF IsLastPage
       THEN begun' = FALSE /\ basis' = toward /\ pc' = "serving" /\ next' = next
       ELSE begun' = TRUE /\ basis' = basis /\ pc' = pc /\ next' = next + 1
  /\ UNCHANGED <<flag, old, rec, toward, boots>>

\* The reconcile fails: it is logged, and the service goes on until it is
\* booted again.
ReconcileFails ==
  /\ pc = "reconciling"
  /\ pc' = "serving"
  /\ UNCHANGED <<source, records, toward, next, boots>>

Stop ==
  /\ pc # "down"
  /\ pc' = "down"
  /\ UNCHANGED <<source, records, toward, next, boots>>

-----------------------------------------------------------------------------
Poll(r) == StoreLive(r) \/ Withdraw(r) \/ Erase(r)

ReconcileNext ==
  \/ \E r \in Record : Poll(r) \/ Prune(r)
  \/ \E catalogue \in Flag : Boot(catalogue)
  \/ List
  \/ ReconcilePage
  \/ ReconcileFails
  \/ Stop

ReconcileSpec == ReconcileInit /\ [][ReconcileNext]_reconcileVars

-----------------------------------------------------------------------------
(* Properties.                                                             *)

\* What a subscriber holds of a record is what the source's flag lets it hold.
InSync(r) ==
  /\ peer[r].live <=> IsLive(r) /\ ~Restricted
  /\ peer[r].live => peer[r].rev = rec[r].rev

\* Once a source is settled, the journal has brought every subscriber to its
\* flag (reconcileFederation).
SettledInSync == Settled /\ pc # "down" => \A r \in Record : InSync(r)

\* A restricted source's content never goes out: what a subscriber holds was
\* journalled while the source was public (federation_may_carry).
NothingGoesOut ==
  [][\A r \in Record : Restricted /\ peer'[r].live => peer[r].live /\ peer'[r].rev = peer[r].rev]_reconcileVars

\* An erased record a subscriber held ends there, restricted or not, pruned or
\* not (federation_was_shared).
ErasedEnds == \A r \in Record : rec[r].status = "erased" => ~peer[r].live
=============================================================================
