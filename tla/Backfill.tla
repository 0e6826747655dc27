------------------------------ MODULE Backfill ------------------------------
(***************************************************************************)
(* A peer that catches up with a publisher's journal (backfill.ts,         *)
(* puller.ts, archive-import.ts).  The publisher serves a peer only the    *)
(* entries within its tier's window, prunes entries older than its         *)
(* retention, and builds an archive of what is current every night.  A     *)
(* page whose range reaches before the window says so and names the        *)
(* archive, which the peer lands before the page unless it landed one that *)
(* new, or any within a day.                                               *)
(*                                                                         *)
(* Time is counted in steps of half a day.  The order and the fence of the *)
(* journal and pages that land in part are module Outbox's: here entries   *)
(* are numbered in the order they are served.                              *)
(***************************************************************************)
EXTENDS Naturals, FiniteSets

CONSTANTS
  Records,       \* the publisher's records
  Window,        \* how far back the peer's tier is served
  Reach,         \* how far before that the archive's night is served
  Retention,     \* how long the journal keeps an entry at least
  Reland,        \* the least time between two archives landed
  Night,         \* the time between two builds of the archive
  ArchiveAge,    \* how old the latest archive may get, nights that failed included
  Silence,       \* how long the publisher may go without a change
  Flight,        \* how long a pull may take
  Limit,         \* entries of a page, at most
  MaxClock,      \* bound: the clock
  MaxEntries     \* bound: journal entries

ASSUME DurationAssumption ==
  /\ Window \in Nat /\ Reach \in Nat /\ Retention \in Nat /\ Reland \in Nat
  /\ ArchiveAge \in Nat /\ Flight \in Nat
  /\ Night \in Nat \ {0} /\ Silence \in Nat \ {0}

\* The window outlasts an archive that landed and may not land again yet, and
\* the retention outlasts the window by the publisher's longest silence.
ASSUME MarginAssumption ==
  /\ Reland + ArchiveAge + Flight <= Window + 1 /\ ArchiveAge <= Window
  /\ Window + Silence <= Retention

ASSUME PageAssumption == Limit \in Nat \ {0}
ASSUME HorizonAssumption == MaxClock \in Nat /\ MaxEntries \in Nat

VARIABLES
  clock,         \* half-days since the publisher began
  entries,       \* the journal
  tip,        \* the number of its newest entry
  lastAt,        \* when that was added
  latest,        \* each record as it is: its newest entry; number 0 if none
  archive,       \* the latest archive: when its build began, and the entry of
                 \* each record it holds, or 0
  place,         \* the peer's stored cursor
  mirror,        \* the peer's copy of each record, as the entry it came from
  noted,         \* the archive the peer last landed, if any: its build and when
  pulling        \* the page the peer received and has not landed, if any

publishing == <<entries, tip, lastAt, latest>>
peering == <<place, mirror, noted, pulling>>
backfill == <<clock, publishing, archive, peering>>

\* What an entry says of its record: its number stands for the record's revision.
Version == [seq : 0 .. MaxEntries, at : 0 .. MaxClock, live : BOOLEAN]
Unknown == [seq |-> 0, at |-> 0, live |-> FALSE]

BackfillTypeOK ==
  /\ clock \in 0 .. MaxClock
  /\ entries \subseteq [rec : Records, as : Version]
  /\ tip \in 0 .. MaxEntries
  /\ lastAt \in 0 .. MaxClock
  /\ latest \in [Records -> Version]
  /\ archive \in [built : 0 .. MaxClock, held : [Records -> Version]]
  /\ place \in 0 .. MaxEntries
  /\ mirror \in [Records -> Version]
  /\ noted \subseteq [built : 0 .. MaxClock, at : 0 .. MaxClock]
  /\ pulling \subseteq
       [items : SUBSET [rec : Records, as : Version], mark : 0 .. MaxEntries,
        beyond : BOOLEAN, archive : [built : 0 .. MaxClock, held : [Records -> Version]],
        asked : 0 .. MaxClock]

BackfillInit ==
  /\ clock = 0
  /\ entries = {}
  /\ tip = 0
  /\ lastAt = 0
  /\ latest = [r \in Records |-> Unknown]
  /\ archive = [built |-> 0, held |-> [r \in Records |-> Unknown]]
  /\ place = 0
  /\ mirror = [r \in Records |-> Unknown]
  /\ noted = {}
  /\ pulling = {}

-----------------------------------------------------------------------------
(* The publisher.                                                          *)

\* A record changes or ends, and the journal gets its entry.
Publish(r, live) ==
  /\ tip < MaxEntries
  /\ live \/ latest[r].live
  /\ LET v == [seq |-> tip + 1, at |-> clock, live |-> live] IN
       /\ latest' = [latest EXCEPT ![r] = v]
       /\ entries' = entries \cup {[rec |-> r, as |-> v]}
  /\ tip' = tip + 1
  /\ lastAt' = clock
  /\ UNCHANGED <<clock, archive, peering>>

\* The night's archive: every live record, as it is when the build begins.
BuildArchive ==
  /\ clock % Night = 0
  /\ archive.built < clock
  /\ archive' = [built |-> clock,
                 held |-> [r \in Records |-> IF latest[r].live THEN latest[r] ELSE Unknown]]
  /\ UNCHANGED <<clock, publishing, peering>>

\* Entries older than the retention are pruned.
PruneOutbox ==
  /\ entries' = {e \in entries : e.as.at + Retention >= clock}
  /\ entries' # entries
  /\ UNCHANGED <<clock, tip, lastAt, latest, archive, peering>>

\* Time passes: no archive gets older than ArchiveAge, no silence of the
\* publisher longer than Silence and no pull longer than Flight.
Elapse ==
  /\ clock < MaxClock
  /\ clock < archive.built + ArchiveAge
  /\ clock < lastAt + Silence
  /\ \A p \in pulling : clock < p.asked + Flight
  /\ clock' = clock + 1
  /\ UNCHANGED <<publishing, archive, peering>>

-----------------------------------------------------------------------------
(* The peer's pulls.                                                       *)

AtLeast(m, n) == IF m >= n THEN m ELSE n

\* Whether an instant is within the floor the publisher serves: the tier's
\* window, or from the archive's night where that is earlier, within reach.
Served(at) ==
  \/ at + Window >= clock
  \/ at >= archive.built /\ at + Window + Reach >= clock

\* Whether the journal still holds an entry after the cursor and before the
\* floor: the page then says so and names the archive.
NamesArchive == \E e \in entries : e.as.seq > place /\ ~Served(e.as.at)

\* A page: the first entries after the cursor within the floor, and the mark
\* they lead to.
PageTo(m, servable) == {e \in servable : e.as.seq <= m}

\* The peer asks for a page and receives it.
ReceivePage ==
  /\ pulling = {}
  /\ LET servable == {e \in entries : e.as.seq > place /\ Served(e.as.at)} IN
       \E m \in {place} \cup {e.as.seq : e \in servable} :
         /\ \/ PageTo(m, servable) = servable
            \/ Cardinality(PageTo(m, servable)) = Limit
         /\ Cardinality(PageTo(m, servable)) <= Limit
         /\ pulling' = {[items |-> PageTo(m, servable), mark |-> m,
                         beyond |-> NamesArchive, archive |-> archive, asked |-> clock]}
  /\ UNCHANGED <<clock, publishing, archive, place, mirror, noted>>

\* Whether the archive a page names is to land.
ArchiveDue(p) ==
  /\ p.beyond
  /\ \A n \in noted : n.built < p.archive.built /\ n.at + Reland <= clock

\* The newer of two versions of a record: the inbox lands no older one.
Newer(v, w) == IF w.seq > v.seq THEN w ELSE v

\* Mutant of ImportArchive: noted when its first files landed.
ImportArchiveEarly ==
  /\ \E p \in pulling :
       /\ ArchiveDue(p)
       /\ \E landed \in SUBSET Records :
            mirror' = [r \in Records |-> IF r \in landed THEN Newer(mirror[r], p.archive.held[r])
                                                         ELSE mirror[r]]
       /\ noted' = {[built |-> p.archive.built, at |-> clock]}
  /\ UNCHANGED <<clock, publishing, archive, place, pulling>>

\* The archive lands whole, before its page, and is noted.
ImportArchive ==
  /\ \E p \in pulling :
       /\ ArchiveDue(p)
       /\ mirror' = [r \in Records |-> Newer(mirror[r], p.archive.held[r])]
       /\ noted' = {[built |-> p.archive.built, at |-> clock]}
  /\ UNCHANGED <<clock, publishing, archive, place, pulling>>

\* A file of the archive cannot be fetched, is not the one the page states, or
\* does not land: what landed stays, and the pull ends.
FailImport ==
  /\ \E p \in pulling :
       /\ ArchiveDue(p)
       /\ \E landed \in SUBSET Records :
            mirror' = [r \in Records |-> IF r \in landed THEN Newer(mirror[r], p.archive.held[r])
                                                         ELSE mirror[r]]
  /\ pulling' = {}
  /\ UNCHANGED <<clock, publishing, archive, place, noted>>

\* The newest of some versions.
IsNewest(v, versions) == v \in versions /\ \A w \in versions : w.seq <= v.seq

\* What a page says of a record, and what the peer held of it.
Heard(p, r) == {mirror[r]} \cup {e.as : e \in {f \in p.items : f.rec = r}}

\* The page lands and the cursor moves to its mark.
LandPage ==
  /\ \E p \in pulling :
       /\ ~ArchiveDue(p)
       /\ mirror' \in [Records -> {mirror[r] : r \in Records} \cup {e.as : e \in p.items}]
       /\ \A r \in Records : IsNewest(mirror'[r], Heard(p, r))
       /\ place' = AtLeast(place, p.mark)
  /\ pulling' = {}
  /\ UNCHANGED <<clock, publishing, archive, noted>>

\* The pull ends before its page landed.
DropPage ==
  /\ pulling # {}
  /\ pulling' = {}
  /\ UNCHANGED <<clock, publishing, archive, place, mirror, noted>>

-----------------------------------------------------------------------------
BackfillNext ==
  \/ \E r \in Records, live \in BOOLEAN : Publish(r, live)
  \/ BuildArchive
  \/ PruneOutbox
  \/ Elapse
  \/ ReceivePage
  \/ ImportArchive
  \/ FailImport
  \/ LandPage
  \/ DropPage

BackfillSpec == BackfillInit /\ [][BackfillNext]_backfill

-----------------------------------------------------------------------------
(* Properties.                                                             *)

\* Nothing falls between the archive and the window (backfill.ts): the peer
\* holds every live record whose newest entry its cursor passed, wherever the
\* floor was when it asked and however long it was away.
NothingFallsBetween ==
  \A r \in Records :
    latest[r].live /\ latest[r].seq <= place => mirror[r] = latest[r]

\* Nothing lives on at the peer whose end its cursor passed: the pages and the
\* archive together carry all that changed while it was away (puller.ts,
\* docs/archive.md).
EndsHeard ==
  \A r \in Records :
    ~latest[r].live /\ latest[r].seq <= place => ~mirror[r].live
=============================================================================
