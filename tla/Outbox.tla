------------------------------- MODULE Outbox -------------------------------
(***************************************************************************)
(* The federation journal of one instance and a peer that pulls it.        *)
(*                                                                         *)
(* Publisher: database sessions write records under their source's         *)
(* advisory lock, and the capture triggers add a journal row for each      *)
(* change in the writing transaction.  The row's txid was assigned at the  *)
(* transaction's first write, its seq when the row was inserted: of two    *)
(* overlapping transactions, the one with the smaller txid may hold the    *)
(* larger seqs and commit last.                                            *)
(*                                                                         *)
(* Subscriber: pulls of the peer read pages after the cursor stored for    *)
(* the peer, land the entries one by one, and store the page's high-water  *)
(* mark once all of them landed.  A pull may stop anywhere (a lost         *)
(* response, a failed landing, a crash, the page budget of a pull) and     *)
(* two pulls may overlap.                                                  *)
(***************************************************************************)
EXTENDS Journal

CONSTANTS
  Writer,        \* database sessions of the publisher
  Puller,        \* pulls of this peer that may run at once
  Source,        \* sources whose records are journalled
  Record,        \* records
  SourceOf,      \* the source of each record
  Wanted,        \* records the subscriber's filter keeps
  Limit,         \* rows scanned for a page, at most
  MaxXid,        \* bound: transaction ids assigned
  MaxSeq,        \* bound: journal sequence numbers drawn
  None           \* no source

ASSUME SourceOfAssumption == SourceOf \in [Record -> Source]
ASSUME WantedAssumption == Wanted \subseteq Record
ASSUME LimitAssumption == Limit \in Nat \ {0}
ASSUME BoundAssumption == MaxXid \in Nat /\ MaxSeq \in Nat
ASSUME NoneAssumption == None \notin Source

VARIABLES
  nextXid,       \* the next transaction id the publisher's database assigns
  nextSeq,       \* the next value of the journal's bigserial
  lock,          \* the source whose advisory lock each session holds
  xid,           \* each session's transaction id; 0 before its first write
  pending,       \* journal rows each session inserted and not yet committed
  doomed,        \* journal rows each session deletes when it commits
  journal,       \* the committed journal
  cursor,        \* the subscriber's stored cursor (federation_peer_cursor)
  pc,            \* each pull: "idle", "asking" or "landing"
  at,            \* the cursor each pull reached
  mark,          \* the high-water mark of the page each pull is landing
  more,          \* whether that page named a next one
  todo,          \* the entries of that page not landed yet
  landed         \* every entry that ever landed at the subscriber

publisher == <<nextXid, nextSeq, lock, xid, pending, doomed, journal>>
pull == <<pc, at, mark, more, todo>>
vars == <<publisher, cursor, pull, landed>>

\* What a journal row does to its record: a create or an update, a delete, or
\* the delete of an erasure (reason `rights_revoked`).
Op == {"change", "delete", "erase"}
Row == [txid : Nat \ {0}, seq : Nat \ {0}, rec : Record, op : Op]
Cursor == [txid : Nat, seq : Nat]

TypeOK ==
  /\ nextXid \in Nat \ {0}
  /\ nextSeq \in Nat \ {0}
  /\ lock \in [Writer -> Source \cup {None}]
  /\ xid \in [Writer -> Nat]
  /\ pending \in [Writer -> SUBSET Row]
  /\ doomed \in [Writer -> SUBSET Row]
  /\ journal \subseteq Row
  /\ cursor \in Cursor
  /\ pc \in [Puller -> {"idle", "asking", "landing"}]
  /\ at \in [Puller -> Cursor]
  /\ mark \in [Puller -> Cursor]
  /\ more \in [Puller -> BOOLEAN]
  /\ todo \in [Puller -> SUBSET Row]
  /\ landed \subseteq Row

Init ==
  /\ nextXid = 1
  /\ nextSeq = 1
  /\ lock = [w \in Writer |-> None]
  /\ xid = [w \in Writer |-> 0]
  /\ pending = [w \in Writer |-> {}]
  /\ doomed = [w \in Writer |-> {}]
  /\ journal = {}
  /\ cursor = Start
  /\ pc = [p \in Puller |-> "idle"]
  /\ at = [p \in Puller |-> Start]
  /\ mark = [p \in Puller |-> Start]
  /\ more = [p \in Puller |-> FALSE]
  /\ todo = [p \in Puller |-> {}]
  /\ landed = {}

-----------------------------------------------------------------------------
(* The publisher's transactions.                                           *)

\* Mutants of LockSource: the lock taken after a first write, and not waited for.
LockSourceLate(w, s) ==
  /\ lock[w] = None
  /\ \A v \in Writer : lock[v] # s
  /\ lock' = [lock EXCEPT ![w] = s]
  /\ UNCHANGED <<nextXid, nextSeq, xid, pending, doomed, journal, cursor, pull, landed>>

LockSourceShared(w, s) ==
  /\ lock[w] = None
  /\ xid[w] = 0
  /\ lock' = [lock EXCEPT ![w] = s]
  /\ UNCHANGED <<nextXid, nextSeq, xid, pending, doomed, journal, cursor, pull, landed>>

\* A transaction takes its source's advisory lock before its first write, and
\* waits while another holds it.
LockSource(w, s) ==
  /\ lock[w] = None
  /\ xid[w] = 0
  /\ \A v \in Writer : lock[v] # s
  /\ lock' = [lock EXCEPT ![w] = s]
  /\ UNCHANGED <<nextXid, nextSeq, xid, pending, doomed, journal, cursor, pull, landed>>

\* The first write assigns the transaction id.  A transaction that journals
\* nothing (no lock taken) has one too, and holds the fence back as long.
FirstWrite(w) ==
  /\ xid[w] = 0
  /\ nextXid <= MaxXid
  /\ xid' = [xid EXCEPT ![w] = nextXid]
  /\ nextXid' = nextXid + 1
  /\ UNCHANGED <<nextSeq, lock, pending, doomed, journal, cursor, pull, landed>>

NewRow(w, r, op) == [txid |-> xid[w], seq |-> nextSeq, rec |-> r, op |-> op]

\* The change rows of a record a session sees: the committed ones.
ChangesOf(r, rows) == {e \in rows : e.rec = r /\ e.op = "change"}

\* The capture triggers: a write of a record of the locked source adds a row.
\* An erasure also deletes the record's change rows, the committed ones when
\* it commits.
Capture(w, r, op) ==
  /\ lock[w] = SourceOf[r]
  /\ xid[w] # 0
  /\ nextSeq <= MaxSeq
  /\ nextSeq' = nextSeq + 1
  /\ IF op = "erase"
       THEN /\ pending' = [pending EXCEPT
                 ![w] = (@ \ ChangesOf(r, @)) \cup {NewRow(w, r, op)}]
            /\ doomed' = [doomed EXCEPT ![w] = @ \cup ChangesOf(r, journal)]
       ELSE /\ pending' = [pending EXCEPT ![w] = @ \cup {NewRow(w, r, op)}]
            /\ UNCHANGED doomed
  /\ UNCHANGED <<nextXid, lock, xid, journal, cursor, pull, landed>>

\* The end of a transaction: its rows and deletions show at once, or never.
\* A sequence value drawn by an aborted transaction is not drawn again.
EndTransaction(w) ==
  /\ xid' = [xid EXCEPT ![w] = 0]
  /\ lock' = [lock EXCEPT ![w] = None]
  /\ pending' = [pending EXCEPT ![w] = {}]
  /\ doomed' = [doomed EXCEPT ![w] = {}]
  /\ UNCHANGED <<nextXid, nextSeq, cursor, pull, landed>>

Commit(w) ==
  /\ xid[w] # 0
  /\ journal' = (journal \ doomed[w]) \cup pending[w]
  /\ EndTransaction(w)

Abort(w) ==
  /\ xid[w] # 0 \/ lock[w] # None
  /\ UNCHANGED journal
  /\ EndTransaction(w)

-----------------------------------------------------------------------------
(* The subscriber's pulls.                                                 *)

\* A pull starts from the cursor stored for the peer.
StartPull(p) ==
  /\ pc[p] = "idle"
  /\ pc' = [pc EXCEPT ![p] = "asking"]
  /\ at' = [at EXCEPT ![p] = cursor]
  /\ UNCHANGED <<publisher, cursor, mark, more, todo, landed>>

OpenXids == {xid[w] : w \in {v \in Writer : xid[v] # 0}}

\* The entries of a page the subscriber's filter keeps: a delete always.
Kept(page) == {e \in page : e.op # "change" \/ e.rec \in Wanted}

\* Mutant of FetchPage: the high-water mark over the entries kept only.
FetchPageKept(p) ==
  /\ pc[p] = "asking"
  /\ LET page == PageOf(Servable(journal, at[p], OpenXids), Limit) IN
       /\ \E m \in {at[p]} \cup {Pos(e) : e \in page} :
            /\ IsHighWater(m, Kept(page), at[p])
            /\ mark' = [mark EXCEPT ![p] = m]
       /\ todo' = [todo EXCEPT ![p] = Kept(page)]
       /\ more' = [more EXCEPT ![p] = (Cardinality(page) = Limit)]
  /\ pc' = [pc EXCEPT ![p] = "landing"]
  /\ UNCHANGED <<publisher, cursor, at, landed>>

\* The publisher reads a page and the subscriber receives it.  The high-water
\* mark is over the rows scanned, so a page the filter emptied still has one.
FetchPage(p) ==
  /\ pc[p] = "asking"
  /\ LET page == PageOf(Servable(journal, at[p], OpenXids), Limit) IN
       /\ \E m \in {at[p]} \cup {Pos(e) : e \in page} :
            /\ IsHighWater(m, page, at[p])
            /\ mark' = [mark EXCEPT ![p] = m]
       /\ todo' = [todo EXCEPT ![p] = Kept(page)]
       /\ more' = [more EXCEPT ![p] = (Cardinality(page) = Limit)]
  /\ pc' = [pc EXCEPT ![p] = "landing"]
  /\ UNCHANGED <<publisher, cursor, at, landed>>

\* Mutant of LandEntry: the entries of a page land in any order.
LandEntryAny(p) ==
  /\ pc[p] = "landing"
  /\ \E e \in todo[p] :
       /\ landed' = landed \cup {e}
       /\ todo' = [todo EXCEPT ![p] = @ \ {e}]
  /\ UNCHANGED <<publisher, cursor, pc, at, mark, more>>

\* The entries land one by one, in the page's order.
LandEntry(p) ==
  /\ pc[p] = "landing"
  /\ \E e \in todo[p] :
       /\ \A f \in todo[p] : ~Before(f, e)
       /\ landed' = landed \cup {e}
       /\ todo' = [todo EXCEPT ![p] = @ \ {e}]
  /\ UNCHANGED <<publisher, cursor, pc, at, mark, more>>

\* Mutant of StorePage: the cursor set to the page's mark whatever is stored.
StorePageBlind(p) ==
  /\ pc[p] = "landing"
  /\ todo[p] = {}
  /\ cursor' = mark[p]
  /\ at' = [at EXCEPT ![p] = mark[p]]
  /\ pc' = [pc EXCEPT ![p] = IF more[p] THEN "asking" ELSE "idle"]
  /\ UNCHANGED <<publisher, mark, more, todo, landed>>

\* The page landed: the cursor moves to its high-water mark, never back past
\* one another pull stored meanwhile, and the pull reads on when the page
\* named a next one.  A page that moved nowhere ends the pull.
StorePage(p) ==
  /\ pc[p] = "landing"
  /\ todo[p] = {}
  /\ IF Before(at[p], mark[p])
       THEN /\ cursor' = IF Before(cursor, mark[p]) THEN mark[p] ELSE cursor
            /\ at' = [at EXCEPT ![p] = mark[p]]
            /\ pc' = [pc EXCEPT ![p] = IF more[p] THEN "asking" ELSE "idle"]
       ELSE /\ UNCHANGED <<cursor, at>>
            /\ pc' = [pc EXCEPT ![p] = "idle"]
  /\ UNCHANGED <<publisher, mark, more, todo, landed>>

\* A pull ends between pages: it read as many as it may, or the response is
\* lost or refused.
YieldPull(p) ==
  /\ pc[p] = "asking"
  /\ pc' = [pc EXCEPT ![p] = "idle"]
  /\ UNCHANGED <<publisher, cursor, at, mark, more, todo, landed>>

\* A pull ends within a page: an entry fails to land or the process crashes,
\* with some entries landed and the cursor where it was.
FailPage(p) ==
  /\ pc[p] = "landing"
  /\ pc' = [pc EXCEPT ![p] = "idle"]
  /\ todo' = [todo EXCEPT ![p] = {}]
  /\ UNCHANGED <<publisher, cursor, at, mark, more, landed>>

-----------------------------------------------------------------------------
WriterStep(w) ==
  \/ \E s \in Source : LockSource(w, s)
  \/ FirstWrite(w)
  \/ \E r \in Record, op \in Op : Capture(w, r, op)
  \/ Commit(w)
  \/ Abort(w)

PullStep(p) ==
  \/ StartPull(p)
  \/ FetchPage(p)
  \/ LandEntry(p)
  \/ StorePage(p)
  \/ YieldPull(p)
  \/ FailPage(p)

Next ==
  \/ \E w \in Writer : WriterStep(w)
  \/ \E p \in Puller : PullStep(p)

Spec == Init /\ [][Next]_vars

\* A session's transaction ends in time (statement timeouts, or its process
\* dies), the pull loop starts a pull again and again, and a pull that keeps
\* being started gets its page sometimes.  Landing a page is not interrupted
\* by the pull itself.
Fairness ==
  /\ \A w \in Writer : WF_vars(Commit(w) \/ Abort(w))
  /\ \A p \in Puller : /\ WF_vars(StartPull(p))
                       /\ SF_vars(FetchPage(p))
                       /\ WF_vars(LandEntry(p) \/ StorePage(p))

FairSpec == Spec /\ Fairness

-----------------------------------------------------------------------------
(* Properties.                                                             *)

\* The stored cursor passes nothing: a committed row at or before it that the
\* filter keeps has landed.  The composite cursor and the xmin fence are there
\* for this, against rows of a slow transaction that commit below a faster
\* one's seqs (outbox.ts, readOutbox).
GapFree == \A e \in Kept(journal) : Before(cursor, e) \/ e \in landed

\* Delivery is in the journal's order, across pages, overlapping pulls, failed
\* pages and late commits: nothing lands before a row that precedes it.
LandsInOrder ==
  \A e, f \in Kept(journal) : Before(e, f) /\ f \in landed => e \in landed

\* The rows of one record are served in the order they were journalled.  The
\* (txid, seq) order alone does not give this: it holds because a transaction
\* takes the source's lock before its first write assigns its id.
RecordOrder ==
  \A e, f \in journal : e.rec = f.rec /\ e.seq < f.seq => e.txid <= f.txid

\* Once an erasure committed, no change of the record journalled before it can
\* be served again, not even one of a transaction that overlapped it
\* (federation_journal_tombstone).
ErasureFinal ==
  \A d, e \in journal :
    d.op = "erase" /\ e.op = "change" /\ e.rec = d.rec => e.seq > d.seq

\* What the fence lets through is a sequence: it grows at its end only, whatever order
\* overlapping transactions commit in, and nothing of it is hidden again but what an
\* erasure removed.  So a reader that has all of it up to a place has it for good, and
\* the modules of single readers keep the journal as a sequence.
Fenced == Servable(journal, Start, OpenXids)
FencedGrows ==
  [][/\ \A e \in Fenced' \ Fenced, f \in Fenced : Before(f, e)
     /\ Fenced \cap journal' \subseteq Fenced']_vars

\* Two overlapping pulls never move the stored cursor back (storeCursor).
CursorNeverBack == [][~Before(cursor', cursor)]_cursor

\* A pull loses a page that would have moved it on.
LosesPage(p) == FailPage(p) /\ Before(at[p], mark[p])

\* Every row the filter keeps lands, once pages stop being lost for good.
PagesStopFailing == <>[][\A p \in Puller : ~LosesPage(p)]_vars
EverythingLands == PagesStopFailing => []<>(Kept(journal) \subseteq landed)

\* The journal and its pulls implement the feed: what is owed is what the
\* filter keeps of the committed journal.
Owed == INSTANCE Feed WITH log <- Kept(journal), mark <- cursor, seen <- landed
FeedSpec == Owed!Spec
=============================================================================
