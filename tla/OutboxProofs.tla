---------------------------- MODULE OutboxProofs ----------------------------
(***************************************************************************)
(* Theorems about Outbox, for any sets of sessions, pulls, sources and     *)
(* records, any page limit and any number of transactions and rows.        *)
(***************************************************************************)
EXTENDS Outbox, FiniteSetTheorems, TLAPS

USE SourceOfAssumption, WantedAssumption, LimitAssumption, BoundAssumption,
    NoneAssumption

-----------------------------------------------------------------------------
(* The order of positions and the page.                                    *)

\* A position is a row or a cursor: what the order compares.
Position == Row \cup Cursor

\* The order is transitive, also through positions that are level.
LEMMA BeforeOrder ==
  ASSUME NEW a \in Position, NEW b \in Position, NEW c \in Position
  PROVE  /\ ~Before(a, a)
         /\ Before(a, b) => ~Before(b, a)
         /\ Before(a, b) /\ ~Before(c, b) => Before(a, c)
         /\ ~Before(b, a) /\ Before(b, c) => Before(a, c)
         /\ ~Before(b, a) /\ ~Before(c, b) => ~Before(c, a)
<1>1. /\ a.txid \in Nat /\ a.seq \in Nat
      /\ b.txid \in Nat /\ b.seq \in Nat
      /\ c.txid \in Nat /\ c.seq \in Nat
  BY DEF Position, Row, Cursor
<1> QED BY <1>1 DEF Before

\* A row and the cursor stored for it are level.
LEMMA PosLevel ==
  ASSUME NEW r \in Row
  PROVE  /\ Pos(r) \in Cursor
         /\ \A q \in Position : /\ Before(Pos(r), q) <=> Before(r, q)
                                /\ Before(q, Pos(r)) <=> Before(q, r)
  BY DEF Pos, Before, Position, Row, Cursor

\* A page is closed downward: a row that may be served and is not after a row
\* of the page is on the page.
LEMMA PageClosed ==
  ASSUME NEW rows \in SUBSET Row, IsFiniteSet(rows),
         NEW m \in PageOf(rows, Limit), NEW e \in rows, ~Before(m, e)
  PROVE  e \in PageOf(rows, Limit)
<1> DEFINE below(r) == {q \in rows : Before(q, r)}
<1>1. below(e) \subseteq below(m)
  <2> SUFFICES ASSUME NEW q \in rows, Before(q, e) PROVE Before(q, m)
    OBVIOUS
  <2>1. m \in Position /\ e \in Position /\ q \in Position
    BY DEF PageOf, Position
  <2> QED BY <2>1, BeforeOrder
<1>2. IsFiniteSet(below(m))
  BY FS_Subset
<1>3. Cardinality(below(e)) <= Cardinality(below(m))
  BY <1>1, <1>2, FS_Subset
<1>4. Cardinality(below(e)) \in Nat /\ Cardinality(below(m)) \in Nat
  BY <1>1, <1>2, FS_Subset, FS_CardinalityType
<1>5. Cardinality(below(m)) < Limit
  BY DEF PageOf
<1>6. Cardinality(below(e)) < Limit
  BY <1>3, <1>4, <1>5
<1> QED BY <1>6 DEF PageOf

\* A page misses nothing up to its high-water mark: a committed row is on the
\* page, or after the mark, or was not after the cursor asked for.
LEMMA PageWhole ==
  ASSUME NEW rows \in SUBSET Row, IsFiniteSet(rows),
         NEW after \in Cursor, NEW open \in SUBSET Nat,
         NEW page, page = PageOf(Servable(rows, after, open), Limit),
         NEW h \in Cursor, IsHighWater(h, page, after),
         NEW e \in rows
  PROVE  e \in page \/ Before(h, e) \/ ~Before(after, e)
<1> SUFFICES ASSUME e \notin page, Before(after, e) PROVE Before(h, e)
  OBVIOUS
<1> DEFINE served == Servable(rows, after, open)
<1>1. served \in SUBSET Row /\ IsFiniteSet(served) /\ page \subseteq served
  BY FS_Subset DEF Servable, PageOf
<1>2. CASE page = {}
  BY <1>2 DEF IsHighWater
<1>3. CASE page # {}
  <2>1. PICK m \in page : h = Pos(m)
    BY <1>3 DEF IsHighWater
  <2>2. m \in Row /\ e \in Row
    BY <1>1
  <2>3. CASE e \in served
    BY <1>1, <2>1, <2>2, <2>3, PageClosed, PosLevel DEF Position
  <2>4. CASE e \notin served
    <3>1. PICK x \in open : ~(e.txid < x)
      BY <2>4 DEF Servable
    <3>2. m.txid < x
      BY <1>1 DEF Servable
    <3>3. m.txid \in Nat /\ e.txid \in Nat /\ x \in Nat
      BY <2>2 DEF Row
    <3>4. m.txid < e.txid
      BY <3>1, <3>2, <3>3
    <3> QED BY <2>1, <3>4 DEF Before, Pos
  <2> QED BY <2>3, <2>4
<1> QED BY <1>2, <1>3

-----------------------------------------------------------------------------
(* Type correctness.                                                       *)

\* Every reachable state has the types of TypeOK.
THEOREM TypeCorrect == Spec => []TypeOK
<1>1. Init => TypeOK
  BY DEF Init, TypeOK, Start, Cursor
<1>2. TypeOK /\ [Next]_vars => TypeOK'
  <2> SUFFICES ASSUME TypeOK, [Next]_vars PROVE TypeOK'
    OBVIOUS
  <2> USE DEF TypeOK
  <2>1. ASSUME NEW w \in Writer, NEW s \in Source, LockSource(w, s) PROVE TypeOK'
    BY <2>1 DEF LockSource, pull
  <2>2. ASSUME NEW w \in Writer, FirstWrite(w) PROVE TypeOK'
    BY <2>2 DEF FirstWrite, pull
  <2>3. ASSUME NEW w \in Writer, NEW r \in Record, NEW op \in Op, Capture(w, r, op)
        PROVE  TypeOK'
    <3>1. NewRow(w, r, op) \in Row
      BY <2>3 DEF Capture, NewRow, Row
    <3> QED BY <2>3, <3>1 DEF Capture, ChangesOf, pull
  <2>4. ASSUME NEW w \in Writer, Commit(w) PROVE TypeOK'
    BY <2>4 DEF Commit, EndTransaction, pull
  <2>5. ASSUME NEW w \in Writer, Abort(w) PROVE TypeOK'
    BY <2>5 DEF Abort, EndTransaction, pull
  <2>6. ASSUME NEW p \in Puller, StartPull(p) PROVE TypeOK'
    BY <2>6 DEF StartPull, publisher
  <2>7. ASSUME NEW p \in Puller, FetchPage(p) PROVE TypeOK'
    <3> DEFINE page == PageOf(Servable(journal, at[p], OpenXids), Limit)
    <3>1. page \subseteq Row
      BY DEF PageOf, Servable
    <3>2. {at[p]} \cup {Pos(e) : e \in page} \subseteq Cursor
      BY <3>1, PosLevel
    <3>3. Kept(page) \subseteq Row
      BY <3>1 DEF Kept
    <3> HIDE DEF page
    <3> QED BY <2>7, <3>2, <3>3 DEF FetchPage, publisher, page
  <2>8. ASSUME NEW p \in Puller, LandEntry(p) PROVE TypeOK'
    BY <2>8 DEF LandEntry, publisher
  <2>9. ASSUME NEW p \in Puller, StorePage(p) PROVE TypeOK'
    BY <2>9 DEF StorePage, publisher
  <2>10. ASSUME NEW p \in Puller, YieldPull(p) PROVE TypeOK'
    BY <2>10 DEF YieldPull, publisher
  <2>11. ASSUME NEW p \in Puller, FailPage(p) PROVE TypeOK'
    BY <2>11 DEF FailPage, publisher
  <2>12. CASE UNCHANGED vars
    BY <2>12 DEF vars, publisher, pull
  <2> QED
    BY <2>1, <2>2, <2>3, <2>4, <2>5, <2>6, <2>7, <2>8, <2>9, <2>10, <2>11, <2>12
    DEF Next, WriterStep, PullStep
<1> QED BY <1>1, <1>2, PTL DEF Spec

-----------------------------------------------------------------------------
(* The publisher: what overlapping transactions keep of each other.        *)

\* Finitely many rows were ever journalled.
FiniteRows ==
  /\ IsFiniteSet(journal)
  /\ \A w \in Writer : IsFiniteSet(pending[w])

\* An open transaction has an id of its own, assigned already.
OwnXids ==
  /\ \A w \in Writer : xid[w] < nextXid
  /\ \A v, w \in Writer : v # w /\ xid[v] # 0 => xid[v] # xid[w]

\* One session holds a source's lock.
LockExclusive ==
  \A v, w \in Writer : v # w /\ lock[v] # None => lock[v] # lock[w]

\* The uncommitted rows of a session carry its id and are of its source.
PendingOwned ==
  \A w \in Writer : \A e \in pending[w] :
    /\ e.txid = xid[w]
    /\ e.seq < nextSeq
    /\ SourceOf[e.rec] = lock[w]

\* A committed row is of a transaction that ended.
JournalEnded ==
  \A e \in journal : /\ e.txid < nextXid
                     /\ e.seq < nextSeq
                     /\ \A w \in Writer : e.txid # xid[w]

\* A transaction that holds a source's lock is younger than every committed
\* row of the source, and its rows are later in sequence.
LockedAfter ==
  \A w \in Writer : \A e \in journal :
    /\ xid[w] # 0 /\ lock[w] = SourceOf[e.rec] => e.txid < xid[w]
    /\ \A f \in pending[w] : e.rec = f.rec => e.seq < f.seq

\* An erasure under way has every older change of its record in hand.
ErasureHolds ==
  \A w \in Writer : \A d \in pending[w] :
    d.op = "erase" =>
      /\ ChangesOf(d.rec, journal) \subseteq doomed[w]
      /\ \A e \in ChangesOf(d.rec, pending[w]) : d.seq < e.seq

PublisherInv ==
  /\ FiniteRows
  /\ OwnXids
  /\ LockExclusive
  /\ PendingOwned
  /\ JournalEnded
  /\ LockedAfter
  /\ ErasureHolds
  /\ RecordOrder
  /\ ErasureFinal

\* No row and no transaction: every part of PublisherInv holds at first.
LEMMA PublisherInit == Init => PublisherInv
  BY FS_EmptySet DEF Init, PublisherInv, FiniteRows, OwnXids, LockExclusive, PendingOwned,
    JournalEnded, LockedAfter, ErasureHolds, RecordOrder, ErasureFinal, ChangesOf

\* A lock taken before the first write orders nothing yet.
LEMMA PublisherLock ==
  ASSUME TypeOK, PublisherInv, NEW w \in Writer, NEW s \in Source, LockSource(w, s)
  PROVE  PublisherInv'
  <1> USE DEF TypeOK, LockSource, PublisherInv
  <1>1. pending[w] = {}
    BY DEF PendingOwned, Row
  <1> QED
    BY <1>1 DEF FiniteRows, OwnXids, LockExclusive, PendingOwned,
      JournalEnded, LockedAfter, ErasureHolds, RecordOrder, ErasureFinal, ChangesOf

\* A new id is past every id a row carries.
LEMMA PublisherFirstWrite ==
  ASSUME TypeOK, PublisherInv, NEW w \in Writer, FirstWrite(w)
  PROVE  PublisherInv'
  <1> USE DEF TypeOK, FirstWrite, PublisherInv
  <1>1. pending[w] = {}
    BY DEF PendingOwned, Row
  <1>2. FiniteRows' /\ LockExclusive' /\ ErasureHolds' /\ RecordOrder' /\ ErasureFinal'
    BY DEF FiniteRows, LockExclusive, ErasureHolds, RecordOrder, ErasureFinal, ChangesOf
  <1>3. OwnXids'
    BY DEF OwnXids
  <1>4. PendingOwned'
    BY <1>1 DEF PendingOwned
  <1>5. JournalEnded'
    BY DEF JournalEnded, Row
  <1>6. LockedAfter'
    BY DEF LockedAfter, JournalEnded
  <1> QED BY <1>2, <1>3, <1>4, <1>5, <1>6

\* A captured row is the last in sequence, and of the session's own source.
LEMMA PublisherCapture ==
  ASSUME TypeOK, PublisherInv, NEW w \in Writer, NEW r \in Record, NEW op \in Op,
         Capture(w, r, op)
  PROVE  PublisherInv'
  <1> DEFINE row == NewRow(w, r, op)
  <1>1. /\ row \in Row /\ row.txid = xid[w] /\ row.seq = nextSeq
        /\ row.rec = r /\ row.op = op
    BY DEF Capture, NewRow, Row, TypeOK
  <1> HIDE DEF row
  <1>2. \A v \in Writer : pending'[v] \subseteq pending[v] \cup {row}
    BY DEF Capture, TypeOK, row
  <1>3. \A v \in Writer : v # w => pending'[v] = pending[v] /\ doomed'[v] = doomed[v]
    BY DEF Capture, TypeOK
  <1>4. doomed[w] \subseteq doomed'[w]
    BY DEF Capture, TypeOK
  <1>5. /\ nextSeq' = nextSeq + 1 /\ journal' = journal /\ nextXid' = nextXid
        /\ lock' = lock /\ xid' = xid /\ lock[w] = SourceOf[r] /\ xid[w] # 0
    BY DEF Capture
  <1>6. FiniteRows'
    BY <1>2, <1>5, FS_AddElement, FS_Subset DEF FiniteRows, PublisherInv
  <1>7. OwnXids' /\ LockExclusive' /\ RecordOrder' /\ ErasureFinal'
    BY <1>5 DEF OwnXids, LockExclusive, RecordOrder, ErasureFinal, PublisherInv
  <1>8. PendingOwned'
    BY <1>1, <1>2, <1>3, <1>5 DEF PendingOwned, PublisherInv, TypeOK, Row
  <1>9. JournalEnded'
    BY <1>5 DEF JournalEnded, PublisherInv, TypeOK, Row
  <1>10. LockedAfter'
    BY <1>1, <1>2, <1>3, <1>5 DEF LockedAfter, JournalEnded, PublisherInv
  <1>11. ErasureHolds'
    <2> SUFFICES ASSUME NEW v \in Writer, NEW d \in pending'[v], d.op = "erase"
                 PROVE  /\ ChangesOf(d.rec, journal) \subseteq doomed'[v]
                        /\ \A e \in ChangesOf(d.rec, pending'[v]) : d.seq < e.seq
      BY <1>5 DEF ErasureHolds
    <2>1. CASE v # w
      BY <2>1, <1>3 DEF ErasureHolds, PublisherInv
    <2>2. CASE v = w /\ d \in pending[w]
      <3>1. ChangesOf(d.rec, journal) \subseteq doomed'[v]
        BY <2>2, <1>4 DEF ErasureHolds, PublisherInv
      <3>2. ASSUME NEW e \in ChangesOf(d.rec, pending'[w]) PROVE d.seq < e.seq
        <4>1. CASE e \in pending[w]
          BY <4>1, <3>2, <2>2 DEF ErasureHolds, PublisherInv, ChangesOf
        <4>2. CASE e = row
          BY <4>2, <1>1, <2>2 DEF PendingOwned, PublisherInv
        <4> QED BY <4>1, <4>2, <3>2, <1>2 DEF ChangesOf
      <3> QED BY <3>1, <3>2, <2>2
    <2>3. CASE v = w /\ d = row
      <3>1. op = "erase"
        BY <2>3, <1>1
      <3>2. ChangesOf(r, journal) \subseteq doomed'[w]
        BY <3>1 DEF Capture, TypeOK
      <3>3. pending'[w] = (pending[w] \ ChangesOf(r, pending[w])) \cup {row}
        BY <3>1 DEF Capture, TypeOK, row
      <3>4. ChangesOf(r, pending'[w]) = {}
        BY <3>1, <3>3, <1>1 DEF ChangesOf
      <3> QED BY <3>2, <3>4, <2>3, <1>1
    <2> QED BY <2>1, <2>2, <2>3, <1>2
  <1> QED BY <1>6, <1>7, <1>8, <1>9, <1>10, <1>11 DEF PublisherInv

\* A commit adds rows that follow every committed row of their source.
LEMMA PublisherCommit ==
  ASSUME TypeOK, PublisherInv, NEW w \in Writer, Commit(w)
  PROVE  PublisherInv'
  <1> USE DEF TypeOK
  <1>1. /\ xid[w] # 0 /\ xid' = [xid EXCEPT ![w] = 0]
        /\ lock' = [lock EXCEPT ![w] = None]
        /\ pending' = [pending EXCEPT ![w] = {}]
        /\ doomed' = [doomed EXCEPT ![w] = {}]
        /\ journal' = (journal \ doomed[w]) \cup pending[w]
        /\ nextXid' = nextXid /\ nextSeq' = nextSeq
    BY DEF Commit, EndTransaction
  <1>2. \A e \in journal' : e \in journal \/ e \in pending[w]
    BY <1>1
  <1>3. \A e \in pending[w] : e \in Row /\ e.txid = xid[w] /\ e.seq < nextSeq
                              /\ SourceOf[e.rec] = lock[w] /\ lock[w] # None
    BY DEF PublisherInv, PendingOwned, Row
  <1>4. FiniteRows'
    <2>1. IsFiniteSet(journal \ doomed[w])
      BY FS_Subset DEF PublisherInv, FiniteRows
    <2>2. IsFiniteSet(journal')
      BY <1>1, <2>1, FS_Union DEF PublisherInv, FiniteRows
    <2> QED BY <1>1, <2>2, FS_EmptySet DEF PublisherInv, FiniteRows
  <1>5. OwnXids'
    BY <1>1 DEF OwnXids, PublisherInv
  <1>6. LockExclusive'
    BY <1>1 DEF LockExclusive, PublisherInv
  <1>7. PendingOwned'
    BY <1>1 DEF PendingOwned, PublisherInv
  <1>8. JournalEnded'
    <2> SUFFICES ASSUME NEW e \in journal'
                 PROVE  /\ e.txid < nextXid' /\ e.seq < nextSeq'
                        /\ \A v \in Writer : e.txid # xid'[v]
      BY DEF JournalEnded
    <2>1. CASE e \in journal
      BY <2>1, <1>1 DEF JournalEnded, PublisherInv, Row
    <2>2. CASE e \in pending[w]
      BY <2>2, <1>1, <1>3 DEF OwnXids, PublisherInv
    <2> QED BY <2>1, <2>2, <1>2
  <1>9. LockedAfter'
    <2> SUFFICES ASSUME NEW v \in Writer, NEW e \in journal'
                 PROVE  /\ xid'[v] # 0 /\ lock'[v] = SourceOf[e.rec] => e.txid < xid'[v]
                        /\ \A f \in pending'[v] : e.rec = f.rec => e.seq < f.seq
      BY DEF LockedAfter
    <2>1. CASE v = w
      BY <2>1, <1>1
    <2>2. CASE v # w /\ e \in journal
      BY <2>2, <1>1 DEF LockedAfter, PublisherInv
    <2>3. CASE v # w /\ e \in pending[w]
      <3>1. SourceOf[e.rec] = lock[w] /\ lock[w] # lock[v]
        BY <2>3, <1>3 DEF LockExclusive, PublisherInv
      <3>2. \A f \in pending[v] : SourceOf[f.rec] = lock[v]
        BY DEF PendingOwned, PublisherInv
      <3>3. pending'[v] = pending[v] /\ lock'[v] = lock[v]
        BY <2>3, <1>1
      <3> QED BY <3>1, <3>2, <3>3
    <2> QED BY <2>1, <2>2, <2>3, <1>2
  <1>10. ErasureHolds'
    <2> SUFFICES ASSUME NEW v \in Writer, v # w, NEW d \in pending[v], d.op = "erase"
                 PROVE  /\ ChangesOf(d.rec, journal') \subseteq doomed[v]
                        /\ \A e \in ChangesOf(d.rec, pending[v]) : d.seq < e.seq
      BY <1>1 DEF ErasureHolds
    <2>1. \A e \in pending[w] : e.rec # d.rec
      BY <1>3 DEF PendingOwned, LockExclusive, PublisherInv
    <2> QED BY <2>1, <1>2 DEF ErasureHolds, PublisherInv, ChangesOf
  <1>11. RecordOrder'
    <2> SUFFICES ASSUME NEW e \in journal', NEW f \in journal', e.rec = f.rec, e.seq < f.seq
                 PROVE  e.txid <= f.txid
      BY DEF RecordOrder
    <2>1. CASE e \in journal /\ f \in journal
      BY <2>1 DEF RecordOrder, PublisherInv
    <2>2. CASE e \in journal /\ f \in pending[w]
      BY <2>2, <1>1, <1>3 DEF LockedAfter, PublisherInv, Row
    <2>3. CASE e \in pending[w] /\ f \in journal
      BY <2>3, <1>3 DEF LockedAfter, PublisherInv, Row
    <2>4. CASE e \in pending[w] /\ f \in pending[w]
      BY <2>4, <1>3
    <2> QED BY <2>1, <2>2, <2>3, <2>4, <1>2
  <1>12. ErasureFinal'
    <2> SUFFICES ASSUME NEW d \in journal', NEW e \in journal',
                        d.op = "erase", e.op = "change", e.rec = d.rec
                 PROVE  e.seq > d.seq
      BY DEF ErasureFinal
    <2>1. CASE d \in journal /\ e \in journal
      BY <2>1 DEF ErasureFinal, PublisherInv
    <2>2. CASE d \in journal /\ e \in pending[w]
      BY <2>2 DEF LockedAfter, PublisherInv
    <2>3. CASE d \in pending[w] /\ e \in journal /\ e \notin doomed[w]
      BY <2>3 DEF ErasureHolds, PublisherInv, ChangesOf
    <2>4. CASE d \in pending[w] /\ e \in pending[w]
      BY <2>4 DEF ErasureHolds, PublisherInv, ChangesOf
    <2> QED BY <2>1, <2>2, <2>3, <2>4, <1>1
  <1> QED BY <1>4, <1>5, <1>6, <1>7, <1>8, <1>9, <1>10, <1>11, <1>12 DEF PublisherInv

\* A transaction rolled back leaves the journal as it was.
LEMMA PublisherAbort ==
  ASSUME TypeOK, PublisherInv, NEW w \in Writer, Abort(w)
  PROVE  PublisherInv'
  <1> USE DEF TypeOK, Abort, EndTransaction, PublisherInv
  <1>1. FiniteRows'
    BY FS_EmptySet DEF FiniteRows
  <1>2. OwnXids' /\ LockExclusive' /\ PendingOwned' /\ LockedAfter' /\ ErasureHolds'
    BY DEF OwnXids, LockExclusive, PendingOwned, LockedAfter, ErasureHolds, ChangesOf
  <1>3. JournalEnded'
    BY DEF JournalEnded, Row
  <1>4. RecordOrder' /\ ErasureFinal'
    BY DEF RecordOrder, ErasureFinal
  <1> QED BY <1>1, <1>2, <1>3, <1>4

\* The publisher's part depends on the publisher's state only.
LEMMA PublisherStep == TypeOK /\ PublisherInv /\ [Next]_vars => PublisherInv'
  <1> SUFFICES ASSUME TypeOK, PublisherInv, [Next]_vars PROVE PublisherInv'
    OBVIOUS
  <1>1. ASSUME NEW w \in Writer, WriterStep(w) PROVE PublisherInv'
    BY <1>1, PublisherLock, PublisherFirstWrite, PublisherCapture, PublisherCommit,
       PublisherAbort DEF WriterStep
  <1>2. CASE UNCHANGED publisher
    BY <1>2 DEF publisher, PublisherInv, FiniteRows, OwnXids, LockExclusive, PendingOwned,
       JournalEnded, LockedAfter, ErasureHolds, RecordOrder, ErasureFinal
  <1>3. ASSUME NEW p \in Puller, PullStep(p) PROVE UNCHANGED publisher
    BY <1>3 DEF PullStep, StartPull, FetchPage, LandEntry, StorePage, YieldPull, FailPage
  <1>4. CASE UNCHANGED vars
    BY <1>4, <1>2 DEF vars
  <1> QED BY <1>1, <1>2, <1>3, <1>4 DEF Next

\* The rows of a record keep their order, and an erasure stays final, however
\* the publisher's transactions overlap (outbox.ts, federation_journal_tombstone).
THEOREM RecordsInOrder == Spec => [](RecordOrder /\ ErasureFinal)
  <1>1. TypeOK /\ PublisherInv /\ [Next]_vars => PublisherInv'
    BY PublisherStep
  <1>2. PublisherInv => RecordOrder /\ ErasureFinal
    BY DEF PublisherInv
  <1> QED BY <1>1, <1>2, PublisherInit, TypeCorrect, PTL DEF Spec

\* No change of a record stays in the journal behind its erasure, nor comes after
\* it, whatever transactions were open when it was erased
\* (federation_journal_tombstone).
THEOREM ErasureIsFinal == Spec => []ErasureFinal
  BY RecordsInOrder, PTL

-----------------------------------------------------------------------------
(* The subscriber: what a pull may rely on while transactions commit.      *)

\* A position is older than every transaction still open, and than every one
\* to come: no row can be committed at or before it.
Settled(pos) ==
  /\ pos.txid < nextXid
  /\ \A w \in Writer : xid[w] # 0 => pos.txid < xid[w]

\* Every position a pull or the stored cursor reached, and every row that came
\* with a page, is settled: what the fence is for.
AllSettled ==
  /\ Settled(cursor)
  /\ \A p \in Puller : /\ Settled(at[p])
                       /\ Settled(mark[p])
                       /\ \A e \in todo[p] : Settled(e)
  /\ \A e \in landed : Settled(e)

\* Everything the filter keeps up to a position landed.
Delivered(pos) == \A e \in Kept(journal) : Before(pos, e) \/ e \in landed

\* Everything up to the page being landed is landed or on the page.
PageInHand ==
  \A p \in Puller : pc[p] = "landing" =>
    /\ \A e \in Kept(journal) :
         Before(mark[p], e) \/ e \in landed \/ e \in todo[p]
    /\ \A e \in todo[p] : ~Before(mark[p], e)

SubscriberInv ==
  /\ AllSettled
  /\ Delivered(cursor)
  /\ \A p \in Puller : Delivered(at[p])
  /\ PageInHand
  /\ LandsInOrder

Inv == TypeOK /\ PublisherInv /\ SubscriberInv

\* With an empty journal everything was delivered.
LEMMA SubscriberInit == Init => SubscriberInv
  BY DEF Init, SubscriberInv, AllSettled, Settled, Delivered, PageInHand, LandsInOrder,
    Kept, Start

\* A commit adds rows past every settled position, so it disturbs nothing.
LEMMA SubscriberCommit ==
  ASSUME Inv, NEW w \in Writer, Commit(w)
  PROVE  SubscriberInv'
  <1>1. /\ xid[w] # 0 /\ journal' = (journal \ doomed[w]) \cup pending[w]
        /\ nextXid' = nextXid /\ xid' = [xid EXCEPT ![w] = 0]
        /\ UNCHANGED <<cursor, pc, at, mark, more, todo, landed>>
    BY DEF Commit, EndTransaction, pull
  <1>2. \A pos : Settled(pos) => Settled(pos)'
    BY <1>1 DEF Settled, Inv, TypeOK
  <1>3. \A pos \in Position : Settled(pos) =>
          /\ \A e \in pending[w] : Before(pos, e)
          /\ pos \notin pending[w]
    BY <1>1 DEF Settled, Inv, PublisherInv, PendingOwned, Before, Position, Row, Cursor,
       TypeOK
  <1>4. AllSettled'
    BY <1>1, <1>2 DEF AllSettled, SubscriberInv, Inv
  <1>5. \A e \in Kept(journal') : e \in Kept(journal) \/ e \in pending[w]
    BY <1>1 DEF Kept
  <1>6. /\ cursor \in Position
        /\ \A p \in Puller : at[p] \in Position /\ mark[p] \in Position
        /\ landed \subseteq Position
        /\ \A p \in Puller : todo[p] \subseteq Position
    BY DEF Inv, TypeOK, Position
  <1>7. /\ Delivered(cursor)'
        /\ \A p \in Puller : Delivered(at[p])'
    BY <1>1, <1>3, <1>5, <1>6 DEF Delivered, SubscriberInv, AllSettled, Inv
  <1>8. PageInHand'
    BY <1>1, <1>3, <1>5, <1>6 DEF PageInHand, SubscriberInv, AllSettled, Inv
  <1>9. LandsInOrder'
    <2> SUFFICES ASSUME NEW e \in Kept(journal'), NEW f \in Kept(journal'),
                        Before(e, f), f \in landed
                 PROVE  e \in landed
      BY <1>1 DEF LandsInOrder
    <2>1. f \in Kept(journal)
      BY <1>3, <1>5, <1>6 DEF SubscriberInv, AllSettled, Inv
    <2>2. CASE e \in Kept(journal)
      BY <2>1, <2>2 DEF LandsInOrder, SubscriberInv, Inv
    <2>3. CASE e \in pending[w]
      <3>1. Before(f, e)
        BY <2>3, <1>3, <1>6 DEF SubscriberInv, AllSettled, Inv
      <3>2. e \in Position /\ f \in Position
        BY <2>3, <1>6 DEF Inv, TypeOK, Position
      <3> QED BY <3>1, <3>2, BeforeOrder
    <2> QED BY <2>2, <2>3, <1>5
  <1> QED BY <1>1, <1>4, <1>7, <1>8, <1>9 DEF SubscriberInv

\* A session's other steps commit nothing; a new id is past every position.
LEMMA SubscriberWriter ==
  ASSUME Inv, NEW w \in Writer, WriterStep(w), ~Commit(w)
  PROVE  SubscriberInv'
  <1>1. /\ UNCHANGED <<journal, cursor, pc, at, mark, more, todo, landed>>
        /\ nextXid' \in Nat /\ nextXid <= nextXid'
        /\ \A v \in Writer : xid'[v] \in {0, xid[v], nextXid}
    BY DEF WriterStep, LockSource, FirstWrite, Capture, Abort, EndTransaction, pull,
       Inv, TypeOK
  <1>2. \A pos \in Position : Settled(pos) => Settled(pos)'
    BY <1>1 DEF Settled, Inv, TypeOK, Position, Row, Cursor
  <1>3. AllSettled'
    BY <1>1, <1>2 DEF AllSettled, SubscriberInv, Inv, TypeOK, Position
  <1> QED BY <1>1, <1>3
    DEF SubscriberInv, Delivered, PageInHand, LandsInOrder, Inv

\* A page holds everything up to its mark that did not land, and is settled.
LEMMA SubscriberFetch ==
  ASSUME Inv, NEW p \in Puller, FetchPage(p)
  PROVE  SubscriberInv'
  <1> DEFINE page == PageOf(Servable(journal, at[p], OpenXids), Limit)
  <1>1. PICK m \in {at[p]} \cup {Pos(e) : e \in page} :
          /\ IsHighWater(m, page, at[p])
          /\ mark' = [mark EXCEPT ![p] = m]
    BY DEF FetchPage
  <1>2. /\ pc' = [pc EXCEPT ![p] = "landing"]
        /\ todo' = [todo EXCEPT ![p] = Kept(page)]
        /\ UNCHANGED <<nextXid, xid, journal, cursor, at, landed>>
    BY DEF FetchPage, publisher
  <1>3. /\ page \subseteq journal /\ journal \subseteq Row
        /\ \A e \in page : \A x \in OpenXids : e.txid < x
    BY DEF PageOf, Servable, Inv, TypeOK
  <1>4. /\ at[p] \in Cursor /\ m \in Cursor
        /\ mark'[p] = m /\ todo'[p] = Kept(page)
        /\ \A q \in Puller : q # p => /\ mark'[q] = mark[q] /\ todo'[q] = todo[q]
                                      /\ pc'[q] = pc[q]
    BY <1>1, <1>2, <1>3, PosLevel DEF Inv, TypeOK
  <1>5. \A e \in page : Settled(e) /\ Settled(Pos(e))
    BY <1>3 DEF Settled, Pos, OpenXids, Inv, PublisherInv, JournalEnded
  <1>6. OpenXids \in SUBSET Nat /\ IsFiniteSet(journal)
    BY DEF OpenXids, Inv, TypeOK, PublisherInv, FiniteRows
  <1> HIDE DEF page
  <1>7. Settled(m)
    BY <1>5 DEF SubscriberInv, AllSettled, Inv
  <1>8. AllSettled'
    BY <1>2, <1>4, <1>5, <1>7 DEF AllSettled, Settled, SubscriberInv, Inv, Kept
  <1>9. Delivered(cursor)' /\ \A q \in Puller : Delivered(at[q])'
    BY <1>2 DEF Delivered, SubscriberInv, Inv
  <1>10. LandsInOrder'
    BY <1>2 DEF LandsInOrder, SubscriberInv, Inv
  <1>11. \A e \in Kept(journal) : Before(m, e) \/ e \in landed \/ e \in Kept(page)
    <2> SUFFICES ASSUME NEW e \in Kept(journal), e \notin landed
                 PROVE  Before(m, e) \/ e \in Kept(page)
      OBVIOUS
    <2>1. e \in journal /\ (e \in page => e \in Kept(page))
      BY DEF Kept
    <2>2. Before(at[p], e)
      BY DEF SubscriberInv, Delivered, Inv
    <2> QED BY <2>1, <2>2, <1>1, <1>3, <1>4, <1>6, PageWhole DEF page
  <1>12. \A e \in Kept(page) : ~Before(m, e)
    BY <1>1 DEF Kept, IsHighWater
  <1>13. PageInHand'
    BY <1>2, <1>4, <1>11, <1>12 DEF PageInHand, SubscriberInv, Inv
  <1> QED BY <1>8, <1>9, <1>10, <1>13 DEF SubscriberInv

\* The first entry of a page that has not landed has none before it to land.
LEMMA SubscriberLand ==
  ASSUME Inv, NEW p \in Puller, LandEntry(p)
  PROVE  SubscriberInv'
  <1>1. PICK e \in todo[p] : /\ \A f \in todo[p] : ~Before(f, e)
                             /\ landed' = landed \cup {e}
                             /\ todo' = [todo EXCEPT ![p] = @ \ {e}]
    BY DEF LandEntry
  <1>2. /\ pc[p] = "landing"
        /\ UNCHANGED <<nextXid, xid, journal, cursor, pc, at, mark, more>>
    BY DEF LandEntry, publisher
  <1>3. \A q \in Puller : /\ todo'[q] \subseteq todo[q]
                          /\ todo[q] \subseteq todo'[q] \cup {e}
    BY <1>1 DEF Inv, TypeOK
  <1>4. AllSettled'
    BY <1>1, <1>2, <1>3 DEF AllSettled, Settled, SubscriberInv, Inv
  <1>5. Delivered(cursor)' /\ \A q \in Puller : Delivered(at[q])'
    BY <1>1, <1>2 DEF Delivered, SubscriberInv, Inv
  <1>6. PageInHand'
    BY <1>1, <1>2, <1>3 DEF PageInHand, SubscriberInv, Inv
  <1>7. LandsInOrder'
    <2> SUFFICES ASSUME NEW d \in Kept(journal), NEW f \in Kept(journal),
                        Before(d, f), f \in landed', d \notin landed'
                 PROVE  FALSE
      BY <1>2 DEF LandsInOrder
    <2>1. f = e
      BY <1>1 DEF LandsInOrder, SubscriberInv, Inv
    <2>2. d \in Position /\ e \in Position /\ mark[p] \in Position
      BY DEF Kept, Inv, TypeOK, Position
    <2>3. ~Before(mark[p], d)
      BY <2>1, <2>2, <1>2, BeforeOrder DEF PageInHand, SubscriberInv, Inv
    <2>4. d \in todo[p]
      BY <2>3, <1>1, <1>2 DEF PageInHand, SubscriberInv, Inv
    <2> QED BY <2>1, <2>4, <1>1
  <1> QED BY <1>4, <1>5, <1>6, <1>7 DEF SubscriberInv

\* A page that landed whole was delivered up to its mark.
LEMMA SubscriberStore ==
  ASSUME Inv, NEW p \in Puller, StorePage(p)
  PROVE  SubscriberInv'
  <1>1. /\ pc[p] = "landing" /\ todo[p] = {}
        /\ UNCHANGED <<nextXid, xid, journal, mark, todo, landed>>
        /\ \A q \in Puller : pc'[q] = "landing" => pc[q] = "landing"
        /\ cursor' \in {cursor, mark[p]}
        /\ \A q \in Puller : at'[q] \in {at[q], mark[p]}
    BY DEF StorePage, publisher, Inv, TypeOK
  <1>2. Delivered(mark[p])
    BY <1>1 DEF Delivered, PageInHand, SubscriberInv, Inv
  <1>3. AllSettled'
    BY <1>1 DEF AllSettled, Settled, SubscriberInv, Inv
  <1>4. Delivered(cursor)' /\ \A q \in Puller : Delivered(at[q])'
    BY <1>1, <1>2 DEF Delivered, SubscriberInv, Inv
  <1>5. PageInHand' /\ LandsInOrder'
    BY <1>1 DEF PageInHand, LandsInOrder, SubscriberInv, Inv
  <1> QED BY <1>3, <1>4, <1>5 DEF SubscriberInv

\* A pull that starts is where the stored cursor is; one that stops forgets.
LEMMA SubscriberRest ==
  ASSUME Inv, NEW p \in Puller, StartPull(p) \/ YieldPull(p) \/ FailPage(p)
  PROVE  SubscriberInv'
  <1>1. /\ UNCHANGED <<nextXid, xid, journal, cursor, mark, landed>>
        /\ \A q \in Puller : /\ pc'[q] = "landing" => pc[q] = "landing" /\ q # p
                             /\ todo'[q] \subseteq todo[q]
                             /\ q # p => todo'[q] = todo[q]
                             /\ at'[q] \in {at[q], cursor}
    BY DEF StartPull, YieldPull, FailPage, publisher, Inv, TypeOK
  <1>2. AllSettled'
    BY <1>1 DEF AllSettled, Settled, SubscriberInv, Inv
  <1>3. Delivered(cursor)' /\ \A q \in Puller : Delivered(at[q])'
    BY <1>1 DEF Delivered, SubscriberInv, Inv
  <1>4. PageInHand' /\ LandsInOrder'
    BY <1>1 DEF PageInHand, LandsInOrder, SubscriberInv, Inv
  <1> QED BY <1>2, <1>3, <1>4 DEF SubscriberInv

\* The two parts hold at first.
LEMMA InvInit == Init => PublisherInv /\ SubscriberInv
  BY PublisherInit, SubscriberInit

\* Inv is inductive.
LEMMA InvStep == Inv /\ [Next]_vars => SubscriberInv'
  <1> SUFFICES ASSUME Inv, [Next]_vars PROVE SubscriberInv'
    OBVIOUS
  <1>1. ASSUME NEW w \in Writer, WriterStep(w) PROVE SubscriberInv'
    BY <1>1, SubscriberCommit, SubscriberWriter
  <1>2. ASSUME NEW p \in Puller, PullStep(p) PROVE SubscriberInv'
    BY <1>2, SubscriberFetch, SubscriberLand, SubscriberStore, SubscriberRest DEF PullStep
  <1>3. CASE UNCHANGED vars
    <2>1. UNCHANGED <<nextXid, xid, journal, cursor, pc, at, mark, todo, landed>>
      BY <1>3 DEF vars, publisher, pull
    <2>2. SubscriberInv
      BY DEF Inv
    <2>3. AllSettled'
      BY <2>1, <2>2 DEF SubscriberInv, AllSettled, Settled
    <2>4. /\ Delivered(cursor)' /\ \A p \in Puller : Delivered(at[p])'
          /\ PageInHand' /\ LandsInOrder'
      BY <2>1, <2>2 DEF SubscriberInv, Delivered, PageInHand, LandsInOrder
    <2> QED BY <2>3, <2>4 DEF SubscriberInv
  <1> QED BY <1>1, <1>2, <1>3 DEF Next

\* Every reachable state satisfies Inv.
LEMMA Invariance == Spec => []Inv
  <1>1. PublisherInv /\ SubscriberInv /\ TypeOK <=> Inv
    BY DEF Inv
  <1>2. TypeOK /\ PublisherInv /\ [Next]_vars => PublisherInv'
    BY PublisherStep
  <1> QED BY <1>1, <1>2, InvInit, InvStep, TypeCorrect, PTL DEF Spec

-----------------------------------------------------------------------------
(* The theorems.                                                           *)

\* No committed row the filter keeps is ever passed by the stored cursor
\* (outbox.ts, readOutbox; puller.ts, storeCursor).
THEOREM NoGaps == Spec => []GapFree
  <1>1. Inv => GapFree
    BY DEF Inv, SubscriberInv, Delivered, GapFree
  <1> QED BY <1>1, Invariance, PTL

\* Rows land in the journal's order, whatever pulls overlap or fail.
THEOREM OrderedDelivery == Spec => []LandsInOrder
  <1>1. Inv => LandsInOrder
    BY DEF Inv, SubscriberInv
  <1> QED BY <1>1, Invariance, PTL

\* Only StorePage moves the stored cursor, and never back.
LEMMA CursorForward ==
  ASSUME Inv, [Next]_vars
  PROVE  cursor' = cursor \/ Before(cursor, cursor')
  <1>1. ASSUME NEW w \in Writer, WriterStep(w) PROVE cursor' = cursor
    BY <1>1 DEF WriterStep, LockSource, FirstWrite, Capture, Commit, Abort, EndTransaction
  <1>2. ASSUME NEW p \in Puller, PullStep(p) PROVE cursor' = cursor \/ Before(cursor, cursor')
    BY <1>2 DEF PullStep, StartPull, FetchPage, LandEntry, StorePage, YieldPull, FailPage
  <1> QED BY <1>1, <1>2 DEF Next, vars

\* Two overlapping pulls never move the stored cursor back (puller.ts,
\* storeCursor).
THEOREM CursorMonotonic == Spec => CursorNeverBack
  <1>1. Inv /\ Inv' /\ [Next]_vars => [~Before(cursor', cursor)]_cursor
    <2> SUFFICES ASSUME Inv, Inv', [Next]_vars, cursor' # cursor
                 PROVE  ~Before(cursor', cursor)
      OBVIOUS
    <2>1. cursor \in Position /\ cursor' \in Position
      BY DEF Inv, TypeOK, Position
    <2> QED BY <2>1, CursorForward, BeforeOrder
  <1> QED BY <1>1, Invariance, PTL DEF CursorNeverBack, Spec

\* The journal and the pulls that read it implement the feed.
THEOREM ImplementsFeed == Spec => FeedSpec
  <1>1. Init => Owed!Init
    BY DEF Init, Owed!Init, Owed!Start, Start, Kept
  <1>2. Inv /\ Inv' /\ [Next]_vars => [Owed!Next]_<<Kept(journal), cursor, landed>>
    <2> SUFFICES ASSUME Inv, Inv', [Next]_vars
                 PROVE  Owed!Next \/ UNCHANGED <<Kept(journal), cursor, landed>>
      OBVIOUS
    <2>1. ASSUME NEW w \in Writer, Commit(w) PROVE Owed!Publish
      <3>1. /\ xid[w] # 0 /\ journal' = (journal \ doomed[w]) \cup pending[w]
            /\ UNCHANGED <<cursor, landed>>
        BY <2>1 DEF Commit, EndTransaction
      <3>2. \A e \in Kept(journal') \ Kept(journal) : e \in pending[w]
        BY <3>1 DEF Kept
      <3>3. \A e \in pending[w] : Before(cursor, e)
        BY <3>1 DEF Inv, SubscriberInv, AllSettled, Settled, PublisherInv, PendingOwned,
           Before
      <3> QED BY <3>1, <3>2, <3>3 DEF Owed!Publish, Owed!Before, Before
    <2>2. ASSUME NEW w \in Writer, WriterStep(w), ~Commit(w)
          PROVE  UNCHANGED <<Kept(journal), cursor, landed>>
      BY <2>2 DEF WriterStep, LockSource, FirstWrite, Capture, Abort, EndTransaction
    <2>3. ASSUME NEW p \in Puller, LandEntry(p) PROVE Owed!Receive
      BY <2>3 DEF LandEntry, publisher, Owed!Receive
    <2>4. ASSUME NEW p \in Puller, StorePage(p)
          PROVE  Owed!Advance \/ UNCHANGED <<Kept(journal), cursor, landed>>
      <3>1. /\ pc[p] = "landing" /\ todo[p] = {} /\ UNCHANGED <<journal, landed>>
            /\ cursor' = cursor \/ (cursor' = mark[p] /\ Before(cursor, mark[p]))
        BY <2>4 DEF StorePage, publisher
      <3>2. \A e \in Kept(journal) : Before(mark[p], e) \/ e \in landed
        BY <3>1 DEF Inv, SubscriberInv, PageInHand
      <3> QED BY <3>1, <3>2 DEF Owed!Advance, Owed!Before, Before
    <2>5. ASSUME NEW p \in Puller, PullStep(p), ~LandEntry(p), ~StorePage(p)
          PROVE  UNCHANGED <<Kept(journal), cursor, landed>>
      BY <2>5 DEF PullStep, StartPull, FetchPage, YieldPull, FailPage, publisher
    <2>6. CASE UNCHANGED vars
      BY <2>6 DEF vars, publisher
    <2> QED BY <2>1, <2>2, <2>3, <2>4, <2>5, <2>6 DEF Next, Owed!Next
  <1> QED BY <1>1, <1>2, Invariance, PTL DEF Spec, FeedSpec, Owed!Spec

\* What implementing the feed comes to, from its specification alone: nothing owed is
\* passed unseen, and the mark never moves back (puller.ts, storeCursor).
THEOREM FeedCovers == FeedSpec => []Owed!Covered /\ Owed!OnlyForward
  <1> DEFINE fvars == <<Kept(journal), cursor, landed>>
  <1>1. Owed!Init => Owed!Covered
    BY DEF Owed!Init, Owed!Covered
  <1>2. Owed!Covered /\ [Owed!Next]_fvars => Owed!Covered'
    <2> SUFFICES ASSUME Owed!Covered, [Owed!Next]_fvars PROVE Owed!Covered'
      OBVIOUS
    <2>1. CASE Owed!Publish
      BY <2>1 DEF Owed!Publish, Owed!Covered
    <2>2. CASE Owed!Receive
      BY <2>2 DEF Owed!Receive, Owed!Covered
    <2>3. CASE Owed!Advance
      BY <2>3 DEF Owed!Advance, Owed!Covered
    <2>4. CASE UNCHANGED fvars
      BY <2>4 DEF Owed!Covered, Owed!Before
    <2> QED BY <2>1, <2>2, <2>3, <2>4 DEF Owed!Next
  <1>3. [Owed!Next]_fvars => [cursor' = cursor \/ Owed!Before(cursor, cursor')]_fvars
    BY DEF Owed!Next, Owed!Publish, Owed!Receive, Owed!Advance
  <1> QED BY <1>1, <1>2, <1>3, PTL DEF FeedSpec, Owed!Spec, Owed!OnlyForward

\* What a step does to the fence: the rows it commits are of a transaction that was
\* open, and the only transaction it opens is past every row.
LEMMA FenceMoves ==
  ASSUME Inv, [Next]_vars
  PROVE  /\ \A e \in journal' \ journal : e.txid \in OpenXids
         /\ OpenXids' \subseteq OpenXids \cup {nextXid}
  <1>1. ASSUME NEW w \in Writer, Commit(w)
        PROVE  /\ \A e \in journal' \ journal : e.txid \in OpenXids
               /\ OpenXids' \subseteq OpenXids
    <2>1. /\ journal' = (journal \ doomed[w]) \cup pending[w] /\ xid[w] # 0
          /\ \A v \in Writer : xid'[v] \in {0, xid[v]}
      BY <1>1 DEF Commit, EndTransaction, Inv, TypeOK
    <2>2. \A e \in pending[w] : e.txid = xid[w]
      BY DEF Inv, PublisherInv, PendingOwned
    <2> QED BY <2>1, <2>2 DEF OpenXids
  <1>2. ASSUME NEW w \in Writer, WriterStep(w), ~Commit(w)
        PROVE  journal' = journal /\ OpenXids' \subseteq OpenXids \cup {nextXid}
    <2>1. journal' = journal /\ \A v \in Writer : xid'[v] \in {0, xid[v], nextXid}
      BY <1>2 DEF WriterStep, LockSource, FirstWrite, Capture, Abort, EndTransaction, Inv,
         TypeOK
    <2> QED BY <2>1 DEF OpenXids
  <1>3. ASSUME NEW p \in Puller, PullStep(p) PROVE UNCHANGED <<journal, xid>>
    BY <1>3 DEF PullStep, StartPull, FetchPage, LandEntry, StorePage, YieldPull, FailPage,
       publisher
  <1>4. CASE UNCHANGED <<journal, xid>>
    BY <1>4 DEF OpenXids
  <1> QED BY <1>1, <1>2, <1>3, <1>4 DEF Next, vars, publisher

\* The rows the fence lets through are a sequence that grows at its end
\* (outbox.ts, readOutbox's WHERE), for any transactions and any order of commits.
THEOREM FenceIsSequence == Spec => FencedGrows
  <1>1. Inv /\ Inv' /\ [Next]_vars =>
          /\ \A e \in Fenced' \ Fenced, f \in Fenced : Before(f, e)
          /\ Fenced \cap journal' \subseteq Fenced'
    <2> SUFFICES ASSUME Inv, Inv', [Next]_vars
                 PROVE  /\ \A e \in Fenced' \ Fenced, f \in Fenced : Before(f, e)
                        /\ Fenced \cap journal' \subseteq Fenced'
      OBVIOUS
    <2>1. /\ journal \subseteq Row /\ journal' \subseteq Row
          /\ nextXid \in Nat /\ OpenXids \subseteq Nat
      BY DEF Inv, TypeOK, OpenXids
    <2>2. /\ \A e \in Row : e.txid \in Nat
          /\ \A e \in Row : Before(Start, e)
      BY DEF Row, Before, Start
    <2>3. \A e : e \in Fenced <=> e \in journal /\ \A x \in OpenXids : e.txid < x
      BY <2>1, <2>2 DEF Fenced, Servable
    <2>4. \A e : e \in Fenced' <=> e \in journal' /\ \A x \in OpenXids' : e.txid < x
      BY <2>1, <2>2 DEF Fenced, Servable
    <2>5. \A e \in journal : e.txid < nextXid
      BY DEF Inv, PublisherInv, JournalEnded
    <2>6. ASSUME NEW e \in Fenced', e \notin Fenced, NEW f \in Fenced PROVE Before(f, e)
      <3>1. PICK x \in OpenXids : ~(e.txid < x)
        BY <2>1, <2>2, <2>3, <2>4, <2>6, FenceMoves
      <3>2. f.txid < x /\ f.txid \in Nat /\ e.txid \in Nat /\ x \in Nat
        BY <2>1, <2>2, <2>3, <2>4, <2>6
      <3> QED BY <3>1, <3>2 DEF Before
    <2>7. Fenced \cap journal' \subseteq Fenced'
      BY <2>3, <2>4, <2>5, FenceMoves
    <2> QED BY <2>6, <2>7
  <1> QED BY <1>1, Invariance, PTL DEF FencedGrows, Spec

=============================================================================
