------------------------------ MODULE Journal ------------------------------
(***************************************************************************)
(* The order of the federation journal and the page a reader takes of it   *)
(* (packages/federation/src/outbox.ts): the composite (txid, seq) cursor,  *)
(* the xmin fence and the page limit.  Pure operators, shared by every     *)
(* module that reads the journal.                                          *)
(*                                                                         *)
(* A row is a record with at least a txid and a seq; a cursor is a record  *)
(* with exactly these two.                                                 *)
(***************************************************************************)
EXTENDS Naturals, FiniteSets

\* The cursor that serves the whole journal.
Start == [txid |-> 0, seq |-> 0]

\* The (txid, seq) position of a row: what a reader stores once it scanned it.
Pos(row) == [txid |-> row.txid, seq |-> row.seq]

\* Strictly before in the journal's order: transaction first, then sequence.
Before(a, b) ==
  \/ a.txid < b.txid
  \/ a.txid = b.txid /\ a.seq < b.seq

\* Mutant of Servable: the read without its fence.
ServableUnfenced(rows, after, open) == {r \in rows : Before(after, r)}

\* The rows a read from cursor "after" may serve: past it, and of a
\* transaction older than every transaction still open ("open" holds their
\* ids), which is `txid < pg_snapshot_xmin(pg_current_snapshot())`.
Servable(rows, after, open) ==
  {r \in rows : Before(after, r) /\ \A x \in open : r.txid < x}

\* The page: the first "limit" of them, in order.
PageOf(servable, limit) ==
  {r \in servable : Cardinality({q \in servable : Before(q, r)}) < limit}

\* A position is the page's high-water mark when it is the last row scanned,
\* or the cursor asked for when there was none.
IsHighWater(mark, page, after) ==
  IF page = {} THEN mark = after
               ELSE /\ mark \in {Pos(r) : r \in page}
                    /\ \A r \in page : ~Before(mark, r)
=============================================================================
