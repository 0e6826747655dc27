-------------------------------- MODULE Feed --------------------------------
(***************************************************************************)
(* What the journal promises a reader, whatever the publisher's            *)
(* transactions do: a mark that only moves forward, everything up to it    *)
(* seen, and nothing ever appearing behind it.                             *)
(*                                                                         *)
(* Rows may leave the log (an erasure removes a record's changes): what    *)
(* left is not owed any more.                                              *)
(***************************************************************************)
EXTENDS Journal

VARIABLES
  log,     \* the rows owed to the reader
  mark,    \* how far the reader has recorded that it read
  seen     \* the rows that reached the reader

Init ==
  /\ log = {}
  /\ mark = Start
  /\ seen = {}

\* The publisher adds rows, all past the mark, or removes some.
Publish ==
  /\ \A e \in log' \ log : Before(mark, e)
  /\ UNCHANGED <<mark, seen>>

\* The reader receives rows, of this log or of one it read earlier.
Receive ==
  /\ seen \subseteq seen'
  /\ UNCHANGED <<log, mark>>

\* The reader records that it read on, with or after what it receives: nothing up
\* to there is left unseen.
Advance ==
  /\ Before(mark, mark')
  /\ seen \subseteq seen'
  /\ \A e \in log : Before(mark', e) \/ e \in seen'
  /\ UNCHANGED log

Next == Publish \/ Receive \/ Advance

Spec == Init /\ [][Next]_<<log, mark, seen>>

\* What it comes to: nothing owed up to the mark is unseen, and the mark never moves
\* back.
Covered == \A e \in log : Before(mark, e) \/ e \in seen
OnlyForward == [][mark' = mark \/ Before(mark, mark')]_<<log, mark, seen>>
=============================================================================
