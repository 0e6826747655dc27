------------------------------ MODULE MCReplica ------------------------------
(* The scenarios of Replica that TLC checks. *)
EXTENDS Replica

\* Every change of a record but its lifetime's, over channels that fail and retry but
\* go on; lifetimes that pass and move, with the clock that takes; and a push that may
\* stop for good or land late, for the changes that take a new revision.
MCScenarios ==
  {[changes |-> {"revise", "end", "erase", "restrict", "withdraw"},
    faults |-> {}, revs |-> 2, until |-> 0],
   [changes |-> {"revise", "end", "life"}, faults |-> {}, revs |-> 2, until |-> 2],
   [changes |-> {"revise", "end", "erase"}, faults |-> {"stop", "late"}, revs |-> 3,
    until |-> 0]}

\* A push that stops while the record's source turns restricted.
MCStopped == {[changes |-> {"revise", "restrict"}, faults |-> {"stop"}, revs |-> 1, until |-> 1]}
=============================================================================
