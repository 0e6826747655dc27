------------------------------- MODULE MCPull -------------------------------
(***************************************************************************)
(* The instances of Replica and Backfill that TLC checks.  They share no    *)
(* state: a behaviour is of one of them, and the other rests.               *)
(***************************************************************************)
EXTENDS MCReplica, Backfill

\* Whose behaviour it is.
VARIABLE part

PullInit ==
  /\ Init /\ BackfillInit
  /\ part \in {"copy", "window"}
  /\ part = "window" => scenario = CHOOSE s \in Scenarios : TRUE

PullNext ==
  /\ UNCHANGED part
  /\ \/ part = "copy" /\ Next /\ UNCHANGED backfill
     \/ part = "window" /\ BackfillNext /\ UNCHANGED vars

PullSpec == PullInit /\ [][PullNext]_<<part, vars, backfill>>
=============================================================================
