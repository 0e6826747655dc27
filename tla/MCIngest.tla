------------------------------ MODULE MCIngest ------------------------------
(***************************************************************************)
(* The instances of OnDemand, RoadBinding and FeedPoll that TLC checks.     *)
(* They share no state: a behaviour is of one of them, and the others rest. *)
(***************************************************************************)
EXTENDS OnDemand, RoadBinding, MCFeedPoll, TLC

\* Processes and cells are interchangeable.
Symmetry == Permutations(Procs) \cup Permutations(Cells)

\* One situation bound by every pass there is, revised or with a second change of the
\* spine, or all situations by the drain alone.
OneRoad ==
  LET road == CHOOSE r \in Records : TRUE
  IN /\ situation[road].revision + spine <= 3
     /\ \A r \in Records \ {road} : situation[r].revision = 0

DrainAlone ==
  /\ \A p \in Others : pass[p].stage = "idle"
  /\ \A r \in Records : situation[r].revision <= 1

\* Whose behaviour it is.
VARIABLE part

ingestVars == <<part, vars, bindingVars, pollVars>>

IngestInit ==
  /\ Init /\ BindingInit /\ PollInit
  /\ part \in {"cells", "road", "queue", "polls"}
  /\ part # "polls" => feed = Plain

IngestNext ==
  /\ UNCHANGED part
  /\ \/ part = "cells" /\ Next /\ UNCHANGED <<bindingVars, pollVars>>
     \/ part = "road" /\ BindingNext /\ OneRoad' /\ UNCHANGED <<vars, pollVars>>
     \/ part = "queue" /\ BindingNext /\ DrainAlone' /\ UNCHANGED <<vars, pollVars>>
     \/ part = "polls" /\ PollNext /\ UNCHANGED <<vars, bindingVars>>

IngestSpec == IngestInit /\ [][IngestNext]_ingestVars
=============================================================================
