----------------------------- MODULE MCDelivery -----------------------------
(***************************************************************************)
(* The instances of Outbox, for its liveness, and of StreamPump that TLC    *)
(* checks.  They share no state: a behaviour is of one of them, and the     *)
(* other rests.                                                            *)
(***************************************************************************)
EXTENDS MCOutbox, StreamPump

\* Whose behaviour it is.
VARIABLE part

deliveryVars == <<part, vars, pumpVars>>

DeliveryInit == Init /\ PumpInit /\ part \in {"feed", "stream"}

DeliveryNext ==
  /\ UNCHANGED part
  /\ \/ part = "feed" /\ Next /\ UNCHANGED pumpVars
     \/ part = "stream" /\ PumpNext /\ UNCHANGED vars

DeliverySpec ==
  /\ DeliveryInit /\ [][DeliveryNext]_deliveryVars
  /\ part = "feed" => Fairness
  /\ part = "stream" => PumpFairness
=============================================================================
