----------------------------- MODULE MCServices -----------------------------
(***************************************************************************)
(* The instances of Reconcile, Evidence and OAuthGrant that TLC checks.    *)
(* They share no state: a behaviour is of one of them, and the others rest. *)
(***************************************************************************)
EXTENDS Reconcile, Evidence, OAuthGrant, TLC

CONSTANTS k1, k2, k3

\* The earliest and the latest report are of one key, and a third key only votes.
MCKeyOf == <<k1, k2, k1>>

\* Two processes, with one caller each, are interchangeable.
MCProcessOf == [c \in Callers |-> c]
Symmetry == Permutations(Callers)

\* Whose behaviour it is.
VARIABLE part

servicesVars == <<part, reconcileVars, evidenceVars, grantVars>>

ServicesInit ==
  /\ ReconcileInit /\ EvidenceInit /\ GrantInit
  /\ part \in {"records", "reports", "grants"}
  /\ part # "records" => flag = "public"
  /\ rotates

ServicesNext ==
  /\ UNCHANGED part
  /\ \/ part = "records" /\ ReconcileNext /\ UNCHANGED <<evidenceVars, grantVars>>
     \/ part = "reports" /\ EvidenceNext /\ UNCHANGED <<reconcileVars, grantVars>>
     \/ part = "grants" /\ GrantNext /\ UNCHANGED <<reconcileVars, evidenceVars>>

ServicesSpec == ServicesInit /\ [][ServicesNext]_servicesVars
=============================================================================
