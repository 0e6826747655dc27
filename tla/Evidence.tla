------------------------------ MODULE Evidence ------------------------------
(***************************************************************************)
(* Crowd reports of one phenomenon, their evidence and their merges        *)
(* (services/contributions-api/src, packages/core/src/evidence.ts).        *)
(*                                                                         *)
(* A report lands in one transaction under the crowd lock; the hooks that  *)
(* follow it read without the lock what it may be merged with, and each    *)
(* merge reads its two reports again under it.  Votes, decisions, official *)
(* matches and the sweep come in between.  Every ledger change recomputes  *)
(* the report's state in its transaction, so the state is a function of    *)
(* the ledger here (State); lifetimes are left out, the sweep may end any  *)
(* live report.                                                            *)
(***************************************************************************)
EXTENDS Naturals, FiniteSets

CONSTANTS
  NumReports,         \* the reports, in the order of their start and id
  Keys,               \* the reporters' keys
  KeyOf,              \* whose key signed each report (the id is made from it)
  CorroborationKeys,  \* distinct keys that corroborate a report
  NegationKeys,       \* distinct keys that negate one
  MaxHops,            \* MAX_SURVIVOR_HOPS: how far a walk to a survivor goes
  MaxEvents           \* bound: votes, disputes on landing, resolutions and ends

Reports == 1 .. NumReports

ASSUME KeyAssumption == NumReports \in Nat /\ KeyOf \in [Reports -> Keys]
ASSUME PolicyAssumption == CorroborationKeys \in Nat /\ NegationKeys \in Nat
ASSUME HopsAssumption == MaxHops \in Nat /\ MaxHops >= 2
ASSUME EventsAssumption == MaxEvents \in Nat

VARIABLES
  status,      \* each report: not landed, live, or how it ended
  dispute,     \* whether it is disputed, or was
  confirms,    \* the confirm rows of its ledger
  external,    \* the resolutions of its ledger: by whom, and the last outcome
  votes,       \* the votes cast
  hook,        \* how far the hooks of its landing are
  targets,     \* the reports its hook is still to be merged with
  checking,    \* reports found to match a feed's situation, not yet resolved
  into,        \* history: the report it was merged into, or 0
  met,         \* history: whether its corroboration hook ended without an error
  events       \* bound: votes, disputes on landing, resolutions and ends so far

evidence == <<confirms, external, votes>>
hooks == <<hook, targets, met>>
evidenceVars == <<status, dispute, evidence, hooks, checking, into, events>>

\* A confirm row: the vote of a key on a report, or a report merged.
ConfirmRow == [key : Keys, by : {"vote", "report"}, of : Reports]
Vote == [key : Keys, report : Reports, action : {"confirm", "negate", "flag"}]

EvidenceTypeOK ==
  /\ status \in [Reports -> {"none", "live", "superseded", "rejected", "expired"}]
  /\ dispute \in [Reports -> {"never", "set", "cleared"}]
  /\ confirms \in [Reports -> SUBSET ConfirmRow]
  /\ external \in [Reports -> [by : SUBSET {"official", "accept", "reject"},
                               last : {"none", "confirmed", "rejected"}]]
  /\ votes \subseteq Vote
  /\ hook \in [Reports -> {"none", "landed", "disputed", "matching", "merging", "done"}]
  /\ targets \in [Reports -> SUBSET Reports]
  /\ checking \subseteq Reports
  /\ into \in [Reports -> 0 .. NumReports]
  /\ met \in [Reports -> BOOLEAN]
  /\ events \in 0 .. MaxEvents
  /\ \A r \in Reports : into[r] # 0 <=> status[r] = "superseded"

EvidenceInit ==
  /\ status = [r \in Reports |-> "none"]
  /\ dispute = [r \in Reports |-> "never"]
  /\ confirms = [r \in Reports |-> {}]
  /\ external = [r \in Reports |-> [by |-> {}, last |-> "none"]]
  /\ votes = {}
  /\ hook = [r \in Reports |-> "none"]
  /\ targets = [r \in Reports |-> {}]
  /\ checking = {}
  /\ into = [r \in Reports |-> 0]
  /\ met = [r \in Reports |-> FALSE]
  /\ events = 0

Event == events < MaxEvents /\ events' = events + 1

Live(r) == status[r] = "live"
Disputed(r) == dispute[r] = "set"

-----------------------------------------------------------------------------
(* What a ledger says (evaluateEvidence).                                  *)

Cast(k, r, action) == [key |-> k, report |-> r, action |-> action]

Confirmers(r) == {row.key : row \in confirms[r]} \ {KeyOf[r]}
Negators(r) == {k \in Keys \ {KeyOf[r]} : Cast(k, r, "negate") \in votes}
Retracted(r) == Cast(KeyOf[r], r, "negate") \in votes

\* The last resolution decides; without one the reporter's retraction, then
\* enough other keys against it, then enough for it.
Negated(r) ==
  CASE external[r].last = "rejected" -> TRUE
    [] external[r].last = "confirmed" -> FALSE
    [] OTHER -> \/ Retracted(r)
                \/ /\ Cardinality(Negators(r)) >= NegationKeys
                   /\ Cardinality(Negators(r)) > Cardinality(Confirmers(r))
State(r) ==
  CASE external[r].last = "confirmed" -> "externally_resolved"
    [] Negated(r) -> "negated"
    [] ~Negated(r) /\ external[r].last = "none" ->
         IF 1 + Cardinality(Confirmers(r)) >= CorroborationKeys
           THEN "corroborated" ELSE "self_reported"
StateSettled(r) == State(r) \in {"externally_resolved", "negated"}

-----------------------------------------------------------------------------
(* Survivors (resolveSurvivors).                                           *)

\* The reports that name a merged one in a confirm row and may lead on.
Parents(r) ==
  {p \in Reports \ {r} : /\ \E row \in confirms[p] : row.by = "report" /\ row.of = r
                         /\ status[p] \in {"live", "superseded"}}

\* The one the walk takes: a live one first, then the earliest.
ParentOf(r) ==
  LET best == IF \E p \in Parents(r) : Live(p) THEN {p \in Parents(r) : Live(p)}
                                               ELSE Parents(r)
  IN  CHOOSE p \in best : \A q \in best : p <= q

\* Where the walk from each report ends within so many hops: at a live report, or 0.
Walk[hops \in 0 .. MaxHops] ==
  [r \in Reports |->
     IF hops > 0 /\ Live(r) THEN r
     ELSE IF hops > 0 /\ status[r] = "superseded" /\ Parents(r) # {}
       THEN Walk[hops - 1][ParentOf(r)] ELSE 0]
Survivor(r) == Walk[MaxHops][r]

-----------------------------------------------------------------------------
(* Landing and its hooks.                                                  *)

\* A report lands, and is in dispute when its key's last report suggests an
\* impossible journey.
Land(r) ==
  /\ status[r] = "none"
  /\ status' = [status EXCEPT ![r] = "live"]
  /\ \/ UNCHANGED <<dispute, events>>
     \/ /\ Event
        /\ \E s \in Reports : KeyOf[s] = KeyOf[r] /\ status[s] # "none"
        /\ dispute' = [dispute EXCEPT ![r] = "set"]
  /\ hook' = [hook EXCEPT ![r] = "landed"]
  /\ UNCHANGED <<evidence, targets, met, checking, into>>

\* The hook finds that it landed on a phenomenon in dispute, by another report or a
\* feed's record (without one, or when the look fails, it goes on with Match) ...
CheckDispute(r) ==
  /\ hook[r] = "landed"
  /\ Live(r)
  /\ \/ (\E s \in Reports \ {r} : Live(s) /\ Disputed(s)) /\ UNCHANGED events
     \/ Event
  /\ hook' = [hook EXCEPT ![r] = "disputed"]
  /\ UNCHANGED <<status, dispute, evidence, targets, met, checking, into>>

\* ... and disputes the report.
PileOn(r) ==
  /\ hook[r] = "disputed"
  /\ dispute' = [dispute EXCEPT ![r] = "set"]
  /\ hook' = [hook EXCEPT ![r] = "matching"]
  /\ UNCHANGED <<status, evidence, targets, met, checking, into, events>>

\* The live reports that the landed ones, merged ones included, lead to, of other
\* keys and not in dispute.
Witnesses(r) ==
  {s \in {Survivor(q) : q \in Reports \ {r}} \ {0, r} : KeyOf[s] # KeyOf[r] /\ ~Disputed(s)}

\* Mutant of Matches: a report is merged into earlier ones only.
MatchesEarlier(r) == IF Live(r) /\ ~Disputed(r) THEN {s \in Witnesses(r) : s < r} ELSE {}

\* What a report is to be merged with.
Matches(r) == IF Live(r) /\ ~Disputed(r) THEN Witnesses(r) ELSE {}

\* The hook goes on to its next merge, or it is through.
GoOn(r, left) ==
  /\ targets' = [targets EXCEPT ![r] = left]
  /\ hook' = [hook EXCEPT ![r] = IF left = {} THEN "done" ELSE "merging"]
  /\ met' = [met EXCEPT ![r] = left = {}]

\* The look, without the crowd lock.
Match(r) ==
  /\ hook[r] \in {"landed", "matching"}
  /\ GoOn(r, Matches(r))
  /\ UNCHANGED <<status, dispute, evidence, checking, into, events>>

\* Mutant of MayMerge: only the report that goes is looked at again.
MayMergeMerged(survivor, merged) == Live(merged)

\* Under the lock: neither was merged, rejected or swept meanwhile.
MayMerge(survivor, merged) == Live(survivor) /\ Live(merged)

\* Mutant of WitnessRow: it names the survivor.
WitnessRowSwapped(survivor, merged) == [key |-> KeyOf[merged], by |-> "report", of |-> survivor]

\* The confirm row a merge leaves: the key of the merged report, and its id.
WitnessRow(survivor, merged) == [key |-> KeyOf[merged], by |-> "report", of |-> merged]

\* Mutant of Merge: the confirmations of the merged report stay with it.
MergeAlone(survivor, merged) ==
  /\ confirms' = [confirms EXCEPT ![survivor] = @ \cup {WitnessRow(survivor, merged)}]
  /\ status' = [status EXCEPT ![merged] = "superseded"]
  /\ into' = [into EXCEPT ![merged] = survivor]

\* The later report goes; the earlier one gains it and its confirmations.
Merge(survivor, merged) ==
  /\ confirms' = [confirms EXCEPT ![survivor] =
       @ \cup {WitnessRow(survivor, merged)} \cup confirms[merged]]
  /\ status' = [status EXCEPT ![merged] = "superseded"]
  /\ into' = [into EXCEPT ![merged] = survivor]

\* One merge of the hook, or nothing when either report ended meanwhile.
Corroborate(r, s) ==
  /\ hook[r] = "merging" /\ s \in targets[r]
  /\ LET survivor == IF r < s THEN r ELSE s
         merged == IF r < s THEN s ELSE r
     IN  IF MayMerge(survivor, merged)
           THEN Merge(survivor, merged)
           ELSE UNCHANGED <<confirms, status, into>>
  /\ GoOn(r, targets[r] \ {s})
  /\ UNCHANGED <<dispute, external, votes, checking, events>>

\* The hook fails, which nobody sees, or the process dies.
StopHook(r) ==
  /\ hook[r] \notin {"none", "done"}
  /\ hook' = [hook EXCEPT ![r] = "done"]
  /\ targets' = [targets EXCEPT ![r] = {}]
  /\ UNCHANGED <<status, dispute, evidence, met, checking, into, events>>

-----------------------------------------------------------------------------
(* Votes, resolutions and ends.                                            *)

\* A key votes on a live report, once in each way; on a settled one it may only
\* dispute.
CastVote(k, r, action) ==
  /\ Event
  /\ Live(r)
  /\ action # "flag" => ~StateSettled(r)
  /\ Cast(k, r, action) \notin votes
  /\ votes' = votes \cup {Cast(k, r, action)}
  /\ dispute' = [dispute EXCEPT ![r] = IF action = "flag" THEN "set" ELSE @]
  /\ confirms' = [confirms EXCEPT ![r] =
       IF action = "confirm" /\ (\A row \in @ : row.key # k)
         THEN @ \cup {[key |-> k, by |-> "vote", of |-> r]} ELSE @]
  /\ UNCHANGED <<status, external, hooks, checking, into>>

\* A resolution goes into the ledger, each of them once.
Resolve(r, by, outcome) ==
  external' = [external EXCEPT ![r] =
    IF by \in @.by THEN @ ELSE [by |-> @.by \cup {by}, last |-> outcome]]

\* A hook, or the sweep over reports, finds that a feed says the same, without
\* the crowd lock ...
FindOfficial(r) ==
  /\ Event
  /\ Live(r) /\ ~Disputed(r)
  /\ checking' = checking \cup {r}
  /\ UNCHANGED <<status, dispute, evidence, hooks, into>>

\* ... and the report is resolved.
ResolveOfficial(r) ==
  /\ r \in checking
  /\ Resolve(r, "official", "confirmed")
  /\ checking' = checking \ {r}
  /\ UNCHANGED <<status, dispute, confirms, votes, hooks, into, events>>

\* A reviewer accepts a report nothing has settled ...
Accept(r) ==
  /\ Event
  /\ Live(r) /\ ~StateSettled(r)
  /\ Resolve(r, "accept", "confirmed")
  /\ dispute' = [dispute EXCEPT ![r] = IF @ = "set" THEN "cleared" ELSE @]
  /\ UNCHANGED <<status, confirms, votes, hooks, checking, into>>

\* ... or rejects a live one, which ends it.
Reject(r) ==
  /\ Event
  /\ Live(r)
  /\ Resolve(r, "reject", "rejected")
  /\ dispute' = [dispute EXCEPT ![r] = IF @ = "set" THEN "cleared" ELSE @]
  /\ status' = [status EXCEPT ![r] = "rejected"]
  /\ UNCHANGED <<confirms, votes, hooks, checking, into>>

\* The sweep ends a report whose lifetime ran out.
Expire(r) ==
  /\ Event
  /\ Live(r)
  /\ status' = [status EXCEPT ![r] = "expired"]
  /\ UNCHANGED <<dispute, evidence, hooks, checking, into>>

-----------------------------------------------------------------------------
EvidenceNext ==
  \/ \E r \in Reports :
       \/ Land(r) \/ CheckDispute(r) \/ PileOn(r) \/ Match(r) \/ StopHook(r)
       \/ FindOfficial(r) \/ ResolveOfficial(r) \/ Accept(r) \/ Reject(r) \/ Expire(r)
  \/ \E r, s \in Reports : Corroborate(r, s)
  \/ \E k \in Keys, r \in Reports, action \in {"confirm", "negate", "flag"} : CastVote(k, r, action)

EvidenceSpec == EvidenceInit /\ [][EvidenceNext]_evidenceVars

-----------------------------------------------------------------------------
(* Properties.                                                             *)

\* A report's merges lead, in turn, to another: no set without that one holds all that
\* the report and the set's members were merged into.
LeadsTo(m, r) ==
  \A C \in SUBSET (Reports \ {r}) : \E c \in C \cup {m} : into[c] \notin C \cup {0}

\* The reports a report's merges lead through, and those that led to one.
Path(r) == {h \in Reports : LeadsTo(r, h)}
Cluster(r) == {m \in Reports : LeadsTo(m, r)}

\* A merged report's walk ends at the one report of its chain that was not merged,
\* when that is live: a later report and a vote's author always find it.
HeadFound ==
  \A r \in Reports : status[r] = "superseded" =>
    Survivor(r) = IF \E h \in Path(r) : Live(h) THEN CHOOSE h \in Path(r) : Live(h) ELSE 0

\* No merge takes a live report away without a live one that stands for it, whatever
\* hooks merge, reject or sweep at the same time.
NoReportLost ==
  [][\A r \in Reports : Live(r) /\ status'[r] = "superseded" => (Survivor(r) # 0)']_evidenceVars

\* The witnesses of a report are exactly the keys, its own apart, that reported or
\* confirmed it or a report merged into it, over any number of merges.
WitnessesExact ==
  \A r \in Reports :
    Confirmers(r) = ({KeyOf[m] : m \in Cluster(r)}
                     \cup {k \in Keys : \E m \in Reports :
                             Cast(k, m, "confirm") \in votes /\ (m = r \/ LeadsTo(m, r))})
                    \ {KeyOf[r]}

\* Two reports of different keys, never disputed, whose hooks ended without an error
\* do not both stand, whichever landed first and whatever hooks ran between.
ReportsMeet ==
  \A r, s \in Reports :
    /\ r # s /\ KeyOf[r] # KeyOf[s] /\ met[r] /\ met[s]
    /\ dispute[r] = "never" /\ dispute[s] = "never"
    => ~Live(r) \/ ~Live(s)
=============================================================================
