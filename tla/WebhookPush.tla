----------------------------- MODULE WebhookPush -----------------------------
(***************************************************************************)
(* The publisher's webhook push (push.ts) of one subscription, against the *)
(* peer's own requests (subscriptions.ts): a cycle loads the row, reads a  *)
(* page after the row's cursor, posts it, and stores the outcome, while    *)
(* the row may be patched, deleted and created anew.  A process that lost  *)
(* its lock may still be delivering beside its successor, so there may be  *)
(* several cycles.                                                         *)
(*                                                                         *)
(* A row's revision grows with every write of it and a cycle's write holds *)
(* only at the revision it loaded: what a cycle may know of it is whether  *)
(* the row was written since, which "current" keeps.                       *)
(* The journal holds what readOutbox's fence lets through (module Outbox). *)
(***************************************************************************)
EXTENDS Naturals, Sequences, FiniteSets

CONSTANTS
  Cycles,        \* the delivery cycles
  Inboxes,       \* the inboxes of the peer
  Kinds,         \* the kinds of entries a filter and the channels tell apart
  Priority,      \* the kinds the priority channel carries
  Asked,         \* the settings the peer asks for, a filter as the kinds it keeps
  Threshold,     \* consecutive failures that disable the push
  PageLimit,     \* entries a page scans, at most
  MaxLen,        \* bound: journal entries
  MaxEvents,     \* bound: requests of the peer, decisions about it and crashes
  None           \* no subscription

Settings ==
  [webhook : BOOLEAN, filter : SUBSET Kinds, inbox : Inboxes, priorityOnly : BOOLEAN]

ASSUME AskedAssumption == Asked \subseteq Settings /\ Priority \subseteq Kinds
ASSUME LimitAssumption == Threshold \in Nat \ {0} /\ PageLimit \in Nat \ {0}
ASSUME BoundAssumption == MaxLen \in Nat /\ MaxEvents \in Nat

VARIABLES
  journal,       \* the entries, oldest first
  sub,           \* the subscription's row, or None
  trusted,       \* whether the peer is pinned and not blocked
  up,            \* whether the peer's inboxes take a page
  turn,          \* where each cycle stands: its stage, the row it loaded, the entries
                 \* of the page it read that the filter keeps, the last one scanned
  current,       \* the cycles whose row was not written since they loaded it
  backoff,       \* the cycles that wait as long as the inbox asked
  acked,         \* history: the entries each inbox acknowledged
  streak,        \* history: failed answers since the row last noted none, at most Threshold
  events         \* bound: requests, decisions and crashes so far

vars == <<journal, sub, trusted, up, turn, current, backoff, acked, streak, events>>

Subscription ==
  [settings : Asked, cursor : 0 .. MaxLen, failures : 0 .. Threshold, status : {"active", "push_disabled"}]

Turn ==
  [stage : {"idle", "loaded", "empty", "posting", "acked", "failed"},
   row : Subscription \cup {None}, items : SUBSET (1 .. MaxLen), mark : 0 .. MaxLen]

Idle == [stage |-> "idle", row |-> None, items |-> {}, mark |-> 0]

TypeOK ==
  /\ journal \in Seq(Kinds) /\ Len(journal) <= MaxLen
  /\ sub \in Subscription \cup {None}
  /\ trusted \in BOOLEAN /\ up \in BOOLEAN
  /\ turn \in [Cycles -> Turn]
  /\ current \subseteq Cycles /\ backoff \subseteq Cycles
  /\ acked \in [Inboxes -> SUBSET (1 .. MaxLen)]
  /\ streak \in 0 .. Threshold
  /\ events \in 0 .. MaxEvents

Init ==
  /\ journal = <<>>
  /\ sub = None
  /\ trusted = TRUE /\ up = TRUE
  /\ turn = [c \in Cycles |-> Idle]
  /\ current = {} /\ backoff = {}
  /\ acked = [i \in Inboxes |-> {}]
  /\ streak = 0
  /\ events = 0

-----------------------------------------------------------------------------
(* The peer's requests and what befalls the delivery.                      *)

Event == events < MaxEvents /\ events' = events + 1

Publish(k) ==
  /\ Len(journal) < MaxLen
  /\ journal' = Append(journal, k)
  /\ UNCHANGED <<sub, trusted, up, turn, current, backoff, acked, streak, events>>

\* A subscription starts at the journal's start.
Create(settings) ==
  /\ Event
  /\ sub = None
  /\ sub' = [settings |-> settings, cursor |-> 0, failures |-> 0, status |-> "active"]
  /\ streak' = 0
  /\ acked' = [i \in Inboxes |-> {}]
  /\ UNCHANGED <<journal, trusted, up, turn, current, backoff>>

\* A patch takes the row over: new settings, no failures, active again, and the
\* cursor where it stood.
Patch(settings) ==
  /\ Event
  /\ sub # None
  /\ sub' = [sub EXCEPT !.settings = settings, !.failures = 0, !.status = "active"]
  /\ current' = {}
  /\ streak' = 0
  /\ UNCHANGED <<journal, trusted, up, turn, backoff, acked>>

\* The row goes, and the wait of its id with it.
Delete ==
  /\ Event
  /\ sub # None
  /\ sub' = None
  /\ current' = {} /\ backoff' = {}
  /\ UNCHANGED <<journal, trusted, up, turn, acked, streak>>

\* The operator blocks the peer or unpins it, or takes it back.
Trust ==
  /\ Event
  /\ trusted' = ~trusted
  /\ UNCHANGED <<journal, sub, up, turn, current, backoff, acked, streak>>

\* The peer's inboxes go down or come back.
InboxesTurn ==
  /\ up' = ~up
  /\ UNCHANGED <<journal, sub, trusted, turn, current, backoff, acked, streak, events>>

\* The process dies, and another takes its place with no waits noted.
Crash(c) ==
  /\ Event
  /\ turn' = [turn EXCEPT ![c] = Idle]
  /\ current' = current \ {c} /\ backoff' = backoff \ {c}
  /\ UNCHANGED <<journal, sub, trusted, up, acked, streak>>

-----------------------------------------------------------------------------
(* A cycle.                                                                *)

\* The row is loaded, if it is to be pushed now.
Load(c) ==
  /\ turn[c].stage = "idle"
  /\ sub # None /\ sub.settings.webhook /\ sub.status = "active"
  /\ c \notin backoff
  /\ trusted
  /\ turn' = [turn EXCEPT ![c] = [Idle EXCEPT !.stage = "loaded", !.row = sub]]
  /\ current' = current \cup {c}
  /\ UNCHANGED <<journal, sub, trusted, up, backoff, acked, streak, events>>

\* The entries the channel of row r carries, and those its filter keeps.
Scanned(r) ==
  {i \in r.cursor + 1 .. Len(journal) : r.settings.priorityOnly => journal[i] \in Priority}
Wants(r, i) == journal[i] \in r.settings.filter

\* The first entries of a set, as many as a page scans.
FirstOf(scan) == {i \in scan : Cardinality({j \in scan : j <= i}) <= PageLimit}

\* Mutant of IsMark: the last the filter kept.
IsMarkKept(to, r, scan) ==
  LET keep == {i \in scan : Wants(r, i)}
  IN IF keep = {} THEN to = r.cursor ELSE to \in keep /\ \A i \in keep : i <= to

\* The entry a page of row r leads to: the last it scanned.
IsMark(to, r, scan) ==
  IF scan = {} THEN to = r.cursor ELSE to \in scan /\ \A i \in scan : i <= to

\* The page is read.  With nothing to push it may still have scanned entries.
Read(c) ==
  /\ turn[c].stage = "loaded"
  /\ LET r == turn[c].row
         scan == FirstOf(Scanned(r))
         keep == {i \in scan : Wants(r, i)}
     IN \E to \in 0 .. Len(journal) :
          /\ IsMark(to, r, scan)
          /\ turn' = [turn EXCEPT ![c] =
               IF to = r.cursor THEN Idle
               ELSE [@ EXCEPT !.stage = IF keep = {} THEN "empty" ELSE "posting",
                              !.items = keep, !.mark = to]]
  /\ UNCHANGED <<journal, sub, trusted, up, current, backoff, acked, streak, events>>

\* The inbox takes the page.
Answer(c) ==
  /\ turn[c].stage = "posting"
  /\ up
  /\ turn' = [turn EXCEPT ![c].stage = "acked"]
  /\ acked' = [acked EXCEPT ![turn[c].row.settings.inbox] = @ \cup turn[c].items]
  /\ UNCHANGED <<journal, sub, trusted, up, current, backoff, streak, events>>

\* The answer is an error, or none comes, whether the page landed or not.
NoAnswer(c) ==
  /\ turn[c].stage = "posting"
  /\ ~up
  /\ turn' = [turn EXCEPT ![c].stage = "failed"]
  /\ streak' = IF streak < Threshold THEN streak + 1 ELSE streak
  /\ UNCHANGED <<journal, sub, trusted, up, current, backoff, acked, events>>

\* Mutant of AskedToWait: the wait is counted as a failure.
CountedWait(c) ==
  /\ turn[c].stage = "posting"
  /\ ~up
  /\ turn' = [turn EXCEPT ![c].stage = "failed"]
  /\ UNCHANGED <<journal, sub, trusted, up, current, backoff, acked, streak, events>>

\* The inbox asks to come back later: nothing is written.
AskedToWait(c) ==
  /\ turn[c].stage = "posting"
  /\ ~up
  /\ turn' = [turn EXCEPT ![c] = Idle]
  /\ current' = current \ {c}
  /\ backoff' = backoff \cup {c}
  /\ UNCHANGED <<journal, sub, trusted, up, acked, streak, events>>

WaitOver(c) ==
  /\ c \in backoff
  /\ backoff' = backoff \ {c}
  /\ UNCHANGED <<journal, sub, trusted, up, turn, current, acked, streak, events>>

\* Mutant of Write: it holds at any revision.
WriteAnyway(c, row) ==
  /\ IF sub # None THEN sub' = row /\ current' = {}
                   ELSE UNCHANGED <<sub, current>>
  /\ turn' = [turn EXCEPT ![c] = Idle]
  /\ backoff' = backoff \ {c}

\* A cycle's update of the row in force holds at the revision it loaded, and ends
\* its turn.
Write(c, row) ==
  /\ IF c \in current THEN sub' = row /\ current' = {}
                      ELSE UNCHANGED <<sub, current>>
  /\ turn' = [turn EXCEPT ![c] = Idle]
  /\ backoff' = backoff \ {c}

\* The page went out, or had nothing in it for the subscriber.
Advance(c) ==
  /\ turn[c].stage \in {"acked", "empty"}
  /\ Write(c, [sub EXCEPT !.cursor = turn[c].mark, !.failures = 0,
                          !.status = IF turn[c].stage = "acked" THEN "active" ELSE @])
  /\ streak' = IF c \in current THEN 0 ELSE streak
  /\ UNCHANGED <<journal, trusted, up, acked, events>>

\* The push failed once more, by the count the cycle loaded, and stops at the threshold.
CountFailure(c) ==
  /\ turn[c].stage = "failed"
  /\ LET n == turn[c].row.failures + 1
     IN Write(c, [sub EXCEPT !.failures = n,
                             !.status = IF n >= Threshold THEN "push_disabled"
                                        ELSE turn[c].row.status])
  /\ UNCHANGED <<journal, trusted, up, acked, streak, events>>

-----------------------------------------------------------------------------
Step(c) == \/ Load(c) \/ Read(c) \/ Answer(c) \/ NoAnswer(c) \/ AskedToWait(c) \/ WaitOver(c)
           \/ Advance(c) \/ CountFailure(c)

Next ==
  \/ \E k \in Kinds : Publish(k)
  \/ \E settings \in Asked : Create(settings) \/ Patch(settings)
  \/ Delete
  \/ Trust
  \/ InboxesTurn
  \/ \E c \in Cycles : Crash(c) \/ Step(c)

Spec == Init /\ [][Next]_vars

\* The cycle runs on a timer, its statements and its post end, and waits pass.
FairSpec == Spec /\ \A c \in Cycles : WF_vars(Step(c))

-----------------------------------------------------------------------------
(* Properties.                                                             *)

\* Whether the entry is one the subscription's push carries.
Carries(r, i) == Wants(r, i) /\ (r.settings.priorityOnly => journal[i] \in Priority)

\* The cursor moves only forward, and only over entries the row in force does
\* not ask for or its own inbox acknowledged: never by a page read under the
\* settings or for the inbox the row had before a patch.
CursorEarned ==
  [][sub # None /\ sub' # None /\ sub'.cursor # sub.cursor =>
       /\ sub'.cursor > sub.cursor
       /\ \A i \in sub.cursor + 1 .. sub'.cursor :
            Carries(sub', i) => i \in acked[sub'.settings.inbox]]_vars

\* The push is disabled only by as many failed answers since the peer's last
\* request and the last delivery the row notes: asking for time is no failure,
\* and neither two cycles nor a patch between count one twice.
DisabledWhenDeserved ==
  sub # None /\ sub.status = "push_disabled" => streak >= Threshold

\* Once the inbox answers, the peer is trusted and the subscription stays
\* active, the push catches up with the journal.
Deliverable == up /\ trusted /\ sub # None /\ sub.settings.webhook /\ sub.status = "active"
Pushed == sub # None /\ \A i \in 1 .. Len(journal) : i > sub.cursor => ~Carries(sub, i)
PushCatchesUp == <>[]Deliverable => []<>Pushed
=============================================================================
