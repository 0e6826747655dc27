------------------------------ MODULE Replica ------------------------------
(***************************************************************************)
(* One record of a publisher and a subscriber's copy of it, fed by two     *)
(* channels: the subscriber's pull, which is complete, and the publisher's *)
(* webhook push.  Both carry the same journal, each with a cursor of its   *)
(* own, so entries land twice and in an order that is the journal's only   *)
(* within a channel.                                                       *)
(*                                                                         *)
(* Publisher: a poll revises, ends and brings back the record, an operator *)
(* erases it, its source (or the crowd) takes it out of circulation and    *)
(* back at the same revision, evidence moves a report's lifetime.          *)
(* Subscriber: the inbox lands entries (inbox.ts, write-record.ts), the    *)
(* sweep ends copies whose lifetime or whose peer lapsed (sweep.ts), the   *)
(* peer's returning liveness brings the latter back (federation-lapse.ts). *)
(* The journal's own order and fence are module Outbox's.                  *)
(***************************************************************************)
EXTENDS Naturals

CONSTANTS
  Scenarios,     \* what may happen in a behaviour: the changes the publisher's
                 \* record goes through, what may go wrong with the push for good,
                 \* and bounds: how many revisions of it, and how long the clock runs
  PageSize,      \* entries of a page, at most
  MaxRev,        \* bound: revisions of the record
  MaxLog,        \* bound: journal entries
  MaxTime        \* bound: the clock

ASSUME ScenariosAssumption ==
  Scenarios \subseteq
    [changes : SUBSET {"revise", "end", "erase", "restrict", "withdraw", "life"},
     faults : SUBSET {"stop", "late"}, revs : 1 .. MaxRev, until : 0 .. MaxTime]
ASSUME BoundAssumption ==
  /\ PageSize \in Nat \ {0}
  /\ MaxRev \in Nat \ {0} /\ MaxLog \in Nat /\ MaxTime \in Nat

VARIABLES
  scenario,      \* the scenario of the behaviour; no step changes it
  now,           \* the clock
  own,           \* the publisher's record
  log,           \* its journal entries
  newest,        \* the sequence number of the newest one
  cursor,        \* each channel's cursor: entries passed
  busy,          \* whether each channel has a page in flight
  page,          \* the entries of that page not landed yet
  mark,          \* the cursor that page leads to
  pushOn,        \* whether the push goes on
  late,          \* what is left of a push given up on that still lands
  copy,          \* the subscriber's copy; revision 0 when it holds none
  lapsed,        \* the revision noted when the sweep ended it for silence, or 0
  fact,          \* whether the erasure fact is in force
  erasedAt       \* history: the newest erasure that landed, 0 for none

journalled == <<own, log, newest>>
channels == <<cursor, busy, page, mark, pushOn, late>>
held == <<copy, lapsed, fact, erasedAt>>
vars == <<scenario, now, journalled, channels, held>>

Channel == {"pull", "push"}

\* Lifetimes end at a time; the last one stands for none.
Life == 1 .. MaxTime + 1
Unlimited == MaxTime + 1

Ended == {"withdrawn", "expired", "erased"}
Entry == [op : {"change", "retract", "delete"}, idx : 1 .. MaxLog, rev : 1 .. MaxRev,
          life : Life, reason : Ended]

TypeOK ==
  /\ scenario \in Scenarios
  /\ now \in 0 .. MaxTime
  /\ own \in [rev : 0 .. MaxRev, status : {"live"} \cup Ended, life : Life,
              out : {"open", "restricted", "withdrawn"}]
  /\ log \subseteq Entry
  /\ newest \in 0 .. MaxLog
  /\ cursor \in [Channel -> 0 .. MaxLog]
  /\ busy \in [Channel -> BOOLEAN]
  /\ page \in [Channel -> SUBSET Entry]
  /\ mark \in [Channel -> 0 .. MaxLog]
  /\ pushOn \in BOOLEAN
  /\ late \subseteq Entry
  /\ copy \in [rev : 0 .. MaxRev + 1, status : {"live"} \cup Ended, life : Life]
  /\ lapsed \in 0 .. MaxRev + 1
  /\ fact \in BOOLEAN
  /\ erasedAt \in 0 .. MaxRev

Init ==
  /\ scenario \in Scenarios
  /\ now = 0
  /\ own = [rev |-> 0, status |-> "withdrawn", life |-> Unlimited, out |-> "open"]
  /\ log = {}
  /\ newest = 0
  /\ cursor = [c \in Channel |-> 0]
  /\ busy = [c \in Channel |-> FALSE]
  /\ page = [c \in Channel |-> {}]
  /\ mark = [c \in Channel |-> 0]
  /\ pushOn = TRUE
  /\ late = {}
  /\ copy = [rev |-> 0, status |-> "withdrawn", life |-> Unlimited]
  /\ lapsed = 0
  /\ fact = FALSE
  /\ erasedAt = 0

Max2(m, n) == IF m >= n THEN m ELSE n

-----------------------------------------------------------------------------
(* The publisher.                                                          *)

IsLive(r) == r.rev > 0 /\ r.status = "live"

\* The entry the journal gets of record r; a live record's retraction says
\* "withdrawn".
EntryOf(r, op) ==
  [op |-> op, idx |-> newest + 1, rev |-> r.rev, life |-> r.life,
   reason |-> IF r.status = "live" THEN "withdrawn" ELSE r.status]

Journal(r, op) ==
  /\ newest < MaxLog
  /\ newest' = newest + 1
  /\ log' = log \cup {EntryOf(r, op)}

\* What the capture journals of a record that changed: nothing of a restricted
\* source's, and a report the crowd withdrew is served as a retraction.
CaptureChange(r) ==
  CASE r.out = "open"       -> Journal(r, "change")
    [] r.out = "withdrawn"  -> Journal(r, "retract")
    [] r.out = "restricted" -> UNCHANGED <<log, newest>>

CaptureEnd(r) == IF r.out = "restricted" THEN UNCHANGED <<log, newest>>
                                        ELSE Journal(r, "delete")

PublisherStep ==
  /\ own.rev < scenario.revs
  /\ UNCHANGED <<now, channels, held>>

\* A poll stores the record, revises it, or brings an ended one back, an
\* erased one too.
Revise(life) ==
  /\ "revise" \in scenario.changes
  /\ PublisherStep
  /\ life > now
  /\ "life" \in scenario.changes \/ life = Unlimited
  /\ own' = [own EXCEPT !.rev = @ + 1, !.status = "live", !.life = life]
  /\ CaptureChange(own')

\* The record ends: the feed no longer holds it, or its lifetime passed.
End(reason) ==
  /\ "end" \in scenario.changes
  /\ PublisherStep
  /\ IsLive(own)
  /\ reason = "expired" => own.life < now
  /\ own' = [own EXCEPT !.rev = @ + 1, !.status = reason]
  /\ CaptureEnd(own')

\* The operator erases the record: its changes leave the journal.  The erasure
\* goes out even of a restricted source, if a peer may hold the record.
Erase ==
  /\ "erase" \in scenario.changes
  /\ PublisherStep
  /\ own.rev > 0 /\ own.status # "erased"
  /\ own' = [own EXCEPT !.rev = @ + 1, !.status = "erased"]
  /\ IF own.out = "restricted" /\ log = {}
       THEN UNCHANGED <<log, newest>>
       ELSE /\ newest < MaxLog
            /\ newest' = newest + 1
            /\ log' = {e \in log : e.op = "delete"} \cup {EntryOf(own', "delete")}

\* The record's source turns restricted: a live record is retracted at its
\* revision (the reconcile, once done) ...
Restrict ==
  /\ "restrict" \in scenario.changes
  /\ own.out = "open"
  /\ own' = [own EXCEPT !.out = "restricted"]
  /\ IF IsLive(own) THEN Journal(own, "delete") ELSE UNCHANGED <<log, newest>>
  /\ UNCHANGED <<now, channels, held>>

\* ... or the crowd withdraws the report, and may come to see it otherwise.
Withdraw ==
  /\ "withdraw" \in scenario.changes
  /\ own.out = "open" /\ IsLive(own)
  /\ own' = [own EXCEPT !.out = "withdrawn"]
  /\ CaptureChange(own')
  /\ UNCHANGED <<now, channels, held>>

\* The record goes out again, at its revision.
Reopen ==
  /\ own.out # "open"
  /\ own' = [own EXCEPT !.out = "open"]
  /\ IF IsLive(own) THEN Journal(own, "change") ELSE UNCHANGED <<log, newest>>
  /\ UNCHANGED <<now, channels, held>>

\* New evidence moves a report's lifetime; its revision stays.
MoveLife(life) ==
  /\ "life" \in scenario.changes
  /\ IsLive(own)
  /\ life > now /\ life # own.life
  /\ own.life # Unlimited /\ life # Unlimited
  /\ own' = [own EXCEPT !.life = life]
  /\ CaptureChange(own')
  /\ UNCHANGED <<now, channels, held>>

-----------------------------------------------------------------------------
(* The channels.                                                           *)

\* Whether a page serves the entry: a restricted source's changes no more.
Serves(e) == e.op = "change" => own.out # "restricted"

\* A channel reads the next page after its cursor.
Fetch(c) ==
  /\ ~busy[c]
  /\ c = "push" => pushOn
  /\ \E to \in cursor[c] + 1 .. newest :
       /\ to <= cursor[c] + PageSize
       /\ page' = [page EXCEPT ![c] = {e \in log : cursor[c] < e.idx /\ e.idx <= to /\ Serves(e)}]
       /\ mark' = [mark EXCEPT ![c] = to]
  /\ busy' = [busy EXCEPT ![c] = TRUE]
  /\ UNCHANGED <<now, journalled, cursor, pushOn, late, held>>

\* Every entry of the page landed and was acknowledged: the cursor moves.
Store(c) ==
  /\ busy[c]
  /\ page[c] = {}
  /\ cursor' = [cursor EXCEPT ![c] = Max2(@, mark[c])]
  /\ busy' = [busy EXCEPT ![c] = FALSE]
  /\ UNCHANGED <<now, journalled, page, mark, pushOn, late, held>>

\* The page fails part-way, or its acknowledgement is lost: it is read again.
Fail(c) ==
  /\ busy[c]
  /\ busy' = [busy EXCEPT ![c] = FALSE]
  /\ page' = [page EXCEPT ![c] = {}]
  /\ UNCHANGED <<now, journalled, cursor, mark, pushOn, late, held>>

\* A push times out at the publisher while the subscriber still lands it.
GiveUp ==
  /\ "late" \in scenario.faults
  /\ busy["push"] /\ late = {}
  /\ late' = page["push"]
  /\ busy' = [busy EXCEPT !["push"] = FALSE]
  /\ page' = [page EXCEPT !["push"] = {}]
  /\ UNCHANGED <<now, journalled, cursor, mark, pushOn, held>>

\* The push stops: its failures disabled it, or the subscription was deleted.
StopPush ==
  /\ "stop" \in scenario.faults
  /\ pushOn
  /\ pushOn' = FALSE
  /\ UNCHANGED <<now, journalled, cursor, busy, page, mark, late, held>>

-----------------------------------------------------------------------------
(* The subscriber's inbox.                                                 *)

\* Mutant of LandChange: a retracted copy not brought back at its revision.
LandChangeStale(e) ==
  /\ copy' = IF ~fact /\ (copy.rev < e.rev \/ (copy.rev = e.rev /\ IsLive(copy)))
               THEN [rev |-> e.rev, status |-> "live", life |-> e.life] ELSE copy
  /\ UNCHANGED <<lapsed, fact, erasedAt>>

\* A change lands: a newer revision replaces the copy; at the copy's own
\* revision it moves a live copy's lifetime, and brings back one that expired
\* or that the peer withdrew without changing it.
LandChange(e) ==
  /\ copy' =
       IF fact THEN copy
       ELSE IF \/ copy.rev < e.rev
               \/ /\ copy.rev = e.rev
                  /\ \/ copy.status \in {"live", "withdrawn"}
                     \/ copy.status = "expired" /\ e.life # copy.life /\ e.life > now
              THEN [rev |-> e.rev, status |-> "live", life |-> e.life]
              ELSE copy
  /\ UNCHANGED <<lapsed, fact, erasedAt>>

\* A copy the sweep ended for the peer's silence, as it ended.
IsLapsed == lapsed > 0 /\ copy.rev = lapsed /\ copy.status = "expired"

\* Whether a retraction applies: to a copy held, no newer than it and not
\* ended before.  An erasure applies to every revision, and to what ended.
Applies(e) ==
  /\ copy.rev > 0
  /\ e.reason = "erased" \/ copy.rev <= e.rev
  /\ \/ copy.status = "live"
     \/ e.reason = "erased" /\ copy.status # "erased"
     \/ IsLapsed

\* The revision a retracted copy ends at: the owner's, or one more when an
\* erasure ends a newer copy.
EndedRevision(e) == IF e.rev >= copy.rev THEN e.rev ELSE copy.rev + 1

\* Mutant of LandDelete: the copy takes the retraction's revision as it is.
LandDeleteBack(e) ==
  /\ copy' = IF Applies(e) THEN [copy EXCEPT !.status = e.reason, !.rev = e.rev] ELSE copy
  /\ fact' = (fact \/ e.reason = "erased")
  /\ erasedAt' = IF e.reason = "erased" THEN Max2(erasedAt, e.rev) ELSE erasedAt
  /\ UNCHANGED lapsed

\* A retraction lands.  An erasure is noted first, whether a copy is held or
\* not.
LandDelete(e) ==
  /\ copy' = IF Applies(e)
               THEN [copy EXCEPT !.status = e.reason, !.rev = EndedRevision(e)]
               ELSE copy
  /\ fact' = (fact \/ e.reason = "erased")
  /\ erasedAt' = IF e.reason = "erased" THEN Max2(erasedAt, e.rev) ELSE erasedAt
  /\ UNCHANGED lapsed

LandEntry(e) == IF e.op = "change" THEN LandChange(e) ELSE LandDelete(e)

IsNext(e, entries) == \A f \in entries : e.idx <= f.idx

\* The next entry of a page in flight lands.
Land(c) ==
  /\ busy[c]
  /\ \E e \in page[c] :
       /\ IsNext(e, page[c])
       /\ LandEntry(e)
       /\ page' = [page EXCEPT ![c] = @ \ {e}]
  /\ UNCHANGED <<now, journalled, cursor, busy, mark, pushOn, late>>

\* The next entry of the push given up on lands.
LandLate ==
  /\ \E e \in late :
       /\ IsNext(e, late)
       /\ LandEntry(e)
       /\ late' = late \ {e}
  /\ UNCHANGED <<now, journalled, cursor, busy, page, mark, pushOn>>

-----------------------------------------------------------------------------
(* The subscriber's sweep and the peer's liveness.                         *)

\* The sweep ends a live copy at its revision: its lifetime passed ...
Expire ==
  /\ IsLive(copy) /\ copy.life < now
  /\ copy' = [copy EXCEPT !.status = "expired"]
  /\ UNCHANGED <<now, journalled, channels, lapsed, fact, erasedAt>>

\* ... or, without a lifetime, its peer has been silent too long.
Lapse ==
  /\ IsLive(copy) /\ copy.life = Unlimited
  /\ copy' = [copy EXCEPT !.status = "expired"]
  /\ lapsed' = copy.rev
  /\ UNCHANGED <<now, journalled, channels, fact, erasedAt>>

\* Mutant of HearPeer: a lapsed copy restored whatever happened to it since.
HearPeerBlind ==
  /\ lapsed > 0
  /\ copy' = [copy EXCEPT !.status = "live"]
  /\ lapsed' = 0
  /\ UNCHANGED <<now, journalled, channels, fact, erasedAt>>

\* The peer's liveness arrives: a copy still as it lapsed is live again.
HearPeer ==
  /\ lapsed > 0
  /\ copy' = IF IsLapsed THEN [copy EXCEPT !.status = "live"] ELSE copy
  /\ lapsed' = 0
  /\ UNCHANGED <<now, journalled, channels, fact, erasedAt>>

NothingInFlight == (\A c \in Channel : ~busy[c]) /\ late = {}

\* The erasure fact passes after 30 days, longer than any delivery takes.
ForgetErasure ==
  /\ fact
  /\ NothingInFlight
  /\ fact' = FALSE
  /\ UNCHANGED <<now, journalled, channels, copy, lapsed, erasedAt>>

Tick ==
  /\ now < scenario.until
  /\ now' = now + 1
  /\ UNCHANGED <<journalled, channels, held>>

-----------------------------------------------------------------------------
Publisher ==
  \/ \E life \in Life : Revise(life) \/ MoveLife(life)
  \/ \E reason \in {"withdrawn", "expired"} : End(reason)
  \/ Erase
  \/ Restrict
  \/ Withdraw
  \/ Reopen

Step ==
  \/ Publisher
  \/ \E c \in Channel : Fetch(c) \/ Land(c) \/ Store(c) \/ Fail(c)
  \/ GiveUp
  \/ LandLate
  \/ StopPush
  \/ Expire
  \/ Lapse
  \/ HearPeer
  \/ ForgetErasure
  \/ Tick

Next == Step /\ UNCHANGED scenario

Spec == Init /\ [][Next]_vars

-----------------------------------------------------------------------------
(* Properties.                                                             *)

\* Content erased at the publisher never comes back at the subscriber, by a
\* page in flight, another channel, a late push or the peer's returning
\* liveness: a live copy is newer than every erasure that landed.
ErasedStays == IsLive(copy) => copy.rev > erasedAt

\* A copy's revision never moves back, whatever order two channels land in.
RevisionNeverBack == [][copy'.rev >= copy.rev]_copy

\* The channels have caught up: the pull, and the push unless it stopped.
CaughtUp ==
  /\ NothingInFlight
  /\ cursor["pull"] = newest
  /\ pushOn => cursor["push"] = newest

\* What the subscriber should hold: the record as it circulates, at its
\* revision and lifetime, unless it lapsed or its lifetime is over.
Matches ==
  IF IsLive(own) /\ own.out = "open"
    THEN \/ own.life <= now
         \/ /\ copy.rev = own.rev /\ copy.life = own.life
            /\ IsLive(copy) \/ IsLapsed
    ELSE ~IsLive(copy)

\* A subscriber that caught up holds what the publisher circulates (a record
\* erased once is refused for as long as its fact holds).  Two channels that
\* both go on end in the same state whatever they interleave.
Converges == CaughtUp /\ erasedAt = 0 => Matches
=============================================================================
