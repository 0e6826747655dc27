------------------------------ MODULE FeedPoll ------------------------------
(***************************************************************************)
(* The polls of one feed by its ingest process (run.ts).  A feed has data  *)
(* roles with cadences of their own: snapshots, roles of live states only, *)
(* and roles whose answers hold only the changes over a snapshot.  A poll  *)
(* fetches the roles that are due, holds their answers, parses the held    *)
(* answers of every role, or only the live states through the index of the *)
(* last publication, and publishes the result.                             *)
(*                                                                         *)
(* What a role's snapshot says is the changes the publisher made to it so  *)
(* far, and an answer is the set of their numbers.  Time is counted in the *)
(* feed's own cadence.                                                     *)
(***************************************************************************)
EXTENDS Naturals, Sequences, FiniteSets

CONSTANTS
  Feeds,         \* the feeds a behaviour may be of
  Skips,         \* whether a tick may find the poll before it still running
  Overlap,       \* how far before its last answer a role of changes asks from
  MaxWall,       \* bound: the clock
  MaxChanges     \* bound: the publisher's changes of a role

ASSUME OverlapAssumption == Overlap \in Nat /\ Skips \in BOOLEAN
ASSUME PollBoundAssumption == MaxWall \in Nat /\ MaxChanges \in Nat

\* A feed: its roles, the required ones, those of live states, the snapshot each
\* role of changes is over, those that ask since their last answer (at another URL
\* each time), those fetched with validators (which are a URL's), how far back the
\* others' answers reach and the cadences.
ASSUME FeedAssumption ==
  \A f \in Feeds :
    /\ f.required \subseteq f.roles \ DOMAIN f.over /\ f.live \subseteq f.roles
    /\ DOMAIN f.over \subseteq f.roles
    /\ \A c \in DOMAIN f.over : f.over[c] \in f.roles \ DOMAIN f.over
    /\ f.asks \subseteq DOMAIN f.over /\ f.conditional \subseteq f.roles \ f.asks
    /\ f.window \in Nat /\ f.cadence \in [f.roles -> Nat]

VARIABLES
  feed,          \* the feed
  wall,          \* the clock
  tick,          \* whether the scheduler's tick of this instant is to come
  changes,       \* the publisher: the time stamp of each change of each snapshot
  fetchedAt,     \* when each role's last answer was held, if any
  held,          \* the answers held of each role
  index,         \* the index live states are read through, if any: the publication it is of
  validators,    \* the answer each role's validators stand for, if any
  shown,         \* the database: what is published of each snapshot
  attempt,       \* the database: what the last attempt came to
  poll           \* the poll under way

publisher == <<feed, changes>>
clock == <<wall, tick>>
roleState == <<fetchedAt, held>>
pollVars == <<publisher, clock, roleState, index, validators, shown, attempt, poll>>

Roles == feed.roles
Snapshots == Roles \ DOMAIN feed.over

\* The roles of changes over a snapshot.
ChangesOver(s) == {c \in DOMAIN feed.over : feed.over[c] = s}

\* The snapshots no live states change.
Fixed == {s \in Snapshots \ feed.live : ChangesOver(s) \cap feed.live = {}}

Answers == SUBSET (1 .. MaxChanges)

Resting == [stage |-> "idle", at |-> 0, due |-> {}, todo |-> {}, fresh |-> <<>>,
            renewed |-> {}, failed |-> {}, leftOut |-> FALSE]

PollTypeOK ==
  /\ feed \in Feeds
  /\ wall \in 0 .. MaxWall /\ tick \in BOOLEAN
  /\ changes \in [Snapshots -> Seq(0 .. MaxWall)]
  /\ \A s \in Snapshots : Len(changes[s]) <= MaxChanges
  /\ fetchedAt \in [Roles -> SUBSET (0 .. MaxWall)]
  /\ held \in [Roles -> SUBSET Answers]
  /\ index \in SUBSET [Fixed -> Answers]
  /\ validators \in [Roles -> SUBSET Answers]
  /\ shown \in [Snapshots -> Answers]
  /\ attempt \in {"none", "running", "changed", "unchanged", "failed"}
  /\ poll \in [stage : {"idle", "fetching", "parsing"}, at : 0 .. MaxWall,
                due : SUBSET Roles, todo : SUBSET Roles,
                fresh : {<<>>} \cup [Roles -> SUBSET Answers], renewed : SUBSET Roles,
                failed : SUBSET Roles, leftOut : BOOLEAN]
  /\ IF poll.stage = "idle" THEN poll = Resting ELSE poll.fresh \in [Roles -> SUBSET Answers]

PollInit ==
  /\ feed \in Feeds
  /\ wall = 0 /\ tick = TRUE
  /\ changes = [s \in Snapshots |-> <<>>]
  /\ fetchedAt = [r \in Roles |-> {}]
  /\ held = [r \in Roles |-> {}]
  /\ index = {}
  /\ validators = [r \in Roles |-> {}]
  /\ shown = [s \in Snapshots |-> {}]
  /\ attempt = "none"
  /\ poll = Resting

-----------------------------------------------------------------------------
(* The publisher.                                                          *)

\* A change, which the publisher may stamp a little early.  Only a role of changes
\* reads the stamp.
PublisherChanges(s, stamp) ==
  /\ Len(changes[s]) < MaxChanges
  /\ IF ChangesOver(s) = {} THEN stamp = 0 ELSE stamp <= wall /\ wall <= stamp + Overlap
  /\ \A i \in DOMAIN changes[s] : changes[s][i] <= stamp
  /\ changes' = [changes EXCEPT ![s] = Append(@, stamp)]
  /\ UNCHANGED <<feed, clock, roleState, index, validators, shown, attempt, poll>>

Latest(times) == CHOOSE t \in times : \A u \in times : u <= t

\* The instant a role of changes asks from: its last answer's or its snapshot's,
\* else this poll's, less the overlap.
AskedFrom(c) ==
  LET covered == fetchedAt[c] \cup fetchedAt[feed.over[c]]
      last == IF covered = {} THEN poll.at ELSE Latest(covered)
  IN IF last >= Overlap THEN last - Overlap ELSE 0

\* What the publisher answers: a snapshot is all there is, a role of changes
\* those since the instant asked for or within the publisher's window.
AnswerOf(r) ==
  IF r \in Snapshots THEN DOMAIN changes[r]
  ELSE LET stamps == changes[feed.over[r]] IN
         {i \in DOMAIN stamps : IF r \in feed.asks THEN stamps[i] >= AskedFrom(r)
                                                   ELSE stamps[i] + feed.window >= wall}

-----------------------------------------------------------------------------
(* The fetches of a poll.                                                  *)

\* The roles that are due.
DueRoles == {r \in Roles : \A t \in fetchedAt[r] : wall >= t + feed.cadence[r]}

\* Time passes to the next tick; one with a role due polls, unless it is skipped
\* for a poll that still runs.
WallTicks ==
  /\ poll.stage = "idle"
  /\ tick => Skips \/ DueRoles = {}
  /\ wall < MaxWall
  /\ wall' = wall + 1
  /\ tick' = TRUE
  /\ UNCHANGED <<publisher, roleState, index, validators, shown, attempt, poll>>

\* A tick polls the roles that are due, reading the clock once, and opens its
\* attempt.
BeginPoll ==
  /\ poll.stage = "idle" /\ tick
  /\ DueRoles # {}
  /\ poll' = [Resting EXCEPT !.stage = "fetching", !.at = wall, !.due = DueRoles,
                             !.todo = DueRoles, !.fresh = [r \in Roles |-> {}]]
  /\ tick' = FALSE
  /\ attempt' = "running"
  /\ UNCHANGED <<wall, publisher, roleState, index, validators, shown>>

\* The next role: a snapshot before the roles of changes over it.
MayFetch(r) ==
  /\ poll.stage = "fetching" /\ r \in poll.todo
  /\ r \in DOMAIN feed.over => feed.over[r] \notin poll.todo

\* A role answers: anew, or that nothing changed since the answer its
\* validators stand for.
FetchRole(r) ==
  /\ MayFetch(r)
  /\ poll' = [poll EXCEPT !.todo = @ \ {r}, !.renewed = @ \cup {r},
                          !.fresh[r] = IF r \in feed.conditional /\ validators[r] = {AnswerOf(r)}
                                         THEN {} ELSE {AnswerOf(r)}]
  /\ UNCHANGED <<publisher, clock, roleState, index, validators, shown, attempt>>

\* The poll ends: the attempt is closed.
EndPoll(outcome) ==
  /\ poll' = Resting
  /\ attempt' = outcome

\* A role fails.  Its held answers stand in; an optional role is left out; a
\* required one with none held ends the poll.
RoleFails(r) ==
  /\ MayFetch(r)
  /\ IF held[r] # {} \/ r \notin feed.required
       THEN /\ poll' = [poll EXCEPT !.todo = @ \ {r}, !.failed = @ \cup {r},
                                       !.leftOut = @ \/ held[r] = {}]
            /\ UNCHANGED attempt
       ELSE EndPoll("failed")
  /\ UNCHANGED <<publisher, clock, roleState, index, validators, shown>>

\* A snapshot answers in part: its held answer stands in, or the poll ends.
RoleIsPartial(r) ==
  /\ MayFetch(r) /\ r \in Snapshots
  /\ IF held[r] # {}
       THEN /\ poll' = [poll EXCEPT !.todo = @ \ {r}]
            /\ UNCHANGED attempt
       ELSE EndPoll("failed")
  /\ UNCHANGED <<publisher, clock, roleState, index, validators, shown>>

-----------------------------------------------------------------------------
(* What a poll holds of its answers.                                       *)

\* Whether a role of changes that failed missed some: its answers no longer
\* reach back to the last one that came.
Missed(c) ==
  /\ c \in poll.failed /\ c \notin feed.asks
  /\ LET covered == fetchedAt[c] \cup fetchedAt[feed.over[c]] IN
       covered = {} \/ poll.at > Latest(covered) + feed.window

\* A snapshot answered, anew or as unchanged, starts its roles of changes over.
StartsOver(r) == r \in DOMAIN feed.over /\ feed.over[r] \in poll.renewed

\* Mutant of HeldNow: a snapshot that failed starts its roles of changes over.
HeldNowDue(r) ==
  CASE r \in DOMAIN feed.over /\ feed.over[r] \in poll.due -> {{}} \cup poll.fresh[r]
    [] r \in DOMAIN feed.over -> held[r] \cup poll.fresh[r]
    [] OTHER -> IF poll.fresh[r] # {} THEN poll.fresh[r] ELSE held[r]

\* The answers held once the poll's have come.  A role of changes that starts over
\* holds no change, which counts as an answer though it failed.
HeldNow(r) ==
  CASE StartsOver(r) -> {{}} \cup poll.fresh[r]
    [] r \in DOMAIN feed.over /\ ~StartsOver(r) -> held[r] \cup poll.fresh[r]
    [] OTHER -> IF poll.fresh[r] # {} THEN poll.fresh[r] ELSE held[r]

\* Mutant of FetchedNow: a role that failed counts as fetched.
FetchedNowDue(r) ==
  CASE r \in poll.due -> {poll.at}
    [] \E c \in ChangesOver(r) : Missed(c) -> {}
    [] OTHER -> fetchedAt[r]

\* When a role's last answer came once the poll's have come.  A snapshot whose
\* changes were missed falls due again.
FetchedNow(r) ==
  CASE r \in poll.renewed -> {poll.at}
    [] \E c \in ChangesOver(r) : Missed(c) /\ r \notin poll.renewed -> {}
    [] OTHER -> fetchedAt[r]

\* The roles that answered anew.
Fetched == {r \in Roles : poll.fresh[r] # {}}

\* The answers are held, and count as fetched from here.  Without an answer the
\* poll failed, and with none anew it found nothing changed.
HoldAnswers ==
  /\ poll.stage = "fetching" /\ poll.todo = {}
  /\ held' = [r \in Roles |-> HeldNow(r)]
  /\ fetchedAt' = [r \in Roles |-> FetchedNow(r)]
  /\ IF Fetched = {} THEN EndPoll(IF poll.renewed = {} THEN "failed" ELSE "unchanged")
                     ELSE /\ poll' = [poll EXCEPT !.stage = "parsing"]
                          /\ UNCHANGED attempt
  /\ UNCHANGED <<publisher, clock, index, validators, shown>>

-----------------------------------------------------------------------------
(* What a poll publishes.                                                  *)

\* What the answers of some roles say of a snapshot.
Said(s, roles) == UNION UNION {held[r] : r \in ({s} \cup ChangesOver(s)) \cap roles}

\* Only live states came, and there is an index to read them through.
OnlyStates == index # {} /\ poll.due \subseteq feed.live

\* The validators once the poll published: of its own answers.
Accepted ==
  [r \in Roles |-> IF r \in feed.conditional \cap Fetched THEN poll.fresh[r] ELSE validators[r]]

\* The live states are published over what is: nothing is withdrawn.
WithStates == [s \in Snapshots |-> shown[s] \cup Said(s, Fetched)]

\* All that is held is published in place of what was.  Live states are not ended
\* when a role was left out, nor when ending them is withheld as suspect.
WithAll(withheld) ==
  [s \in Snapshots |-> Said(s, Roles) \cup IF s \in feed.live /\ (poll.leftOut \/ withheld)
                                           THEN shown[s] ELSE {}]

PublishStates ==
  /\ poll.stage = "parsing" /\ OnlyStates
  /\ shown' = WithStates
  /\ validators' = Accepted
  /\ EndPoll("changed")
  /\ UNCHANGED <<publisher, clock, roleState, index>>

\* An index is made of the publication.  When ending states is withheld the next
\* poll asks without the new validators.
PublishAll(withheld) ==
  /\ poll.stage = "parsing" /\ ~OnlyStates
  /\ withheld => ~poll.leftOut
  /\ shown' = WithAll(withheld)
  /\ index' = IF feed.live = {} THEN {} ELSE {[s \in Fixed |-> Said(s, Roles)]}
  /\ validators' = IF withheld THEN validators ELSE Accepted
  /\ EndPoll("changed")
  /\ UNCHANGED <<publisher, clock, roleState>>

\* A parse of all that is held fails before it began: what is held cannot be read,
\* or is no complete snapshot.  The index stays.
PayloadsFail ==
  /\ poll.stage = "parsing" /\ ~OnlyStates
  /\ EndPoll("failed")
  /\ UNCHANGED <<publisher, clock, roleState, index, validators, shown>>

\* The transaction rolls back, or it committed and its answer is lost.
MayLand ==
  \/ UNCHANGED shown
  \/ OnlyStates /\ shown' = WithStates
  \/ ~OnlyStates /\ \E withheld \in BOOLEAN :
       (withheld => ~poll.leftOut) /\ shown' = WithAll(withheld)

\* Mutant of PublishFails: the index is deleted only once the publication is
\* replaced.
PublishFailsLate ==
  /\ poll.stage = "parsing"
  /\ MayLand
  /\ EndPoll("failed")
  /\ UNCHANGED <<publisher, clock, roleState, index, validators>>

\* Mutant of PublishFails: the validators are those of the answers all the same.
PublishFailsAccepting ==
  /\ poll.stage = "parsing"
  /\ MayLand
  /\ index' = IF OnlyStates THEN index ELSE {}
  /\ validators' = Accepted
  /\ EndPoll("failed")
  /\ UNCHANGED <<publisher, clock, roleState>>

\* The parse fails, the result is refused as suspect, or the transaction fails: a
\* parse of all that is held deleted the index.
PublishFails ==
  /\ poll.stage = "parsing"
  /\ MayLand
  /\ index' = IF OnlyStates THEN index ELSE {}
  /\ EndPoll("failed")
  /\ UNCHANGED <<publisher, clock, roleState, validators>>

\* The process stops and starts anew: what it held in memory is gone, and an
\* attempt left open is closed.
PollRestarts ==
  /\ fetchedAt' = [r \in Roles |-> {}]
  /\ held' = [r \in Roles |-> {}]
  /\ index' = {}
  /\ validators' = [r \in Roles |-> {}]
  /\ poll' = Resting
  /\ attempt' = IF attempt = "running" THEN "failed" ELSE attempt
  /\ UNCHANGED <<publisher, clock, shown>>

-----------------------------------------------------------------------------
PollNext ==
  \/ \E s \in Snapshots, stamp \in 0 .. MaxWall : PublisherChanges(s, stamp)
  \/ WallTicks
  \/ BeginPoll
  \/ \E r \in Roles : FetchRole(r) \/ RoleFails(r) \/ RoleIsPartial(r)
  \/ HoldAnswers
  \/ PublishStates \/ (\E withheld \in BOOLEAN : PublishAll(withheld))
  \/ PayloadsFail \/ PublishFails
  \/ PollRestarts

PollSpec == PollInit /\ [][PollNext]_pollVars

-----------------------------------------------------------------------------
(* Properties.                                                             *)

\* Whether answers leave no change out before one they hold.
Gapless(answer) == \A i \in answer : 1 .. i \subseteq answer

\* A role of changes that asks since its last answer misses none, however its
\* fetches, its snapshot's and the publications fail (run.ts).
AskingMissesNone ==
  \A s \in Snapshots :
    held[s] # {} /\ ChangesOver(s) \subseteq feed.asks => Gapless(Said(s, Roles))

\* A role of changes whose failures stay within the publisher's window misses none
\* either: a longer failure makes its snapshot due again (run.ts).
WindowMissesNone ==
  \A s \in Snapshots :
    held[s] # {} /\ fetchedAt[s] # {} => Gapless(Said(s, Roles))

\* A not-modified answer never hides one that was not published: validators
\* stand for published answers alone (fetch.ts, accept).
AcceptedIsPublished ==
  \A s \in Snapshots : \A a \in validators[s] : a \subseteq shown[s]

\* Live states are only ever read through an index of what the database publishes,
\* also when a publication landed whose answer was lost: a parse that may replace
\* the publication deletes its index first, and a poll that fails before it parses
\* leaves both (run.ts).
IndexIsPublished ==
  \A publication \in index : \A s \in Fixed : publication[s] = shown[s]

\* A poll never takes back what an earlier one published of a required role or of
\* live states: failed roles, held answers and restarts included (run.ts).
LastGoodKept ==
  [][\A s \in Snapshots \cap (feed.required \cup feed.live) : shown[s] \subseteq shown'[s]]_shown

\* A poll that succeeds publishes all that is held, whichever earlier publication
\* failed.
FailureMadeGood ==
  attempt \in {"changed", "unchanged"} =>
    \A s \in Snapshots : Said(s, Roles) \subseteq shown[s]
=============================================================================
