---------------------------- MODULE SourceProofs ----------------------------
(***************************************************************************)
(* Theorems about the sources of the ingest service: the polls of a feed   *)
(* (FeedPoll), for any feeds, overlap, clock and number of changes, and    *)
(* the grants feeds are fetched with (OAuthGrant), for any number of       *)
(* callers, processes and tokens.                                          *)
(***************************************************************************)
EXTENDS FeedPoll, OAuthGrant, TLAPS

-----------------------------------------------------------------------------
(* The inductive invariant.                                                *)

\* The changes of a snapshot so far, and their stamps: none is stamped before
\* the one before it.
Made(s) == 1 .. Len(changes[s])
Stamped == \A s \in Snapshots : \A i, j \in Made(s) : i <= j => changes[s][i] <= changes[s][j]

\* A role's last answer is no later than the clock, which stands still for a poll.
Paced ==
  /\ \A r \in Roles : \A t \in fetchedAt[r] : t <= wall
  /\ \A r \in Roles : \A t, u \in fetchedAt[r] : t = u
  /\ poll.stage # "idle" => poll.at = wall

\* A poll fetches what is due, a snapshot before its roles of changes, and holds
\* what it fetched.
InTurn ==
  /\ poll.todo \subseteq poll.due
  /\ poll.renewed \subseteq poll.due \ poll.todo
  /\ poll.stage # "idle" => \A r \in Roles \ poll.renewed : poll.fresh[r] = {}
  /\ \A c \in DOMAIN feed.over : c \in poll.renewed => feed.over[c] \notin poll.todo
  /\ poll.stage = "fetching" => \A r \in Roles \ poll.due : fetchedAt[r] # {}
  /\ poll.stage = "parsing" =>
       poll.todo = {} /\ \A s \in Snapshots : poll.fresh[s] # {} => held[s] = poll.fresh[s]

\* The answers of a role: those held, or while a poll fetches those it will hold.
HeldAt(r) == IF poll.stage = "fetching" THEN HeldNow(r) ELSE held[r]
TimesAt(r) ==
  IF poll.stage = "fetching" /\ r \in poll.renewed THEN {poll.at} ELSE fetchedAt[r]

\* A snapshot's answers leave nothing out of what they hold, they hold what its
\* validators stand for, and what was fetched or has validators is held.
SnapshotHeld(s, answers) ==
  /\ \A a \in answers : a \subseteq Made(s) /\ Gapless(a)
  /\ validators[s] # {} => answers # {}
  /\ \A a \in validators[s] : a \subseteq UNION answers
SnapshotsHeld ==
  \A s \in Snapshots :
    /\ SnapshotHeld(s, held[s]) /\ SnapshotHeld(s, HeldAt(s))
    /\ fetchedAt[s] # {} => held[s] # {}
    /\ TimesAt(s) # {} => HeldAt(s) # {}
    /\ held[s] # {} => HeldAt(s) # {}
    /\ UNION held[s] \subseteq UNION HeldAt(s)

\* A poll goes on without a snapshot only when it is optional.
NoneMissing ==
  poll.stage # "idle" =>
    \A s \in Snapshots \ poll.todo : HeldAt(s) # {} \/ (poll.leftOut /\ s \notin feed.required)

\* All that is said is what the publisher changed, and what is published of a
\* snapshot is held, of it and its changes, once it is.
SaidAt(s) == UNION UNION {HeldAt(r) : r \in {s} \cup ChangesOver(s)}
ShownHeld ==
  \A s \in Snapshots :
    /\ shown[s] \subseteq Made(s) /\ Said(s, Roles) \subseteq Made(s) /\ SaidAt(s) \subseteq Made(s)
    /\ held[s] # {} => shown[s] \subseteq Said(s, Roles)
    /\ HeldAt(s) # {} => shown[s] \subseteq SaidAt(s)

\* A role of changes that asks since its last answer holds, with its snapshot, a
\* beginning of the changes; the others are stamped no earlier than its next
\* question reaches back to.
Reaches(s, answers, times) ==
  /\ UNION answers \subseteq Made(s)
  /\ Gapless(UNION answers)
  /\ \A i \in Made(s) \ UNION answers : \A t \in times : t <= changes[s][i] + Overlap
AllReach ==
  \A s \in Snapshots : ChangesOver(s) \subseteq feed.asks => \A c \in ChangesOver(s) :
    /\ held[s] # {} => Reaches(s, held[s] \cup held[c], fetchedAt[s] \cup fetchedAt[c])
    /\ HeldAt(s) # {} => Reaches(s, HeldAt(s) \cup HeldAt(c), TimesAt(s) \cup TimesAt(c))

\* Whether it has missed none: without a role whose window passes, a snapshot that
\* is held has the time it was fetched at.
Dated ==
  \A s \in Snapshots : ChangesOver(s) \subseteq feed.asks /\ held[s] # {} => fetchedAt[s] # {}

PollInv ==
  /\ PollTypeOK /\ Stamped /\ Paced /\ InTurn /\ SnapshotsHeld /\ NoneMissing /\ ShownHeld
  /\ AllReach /\ Dated /\ AcceptedIsPublished /\ IndexIsPublished

-----------------------------------------------------------------------------
(* What the assumptions say of a feed, and the types.                      *)

LEMMA Shape ==
  ASSUME feed \in Feeds
  PROVE  /\ DOMAIN feed.over \subseteq Roles
         /\ \A s \in Snapshots : s \in Roles /\ s \notin DOMAIN feed.over
         /\ \A c \in DOMAIN feed.over : feed.over[c] \in Snapshots
         /\ \A r \in Roles \ Snapshots : r \in DOMAIN feed.over
         /\ feed.required \subseteq Snapshots
         /\ \A s : \A c \in ChangesOver(s) : c \in DOMAIN feed.over /\ c \in Roles /\ feed.over[c] = s
         /\ \A c \in feed.conditional : c \in Roles /\ c \notin feed.asks
         /\ feed.asks \subseteq DOMAIN feed.over
  BY FeedAssumption DEF Roles, Snapshots, ChangesOver

LEMMA AnswerTyped ==
  ASSUME PollTypeOK, NEW r \in Roles
  PROVE  AnswerOf(r) \in Answers
<1>0. feed \in Feeds
  BY DEF PollTypeOK
<1>1. \A s \in Snapshots : DOMAIN changes[s] = 1 .. Len(changes[s]) /\ Len(changes[s]) \in 0 .. MaxChanges
  BY PollBoundAssumption DEF PollTypeOK
<1>2. \A s \in Snapshots : DOMAIN changes[s] \subseteq 1 .. MaxChanges
  BY <1>1, PollBoundAssumption
<1>3. r \notin Snapshots => feed.over[r] \in Snapshots
  BY <1>0, Shape
<1>4. QED
  BY <1>2, <1>3 DEF AnswerOf, Answers

Polls ==
  [stage : {"idle", "fetching", "parsing"}, at : 0 .. MaxWall,
   due : SUBSET Roles, todo : SUBSET Roles,
   fresh : {<<>>} \cup [Roles -> SUBSET Answers], renewed : SUBSET Roles,
   failed : SUBSET Roles, leftOut : BOOLEAN]

Publishes ==
  \/ PublishStates \/ (\E withheld \in BOOLEAN : PublishAll(withheld))
  \/ PayloadsFail \/ PublishFails

LEMMA PollTyped == PollTypeOK /\ [PollNext]_pollVars => PollTypeOK'
<1> SUFFICES ASSUME PollTypeOK, [PollNext]_pollVars PROVE PollTypeOK'
  OBVIOUS
<1> USE PollBoundAssumption
<1>0. feed \in Feeds /\ poll.stage \in {"idle", "fetching", "parsing"}
  BY DEF PollTypeOK
<1> USE <1>0
<1>r. Resting \in Polls /\ Resting.stage = "idle"
  BY DEF Polls, Resting
<1>f. feed' = feed => Fixed' = Fixed
  BY DEF Fixed, Snapshots, Roles, ChangesOver
<1> USE <1>f
<1>1. CASE \E s \in Snapshots, stamp \in 0 .. MaxWall : PublisherChanges(s, stamp)
  <2> PICK s \in Snapshots, stamp \in 0 .. MaxWall : PublisherChanges(s, stamp)
    BY <1>1
  <2>1. /\ changes[s] \in Seq(0 .. MaxWall) /\ Len(changes[s]) < MaxChanges
        /\ changes' = [changes EXCEPT ![s] = Append(changes[s], stamp)]
    BY DEF PublisherChanges, PollTypeOK
  <2>2. Append(changes[s], stamp) \in Seq(0 .. MaxWall) /\ Len(Append(changes[s], stamp)) <= MaxChanges
    BY <2>1
  <2>3. changes' \in [Snapshots -> Seq(0 .. MaxWall)] /\ \A q \in Snapshots : Len(changes'[q]) <= MaxChanges
    BY <2>1, <2>2 DEF PollTypeOK
  <2>4. QED
    BY <2>3 DEF PublisherChanges, PollTypeOK, Roles, Snapshots, clock, roleState
<1>2. CASE WallTicks
  BY <1>2 DEF WallTicks, PollTypeOK, publisher, roleState, Roles, Snapshots
<1>3. CASE BeginPoll
  <2>1. poll' = [stage |-> "fetching", at |-> wall, due |-> DueRoles, todo |-> DueRoles,
                 fresh |-> [r \in Roles |-> {}], renewed |-> {}, failed |-> {}, leftOut |-> FALSE]
    BY <1>3 DEF BeginPoll, Resting
  <2>2. DueRoles \subseteq Roles /\ [r \in Roles |-> {}] \in [Roles -> SUBSET Answers]
    BY DEF DueRoles
  <2>3. QED
    BY <1>3, <2>1, <2>2 DEF BeginPoll, PollTypeOK, publisher, roleState, Roles, Snapshots
<1>4. CASE \E r \in Roles : FetchRole(r)
  <2> PICK r \in Roles : FetchRole(r)
    BY <1>4
  <2>1. AnswerOf(r) \in Answers
    BY AnswerTyped
  <2>2. poll.stage = "fetching" /\ poll.fresh \in [Roles -> SUBSET Answers]
    BY DEF FetchRole, MayFetch, PollTypeOK
  <2> DEFINE new == IF r \in feed.conditional /\ validators[r] = {AnswerOf(r)} THEN {} ELSE {AnswerOf(r)}
  <2>3. [poll.fresh EXCEPT ![r] = new] \in [Roles -> SUBSET Answers]
    BY <2>1, <2>2
  <2>4. poll' = [stage |-> poll.stage, at |-> poll.at, due |-> poll.due, todo |-> poll.todo \ {r},
                 fresh |-> [poll.fresh EXCEPT ![r] = new], renewed |-> poll.renewed \cup {r},
                 failed |-> poll.failed, leftOut |-> poll.leftOut]
    BY DEF FetchRole, PollTypeOK
  <2> HIDE DEF new
  <2>6. poll' \in Polls /\ poll'.stage = "fetching" /\ poll'.fresh \in [Roles -> SUBSET Answers]
    BY <2>2, <2>3, <2>4 DEF PollTypeOK, Polls
  <2>5. QED
    BY <2>6 DEF Polls, FetchRole, PollTypeOK, publisher, roleState, clock, Roles, Snapshots
<1>5. CASE \E r \in Roles : RoleFails(r)
  <2> PICK r \in Roles : RoleFails(r)
    BY <1>5
  <2> DEFINE left == poll.leftOut \/ held[r] = {}
  <2>0. left \in BOOLEAN
    OBVIOUS
  <2>1. \/ poll' = Resting /\ attempt' = "failed"
        \/ /\ poll' = [stage |-> poll.stage, at |-> poll.at, due |-> poll.due, todo |-> poll.todo \ {r},
                       fresh |-> poll.fresh, renewed |-> poll.renewed,
                       failed |-> poll.failed \cup {r}, leftOut |-> left]
           /\ attempt' = attempt
    BY DEF RoleFails, EndPoll, PollTypeOK
  <2> HIDE DEF left
  <2>2. poll.stage = "fetching" /\ UNCHANGED <<publisher, clock, roleState, index, validators, shown>>
    BY DEF RoleFails, MayFetch
  <2>3. poll' = Resting \/ (poll' \in Polls /\ poll'.stage = "fetching" /\ poll'.fresh = poll.fresh)
    BY <2>0, <2>1, <2>2 DEF PollTypeOK, Polls
  <2>4. attempt' \in {attempt, "failed"}
    BY <2>1
  <2>5. QED
    BY <1>r, <2>2, <2>3, <2>4 DEF PollTypeOK, Polls, publisher, roleState, clock, Roles, Snapshots
<1>6. CASE \E r \in Roles : RoleIsPartial(r)
  <2> PICK r \in Roles : RoleIsPartial(r)
    BY <1>6
  <2>1. \/ poll' = Resting /\ attempt' = "failed"
        \/ /\ poll' = [stage |-> poll.stage, at |-> poll.at, due |-> poll.due, todo |-> poll.todo \ {r},
                       fresh |-> poll.fresh, renewed |-> poll.renewed,
                       failed |-> poll.failed, leftOut |-> poll.leftOut]
           /\ attempt' = attempt
    BY DEF RoleIsPartial, EndPoll, PollTypeOK
  <2>2. poll.stage = "fetching" /\ UNCHANGED <<publisher, clock, roleState, index, validators, shown>>
    BY DEF RoleIsPartial, MayFetch
  <2>3. poll' = Resting \/ (poll' \in Polls /\ poll'.stage = "fetching" /\ poll'.fresh = poll.fresh)
    BY <2>1, <2>2 DEF PollTypeOK, Polls
  <2>4. attempt' \in {attempt, "failed"}
    BY <2>1
  <2>5. QED
    BY <1>r, <2>2, <2>3, <2>4 DEF PollTypeOK, Polls, publisher, roleState, clock, Roles, Snapshots
<1>7. CASE HoldAnswers
  <2>1. poll.stage = "fetching" /\ poll.fresh \in [Roles -> SUBSET Answers]
    BY <1>7 DEF HoldAnswers, PollTypeOK
  <2>2. \A r \in Roles : HeldNow(r) \in SUBSET Answers
    <3>1. {} \in Answers
      BY DEF Answers
    <3>2. QED
      BY <2>1, <3>1 DEF HeldNow, PollTypeOK
  <2>3. held' \in [Roles -> SUBSET Answers]
    BY <1>7, <2>2 DEF HoldAnswers
  <2>4. fetchedAt' \in [Roles -> SUBSET (0 .. MaxWall)]
    BY <1>7 DEF HoldAnswers, FetchedNow, PollTypeOK
  <2>5. \/ poll' = Resting /\ attempt' \in {"failed", "unchanged"}
        \/ poll' = [poll EXCEPT !.stage = "parsing"] /\ attempt' = attempt
    BY <1>7 DEF HoldAnswers, EndPoll
  <2>6. UNCHANGED <<feed, changes, wall, tick, index, validators, shown>>
    BY <1>7 DEF HoldAnswers, publisher, clock
  <2>7. QED
    BY <1>r, <2>1, <2>3, <2>4, <2>5, <2>6 DEF PollTypeOK, Polls, Roles, Snapshots
<1>8. CASE Publishes
  <2>1. poll.stage = "parsing" /\ poll.fresh \in [Roles -> SUBSET Answers]
    BY <1>8 DEF Publishes, PublishStates, PublishAll, PayloadsFail, PublishFails, PollTypeOK
  <2>2. Accepted \in [Roles -> SUBSET Answers]
    BY <2>1 DEF Accepted, PollTypeOK
  <2>3. \A s \in Snapshots, roles \in SUBSET Roles : Said(s, roles) \in Answers
    BY DEF Said, Answers, PollTypeOK
  <2>4. \A s \in Snapshots : Said(s, Fetched) \in Answers /\ Said(s, Roles) \in Answers
    BY <2>3 DEF Fetched
  <2>5. shown' \in [Snapshots -> Answers]
    <3>1. WithStates \in [Snapshots -> Answers]
      BY <2>4 DEF WithStates, PollTypeOK, Answers
    <3>2. \A withheld \in BOOLEAN : WithAll(withheld) \in [Snapshots -> Answers]
      BY <2>4 DEF WithAll, PollTypeOK, Answers
    <3>3. QED
      BY <1>8, <3>1, <3>2 DEF Publishes, PublishStates, PublishAll, PayloadsFail,
                              PublishFails, MayLand, PollTypeOK
  <2>6. poll' = Resting /\ attempt' \in {"changed", "failed"} /\ validators' \in {validators, Accepted}
    BY <1>8 DEF Publishes, PublishStates, PublishAll, PayloadsFail, PublishFails, EndPoll
  <2>7. UNCHANGED <<feed, changes, wall, tick, fetchedAt, held>>
    BY <1>8 DEF Publishes, PublishStates, PublishAll, PayloadsFail, PublishFails, publisher,
                clock, roleState
  <2>8. index' \in SUBSET [Fixed -> Answers]
    <3>1. [s \in Fixed |-> Said(s, Roles)] \in [Fixed -> Answers]
      BY <2>4 DEF Fixed
    <3>2. index' \in {index, {}, {[s \in Fixed |-> Said(s, Roles)]}}
      BY <1>8 DEF Publishes, PublishStates, PublishAll, PayloadsFail, PublishFails
    <3>3. QED
      BY <3>1, <3>2 DEF PollTypeOK
  <2>9. QED
    BY <1>r, <2>2, <2>5, <2>6, <2>7, <2>8 DEF PollTypeOK, Polls, Roles, Snapshots
<1>9. CASE PollRestarts
  BY <1>9, <1>r DEF PollRestarts, PollTypeOK, Polls, publisher, clock, Roles, Snapshots
<1>10. CASE UNCHANGED pollVars
  BY <1>10 DEF pollVars, publisher, clock, roleState, PollTypeOK, Roles, Snapshots
<1>11. QED
  BY <1>1, <1>2, <1>3, <1>4, <1>5, <1>6, <1>7, <1>8, <1>9, <1>10 DEF PollNext, Publishes

-----------------------------------------------------------------------------
(* The clock, the stamps and the order of a poll.                          *)

LEMMA MadeFacts ==
  ASSUME PollTypeOK, NEW s \in Snapshots
  PROVE  /\ Len(changes[s]) \in Nat /\ Made(s) = DOMAIN changes[s]
         /\ \A i \in Made(s) : i \in Nat /\ i >= 1 /\ i <= Len(changes[s]) /\ changes[s][i] \in Nat
         /\ Made(s) \subseteq Nat
  BY PollBoundAssumption DEF PollTypeOK, Made

\* A change of the publisher adds the last one, stamped within the overlap.
LEMMA ChangeAdds ==
  ASSUME PollTypeOK, NEW s \in Snapshots, NEW stamp \in 0 .. MaxWall, PublisherChanges(s, stamp)
  PROVE  /\ Made(s)' = Made(s) \cup {Len(changes[s]) + 1} /\ Len(changes[s]) + 1 \notin Made(s)
         /\ \A i \in Made(s) : changes'[s][i] = changes[s][i] /\ changes[s][i] <= stamp
         /\ changes'[s][Len(changes[s]) + 1] = stamp
         /\ ChangesOver(s) # {} => wall <= stamp + Overlap
         /\ \A q \in Snapshots \ {s} : changes'[q] = changes[q] /\ Made(q)' = Made(q)
<1>1. changes[s] \in Seq(0 .. MaxWall) /\ Len(changes[s]) \in Nat
  BY DEF PollTypeOK
<1>2. changes' = [changes EXCEPT ![s] = Append(changes[s], stamp)]
  BY DEF PublisherChanges
<1>3. changes'[s] = Append(changes[s], stamp) /\ \A q \in Snapshots \ {s} : changes'[q] = changes[q]
  BY <1>2 DEF PollTypeOK
<1>4. /\ Len(changes'[s]) = Len(changes[s]) + 1 /\ changes'[s][Len(changes[s]) + 1] = stamp
      /\ \A i \in 1 .. Len(changes[s]) : changes'[s][i] = changes[s][i]
  BY <1>1, <1>3
<1>5. \A i \in 1 .. Len(changes[s]) : changes[s][i] <= stamp
  BY <1>1 DEF PublisherChanges
<1>6. ChangesOver(s) # {} => wall <= stamp + Overlap
  BY DEF PublisherChanges
<1>7. QED
  BY <1>1, <1>3, <1>4, <1>5, <1>6 DEF Made

LEMMA StampedStep == PollTypeOK /\ Stamped /\ [PollNext]_pollVars => Stamped'
<1> SUFFICES ASSUME PollTypeOK, Stamped, [PollNext]_pollVars PROVE Stamped'
  OBVIOUS
<1>1. CASE \E s \in Snapshots, stamp \in 0 .. MaxWall : PublisherChanges(s, stamp)
  <2> PICK s \in Snapshots, stamp \in 0 .. MaxWall : PublisherChanges(s, stamp)
    BY <1>1
  <2>1. Snapshots' = Snapshots
    BY DEF PublisherChanges, Snapshots, Roles
  <2>2. stamp \in Nat
    BY PollBoundAssumption
  <2>3. \A i, j \in Made(s)' : i <= j => changes'[s][i] <= changes'[s][j]
    BY <2>2, ChangeAdds, MadeFacts DEF Stamped
  <2>4. \A q \in Snapshots \ {s} : \A i, j \in Made(q)' : i <= j => changes'[q][i] <= changes'[q][j]
    BY ChangeAdds DEF Stamped
  <2>5. QED
    BY <2>1, <2>3, <2>4 DEF Stamped
<1>2. CASE UNCHANGED <<feed, changes>>
  BY <1>2 DEF Stamped, Made, Snapshots, Roles
<1>3. QED
  BY <1>1, <1>2 DEF PollNext, WallTicks, BeginPoll, FetchRole, RoleFails, RoleIsPartial,
     HoldAnswers, PublishStates, PublishAll, PayloadsFail, PublishFails, PollRestarts, pollVars, publisher

\* What a fetch, and a role that does without one, do to the poll.
LEMMA FetchDoes ==
  ASSUME PollTypeOK, NEW r \in Roles, FetchRole(r)
  PROVE  /\ poll.stage = "fetching" /\ r \in poll.todo
         /\ r \in DOMAIN feed.over => feed.over[r] \notin poll.todo
         /\ poll'.stage = "fetching" /\ poll'.at = poll.at /\ poll'.due = poll.due
         /\ poll'.todo = poll.todo \ {r} /\ poll'.renewed = poll.renewed \cup {r}
         /\ poll'.leftOut = poll.leftOut
         /\ \A q \in Roles \ {r} : poll'.fresh[q] = poll.fresh[q]
         /\ poll'.fresh[r] = IF r \in feed.conditional /\ validators[r] = {AnswerOf(r)}
                               THEN {} ELSE {AnswerOf(r)}
         /\ UNCHANGED <<feed, changes, wall, tick, fetchedAt, held, index, validators, shown, attempt>>
<1>1. poll.stage = "fetching" /\ poll.fresh \in [Roles -> SUBSET Answers]
  BY DEF FetchRole, MayFetch, PollTypeOK
<1> DEFINE new == IF r \in feed.conditional /\ validators[r] = {AnswerOf(r)} THEN {} ELSE {AnswerOf(r)}
<1>2. poll' = [stage |-> poll.stage, at |-> poll.at, due |-> poll.due, todo |-> poll.todo \ {r},
               fresh |-> [poll.fresh EXCEPT ![r] = new], renewed |-> poll.renewed \cup {r},
               failed |-> poll.failed, leftOut |-> poll.leftOut]
  BY DEF FetchRole, PollTypeOK
<1> HIDE DEF new
<1>3. /\ poll'.stage = "fetching" /\ poll'.at = poll.at /\ poll'.due = poll.due
      /\ poll'.todo = poll.todo \ {r} /\ poll'.renewed = poll.renewed \cup {r}
      /\ poll'.leftOut = poll.leftOut
      /\ \A q \in Roles \ {r} : poll'.fresh[q] = poll.fresh[q]
      /\ poll'.fresh[r] = new
  BY <1>1, <1>2
<1>4. r \in poll.todo /\ (r \in DOMAIN feed.over => feed.over[r] \notin poll.todo)
  BY DEF FetchRole, MayFetch
<1>5. UNCHANGED <<feed, changes, wall, tick, fetchedAt, held, index, validators, shown, attempt>>
  BY DEF FetchRole, publisher, clock, roleState
<1>6. QED
  BY <1>1, <1>3, <1>4, <1>5 DEF new

LEMMA SkipDoes ==
  ASSUME PollTypeOK, NEW r \in Roles, RoleFails(r) \/ RoleIsPartial(r)
  PROVE  /\ poll.stage = "fetching" /\ r \in poll.todo
         /\ \/ poll' = Resting
            \/ /\ poll'.stage = "fetching" /\ poll'.at = poll.at /\ poll'.due = poll.due
               /\ poll'.todo = poll.todo \ {r} /\ poll'.renewed = poll.renewed
               /\ poll'.fresh = poll.fresh
               /\ poll.leftOut => poll'.leftOut
               /\ held[r] # {} \/ (r \notin feed.required /\ poll'.leftOut)
         /\ UNCHANGED <<feed, changes, wall, tick, fetchedAt, held, index, validators, shown>>
<1>1. /\ poll.stage = "fetching" /\ r \in poll.todo
      /\ UNCHANGED <<feed, changes, wall, tick, fetchedAt, held, index, validators, shown>>
  BY DEF RoleFails, RoleIsPartial, MayFetch, publisher, clock, roleState
<1>2. CASE poll' = Resting
  BY <1>1, <1>2
<1>3. CASE poll' # Resting /\ RoleFails(r)
  <2>1. /\ held[r] # {} \/ r \notin feed.required
        /\ poll' = [poll EXCEPT !.todo = poll.todo \ {r}, !.failed = poll.failed \cup {r},
                                !.leftOut = poll.leftOut \/ held[r] = {}]
    BY <1>3 DEF RoleFails, EndPoll
  <2>2. /\ poll'.stage = poll.stage /\ poll'.at = poll.at /\ poll'.due = poll.due
        /\ poll'.todo = poll.todo \ {r} /\ poll'.renewed = poll.renewed /\ poll'.fresh = poll.fresh
        /\ poll'.leftOut = (poll.leftOut \/ held[r] = {})
    BY <2>1 DEF PollTypeOK
  <2>3. QED
    BY <1>1, <2>1, <2>2
<1>4. CASE poll' # Resting /\ RoleIsPartial(r)
  <2>1. held[r] # {} /\ poll' = [poll EXCEPT !.todo = poll.todo \ {r}]
    BY <1>4 DEF RoleIsPartial, EndPoll
  <2>2. /\ poll'.stage = poll.stage /\ poll'.at = poll.at /\ poll'.due = poll.due
        /\ poll'.todo = poll.todo \ {r} /\ poll'.renewed = poll.renewed /\ poll'.fresh = poll.fresh
        /\ poll'.leftOut = poll.leftOut
    BY <2>1 DEF PollTypeOK
  <2>3. QED
    BY <1>1, <2>1, <2>2
<1>5. QED
  BY <1>2, <1>3, <1>4

LEMMA PacedStep == PollTypeOK /\ Paced /\ [PollNext]_pollVars => Paced'
<1> SUFFICES ASSUME PollTypeOK, Paced, [PollNext]_pollVars PROVE Paced'
  OBVIOUS
<1> USE PollBoundAssumption
<1>0. wall \in Nat /\ \A r \in Roles : fetchedAt[r] \subseteq Nat
  BY DEF PollTypeOK
<1>1. CASE WallTicks
  BY <1>0, <1>1 DEF WallTicks, Paced, roleState, publisher, Roles
<1>2. CASE HoldAnswers
  <2>1. poll.at = wall /\ wall' = wall /\ Roles' = Roles
    BY <1>2 DEF HoldAnswers, Paced, clock, publisher, Roles
  <2>2. \A r \in Roles : fetchedAt'[r] \in {{poll.at}, {}, fetchedAt[r]}
    BY <1>2 DEF HoldAnswers, FetchedNow
  <2>3. poll'.stage = "idle" \/ poll'.at = poll.at
    BY <1>2 DEF HoldAnswers, EndPoll, Resting, PollTypeOK
  <2>4. QED
    BY <1>0, <2>1, <2>2, <2>3 DEF Paced
<1>3. CASE PollRestarts
  BY <1>3 DEF PollRestarts, Resting, Paced, clock, publisher, Roles
<1>4. CASE BeginPoll
  BY <1>4 DEF BeginPoll, Paced, roleState, publisher, Roles, Resting, DueRoles
<1>5. CASE /\ UNCHANGED <<wall, feed, fetchedAt>>
           /\ poll'.stage = "idle" \/ (poll'.at = poll.at /\ poll.stage # "idle") \/ poll' = poll
  BY <1>5 DEF Paced, Roles
<1>6. CASE \E r \in Roles : FetchRole(r) \/ RoleFails(r) \/ RoleIsPartial(r)
  <2> PICK r \in Roles : FetchRole(r) \/ RoleFails(r) \/ RoleIsPartial(r)
    BY <1>6
  <2>1. CASE FetchRole(r)
    BY <1>5, <2>1, FetchDoes
  <2>2. CASE RoleFails(r) \/ RoleIsPartial(r)
    BY <1>5, <2>2, SkipDoes DEF Resting
  <2>3. QED
    BY <2>1, <2>2
<1>7. CASE Publishes
  BY <1>5, <1>7 DEF Publishes, PublishStates, PublishAll, PayloadsFail, PublishFails, EndPoll, Resting, clock,
                    publisher, roleState
<1>8. CASE (\E s \in Snapshots, stamp \in 0 .. MaxWall : PublisherChanges(s, stamp)) \/ UNCHANGED pollVars
  BY <1>5, <1>8 DEF PublisherChanges, pollVars, clock, publisher, roleState
<1>9. QED
  BY <1>1, <1>2, <1>3, <1>4, <1>6, <1>7, <1>8 DEF PollNext, Publishes

\* What holding the answers does.
LEMMA HoldDoes ==
  ASSUME PollTypeOK, HoldAnswers
  PROVE  /\ poll.stage = "fetching" /\ poll.todo = {}
         /\ \A r \in Roles : held'[r] = HeldNow(r)
         /\ \A r \in poll.renewed : fetchedAt'[r] = {poll.at}
         /\ \A r \in Roles \ poll.renewed :
              \/ fetchedAt'[r] = fetchedAt[r]
              \/ fetchedAt'[r] = {} /\ \E c \in ChangesOver(r) : c \notin feed.asks
         /\ \/ poll' = Resting /\ \A r \in Roles : poll.fresh[r] = {}
            \/ /\ poll'.stage = "parsing" /\ poll'.at = poll.at /\ poll'.due = poll.due
               /\ poll'.todo = {} /\ poll'.renewed = poll.renewed /\ poll'.fresh = poll.fresh
               /\ poll'.leftOut = poll.leftOut
         /\ UNCHANGED <<feed, changes, wall, tick, index, validators, shown>>
<1>1. poll.stage = "fetching" /\ poll.todo = {}
  BY DEF HoldAnswers
<1>2. \A r \in Roles : held'[r] = HeldNow(r)
  BY DEF HoldAnswers
<1>3. \A r \in poll.renewed : fetchedAt'[r] = {poll.at}
  BY DEF HoldAnswers, FetchedNow, PollTypeOK
<1>4. \A r \in Roles \ poll.renewed :
        \/ fetchedAt'[r] = fetchedAt[r]
        \/ fetchedAt'[r] = {} /\ \E c \in ChangesOver(r) : c \notin feed.asks
  <2> TAKE r \in Roles \ poll.renewed
  <2>1. fetchedAt'[r] = CASE r \in poll.renewed -> {poll.at}
                          [] \E c \in ChangesOver(r) : Missed(c) /\ r \notin poll.renewed -> {}
                          [] OTHER -> fetchedAt[r]
    BY DEF HoldAnswers, FetchedNow
  <2>2. CASE \E c \in ChangesOver(r) : Missed(c)
    BY <2>1, <2>2 DEF Missed
  <2>3. CASE ~\E c \in ChangesOver(r) : Missed(c)
    BY <2>1, <2>3
  <2>4. QED
    BY <2>2, <2>3
<1>5. CASE Fetched = {}
  <2>1. poll' = Resting /\ \A r \in Roles : poll.fresh[r] = {}
    BY <1>5 DEF HoldAnswers, EndPoll, Fetched
  <2>2. QED
    BY <1>1, <1>2, <1>3, <1>4, <2>1 DEF HoldAnswers, publisher, clock
<1>6. CASE Fetched # {}
  <2>1. poll' = [poll EXCEPT !.stage = "parsing"]
    BY <1>6 DEF HoldAnswers
  <2>2. /\ poll'.stage = "parsing" /\ poll'.at = poll.at /\ poll'.due = poll.due
        /\ poll'.todo = {} /\ poll'.renewed = poll.renewed /\ poll'.fresh = poll.fresh
        /\ poll'.leftOut = poll.leftOut
    BY <1>1, <2>1 DEF PollTypeOK
  <2>3. QED
    BY <1>1, <1>2, <1>3, <1>4, <2>2 DEF HoldAnswers, publisher, clock
<1>7. QED
  BY <1>5, <1>6

\* A poll begins with nothing fetched.
LEMMA BeginDoes ==
  ASSUME PollTypeOK, BeginPoll
  PROVE  /\ poll.stage = "idle" /\ poll'.stage = "fetching" /\ poll'.at = wall
         /\ poll'.due = DueRoles /\ poll'.todo = DueRoles /\ poll'.renewed = {}
         /\ ~poll'.leftOut
         /\ \A r \in Roles : poll'.fresh[r] = {}
         /\ \A r \in Roles \ DueRoles : fetchedAt[r] # {}
         /\ UNCHANGED <<feed, changes, wall, fetchedAt, held, index, validators, shown>>
  BY DEF BeginPoll, Resting, DueRoles, publisher, roleState

\* What a role will hold.
LEMMA HeldAtIs ==
  ASSUME PollTypeOK
  PROVE  /\ \A s \in Snapshots :
              HeldAt(s) = IF poll.stage = "fetching" /\ poll.fresh[s] # {} THEN poll.fresh[s] ELSE held[s]
         /\ \A s \in Snapshots : \A c \in ChangesOver(s) :
              HeldAt(c) = IF poll.stage # "fetching" THEN held[c]
                          ELSE IF s \in poll.renewed THEN {{}} \cup poll.fresh[c] ELSE held[c] \cup poll.fresh[c]
<1>1. feed \in Feeds
  BY DEF PollTypeOK
<1>2. QED
  BY <1>1, Shape DEF HeldAt, HeldNow, StartsOver

LEMMA InTurnStep == PollTypeOK /\ InTurn /\ [PollNext]_pollVars => InTurn'
<1> SUFFICES ASSUME PollTypeOK, InTurn, [PollNext]_pollVars PROVE InTurn'
  OBVIOUS
<1>0. feed \in Feeds
  BY DEF PollTypeOK
<1>r. CASE poll' = Resting /\ feed' = feed
  BY <1>r DEF Resting, InTurn, Roles, Snapshots
<1>1. CASE BeginPoll
  BY <1>1, BeginDoes DEF InTurn, Roles, Snapshots
<1>2. CASE \E r \in Roles : FetchRole(r)
  <2> PICK r \in Roles : FetchRole(r)
    BY <1>2
  <2>0. /\ poll.stage = "fetching" /\ r \in poll.todo
        /\ r \in DOMAIN feed.over => feed.over[r] \notin poll.todo
        /\ poll'.stage = "fetching" /\ poll'.due = poll.due
        /\ poll'.todo = poll.todo \ {r} /\ poll'.renewed = poll.renewed \cup {r}
        /\ \A q \in Roles \ {r} : poll'.fresh[q] = poll.fresh[q]
        /\ UNCHANGED <<feed, fetchedAt>>
    BY FetchDoes
  <2>1. \A c \in DOMAIN feed.over : c \in poll'.renewed => feed.over[c] \notin poll'.todo
    BY <2>0 DEF InTurn
  <2>2. \A q \in Roles \ poll'.renewed : poll'.fresh[q] = {}
    BY <2>0 DEF InTurn
  <2>3. QED
    BY <2>0, <2>1, <2>2 DEF InTurn, Roles, Snapshots
<1>3. CASE \E r \in Roles : RoleFails(r) \/ RoleIsPartial(r)
  <2> PICK r \in Roles : RoleFails(r) \/ RoleIsPartial(r)
    BY <1>3
  <2>1. CASE poll' = Resting
    BY <1>r, <2>1, SkipDoes
  <2>2. CASE poll' # Resting
    BY <2>2, SkipDoes DEF InTurn, Roles, Snapshots
  <2>3. QED
    BY <2>1, <2>2
<1>4. CASE HoldAnswers
  <2>1. CASE poll' = Resting
    BY <1>r, <1>4, <2>1, HoldDoes
  <2>2. CASE poll' # Resting
    <3>1. \A s \in Snapshots : poll.fresh[s] # {} => held'[s] = poll.fresh[s]
      BY <1>0, <1>4, HoldDoes, HeldAtIs, Shape DEF HeldAt
    <3>2. QED
      BY <1>4, <2>2, <3>1, HoldDoes DEF InTurn, Roles, Snapshots
  <2>3. QED
    BY <2>1, <2>2
<1>5. CASE Publishes \/ PollRestarts
  BY <1>r, <1>5 DEF Publishes, PublishStates, PublishAll, PayloadsFail, PublishFails, PollRestarts, EndPoll, publisher
<1>6. CASE \/ \E s \in Snapshots, stamp \in 0 .. MaxWall : PublisherChanges(s, stamp)
           \/ WallTicks \/ UNCHANGED pollVars
  BY <1>6 DEF PublisherChanges, WallTicks, pollVars, clock, publisher, roleState, InTurn, Roles, Snapshots
<1>7. QED
  BY <1>1, <1>2, <1>3, <1>4, <1>5, <1>6 DEF PollNext, Publishes

-----------------------------------------------------------------------------
(* What the steps do to the answers of the roles.                          *)

\* Neither an answer is held nor a role fetched: what a poll will hold stays, or
\* the poll begins or ends.
Follows ==
  /\ UNCHANGED <<feed, held, fetchedAt>>
  /\ \/ \A r \in Roles : HeldAt(r)' = HeldAt(r) /\ TimesAt(r)' = TimesAt(r)
     \/ \A r \in Roles : HeldAt(r)' = held[r] /\ TimesAt(r)' = fetchedAt[r]

Changes == \E s \in Snapshots, stamp \in 0 .. MaxWall : PublisherChanges(s, stamp)
Quiet ==
  \/ WallTicks \/ BeginPoll \/ UNCHANGED pollVars
  \/ \E r \in Roles : RoleFails(r) \/ RoleIsPartial(r)

LEMMA QuietFollows ==
  ASSUME PollTypeOK, Quiet \/ Publishes \/ Changes
  PROVE  Follows
<1>0. feed \in Feeds
  BY DEF PollTypeOK
<1>1. CASE UNCHANGED <<feed, held, fetchedAt>> /\ poll'.stage # "fetching"
  BY <1>1 DEF Follows, HeldAt, TimesAt
<1>2. CASE UNCHANGED <<feed, held, fetchedAt, poll>>
  BY <1>2 DEF Follows, HeldAt, TimesAt, HeldNow, StartsOver
<1>3. CASE BeginPoll
  <2>1. \A r \in Roles : HeldNow(r)' = held[r]
    BY <1>3, BeginDoes DEF HeldNow, StartsOver
  <2>2. QED
    BY <1>3, <2>1, BeginDoes DEF Follows, HeldAt, TimesAt
<1>4. CASE \E r \in Roles : RoleFails(r) \/ RoleIsPartial(r)
  <2> PICK r \in Roles : RoleFails(r) \/ RoleIsPartial(r)
    BY <1>4
  <2>1. CASE poll' = Resting
    BY <1>1, <2>1, SkipDoes DEF Resting
  <2>2. CASE poll' # Resting
    <3>1. /\ UNCHANGED <<feed, held, fetchedAt>> /\ poll'.renewed = poll.renewed /\ poll'.at = poll.at
          /\ poll'.fresh = poll.fresh /\ poll'.stage = "fetching" /\ poll.stage = "fetching"
      BY <2>2, SkipDoes
    <3>2. QED
      BY <3>1 DEF Follows, HeldAt, TimesAt, HeldNow, StartsOver
  <2>3. QED
    BY <2>1, <2>2
<1>5. CASE Publishes
  BY <1>1, <1>5 DEF Publishes, PublishStates, PublishAll, PayloadsFail, PublishFails, EndPoll, Resting, publisher, roleState
<1>6. CASE WallTicks \/ UNCHANGED pollVars \/ Changes
  BY <1>2, <1>6 DEF WallTicks, pollVars, Changes, PublisherChanges, publisher, roleState
<1>7. QED
  BY <1>3, <1>4, <1>5, <1>6 DEF Quiet

\* A snapshot's answer is all there is, and its roles of changes start over.
LEMMA FetchSnapshot ==
  ASSUME PollTypeOK, InTurn, SnapshotsHeld, NEW s \in Snapshots, FetchRole(s)
  PROVE  /\ HeldAt(s)' # {} /\ UNION HeldAt(s)' = Made(s)
         /\ \A a \in HeldAt(s)' : a \subseteq Made(s) /\ Gapless(a)
         /\ TimesAt(s)' = {poll.at}
         /\ \A c \in ChangesOver(s) :
              HeldAt(c)' = {{}} /\ TimesAt(c)' = TimesAt(c) /\ TimesAt(c) = fetchedAt[c]
         /\ \A q \in Snapshots \ {s} :
              /\ HeldAt(q)' = HeldAt(q) /\ TimesAt(q)' = TimesAt(q)
              /\ \A c \in ChangesOver(q) : HeldAt(c)' = HeldAt(c) /\ TimesAt(c)' = TimesAt(c)
         /\ UNCHANGED <<feed, changes, wall, held, fetchedAt, validators, shown, index>>
<1>0. feed \in Feeds /\ s \in Roles
  BY Shape DEF PollTypeOK
<1>1. /\ poll.stage = "fetching" /\ s \in poll.todo
      /\ poll'.stage = "fetching" /\ poll'.at = poll.at
      /\ poll'.renewed = poll.renewed \cup {s}
      /\ \A q \in Roles \ {s} : poll'.fresh[q] = poll.fresh[q]
      /\ poll'.fresh[s] = IF s \in feed.conditional /\ validators[s] = {AnswerOf(s)} THEN {} ELSE {AnswerOf(s)}
      /\ UNCHANGED <<feed, changes, wall, held, fetchedAt, validators, shown, index>>
  BY <1>0, FetchDoes
<1>2. AnswerOf(s) = Made(s)
  BY MadeFacts DEF AnswerOf
<1>3. Gapless(Made(s))
  BY MadeFacts DEF Gapless, Made
<1>4. HeldAt(s)' = IF poll'.fresh[s] # {} THEN poll'.fresh[s] ELSE held[s]
  BY <1>0, <1>1, Shape DEF HeldAt, HeldNow, StartsOver
<1>5. /\ HeldAt(s)' # {} /\ UNION HeldAt(s)' = Made(s)
      /\ \A a \in HeldAt(s)' : a \subseteq Made(s) /\ Gapless(a)
  <2>1. CASE poll'.fresh[s] # {}
    BY <1>1, <1>2, <1>3, <1>4, <2>1
  <2>2. CASE poll'.fresh[s] = {}
    <3>1. validators[s] = {Made(s)} /\ HeldAt(s)' = held[s]
      BY <1>1, <1>2, <1>4, <2>2
    <3>2. SnapshotHeld(s, held[s])
      BY DEF SnapshotsHeld
    <3>3. QED
      BY <3>1, <3>2 DEF SnapshotHeld
  <2>3. QED
    BY <2>1, <2>2
<1>6. \A c \in ChangesOver(s) : c \in Roles /\ c # s /\ c \notin poll.renewed /\ poll.fresh[c] = {}
  BY <1>0, <1>1, Shape DEF InTurn
<1>7. \A c \in ChangesOver(s) :
         HeldAt(c)' = {{}} /\ TimesAt(c)' = TimesAt(c) /\ TimesAt(c) = fetchedAt[c]
  BY <1>0, <1>1, <1>6, Shape DEF HeldAt, TimesAt, HeldNow, StartsOver
<1>8. \A q \in Snapshots \ {s} :
        /\ HeldAt(q)' = HeldAt(q) /\ TimesAt(q)' = TimesAt(q)
        /\ \A c \in ChangesOver(q) : HeldAt(c)' = HeldAt(c) /\ TimesAt(c)' = TimesAt(c)
  <2> TAKE q \in Snapshots \ {s}
  <2>1. q \in Roles /\ q \notin DOMAIN feed.over /\ \A c \in ChangesOver(q) : c \in Roles /\ feed.over[c] = q /\ c \in DOMAIN feed.over /\ c # s
    BY <1>0, Shape
  <2>2. HeldAt(q)' = HeldAt(q) /\ TimesAt(q)' = TimesAt(q)
    BY <1>1, <2>1 DEF HeldAt, TimesAt, HeldNow, StartsOver
  <2>3. \A c \in ChangesOver(q) : HeldAt(c)' = HeldAt(c) /\ TimesAt(c)' = TimesAt(c)
    BY <1>1, <2>1 DEF HeldAt, TimesAt, HeldNow, StartsOver
  <2>4. QED
    BY <2>2, <2>3
<1>9. TimesAt(s)' = {poll.at}
  BY <1>1 DEF TimesAt
<1>10. QED
  BY <1>1, <1>5, <1>7, <1>8, <1>9

\* A role of changes adds its answer.
LEMMA FetchChanges ==
  ASSUME PollTypeOK, InTurn, NEW c \in Roles \ Snapshots, FetchRole(c)
  PROVE  /\ feed.over[c] \in Snapshots /\ c \in ChangesOver(feed.over[c])
         /\ HeldAt(c)' = HeldAt(c) \cup poll'.fresh[c]
         /\ poll'.fresh[c] = {AnswerOf(c)} \/ (poll'.fresh[c] = {} /\ c \in feed.conditional)
         /\ TimesAt(c)' = {poll.at} /\ TimesAt(c) = fetchedAt[c]
         /\ \A r \in Roles \ {c} : HeldAt(r)' = HeldAt(r) /\ TimesAt(r)' = TimesAt(r)
         /\ UNCHANGED <<feed, changes, wall, held, fetchedAt, validators, shown, index>>
<1>0. feed \in Feeds /\ c \in DOMAIN feed.over /\ feed.over[c] \in Snapshots
  BY Shape DEF PollTypeOK
<1>1. /\ poll.stage = "fetching" /\ c \in poll.todo /\ c \notin poll.renewed /\ poll.fresh[c] = {}
      /\ poll'.stage = "fetching" /\ poll'.at = poll.at
      /\ poll'.renewed = poll.renewed \cup {c}
      /\ \A q \in Roles \ {c} : poll'.fresh[q] = poll.fresh[q]
      /\ poll'.fresh[c] = IF c \in feed.conditional /\ validators[c] = {AnswerOf(c)} THEN {} ELSE {AnswerOf(c)}
      /\ UNCHANGED <<feed, changes, wall, held, fetchedAt, validators, shown, index>>
  BY FetchDoes DEF InTurn
<1>2. \A r \in Roles \ {c} : HeldAt(r)' = HeldAt(r) /\ TimesAt(r)' = TimesAt(r)
  <2>1. \A r \in DOMAIN feed.over : feed.over[r] # c
    BY <1>0, Shape
  <2>2. QED
    BY <1>1, <2>1 DEF HeldAt, TimesAt, HeldNow, StartsOver
<1>3. HeldAt(c)' = HeldAt(c) \cup poll'.fresh[c]
  <2>1. feed.over[c] # c
    BY <1>0, Shape
  <2>2. QED
    BY <1>0, <1>1, <2>1 DEF HeldAt, HeldNow, StartsOver
<1>4. QED
  BY <1>0, <1>1, <1>2, <1>3 DEF TimesAt, ChangesOver

\* Holding the answers holds what the poll was to hold.
LEMMA HoldKeeps ==
  ASSUME PollTypeOK, HoldAnswers
  PROVE  \A r \in Roles :
           /\ held'[r] = HeldAt(r) /\ HeldAt(r)' = HeldAt(r) /\ TimesAt(r)' = fetchedAt'[r]
           /\ \/ fetchedAt'[r] = TimesAt(r)
              \/ fetchedAt'[r] = {} /\ \E c \in ChangesOver(r) : c \notin feed.asks
<1>1. poll.stage = "fetching" /\ poll'.stage # "fetching" /\ \A r \in Roles : held'[r] = HeldNow(r)
  BY HoldDoes DEF Resting
<1>2. \A r \in Roles : held'[r] = HeldAt(r) /\ HeldAt(r)' = HeldAt(r) /\ TimesAt(r)' = fetchedAt'[r]
  BY <1>1 DEF HeldAt, TimesAt
<1>3. \A r \in Roles :
        \/ fetchedAt'[r] = TimesAt(r)
        \/ fetchedAt'[r] = {} /\ \E c \in ChangesOver(r) : c \notin feed.asks
  BY <1>1, HoldDoes DEF TimesAt
<1>4. QED
  BY <1>2, <1>3

\* What the steps leave alone.
LEMMA QuietKeeps ==
  ASSUME PollTypeOK, Quiet
  PROVE  UNCHANGED <<feed, changes, held, fetchedAt, validators, shown, index>>
<1>1. CASE BeginPoll \/ \E r \in Roles : RoleFails(r) \/ RoleIsPartial(r)
  BY <1>1, BeginDoes, SkipDoes
<1>2. CASE WallTicks \/ UNCHANGED pollVars
  BY <1>2 DEF WallTicks, pollVars, publisher, roleState
<1>3. QED
  BY <1>1, <1>2 DEF Quiet

LEMMA ChangesKeep ==
  ASSUME Changes
  PROVE  UNCHANGED <<feed, wall, held, fetchedAt, validators, shown, index, poll>>
  BY DEF Changes, PublisherChanges, clock, roleState

\* A publication, or its failure.
LEMMA PublishDoes ==
  ASSUME PollTypeOK, Publishes
  PROVE  /\ poll.stage = "parsing" /\ poll' = Resting
         /\ UNCHANGED <<feed, changes, wall, held, fetchedAt>>
         /\ \/ UNCHANGED <<validators, shown>> /\ index' \in {index, {}}
            \/ /\ OnlyStates /\ index' = index
               /\ \A s \in Snapshots : shown'[s] = shown[s] \cup Said(s, Fetched)
               /\ \A s \in Snapshots : validators'[s] \in {validators[s], poll.fresh[s]}
            \/ /\ ~OnlyStates /\ index' \in {{}, {[s \in Fixed |-> Said(s, Roles)]}}
               /\ \A s \in Snapshots :
                    /\ Said(s, Roles) \subseteq shown'[s]
                    /\ shown'[s] \subseteq Said(s, Roles) \cup shown[s]
                    /\ s \in feed.live /\ poll.leftOut => shown[s] \subseteq shown'[s]
                    /\ s \notin feed.live => shown'[s] = Said(s, Roles)
               /\ \A s \in Snapshots : validators'[s] \in {validators[s], poll.fresh[s]}
<1>0. feed \in Feeds /\ \A s \in Snapshots : s \in Roles
  BY Shape DEF PollTypeOK
<1>1. /\ poll.stage = "parsing" /\ poll' = Resting
      /\ UNCHANGED <<feed, changes, wall, held, fetchedAt>>
  BY DEF Publishes, PublishStates, PublishAll, PayloadsFail, PublishFails, EndPoll, publisher,
         clock, roleState
<1>2. \A s \in Snapshots : Accepted[s] \in {validators[s], poll.fresh[s]}
  BY <1>0 DEF Accepted
<1>3. \A s \in Snapshots : WithStates[s] = shown[s] \cup Said(s, Fetched)
  BY DEF WithStates
<1>4. \A withheld \in BOOLEAN : \A s \in Snapshots :
        /\ Said(s, Roles) \subseteq WithAll(withheld)[s]
        /\ WithAll(withheld)[s] \subseteq Said(s, Roles) \cup shown[s]
        /\ s \in feed.live /\ poll.leftOut => shown[s] \subseteq WithAll(withheld)[s]
        /\ s \notin feed.live => WithAll(withheld)[s] = Said(s, Roles)
  BY DEF WithAll
<1>5. CASE PayloadsFail
  BY <1>1, <1>5 DEF PayloadsFail
<1>6. CASE PublishFails
  <2>1. UNCHANGED validators /\ index' = IF OnlyStates THEN index ELSE {}
    BY <1>6 DEF PublishFails
  <2>2. CASE UNCHANGED shown
    BY <1>1, <2>1, <2>2
  <2>3. CASE OnlyStates /\ shown' = WithStates
    BY <1>1, <1>3, <2>1, <2>3
  <2>4. CASE ~OnlyStates /\ \E withheld \in BOOLEAN : shown' = WithAll(withheld)
    BY <1>1, <1>4, <2>1, <2>4
  <2>5. QED
    BY <1>6, <2>2, <2>3, <2>4 DEF PublishFails, MayLand
<1>7. CASE PublishStates
  BY <1>1, <1>2, <1>3, <1>7 DEF PublishStates
<1>8. CASE \E withheld \in BOOLEAN : PublishAll(withheld)
  <2> PICK withheld \in BOOLEAN : PublishAll(withheld)
    BY <1>8
  <2>1. /\ ~OnlyStates /\ shown' = WithAll(withheld)
        /\ index' \in {{}, {[s \in Fixed |-> Said(s, Roles)]}}
    BY DEF PublishAll
  <2>2. \A s \in Snapshots : validators'[s] \in {validators[s], poll.fresh[s]}
    BY <1>2 DEF PublishAll
  <2>3. QED
    BY <1>1, <1>4, <2>1, <2>2
<1>9. QED
  BY <1>5, <1>6, <1>7, <1>8 DEF Publishes

LEMMA RestartDoes ==
  ASSUME PollRestarts
  PROVE  /\ poll' = Resting /\ UNCHANGED <<feed, changes, wall, shown>> /\ index' = {}
         /\ \A r \in Roles : /\ held'[r] = {} /\ fetchedAt'[r] = {} /\ validators'[r] = {}
                              /\ HeldAt(r)' = {} /\ TimesAt(r)' = {}
  BY DEF PollRestarts, publisher, clock, HeldAt, TimesAt, Resting

LEMMA StepKinds ==
  ASSUME [PollNext]_pollVars
  PROVE  \/ Quiet \/ Changes \/ Publishes \/ HoldAnswers \/ PollRestarts
         \/ \E s \in Snapshots : FetchRole(s)
         \/ \E c \in Roles \ Snapshots : FetchRole(c)
  BY DEF PollNext, Quiet, Changes, Publishes

-----------------------------------------------------------------------------
(* What is held, and what is published of it.                              *)

LEMMA SnapshotsHeldStep ==
  PollTypeOK /\ InTurn /\ SnapshotsHeld /\ [PollNext]_pollVars => SnapshotsHeld'
<1> SUFFICES ASSUME PollTypeOK, InTurn, SnapshotsHeld, [PollNext]_pollVars PROVE SnapshotsHeld'
  OBVIOUS
<1>0. feed \in Feeds /\ \A s \in Snapshots : s \in Roles
  BY Shape DEF PollTypeOK
<1> DEFINE AsIs(s) == \/ HeldAt(s)' = HeldAt(s) /\ TimesAt(s)' = TimesAt(s)
                      \/ HeldAt(s)' = held[s] /\ TimesAt(s)' = fetchedAt[s]
<1>a. ASSUME UNCHANGED <<feed, held, fetchedAt>>, \A s \in Snapshots : AsIs(s),
             \A s \in Snapshots : /\ Made(s) \subseteq Made(s)'
                                  /\ validators'[s] \in {validators[s], held[s], {}}
      PROVE  SnapshotsHeld'
  <2>1. \A s \in Snapshots : SnapshotHeld(s, held[s])'
    BY <1>a DEF SnapshotsHeld, SnapshotHeld
  <2>2. \A s \in Snapshots : SnapshotHeld(s, HeldAt(s))'
    BY <1>a DEF SnapshotsHeld, SnapshotHeld
  <2>3. Snapshots' = Snapshots
    BY <1>a DEF Snapshots, Roles
  <2>4. QED
    BY <2>1, <2>2, <2>3, <1>a DEF SnapshotsHeld
<1>1. CASE Quiet
  BY <1>0, <1>1, <1>a, QuietFollows, QuietKeeps DEF Follows, Made
<1>2. CASE Changes
  BY <1>0, <1>2, <1>a, QuietFollows, ChangesKeep, ChangeAdds DEF Follows, Changes
<1>3. CASE Publishes
  <2>1. \A s \in Snapshots : poll.fresh[s] \in {held[s], {}}
    BY <1>3, PublishDoes DEF InTurn
  <2>2. \A s \in Snapshots : validators'[s] \in {validators[s], held[s], {}} /\ Made(s) \subseteq Made(s)'
    BY <1>3, <2>1, PublishDoes DEF Made
  <2>3. QED
    BY <1>0, <1>3, <1>a, <2>2, QuietFollows, PublishDoes DEF Follows
<1>4. CASE HoldAnswers
  <2>1. UNCHANGED <<feed, changes, validators>>
    BY <1>4, HoldDoes
  <2>2. \A s \in Snapshots :
          /\ held'[s] = HeldAt(s) /\ HeldAt(s)' = HeldAt(s) /\ TimesAt(s)' = fetchedAt'[s]
          /\ fetchedAt'[s] \in {TimesAt(s), {}}
    BY <1>0, <1>4, HoldKeeps
  <2>3. QED
    BY <2>1, <2>2 DEF SnapshotsHeld, SnapshotHeld, Made, Snapshots, Roles
<1>5. CASE PollRestarts
  <2>1. \A s \in Snapshots : /\ held'[s] = {} /\ fetchedAt'[s] = {} /\ validators'[s] = {}
                             /\ HeldAt(s)' = {} /\ TimesAt(s)' = {}
    BY <1>0, <1>5, RestartDoes
  <2>2. UNCHANGED feed
    BY <1>5, RestartDoes
  <2>3. QED
    BY <2>1, <2>2 DEF SnapshotsHeld, SnapshotHeld, Snapshots, Roles
<1>6. CASE \E s \in Snapshots : FetchRole(s)
  <2> PICK s \in Snapshots : FetchRole(s)
    BY <1>6
  <2> DEFINE Keeps(q) == /\ SnapshotHeld(q, held[q])' /\ SnapshotHeld(q, HeldAt(q))'
                         /\ fetchedAt'[q] # {} => held'[q] # {}
                         /\ TimesAt(q)' # {} => HeldAt(q)' # {}
                         /\ held'[q] # {} => HeldAt(q)' # {}
                         /\ UNION held'[q] \subseteq UNION HeldAt(q)'
  <2>1. Keeps(s)
    <3>1. /\ HeldAt(s)' # {} /\ UNION HeldAt(s)' = Made(s)
          /\ \A a \in HeldAt(s)' : a \subseteq Made(s) /\ Gapless(a)
          /\ UNCHANGED <<changes, held, fetchedAt, validators>>
      BY FetchSnapshot
    <3>2. UNION held[s] \subseteq Made(s) /\ \A a \in validators[s] : a \subseteq Made(s)
      BY DEF SnapshotsHeld, SnapshotHeld
    <3>3. QED
      BY <3>1, <3>2 DEF SnapshotsHeld, SnapshotHeld, Made
  <2>2. \A q \in Snapshots \ {s} : Keeps(q)
    <3>1. \A q \in Snapshots \ {s} : HeldAt(q)' = HeldAt(q) /\ TimesAt(q)' = TimesAt(q)
      BY FetchSnapshot
    <3>2. UNCHANGED <<changes, held, fetchedAt, validators>>
      BY FetchSnapshot
    <3>3. QED
      BY <3>1, <3>2 DEF SnapshotsHeld, SnapshotHeld, Made
  <2>3. Snapshots' = Snapshots
    BY FetchSnapshot DEF Snapshots, Roles
  <2>4. QED
    BY <2>1, <2>2, <2>3 DEF SnapshotsHeld
<1>7. CASE \E c \in Roles \ Snapshots : FetchRole(c)
  <2> PICK c \in Roles \ Snapshots : FetchRole(c)
    BY <1>7
  <2>1. \A r \in Roles \ {c} : HeldAt(r)' = HeldAt(r) /\ TimesAt(r)' = TimesAt(r)
    BY FetchChanges
  <2>2. UNCHANGED <<feed, changes, held, fetchedAt, validators>>
    BY FetchChanges
  <2>3. QED
    BY <1>0, <1>a, <2>1, <2>2 DEF Made
<1>8. QED
  BY <1>1, <1>2, <1>3, <1>4, <1>5, <1>6, <1>7, StepKinds

LEMMA SaidHeld ==
  ASSUME NEW s \in Snapshots, feed \in Feeds
  PROVE  /\ UNION held[s] \subseteq Said(s, Roles)
         /\ s \in Fetched => UNION held[s] \subseteq Said(s, Fetched)
  BY Shape DEF Said

LEMMA AcceptedIsPublishedStep ==
  ASSUME PollTypeOK, InTurn, SnapshotsHeld, AcceptedIsPublished, [PollNext]_pollVars
  PROVE  AcceptedIsPublished'
<1>0. feed \in Feeds /\ \A s \in Snapshots : s \in Roles
  BY Shape DEF PollTypeOK
<1>1. CASE UNCHANGED <<feed, validators, shown>>
  BY <1>1 DEF AcceptedIsPublished, Snapshots, Roles
<1>2. CASE Publishes
  <2>1. \A s \in Snapshots : poll.fresh[s] # {} => held[s] = poll.fresh[s] /\ s \in Fetched
    BY <1>0, <1>2, PublishDoes DEF InTurn, Fetched
  <2>2. \A s \in Snapshots : \A a \in validators[s] : a \subseteq UNION held[s] /\ a \subseteq shown[s]
    BY DEF SnapshotsHeld, SnapshotHeld, AcceptedIsPublished
  <2>3. ASSUME NEW s \in Snapshots, NEW a \in validators'[s]
        PROVE  a \subseteq shown'[s]
    <3>1. UNION held[s] \subseteq Said(s, Roles) /\ (s \in Fetched => UNION held[s] \subseteq Said(s, Fetched))
      BY <1>0, SaidHeld
    <3>2. a \in validators[s] \/ (a \in held[s] /\ s \in Fetched /\ validators'[s] # validators[s])
      BY <1>2, <2>1, <2>3, PublishDoes
    <3>3. \/ validators'[s] = validators[s] /\ shown'[s] = shown[s]
          \/ shown'[s] = shown[s] \cup Said(s, Fetched)
          \/ Said(s, Roles) \subseteq shown'[s]
      BY <1>2, PublishDoes
    <3>4. QED
      BY <2>2, <3>1, <3>2, <3>3
  <2>4. QED
    BY <1>2, <2>3, PublishDoes DEF AcceptedIsPublished, Snapshots, Roles
<1>3. CASE PollRestarts
  BY <1>0, <1>3, RestartDoes DEF AcceptedIsPublished, Snapshots, Roles
<1>4. CASE HoldAnswers
  BY <1>1, <1>4, HoldDoes
<1>5. QED
  BY <1>1, <1>2, <1>3, <1>4, StepKinds, QuietKeeps, ChangesKeep, FetchSnapshot, FetchChanges

\* Only live states say nothing of a snapshot they do not change.
LEMMA StatesApart ==
  ASSUME InTurn, poll.stage = "parsing", OnlyStates, NEW s \in Fixed
  PROVE  Said(s, Fetched) = {}
<1>1. Fetched \subseteq feed.live
  BY DEF InTurn, OnlyStates, Fetched
<1>2. ({s} \cup ChangesOver(s)) \cap Fetched = {}
  BY <1>1 DEF Fixed
<1>3. QED
  BY <1>2 DEF Said

LEMMA IndexStep ==
  ASSUME PollTypeOK, InTurn, IndexIsPublished, [PollNext]_pollVars
  PROVE  IndexIsPublished'
<1>1. ASSUME UNCHANGED feed
      PROVE  Fixed' = Fixed /\ \A s \in Fixed : s \in Snapshots /\ s \notin feed.live
  BY <1>1 DEF Fixed, Snapshots, Roles, ChangesOver
<1>2. CASE UNCHANGED <<feed, shown, index>>
  BY <1>1, <1>2 DEF IndexIsPublished
<1>3. CASE Publishes
  <2>1. UNCHANGED feed /\ poll.stage = "parsing"
    BY <1>3, PublishDoes
  <2>2. CASE UNCHANGED shown /\ index' \in {index, {}}
    BY <1>1, <2>1, <2>2 DEF IndexIsPublished
  <2>3. CASE /\ OnlyStates /\ index' = index
             /\ \A s \in Snapshots : shown'[s] = shown[s] \cup Said(s, Fetched)
    <3>1. \A s \in Fixed : shown'[s] = shown[s]
      BY <1>1, <2>1, <2>3, StatesApart
    <3>2. QED
      BY <1>1, <2>1, <2>3, <3>1 DEF IndexIsPublished
  <2>4. CASE /\ index' \in {{}, {[s \in Fixed |-> Said(s, Roles)]}}
             /\ \A s \in Snapshots : s \notin feed.live => shown'[s] = Said(s, Roles)
    BY <1>1, <2>1, <2>4 DEF IndexIsPublished
  <2>5. QED
    BY <1>3, <2>2, <2>3, <2>4, PublishDoes
<1>4. CASE PollRestarts
  BY <1>4, RestartDoes DEF IndexIsPublished
<1>5. CASE Quiet \/ Changes \/ HoldAnswers \/ \E r \in Roles : FetchRole(r)
  BY <1>2, <1>5, QuietKeeps, ChangesKeep, HoldDoes, FetchDoes
<1>6. \A s \in Snapshots : s \in Roles
  BY Shape DEF PollTypeOK
<1>7. QED
  BY <1>3, <1>4, <1>5, <1>6, StepKinds

LEMMA NoneMissingStep ==
  ASSUME PollTypeOK, InTurn, SnapshotsHeld, NoneMissing, [PollNext]_pollVars
  PROVE  NoneMissing'
<1>0. feed \in Feeds /\ \A s \in Snapshots : s \in Roles
  BY Shape DEF PollTypeOK
<1>1. CASE poll' = Resting
  BY <1>1 DEF NoneMissing, Resting
<1>2. CASE UNCHANGED <<feed, held, poll>>
  BY <1>2 DEF NoneMissing, HeldAt, HeldNow, StartsOver, Snapshots, Roles
<1>3. CASE BeginPoll
  <2>1. poll'.todo = DueRoles /\ UNCHANGED feed /\ \A s \in Snapshots \ DueRoles : fetchedAt[s] # {}
    BY <1>0, <1>3, BeginDoes
  <2>2. \A s \in Snapshots : fetchedAt[s] # {} => HeldAt(s)' # {}
    BY <1>0, <1>3, QuietFollows DEF Quiet, Follows, SnapshotsHeld
  <2>3. QED
    BY <2>1, <2>2 DEF NoneMissing, Snapshots, Roles
<1>4. CASE (\E r \in Roles : RoleFails(r) \/ RoleIsPartial(r)) /\ poll' # Resting
  <2> PICK r \in Roles : RoleFails(r) \/ RoleIsPartial(r)
    BY <1>4
  <2>1. /\ poll.stage = "fetching" /\ poll'.stage = "fetching" /\ poll'.todo = poll.todo \ {r}
        /\ poll'.renewed = poll.renewed /\ poll'.fresh = poll.fresh
        /\ poll.leftOut => poll'.leftOut
        /\ held[r] # {} \/ (r \notin feed.required /\ poll'.leftOut)
        /\ UNCHANGED <<feed, held>>
    BY <1>4, SkipDoes
  <2>2. \A s \in Snapshots : HeldAt(s)' = HeldAt(s)
    BY <2>1 DEF HeldAt, HeldNow, StartsOver
  <2>3. \A s \in Snapshots : held[s] # {} => HeldAt(s) # {}
    BY DEF SnapshotsHeld
  <2>4. QED
    BY <2>1, <2>2, <2>3 DEF NoneMissing, Snapshots, Roles
<1>5. CASE \E s \in Snapshots : FetchRole(s)
  <2> PICK s \in Snapshots : FetchRole(s)
    BY <1>5
  <2>1. /\ poll.stage = "fetching" /\ poll'.todo = poll.todo \ {s} /\ poll'.leftOut = poll.leftOut
        /\ UNCHANGED feed
    BY <1>0, FetchDoes
  <2>2. HeldAt(s)' # {} /\ \A q \in Snapshots \ {s} : HeldAt(q)' = HeldAt(q)
    BY FetchSnapshot
  <2>3. QED
    BY <2>1, <2>2 DEF NoneMissing, Snapshots, Roles
<1>6. CASE \E c \in Roles \ Snapshots : FetchRole(c)
  <2> PICK c \in Roles \ Snapshots : FetchRole(c)
    BY <1>6
  <2>1. /\ poll.stage = "fetching" /\ poll'.todo = poll.todo \ {c} /\ poll'.leftOut = poll.leftOut
        /\ UNCHANGED feed
    BY FetchDoes
  <2>2. \A s \in Snapshots : HeldAt(s)' = HeldAt(s)
    BY <1>0, FetchChanges
  <2>3. QED
    BY <2>1, <2>2 DEF NoneMissing, Snapshots, Roles
<1>7. CASE HoldAnswers
  <2>1. /\ poll.stage = "fetching" /\ poll.todo = {} /\ UNCHANGED feed
        /\ poll' = Resting \/ (poll'.todo = {} /\ poll'.leftOut = poll.leftOut)
    BY <1>7, HoldDoes
  <2>2. \A s \in Snapshots : HeldAt(s)' = HeldAt(s)
    BY <1>0, <1>7, HoldKeeps
  <2>3. QED
    BY <1>1, <2>1, <2>2 DEF NoneMissing, Snapshots, Roles
<1>8. CASE Publishes \/ PollRestarts
  BY <1>1, <1>8, PublishDoes, RestartDoes
<1>9. CASE WallTicks
  BY <1>9 DEF WallTicks, NoneMissing
<1>10. CASE UNCHANGED pollVars \/ Changes
  BY <1>2, <1>10, ChangesKeep DEF pollVars, publisher, roleState
<1>11. QED
  BY <1>1, <1>3, <1>4, <1>5, <1>6, <1>7, <1>8, <1>9, <1>10, StepKinds DEF Quiet

LEMMA DatedStep ==
  ASSUME PollTypeOK, InTurn, Dated, [PollNext]_pollVars
  PROVE  Dated'
<1>0. feed \in Feeds /\ \A s \in Snapshots : s \in Roles
  BY Shape DEF PollTypeOK
<1>1. CASE UNCHANGED <<feed, held, fetchedAt>>
  BY <1>1 DEF Dated, ChangesOver, Snapshots, Roles
<1>2. CASE HoldAnswers
  <2>1. poll.stage = "fetching" /\ UNCHANGED feed
    BY <1>2, HoldDoes
  <2>2. ASSUME NEW s \in Snapshots, ChangesOver(s) \subseteq feed.asks, held'[s] # {}
        PROVE  fetchedAt'[s] # {}
    <3>1. HeldAt(s) # {} /\ fetchedAt'[s] = TimesAt(s)
      BY <1>0, <1>2, <2>2, HoldKeeps
    <3>2. CASE s \in poll.renewed
      BY <2>1, <3>1, <3>2 DEF TimesAt
    <3>3. CASE s \notin poll.renewed
      <4>1. poll.fresh[s] = {} /\ TimesAt(s) = fetchedAt[s]
        BY <1>0, <2>1, <3>3 DEF InTurn, TimesAt
      <4>2. HeldAt(s) = held[s]
        BY <1>0, <4>1, HeldAtIs
      <4>3. QED
        BY <2>2, <3>1, <4>1, <4>2 DEF Dated
    <3>4. QED
      BY <3>2, <3>3
  <2>3. QED
    BY <2>1, <2>2 DEF Dated, ChangesOver, Snapshots, Roles
<1>3. CASE PollRestarts
  BY <1>0, <1>3, RestartDoes DEF Dated, Snapshots, Roles
<1>4. CASE Quiet \/ Changes \/ Publishes
  BY <1>1, <1>4, QuietKeeps, ChangesKeep, PublishDoes
<1>5. CASE \E r \in Roles : FetchRole(r)
  BY <1>1, <1>5, FetchDoes
<1>6. QED
  BY <1>0, <1>2, <1>3, <1>4, <1>5, StepKinds

\* What is said of a snapshot, when the answers of its roles are known.
LEMMA SaidFollows ==
  ASSUME NEW s, UNCHANGED feed
  PROVE  /\ (\A r \in {s} \cup ChangesOver(s) : HeldAt(r)' = HeldAt(r)) => SaidAt(s)' = SaidAt(s)
         /\ (\A r \in {s} \cup ChangesOver(s) : HeldAt(r)' = held[r] /\ r \in Roles) =>
              SaidAt(s)' = Said(s, Roles)
         /\ (\A r \in {s} \cup ChangesOver(s) : held'[r] = held[r]) =>
              Said(s, Roles)' = Said(s, Roles)
         /\ (\A r \in {s} \cup ChangesOver(s) : held'[r] = HeldAt(r) /\ r \in Roles) =>
              Said(s, Roles)' = SaidAt(s)
<1>1. ChangesOver(s)' = ChangesOver(s) /\ Roles' = Roles
  BY DEF ChangesOver, Roles
<1>2. \A x : x \in SaidAt(s) <=> \E r \in {s} \cup ChangesOver(s) : \E a \in HeldAt(r) : x \in a
  BY DEF SaidAt
<1>3. \A x : x \in SaidAt(s)' <=> \E r \in {s} \cup ChangesOver(s) : \E a \in HeldAt(r)' : x \in a
  BY <1>1 DEF SaidAt
<1>4. \A x : x \in Said(s, Roles) <=>
               \E r \in ({s} \cup ChangesOver(s)) \cap Roles : \E a \in held[r] : x \in a
  BY DEF Said
<1>5. \A x : x \in Said(s, Roles)' <=>
               \E r \in ({s} \cup ChangesOver(s)) \cap Roles : \E a \in held'[r] : x \in a
  BY <1>1 DEF Said
<1>6. (\A r \in {s} \cup ChangesOver(s) : HeldAt(r)' = HeldAt(r)) => SaidAt(s)' = SaidAt(s)
  BY <1>2, <1>3
<1>7. (\A r \in {s} \cup ChangesOver(s) : HeldAt(r)' = held[r] /\ r \in Roles) =>
        SaidAt(s)' = Said(s, Roles)
  BY <1>3, <1>4
<1>8. (\A r \in {s} \cup ChangesOver(s) : held'[r] = held[r]) => Said(s, Roles)' = Said(s, Roles)
  BY <1>4, <1>5
<1>9. (\A r \in {s} \cup ChangesOver(s) : held'[r] = HeldAt(r) /\ r \in Roles) =>
        Said(s, Roles)' = SaidAt(s)
  BY <1>2, <1>5
<1>10. QED
  BY <1>6, <1>7, <1>8, <1>9

LEMMA ShownHeldStep ==
  ASSUME PollTypeOK, InTurn, SnapshotsHeld, ShownHeld, [PollNext]_pollVars
  PROVE  ShownHeld'
<1>0. feed \in Feeds /\ \A s \in Snapshots : s \in Roles /\ \A r \in {s} \cup ChangesOver(s) : r \in Roles
  BY Shape DEF PollTypeOK
<1> DEFINE Keeps(s) == /\ shown'[s] \subseteq Made(s)' /\ Said(s, Roles)' \subseteq Made(s)'
                       /\ SaidAt(s)' \subseteq Made(s)'
                       /\ held'[s] # {} => shown'[s] \subseteq Said(s, Roles)'
                       /\ HeldAt(s)' # {} => shown'[s] \subseteq SaidAt(s)'
<1>k. ASSUME UNCHANGED feed, \A s \in Snapshots : Keeps(s)
      PROVE  ShownHeld'
  BY <1>k DEF ShownHeld, Snapshots, Roles
<1>1. ASSUME Follows, UNCHANGED shown, \A s \in Snapshots : Made(s) \subseteq Made(s)'
      PROVE  ShownHeld'
  <2>1. UNCHANGED <<feed, held>>
    BY <1>1 DEF Follows
  <2>2. \A s \in Snapshots : Said(s, Roles)' = Said(s, Roles)
    BY <2>1, SaidFollows
  <2>3. \A s \in Snapshots :
          \/ HeldAt(s)' = HeldAt(s) /\ SaidAt(s)' = SaidAt(s)
          \/ HeldAt(s)' = held[s] /\ SaidAt(s)' = Said(s, Roles)
    <3>1. CASE \A r \in Roles : HeldAt(r)' = HeldAt(r)
      BY <1>0, <2>1, <3>1, SaidFollows
    <3>2. CASE \A r \in Roles : HeldAt(r)' = held[r]
      BY <1>0, <2>1, <3>2, SaidFollows
    <3>3. QED
      BY <1>1, <3>1, <3>2 DEF Follows
  <2>4. \A s \in Snapshots : Keeps(s)
    BY <1>1, <2>1, <2>2, <2>3 DEF ShownHeld
  <2>5. QED
    BY <1>k, <2>1, <2>4
<1>2. CASE Quiet
  BY <1>1, <1>2, QuietFollows, QuietKeeps DEF Made
<1>3. CASE Changes
  BY <1>1, <1>3, QuietFollows, ChangesKeep, ChangeAdds DEF Changes
<1>4. CASE Publishes
  <2>1. poll.stage = "parsing" /\ poll'.stage = "idle" /\ UNCHANGED <<feed, changes, held>>
    BY <1>4, PublishDoes DEF Resting
  <2>2. \A r \in Roles : HeldAt(r)' = held[r] /\ HeldAt(r) = held[r]
    BY <2>1 DEF HeldAt
  <2>3. \A s \in Snapshots : SaidAt(s)' = Said(s, Roles) /\ Said(s, Roles)' = Said(s, Roles)
    BY <1>0, <2>1, <2>2, SaidFollows
  <2>4. \A s \in Snapshots : Said(s, Fetched) \subseteq Said(s, Roles)
    BY DEF Said, Fetched
  <2>5. \A s \in Snapshots : shown'[s] \subseteq shown[s] \cup Said(s, Roles)
    BY <1>4, <2>4, PublishDoes
  <2>6. \A s \in Snapshots : Keeps(s)
    BY <1>0, <2>1, <2>2, <2>3, <2>5 DEF ShownHeld, Made
  <2>7. QED
    BY <1>k, <2>1, <2>6
<1>5. CASE HoldAnswers
  <2>1. UNCHANGED <<feed, changes, shown>>
    BY <1>5, HoldDoes
  <2>2. \A r \in Roles : held'[r] = HeldAt(r) /\ HeldAt(r)' = HeldAt(r)
    BY <1>5, HoldKeeps
  <2>3. \A s \in Snapshots : SaidAt(s)' = SaidAt(s) /\ Said(s, Roles)' = SaidAt(s)
    BY <1>0, <2>1, <2>2, SaidFollows
  <2>4. \A s \in Snapshots : Keeps(s)
    BY <1>0, <2>1, <2>2, <2>3 DEF ShownHeld, Made
  <2>5. QED
    BY <1>k, <2>1, <2>4
<1>6. CASE PollRestarts
  <2>1. UNCHANGED <<feed, changes, shown>> /\ \A r \in Roles : held'[r] = {} /\ HeldAt(r)' = {}
    BY <1>6, RestartDoes
  <2>2. Roles' = Roles /\ \A s : ChangesOver(s)' = ChangesOver(s)
    BY <2>1 DEF Roles, ChangesOver
  <2>3. \A s \in Snapshots : Said(s, Roles)' = {} /\ SaidAt(s)' = {}
    BY <1>0, <2>1, <2>2 DEF Said, SaidAt
  <2>4. \A s \in Snapshots : Keeps(s)
    BY <1>0, <2>1, <2>3 DEF ShownHeld, Made
  <2>5. QED
    BY <1>k, <2>1, <2>4
<1>7. CASE \E s \in Snapshots : FetchRole(s)
  <2> PICK s \in Snapshots : FetchRole(s)
    BY <1>7
  <2>1. UNCHANGED <<feed, changes, shown, held>>
    BY FetchSnapshot
  <2>2. \A q \in Snapshots : Said(q, Roles)' = Said(q, Roles)
    BY <2>1, SaidFollows
  <2>3. SaidAt(s)' = Made(s)
    <3>1. ChangesOver(s)' = ChangesOver(s)
      BY <2>1 DEF ChangesOver
    <3>2. UNION HeldAt(s)' = Made(s) /\ \A c \in ChangesOver(s) : HeldAt(c)' = {{}}
      BY FetchSnapshot
    <3>3. QED
      BY <3>1, <3>2 DEF SaidAt
  <2>4. \A q \in Snapshots \ {s} : HeldAt(q)' = HeldAt(q) /\ SaidAt(q)' = SaidAt(q)
    BY <2>1, FetchSnapshot, SaidFollows
  <2>5. \A q \in Snapshots : Keeps(q)
    BY <2>1, <2>2, <2>3, <2>4 DEF ShownHeld, Made
  <2>6. QED
    BY <1>k, <2>1, <2>5
<1>8. CASE \E c \in Roles \ Snapshots : FetchRole(c)
  <2> PICK c \in Roles \ Snapshots : FetchRole(c)
    BY <1>8
  <2>0. PICK s \in Snapshots : s = feed.over[c]
    BY FetchChanges
  <2>1. UNCHANGED <<feed, changes, shown, held>>
    BY FetchChanges
  <2>2. \A q \in Snapshots : Said(q, Roles)' = Said(q, Roles)
    BY <2>1, SaidFollows
  <2>3. AnswerOf(c) \subseteq Made(s)
    BY <2>0, MadeFacts DEF AnswerOf
  <2>4. \A q \in Snapshots : HeldAt(q)' = HeldAt(q)
    BY <1>0, FetchChanges
  <2>5. \A q \in Snapshots \ {s} : SaidAt(q)' = SaidAt(q)
    <3>1. \A q \in Snapshots \ {s} : \A r \in {q} \cup ChangesOver(q) : HeldAt(r)' = HeldAt(r)
      BY <1>0, <2>0, FetchChanges DEF ChangesOver
    <3>2. QED
      BY <2>1, <3>1, SaidFollows
  <2>6. SaidAt(s) \subseteq SaidAt(s)' /\ SaidAt(s)' \subseteq SaidAt(s) \cup Made(s)
    <3>1. ChangesOver(s)' = ChangesOver(s)
      BY <2>1 DEF ChangesOver
    <3>2. \A r \in {s} \cup ChangesOver(s) :
            HeldAt(r) \subseteq HeldAt(r)' /\ HeldAt(r)' \subseteq HeldAt(r) \cup {AnswerOf(c)}
      BY <1>0, FetchChanges
    <3>3. \A x : x \in SaidAt(s) <=> \E r \in {s} \cup ChangesOver(s) : \E a \in HeldAt(r) : x \in a
      BY DEF SaidAt
    <3>4. \A x : x \in SaidAt(s)' <=> \E r \in {s} \cup ChangesOver(s) : \E a \in HeldAt(r)' : x \in a
      BY <3>1 DEF SaidAt
    <3>5. QED
      BY <2>3, <3>2, <3>3, <3>4
  <2>7. \A q \in Snapshots : Keeps(q)
    BY <2>1, <2>2, <2>4, <2>5, <2>6 DEF ShownHeld, Made
  <2>8. QED
    BY <1>k, <2>1, <2>7
<1>9. QED
  BY <1>2, <1>3, <1>4, <1>5, <1>6, <1>7, <1>8, StepKinds

-----------------------------------------------------------------------------
(* A role of changes that asks since its last answer.                      *)

LEMMA ReachesAll ==
  ASSUME PollTypeOK, NEW s \in Snapshots, NEW answers, NEW times, UNION answers = Made(s)
  PROVE  Reaches(s, answers, times)
<1>1. Gapless(Made(s))
  BY MadeFacts DEF Gapless, Made
<1>2. QED
  BY <1>1 DEF Reaches

\* What it asks for is no less than what is missing: it asks from its last answer or
\* its snapshot's, less the overlap.
LEMMA AsksForAll ==
  ASSUME PollTypeOK, Paced, InTurn, AllReach, Dated, NEW c \in Roles \ Snapshots, NEW s \in Snapshots,
         s = feed.over[c], ChangesOver(s) \subseteq feed.asks, FetchRole(c), HeldAt(s) # {}
  PROVE  UNION (HeldAt(s) \cup HeldAt(c) \cup {AnswerOf(c)}) = Made(s)
<1> USE OverlapAssumption
<1>0. feed \in Feeds /\ s \in Roles /\ c \in ChangesOver(s) /\ c \in feed.asks
  BY Shape DEF PollTypeOK, ChangesOver
<1>1. /\ poll.stage = "fetching" /\ c \in poll.todo /\ c \notin poll.renewed /\ TimesAt(c) = fetchedAt[c]
  BY FetchDoes, FetchChanges DEF InTurn
<1>2. Reaches(s, HeldAt(s) \cup HeldAt(c), TimesAt(s) \cup TimesAt(c))
  BY <1>0 DEF AllReach
<1> DEFINE covered == fetchedAt[c] \cup fetchedAt[s]
           last == IF covered = {} THEN poll.at ELSE Latest(covered)
<1>3. covered # {} => Latest(covered) \in covered
  <2>1. \A t, u \in fetchedAt[s] : t = u
    BY <1>0 DEF Paced
  <2>2. \A t, u \in fetchedAt[c] : t = u
    BY DEF Paced
  <2>3. covered \subseteq Nat
    BY <1>0, PollBoundAssumption DEF PollTypeOK
  <2>4. covered # {} => \E t \in covered : \A u \in covered : u <= t
    <3>1. CASE fetchedAt[s] = {}
      BY <2>2, <2>3, <3>1
    <3>2. CASE fetchedAt[c] = {}
      BY <2>1, <2>3, <3>2
    <3>3. CASE fetchedAt[s] # {} /\ fetchedAt[c] # {}
      <4>1. PICK t \in fetchedAt[s], u \in fetchedAt[c] : TRUE
        BY <3>3
      <4>2. \A v \in covered : v = t \/ v = u
        BY <2>1, <2>2, <4>1
      <4>3. t \in Nat /\ u \in Nat
        BY <2>3, <4>1
      <4>4. CASE t <= u
        BY <4>1, <4>2, <4>3, <4>4
      <4>5. CASE u <= t
        BY <4>1, <4>2, <4>3, <4>5
      <4>6. QED
        BY <4>3, <4>4, <4>5
    <3>4. QED
      BY <3>1, <3>2, <3>3
  <2>5. QED
    BY <2>4 DEF Latest
<1>4. poll.at \in Nat /\ poll.at = wall /\ \A t \in covered : t \in Nat /\ t <= poll.at
  BY <1>0, <1>1, PollBoundAssumption DEF Paced, PollTypeOK
<1> HIDE DEF covered
<1>l. last \in Nat /\ last <= poll.at /\ (covered # {} => last \in covered)
  BY <1>3, <1>4
<1> HIDE DEF last
<1>5. \E t \in TimesAt(s) \cup TimesAt(c) : last <= t /\ t \in Nat
  <2>1. CASE s \in poll.renewed
    BY <1>1, <1>l, <1>4, <2>1 DEF TimesAt
  <2>2. CASE s \notin poll.renewed
    <3>1. TimesAt(s) = fetchedAt[s] /\ poll.fresh[s] = {}
      BY <1>0, <1>1, <2>2 DEF TimesAt, InTurn
    <3>2. held[s] # {}
      BY <3>1, HeldAtIs
    <3>3. covered # {}
      BY <1>0, <3>2 DEF Dated, covered
    <3>4. last \in TimesAt(s) \cup TimesAt(c)
      BY <1>1, <1>l, <3>1, <3>3 DEF covered
    <3>5. QED
      BY <1>l, <3>4
  <2>3. QED
    BY <2>1, <2>2
<1>6. AskedFrom(c) = IF last >= Overlap THEN last - Overlap ELSE 0
  BY DEF AskedFrom, last, covered
<1>7. \A i \in Made(s) \ UNION (HeldAt(s) \cup HeldAt(c)) : i \in AnswerOf(c)
  <2> TAKE i \in Made(s) \ UNION (HeldAt(s) \cup HeldAt(c))
  <2>1. changes[s][i] \in Nat /\ i \in DOMAIN changes[s]
    BY MadeFacts
  <2>2. last <= changes[s][i] + Overlap
    BY <1>2, <1>5, <1>l, <2>1 DEF Reaches
  <2>3. changes[s][i] >= AskedFrom(c)
    BY <1>l, <1>6, <2>1, <2>2
  <2>4. QED
    BY <1>0, <2>1, <2>3 DEF AnswerOf
<1>8. AnswerOf(c) \subseteq Made(s)
  BY MadeFacts DEF AnswerOf
<1>9. QED
  BY <1>2, <1>7, <1>8 DEF Reaches

LEMMA AllReachStep ==
  ASSUME PollTypeOK, Paced, InTurn, SnapshotsHeld, AllReach, Dated, [PollNext]_pollVars
  PROVE  AllReach'
<1> USE OverlapAssumption
<1>0. feed \in Feeds /\ \A s \in Snapshots : s \in Roles /\ \A c \in ChangesOver(s) : c \in Roles
  BY Shape DEF PollTypeOK
<1> DEFINE
      KeepsHeld(s, c) == held'[s] # {} => Reaches(s, held[s] \cup held[c], fetchedAt[s] \cup fetchedAt[c])'
      KeepsAt(s, c) == HeldAt(s)' # {} => Reaches(s, HeldAt(s) \cup HeldAt(c), TimesAt(s) \cup TimesAt(c))'
<1>k. ASSUME UNCHANGED feed,
             \A s \in Snapshots : ChangesOver(s) \subseteq feed.asks =>
               \A c \in ChangesOver(s) : KeepsHeld(s, c) /\ KeepsAt(s, c)
      PROVE  AllReach'
  BY <1>k DEF AllReach, Snapshots, Roles, ChangesOver
<1>1. ASSUME Follows, UNCHANGED changes
      PROVE  AllReach'
  <2>1. UNCHANGED <<feed, changes, held, fetchedAt>>
    BY <1>1 DEF Follows
  <2>2. ASSUME NEW s \in Snapshots, ChangesOver(s) \subseteq feed.asks, NEW c \in ChangesOver(s)
        PROVE  KeepsHeld(s, c) /\ KeepsAt(s, c)
    <3>1. /\ held[s] # {} => Reaches(s, held[s] \cup held[c], fetchedAt[s] \cup fetchedAt[c])
          /\ HeldAt(s) # {} => Reaches(s, HeldAt(s) \cup HeldAt(c), TimesAt(s) \cup TimesAt(c))
      BY <2>2 DEF AllReach
    <3>2. \/ /\ HeldAt(s)' = HeldAt(s) /\ TimesAt(s)' = TimesAt(s)
             /\ HeldAt(c)' = HeldAt(c) /\ TimesAt(c)' = TimesAt(c)
          \/ /\ HeldAt(s)' = held[s] /\ TimesAt(s)' = fetchedAt[s]
             /\ HeldAt(c)' = held[c] /\ TimesAt(c)' = fetchedAt[c]
      BY <1>0, <1>1 DEF Follows
    <3>3. QED
      BY <2>1, <3>1, <3>2 DEF Reaches, Made
  <2>3. QED
    BY <1>k, <2>1, <2>2
<1>2. CASE Quiet \/ Publishes
  BY <1>1, <1>2, QuietFollows, QuietKeeps, PublishDoes
<1>3. CASE Changes
  <2> PICK q \in Snapshots, stamp \in 0 .. MaxWall : PublisherChanges(q, stamp)
    BY <1>3 DEF Changes
  <2>1. UNCHANGED <<feed, wall, held, fetchedAt, poll>>
    BY <1>3, ChangesKeep
  <2>2. \A r : HeldAt(r)' = HeldAt(r) /\ TimesAt(r)' = TimesAt(r)
    BY <2>1 DEF HeldAt, TimesAt, HeldNow, StartsOver
  <2>3. ASSUME NEW s \in Snapshots, NEW c \in ChangesOver(s), NEW answers, NEW times,
               Reaches(s, answers, times), \A t \in times : t \in Nat /\ t <= wall
        PROVE  /\ UNION answers \subseteq Made(s)'
               /\ \A i \in Made(s)' \ UNION answers : \A t \in times : t <= changes'[s][i] + Overlap
    <3>1. CASE s # q
      BY <2>3, <3>1, ChangeAdds DEF Reaches
    <3>2. CASE s = q
      <4>1. wall <= stamp + Overlap /\ wall \in Nat /\ stamp \in Nat
        BY <2>3, <3>2, ChangeAdds, PollBoundAssumption DEF PollTypeOK
      <4>2. \A t \in times : t <= stamp + Overlap
        BY <2>3, <4>1
      <4>3. QED
        BY <2>3, <3>2, <4>2, ChangeAdds DEF Reaches
    <3>3. QED
      BY <3>1, <3>2
  <2>4. ASSUME NEW s \in Snapshots, ChangesOver(s) \subseteq feed.asks, NEW c \in ChangesOver(s)
        PROVE  KeepsHeld(s, c) /\ KeepsAt(s, c)
    <3>1. /\ held[s] # {} => Reaches(s, held[s] \cup held[c], fetchedAt[s] \cup fetchedAt[c])
          /\ HeldAt(s) # {} => Reaches(s, HeldAt(s) \cup HeldAt(c), TimesAt(s) \cup TimesAt(c))
      BY <2>4 DEF AllReach
    <3>2. \A r \in {s, c} : \A t \in fetchedAt[r] \cup TimesAt(r) : t \in Nat /\ t <= wall
      BY <1>0, PollBoundAssumption DEF Paced, TimesAt, PollTypeOK
    <3>3. KeepsHeld(s, c)
      <4>1. \A t \in fetchedAt[s] \cup fetchedAt[c] : t \in Nat /\ t <= wall
        BY <3>2
      <4>2. held[s] # {} =>
              /\ UNION (held[s] \cup held[c]) \subseteq Made(s)'
              /\ \A i \in Made(s)' \ UNION (held[s] \cup held[c]) :
                   \A t \in fetchedAt[s] \cup fetchedAt[c] : t <= changes'[s][i] + Overlap
        BY <2>3, <3>1, <4>1
      <4>3. QED
        BY <2>1, <3>1, <4>2 DEF Reaches
    <3>4. KeepsAt(s, c)
      <4>1. \A t \in TimesAt(s) \cup TimesAt(c) : t \in Nat /\ t <= wall
        BY <3>2
      <4>2. HeldAt(s) # {} =>
              /\ UNION (HeldAt(s) \cup HeldAt(c)) \subseteq Made(s)'
              /\ \A i \in Made(s)' \ UNION (HeldAt(s) \cup HeldAt(c)) :
                   \A t \in TimesAt(s) \cup TimesAt(c) : t <= changes'[s][i] + Overlap
        BY <2>3, <3>1, <4>1
      <4>3. QED
        BY <2>2, <3>1, <4>2 DEF Reaches
    <3>5. QED
      BY <3>3, <3>4
  <2>5. QED
    BY <1>k, <2>1, <2>4
<1>4. CASE HoldAnswers
  <2>1. UNCHANGED <<feed, changes>>
    BY <1>4, HoldDoes
  <2>2. \A r \in Roles : /\ held'[r] = HeldAt(r) /\ HeldAt(r)' = HeldAt(r)
                         /\ TimesAt(r)' = fetchedAt'[r] /\ fetchedAt'[r] \subseteq TimesAt(r)
    BY <1>4, HoldKeeps
  <2>3. ASSUME NEW s \in Snapshots, ChangesOver(s) \subseteq feed.asks, NEW c \in ChangesOver(s)
        PROVE  KeepsHeld(s, c) /\ KeepsAt(s, c)
    <3>1. HeldAt(s) # {} => Reaches(s, HeldAt(s) \cup HeldAt(c), TimesAt(s) \cup TimesAt(c))
      BY <2>3 DEF AllReach
    <3>2. QED
      BY <1>0, <2>1, <2>2, <3>1 DEF Reaches, Made
  <2>4. QED
    BY <1>k, <2>1, <2>3
<1>5. CASE PollRestarts
  <2>1. UNCHANGED feed /\ \A s \in Snapshots : held'[s] = {} /\ HeldAt(s)' = {}
    BY <1>0, <1>5, RestartDoes
  <2>2. QED
    BY <1>k, <2>1
<1>6. CASE \E s \in Snapshots : FetchRole(s)
  <2> PICK q \in Snapshots : FetchRole(q)
    BY <1>6
  <2>1. UNCHANGED <<feed, changes, held, fetchedAt>>
    BY FetchSnapshot
  <2>2. ASSUME NEW s \in Snapshots, ChangesOver(s) \subseteq feed.asks, NEW c \in ChangesOver(s)
        PROVE  KeepsHeld(s, c) /\ KeepsAt(s, c)
    <3>1. /\ held[s] # {} => Reaches(s, held[s] \cup held[c], fetchedAt[s] \cup fetchedAt[c])
          /\ HeldAt(s) # {} => Reaches(s, HeldAt(s) \cup HeldAt(c), TimesAt(s) \cup TimesAt(c))
      BY <2>2 DEF AllReach
    <3>2. KeepsHeld(s, c)
      BY <2>1, <3>1 DEF Reaches, Made
    <3>3. CASE s # q
      BY <2>1, <3>1, <3>2, <3>3, FetchSnapshot DEF Reaches, Made
    <3>4. CASE s = q
      <4>1. HeldAt(c)' = {{}} /\ UNION HeldAt(s)' = Made(s)
        BY <3>4, FetchSnapshot
      <4>2. Gapless(Made(s)) /\ Made(s)' = Made(s)
        BY <2>1, MadeFacts DEF Gapless, Made
      <4>3. UNION (HeldAt(s)' \cup HeldAt(c)') = Made(s)'
        BY <4>1, <4>2
      <4>4. KeepsAt(s, c)
        BY <4>2, <4>3 DEF Reaches, Gapless
      <4>5. QED
        BY <3>2, <4>4
    <3>5. QED
      BY <3>3, <3>4
  <2>3. QED
    BY <1>k, <2>1, <2>2
<1>7. CASE \E c \in Roles \ Snapshots : FetchRole(c)
  <2> PICK b \in Roles \ Snapshots : FetchRole(b)
    BY <1>7
  <2>0. PICK q \in Snapshots : q = feed.over[b]
    BY FetchChanges
  <2>1. UNCHANGED <<feed, changes, held, fetchedAt>>
    BY FetchChanges
  <2>2. \A r \in Roles \ {b} : HeldAt(r)' = HeldAt(r) /\ TimesAt(r)' = TimesAt(r)
    BY FetchChanges
  <2>3. ASSUME NEW s \in Snapshots, ChangesOver(s) \subseteq feed.asks, NEW c \in ChangesOver(s)
        PROVE  KeepsHeld(s, c) /\ KeepsAt(s, c)
    <3>1. /\ held[s] # {} => Reaches(s, held[s] \cup held[c], fetchedAt[s] \cup fetchedAt[c])
          /\ HeldAt(s) # {} => Reaches(s, HeldAt(s) \cup HeldAt(c), TimesAt(s) \cup TimesAt(c))
      BY <2>3 DEF AllReach
    <3>2. KeepsHeld(s, c)
      BY <2>1, <3>1 DEF Reaches, Made
    <3>3. CASE c # b
      BY <1>0, <2>1, <2>2, <3>1, <3>2, <3>3 DEF Reaches, Made
    <3>4. CASE c = b
      <4>1. s = q /\ c \in feed.asks
        BY <2>0, <2>3, <3>4 DEF ChangesOver
      <4>2. HeldAt(s)' = HeldAt(s) /\ HeldAt(c)' = HeldAt(c) \cup {AnswerOf(c)}
        BY <1>0, <2>2, <3>4, <4>1, FetchChanges, Shape
      <4>3. HeldAt(s) # {} => UNION (HeldAt(s) \cup HeldAt(c) \cup {AnswerOf(c)}) = Made(s)
        BY <2>0, <2>3, <3>4, <4>1, AsksForAll
      <4>4. Gapless(Made(s)) /\ Made(s)' = Made(s)
        BY <2>1, MadeFacts DEF Gapless, Made
      <4>5. HeldAt(s)' # {} => UNION (HeldAt(s)' \cup HeldAt(c)') = Made(s)'
        BY <4>2, <4>3, <4>4
      <4>6. KeepsAt(s, c)
        BY <4>4, <4>5 DEF Reaches, Gapless
      <4>7. QED
        BY <3>2, <4>6
    <3>5. QED
      BY <3>3, <3>4
  <2>4. QED
    BY <1>k, <2>1, <2>3
<1>8. QED
  BY <1>2, <1>3, <1>4, <1>5, <1>6, <1>7, StepKinds

-----------------------------------------------------------------------------
(* The theorems.                                                           *)

LEMMA PollStarts == PollInit => PollInv
<1> SUFFICES ASSUME PollInit PROVE PollInv
  OBVIOUS
<1> USE PollBoundAssumption DEF PollInit
<1>1. feed \in Feeds /\ \A s \in Snapshots : s \in Roles
  BY Shape
<1>2. PollTypeOK
  <2>1. changes \in [Snapshots -> Seq(0 .. MaxWall)] /\ \A s \in Snapshots : Len(changes[s]) <= MaxChanges
    OBVIOUS
  <2>2. /\ fetchedAt \in [Roles -> SUBSET (0 .. MaxWall)] /\ held \in [Roles -> SUBSET Answers]
        /\ validators \in [Roles -> SUBSET Answers] /\ shown \in [Snapshots -> Answers]
    BY DEF Answers
  <2>3. Resting \in Polls /\ Resting.stage = "idle"
    BY DEF Polls, Resting
  <2>4. /\ poll = Resting /\ feed \in Feeds /\ wall \in 0 .. MaxWall /\ attempt = "none"
        /\ tick \in BOOLEAN /\ index = {}
    <3>1. wall = 0 /\ MaxWall \in Nat
      OBVIOUS
    <3>2. wall \in 0 .. MaxWall
      BY <3>1
    <3>3. tick \in BOOLEAN
      BY Zenon
    <3>4. QED
      BY <3>2, <3>3
  <2> HIDE DEF PollInit
  <2>5. poll \in Polls /\ (IF poll.stage = "idle" THEN poll = Resting
                           ELSE poll.fresh \in [Roles -> SUBSET Answers])
    BY <2>3, <2>4
  <2>6. QED
    BY <2>1, <2>2, <2>4, <2>5 DEF PollTypeOK, Polls
<1>3. \A r \in Roles : /\ held[r] = {} /\ fetchedAt[r] = {} /\ validators[r] = {}
                       /\ HeldAt(r) = {} /\ TimesAt(r) = {}
  BY DEF HeldAt, TimesAt, Resting
<1>4. \A s \in Snapshots : Len(changes[s]) = 0 /\ Made(s) = {}
  BY DEF Made
<1>5. Stamped /\ Paced /\ InTurn /\ NoneMissing
  BY <1>3, <1>4, Shape DEF Stamped, Paced, InTurn, NoneMissing, Resting
<1>6. SnapshotsHeld /\ Dated /\ AllReach
  BY <1>1, <1>3 DEF SnapshotsHeld, SnapshotHeld, Dated, AllReach
<1>7. ShownHeld
  <2>1. \A s \in Snapshots : \A r \in ({s} \cup ChangesOver(s)) : held[r] = {} /\ HeldAt(r) = {}
    BY <1>1, <1>3, Shape
  <2>2. \A s \in Snapshots : Said(s, Roles) = {} /\ SaidAt(s) = {}
    BY <2>1 DEF Said, SaidAt
  <2>3. QED
    BY <1>1, <1>3, <2>2 DEF ShownHeld
<1>8. AcceptedIsPublished /\ IndexIsPublished
  BY <1>1, <1>3 DEF AcceptedIsPublished, IndexIsPublished
<1>9. QED
  BY <1>2, <1>5, <1>6, <1>7, <1>8 DEF PollInv

LEMMA PollStep == PollInv /\ [PollNext]_pollVars => PollInv'
<1> SUFFICES ASSUME PollInv, [PollNext]_pollVars PROVE PollInv'
  OBVIOUS
<1> USE DEF PollInv
<1>1. PollTypeOK' /\ Stamped' /\ Paced' /\ InTurn'
  BY PollTyped, StampedStep, PacedStep, InTurnStep
<1>2. SnapshotsHeld' /\ NoneMissing' /\ ShownHeld'
  BY SnapshotsHeldStep, NoneMissingStep, ShownHeldStep
<1>3. AllReach' /\ Dated'
  BY AllReachStep, DatedStep
<1>4. AcceptedIsPublished' /\ IndexIsPublished'
  BY AcceptedIsPublishedStep, IndexStep
<1>5. QED
  BY <1>1, <1>2, <1>3, <1>4

LEMMA PollInvariance == PollSpec => []PollInv
<1>1. PollInv /\ [PollNext]_pollVars => PollInv'
  BY PollStep
<1>2. QED
  BY <1>1, PollStarts, PTL DEF PollSpec

\* The polls keep their types, with every outcome of their fetches, parses and
\* publications and with every restart.
THEOREM PollTypeCorrect == PollSpec => []PollTypeOK
<1>1. PollInv => PollTypeOK
  BY DEF PollInv
<1>2. QED
  BY <1>1, PollInvariance, PTL

\* A role of changes that asks since its last answer misses none.
LEMMA NoneMissed == PollInv => AskingMissesNone
<1> SUFFICES ASSUME PollInv, NEW s \in Snapshots, held[s] # {}, ChangesOver(s) \subseteq feed.asks,
                    NEW i \in Said(s, Roles)
             PROVE  1 .. i \subseteq Said(s, Roles)
  BY DEF AskingMissesNone, Gapless
<1>0. feed \in Feeds /\ s \in Roles /\ \A c \in ChangesOver(s) : c \in Roles
  BY Shape DEF PollInv, PollTypeOK
<1>1. PICK r \in {s} \cup ChangesOver(s) : \E a \in held[r] : i \in a
  BY DEF Said
<1>2. UNION (held[s] \cup held[r]) \subseteq Said(s, Roles)
  BY <1>0 DEF Said
<1>3. CASE r = s
  <2>1. \A a \in held[s] : Gapless(a)
    BY DEF PollInv, SnapshotsHeld, SnapshotHeld
  <2>2. QED
    BY <1>1, <1>2, <1>3, <2>1 DEF Gapless
<1>4. CASE r \in ChangesOver(s)
  <2>1. Gapless(UNION (held[s] \cup held[r]))
    BY <1>4 DEF PollInv, AllReach, Reaches
  <2>2. QED
    BY <1>1, <1>2, <2>1 DEF Gapless
<1>5. QED
  BY <1>1, <1>3, <1>4

\* A role of changes that asks since its last answer leaves no change out before one
\* it holds, however its fetches, its snapshot's and the publications fail (run.ts).
THEOREM AskedNoneMissed == PollSpec => []AskingMissesNone
  BY NoneMissed, PollInvariance, PTL

\* The validators of a role stand for answers that were published, so a not-modified
\* answer hides nothing (fetch.ts, accept).
THEOREM ValidatorsOfPublished == PollSpec => []AcceptedIsPublished
<1>1. PollInv => AcceptedIsPublished
  BY DEF PollInv
<1>2. QED
  BY <1>1, PollInvariance, PTL

\* Live states are read alone only through an index of what the database publishes,
\* also when a publication landed whose answer was lost (run.ts).
THEOREM IndexOfPublished == PollSpec => []IndexIsPublished
<1>1. PollInv => IndexIsPublished
  BY DEF PollInv
<1>2. QED
  BY <1>1, PollInvariance, PTL

LEMMA NothingTakenBack ==
  ASSUME PollInv, [PollNext]_pollVars, NEW s \in Snapshots \cap (feed.required \cup feed.live)
  PROVE  shown[s] \subseteq shown'[s]
<1>0. PollTypeOK /\ feed \in Feeds /\ \A r \in Snapshots : r \in Roles
  BY Shape DEF PollInv, PollTypeOK
<1>1. CASE UNCHANGED shown
  BY <1>1
<1>2. CASE Publishes
  <2>1. CASE \A q \in Snapshots : shown'[q] = shown[q] \cup Said(q, Fetched)
    BY <2>1
  <2>2. CASE \A q \in Snapshots : /\ Said(q, Roles) \subseteq shown'[q]
                                  /\ q \in feed.live /\ poll.leftOut => shown[q] \subseteq shown'[q]
    <3>1. HeldAt(s) # {} \/ (poll.leftOut /\ s \notin feed.required)
      BY <1>0, <1>2, PublishDoes DEF PollInv, InTurn, NoneMissing
    <3>2. CASE HeldAt(s) # {}
      <4>1. held[s] # {}
        BY <1>0, <1>2, <3>2, PublishDoes DEF HeldAt
      <4>2. shown[s] \subseteq Said(s, Roles)
        BY <4>1 DEF PollInv, ShownHeld
      <4>3. QED
        BY <2>2, <4>2
    <3>3. CASE poll.leftOut /\ s \notin feed.required
      BY <2>2, <3>3
    <3>4. QED
      BY <3>1, <3>2, <3>3
  <2>3. QED
    BY <1>0, <1>1, <1>2, <2>1, <2>2, PublishDoes
<1>3. QED
  BY <1>0, <1>1, <1>2, StepKinds, QuietKeeps, ChangesKeep, HoldDoes, RestartDoes, FetchDoes

\* A poll takes back nothing that was published of a required role or of live states,
\* whatever fails and whenever the process restarts (run.ts).
THEOREM NeverTakenBack == PollSpec => LastGoodKept
<1>1. PollInv /\ [PollNext]_pollVars =>
        [\A s \in Snapshots \cap (feed.required \cup feed.live) : shown[s] \subseteq shown'[s]]_shown
  BY NothingTakenBack
<1>2. QED
  BY <1>1, PollInvariance, PTL DEF PollSpec, LastGoodKept

-----------------------------------------------------------------------------
(* OAuthGrant: the grants feeds are fetched with.                          *)

USE CallersAssumption, IssuedAssumption

-----------------------------------------------------------------------------
(* The inductive invariant.                                                *)

\* The provider's next answer is a new one.
Numbered ==
  /\ Elsewhere <= issued
  /\ \A t \in honoured \cup unheard : t <= issued
  /\ grant.refresh <= issued /\ grant.access <= issued
  /\ \A p \in Processes : memo[p] <= issued
  /\ \A c \in Callers : /\ caller[c].presents <= issued
                        /\ caller[c].refresh <= issued /\ caller[c].access <= issued

\* Only a refresh or an operator's command asks the provider, and only one that
\* waits for its answer goes on without its connection.
Shaped ==
  \A c \in Callers :
    /\ caller[c].stage \notin {"idle", "waiting"} => caller[c].does \in {"refresh", "establish"}
    /\ ~caller[c].connected => caller[c].stage = "asking"

\* A refresh holds the row from its look at it to its end: the grant it found is
\* still the one stored.
Locked ==
  \A c \in Callers :
    caller[c].stage \notin {"idle", "waiting"} /\ caller[c].does = "refresh" /\ caller[c].connected =>
      holder = c /\ Stored /\ caller[c].presents = grant.refresh

\* A refresh token refused is not one the provider takes.
RefusedIsDead ==
  \A c \in Callers : caller[c].stage = "refused" => caller[c].presents \notin honoured

\* A refresh token on its way to the row is one the provider takes, or ended itself.
OnItsWay ==
  \A c \in Callers : caller[c].stage = "granted" => caller[c].refresh \in honoured \cup ended

\* And of a provider that rotates nobody else has it.
OneHolder ==
  rotates =>
    \A c \in Callers : caller[c].stage = "granted" =>
      /\ caller[c].refresh > Elsewhere /\ caller[c].refresh # grant.refresh
      /\ \A d \in Callers :
           /\ caller[d].presents # caller[c].refresh
           /\ caller[d].stage = "granted" /\ d # c => caller[d].refresh # caller[c].refresh

\* Nor does anybody have an access token on its way to the row.
Unused ==
  /\ grant.access \notin unheard
  /\ \A c \in Callers : caller[c].stage = "granted" =>
       /\ caller[c].access \notin unheard \cup {0, grant.access}
       /\ \A p \in Processes : memo[p] # caller[c].access
       /\ \A d \in Callers :
            caller[d].stage = "granted" /\ d # c => caller[d].access # caller[c].access

Inv ==
  /\ GrantTypeOK /\ Numbered /\ Shaped /\ Locked /\ RefusedIsDead
  /\ OnItsWay /\ OneHolder /\ Unused /\ GrantIsTrue /\ StoredBeforeUsed

-----------------------------------------------------------------------------
(* The steps.                                                              *)

\* A step of callers that leaves the provider, the row and what is under way alone:
\* those it moves end at rest or waiting.
LEMMA RowUntouched ==
  ASSUME Inv, UNCHANGED <<provider, ages, holder, history>>,
         grant' = grant \/ (holder = Nobody /\ grant' = [grant EXCEPT !.access = 0]),
         NEW c \in Callers, caller[c].stage \in {"idle", "waiting"},
         NEW r \in Caller, caller' = [caller EXCEPT ![c] = r],
         r.stage \in {"idle", "waiting"}, r.connected, r.refresh = 0, r.access = 0,
         r.presents \in {0, Elsewhere},
         memo' \in [Processes -> MaybeToken],
         \A p \in Processes : memo'[p] \in {0, memo[p], memo[ProcessOf[c]], grant.access}
  PROVE  Inv'
<1> USE DEF Inv
<1>1. caller' \in [Callers -> Caller] /\ caller'[c] = r /\ \A d \in Callers : d # c => caller'[d] = caller[d]
  BY DEF GrantTypeOK
<1>2. grant' \in Grant /\ grant'.refresh = grant.refresh /\ grant'.rejected = grant.rejected
      /\ grant'.access \in {0, grant.access}
  BY DEF GrantTypeOK, Grant, MaybeToken
<1>3. GrantTypeOK'
  BY <1>1, <1>2 DEF GrantTypeOK, provider, ages, history
<1>4. Numbered'
  BY <1>1, <1>2 DEF Numbered, GrantTypeOK, provider, ages, history, Elsewhere, Token, MaybeToken
<1>5. Shaped' /\ Locked'
  BY <1>1, <1>2 DEF Shaped, Locked, Stored
<1>6. RefusedIsDead' /\ OnItsWay'
  BY <1>1 DEF RefusedIsDead, OnItsWay, provider, history
<1>7. OneHolder'
  BY <1>1, <1>2 DEF OneHolder, provider, Elsewhere, GrantTypeOK, Caller, MaybeToken
<1>8. Unused' /\ StoredBeforeUsed'
  BY <1>1, <1>2 DEF Unused, StoredBeforeUsed, history, GrantTypeOK, Token
<1>9. InHand' = InHand
  BY <1>1 DEF InHand
<1>10. GrantIsTrue'
  BY <1>2, <1>9 DEF GrantIsTrue, Stored, provider, history
<1> QED BY <1>3, <1>4, <1>5, <1>6, <1>7, <1>8, <1>10

\* Requests, dropped tokens and commands begin, and end, this way.
LEMMA UntouchedSteps ==
  ASSUME Inv, NEW c \in Callers,
         \/ Request(c) \/ TokenRefused(c) \/ LockToDrop(c)
         \/ \E presents \in {0, Elsewhere} : Establish(c, presents)
         \/ LockToRefresh(c) /\ ~MustRefresh
  PROVE  Inv'
<1> USE DEF Inv
<1>0. /\ memo \in [Processes -> MaybeToken] /\ caller \in [Callers -> Caller]
      /\ grant \in Grant /\ ProcessOf[c] \in Processes
      /\ 0 \in MaybeToken /\ Elsewhere \in MaybeToken
  BY DEF GrantTypeOK, MaybeToken, Elsewhere
<1>1. \A t \in MaybeToken : AtRest(t) \in Caller
  BY <1>0 DEF AtRest, Caller
<1>2. \A t \in MaybeToken, p \in MaybeToken, does \in {"refresh", "establish", "drop"} :
        Waiting(does, p, t) \in Caller
  BY <1>0 DEF Waiting, AtRest, Caller
<1>3. caller[c].token \in MaybeToken /\ memo[ProcessOf[c]] \in MaybeToken
      /\ Usable \in {0, grant.access} /\ Usable \in MaybeToken
  BY <1>0 DEF Caller, Usable, Grant
<1>4. ASSUME NEW token \in {0, memo[ProcessOf[c]], grant.access}, HandOut(c, token),
             caller[c].stage \in {"idle", "waiting"},
             UNCHANGED <<provider, ages, grant, holder, history>>
      PROVE  Inv'
  <2>1. token \in MaybeToken
    BY <1>0, <1>3 DEF Grant
  <2>2. AtRest(token) \in Caller
    BY <1>1, <2>1
  <2>3. memo' \in [Processes -> MaybeToken]
    BY <1>0, <1>4, <2>1 DEF HandOut
  <2>4. \A p \in Processes : memo'[p] \in {0, memo[p], memo[ProcessOf[c]], grant.access}
    BY <1>0, <1>4 DEF HandOut
  <2>5. caller' = [caller EXCEPT ![c] = AtRest(token)]
    BY <1>4 DEF HandOut
  <2>6. /\ AtRest(token).stage = "idle" /\ AtRest(token).connected
        /\ AtRest(token).refresh = 0 /\ AtRest(token).access = 0 /\ AtRest(token).presents = 0
    BY DEF AtRest
  <2> QED BY <1>4, <2>2, <2>3, <2>4, <2>5, <2>6, RowUntouched
<1>5. ASSUME NEW does \in {"refresh", "establish", "drop"}, NEW presents \in {0, Elsewhere},
             NEW token \in {0, caller[c].token},
             caller' = [caller EXCEPT ![c] = Waiting(does, presents, token)],
             memo' \in {memo, [memo EXCEPT ![ProcessOf[c]] = 0]},
             caller[c].stage \in {"idle", "waiting"},
             UNCHANGED <<provider, ages, grant, holder, history>>
      PROVE  Inv'
  <2>1. Waiting(does, presents, token) \in Caller
    BY <1>0, <1>2, <1>3
  <2>2. memo' \in [Processes -> MaybeToken]
        /\ \A p \in Processes : memo'[p] \in {0, memo[p], memo[ProcessOf[c]], grant.access}
    BY <1>0, <1>5
  <2>3. LET r == Waiting(does, presents, token) IN
          /\ r.stage = "waiting" /\ r.connected /\ r.refresh = 0 /\ r.access = 0
          /\ r.presents = presents
    BY DEF Waiting, AtRest
  <2> QED BY <1>5, <2>1, <2>2, <2>3, RowUntouched
<1>6. CASE Request(c)
  <2>1. CASE MustRefresh /\ memo[ProcessOf[c]] <= aged
    BY <1>5, <1>6, <2>1 DEF Request
  <2>2. CASE ~(MustRefresh /\ memo[ProcessOf[c]] <= aged)
    <3> DEFINE token == IF memo[ProcessOf[c]] > aged THEN memo[ProcessOf[c]] ELSE Usable
    <3>1. token \in {0, memo[ProcessOf[c]], grant.access}
      BY <1>3
    <3>2. HandOut(c, token)
      BY <1>6, <2>2 DEF Request
    <3>3. caller[c].stage = "idle" /\ UNCHANGED <<provider, ages, grant, holder, history>>
      BY <1>6 DEF Request
    <3> HIDE DEF token
    <3> QED BY <1>4, <3>1, <3>2, <3>3
  <2> QED BY <2>1, <2>2
<1>7. CASE TokenRefused(c)
  BY <1>5, <1>7 DEF TokenRefused
<1>8. CASE \E presents \in {0, Elsewhere} : Establish(c, presents)
  BY <1>5, <1>8 DEF Establish
<1>9. CASE LockToRefresh(c) /\ ~MustRefresh
  BY <1>3, <1>4, <1>9 DEF LockToRefresh
<1>10. CASE LockToDrop(c)
  <2>1. /\ AtRest(0) \in Caller /\ AtRest(0).stage = "idle" /\ AtRest(0).connected
        /\ AtRest(0).refresh = 0 /\ AtRest(0).access = 0 /\ AtRest(0).presents = 0
    BY <1>0, <1>1 DEF AtRest
  <2>2. \A p \in Processes : memo'[p] = memo[p]
    BY <1>10 DEF LockToDrop
  <2> QED BY <1>0, <1>10, <2>1, <2>2, RowUntouched DEF LockToDrop
<1> QED BY <1>6, <1>7, <1>8, <1>9, <1>10

\* A step that grants and stores nothing leaves what is on its way to the row alone.
LEMMA NothingGranted ==
  ASSUME Inv, UNCHANGED <<rotates, issued, honoured, grant, memo, ended, unheard>>,
         \A d \in Callers : caller[d].stage = "granted" \/ caller'[d].stage = "granted" =>
                              caller'[d] = caller[d],
         \A d \in Callers : caller'[d].presents \in {0, Elsewhere, grant.refresh, caller[d].presents}
  PROVE  OnItsWay' /\ OneHolder' /\ Unused' /\ StoredBeforeUsed' /\ GrantIsTrue'
<1> USE DEF Inv
<1>1. OnItsWay'
  BY DEF OnItsWay
<1>2. OneHolder'
  <2> SUFFICES ASSUME rotates', NEW d \in Callers, caller'[d].stage = "granted",
                      NEW e \in Callers
               PROVE  /\ caller'[d].refresh > Elsewhere /\ caller'[d].refresh # grant'.refresh
                      /\ caller'[e].presents # caller'[d].refresh
                      /\ caller'[e].stage = "granted" /\ e # d => caller'[e].refresh # caller'[d].refresh
    BY DEF OneHolder
  <2>1. /\ caller[d].refresh > Elsewhere /\ caller[d].refresh # grant.refresh
        /\ caller[e].presents # caller[d].refresh
        /\ caller[e].stage = "granted" /\ e # d => caller[e].refresh # caller[d].refresh
    BY DEF OneHolder
  <2>2. caller[d].refresh \in Nat
    BY DEF GrantTypeOK, Caller, MaybeToken
  <2> QED BY <2>1, <2>2 DEF Elsewhere
<1>3. Unused'
  <2>1. \A d \in Callers : caller'[d].stage = "granted" =>
          caller[d].stage = "granted" /\ caller'[d].access = caller[d].access
    OBVIOUS
  <2> QED BY <2>1 DEF Unused
<1>4. StoredBeforeUsed'
  BY DEF StoredBeforeUsed
<1>5. InHand' = InHand
  <2>1. {d \in Callers : caller'[d].stage = "granted"} = {d \in Callers : caller[d].stage = "granted"}
    OBVIOUS
  <2>2. \A d \in Callers : caller[d].stage = "granted" => caller'[d].presents = caller[d].presents
    OBVIOUS
  <2> QED BY <2>1, <2>2 DEF InHand
<1>6. GrantIsTrue'
  BY <1>5 DEF GrantIsTrue, Stored
<1> QED BY <1>1, <1>2, <1>3, <1>4, <1>6

\* The row's lock is taken by one caller at a time, and a refresh presents the
\* token it finds there.
LEMMA LockSteps ==
  ASSUME Inv, NEW c \in Callers, (LockToRefresh(c) /\ MustRefresh) \/ LockToEstablish(c)
  PROVE  Inv'
<1> USE DEF Inv
<1>0. caller[c].stage = "waiting" /\ holder = Nobody /\ holder' = HeldBy(c)
      /\ UNCHANGED <<provider, ages, grant, memo, history>>
  BY DEF LockToRefresh, LockToEstablish
<1>1. PICK presents \in {caller[c].presents, grant.refresh} :
        /\ caller' = [caller EXCEPT ![c].stage = "asking", ![c].presents = presents]
        /\ caller[c].does = "refresh" => presents = grant.refresh /\ Stored
        /\ caller[c].does \in {"refresh", "establish"}
  <2>1. CASE LockToRefresh(c) /\ MustRefresh
    BY <2>1 DEF LockToRefresh, MustRefresh
  <2>2. CASE LockToEstablish(c)
    <3>1. caller' = [caller EXCEPT ![c].stage = "asking", ![c].presents = caller[c].presents]
      BY <2>2 DEF LockToEstablish, GrantTypeOK, Caller
    <3> QED BY <2>2, <3>1 DEF LockToEstablish
  <2> QED BY <2>1, <2>2
<1>2. /\ caller' \in [Callers -> Caller]
      /\ \A d \in Callers : d # c => caller'[d] = caller[d]
      /\ caller'[c] = [caller[c] EXCEPT !.stage = "asking", !.presents = presents]
  <2>1. caller \in [Callers -> Caller] /\ caller[c] \in Caller
    BY DEF GrantTypeOK
  <2>2. presents \in MaybeToken
    BY <1>1, <2>1 DEF GrantTypeOK, Grant, Caller
  <2>3. [caller[c] EXCEPT !.stage = "asking", !.presents = presents] \in Caller
    BY <2>1, <2>2 DEF Caller
  <2>4. caller' = [caller EXCEPT ![c] = [caller[c] EXCEPT !.stage = "asking", !.presents = presents]]
    BY <1>1, <2>1
  <2> HIDE DEF Inv
  <2> QED BY <2>1, <2>3, <2>4
<1>3. /\ caller'[c].stage = "asking" /\ caller'[c].presents = presents
      /\ caller'[c].does = caller[c].does /\ caller'[c].connected = caller[c].connected
      /\ caller'[c].refresh = caller[c].refresh /\ caller'[c].access = caller[c].access
  BY <1>2 DEF GrantTypeOK, Caller
<1>4. GrantTypeOK'
  BY <1>0, <1>2 DEF GrantTypeOK, HeldBy, provider, ages, history
<1>5. Numbered'
  BY <1>0, <1>1, <1>2, <1>3 DEF Numbered, provider, history
<1>6. Shaped'
  BY <1>0, <1>1, <1>2, <1>3 DEF Shaped
<1>7. Locked'
  BY <1>0, <1>1, <1>2, <1>3 DEF Locked, Stored, HeldBy
<1>8. RefusedIsDead'
  BY <1>0, <1>2, <1>3 DEF RefusedIsDead, provider
<1>9. OnItsWay' /\ OneHolder' /\ Unused' /\ StoredBeforeUsed' /\ GrantIsTrue'
  <2>1. \A d \in Callers : caller[d].stage = "granted" \/ caller'[d].stage = "granted" =>
                             caller'[d] = caller[d]
    BY <1>0, <1>2, <1>3
  <2>2. \A d \in Callers : caller'[d].presents \in {0, Elsewhere, grant.refresh, caller[d].presents}
    BY <1>2, <1>3
  <2> QED BY <1>0, <2>1, <2>2, NothingGranted DEF provider, history
<1> QED BY <1>4, <1>5, <1>6, <1>7, <1>8, <1>9

\* An answer that grants nothing, or whose caller lost its connection.
LEMMA AnswerSteps ==
  ASSUME Inv, NEW c \in Callers, ProviderRefuses(c) \/ ProviderFails(c)
  PROVE  Inv'
<1> USE DEF Inv
<1>0. caller[c].stage = "asking" /\ UNCHANGED <<provider, ages, grant, holder, memo, history>>
  BY DEF ProviderRefuses, ProviderFails
<1>1. PICK stage \in {"refused", "failed"} :
        /\ Answered(c, stage, 0, 0)
        /\ stage = "refused" => caller[c].presents \notin honoured
  BY DEF ProviderRefuses, ProviderFails
<1>2. AtRest(0) \in Caller
  BY DEF AtRest, Caller, MaybeToken
<1>3. /\ \A d \in Callers : d # c => caller'[d] = caller[d]
      /\ caller[c].connected =>
           caller'[c] = [caller[c] EXCEPT !.stage = stage, !.refresh = 0, !.access = 0]
      /\ ~caller[c].connected => caller'[c] = AtRest(0)
      /\ caller' = [caller EXCEPT ![c] = caller'[c]]
  BY <1>1 DEF Answered, GrantTypeOK
<1>4. /\ caller'[c] \in Caller
      /\ caller'[c].stage \in {"idle", stage} /\ caller'[c].presents \in {0, caller[c].presents}
      /\ caller'[c].stage # "idle" => /\ caller'[c].does = caller[c].does
                                      /\ caller[c].connected
                                      /\ caller'[c].presents = caller[c].presents
      /\ caller'[c].connected /\ caller'[c].refresh = 0 /\ caller'[c].access = 0
  <2>1. caller[c] \in Caller /\ 0 \in MaybeToken
    BY DEF GrantTypeOK, MaybeToken
  <2>2. CASE caller[c].connected
    <3>1. caller'[c] = [caller[c] EXCEPT !.stage = stage, !.refresh = 0, !.access = 0]
      BY <1>3, <2>2
    <3>2. caller'[c] \in Caller
      BY <2>1, <3>1 DEF Caller
    <3>3. /\ caller'[c].stage = stage /\ caller'[c].presents = caller[c].presents
          /\ caller'[c].does = caller[c].does /\ caller'[c].connected = caller[c].connected
          /\ caller'[c].refresh = 0 /\ caller'[c].access = 0
      BY <2>1, <3>1 DEF Caller
    <3> QED BY <2>2, <3>2, <3>3
  <2>3. CASE ~caller[c].connected
    <3>1. caller'[c] = AtRest(0)
      BY <1>3, <2>3
    <3> QED BY <1>2, <3>1 DEF AtRest
  <2> HIDE DEF Inv
  <2> QED BY <2>2, <2>3
<1>5. GrantTypeOK'
  <2>1. caller' \in [Callers -> Caller]
    BY <1>3, <1>4 DEF GrantTypeOK
  <2> QED BY <1>0, <2>1 DEF GrantTypeOK, provider, ages, history
<1>6. Numbered'
  <2>1. 0 <= issued
    BY DEF GrantTypeOK, MaybeToken
  <2> QED BY <1>0, <1>3, <1>4, <2>1 DEF Numbered, provider, history
<1>7. Shaped' /\ Locked'
  BY <1>0, <1>3, <1>4 DEF Shaped, Locked, Stored
<1>8. RefusedIsDead'
  BY <1>0, <1>1, <1>3, <1>4 DEF RefusedIsDead, provider
<1>9. OnItsWay' /\ OneHolder' /\ Unused' /\ StoredBeforeUsed' /\ GrantIsTrue'
  <2>1. \A d \in Callers : caller[d].stage = "granted" \/ caller'[d].stage = "granted" =>
                             caller'[d] = caller[d]
    BY <1>0, <1>3, <1>4
  <2>2. \A d \in Callers : caller'[d].presents \in {0, Elsewhere, grant.refresh, caller[d].presents}
    BY <1>3, <1>4
  <2> QED BY <1>0, <2>1, <2>2, NothingGranted DEF provider, history
<1> QED BY <1>5, <1>6, <1>7, <1>8, <1>9

\* What a caller is told, whatever its connection: it ends at rest, or holds the answer.
LEMMA AnsweredCaller ==
  ASSUME Inv, NEW c \in Callers, caller[c].stage = "asking",
         NEW stage \in {"granted", "failed"}, NEW refresh \in MaybeToken, NEW access \in MaybeToken,
         Answered(c, stage, refresh, access)
  PROVE  /\ caller' \in [Callers -> Caller]
         /\ \A d \in Callers : d # c => caller'[d] = caller[d]
         /\ caller'[c].connected /\ caller'[c].stage \in {"idle", stage}
         /\ caller'[c].stage = "idle" <=> ~caller[c].connected
         /\ caller'[c].stage = "idle" =>
              caller'[c].presents = 0 /\ caller'[c].refresh = 0 /\ caller'[c].access = 0
         /\ caller'[c].stage # "idle" =>
              /\ caller'[c].presents = caller[c].presents /\ caller'[c].does = caller[c].does
              /\ caller'[c].refresh = refresh /\ caller'[c].access = access
<1>1. caller \in [Callers -> Caller] /\ caller[c] \in Caller
  BY DEF Inv, GrantTypeOK
<1>2. AtRest(0) \in Caller /\ AtRest(0).stage = "idle" /\ AtRest(0).connected
      /\ AtRest(0).presents = 0 /\ AtRest(0).refresh = 0 /\ AtRest(0).access = 0
  BY DEF AtRest, Caller, MaybeToken
<1>3. CASE caller[c].connected
  <2> DEFINE r == [caller[c] EXCEPT !.stage = stage, !.refresh = refresh, !.access = access]
  <2>1. r \in Caller
    BY <1>1 DEF Caller
  <2>2. /\ r.connected /\ r.stage = stage /\ r.presents = caller[c].presents
        /\ r.does = caller[c].does /\ r.refresh = refresh /\ r.access = access
    BY <1>1, <1>3 DEF Caller
  <2>3. caller' = [caller EXCEPT ![c] = r]
    BY <1>1, <1>3 DEF Answered
  <2> HIDE DEF r
  <2>4. caller'[c] = r /\ caller' \in [Callers -> Caller] /\ \A d \in Callers : d # c => caller'[d] = caller[d]
    BY <1>1, <2>1, <2>3
  <2> QED BY <1>3, <2>2, <2>4
<1>4. CASE ~caller[c].connected
  <2>1. caller' = [caller EXCEPT ![c] = AtRest(0)]
    BY <1>1, <1>4 DEF Answered
  <2>2. caller'[c] = AtRest(0) /\ caller' \in [Callers -> Caller] /\ \A d \in Callers : d # c => caller'[d] = caller[d]
    BY <1>1, <1>2, <2>1
  <2> QED BY <1>2, <1>4, <2>2
<1> QED BY <1>3, <1>4

\* An answer is new to everybody; lost or heard, the token it was given for is accounted for.
LEMMA GrantingStep ==
  ASSUME Inv, NEW c \in Callers, NEW heard \in BOOLEAN, ProviderGrants(c, heard)
  PROVE  Inv'
<1> DEFINE n == issued + 1
           presents == caller[c].presents
           rotated == rotates \/ presents = 0
           refresh == IF rotated THEN n ELSE presents
           kept == heard /\ caller[c].connected
<1>1. /\ caller[c].stage = "asking" /\ presents \in honoured \cup {0}
      /\ issued < MaxIssued /\ issued' = n /\ honoured' = (honoured \ {presents}) \cup {refresh}
      /\ UNCHANGED <<rotates, ages, grant, holder, memo>>
  BY DEF ProviderGrants
<1>2. /\ issued \in Nat /\ n \in Token /\ n \in MaybeToken /\ issued < n /\ 1 <= issued
      /\ presents \in MaybeToken /\ refresh \in Token /\ refresh \in MaybeToken /\ 0 \in MaybeToken
      /\ presents <= issued
  <2>1. issued \in MaybeToken /\ honoured \subseteq Token /\ caller[c] \in Caller
    BY DEF Inv, GrantTypeOK
  <2>2. presents \in MaybeToken /\ issued \in Nat /\ n \in Token
    BY <1>1, <2>1 DEF Caller, MaybeToken, Token
  <2>3. presents <= issued /\ 1 <= issued
    BY DEF Inv, Numbered, Elsewhere
  <2>4. refresh \in Token
    BY <1>1, <2>1, <2>2
  <2> QED BY <2>2, <2>3, <2>4 DEF MaybeToken, Token
<1>3. /\ caller' \in [Callers -> Caller]
      /\ \A d \in Callers : d # c => caller'[d] = caller[d]
      /\ caller'[c].connected /\ caller'[c].stage \in {"idle", "granted", "failed"}
      /\ caller'[c].stage = "granted" <=> kept
      /\ caller'[c].stage = "idle" =>
           caller'[c].presents = 0 /\ caller'[c].refresh = 0 /\ caller'[c].access = 0
      /\ caller'[c].stage # "idle" =>
           caller[c].connected /\ caller'[c].presents = presents /\ caller'[c].does = caller[c].does
      /\ caller'[c].stage = "failed" => caller'[c].refresh = 0 /\ caller'[c].access = 0
      /\ caller'[c].stage = "granted" => caller'[c].refresh = refresh /\ caller'[c].access = n
  <2> HIDE DEF refresh, n
  <2>1. CASE heard
    <3>1. Answered(c, "granted", refresh, n)
      BY <2>1 DEF ProviderGrants, refresh, n
    <3> QED BY <1>1, <1>2, <2>1, <3>1, AnsweredCaller
  <2>2. CASE ~heard
    <3>1. Answered(c, "failed", 0, 0)
      BY <2>2 DEF ProviderGrants
    <3> QED BY <1>1, <1>2, <2>2, <3>1, AnsweredCaller
  <2> QED BY <2>1, <2>2
<1>4. /\ kept => unheard' = unheard /\ ended' = ended
      /\ ~kept => unheard' = unheard \cup {n}
                  /\ ended' = ended \cup (IF presents \notin {0, refresh} THEN {presents} ELSE {})
  <2>1. Lost(IF kept THEN {} ELSE {[caller[c] EXCEPT !.refresh = refresh, !.access = n]})
    BY DEF ProviderGrants
  <2>2. caller[c] \in Caller
    BY DEF Inv, GrantTypeOK
  <2> DEFINE a == [caller[c] EXCEPT !.refresh = refresh, !.access = n]
  <2>3. a.presents = presents /\ a.refresh = refresh /\ a.access = n
    BY <2>2 DEF Caller
  <2> HIDE DEF a, n, refresh, presents
  <2>4. CASE kept
    BY <2>1, <2>4 DEF Lost
  <2>5. CASE ~kept
    <3>1. Lost({a})
      BY <2>1, <2>5 DEF a
    <3> QED BY <2>3, <2>5, <3>1 DEF Lost
  <2> QED BY <2>4, <2>5
<1> HIDE DEF kept, presents
<1>5. GrantTypeOK'
  <2>1. honoured' \subseteq Token /\ unheard' \subseteq Token /\ ended' \subseteq Token
    <3>1. presents \notin {0} => presents \in Token
      BY <1>2 DEF MaybeToken, Token
    <3> QED BY <1>1, <1>2, <1>4, <3>1 DEF Inv, GrantTypeOK
  <2> QED BY <1>1, <1>2, <1>3, <2>1 DEF Inv, GrantTypeOK, ages
<1>6. Numbered'
  <2>1. refresh <= n /\ 0 <= n
    BY <1>2 DEF MaybeToken
  <2>2. \A t \in MaybeToken : t <= issued => t <= n
    BY <1>2 DEF MaybeToken
  <2>3. \A t \in honoured' \cup unheard' : t <= issued'
    BY <1>1, <1>2, <1>4, <2>1, <2>2 DEF Inv, Numbered, GrantTypeOK, Token, MaybeToken
  <2>4. grant'.refresh <= issued' /\ grant'.access <= issued' /\ \A p \in Processes : memo'[p] <= issued'
    BY <1>1, <2>2 DEF Inv, Numbered, GrantTypeOK, Grant
  <2>5. caller'[c].presents <= n /\ caller'[c].refresh <= n /\ caller'[c].access <= n
    BY <1>2, <1>3, <2>1, <2>2
  <2>6. \A d \in Callers : d # c => /\ caller'[d].presents <= n
                                    /\ caller'[d].refresh <= n /\ caller'[d].access <= n
    BY <1>3, <2>2 DEF Inv, Numbered, GrantTypeOK, Caller
  <2>7. Elsewhere <= issued'
    BY <1>1, <1>2 DEF Elsewhere
  <2> QED BY <1>1, <2>3, <2>4, <2>5, <2>6, <2>7 DEF Numbered
<1>7. Shaped' /\ Locked'
  BY <1>1, <1>3 DEF Inv, Shaped, Locked, Stored, presents
<1>8. \A t \in MaybeToken : t <= issued /\ t \in honoured' => t \in honoured
  BY <1>1, <1>2 DEF MaybeToken
<1>9. RefusedIsDead'
  <2> SUFFICES ASSUME NEW d \in Callers, caller'[d].stage = "refused"
               PROVE  caller'[d].presents \notin honoured'
    BY DEF RefusedIsDead
  <2>1. d # c /\ caller'[d] = caller[d]
    BY <1>3
  <2>2. caller[d].presents \in MaybeToken /\ caller[d].presents <= issued
    BY DEF Inv, GrantTypeOK, Numbered, Caller
  <2> QED BY <1>8, <2>1, <2>2 DEF Inv, RefusedIsDead
<1>10. \A t \in honoured : t # presents \/ ~rotated => t \in honoured'
  BY <1>1 DEF rotated
<1>11. OnItsWay'
  <2> SUFFICES ASSUME NEW d \in Callers, caller'[d].stage = "granted"
               PROVE  caller'[d].refresh \in honoured' \cup ended'
    BY DEF OnItsWay
  <2>1. CASE d = c
    BY <1>1, <1>3, <2>1
  <2>2. CASE d # c
    <3>1. caller'[d] = caller[d] /\ caller[d].refresh \in honoured \cup ended
      BY <1>3, <2>2 DEF Inv, OnItsWay
    <3>2. ended \subseteq ended'
      BY <1>4
    <3>3. ASSUME caller[d].refresh \in honoured PROVE caller[d].refresh # presents \/ ~rotated
      <4>1. CASE rotates
        BY <3>1, <4>1 DEF Inv, OneHolder, presents
      <4>2. CASE ~rotates /\ presents = 0
        BY <3>3, <4>2 DEF Inv, GrantTypeOK, Token
      <4> QED BY <4>1, <4>2 DEF rotated
    <3> QED BY <1>10, <3>1, <3>2, <3>3
  <2> QED BY <2>1, <2>2
<1>12. OneHolder'
  <2> SUFFICES ASSUME rotates, NEW d \in Callers, caller'[d].stage = "granted", NEW e \in Callers
               PROVE  /\ caller'[d].refresh > Elsewhere /\ caller'[d].refresh # grant.refresh
                      /\ caller'[e].presents # caller'[d].refresh
                      /\ caller'[e].stage = "granted" /\ e # d => caller'[e].refresh # caller'[d].refresh
    BY <1>1 DEF OneHolder
  <2>1. refresh = n
    BY DEF refresh, rotated
  <2>2. \A t \in MaybeToken : t <= issued => t # n
    BY <1>2 DEF MaybeToken
  <2>3. \A f \in Callers : /\ caller[f].presents \in MaybeToken /\ caller[f].refresh \in MaybeToken
                           /\ caller[f].presents <= issued /\ caller[f].refresh <= issued
    BY DEF Inv, GrantTypeOK, Numbered, Caller
  <2>4. \A f \in Callers : caller'[f].presents \in {0, caller[f].presents}
    BY <1>3 DEF presents
  <2>5. \A f \in Callers : caller'[f].presents # n
    BY <1>2, <2>2, <2>3, <2>4
  <2>6. CASE d = c
    <3>1. caller'[d].refresh = n /\ n > Elsewhere
      BY <1>2, <1>3, <2>1, <2>6 DEF Elsewhere
    <3>2. grant.refresh # n
      BY <2>2 DEF Inv, GrantTypeOK, Numbered, Grant
    <3>3. e # d => caller'[e].refresh # n
      BY <1>3, <2>2, <2>3, <2>6
    <3> QED BY <2>5, <3>1, <3>2, <3>3
  <2>7. CASE d # c
    <3>1. caller'[d] = caller[d]
      BY <1>3, <2>7
    <3>2. /\ caller[d].refresh > Elsewhere /\ caller[d].refresh # grant.refresh
          /\ caller[e].presents # caller[d].refresh
          /\ caller[e].stage = "granted" /\ e # d => caller[e].refresh # caller[d].refresh
      BY <3>1 DEF Inv, OneHolder
    <3>3. caller[d].refresh # 0 /\ caller[d].refresh # n
      BY <2>2, <2>3, <3>2 DEF Elsewhere
    <3>4. caller'[e].presents # caller[d].refresh
      BY <2>4, <3>2, <3>3
    <3>5. caller'[e].stage = "granted" /\ e # d => caller'[e].refresh # caller[d].refresh
      BY <1>3, <2>1, <3>2, <3>3
    <3> QED BY <3>1, <3>2, <3>4, <3>5
  <2> QED BY <2>6, <2>7
<1>13. \A t \in MaybeToken : t <= issued => (t \in unheard' => t \in unheard) /\ t # n
  BY <1>2, <1>4 DEF MaybeToken
<1>14. \A p \in Processes : memo[p] \in MaybeToken /\ memo[p] <= issued
  BY DEF Inv, GrantTypeOK, Numbered
<1>15. grant.access \in MaybeToken /\ grant.access <= issued
       /\ grant.refresh \in MaybeToken /\ grant.refresh <= issued
  BY DEF Inv, GrantTypeOK, Numbered, Grant
<1>16. Unused'
  <2>1. grant'.access \notin unheard'
    BY <1>1, <1>13, <1>15 DEF Inv, Unused
  <2> SUFFICES ASSUME NEW d \in Callers, caller'[d].stage = "granted"
               PROVE  /\ caller'[d].access \notin unheard' \cup {0, grant.access}
                      /\ \A p \in Processes : memo[p] # caller'[d].access
                      /\ \A e \in Callers :
                           caller'[e].stage = "granted" /\ e # d => caller'[e].access # caller'[d].access
    BY <1>1, <2>1 DEF Unused
  <2>2. \A f \in Callers : caller[f].access \in MaybeToken /\ caller[f].access <= issued
    BY DEF Inv, GrantTypeOK, Numbered, Caller
  <2>3. CASE d = c
    <3>1. caller'[d].access = n /\ unheard' = unheard
      BY <1>3, <1>4, <2>3
    <3>2. n \notin unheard
      BY <1>2 DEF Inv, GrantTypeOK, Numbered, Token
    <3>3. n # grant.access /\ n # 0 /\ \A p \in Processes : memo[p] # n
      BY <1>2, <1>13, <1>14, <1>15
    <3>4. \A e \in Callers : e # d => caller'[e].access # n
      BY <1>3, <1>13, <2>2, <2>3
    <3> QED BY <3>1, <3>2, <3>3, <3>4
  <2>4. CASE d # c
    <3>1. caller'[d] = caller[d] /\ caller[d].access # n
      BY <1>3, <1>13, <2>2, <2>4
    <3>2. /\ caller[d].access \notin unheard \cup {0, grant.access}
          /\ \A p \in Processes : memo[p] # caller[d].access
          /\ \A e \in Callers :
               caller[e].stage = "granted" /\ e # d => caller[e].access # caller[d].access
      BY <3>1 DEF Inv, Unused
    <3>3. caller[d].access \notin unheard'
      BY <1>13, <2>2, <3>2
    <3>4. \A e \in Callers : caller'[e].stage = "granted" /\ e # d => caller'[e].access # caller[d].access
      BY <1>3, <3>1, <3>2
    <3> QED BY <3>1, <3>2, <3>3, <3>4
  <2> QED BY <2>3, <2>4
<1>17. StoredBeforeUsed'
  BY <1>1, <1>13, <1>14 DEF Inv, StoredBeforeUsed
<1>18. GrantIsTrue'
  <2> SUFFICES ASSUME Stored
               PROVE  /\ grant.rejected => grant.refresh \notin honoured'
                      /\ grant.refresh \in honoured' \cup ended' \cup InHand'
    BY <1>1 DEF GrantIsTrue, Stored
  <2>1. grant.rejected => grant.refresh \notin honoured'
    BY <1>8, <1>15 DEF Inv, GrantIsTrue
  <2>2. grant.refresh # 0 /\ ended \subseteq ended'
    BY <1>4 DEF Stored
  <2>3. InHand \subseteq InHand'
    BY <1>1, <1>3 DEF InHand
  <2>4. kept => presents \in InHand'
    BY <1>3 DEF InHand
  <2>5. presents \in honoured' \cup ended' \cup InHand' \cup {0}
    BY <1>1, <1>4, <2>4 DEF refresh
  <2>6. \A t \in honoured : t # presents => t \in honoured'
    BY <1>1
  <2> QED BY <2>1, <2>2, <2>3, <2>5, <2>6 DEF Inv, GrantIsTrue
<1> QED BY <1>5, <1>6, <1>7, <1>9, <1>11, <1>12, <1>16, <1>17, <1>18 DEF Inv

\* Callers that lose their connection or their process.
LEMMA Leaving ==
  ASSUME Inv, NEW S \in SUBSET Callers,
         caller' = [d \in Callers |->
                      IF d \notin S THEN caller[d]
                      ELSE IF caller[d].stage = "asking" THEN [caller[d] EXCEPT !.connected = FALSE]
                      ELSE AtRest(0)],
         holder' = IF holder \in S THEN Nobody ELSE holder,
         memo' \in [Processes -> MaybeToken], \A p \in Processes : memo'[p] \in {0, memo[p]},
         Lost({a \in {caller[d] : d \in S} : a.stage = "granted"}),
         UNCHANGED <<provider, ages, grant>>
  PROVE  Inv'
<1> DEFINE Gone == {d \in S : caller[d].stage = "granted"}
<1>1. \A d \in Callers : caller[d] \in Caller
  BY DEF Inv, GrantTypeOK
<1>2. \A d \in S : caller[d].stage = "asking" =>
        /\ caller'[d] \in Caller /\ caller'[d].stage = "asking" /\ ~caller'[d].connected
        /\ caller'[d].does = caller[d].does /\ caller'[d].presents = caller[d].presents
        /\ caller'[d].refresh = caller[d].refresh /\ caller'[d].access = caller[d].access
  BY <1>1 DEF Caller
<1>3. \A d \in S : caller[d].stage # "asking" =>
        /\ caller'[d] \in Caller /\ caller'[d].stage = "idle" /\ caller'[d].connected
        /\ caller'[d].presents = 0 /\ caller'[d].refresh = 0 /\ caller'[d].access = 0
  BY DEF AtRest, Caller, MaybeToken
<1>4. \A d \in Callers : d \notin S => caller'[d] = caller[d]
  OBVIOUS
<1>5. /\ \A t : t \in unheard' <=> t \in unheard \/ \E d \in Gone : t = caller[d].access
      /\ \A t : t \in ended' <=> t \in ended \/ \E d \in Gone : /\ t = caller[d].presents
                                                              /\ t \notin {0, caller[d].refresh}
  BY DEF Lost
<1>6. caller' \in [Callers -> Caller]
  <2>1. \A d \in Callers : caller'[d] \in Caller
    BY <1>1, <1>2, <1>3, <1>4
  <2>2. caller' = [d \in Callers |-> caller'[d]]
    OBVIOUS
  <2> HIDE DEF Inv
  <2> QED BY <2>1, <2>2
<1>7. \A d \in Callers : caller'[d].stage = "granted" => d \notin S /\ caller'[d] = caller[d]
  BY <1>2, <1>3, <1>4
<1>8. \A d \in Callers : caller'[d].presents \in {0, caller[d].presents}
  BY <1>2, <1>3, <1>4
<1>9. \A d \in Callers : caller[d].stage = "granted" =>
        /\ caller[d].access \in Token
        /\ caller[d].presents # 0 => caller[d].presents \in Token
  BY <1>1 DEF Inv, Unused, Caller, Token, MaybeToken
<1>10. unheard' \subseteq Token /\ ended' \subseteq Token
  <2>1. ASSUME NEW t \in unheard' PROVE t \in Token
    BY <1>5, <1>9 DEF Inv, GrantTypeOK
  <2>2. ASSUME NEW t \in ended' PROVE t \in Token
    BY <1>5, <1>9 DEF Inv, GrantTypeOK
  <2> QED BY <2>1, <2>2
<1>11. GrantTypeOK'
  BY <1>6, <1>10 DEF Inv, GrantTypeOK, provider, ages
<1>12. Numbered'
  <2>1. 0 <= issued
    BY DEF Inv, GrantTypeOK, MaybeToken
  <2>2. \A t \in unheard' : t <= issued
    BY <1>5 DEF Inv, Numbered
  <2>3. \A d \in Callers : /\ caller'[d].presents <= issued
                           /\ caller'[d].refresh <= issued /\ caller'[d].access <= issued
    BY <1>2, <1>3, <1>4, <2>1 DEF Inv, Numbered
  <2>4. \A p \in Processes : memo'[p] <= issued
    BY <2>1 DEF Inv, Numbered
  <2> QED BY <2>2, <2>3, <2>4 DEF Inv, Numbered, provider
<1>13. Shaped'
  BY <1>2, <1>3, <1>4 DEF Inv, Shaped
<1>14. Locked'
  BY <1>2, <1>3, <1>4 DEF Inv, Locked, Stored
<1>15. RefusedIsDead'
  BY <1>2, <1>3, <1>4 DEF Inv, RefusedIsDead, provider
<1>16. OnItsWay'
  BY <1>5, <1>7 DEF Inv, OnItsWay, provider
<1>17. OneHolder'
  <2> SUFFICES ASSUME rotates, NEW d \in Callers, caller'[d].stage = "granted", NEW e \in Callers
               PROVE  /\ caller'[d].refresh > Elsewhere /\ caller'[d].refresh # grant.refresh
                      /\ caller'[e].presents # caller'[d].refresh
                      /\ caller'[e].stage = "granted" /\ e # d => caller'[e].refresh # caller'[d].refresh
    BY DEF OneHolder, provider
  <2>1. caller'[d] = caller[d] /\ caller[d].refresh \in Nat
    <3>1. caller[d].refresh \in MaybeToken
      BY <1>1 DEF Caller
    <3> QED BY <1>7, <3>1 DEF MaybeToken
  <2>2. /\ caller[d].refresh > Elsewhere /\ caller[d].refresh # grant.refresh
        /\ caller[e].presents # caller[d].refresh
        /\ caller[e].stage = "granted" /\ e # d => caller[e].refresh # caller[d].refresh
    BY <1>7 DEF Inv, OneHolder
  <2>3. caller[d].refresh # 0
    BY <2>1, <2>2 DEF Elsewhere
  <2>4. caller'[e].presents # caller[d].refresh
    BY <1>8, <2>2, <2>3
  <2> QED BY <1>7, <2>1, <2>2, <2>4
<1>18. Unused'
  <2>1. grant.access \notin unheard'
    BY <1>5 DEF Inv, Unused
  <2> SUFFICES ASSUME NEW d \in Callers, caller'[d].stage = "granted"
               PROVE  /\ caller'[d].access \notin unheard' \cup {0, grant.access}
                      /\ \A p \in Processes : memo'[p] # caller'[d].access
                      /\ \A e \in Callers :
                           caller'[e].stage = "granted" /\ e # d => caller'[e].access # caller'[d].access
    BY <2>1 DEF Unused
  <2>2. d \notin S /\ caller'[d] = caller[d]
    BY <1>7
  <2>3. caller[d].access \notin unheard'
    BY <1>5, <2>2 DEF Inv, Unused
  <2> QED BY <1>7, <2>2, <2>3 DEF Inv, Unused
<1>19. StoredBeforeUsed'
  <2> SUFFICES ASSUME NEW p \in Processes PROVE memo'[p] \notin unheard'
    BY DEF StoredBeforeUsed
  <2>1. 0 \notin unheard'
    BY <1>10 DEF Token
  <2>2. memo[p] \notin unheard'
    BY <1>5 DEF Inv, Unused, StoredBeforeUsed
  <2> QED BY <2>1, <2>2
<1>20. GrantIsTrue'
  <2> SUFFICES ASSUME Stored
               PROVE  grant.refresh \in honoured \cup ended' \cup InHand'
    BY DEF Inv, GrantIsTrue, Stored, provider
  <2>1. grant.refresh \in honoured \cup ended \cup InHand /\ grant.refresh # 0
    BY DEF Inv, GrantIsTrue, Stored
  <2>2. CASE grant.refresh \in honoured \cup ended
    BY <1>5, <2>2
  <2>3. CASE grant.refresh \in InHand
    <3>1. PICK d \in Callers : caller[d].stage = "granted" /\ caller[d].presents = grant.refresh
      BY <2>3 DEF InHand
    <3>2. CASE d \in S
      <4>1. caller[d].refresh \in honoured \cup ended
        BY <3>1 DEF Inv, OnItsWay
      <4>2. grant.refresh # caller[d].refresh => grant.refresh \in ended'
        BY <1>5, <2>1, <3>1, <3>2
      <4> QED BY <1>5, <4>1, <4>2
    <3>3. CASE d \notin S
      BY <1>4, <3>1, <3>3 DEF InHand
    <3> QED BY <3>2, <3>3
  <2> QED BY <2>1, <2>2, <2>3
<1> QED BY <1>11, <1>12, <1>13, <1>14, <1>15, <1>16, <1>17, <1>18, <1>19, <1>20 DEF Inv

LEMMA LeavingSteps ==
  ASSUME Inv, (\E c \in Callers : LoseConnection(c)) \/ (\E p \in Processes : ProcessDies(p))
  PROVE  Inv'
<1>1. memo \in [Processes -> MaybeToken] /\ caller \in [Callers -> Caller] /\ 0 \in MaybeToken
  BY DEF Inv, GrantTypeOK, MaybeToken
<1>2. ASSUME NEW c \in Callers, LoseConnection(c) PROVE Inv'
  <2>1. caller' = [d \in Callers |->
                     IF d \notin {c} THEN caller[d]
                     ELSE IF caller[d].stage = "asking" THEN [caller[d] EXCEPT !.connected = FALSE]
                     ELSE AtRest(0)]
    BY <1>1, <1>2 DEF LoseConnection
  <2>2. holder' = IF holder \in {c} THEN Nobody ELSE holder
    BY <1>2 DEF LoseConnection, Released
  <2>3. Lost({a \in {caller[d] : d \in {c}} : a.stage = "granted"})
    <3>1. {caller[d] : d \in {c}} = {caller[c]}
      OBVIOUS
    <3> QED BY <1>2, <3>1 DEF LoseConnection
  <2>4. memo' = memo /\ UNCHANGED <<provider, ages, grant>> /\ {c} \in SUBSET Callers
    BY <1>2 DEF LoseConnection
  <2> QED BY <1>1, <2>1, <2>2, <2>3, <2>4, Leaving
<1>3. ASSUME NEW p \in Processes, ProcessDies(p) PROVE Inv'
  <2> DEFINE Mine == {c \in Callers : ProcessOf[c] = p}
  <2>1. /\ caller' = [d \in Callers |->
                        IF d \notin Mine THEN caller[d]
                        ELSE IF caller[d].stage = "asking" THEN [caller[d] EXCEPT !.connected = FALSE]
                        ELSE AtRest(0)]
        /\ holder' = IF holder \in Mine THEN Nobody ELSE holder
        /\ Lost({a \in {caller[d] : d \in Mine} : a.stage = "granted"})
        /\ UNCHANGED <<provider, ages, grant>>
    BY <1>3 DEF ProcessDies
  <2>2. memo' \in [Processes -> MaybeToken] /\ \A q \in Processes : memo'[q] \in {0, memo[q]}
    BY <1>1, <1>3 DEF ProcessDies
  <2>3. Mine \in SUBSET Callers
    OBVIOUS
  <2> HIDE DEF Mine
  <2> QED BY <2>1, <2>2, <2>3, Leaving
<1> QED BY <1>2, <1>3

\* What was granted is stored: the row holds the only copy of its refresh token.
LEMMA StoringStep ==
  ASSUME Inv, NEW c \in Callers, NEW heard \in BOOLEAN, StoreGranted(c, heard)
  PROVE  Inv'
<1> DEFINE handed == IF heard /\ caller[c].does = "refresh" THEN caller[c].access ELSE 0
<1>1. /\ caller[c].stage = "granted" /\ holder \in {c, Nobody} /\ holder' = Nobody
      /\ grant' = [refresh |-> caller[c].refresh, access |-> caller[c].access, rejected |-> FALSE]
      /\ HandOut(c, handed) /\ UNCHANGED <<provider, ages, history>>
  BY DEF StoreGranted, Released
<1>2. caller \in [Callers -> Caller] /\ caller[c] \in Caller /\ memo \in [Processes -> MaybeToken]
      /\ ProcessOf[c] \in Processes
  BY DEF Inv, GrantTypeOK
<1>3. handed \in {0, caller[c].access} /\ handed \in MaybeToken
  BY <1>2 DEF Caller, MaybeToken
<1>4. AtRest(handed) \in Caller
  BY <1>3 DEF AtRest, Caller, MaybeToken
<1>5. /\ AtRest(handed).stage = "idle" /\ AtRest(handed).connected /\ AtRest(handed).presents = 0
      /\ AtRest(handed).refresh = 0 /\ AtRest(handed).access = 0
  BY DEF AtRest
<1> HIDE DEF handed
<1>6. /\ caller' \in [Callers -> Caller] /\ caller'[c] = AtRest(handed)
      /\ \A d \in Callers : d # c => caller'[d] = caller[d]
  BY <1>1, <1>2, <1>4 DEF HandOut
<1>7. /\ memo' \in [Processes -> MaybeToken]
      /\ \A p \in Processes : memo'[p] \in {memo[p], caller[c].access}
  BY <1>1, <1>2, <1>3 DEF HandOut
<1>8. grant' \in Grant /\ grant'.refresh = caller[c].refresh /\ grant'.access = caller[c].access
      /\ ~grant'.rejected
  BY <1>1, <1>2 DEF Grant, Caller
<1>9. \A d \in Callers : caller'[d].stage \notin {"idle", "waiting"} => d # c /\ caller'[d] = caller[d]
  BY <1>5, <1>6
<1>10. \A d \in Callers : caller'[d].presents \in {0, caller[d].presents}
  BY <1>5, <1>6
<1>11. GrantTypeOK'
  BY <1>1, <1>6, <1>7, <1>8 DEF Inv, GrantTypeOK, provider, ages, history
<1>12. Numbered'
  <2>1. 0 <= issued
    BY DEF Inv, GrantTypeOK, MaybeToken
  <2> QED BY <1>1, <1>5, <1>6, <1>7, <1>8, <2>1 DEF Inv, Numbered, provider, history
<1>13. Shaped'
  BY <1>5, <1>6 DEF Inv, Shaped
<1>14. Locked'
  BY <1>1, <1>9 DEF Inv, Locked, GrantTypeOK, CallersAssumption
<1>15. RefusedIsDead' /\ OnItsWay'
  BY <1>1, <1>9 DEF Inv, RefusedIsDead, OnItsWay, provider, history
<1>16. OneHolder'
  <2> SUFFICES ASSUME rotates, NEW d \in Callers, caller'[d].stage = "granted", NEW e \in Callers
               PROVE  /\ caller'[d].refresh > Elsewhere /\ caller'[d].refresh # grant'.refresh
                      /\ caller'[e].presents # caller'[d].refresh
                      /\ caller'[e].stage = "granted" /\ e # d => caller'[e].refresh # caller'[d].refresh
    BY <1>1 DEF OneHolder, provider
  <2>1. d # c /\ caller'[d] = caller[d]
    BY <1>9
  <2>2. caller[d].refresh \in Nat
    <3>1. caller[d].refresh \in MaybeToken
      BY <1>2 DEF Caller
    <3> QED BY <3>1 DEF MaybeToken
  <2>3. /\ caller[d].refresh > Elsewhere /\ caller[d].refresh # caller[c].refresh
        /\ caller[e].presents # caller[d].refresh
        /\ caller[e].stage = "granted" /\ e # d => caller[e].refresh # caller[d].refresh
    BY <1>1, <2>1 DEF Inv, OneHolder
  <2>4. caller[d].refresh # 0
    BY <2>2, <2>3 DEF Elsewhere
  <2> QED BY <1>8, <1>9, <1>10, <2>1, <2>3, <2>4
<1>17. Unused'
  BY <1>1, <1>7, <1>8, <1>9 DEF Inv, Unused, history
<1>18. StoredBeforeUsed'
  BY <1>1, <1>7 DEF Inv, Unused, StoredBeforeUsed, history
<1>19. GrantIsTrue'
  BY <1>1, <1>8 DEF Inv, OnItsWay, GrantIsTrue, provider, history
<1> QED BY <1>11, <1>12, <1>13, <1>14, <1>15, <1>16, <1>17, <1>18, <1>19 DEF Inv

\* A refusal is stored of the refresh token it was given for.
LEMMA RefusalStep ==
  ASSUME Inv, NEW c \in Callers, StoreRefused(c)
  PROVE  Inv'
<1>1. /\ caller[c].stage \in {"refused", "failed"} /\ caller' = [caller EXCEPT ![c] = AtRest(0)]
      /\ holder' = IF holder = c THEN Nobody ELSE holder
      /\ UNCHANGED <<provider, ages, memo, history>>
  BY DEF StoreRefused, Released
<1>2. AtRest(0) \in Caller /\ AtRest(0).stage = "idle" /\ AtRest(0).connected
      /\ AtRest(0).presents = 0 /\ AtRest(0).refresh = 0 /\ AtRest(0).access = 0
  BY DEF AtRest, Caller, MaybeToken
<1>3. /\ caller' \in [Callers -> Caller] /\ caller'[c] = AtRest(0)
      /\ \A d \in Callers : d # c => caller'[d] = caller[d]
  BY <1>1, <1>2 DEF Inv, GrantTypeOK
<1>4. /\ grant' \in Grant /\ grant'.refresh = grant.refresh /\ grant'.access \in {0, grant.access}
      /\ grant'.rejected => \/ grant.rejected
                            \/ caller[c].stage = "refused" /\ caller[c].does = "refresh"
  <2>1. grant \in Grant /\ 0 \in MaybeToken
    BY DEF Inv, GrantTypeOK, MaybeToken
  <2>2. CASE caller[c].stage = "refused" /\ caller[c].does = "refresh"
    <3>1. grant' = [grant EXCEPT !.access = 0, !.rejected = TRUE]
      BY <2>2 DEF StoreRefused
    <3> QED BY <2>1, <2>2, <3>1 DEF Grant
  <2>3. CASE ~(caller[c].stage = "refused" /\ caller[c].does = "refresh")
    <3>1. grant' = grant
      BY <2>3 DEF StoreRefused
    <3> QED BY <2>1, <3>1
  <2> QED BY <2>2, <2>3
<1>5. \A d \in Callers : caller'[d].stage \notin {"idle", "waiting"} => d # c /\ caller'[d] = caller[d]
  BY <1>2, <1>3
<1>6. \A d \in Callers : caller'[d].presents \in {0, caller[d].presents}
  BY <1>2, <1>3
<1>7. GrantTypeOK'
  BY <1>1, <1>3, <1>4 DEF Inv, GrantTypeOK, provider, ages, history
<1>8. Numbered'
  <2>1. 0 <= issued
    BY DEF Inv, GrantTypeOK, MaybeToken
  <2> QED BY <1>1, <1>2, <1>3, <1>4, <2>1 DEF Inv, Numbered, provider, history
<1>9. Shaped'
  BY <1>2, <1>3 DEF Inv, Shaped
<1>10. Locked'
  BY <1>1, <1>4, <1>5 DEF Inv, Locked, Stored
<1>11. RefusedIsDead' /\ OnItsWay'
  BY <1>1, <1>5 DEF Inv, RefusedIsDead, OnItsWay, provider, history
<1>12. OneHolder'
  <2> SUFFICES ASSUME rotates, NEW d \in Callers, caller'[d].stage = "granted", NEW e \in Callers
               PROVE  /\ caller'[d].refresh > Elsewhere /\ caller'[d].refresh # grant'.refresh
                      /\ caller'[e].presents # caller'[d].refresh
                      /\ caller'[e].stage = "granted" /\ e # d => caller'[e].refresh # caller'[d].refresh
    BY <1>1 DEF OneHolder, provider
  <2>1. d # c /\ caller'[d] = caller[d]
    BY <1>5
  <2>2. caller[d].refresh \in Nat
    <3>1. caller[d].refresh \in MaybeToken
      BY DEF Inv, GrantTypeOK, Caller
    <3> QED BY <3>1 DEF MaybeToken
  <2>3. /\ caller[d].refresh > Elsewhere /\ caller[d].refresh # grant.refresh
        /\ caller[e].presents # caller[d].refresh
        /\ caller[e].stage = "granted" /\ e # d => caller[e].refresh # caller[d].refresh
    BY <2>1 DEF Inv, OneHolder
  <2>4. caller[d].refresh # 0
    BY <2>2, <2>3 DEF Elsewhere
  <2> QED BY <1>4, <1>5, <1>6, <2>1, <2>3, <2>4
<1>13. Unused'
  <2>1. 0 \notin unheard
    BY DEF Inv, GrantTypeOK, Token
  <2>2. grant'.access \notin unheard'
    BY <1>1, <1>4, <2>1 DEF Inv, Unused, history
  <2> QED BY <1>1, <1>4, <1>5, <2>2 DEF Inv, Unused, history
<1>14. StoredBeforeUsed'
  BY <1>1 DEF Inv, StoredBeforeUsed, history
<1>15. InHand' = InHand
  <2>1. \A d \in Callers : caller'[d].stage = "granted" <=> caller[d].stage = "granted"
    BY <1>1, <1>2, <1>3
  <2>2. \A d \in Callers : caller[d].stage = "granted" => caller'[d].presents = caller[d].presents
    BY <1>5, <2>1
  <2> QED BY <2>1, <2>2 DEF InHand
<1>16. GrantIsTrue'
  <2>1. caller[c].stage = "refused" /\ caller[c].does = "refresh" =>
          caller[c].presents = grant.refresh /\ caller[c].presents \notin honoured
    BY DEF Inv, Shaped, Locked, RefusedIsDead
  <2> QED BY <1>1, <1>4, <1>15, <2>1 DEF Inv, GrantIsTrue, Stored, provider, history
<1> QED BY <1>7, <1>8, <1>9, <1>10, <1>11, <1>12, <1>13, <1>14, <1>16 DEF Inv

\* The provider ends a refresh token, and time passes.
LEMMA WorldSteps ==
  ASSUME Inv, (\E t \in Token : ProviderEnds(t)) \/ Age
  PROVE  Inv'
<1>1. ASSUME NEW t \in Token, ProviderEnds(t) PROVE Inv'
  <2>1. /\ honoured' = honoured \ {t} /\ ended' = ended \cup {t}
        /\ UNCHANGED <<rotates, issued, ages, grant, holder, memo, caller, unheard>>
    BY <1>1 DEF ProviderEnds
  <2>2. GrantTypeOK' /\ Numbered' /\ Shaped' /\ Locked'
    BY <2>1 DEF Inv, GrantTypeOK, Numbered, Shaped, Locked, Stored, ages
  <2>3. RefusedIsDead' /\ OnItsWay' /\ OneHolder' /\ Unused' /\ StoredBeforeUsed'
    BY <2>1 DEF Inv, RefusedIsDead, OnItsWay, OneHolder, Unused, StoredBeforeUsed
  <2>4. GrantIsTrue'
    BY <2>1 DEF Inv, GrantIsTrue, Stored, InHand
  <2> QED BY <2>2, <2>3, <2>4 DEF Inv
<1>2. ASSUME Age PROVE Inv'
  <2>1. UNCHANGED <<rotates, issued, honoured, grant, holder, memo, caller, ended, unheard>>
    BY <1>2 DEF Age, provider, history
  <2>2. aged' \in MaybeToken /\ halfway' \in MaybeToken
    BY <1>2 DEF Age, Inv, GrantTypeOK, MaybeToken
  <2>3. GrantTypeOK'
    BY <2>1, <2>2 DEF Inv, GrantTypeOK
  <2>4. Numbered' /\ Shaped' /\ Locked'
    BY <2>1 DEF Inv, Numbered, Shaped, Locked, Stored
  <2>5. RefusedIsDead' /\ OnItsWay' /\ OneHolder' /\ Unused' /\ StoredBeforeUsed'
    BY <2>1 DEF Inv, RefusedIsDead, OnItsWay, OneHolder, Unused, StoredBeforeUsed
  <2>6. GrantIsTrue'
    BY <2>1 DEF Inv, GrantIsTrue, Stored, InHand
  <2> QED BY <2>3, <2>4, <2>5, <2>6 DEF Inv
<1> QED BY <1>1, <1>2

-----------------------------------------------------------------------------
LEMMA Initially == GrantInit => Inv
<1> SUFFICES ASSUME GrantInit PROVE Inv
  OBVIOUS
<1>1. Elsewhere \in Token /\ Elsewhere \in MaybeToken /\ 0 \in MaybeToken /\ 0 <= Elsewhere
      /\ Elsewhere <= Elsewhere
  BY DEF Elsewhere, Token, MaybeToken
<1>2. /\ AtRest(0) \in Caller /\ AtRest(0).stage = "idle" /\ AtRest(0).connected
      /\ AtRest(0).presents = 0 /\ AtRest(0).refresh = 0 /\ AtRest(0).access = 0
  BY <1>1 DEF AtRest, Caller
<1>3. /\ caller \in [Callers -> Caller] /\ \A c \in Callers : caller[c] = AtRest(0)
      /\ grant \in Grant /\ grant.refresh = 0 /\ grant.access = 0
      /\ memo \in [Processes -> MaybeToken] /\ \A p \in Processes : memo[p] = 0
      /\ ended = {} /\ unheard = {}
  BY <1>1, <1>2 DEF GrantInit, Grant
<1>4. GrantTypeOK
  BY <1>1, <1>3 DEF GrantInit, GrantTypeOK
<1>5. Numbered
  BY <1>1, <1>2, <1>3 DEF GrantInit, Numbered
<1>6. Shaped /\ Locked /\ RefusedIsDead /\ OnItsWay /\ OneHolder /\ Unused
  BY <1>2, <1>3 DEF Shaped, Locked, RefusedIsDead, OnItsWay, OneHolder, Unused
<1>7. GrantIsTrue /\ StoredBeforeUsed
  BY <1>3 DEF GrantIsTrue, Stored, StoredBeforeUsed
<1> QED BY <1>4, <1>5, <1>6, <1>7 DEF Inv

LEMMA Inductive == Inv /\ [GrantNext]_grantVars => Inv'
<1> SUFFICES ASSUME Inv, [GrantNext]_grantVars PROVE Inv'
  OBVIOUS
<1>1. ASSUME NEW c \in Callers, Request(c) \/ TokenRefused(c) \/ LockToDrop(c)
                                \/ \E presents \in {0, Elsewhere} : Establish(c, presents)
      PROVE  Inv'
  BY <1>1, UntouchedSteps
<1>2. ASSUME NEW c \in Callers, LockToRefresh(c) \/ LockToEstablish(c) PROVE Inv'
  BY <1>2, UntouchedSteps, LockSteps
<1>3. ASSUME NEW c \in Callers, ProviderRefuses(c) \/ ProviderFails(c) PROVE Inv'
  BY <1>3, AnswerSteps
<1>4. ASSUME NEW c \in Callers, NEW heard \in BOOLEAN, ProviderGrants(c, heard) \/ StoreGranted(c, heard)
      PROVE  Inv'
  BY <1>4, GrantingStep, StoringStep
<1>5. ASSUME NEW c \in Callers, StoreRefused(c) PROVE Inv'
  BY <1>5, RefusalStep
<1>6. ASSUME (\E c \in Callers : LoseConnection(c)) \/ (\E p \in Processes : ProcessDies(p)) PROVE Inv'
  BY <1>6, LeavingSteps
<1>7. ASSUME (\E t \in Token : ProviderEnds(t)) \/ Age PROVE Inv'
  BY <1>7, WorldSteps
<1>8. CASE UNCHANGED grantVars
  <2>1. UNCHANGED <<rotates, issued, honoured, aged, halfway, grant, holder, memo, caller, ended, unheard>>
    BY <1>8 DEF grantVars, provider, ages, history
  <2> QED BY <2>1 DEF Inv, GrantTypeOK, Numbered, Shaped, Locked, RefusedIsDead, OnItsWay,
                      OneHolder, Unused, GrantIsTrue, StoredBeforeUsed, Stored, InHand
<1> QED BY <1>1, <1>2, <1>3, <1>4, <1>5, <1>6, <1>7, <1>8 DEF GrantNext

LEMMA Always == GrantSpec => []Inv
  BY Initially, Inductive, PTL DEF GrantSpec

\* Every step keeps the types of the provider, the row and the callers.
THEOREM TypeCorrect == GrantSpec => []GrantTypeOK
<1>1. Inv => GrantTypeOK
  BY DEF Inv
<1> QED BY <1>1, Always, PTL

\* The stored grant is true to the provider, however many callers of however many
\* processes refresh it, drop its token and store other logins (oauth-grants.ts, locked).
THEOREM GrantTrue == GrantSpec => []GrantIsTrue
<1>1. Inv => GrantIsTrue
  BY DEF Inv
<1> QED BY <1>1, Always, PTL

\* No process keeps a token of an answer that was never stored (oauth-grant.ts).
THEOREM TokensStoredFirst == GrantSpec => []StoredBeforeUsed
<1>1. Inv => StoredBeforeUsed
  BY DEF Inv
<1> QED BY <1>1, Always, PTL
=============================================================================
