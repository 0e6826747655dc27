---------------------------- MODULE RequestQuota ----------------------------
(***************************************************************************)
(* The upstream requests an on-demand source may be sent (limits.ts): a    *)
(* bucket of tokens that refills with time, and a count per UTC day, in    *)
(* one row that every process of the instance takes from with one          *)
(* statement.  A taker reads its clock before the statement runs (it       *)
(* claims the cell in between, module OnDemand), so takes may reach the    *)
(* row in another order than their instants.                               *)
(***************************************************************************)
EXTENDS Integers

CONSTANTS
  Procs,         \* the processes
  Cost,          \* requests a cell costs
  Burst,         \* tokens the bucket holds, at most
  PerTick,       \* tokens that refill in one step of the clock
  PerDay,        \* requests of one day, at most
  DayTicks,      \* steps of the clock in a day
  MaxTime        \* bound: the clock

ASSUME QuotaAssumption ==
  /\ Cost \in Nat \ {0} /\ Burst \in Nat /\ PerTick \in Nat /\ PerDay \in Nat
  /\ DayTicks \in Nat \ {0}
ASSUME BoundAssumption == MaxTime \in Nat \ {0}

VARIABLES
  now,           \* the clock
  quota,         \* the source's row
  asked,         \* the instant each taker asks for, or Nothing
  spent          \* history: tokens taken

quotaVars == <<now, quota, asked, spent>>

Nothing == -1
Days == 0 .. (MaxTime \div DayTicks)
DayOf(t) == t \div DayTicks

QuotaTypeOK ==
  /\ now \in 1 .. MaxTime
  /\ quota \in [held : BOOLEAN, tokens : 0 .. Burst, refilledAt : 0 .. MaxTime, day : Days,
                count : 0 .. PerDay]
  /\ asked \in [Procs -> 0 .. MaxTime \cup {Nothing}]
  /\ spent \in Nat

QuotaInit ==
  /\ now = 1
  /\ quota = [held |-> FALSE, tokens |-> 0, refilledAt |-> 0, day |-> 0, count |-> 0]
  /\ asked = [p \in Procs |-> Nothing]
  /\ spent = 0

AtMost(m, n) == IF m <= n THEN m ELSE n
AtLeast(m, n) == IF m >= n THEN m ELSE n

\* Mutant of Refilled: the bucket overflows.
RefilledPast(q, t) == q.tokens + AtLeast(0, t - q.refilledAt) * PerTick

\* The tokens the bucket holds at an instant, none refilled for an earlier one.
Refilled(q, t) == AtMost(Burst, q.tokens + AtLeast(0, t - q.refilledAt) * PerTick)

\* The requests counted for the day of an instant.
Counted(q, t) == IF q.day = DayOf(t) THEN q.count ELSE 0

\* Mutant of After: the refill instant moves back.
AfterBack(q, t) ==
  IF q.held
    THEN [held |-> TRUE, tokens |-> Refilled(q, t) - Cost, refilledAt |-> t,
          day |-> DayOf(t), count |-> Counted(q, t) + Cost]
    ELSE [held |-> TRUE, tokens |-> Burst - Cost, refilledAt |-> t, day |-> DayOf(t),
          count |-> Cost]

\* The row after a granted take: the first one finds a full bucket.
After(q, t) ==
  IF q.held
    THEN [held |-> TRUE, tokens |-> Refilled(q, t) - Cost,
          refilledAt |-> AtLeast(q.refilledAt, t),
          day |-> DayOf(t), count |-> Counted(q, t) + Cost]
    ELSE [held |-> TRUE, tokens |-> Burst - Cost, refilledAt |-> t, day |-> DayOf(t),
          count |-> Cost]

\* Whether the limits leave a cell's requests.
Granted(q, t) ==
  /\ Burst >= Cost /\ PerDay >= Cost
  /\ q.held => Refilled(q, t) >= Cost /\ Counted(q, t) + Cost <= PerDay

\* A process reads its clock and goes on to claim the cell.
AskTokens(p) ==
  /\ asked[p] = Nothing
  /\ asked' = [asked EXCEPT ![p] = now]
  /\ UNCHANGED <<now, quota, spent>>

\* Its take reaches the row; a refused one changes nothing.
Take(p) ==
  LET t == asked[p] IN
  /\ t # Nothing
  /\ asked' = [asked EXCEPT ![p] = Nothing]
  /\ IF Granted(quota, t)
       THEN /\ quota' = After(quota, t)
            /\ spent' = spent + Cost
       ELSE UNCHANGED <<quota, spent>>
  /\ UNCHANGED now

\* The claim is lost, or the process dies.
LetGo(p) ==
  /\ asked[p] # Nothing
  /\ asked' = [asked EXCEPT ![p] = Nothing]
  /\ UNCHANGED <<now, quota, spent>>

QuotaTick ==
  /\ now < MaxTime
  /\ now' = now + 1
  /\ UNCHANGED <<quota, asked, spent>>

QuotaNext ==
  \/ \E p \in Procs : AskTokens(p) \/ Take(p) \/ LetGo(p)
  \/ QuotaTick

QuotaSpec == QuotaInit /\ [][QuotaNext]_quotaVars

-----------------------------------------------------------------------------
(* Properties.                                                             *)

\* Whatever order the takes reach the row in, the processes together never send
\* more than the full bucket and what time refilled: no instant refills twice.
BucketKept == spent <= Burst + PerTick * (now - 1)
=============================================================================
