---------------------------- MODULE OnDemandProofs ---------------------------
(***************************************************************************)
(* Theorems about RequestQuota, and about OnDemand, whose flights take     *)
(* from it, for any number of processes and cells: what the source's       *)
(* limits grant, in whatever order the takes reach the row; and that the   *)
(* ledger's claims, told apart by their ends alone, keep fetches apart,    *)
(* although they lapse, are given back and are made for instants long past.*)
(***************************************************************************)
EXTENDS OnDemand, TLAPS

-----------------------------------------------------------------------------
(* The quota.                                                              *)

\* Nobody asks for an instant to come, and the row never holds one.
NothingAhead ==
  /\ \A p \in Procs : asked[p] <= now /\ asked[p] # 0
  /\ quota.refilledAt <= now

\* What was spent and what the bucket still holds came from the full bucket and
\* from the time up to the last refill: a late take finds nothing of it again.
Accounted == IF quota.held THEN spent + quota.tokens <= Burst + PerTick * (quota.refilledAt - 1)
                           ELSE spent = 0

\* The types the argument needs, which hold for every sort of day.
RowType ==
  /\ now \in Nat \ {0} /\ spent \in Nat
  /\ quota \in [held : BOOLEAN, tokens : Nat, refilledAt : Nat, day : Int, count : Int]
  /\ asked \in [Procs -> Nat \cup {Nothing}]

Inv == RowType /\ NothingAhead /\ Accounted

\* Time refills no less than it did up to an earlier instant.
LEMMA RefillGrows ==
  ASSUME NEW m \in Nat, NEW n \in Nat, m <= n, NEW k \in Nat
  PROVE  k * (m - 1) <= k * (n - 1) /\ k * (n - 1) = k * (m - 1) + (n - m) * k
  OBVIOUS

LEMMA InitInv == QuotaInit => Inv
  BY QuotaAssumption DEF QuotaInit, Inv, RowType, NothingAhead, Accounted, Nothing

LEMMA TakeInv ==
  ASSUME Inv, NEW p \in Procs, Take(p)
  PROVE  Inv'
<1> DEFINE t == asked[p]
<1>0. /\ t \in Nat /\ 1 <= t /\ t <= now /\ now \in Nat /\ spent \in Nat /\ quota.tokens \in Nat
      /\ quota.refilledAt \in Nat /\ quota.held \in BOOLEAN /\ quota.day \in Int
      /\ quota.count \in Int
  BY DEF Inv, RowType, NothingAhead, Take, Nothing
<1>1. asked' \in [Procs -> Nat \cup {Nothing}] /\ \A q \in Procs : asked'[q] <= now /\ asked'[q] # 0
  BY <1>0 DEF Take, Inv, RowType, NothingAhead, Nothing
<1>2. CASE ~Granted(quota, t)
  BY <1>1, <1>2 DEF Take, Inv, RowType, NothingAhead, Accounted
<1>3. CASE Granted(quota, t)
  <2>1. quota' = After(quota, t) /\ spent' = spent + Cost /\ now' = now
    BY <1>3 DEF Take
  <2>2. Cost \in Nat /\ Burst \in Nat /\ PerTick \in Nat /\ DayTicks \in Nat \ {0}
    BY QuotaAssumption
  <2>3. DayOf(t) \in Int /\ Counted(quota, t) + Cost \in Int
    BY <1>0, <2>2 DEF DayOf, Counted
  <2>4. CASE ~quota.held
    <3>1. Burst - Cost \in Nat
      BY <1>3, <2>2 DEF Granted
    <3>2. quota' = [held |-> TRUE, tokens |-> Burst - Cost, refilledAt |-> t, day |-> DayOf(t),
                    count |-> Cost]
      BY <2>1, <2>4 DEF After
    <3>3. spent' + quota'.tokens = Burst
      BY <2>1, <2>2, <2>4, <3>1, <3>2 DEF Inv, Accounted
    <3>4. PerTick * (t - 1) \in Nat
      BY <1>0, <2>2
    <3>5. Accounted'
      BY <2>2, <3>2, <3>3, <3>4 DEF Accounted
    <3> QED BY <1>0, <1>1, <2>1, <2>2, <2>3, <3>1, <3>2, <3>5 DEF Inv, RowType, NothingAhead
  <2>5. CASE quota.held
    <3> DEFINE until == AtLeast(quota.refilledAt, t)
               full == Refilled(quota, t)
    <3>1. until \in Nat /\ until <= now /\ quota.refilledAt <= until
      BY <1>0 DEF AtLeast, Inv, NothingAhead
    <3>2. AtLeast(0, t - quota.refilledAt) = until - quota.refilledAt
      BY <1>0 DEF AtLeast
    <3>3. (until - quota.refilledAt) * PerTick \in Nat
      BY <1>0, <2>2, <3>1
    <3>4. full \in Nat /\ full <= quota.tokens + (until - quota.refilledAt) * PerTick
      <4>1. full = AtMost(Burst, quota.tokens + (until - quota.refilledAt) * PerTick)
        BY <3>2 DEF Refilled
      <4> QED BY ONLY <4>1, <3>3, <1>0, <2>2 DEF AtMost
    <3>5. full - Cost \in Nat
      BY <1>3, <2>2, <2>5, <3>4 DEF Granted
    <3>6. quota' = [held |-> TRUE, tokens |-> full - Cost, refilledAt |-> until,
                    day |-> DayOf(t), count |-> Counted(quota, t) + Cost]
      BY <2>1, <2>5 DEF After
    <3>7. PerTick * (until - 1)
             = PerTick * (quota.refilledAt - 1) + (until - quota.refilledAt) * PerTick
      BY <1>0, <2>2, <3>1, RefillGrows
    <3>8. spent' + quota'.tokens <= Burst + PerTick * (until - 1)
      <4>1. spent + quota.tokens <= Burst + PerTick * (quota.refilledAt - 1)
        BY <2>5 DEF Inv, Accounted
      <4>2. spent' + quota'.tokens = spent + full
        BY <1>0, <2>1, <2>2, <3>4, <3>6
      <4>3. PerTick * (quota.refilledAt - 1) \in Int
        BY <1>0, <2>2
      <4> DEFINE a == PerTick * (quota.refilledAt - 1)
                 b == (until - quota.refilledAt) * PerTick
                 d == PerTick * (until - 1)
                 s1 == spent' + quota'.tokens
      <4>4. a \in Int /\ b \in Nat /\ d = a + b /\ full <= quota.tokens + b
            /\ spent + quota.tokens <= Burst + a /\ s1 = spent + full
        BY <3>3, <3>4, <3>7, <4>1, <4>2, <4>3
      <4> HIDE DEF a, b, d, s1, full
      <4>5. s1 <= Burst + d
        BY <4>4, <1>0, <2>2, <3>4
      <4> QED BY <4>5 DEF s1, d
    <3>9. Accounted'
      BY <3>6, <3>8 DEF Accounted
    <3> QED BY <1>0, <1>1, <2>1, <2>2, <2>3, <3>1, <3>5, <3>6, <3>9
            DEF Inv, RowType, NothingAhead
  <2> QED BY <2>4, <2>5, <1>0
<1> QED BY <1>2, <1>3

LEMMA Invariance == QuotaSpec => []Inv
<1>1. Inv /\ [QuotaNext]_quotaVars => Inv'
  <2> SUFFICES ASSUME Inv, [QuotaNext]_quotaVars PROVE Inv'
    OBVIOUS
  <2>1. ASSUME NEW p \in Procs, AskTokens(p) PROVE Inv'
    BY <2>1 DEF AskTokens, Inv, RowType, NothingAhead, Accounted, Nothing
  <2>2. ASSUME NEW p \in Procs, Take(p) PROVE Inv'
    BY <2>2, TakeInv
  <2>3. ASSUME NEW p \in Procs, LetGo(p) PROVE Inv'
    BY <2>3 DEF LetGo, Inv, RowType, NothingAhead, Accounted, Nothing
  <2>4. CASE QuotaTick
    BY <2>4 DEF QuotaTick, Inv, RowType, NothingAhead, Accounted, Nothing
  <2>5. CASE UNCHANGED quotaVars
    BY <2>5 DEF quotaVars, Inv, RowType, NothingAhead, Accounted
  <2> QED BY <2>1, <2>2, <2>3, <2>4, <2>5 DEF QuotaNext
<1> QED BY <1>1, InitInv, PTL DEF QuotaSpec

\* The flights of OnDemand use the quota only as RequestQuota specifies:
\* whatever a flight does with the row is an ask, a take or a lost claim.
THEOREM FlightsUseQuota == Spec => QuotaSpec
<1>1. Init => QuotaInit
  BY DEF Init
<1>2. [Next]_vars => [QuotaNext]_quotaVars
  <2> SUFFICES ASSUME [Next]_vars PROVE [QuotaNext]_quotaVars
    OBVIOUS
  <2>1. ASSUME NEW p \in Procs, NEW c \in Cells, Ask(p, c) PROVE AskTokens(p)
    BY <2>1 DEF Ask
  <2>2. ASSUME NEW p \in Procs, NEW c \in Cells, Claim(p, c)
        PROVE  LetGo(p) \/ UNCHANGED quotaVars
    BY <2>2 DEF Claim
  <2>3. ASSUME NEW p \in Procs, NEW c \in Cells, TakeTokens(p, c) PROVE Take(p)
    BY <2>3 DEF TakeTokens
  <2>4. ASSUME NEW p \in Procs, NEW c \in Cells,
               \/ Release(p, c) \/ TakeSlot(p, c) \/ Renew(p, c) \/ Answer(p, c)
               \/ AnswerUnheard(p, c) \/ FetchFails(p, c) \/ MarkFailed(p, c)
        PROVE  UNCHANGED quotaVars
    BY <2>4 DEF Release, TakeSlot, Renew, Answer, AnswerUnheard, FetchFails, MarkFailed
  <2>5. ASSUME NEW p \in Procs, Crash(p) PROVE LetGo(p) \/ UNCHANGED quotaVars
    BY <2>5 DEF Crash
  <2>6. CASE Tick
    BY <2>6 DEF Tick, QuotaNext
  <2>7. CASE UNCHANGED vars
    BY <2>7 DEF vars, quotaVars
  <2> QED BY <2>1, <2>2, <2>3, <2>4, <2>5, <2>6, <2>7 DEF Next, QuotaNext
<1> QED BY <1>1, <1>2, PTL DEF Spec, QuotaSpec

\* The processes of an instance together never send a source more than its full
\* bucket and what time has refilled, whatever order their takes reach the row
\* in: the refill instant never moves back.
THEOREM BucketHolds == Spec => []BucketKept
<1>1. Inv => BucketKept
  <2> SUFFICES ASSUME Inv PROVE BucketKept
    OBVIOUS
  <2>1. /\ now \in Nat \ {0} /\ spent \in Nat /\ quota.tokens \in Nat /\ quota.refilledAt \in Nat
        /\ quota.refilledAt <= now /\ Burst \in Nat /\ PerTick \in Nat
    BY QuotaAssumption DEF Inv, RowType, NothingAhead
  <2>2. PerTick * (quota.refilledAt - 1) <= PerTick * (now - 1)
    BY <2>1, RefillGrows
  <2>3. PerTick * (quota.refilledAt - 1) \in Int /\ PerTick * (now - 1) \in Nat
    BY <2>1
  <2>4. spent <= Burst + PerTick * (quota.refilledAt - 1) \/ spent = 0
    <3> HIDE DEF BucketKept
    <3> DEFINE a == PerTick * (quota.refilledAt - 1)
    <3>1. quota.held => spent + quota.tokens <= Burst + a
      BY DEF Inv, Accounted
    <3>2. ~quota.held => spent = 0
      BY DEF Inv, Accounted
    <3>3. a \in Int
      BY <2>3
    <3> HIDE DEF a
    <3>4. spent <= Burst + a \/ spent = 0
      BY <2>1, <3>1, <3>2, <3>3
    <3> QED BY <3>4 DEF a
  <2> QED BY <2>1, <2>2, <2>3, <2>4 DEF BucketKept
<1> QED BY <1>1, Invariance, FlightsUseQuota, PTL

-----------------------------------------------------------------------------
(* The ledger: its row r of a cell, a flight g and the flights f of a cell *)
(* at an instant n.                                                        *)

\* The types the argument needs, which hold however long the clock runs.
LedgerRow == [status : {"none", "pending", "fresh", "failed"}, fetchedAt : Nat, expiresAt : Nat,
              retryAt : Nat, claim : Nat]
CellFlight == [stage : {"none", "asked", "claimed", "limited", "waiting", "renewing",
                        "fetching", "failing"}, at : Nat, held : Nat]

\* A flight that was given a claim.
Claiming(g) == g.stage \in {"claimed", "limited", "waiting", "renewing", "fetching", "failing"}

\* A row dates its answer and its failure, and a failure is no older than the answer.
RowDated(r) ==
  /\ r.status = "fresh" => r.expiresAt = r.fetchedAt + TtlTicks
  /\ r.status = "failed" => r.fetchedAt <= r.retryAt
  /\ r.status \in {"none", "pending"} => r.fetchedAt = 0

\* A flight goes by an instant that has come, and its claim ends a fixed time after the
\* instant it was made at; only a flight about to renew has read a later one since.
FlightDated(g, n) ==
  /\ g.stage # "none" => g.at <= n
  /\ Claiming(g) => g.held <= g.at + ClaimTicks /\ 0 < g.held
  /\ Claiming(g) /\ g.stage # "renewing" => g.held = g.at + ClaimTicks

\* Who holds the cell's claim found it due, or would have.
HoldsDue(r, g) == Claiming(g) /\ r.claim = g.held => Due(r, g.at)

\* A claim that runs is the row's, or its flight wrote an answer it never heard of.
ClaimRuns(r, g, n) ==
  Claiming(g) /\ n < g.held => r.claim = g.held \/ (g.stage = "failing" /\ ~Due(r, g.at))

\* Claims that run end at different instants.
EndsDiffer(f, n) ==
  \A p, q \in Procs :
    /\ p # q /\ Claiming(f[p]) /\ Claiming(f[q]) /\ n < f[p].held /\ n < f[q].held
    => f[p].held # f[q].held

CellOK(r, f, n) ==
  /\ r \in LedgerRow /\ RowDated(r)
  /\ f \in [Procs -> CellFlight]
  /\ \A p \in Procs : FlightDated(f[p], n) /\ HoldsDue(r, f[p]) /\ ClaimRuns(r, f[p], n)
  /\ EndsDiffer(f, n)

\* A cell that is due stays due with time ...
LEMMA DueLasts ==
  ASSUME NEW r \in LedgerRow, NEW t \in Nat, NEW u \in Nat, t <= u, Due(r, t)
  PROVE  Due(r, u)
  BY DEF LedgerRow, Due, Fresh, BackingOff

\* ... and its answer is no younger than the instant it is due at.
LEMMA DueAfterAnswer ==
  ASSUME NEW r \in LedgerRow, RowDated(r), NEW t \in Nat, Due(r, t)
  PROVE  r.fetchedAt <= t
  BY TicksAssumption DEF LedgerRow, RowDated, Due, Fresh, BackingOff

\* The row after an answer, and after a failure.
Answered(t) == [status |-> "fresh", fetchedAt |-> t, expiresAt |-> t + TtlTicks,
                retryAt |-> 0, claim |-> 0]
Failed(r, t) == [r EXCEPT !.status = "failed", !.retryAt = t + BackoffTicks, !.claim = 0]

\* An instant a cell is not due at stays one, whatever is written of it later.
LEMMA NotDueLasts ==
  ASSUME NEW r \in LedgerRow, NEW t \in Nat, Due(r, t), NEW u \in Nat, ~Due(r, u)
  PROVE  u < t /\ ~Due(Answered(t), u) /\ ~Due(Failed(r, t), u)
  BY TicksAssumption DEF LedgerRow, Due, Fresh, BackingOff, Answered, Failed

LEMMA RowsDated ==
  ASSUME NEW r \in LedgerRow, RowDated(r), NEW t \in Nat
  PROVE  /\ Answered(t) \in LedgerRow /\ RowDated(Answered(t))
         /\ Failed(r, t) \in LedgerRow
         /\ Due(r, t) => RowDated(Failed(r, t))
  <1>1. Due(r, t) => r.fetchedAt <= t
    BY DueAfterAnswer
  <1>2. Failed(r, t) \in LedgerRow /\ Failed(r, t).fetchedAt = r.fetchedAt
        /\ Failed(r, t).status = "failed" /\ Failed(r, t).retryAt = t + BackoffTicks
    <2> DEFINE a == [r EXCEPT !.status = "failed"]
               b == [a EXCEPT !.retryAt = t + BackoffTicks]
    <2>1. a \in LedgerRow /\ a.status = "failed" /\ a.fetchedAt = r.fetchedAt
      BY DEF LedgerRow
    <2>2. Failed(r, t) = [b EXCEPT !.claim = 0]
      BY DEF Failed, LedgerRow
    <2> HIDE DEF a
    <2>3. /\ b \in LedgerRow /\ b.status = "failed" /\ b.fetchedAt = r.fetchedAt
          /\ b.retryAt = t + BackoffTicks
      BY <2>1, TicksAssumption DEF LedgerRow
    <2> HIDE DEF b
    <2>4. LET d == [b EXCEPT !.claim = 0]
          IN /\ d \in LedgerRow /\ d.status = "failed" /\ d.fetchedAt = r.fetchedAt
             /\ d.retryAt = t + BackoffTicks
      BY <2>3 DEF LedgerRow
    <2> QED
      BY <2>2, <2>4
  <1>3. Due(r, t) => RowDated(Failed(r, t))
    BY <1>1, <1>2, TicksAssumption DEF RowDated, LedgerRow
  <1> QED
    BY <1>2, <1>3, TicksAssumption DEF Answered, LedgerRow, RowDated

\* A flight goes on under its claim, or ends.
LEMMA GoOn ==
  ASSUME NEW r, NEW f, NEW n \in Nat, CellOK(r, f, n), NEW p \in Procs, NEW g \in CellFlight,
         FlightDated(g, n),
         Claiming(g) => /\ Claiming(f[p]) /\ g.held = f[p].held /\ f[p].at <= g.at
                        /\ f[p].stage = "failing" => g = f[p]
  PROVE  CellOK(r, [f EXCEPT ![p] = g], n)
  <1> DEFINE e == [f EXCEPT ![p] = g]
  <1>1. e \in [Procs -> CellFlight] /\ e[p] = g /\ \A q \in Procs \ {p} : e[q] = f[q]
    BY DEF CellOK
  <1>2. r \in LedgerRow /\ f[p] \in CellFlight /\ g.at \in Nat /\ f[p].at \in Nat
    BY DEF CellOK, CellFlight
  <1>3. HoldsDue(r, g)
    BY <1>2, DueLasts DEF CellOK, HoldsDue
  <1>4. ClaimRuns(r, g, n)
    BY DEF CellOK, ClaimRuns
  <1>5. EndsDiffer(e, n)
    BY <1>1 DEF CellOK, EndsDiffer
  <1> HIDE DEF e
  <1>6. \A q \in Procs : FlightDated(e[q], n) /\ HoldsDue(r, e[q]) /\ ClaimRuns(r, e[q], n)
    BY <1>1, <1>3, <1>4 DEF CellOK
  <1>7. CellOK(r, e, n)
    BY <1>1, <1>5, <1>6 DEF CellOK
  <1> QED
    BY <1>7 DEF e

\* Who else has a claim that runs, beside the holder of the row's, is failing after
\* an answer.
LEMMA OthersAnswered ==
  ASSUME NEW r, NEW f, NEW n \in Nat, CellOK(r, f, n), NEW p \in Procs, Claiming(f[p]),
         r.claim = f[p].held, NEW q \in Procs \ {p}, Claiming(f[q]), n < f[q].held
  PROVE  /\ f[q].stage = "failing" /\ ~Due(r, f[q].at)
         /\ f[q].at \in Nat /\ f[q].held = f[q].at + ClaimTicks
  <1>1. f[q] \in CellFlight /\ f[p] \in CellFlight /\ FlightDated(f[q], n)
    BY DEF CellOK
  <1>2. r.claim # f[q].held
    BY <1>1 DEF CellOK, EndsDiffer, CellFlight
  <1> QED
    BY <1>1, <1>2 DEF CellOK, ClaimRuns, FlightDated, CellFlight

\* The holder gives its claim up: it released the cell, wrote it or marked it failed.
LEMMA GiveUp ==
  ASSUME NEW r, NEW f, NEW n \in Nat, CellOK(r, f, n), NEW p \in Procs, Claiming(f[p]),
         r.claim = f[p].held, NEW g \in CellFlight, FlightDated(g, n),
         NEW s \in LedgerRow, RowDated(s), s.claim = 0,
         \A u \in Nat : ~Due(r, u) => ~Due(s, u),
         Claiming(g) => g.stage = "failing" /\ g.held = f[p].held /\ ~Due(s, g.at)
  PROVE  CellOK(s, [f EXCEPT ![p] = g], n)
  <1> DEFINE e == [f EXCEPT ![p] = g]
  <1>1. e \in [Procs -> CellFlight] /\ e[p] = g /\ \A q \in Procs \ {p} : e[q] = f[q]
    BY DEF CellOK
  <1>5. EndsDiffer(e, n)
    BY <1>1 DEF CellOK, EndsDiffer
  <1> HIDE DEF e
  <1>2. \A q \in Procs : FlightDated(e[q], n)
    BY <1>1 DEF CellOK
  <1>3. \A q \in Procs : HoldsDue(s, e[q])
    BY <1>1, <1>2 DEF HoldsDue, FlightDated, CellFlight
  <1>4. ASSUME NEW q \in Procs PROVE ClaimRuns(s, e[q], n)
    <2>1. CASE q = p
      BY <1>1, <2>1 DEF ClaimRuns
    <2>2. CASE q # p
      BY <1>1, <2>2, OthersAnswered DEF ClaimRuns
    <2> QED
      BY <2>1, <2>2
  <1>6. CellOK(s, e, n)
    BY <1>1, <1>2, <1>3, <1>4, <1>5 DEF CellOK
  <1> QED
    BY <1>6 DEF e

\* A claim is made, or moved by its holder: s is the row with the new claim, which ends
\* at h, made at the instant t the cell is due at.
LEMMA TakeClaim ==
  ASSUME NEW r, NEW f, NEW n \in Nat, CellOK(r, f, n), NEW p \in Procs,
         NEW t \in Nat, t <= n, Due(r, t), f[p].at <= t,
         \/ f[p].stage = "asked" /\ r.claim <= t
         \/ Claiming(f[p]) /\ r.claim = f[p].held,
         NEW s \in LedgerRow, RowDated(s), s.claim = t + ClaimTicks,
         \A u \in Nat : Due(r, u) <=> Due(s, u),
         NEW g \in CellFlight, g.at = t, g.held = t + ClaimTicks, g.stage \in {"claimed", "fetching"}
  PROVE  CellOK(s, [f EXCEPT ![p] = g], n)
  <1> DEFINE e == [f EXCEPT ![p] = g]
  <1>0. ClaimTicks \in Nat \ {0}
    BY TicksAssumption
  <1>1. e \in [Procs -> CellFlight] /\ e[p] = g /\ \A q \in Procs \ {p} : e[q] = f[q]
    BY DEF CellOK
  <1> HIDE DEF e
  <1>2. \A q \in Procs : FlightDated(e[q], n)
    <2>1. FlightDated(g, n)
      BY <1>0 DEF FlightDated, Claiming
    <2> QED
      BY <1>1, <2>1 DEF CellOK
  <1>3. ASSUME NEW q \in Procs \ {p}, Claiming(f[q]), n < f[q].held
        PROVE  /\ f[q].stage = "failing" /\ ~Due(r, f[q].at)
               /\ f[q].at \in Nat /\ f[q].held = f[q].at + ClaimTicks
    <2>1. CASE Claiming(f[p]) /\ r.claim = f[p].held
      BY <1>3, <2>1, OthersAnswered
    <2>2. CASE r.claim <= t
      <3>1. f[q] \in CellFlight /\ FlightDated(f[q], n) /\ r.claim \in Nat
        BY DEF CellOK, LedgerRow
      <3>2. r.claim # f[q].held
        BY <1>3, <2>2, <3>1 DEF CellFlight
      <3> QED
        BY <1>3, <3>1, <3>2 DEF CellOK, ClaimRuns, FlightDated, CellFlight
    <2> QED
      BY <2>1, <2>2
  <1>4. ASSUME NEW q \in Procs PROVE HoldsDue(s, e[q])
    <2>1. CASE q = p
      BY <1>1, <2>1 DEF HoldsDue
    <2>2. CASE q # p
      <3>1. f[q] \in CellFlight /\ FlightDated(f[q], n) /\ e[q] = f[q] /\ r \in LedgerRow
        BY <1>1, <2>2 DEF CellOK
      <3>2. Claiming(f[q]) /\ s.claim = f[q].held => t <= f[q].at
        BY <1>0, <3>1 DEF FlightDated, CellFlight
      <3> QED
        BY <3>1, <3>2, DueLasts DEF HoldsDue, CellFlight
    <2> QED
      BY <2>1, <2>2
  <1>5. ASSUME NEW q \in Procs PROVE ClaimRuns(s, e[q], n)
    BY <1>1, <1>3 DEF ClaimRuns
  <1>6. \A q \in Procs \ {p} : Claiming(f[q]) /\ n < f[q].held => f[q].held # g.held
    <2> SUFFICES ASSUME NEW q \in Procs \ {p}, Claiming(f[q]), n < f[q].held
                 PROVE  f[q].held # g.held
      OBVIOUS
    <2>1. f[q].at # t
      BY <1>3
    <2> QED
      BY <1>0, <1>3, <2>1
  <1>7. EndsDiffer(e, n)
    BY <1>1, <1>6 DEF CellOK, EndsDiffer
  <1>8. CellOK(s, e, n)
    BY <1>1, <1>2, <1>4, <1>5, <1>7 DEF CellOK
  <1> QED
    BY <1>8 DEF e

\* Time passes.
LEMMA TimePasses ==
  ASSUME NEW r, NEW f, NEW n \in Nat, CellOK(r, f, n)
  PROVE  CellOK(r, f, n + 1)
  <1>1. \A p \in Procs : f[p] \in CellFlight
    BY DEF CellOK
  <1>2. ASSUME NEW p \in Procs PROVE FlightDated(f[p], n + 1) /\ ClaimRuns(r, f[p], n + 1)
    <2>1. f[p].at \in Nat /\ f[p].held \in Nat
      BY <1>1 DEF CellFlight
    <2>2. FlightDated(f[p], n) /\ ClaimRuns(r, f[p], n)
      BY DEF CellOK
    <2>3. FlightDated(f[p], n + 1)
      BY <2>1, <2>2 DEF FlightDated
    <2>4. ClaimRuns(r, f[p], n + 1)
      BY <2>1, <2>2 DEF ClaimRuns
    <2> QED
      BY <2>3, <2>4
  <1>3. EndsDiffer(f, n + 1)
    BY <1>1 DEF CellOK, EndsDiffer, CellFlight
  <1> QED
    BY <1>2, <1>3 DEF CellOK

FlightsOf(c) == [p \in Procs |-> flight[p][c]]

LedgerOK ==
  /\ now \in Nat
  /\ ledger \in [Cells -> LedgerRow]
  /\ flight \in [Procs -> [Cells -> CellFlight]]
  /\ \A c \in Cells : CellOK(ledger[c], FlightsOf(c), now)

LEMMA InitLedger == Init => LedgerOK
  <1> SUFFICES ASSUME Init PROVE LedgerOK
    OBVIOUS
  <1>1. NoRow \in LedgerRow /\ RowDated(NoRow) /\ NoFlight \in CellFlight
    BY DEF NoRow, LedgerRow, RowDated, NoFlight, CellFlight
  <1>2. \A n : FlightDated(NoFlight, n) /\ HoldsDue(NoRow, NoFlight) /\ ClaimRuns(NoRow, NoFlight, n)
    BY DEF FlightDated, HoldsDue, ClaimRuns, Claiming, NoFlight
  <1>3. ASSUME NEW c \in Cells PROVE CellOK(ledger[c], FlightsOf(c), now)
    <2>1. ledger[c] = NoRow /\ FlightsOf(c) = [p \in Procs |-> NoFlight]
      BY DEF Init, FlightsOf
    <2>2. EndsDiffer([p \in Procs |-> NoFlight], now)
      BY DEF EndsDiffer, Claiming, NoFlight
    <2> QED
      BY <1>1, <1>2, <2>1, <2>2 DEF CellOK
  <1> QED
    BY <1>1, <1>3 DEF Init, QuotaInit, LedgerOK

\* A step of a flight is one of its cell.
LEMMA CellMoves ==
  ASSUME LedgerOK, NEW p \in Procs, NEW c \in Cells, NEW g \in CellFlight, Move(p, c, g),
         NEW s, ledger' = [ledger EXCEPT ![c] = s], now' = now,
         CellOK(s, [FlightsOf(c) EXCEPT ![p] = g], now)
  PROVE  LedgerOK'
  <1>1. flight \in [Procs -> [Cells -> CellFlight]] /\ ledger \in [Cells -> LedgerRow]
    BY DEF LedgerOK
  <1>2. ledger' \in [Cells -> LedgerRow] /\ flight' \in [Procs -> [Cells -> CellFlight]]
    BY <1>1 DEF CellOK, Move
  <1>3. ASSUME NEW d \in Cells PROVE CellOK(ledger'[d], FlightsOf(d)', now)
    <2>1. CASE d = c
      <3>1. FlightsOf(d)' = [FlightsOf(c) EXCEPT ![p] = g]
        BY <1>1, <2>1 DEF FlightsOf, Move
      <3> QED
        BY <1>1, <2>1, <3>1
    <2>2. CASE d # c
      <3>1. FlightsOf(d)' = FlightsOf(d) /\ ledger'[d] = ledger[d]
        BY <1>1, <2>2 DEF FlightsOf, Move
      <3> QED
        BY <3>1 DEF LedgerOK
    <2> QED
      BY <2>1, <2>2
  <1> QED
    BY <1>2, <1>3 DEF LedgerOK

\* ... which leaves the row alone when it only goes on under its claim, or ends.
LEMMA FlightMoves ==
  ASSUME LedgerOK, NEW p \in Procs, NEW c \in Cells, NEW g \in CellFlight, Move(p, c, g),
         ledger' = ledger, now' = now, FlightDated(g, now),
         Claiming(g) => /\ Claiming(flight[p][c]) /\ g.held = flight[p][c].held
                        /\ flight[p][c].at <= g.at
                        /\ flight[p][c].stage = "failing" => g = flight[p][c]
  PROVE  LedgerOK'
  <1>1. CellOK(ledger[c], FlightsOf(c), now) /\ FlightsOf(c)[p] = flight[p][c] /\ now \in Nat
    BY DEF LedgerOK, FlightsOf
  <1>2. CellOK(ledger[c], [FlightsOf(c) EXCEPT ![p] = g], now)
    BY <1>1, GoOn
  <1>3. ledger' = [ledger EXCEPT ![c] = ledger[c]]
    BY DEF LedgerOK
  <1> QED
    BY <1>2, <1>3, CellMoves

LEMMA NoFlightOK ==
  NoFlight \in CellFlight /\ ~Claiming(NoFlight) /\ FlightDated(NoFlight, now)
  BY DEF NoFlight, CellFlight, Claiming, FlightDated

\* What is known of the flight and the row at hand.
LEMMA AtHand ==
  ASSUME LedgerOK, NEW p \in Procs, NEW c \in Cells
  PROVE  /\ now \in Nat /\ ledger[c] \in LedgerRow /\ RowDated(ledger[c])
         /\ flight[p][c] \in CellFlight /\ FlightDated(flight[p][c], now)
         /\ FlightsOf(c)[p] = flight[p][c]
         /\ HoldsDue(ledger[c], flight[p][c])
         /\ CellOK(ledger[c], FlightsOf(c), now)
  BY DEF LedgerOK, CellOK, FlightsOf

\* The holder gives up its claim.
LEMMA GivesUp ==
  ASSUME LedgerOK, NEW p \in Procs, NEW c \in Cells, Claiming(flight[p][c]),
         Holds(c, Held(p, c)), NEW g \in CellFlight, Move(p, c, g), FlightDated(g, now),
         NEW s \in LedgerRow, RowDated(s), s.claim = 0,
         \A u \in Nat : ~Due(ledger[c], u) => ~Due(s, u),
         Claiming(g) => g.stage = "failing" /\ g.held = Held(p, c) /\ ~Due(s, g.at),
         ledger' = [ledger EXCEPT ![c] = s], now' = now
  PROVE  LedgerOK'
  <1>1. CellOK(s, [FlightsOf(c) EXCEPT ![p] = g], now)
    BY AtHand, GiveUp DEF Holds, Held
  <1> QED
    BY <1>1, CellMoves

\* The row with its claim taken back.
LEMMA ReleasedRow ==
  ASSUME NEW r \in LedgerRow, RowDated(r)
  PROVE  LET s == [r EXCEPT !.claim = 0]
         IN /\ s \in LedgerRow /\ RowDated(s) /\ s.claim = 0
            /\ \A u \in Nat : ~Due(r, u) => ~Due(s, u)
  BY DEF LedgerRow, RowDated, Due, Fresh, BackingOff

\* The row with a new claim.
LEMMA ClaimedRow ==
  ASSUME NEW r \in LedgerRow, RowDated(r), NEW h \in Nat, NEW s,
         \/ s = [r EXCEPT !.claim = h]
         \/ s = [r EXCEPT !.claim = h, !.status = IF @ = "none" THEN "pending" ELSE @]
  PROVE  s \in LedgerRow /\ RowDated(s) /\ s.claim = h /\ \A u \in Nat : Due(r, u) <=> Due(s, u)
  <1> DEFINE status == IF r.status = "none" THEN "pending" ELSE r.status
  <1>1. /\ s.claim = h /\ s.fetchedAt = r.fetchedAt /\ s.expiresAt = r.expiresAt
        /\ s.retryAt = r.retryAt /\ s.status \in {r.status, status}
    BY DEF LedgerRow
  <1>2. s \in LedgerRow
    <2>1. [r EXCEPT !.claim = h] \in LedgerRow
      BY DEF LedgerRow
    <2>2. CASE s = [r EXCEPT !.claim = h]
      BY <2>1, <2>2
    <2>3. CASE s = [r EXCEPT !.claim = h, !.status = IF @ = "none" THEN "pending" ELSE @]
      <3> DEFINE a == [r EXCEPT !.claim = h]
      <3>1. s = [a EXCEPT !.status = status]
        BY <2>3 DEF LedgerRow
      <3>2. status \in {"none", "pending", "fresh", "failed"}
        BY DEF LedgerRow
      <3>3. a \in LedgerRow
        BY <2>1
      <3> HIDE DEF a, status
      <3> QED
        BY <3>1, <3>2, <3>3 DEF LedgerRow
    <2> QED
      BY <2>2, <2>3
  <1>3. RowDated(s) /\ \A u \in Nat : Due(r, u) <=> Due(s, u)
    BY <1>1 DEF RowDated, Due, Fresh, BackingOff
  <1> QED
    BY <1>1, <1>2, <1>3

\* A flight asks for its cell, and claims it.
LEMMA AskLedger ==
  ASSUME LedgerOK, NEW p \in Procs, NEW c \in Cells
  PROVE  Ask(p, c) \/ Claim(p, c) => LedgerOK'
  <1> DEFINE f == flight[p][c]
             t == f.at
  <1>1. ASSUME Ask(p, c) PROVE LedgerOK'
    <2> DEFINE g == [stage |-> "asked", at |-> now, held |-> 0]
    <2>1. g \in CellFlight /\ ~Claiming(g) /\ FlightDated(g, now)
      BY AtHand DEF CellFlight, Claiming, FlightDated
    <2>2. Move(p, c, g) /\ ledger' = ledger /\ now' = now
      BY <1>1 DEF Ask, AskTokens
    <2> QED
      BY <2>1, <2>2, FlightMoves
  <1>2. ASSUME Claim(p, c), MayClaim(ledger[c], t) PROVE LedgerOK'
    <2> DEFINE g == [stage |-> "claimed", at |-> t, held |-> t + ClaimTicks]
               s == [ledger[c] EXCEPT !.claim = t + ClaimTicks,
                                      !.status = IF @ = "none" THEN "pending" ELSE @]
    <2>1. t \in Nat /\ t <= now /\ t + ClaimTicks \in Nat
      BY <1>2, AtHand, TicksAssumption DEF Claim, Stage, FlightDated, CellFlight
    <2>2. g \in CellFlight
      BY <2>1 DEF CellFlight
    <2>3. /\ s \in LedgerRow /\ RowDated(s) /\ s.claim = t + ClaimTicks
          /\ \A u \in Nat : Due(ledger[c], u) <=> Due(s, u)
      <3>1. ledger[c] \in LedgerRow /\ RowDated(ledger[c])
        BY AtHand
      <3>2. \/ s = [ledger[c] EXCEPT !.claim = t + ClaimTicks]
            \/ s = [ledger[c] EXCEPT !.claim = t + ClaimTicks,
                                     !.status = IF @ = "none" THEN "pending" ELSE @]
        OBVIOUS
      <3> DEFINE r == ledger[c]
                 h == t + ClaimTicks
      <3>3. /\ r \in LedgerRow /\ RowDated(r) /\ h \in Nat
            /\ \/ s = [r EXCEPT !.claim = h]
               \/ s = [r EXCEPT !.claim = h, !.status = IF @ = "none" THEN "pending" ELSE @]
        BY <2>1, <3>1, <3>2
      <3> HIDE DEF s, r, h
      <3>4. s \in LedgerRow /\ RowDated(s) /\ s.claim = h /\ \A u \in Nat : Due(r, u) <=> Due(s, u)
        BY <3>3, ClaimedRow
      <3> QED
        BY <3>4 DEF r, h
    <2>4. /\ Move(p, c, g) /\ ledger' = [ledger EXCEPT ![c] = s] /\ now' = now
          /\ f.stage = "asked"
      BY <1>2 DEF Claim, At, Stage, quotaVars
    <2>5. g.at = t /\ g.held = t + ClaimTicks /\ g.stage \in {"claimed", "fetching"}
      OBVIOUS
    <2> HIDE DEF g, s
    <2>6. CellOK(s, [FlightsOf(c) EXCEPT ![p] = g], now)
      BY <1>2, <2>1, <2>2, <2>3, <2>4, <2>5, AtHand, TakeClaim DEF MayClaim
    <2> QED
      BY <2>2, <2>4, <2>6, CellMoves
  <1>3. ASSUME Claim(p, c), ~MayClaim(ledger[c], t) PROVE LedgerOK'
    <2>1. Move(p, c, NoFlight) /\ ledger' = ledger /\ now' = now
      BY <1>3 DEF Claim, At, LetGo
    <2> QED
      BY <2>1, NoFlightOK, FlightMoves
  <1> QED
    BY <1>1, <1>2, <1>3

\* It takes tokens, waits for its slot and fails.
LEMMA WaitLedger ==
  ASSUME LedgerOK, NEW p \in Procs, NEW c \in Cells
  PROVE  TakeTokens(p, c) \/ TakeSlot(p, c) \/ FetchFails(p, c) => LedgerOK'
  <1> DEFINE f == flight[p][c]
  <1>f. /\ f \in CellFlight /\ FlightDated(f, now) /\ now \in Nat
    BY AtHand
  <1>1. ASSUME NEW stage \in {"limited", "waiting", "failing"},
               f.stage \in {"claimed", "fetching"},
               Move(p, c, [f EXCEPT !.stage = stage]), ledger' = ledger, now' = now
        PROVE  LedgerOK'
    <2> DEFINE g == [f EXCEPT !.stage = stage]
    <2>1. g \in CellFlight /\ g.at = f.at /\ g.held = f.held /\ g.stage = stage
      BY <1>f DEF CellFlight
    <2>2. Claiming(f)
      BY <1>1 DEF Claiming
    <2>3. f.stage # "renewing" /\ f.stage # "failing" /\ f.stage # "none"
      BY <1>1
    <2> HIDE DEF g
    <2>4. FlightDated(g, now)
      BY <1>f, <2>1, <2>2, <2>3 DEF FlightDated
    <2>5. f.at <= g.at
      BY <1>f, <2>1 DEF CellFlight
    <2>6. Move(p, c, g)
      BY <1>1 DEF g
    <2> QED
      BY <1>1, <2>1, <2>2, <2>3, <2>4, <2>5, <2>6, FlightMoves
  <1>2. ASSUME TakeTokens(p, c) PROVE LedgerOK'
    BY <1>1, <1>2 DEF TakeTokens, Take, Stage
  <1>3. ASSUME FetchFails(p, c) PROVE LedgerOK'
    BY <1>1, <1>3 DEF FetchFails, Stage, quotaVars
  <1>4. ASSUME TakeSlot(p, c) PROVE LedgerOK'
    <2> DEFINE g == [f EXCEPT !.stage = "renewing", !.at = now]
    <2>1. g \in CellFlight /\ g.at = now /\ g.held = f.held /\ g.stage = "renewing"
      BY <1>f DEF CellFlight
    <2>2. f.stage = "waiting" /\ Move(p, c, g) /\ ledger' = ledger /\ now' = now
      BY <1>4 DEF TakeSlot, Stage, quotaVars
    <2>3. Claiming(f) /\ Claiming(g)
      BY <2>1, <2>2 DEF Claiming
    <2>4. f.at \in Nat /\ f.held \in Nat /\ f.at <= now
      BY <1>f, <2>2 DEF FlightDated, CellFlight
    <2> HIDE DEF g
    <2>5. FlightDated(g, now)
      BY <1>f, <2>1, <2>2, <2>3, <2>4, TicksAssumption DEF FlightDated
    <2> QED
      BY <2>1, <2>2, <2>3, <2>4, <2>5, FlightMoves
  <1> QED
    BY <1>2, <1>3, <1>4

\* It releases its claim, or renews it.
LEMMA ClaimLedger ==
  ASSUME LedgerOK, NEW p \in Procs, NEW c \in Cells
  PROVE  Release(p, c) \/ Renew(p, c) => LedgerOK'
  <1> DEFINE f == flight[p][c]
             r == ledger[c]
  <1>f. /\ f \in CellFlight /\ FlightDated(f, now) /\ now \in Nat /\ r \in LedgerRow /\ RowDated(r)
        /\ HoldsDue(r, f)
    BY AtHand
  <1>t. ledger \in [Cells -> LedgerRow]
    BY DEF LedgerOK
  <1>1. ASSUME Move(p, c, NoFlight), ledger' = ledger, now' = now PROVE LedgerOK'
    BY <1>1, NoFlightOK, FlightMoves
  <1>2. ASSUME Release(p, c), Holds(c, Held(p, c)) PROVE LedgerOK'
    <2> DEFINE s == [r EXCEPT !.claim = 0]
    <2>1. ledger' = [ledger EXCEPT ![c] = s] /\ Move(p, c, NoFlight) /\ now' = now
      BY <1>2 DEF Release, quotaVars
    <2>2. Claiming(f)
      BY <1>2 DEF Release, Stage, Claiming
    <2>3. /\ s \in LedgerRow /\ RowDated(s) /\ s.claim = 0
          /\ \A u \in Nat : ~Due(r, u) => ~Due(s, u)
      BY <1>f, ReleasedRow
    <2> HIDE DEF s
    <2> QED
      BY <1>2, <2>1, <2>2, <2>3, NoFlightOK, GivesUp
  <1>3. ASSUME Release(p, c), ~Holds(c, Held(p, c)) PROVE LedgerOK'
    <2>1. ledger' = ledger
      <3>1. [r EXCEPT !.claim = r.claim] = r
        BY <1>f DEF LedgerRow
      <3>2. ledger' = [ledger EXCEPT ![c] = [r EXCEPT !.claim = r.claim]]
        BY <1>3 DEF Release
      <3> QED
        BY <1>t, <3>1, <3>2
    <2> QED
      BY <1>1, <1>3, <2>1 DEF Release, quotaVars
  <1>4. ASSUME Renew(p, c), Holds(c, Held(p, c)) PROVE LedgerOK'
    <2> DEFINE until == f.at + ClaimTicks
               g == [f EXCEPT !.stage = "fetching", !.held = until]
               s == [r EXCEPT !.claim = until]
    <2>1. f.stage = "renewing" /\ Claiming(f) /\ r.claim = f.held
      BY <1>4 DEF Renew, Stage, Claiming, Holds, Held
    <2>2. f.at \in Nat /\ f.at <= now /\ until \in Nat
      BY <1>f, <2>1, TicksAssumption DEF CellFlight, FlightDated
    <2>3. Due(r, f.at)
      BY <1>f, <2>1 DEF HoldsDue
    <2>4. ledger' = [ledger EXCEPT ![c] = s] /\ Move(p, c, g) /\ now' = now
      BY <1>4 DEF Renew, quotaVars, At
    <2>5. g \in CellFlight /\ g.at = f.at /\ g.held = until /\ g.stage = "fetching"
      BY <1>f, <2>2 DEF CellFlight
    <2>6. /\ s \in LedgerRow /\ RowDated(s) /\ s.claim = until
          /\ \A u \in Nat : Due(r, u) <=> Due(s, u)
      <3>1. r \in LedgerRow /\ RowDated(r) /\ until \in Nat /\ s = [r EXCEPT !.claim = until]
        BY <1>f, <2>2
      <3> HIDE DEF s, r, until
      <3> QED
        BY <3>1, ClaimedRow
    <2> HIDE DEF g, s
    <2>7. CellOK(s, [FlightsOf(c) EXCEPT ![p] = g], now)
      BY <2>1, <2>2, <2>3, <2>5, <2>6, AtHand, TakeClaim
    <2> QED
      BY <2>4, <2>5, <2>7, CellMoves
  <1>5. ASSUME Renew(p, c), ~Holds(c, Held(p, c)) PROVE LedgerOK'
    BY <1>1, <1>5 DEF Renew, quotaVars
  <1> QED
    BY <1>2, <1>3, <1>4, <1>5

\* The answer comes, heard of or not, or the failure is marked.
LEMMA WriteLedger ==
  ASSUME LedgerOK, NEW p \in Procs, NEW c \in Cells
  PROVE  Answer(p, c) \/ AnswerUnheard(p, c) \/ MarkFailed(p, c) => LedgerOK'
  <1> DEFINE f == flight[p][c]
             r == ledger[c]
             g == [f EXCEPT !.stage = "failing"]
  <1>f. /\ f \in CellFlight /\ FlightDated(f, now) /\ now \in Nat /\ r \in LedgerRow /\ RowDated(r)
        /\ HoldsDue(r, f) /\ f.at \in Nat
    BY AtHand DEF CellFlight
  <1>t. ledger \in [Cells -> LedgerRow]
    BY DEF LedgerOK
  <1>n. NoFlight \in CellFlight /\ ~Claiming(NoFlight) /\ FlightDated(NoFlight, now)
    BY NoFlightOK
  <1>g. /\ g \in CellFlight /\ g.at = f.at /\ g.held = f.held /\ g.stage = "failing"
        /\ f.stage = "fetching" => FlightDated(g, now)
    BY <1>f DEF CellFlight, FlightDated, Claiming
  <1>1. ASSUME f.stage \in {"fetching", "failing"}, Holds(c, Held(p, c))
        PROVE  /\ Claiming(f) /\ Due(r, f.at)
               /\ Answered(f.at) \in LedgerRow /\ RowDated(Answered(f.at)) /\ Answered(f.at).claim = 0
               /\ Failed(r, f.at) \in LedgerRow /\ RowDated(Failed(r, f.at))
               /\ Failed(r, f.at).claim = 0 /\ ~Due(Answered(f.at), f.at)
               /\ \A u \in Nat : ~Due(r, u) => ~Due(Answered(f.at), u) /\ ~Due(Failed(r, f.at), u)
    <2>1. Claiming(f) /\ Due(r, f.at)
      BY <1>1, <1>f DEF Claiming, HoldsDue, Holds, Held
    <2>2. Answered(f.at).claim = 0 /\ ~Due(Answered(f.at), f.at)
      BY <1>f, TicksAssumption DEF Answered, Due, Fresh
    <2>3. Failed(r, f.at).claim = 0
      BY <1>f DEF Failed, LedgerRow
    <2> HIDE DEF f, r
    <2> QED
      BY <1>f, <2>1, <2>2, <2>3, RowsDated, NotDueLasts
  <1>2. ASSUME Answer(p, c) \/ AnswerUnheard(p, c), Holds(c, Held(p, c)) PROVE LedgerOK'
    <2>1. /\ ledger' = [ledger EXCEPT ![c] = Answered(f.at)] /\ now' = now
          /\ Move(p, c, NoFlight) \/ Move(p, c, g)
      BY <1>2 DEF Answer, AnswerUnheard, Write, Answered, At, Stage, quotaVars
    <2>2. f.stage = "fetching"
      BY <1>2 DEF Answer, AnswerUnheard, Stage
    <2> HIDE DEF g
    <2>3. ASSUME NEW h \in {NoFlight, g}, Move(p, c, h) PROVE LedgerOK'
      <3>1. h \in CellFlight /\ FlightDated(h, now)
        BY <1>n, <1>g, <2>2
      <3>2. Claiming(h) => h.stage = "failing" /\ h.held = Held(p, c) /\ h.at = f.at
        BY <1>n, <1>g DEF Held
      <3> QED
        BY <1>1, <1>2, <2>1, <2>2, <2>3, <3>1, <3>2, GivesUp
    <2> QED
      BY <2>1, <2>3
  <1>3. ASSUME Answer(p, c) \/ AnswerUnheard(p, c), ~Holds(c, Held(p, c)) PROVE LedgerOK'
    <2>1. /\ ledger' = ledger /\ now' = now /\ f.stage = "fetching"
          /\ Move(p, c, NoFlight) \/ Move(p, c, g)
      BY <1>3 DEF Answer, AnswerUnheard, Write, Stage, quotaVars
    <2>2. Claiming(f) /\ f.stage # "failing" /\ f.at <= g.at
      BY <1>f, <1>g, <2>1 DEF Claiming
    <2> HIDE DEF g
    <2> QED
      BY <1>n, <1>g, <2>1, <2>2, FlightMoves
  <1>4. ASSUME MarkFailed(p, c) PROVE LedgerOK'
    <2>1. f.stage = "failing" /\ Move(p, c, NoFlight) /\ now' = now
      BY <1>4 DEF MarkFailed, Stage, quotaVars
    <2>2. CASE Holds(c, Held(p, c))
      <3>1. ledger' = [ledger EXCEPT ![c] = Failed(r, f.at)]
        BY <1>4, <1>t, <2>2 DEF MarkFailed, Failed, At
      <3> QED
        BY <1>1, <1>n, <2>1, <2>2, <3>1, GivesUp
    <2>3. CASE ~Holds(c, Held(p, c))
      <3>1. ledger' = ledger
        BY <1>4, <1>t, <2>3 DEF MarkFailed
      <3> QED
        BY <1>n, <2>1, <3>1, FlightMoves
    <2> QED
      BY <2>2, <2>3
  <1> QED
    BY <1>2, <1>3, <1>4

\* A process dies with its flights.
LEMMA CrashLedger ==
  ASSUME LedgerOK, NEW p \in Procs, Crash(p)
  PROVE  LedgerOK'
  <1>1. /\ flight' = [flight EXCEPT ![p] = [c \in Cells |-> NoFlight]]
        /\ ledger' = ledger /\ now' = now
    BY DEF Crash, quotaVars, LetGo
  <1>2. flight \in [Procs -> [Cells -> CellFlight]]
    BY DEF LedgerOK
  <1>3. ASSUME NEW c \in Cells PROVE CellOK(ledger[c], FlightsOf(c)', now)
    <2>1. FlightsOf(c)' = [FlightsOf(c) EXCEPT ![p] = NoFlight]
      BY <1>1, <1>2 DEF FlightsOf
    <2>2. CellOK(ledger[c], FlightsOf(c), now) /\ now \in Nat
      BY AtHand
    <2>3. NoFlight \in CellFlight /\ ~Claiming(NoFlight) /\ FlightDated(NoFlight, now)
      BY NoFlightOK
    <2>4. CellOK(ledger[c], [FlightsOf(c) EXCEPT ![p] = NoFlight], now)
      BY <2>2, <2>3, GoOn
    <2> QED
      BY <2>1, <2>4
  <1>4. flight' \in [Procs -> [Cells -> CellFlight]]
    BY <1>1, <1>2, NoFlightOK
  <1> QED
    BY <1>1, <1>3, <1>4 DEF LedgerOK

LEMMA TickLedger ==
  ASSUME LedgerOK, Tick
  PROVE  LedgerOK'
  <1>1. now' = now + 1 /\ ledger' = ledger /\ flight' = flight
    BY DEF Tick, QuotaTick
  <1>2. \A c \in Cells : CellOK(ledger[c], FlightsOf(c), now + 1)
    BY TimePasses DEF LedgerOK
  <1>3. \A c \in Cells : FlightsOf(c)' = FlightsOf(c)
    BY <1>1 DEF FlightsOf
  <1> QED
    BY <1>1, <1>2, <1>3 DEF LedgerOK

LEMMA StepLedger == LedgerOK /\ [Next]_vars => LedgerOK'
  <1> SUFFICES ASSUME LedgerOK, [Next]_vars PROVE LedgerOK'
    OBVIOUS
  <1>1. CASE UNCHANGED vars
    <2>1. \A c \in Cells : FlightsOf(c)' = FlightsOf(c)
      BY <1>1 DEF vars, FlightsOf
    <2> QED
      BY <1>1, <2>1 DEF vars, LedgerOK
  <1>2. CASE Next
    BY <1>2, AskLedger, WaitLedger, ClaimLedger, WriteLedger, CrashLedger, TickLedger DEF Next
  <1> QED
    BY <1>1, <1>2

LEMMA AlwaysLedger == Spec => []LedgerOK
  BY InitLedger, StepLedger, PTL DEF Spec

\* While a fetcher's claim runs nobody else fetches its cell upstream, however claims
\* lapse, are given back and are made anew for instants read before.
THEOREM OneFetches == Spec => []OneFetcher
  <1>1. LedgerOK => OneFetcher
    <2> SUFFICES ASSUME LedgerOK, NEW p \in Procs, NEW q \in Procs, NEW c \in Cells, p # q,
                        Stage(p, c) = "fetching", Stage(q, c) = "fetching", Held(p, c) > now
                 PROVE  Held(q, c) <= now /\ Held(q, c) < Held(p, c)
      BY DEF OneFetcher
    <2> DEFINE f == FlightsOf(c)
    <2>1. /\ CellOK(ledger[c], f, now) /\ now \in Nat /\ f[p] = flight[p][c] /\ f[q] = flight[q][c]
          /\ f[p].held \in Nat /\ f[q].held \in Nat
      BY AtHand DEF CellFlight
    <2>2. Claiming(f[p]) /\ Claiming(f[q]) /\ f[p].stage = "fetching" /\ f[q].stage = "fetching"
      BY <2>1 DEF Stage, Claiming
    <2>3. ~(f[q].held > now)
      BY <2>1, <2>2 DEF Held, CellOK, EndsDiffer, ClaimRuns
    <2> QED
      BY <2>1, <2>3 DEF Held
  <1> QED
    BY <1>1, AlwaysLedger, PTL

\* A write to the ledger is of the cells its flight holds, and what it takes away was due.
LEMMA HeldIsDue ==
  ASSUME LedgerOK, NEW p \in Procs, NEW c \in Cells, Claiming(flight[p][c]), Holds(c, Held(p, c))
  PROVE  /\ Due(ledger[c], At(p, c)) /\ ledger[c].fetchedAt <= At(p, c)
         /\ ~Fresh(ledger[c], now)
  <1>1. /\ ledger[c] \in LedgerRow /\ RowDated(ledger[c]) /\ At(p, c) \in Nat /\ now \in Nat
        /\ At(p, c) <= now /\ HoldsDue(ledger[c], flight[p][c])
    BY AtHand DEF At, FlightDated, Claiming, CellFlight
  <1>2. Due(ledger[c], At(p, c))
    BY <1>1 DEF HoldsDue, Holds, Held, At
  <1>3. Due(ledger[c], now)
    BY <1>1, <1>2, DueLasts
  <1> QED
    BY <1>1, <1>2, <1>3, DueAfterAnswer DEF Due

\* What a step makes of the ledger: the row of one cell, unless time passes.
LEMMA RowsWritten ==
  ASSUME LedgerOK, [Next]_vars, NEW c \in Cells, ledger'[c] # ledger[c]
  PROVE  \/ /\ ledger'[c].fetchedAt = ledger[c].fetchedAt
            /\ Fresh(ledger[c], now) => Fresh(ledger'[c], now)
         \/ \E p \in Procs :
              /\ Claiming(flight[p][c]) /\ Holds(c, Held(p, c))
              /\ ledger'[c].fetchedAt \in {At(p, c), ledger[c].fetchedAt}
  <1>t. ledger \in [Cells -> LedgerRow]
    BY DEF LedgerOK
  <1>1. ASSUME NEW p \in Procs, NEW d \in Cells,
               Claim(p, d) \/ Release(p, d) \/ Renew(p, d)
        PROVE  /\ ledger'[c].fetchedAt = ledger[c].fetchedAt
               /\ Fresh(ledger[c], now) => Fresh(ledger'[c], now)
    <2>1. CASE Claim(p, d)
      <3>1. \/ ledger' = ledger
            \/ \E h : ledger' = [ledger EXCEPT ![d] =
                 [ledger[d] EXCEPT !.claim = h,
                                   !.status = IF ledger[d].status = "none" THEN "pending"
                                              ELSE ledger[d].status]]
        BY <2>1 DEF Claim
      <3>2. PICK h : ledger' = [ledger EXCEPT ![d] =
                       [ledger[d] EXCEPT !.claim = h,
                                         !.status = IF ledger[d].status = "none" THEN "pending"
                                                    ELSE ledger[d].status]]
        BY <3>1
      <3> DEFINE status == IF ledger[c].status = "none" THEN "pending" ELSE ledger[c].status
      <3>3. c = d /\ ledger'[c] = [ledger[c] EXCEPT !.claim = h, !.status = status]
        BY <1>t, <3>2
      <3>4. /\ ledger'[c].fetchedAt = ledger[c].fetchedAt
            /\ ledger'[c].expiresAt = ledger[c].expiresAt /\ ledger'[c].status = status
        BY <1>t, <3>3 DEF LedgerRow
      <3> QED
        BY <3>4 DEF Fresh
    <2>2. CASE Release(p, d) \/ Renew(p, d)
      <3>1. \/ ledger' = ledger
            \/ \E h : ledger' = [ledger EXCEPT ![d] = [ledger[d] EXCEPT !.claim = h]]
        BY <2>2 DEF Release, Renew
      <3>2. PICK h : ledger' = [ledger EXCEPT ![d] = [ledger[d] EXCEPT !.claim = h]]
        BY <3>1
      <3>3. c = d /\ ledger'[c] = [ledger[c] EXCEPT !.claim = h]
        BY <1>t, <3>2
      <3> QED
        BY <1>t, <3>3 DEF Fresh, LedgerRow
    <2> QED
      BY <1>1, <2>1, <2>2
  <1>2. ASSUME NEW p \in Procs, NEW d \in Cells,
               Answer(p, d) \/ AnswerUnheard(p, d) \/ MarkFailed(p, d)
        PROVE  /\ Claiming(flight[p][c]) /\ Holds(c, Held(p, c))
               /\ ledger'[c].fetchedAt \in {At(p, c), ledger[c].fetchedAt}
    <2>1. Claiming(flight[p][d])
      BY <1>2 DEF Answer, AnswerUnheard, MarkFailed, Stage, Claiming
    <2>2. CASE Answer(p, d) \/ AnswerUnheard(p, d)
      <3>1. Holds(d, Held(p, d)) /\ ledger' = [ledger EXCEPT ![d] = Answered(At(p, d))]
        BY <2>2, <1>2 DEF Answer, AnswerUnheard, Write, Answered
      <3>2. c = d
        BY <1>t, <3>1
      <3> QED
        BY <1>t, <2>1, <3>1, <3>2 DEF Answered
    <2>3. CASE MarkFailed(p, d)
      <3>1. ledger' = [ledger EXCEPT ![d] = IF Holds(d, Held(p, d)) THEN Failed(ledger[d], At(p, d))
                                            ELSE ledger[d]]
        BY <2>3 DEF MarkFailed, Failed
      <3>2. c = d /\ Holds(d, Held(p, d)) /\ ledger'[c] = Failed(ledger[c], At(p, c))
        BY <1>t, <3>1
      <3>3. ledger'[c].fetchedAt = ledger[c].fetchedAt
        BY <1>t, <3>2 DEF Failed, LedgerRow
      <3> QED
        BY <2>1, <3>2, <3>3
    <2> QED
      BY <1>2, <2>2, <2>3
  <1>3. ASSUME NEW p \in Procs, NEW d \in Cells,
               Ask(p, d) \/ TakeTokens(p, d) \/ TakeSlot(p, d) \/ FetchFails(p, d)
        PROVE  FALSE
    BY <1>3 DEF Ask, TakeTokens, TakeSlot, FetchFails
  <1>4. ASSUME (\E p \in Procs : Crash(p)) \/ Tick \/ UNCHANGED vars PROVE FALSE
    BY <1>4 DEF Crash, Tick, vars
  <1> QED
    BY <1>1, <1>2, <1>3, <1>4 DEF Next

\* A fetch that outlived its claim never overwrites a later one's answer.
THEOREM AnswersGrow == Spec => AnswerNeverOlder
  <1>1. ASSUME LedgerOK, [Next]_vars, NEW c \in Cells
        PROVE  ledger'[c].fetchedAt >= ledger[c].fetchedAt
    <2>1. ledger[c].fetchedAt \in Nat
      BY <1>1 DEF LedgerOK, LedgerRow
    <2>2. CASE ledger'[c] = ledger[c]
      BY <2>1, <2>2
    <2>3. CASE ledger'[c] # ledger[c]
      <3>1. \A p \in Procs : At(p, c) \in Nat
        BY <1>1, AtHand DEF At, CellFlight
      <3> QED
        BY <1>1, <2>1, <2>3, <3>1, RowsWritten, HeldIsDue
    <2> QED
      BY <2>2, <2>3
  <1>2. LedgerOK /\ [Next]_vars => [\A c \in Cells : ledger'[c].fetchedAt >= ledger[c].fetchedAt]_ledger
    BY <1>1
  <1> QED
    BY <1>2, AlwaysLedger, PTL DEF Spec, AnswerNeverOlder

\* A failure noted by a fetch that outlived its claim takes no fresh answer away.
THEOREM FreshStays == Spec => FreshLasts
  <1>1. ASSUME LedgerOK, [Next]_vars, NEW c \in Cells, Fresh(ledger[c], now)
        PROVE  Fresh(ledger'[c], now)
    <2>1. CASE ledger'[c] = ledger[c]
      BY <1>1, <2>1 DEF Fresh
    <2>2. CASE ledger'[c] # ledger[c]
      BY <1>1, <2>2, RowsWritten, HeldIsDue
    <2> QED
      BY <2>1, <2>2
  <1>2. LedgerOK /\ [Next]_vars
          => [\A c \in Cells : Fresh(ledger[c], now) => Fresh(ledger'[c], now)]_ledger
    BY <1>1
  <1> QED
    BY <1>2, AlwaysLedger, PTL DEF Spec, FreshLasts

\* An upstream fetch begins only for a cell that is due, however long its flight waited.
THEOREM StartsWhenDue == Spec => StartsDue
  <1>1. ASSUME LedgerOK, [Next]_vars, NEW p \in Procs, NEW c \in Cells,
               Stage(p, c) = "renewing", flight'[p][c].stage = "fetching"
        PROVE  Due(ledger[c], At(p, c))
    <2>t. /\ flight \in [Procs -> [Cells -> CellFlight]]
          /\ flight[p][c] \in CellFlight /\ flight[p][c].stage = "renewing"
          /\ NoFlight.stage = "none"
      BY <1>1, AtHand DEF LedgerOK, Stage, NoFlight
    <2>1. ASSUME NEW q \in Procs, NEW d \in Cells, NEW g, Move(q, d, g)
          PROVE  (q = p /\ d = c) \/ flight'[p][c] = flight[p][c]
      BY <2>1, <2>t DEF Move
    <2>2. ASSUME NEW q \in Procs, NEW d \in Cells,
                 \/ Ask(q, d) \/ Claim(q, d) \/ TakeTokens(q, d) \/ Release(q, d)
                 \/ TakeSlot(q, d) \/ Answer(q, d) \/ AnswerUnheard(q, d) \/ FetchFails(q, d)
                 \/ MarkFailed(q, d)
          PROVE  FALSE
      <3>1. PICK g : Move(q, d, g)
        BY <2>2 DEF Ask, Claim, TakeTokens, Release, TakeSlot, Answer, AnswerUnheard,
                    FetchFails, MarkFailed
      <3>2. Stage(q, d) # "renewing"
        BY <2>2 DEF Ask, Claim, TakeTokens, Release, TakeSlot, Answer, AnswerUnheard,
                    FetchFails, MarkFailed
      <3> QED
        BY <1>1, <2>1, <2>t, <3>1, <3>2 DEF Stage
    <2>3. ASSUME NEW q \in Procs, NEW d \in Cells, Renew(q, d) PROVE Due(ledger[c], At(p, c))
      <3>1. PICK g : Move(q, d, g)
        BY <2>3 DEF Renew
      <3>2. q = p /\ d = c
        BY <1>1, <2>1, <2>t, <3>1
      <3>3. Holds(c, Held(p, c))
        <4>1. CASE ~Holds(c, Held(p, c))
          <5>1. Move(p, c, NoFlight)
            BY <2>3, <3>2, <4>1 DEF Renew
          <5>2. flight'[p][c].stage = "none"
            BY <2>t, <5>1 DEF Move
          <5> QED
            BY <1>1, <5>2
        <4> QED
          BY <4>1
      <3> QED
        BY <1>1, <2>t, <3>3, HeldIsDue DEF Claiming
    <2>4. ASSUME NEW q \in Procs, Crash(q) PROVE FALSE
      <3>1. flight'[p][c] \in {NoFlight, flight[p][c]}
        BY <2>4, <2>t DEF Crash
      <3> QED
        BY <1>1, <2>t, <3>1
    <2>5. ASSUME Tick \/ UNCHANGED vars PROVE FALSE
      BY <1>1, <2>5, <2>t DEF Tick, vars
    <2> QED
      BY <1>1, <2>2, <2>3, <2>4, <2>5 DEF Next
  <1>2. LedgerOK /\ [Next]_vars
          => [\A p \in Procs, c \in Cells :
                Stage(p, c) = "renewing" /\ flight'[p][c].stage = "fetching"
                  => Due(ledger[c], At(p, c))]_vars
    BY <1>1
  <1> QED
    BY <1>2, AlwaysLedger, PTL DEF Spec, StartsDue

-----------------------------------------------------------------------------
(* Type correctness.                                                       *)

LEMMA DivTimes ==
  ASSUME NEW d \in Nat \ {0}, NEW t \in Nat
  PROVE  t \div d \in Nat /\ d * (t \div d) <= t /\ t < d * (t \div d) + d
  <1>1. t = d * (t \div d) + (t % d) /\ t % d \in 0 .. d - 1
    OBVIOUS
  <1>2. t \div d \in Nat
    OBVIOUS
  <1> QED BY <1>1, <1>2

\* Every instant is of a day up to the clock's last.
LEMMA DayTyped == ASSUME NEW t \in 0 .. MaxTime PROVE DayOf(t) \in Days
  <1> USE QuotaAssumption, BoundAssumption
  <1> DEFINE a == t \div DayTicks
             b == MaxTime \div DayTicks
  <1>1. a \in Nat /\ b \in Nat /\ DayTicks * a <= t /\ MaxTime < DayTicks * b + DayTicks
    BY DivTimes
  <1>2. DayTicks * a < DayTicks * (b + 1)
    BY <1>1
  <1> HIDE DEF a, b
  <1>3. a < b + 1
    BY <1>1, <1>2
  <1>4. a \in 0 .. b
    BY <1>1, <1>3
  <1> QED BY <1>4 DEF a, b, Days, DayOf

LEMMA TakeTyped ==
  ASSUME QuotaTypeOK, NEW p \in Procs, Take(p)
  PROVE  QuotaTypeOK'
  <1> USE QuotaAssumption, BoundAssumption
  <1> DEFINE t == asked[p]
  <1>1. /\ t \in 0 .. MaxTime /\ asked' = [asked EXCEPT ![p] = Nothing] /\ now' = now
        /\ asked' \in [Procs -> 0 .. MaxTime \cup {Nothing}]
    BY DEF Take, QuotaTypeOK
  <1>2. CASE ~Granted(quota, t)
    <2>1. UNCHANGED <<quota, spent>>
      BY <1>2 DEF Take
    <2> QED BY <1>1, <2>1 DEF QuotaTypeOK
  <1>3. CASE Granted(quota, t)
    <2>1. quota' = After(quota, t) /\ spent' = spent + Cost
      BY <1>3 DEF Take
    <2>2. /\ quota.tokens \in 0 .. Burst /\ quota.refilledAt \in 0 .. MaxTime
          /\ quota.count \in 0 .. PerDay /\ DayOf(t) \in Days
      BY <1>1, DayTyped DEF QuotaTypeOK
    <2>3. Cost <= Burst /\ Cost <= PerDay
      BY <1>3 DEF Granted
    <2>4. AtLeast(0, t - quota.refilledAt) \in Nat /\ AtLeast(quota.refilledAt, t) \in 0 .. MaxTime
      BY <1>1, <2>2 DEF AtLeast
    <2>5. AtLeast(0, t - quota.refilledAt) * PerTick \in Nat
      BY <2>4
    <2>6. Refilled(quota, t) \in 0 .. Burst
      BY <2>2, <2>5 DEF Refilled, AtMost
    <2>7. Counted(quota, t) \in 0 .. PerDay
      BY <2>2 DEF Counted
    <2>8. quota.held => Refilled(quota, t) - Cost \in 0 .. Burst
                        /\ Counted(quota, t) + Cost \in 0 .. PerDay
      BY <1>3, <2>6, <2>7 DEF Granted
    <2>9. After(quota, t) \in [held : BOOLEAN, tokens : 0 .. Burst, refilledAt : 0 .. MaxTime,
                               day : Days, count : 0 .. PerDay]
      BY <1>1, <2>2, <2>3, <2>4, <2>8 DEF After
    <2> QED BY <1>1, <2>1, <2>9 DEF QuotaTypeOK
  <1> QED BY <1>2, <1>3

LEMMA QuotaTyped == QuotaSpec => []QuotaTypeOK
  <1> USE QuotaAssumption, BoundAssumption
  <1>1. QuotaInit => QuotaTypeOK
    <2>1. 0 \in Days
      <3>1. 0 \in 0 .. MaxTime /\ 0 \div DayTicks = 0
        OBVIOUS
      <3> QED BY <3>1, DayTyped DEF DayOf
    <2> QED BY <2>1 DEF QuotaInit, QuotaTypeOK
  <1>2. QuotaTypeOK /\ [QuotaNext]_quotaVars => QuotaTypeOK'
    <2> SUFFICES ASSUME QuotaTypeOK, [QuotaNext]_quotaVars PROVE QuotaTypeOK'
      OBVIOUS
    <2>1. ASSUME NEW p \in Procs, AskTokens(p) \/ LetGo(p) PROVE QuotaTypeOK'
      BY <2>1 DEF AskTokens, LetGo, QuotaTypeOK
    <2>2. CASE QuotaTick
      BY <2>2 DEF QuotaTick, QuotaTypeOK
    <2>3. CASE UNCHANGED quotaVars
      BY <2>3 DEF quotaVars, QuotaTypeOK
    <2> QED BY <2>1, <2>2, <2>3, TakeTyped DEF QuotaNext
  <1> QED BY <1>1, <1>2, PTL DEF QuotaSpec

\* A flight moves to one of its type.
LEMMA MoveTyped ==
  ASSUME flight \in [Procs -> [Cells -> Flight]], NEW p \in Procs, NEW c \in Cells,
         NEW g \in Flight, Move(p, c, g)
  PROVE  flight' \in [Procs -> [Cells -> Flight]]
  BY DEF Move

Typed == ledger \in [Cells -> Row] /\ flight \in [Procs -> [Cells -> Flight]]

LEMMA StageTyped ==
  ASSUME NEW g \in Flight,
         NEW x \in {"none", "asked", "claimed", "limited", "waiting", "renewing",
                    "fetching", "failing"}
  PROVE  [g EXCEPT !.stage = x] \in Flight
  BY DEF Flight

LEMMA StartTyped ==
  ASSUME NEW g \in Flight, NEW t \in 0 .. MaxTime
  PROVE  [g EXCEPT !.stage = "renewing", !.at = t] \in Flight
  BY DEF Flight

LEMMA RowTyped ==
  ASSUME NEW r \in Row, NEW t \in 0 .. MaxTime
  PROVE  /\ [r EXCEPT !.claim = 0] \in Row
         /\ [r EXCEPT !.status = "failed", !.retryAt = t + BackoffTicks, !.claim = 0] \in Row
  <1> USE TicksAssumption, BoundAssumption
  <1>1. 0 \in 0 .. MaxTime + ClaimTicks /\ t + BackoffTicks \in 0 .. MaxTime + BackoffTicks
    OBVIOUS
  <1> QED BY <1>1 DEF Row

LEMMA TypedStep ==
  ASSUME Typed, now \in 1 .. MaxTime, Next
  PROVE  Typed'
  <1> USE TicksAssumption, BoundAssumption DEF Typed
  <1>0. NoFlight \in Flight
    BY DEF NoFlight, Flight
  <1>1. ASSUME NEW p \in Procs, NEW c \in Cells, Ask(p, c) PROVE Typed'
    <2>1. [stage |-> "asked", at |-> now, held |-> 0] \in Flight
      BY DEF Flight
    <2> QED BY <1>1, <2>1, MoveTyped DEF Ask
  <1>2. ASSUME NEW p \in Procs, NEW c \in Cells, Claim(p, c) PROVE Typed'
    <2> DEFINE t == At(p, c)
    <2>1. t \in 0 .. MaxTime
      BY DEF At, Flight
    <2>2. [stage |-> "claimed", at |-> t, held |-> t + ClaimTicks] \in Flight
      BY <2>1 DEF Flight
    <2>3. ledger' \in [Cells -> Row]
      BY <1>2, <2>1 DEF Claim, Row
    <2>4. \/ Move(p, c, NoFlight)
          \/ Move(p, c, [stage |-> "claimed", at |-> t, held |-> t + ClaimTicks])
      BY <1>2 DEF Claim
    <2> HIDE DEF t
    <2> QED BY <1>0, <2>2, <2>3, <2>4, MoveTyped
  <1>3. ASSUME NEW p \in Procs, NEW c \in Cells,
               TakeTokens(p, c) \/ TakeSlot(p, c) \/ FetchFails(p, c)
        PROVE  Typed'
    <2>1. flight[p][c] \in Flight /\ UNCHANGED ledger
      BY <1>3 DEF TakeTokens, TakeSlot, FetchFails
    <2>2. CASE TakeSlot(p, c)
      <3>1. now \in 0 .. MaxTime
        OBVIOUS
      <3>2. [flight[p][c] EXCEPT !.stage = "renewing", !.at = now] \in Flight
        BY <2>1, <3>1, StartTyped
      <3> QED BY <2>1, <2>2, <3>2, MoveTyped DEF TakeSlot
    <2>3. CASE TakeTokens(p, c) \/ FetchFails(p, c)
      <3>1. PICK x \in {"waiting", "limited", "failing"} :
              Move(p, c, [flight[p][c] EXCEPT !.stage = x])
        BY <2>3 DEF TakeTokens, FetchFails
      <3>2. [flight[p][c] EXCEPT !.stage = x] \in Flight
        BY <2>1, StageTyped
      <3> QED BY <2>1, <3>1, <3>2, MoveTyped
    <2> QED BY <1>3, <2>2, <2>3
  <1>4. ASSUME NEW p \in Procs, NEW c \in Cells, Release(p, c) \/ MarkFailed(p, c)
        PROVE  Typed'
    <2>1. Move(p, c, NoFlight)
      BY <1>4 DEF Release, MarkFailed
    <2>2. ledger[c] \in Row /\ At(p, c) \in 0 .. MaxTime
      BY DEF At, Flight
    <2>3. /\ [ledger[c] EXCEPT !.claim = 0] \in Row
          /\ [ledger[c] EXCEPT !.status = "failed", !.retryAt = At(p, c) + BackoffTicks,
                               !.claim = 0] \in Row
      BY <2>2, RowTyped
    <2>4. PICK r \in Row : ledger' = [ledger EXCEPT ![c] = r]
      <3>1. CASE Release(p, c)
        BY <3>1, <2>2, <2>3 DEF Release, Row
      <3>2. CASE MarkFailed(p, c)
        BY <3>2, <2>2, <2>3 DEF MarkFailed
      <3> QED BY <1>4, <3>1, <3>2
    <2> QED BY <1>0, <2>1, <2>4, MoveTyped
  <1>5. ASSUME NEW p \in Procs, NEW c \in Cells, Renew(p, c) PROVE Typed'
    <2> DEFINE until == At(p, c) + ClaimTicks
    <2>1. until \in 0 .. MaxTime + ClaimTicks /\ flight[p][c] \in Flight
      BY DEF At, Flight
    <2>2. ledger' \in [Cells -> Row]
      BY <1>5, <2>1 DEF Renew, Row
    <2>3. [flight[p][c] EXCEPT !.stage = "fetching", !.held = until] \in Flight
      BY <2>1 DEF Flight
    <2>4. \/ Move(p, c, NoFlight)
          \/ Move(p, c, [flight[p][c] EXCEPT !.stage = "fetching", !.held = until])
      BY <1>5 DEF Renew
    <2> HIDE DEF until
    <2> QED BY <1>0, <2>2, <2>3, <2>4, MoveTyped
  <1>6. ASSUME NEW p \in Procs, NEW c \in Cells, Answer(p, c) \/ AnswerUnheard(p, c)
        PROVE  Typed'
    <2>1. At(p, c) \in 0 .. MaxTime /\ flight[p][c] \in Flight /\ Write(p, c)
      BY <1>6 DEF At, Flight, Answer, AnswerUnheard
    <2>2. ledger' \in [Cells -> Row]
      BY <2>1 DEF Write, Row
    <2>3. PICK g \in Flight : Move(p, c, g)
      BY <1>0, <1>6, <2>1 DEF Answer, AnswerUnheard, Flight
    <2> QED BY <2>2, <2>3, MoveTyped
  <1>7. ASSUME NEW p \in Procs, Crash(p) PROVE Typed'
    BY <1>0, <1>7 DEF Crash
  <1>8. CASE Tick
    BY <1>8 DEF Tick
  <1> QED BY <1>1, <1>2, <1>3, <1>4, <1>5, <1>6, <1>7, <1>8 DEF Next

\* Type correctness.
THEOREM TypeCorrect == Spec => []TypeOK
  <1>1. Init => Typed
    <2>1. NoRow \in Row /\ NoFlight \in Flight
      BY TicksAssumption, BoundAssumption DEF NoRow, Row, NoFlight, Flight
    <2> QED BY <2>1 DEF Init, Typed
  <1>2. QuotaTypeOK /\ Typed /\ [Next]_vars => Typed'
    BY TypedStep DEF QuotaTypeOK, Typed, vars
  <1>3. QuotaTypeOK /\ Typed => TypeOK
    BY DEF Typed, TypeOK
  <1> QED BY <1>1, <1>2, <1>3, QuotaTyped, FlightsUseQuota, PTL DEF Spec
=============================================================================
