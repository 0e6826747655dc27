------------------------------ MODULE OnDemand ------------------------------
(***************************************************************************)
(* The cells of one on-demand source and the processes that bring them up  *)
(* to date (ledger.ts, fetch-cell.ts).  The ledger's row of a cell says    *)
(* until when somebody claims it; a flight claims a due cell, takes the    *)
(* source's tokens (module RequestQuota), waits for a slot, renews its     *)
(* claim, fetches upstream holding nothing, and writes the answer with the *)
(* ledger in one transaction.  A claim is told apart by its end, and may   *)
(* lapse at any of these steps.                                            *)
(***************************************************************************)
EXTENDS RequestQuota, FiniteSets

CONSTANTS
  Cells,         \* cells of the source
  Slots,         \* cells a process fetches at once
  ClaimTicks,    \* how long a claim lasts
  TtlTicks,      \* how long an answer is fresh
  BackoffTicks   \* how long a failed cell is left alone

ASSUME TicksAssumption ==
  /\ Slots \in Nat \ {0} /\ ClaimTicks \in Nat \ {0} /\ TtlTicks \in Nat \ {0}
  /\ BackoffTicks \in Nat \ {0}

VARIABLES
  ledger,        \* the row of each cell
  flight         \* the flight of each process and cell, or none

vars == <<now, quota, asked, spent, ledger, flight>>

\* Instants; 0 stands for none where an instant may be absent.
Row == [status : {"none", "pending", "fresh", "failed"}, fetchedAt : 0 .. MaxTime,
        expiresAt : 0 .. MaxTime + TtlTicks, retryAt : 0 .. MaxTime + BackoffTicks,
        claim : 0 .. MaxTime + ClaimTicks]
NoRow == [status |-> "none", fetchedAt |-> 0, expiresAt |-> 0, retryAt |-> 0, claim |-> 0]

Flight == [stage : {"none", "asked", "claimed", "limited", "waiting", "renewing",
                     "fetching", "failing"},
           at : 0 .. MaxTime, held : 0 .. MaxTime + ClaimTicks]
NoFlight == [stage |-> "none", at |-> 0, held |-> 0]

TypeOK ==
  /\ QuotaTypeOK
  /\ ledger \in [Cells -> Row]
  /\ flight \in [Procs -> [Cells -> Flight]]

Init ==
  /\ QuotaInit
  /\ ledger = [c \in Cells |-> NoRow]
  /\ flight = [p \in Procs |-> [c \in Cells |-> NoFlight]]

-----------------------------------------------------------------------------
(* The ledger.                                                             *)

Fresh(r, t) == r.status = "fresh" /\ r.expiresAt > t
BackingOff(r, t) == r.status = "failed" /\ r.retryAt > t
Due(r, t) == ~Fresh(r, t) /\ ~BackingOff(r, t)

\* Mutants of MayClaim: another's claim is not looked at, or the backoff is not.
MayClaimDue(r, t) == Due(r, t)
MayClaimFailed(r, t) == ~Fresh(r, t) /\ r.claim <= t

\* A cell may be claimed when it is due and nobody's claim on it runs.
MayClaim(r, t) == Due(r, t) /\ r.claim <= t

\* Whether the cell's claim is still the one that ends at held.
Holds(c, held) == ledger[c].claim = held

-----------------------------------------------------------------------------
(* A flight.                                                               *)

Stage(p, c) == flight[p][c].stage
Move(p, c, f) == flight' = [flight EXCEPT ![p][c] = f]
At(p, c) == flight[p][c].at
Held(p, c) == flight[p][c].held

\* A read that found the cell due asks for it; in one process it shares the
\* flight there is, and one flight at a time claims and takes tokens.  Both
\* go by the instant read here.
Ask(p, c) ==
  /\ Stage(p, c) = "none"
  /\ \A d \in Cells : Stage(p, d) \notin {"asked", "claimed", "limited"}
  /\ AskTokens(p)
  /\ Move(p, c, [stage |-> "asked", at |-> now, held |-> 0])
  /\ UNCHANGED ledger

\* The claim, in one statement.  A flight that loses it ends.
Claim(p, c) ==
  /\ Stage(p, c) = "asked"
  /\ LET t == At(p, c) IN
     IF MayClaim(ledger[c], t)
       THEN /\ ledger' = [ledger EXCEPT ![c].claim = t + ClaimTicks,
                                        ![c].status = IF @ = "none" THEN "pending" ELSE @]
            /\ Move(p, c, [stage |-> "claimed", at |-> t, held |-> t + ClaimTicks])
            /\ UNCHANGED quotaVars
       ELSE /\ LetGo(p)
            /\ Move(p, c, NoFlight)
            /\ UNCHANGED ledger

\* The take: the source's limits leave the cell's requests or they do not.
TakeTokens(p, c) ==
  /\ Stage(p, c) = "claimed"
  /\ Take(p)
  /\ Move(p, c, [flight[p][c] EXCEPT
                   !.stage = IF Granted(quota, asked[p]) THEN "waiting" ELSE "limited"])
  /\ UNCHANGED ledger

\* They do not: the claim is given back.
Release(p, c) ==
  /\ Stage(p, c) = "limited"
  /\ ledger' = [ledger EXCEPT ![c].claim = IF Holds(c, Held(p, c)) THEN 0 ELSE @]
  /\ Move(p, c, NoFlight)
  /\ UNCHANGED quotaVars

\* A slot is free: the claim is to start over from this instant.
TakeSlot(p, c) ==
  /\ Stage(p, c) = "waiting"
  /\ Cardinality({d \in Cells : Stage(p, d) \in {"renewing", "fetching", "failing"}}) < Slots
  /\ Move(p, c, [flight[p][c] EXCEPT !.stage = "renewing", !.at = now])
  /\ UNCHANGED <<quotaVars, ledger>>

\* The claim moves to its new end, unless another fetcher took the cell.
Renew(p, c) ==
  /\ Stage(p, c) = "renewing"
  /\ LET until == At(p, c) + ClaimTicks IN
     IF Holds(c, Held(p, c))
       THEN /\ ledger' = [ledger EXCEPT ![c].claim = until]
            /\ Move(p, c, [flight[p][c] EXCEPT !.stage = "fetching", !.held = until])
       ELSE Move(p, c, NoFlight) /\ UNCHANGED ledger
  /\ UNCHANGED quotaVars

\* Mutant of Write: the answer is written whoever holds the cell.
WriteAnyway(p, c) ==
  ledger' = [ledger EXCEPT ![c] =
    [status |-> "fresh", fetchedAt |-> At(p, c), expiresAt |-> At(p, c) + TtlTicks,
     retryAt |-> 0, claim |-> 0]]

\* The transaction: the answer and the ledger's row, or nothing when another
\* fetcher took the cell.
Write(p, c) ==
  IF Holds(c, Held(p, c))
    THEN ledger' = [ledger EXCEPT ![c] =
           [status |-> "fresh", fetchedAt |-> At(p, c), expiresAt |-> At(p, c) + TtlTicks,
            retryAt |-> 0, claim |-> 0]]
    ELSE UNCHANGED ledger

\* The answer came, and is written ...
Answer(p, c) ==
  /\ Stage(p, c) = "fetching"
  /\ Write(p, c)
  /\ Move(p, c, NoFlight)
  /\ UNCHANGED quotaVars

\* ... or it is written and the flight never learns so ...
AnswerUnheard(p, c) ==
  /\ Stage(p, c) = "fetching"
  /\ Write(p, c)
  /\ Move(p, c, [flight[p][c] EXCEPT !.stage = "failing"])
  /\ UNCHANGED quotaVars

\* ... or a request, the parse or the write fails.
FetchFails(p, c) ==
  /\ Stage(p, c) = "fetching"
  /\ Move(p, c, [flight[p][c] EXCEPT !.stage = "failing"])
  /\ UNCHANGED <<quotaVars, ledger>>

\* Mutant of MarkFailed: the failure is noted whoever holds the cell.
MarkFailedAnyway(p, c) ==
  /\ Stage(p, c) = "failing"
  /\ ledger' = [ledger EXCEPT ![c] =
       [@ EXCEPT !.status = "failed", !.retryAt = At(p, c) + BackoffTicks, !.claim = 0]]
  /\ Move(p, c, NoFlight)
  /\ UNCHANGED quotaVars

\* The failure is noted under the same claim; the last good answer stays.
MarkFailed(p, c) ==
  /\ Stage(p, c) = "failing"
  /\ ledger' = [ledger EXCEPT ![c] =
       IF Holds(c, Held(p, c))
         THEN [@ EXCEPT !.status = "failed", !.retryAt = At(p, c) + BackoffTicks, !.claim = 0]
         ELSE @]
  /\ Move(p, c, NoFlight)
  /\ UNCHANGED quotaVars

\* The process dies; the database keeps its claims.
Crash(p) ==
  /\ \E c \in Cells : Stage(p, c) # "none"
  /\ flight' = [flight EXCEPT ![p] = [c \in Cells |-> NoFlight]]
  /\ IF asked[p] = Nothing THEN UNCHANGED quotaVars ELSE LetGo(p)
  /\ UNCHANGED ledger

Tick ==
  /\ QuotaTick
  /\ UNCHANGED <<ledger, flight>>

-----------------------------------------------------------------------------
Next ==
  \/ \E p \in Procs, c \in Cells :
       \/ Ask(p, c) \/ Claim(p, c) \/ TakeTokens(p, c) \/ Release(p, c) \/ TakeSlot(p, c)
       \/ Renew(p, c) \/ Answer(p, c) \/ AnswerUnheard(p, c) \/ FetchFails(p, c)
       \/ MarkFailed(p, c)
  \/ \E p \in Procs : Crash(p)
  \/ Tick

Spec == Init /\ [][Next]_vars

-----------------------------------------------------------------------------
(* Properties.                                                             *)

\* While a fetcher's claim runs nobody else fetches its cell upstream, and
\* nobody else can have it written.
OneFetcher ==
  \A p, q \in Procs, c \in Cells :
    /\ p # q /\ Stage(p, c) = "fetching" /\ Stage(q, c) = "fetching"
    /\ Held(p, c) > now
    => Held(q, c) <= now /\ Held(q, c) < Held(p, c)

\* A fetch that outlived its claim never overwrites a later one's answer.
AnswerNeverOlder ==
  [][\A c \in Cells : ledger'[c].fetchedAt >= ledger[c].fetchedAt]_ledger

\* An upstream fetch begins only for a cell that is due at that instant: however
\* long the flight waited for its slot, no answer or failure came in between.
StartsDue ==
  [][\A p \in Procs, c \in Cells :
       Stage(p, c) = "renewing" /\ flight'[p][c].stage = "fetching" => Due(ledger[c], At(p, c))]_vars

\* A failure noted by a fetch that outlived its claim does not take a fresh
\* answer away.
FreshLasts ==
  [][\A c \in Cells : Fresh(ledger[c], now) => Fresh(ledger'[c], now)]_ledger
=============================================================================
