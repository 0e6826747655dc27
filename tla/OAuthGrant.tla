----------------------------- MODULE OAuthGrant -----------------------------
(***************************************************************************)
(* The OAuth2 grant that the feeds of one account share (oauth-grant.ts,    *)
(* oauth-grants.ts).  Callers ask for its access token; one that is due is *)
(* refreshed in a transaction that holds the grant's row, so that the      *)
(* refresh token, which the provider may rotate, is spent once.  An        *)
(* operator stores a grant by a login or by importing a refresh token.     *)
(*                                                                         *)
(* The provider's answers are numbered; an answer's number stands for the  *)
(* access token and the refresh token it came with, 0 for none.            *)
(***************************************************************************)
EXTENDS Naturals

CONSTANTS
  Callers,       \* requests for the grant that may be under way
  Processes,     \* the processes that make them
  ProcessOf,     \* the process of each caller
  Nobody,        \* no caller
  MaxIssued      \* bound: tokens issued

ASSUME CallersAssumption == ProcessOf \in [Callers -> Processes] /\ Nobody \notin Callers
ASSUME IssuedAssumption == MaxIssued \in Nat \ {0}

VARIABLES
  rotates,       \* the provider: whether a refresh replaces the refresh token
  issued,        \* the provider: answers given so far
  honoured,      \* the provider: the refresh tokens it takes
  aged,          \* the last answer whose access token is about to expire, as all before
  halfway,       \* the last answer whose refresh token is past half of its life
  grant,         \* the database: the stored grant
  holder,        \* the database: the caller whose transaction holds the row
  memo,          \* the access token each process keeps
  caller,        \* where each caller stands
  ended,         \* history: refresh tokens the provider ended by itself, or spent on
                 \* an answer that was never stored
  unheard        \* history: the answers never stored

provider == <<rotates, issued, honoured>>
ages == <<aged, halfway>>
history == <<ended, unheard>>
grantVars == <<provider, ages, grant, holder, memo, caller, history>>

Token == 1 .. MaxIssued
MaybeToken == 0 .. MaxIssued

\* The refresh token an operator obtained elsewhere.
Elsewhere == 1

Grant == [refresh : MaybeToken, access : MaybeToken, rejected : BOOLEAN]

\* A caller: its stage, what it does, the refresh token it presents (none of a
\* login's code), whether its connection to the database stands, what it was
\* answered, and the access token it was handed.
Caller == [stage : {"idle", "waiting", "asking", "granted", "refused", "failed"},
           does : {"refresh", "establish", "drop"},
           presents : MaybeToken, connected : BOOLEAN,
           refresh : MaybeToken, access : MaybeToken, token : MaybeToken]

AtRest(token) == [stage |-> "idle", does |-> "refresh", presents |-> 0, connected |-> TRUE,
                   refresh |-> 0, access |-> 0, token |-> token]

Waiting(does, presents, token) ==
  [AtRest(token) EXCEPT !.stage = "waiting", !.does = does, !.presents = presents]

GrantTypeOK ==
  /\ rotates \in BOOLEAN /\ issued \in MaybeToken
  /\ honoured \subseteq Token
  /\ aged \in MaybeToken /\ halfway \in MaybeToken
  /\ grant \in Grant
  /\ holder \in Callers \cup {Nobody}
  /\ memo \in [Processes -> MaybeToken]
  /\ caller \in [Callers -> Caller]
  /\ ended \subseteq Token /\ unheard \subseteq Token

\* No login is stored yet, and no access token came with the operator's refresh token.
GrantInit ==
  /\ rotates \in BOOLEAN /\ issued = Elsewhere
  /\ honoured = {Elsewhere}
  /\ aged = Elsewhere /\ halfway = 0
  /\ grant = [refresh |-> 0, access |-> 0, rejected |-> FALSE]
  /\ holder = Nobody
  /\ memo = [p \in Processes |-> 0]
  /\ caller = [c \in Callers |-> AtRest(0)]
  /\ ended = {} /\ unheard = {}

Stored == grant.refresh # 0

\* A stored grant is refreshed before its access token is used once that is about
\* to expire, or its refresh token is past half of its life.
MustRefresh ==
  /\ Stored /\ ~grant.rejected
  /\ grant.access <= aged \/ grant.refresh <= halfway

\* The access token a grant that need not be refreshed has.
Usable == IF Stored /\ ~grant.rejected THEN grant.access ELSE 0

-----------------------------------------------------------------------------
(* The callers.                                                            *)

\* A caller is handed a token, which its process keeps, or fails with none.
HandOut(c, token) ==
  /\ caller' = [caller EXCEPT ![c] = AtRest(token)]
  /\ memo' = IF token = 0 THEN memo ELSE [memo EXCEPT ![ProcessOf[c]] = token]

\* A request is handed the process's token, or the stored one, fails for want of
\* a login, or goes for the row.
Request(c) ==
  LET kept == memo[ProcessOf[c]] IN
    /\ caller[c].stage = "idle"
    /\ IF MustRefresh /\ kept <= aged
         THEN caller' = [caller EXCEPT ![c] = Waiting("refresh", 0, 0)] /\ UNCHANGED memo
         ELSE HandOut(c, IF kept > aged THEN kept ELSE Usable)
    /\ UNCHANGED <<provider, ages, grant, holder, history>>

\* A feed answers 401: the token is dropped, from memory at once and from the row
\* under its lock.
TokenRefused(c) ==
  LET p == ProcessOf[c] IN
    /\ caller[c].stage = "idle" /\ caller[c].token # 0
    /\ memo' = IF memo[p] = caller[c].token THEN [memo EXCEPT ![p] = 0] ELSE memo
    /\ caller' = [caller EXCEPT ![c] = Waiting("drop", 0, caller[c].token)]
    /\ UNCHANGED <<provider, ages, grant, holder, history>>

\* The operator logs in, or imports a refresh token.
Establish(c, presents) ==
  /\ caller[c].stage = "idle"
  /\ presents \in {0, Elsewhere}
  /\ memo' = [memo EXCEPT ![ProcessOf[c]] = 0]
  /\ caller' = [caller EXCEPT ![c] = Waiting("establish", presents, 0)]
  /\ UNCHANGED <<provider, ages, grant, holder, history>>

\* Mutant of HeldBy: the row is read without its lock.
HeldByNobody(c) == Nobody

\* Who holds the row once c has selected it: a row not there yet is held by nobody.
HeldBy(c) == IF Stored THEN c ELSE Nobody

\* A refresh under the row's lock looks again: the login may be gone or refused, or
\* another caller refreshed it.
LockToRefresh(c) ==
  /\ caller[c].stage = "waiting" /\ caller[c].does = "refresh"
  /\ holder = Nobody
  /\ IF MustRefresh
       THEN /\ caller' = [caller EXCEPT ![c].stage = "asking", ![c].presents = grant.refresh]
            /\ holder' = HeldBy(c)
            /\ UNCHANGED memo
       ELSE HandOut(c, Usable) /\ UNCHANGED holder
  /\ UNCHANGED <<provider, ages, grant, history>>

\* An operator's command looks at nothing.
LockToEstablish(c) ==
  /\ caller[c].stage = "waiting" /\ caller[c].does = "establish"
  /\ holder = Nobody
  /\ caller' = [caller EXCEPT ![c].stage = "asking"]
  /\ holder' = HeldBy(c)
  /\ UNCHANGED <<provider, ages, grant, memo, history>>

\* A refused token still stored is dropped from the row.
LockToDrop(c) ==
  /\ caller[c].stage = "waiting" /\ caller[c].does = "drop"
  /\ holder = Nobody
  /\ grant' = IF grant.access = caller[c].token THEN [grant EXCEPT !.access = 0] ELSE grant
  /\ caller' = [caller EXCEPT ![c] = AtRest(0)]
  /\ UNCHANGED <<provider, ages, holder, memo, history>>

-----------------------------------------------------------------------------
(* The provider.                                                           *)

\* Some answers will never be stored, nor the tokens they replaced be of use.
Lost(answers) ==
  /\ unheard' = unheard \cup {a.access : a \in answers}
  /\ ended' = ended \cup {a.presents : a \in {b \in answers : b.presents \notin {0, b.refresh}}}

\* A caller is answered.  Without its connection it fails, whatever the answer.
Answered(c, stage, refresh, access) ==
  caller' = [caller EXCEPT ![c] =
               IF caller[c].connected
                 THEN [@ EXCEPT !.stage = stage, !.refresh = refresh, !.access = access]
                 ELSE AtRest(0)]

\* The provider takes a code or a refresh token it honours.  The answer may be
\* lost on the way.
ProviderGrants(c, heard) ==
  LET n == issued + 1
      rotated == rotates \/ caller[c].presents = 0
      refresh == IF rotated THEN n ELSE caller[c].presents
  IN /\ caller[c].stage = "asking"
     /\ caller[c].presents \in honoured \cup {0}
     /\ issued < MaxIssued
     /\ issued' = n
     /\ honoured' = (honoured \ {caller[c].presents}) \cup {refresh}
     /\ IF heard THEN Answered(c, "granted", refresh, n) ELSE Answered(c, "failed", 0, 0)
     /\ Lost(IF heard /\ caller[c].connected THEN {}
             ELSE {[caller[c] EXCEPT !.refresh = refresh, !.access = n]})
     /\ UNCHANGED <<rotates, ages, grant, holder, memo>>

\* It refuses a code or a refresh token it does not honour.
ProviderRefuses(c) ==
  /\ caller[c].stage = "asking" /\ caller[c].presents \notin honoured
  /\ Answered(c, "refused", 0, 0)
  /\ UNCHANGED <<provider, ages, grant, holder, memo, history>>

\* It cannot be asked, or answers with something else.
ProviderFails(c) ==
  /\ caller[c].stage = "asking"
  /\ Answered(c, "failed", 0, 0)
  /\ UNCHANGED <<provider, ages, grant, holder, memo, history>>

\* It ends a refresh token by itself.
ProviderEnds(r) ==
  /\ r \in honoured
  /\ honoured' = honoured \ {r}
  /\ ended' = ended \cup {r}
  /\ UNCHANGED <<rotates, issued, ages, grant, holder, memo, caller, unheard>>

\* Time passes: the next token comes near its end, or to half of its life.
Age ==
  /\ \/ aged < issued /\ aged' = aged + 1 /\ UNCHANGED halfway
     \/ halfway < issued /\ halfway' = halfway + 1 /\ UNCHANGED aged
  /\ UNCHANGED <<provider, grant, holder, memo, caller, history>>

-----------------------------------------------------------------------------
(* What a caller makes of the answer.                                      *)

Released(c) == IF holder = c THEN Nobody ELSE holder

\* The answer is stored and committed, and then handed out.  An operator's command
\* keeps no token; nor does a process that does not hear of the commit.
StoreGranted(c, heard) ==
  LET handed == IF heard /\ caller[c].does = "refresh" THEN caller[c].access ELSE 0
  IN /\ caller[c].stage = "granted"
     /\ holder \in {c, Nobody}
     /\ grant' = [refresh |-> caller[c].refresh, access |-> caller[c].access, rejected |-> FALSE]
     /\ HandOut(c, handed)
     /\ holder' = Released(c)
     /\ UNCHANGED <<provider, ages, history>>

\* A refused refresh is stored, so that nothing asks again before the next login.
\* A refused command and a failure leave the grant as it is.
StoreRefused(c) ==
  /\ caller[c].stage \in {"refused", "failed"}
  /\ grant' = IF caller[c].stage = "refused" /\ caller[c].does = "refresh"
                THEN [grant EXCEPT !.access = 0, !.rejected = TRUE] ELSE grant
  /\ caller' = [caller EXCEPT ![c] = AtRest(0)]
  /\ holder' = Released(c)
  /\ UNCHANGED <<provider, ages, memo, history>>

\* Mutant of LoseConnection: a commit that failed is taken for done.
LoseConnectionUnnoticed(c) ==
  /\ caller[c].stage = "granted"
  /\ HandOut(c, caller[c].access)
  /\ holder' = Released(c)
  /\ Lost({caller[c]})
  /\ UNCHANGED <<provider, ages, grant>>

\* The connection is lost with the transaction, and with it the row's lock.  A
\* caller that waits for the provider's answer fails once it comes.
LoseConnection(c) ==
  /\ caller[c].stage \notin {"idle", "waiting"} /\ caller[c].connected
  /\ caller' = [caller EXCEPT ![c] = IF @.stage = "asking" THEN [@ EXCEPT !.connected = FALSE]
                                                          ELSE AtRest(0)]
  /\ holder' = Released(c)
  /\ Lost({a \in {caller[c]} : a.stage = "granted"})
  /\ UNCHANGED <<provider, ages, grant, memo>>

\* A process dies; what it asked the provider is under way.
ProcessDies(p) ==
  LET Mine == {c \in Callers : ProcessOf[c] = p} IN
    /\ memo' = [memo EXCEPT ![p] = 0]
    /\ caller' = [c \in Callers |->
                    IF c \notin Mine THEN caller[c]
                    ELSE IF caller[c].stage = "asking" THEN [caller[c] EXCEPT !.connected = FALSE]
                    ELSE AtRest(0)]
    /\ holder' = IF holder \in Mine THEN Nobody ELSE holder
    /\ Lost({a \in {caller[c] : c \in Mine} : a.stage = "granted"})
    /\ UNCHANGED <<provider, ages, grant>>

-----------------------------------------------------------------------------
GrantNext ==
  \/ \E c \in Callers :
       \/ Request(c) \/ TokenRefused(c)
       \/ \E presents \in {0, Elsewhere} : Establish(c, presents)
       \/ LockToRefresh(c) \/ LockToEstablish(c) \/ LockToDrop(c)
       \/ ProviderRefuses(c) \/ ProviderFails(c)
       \/ \E heard \in BOOLEAN : ProviderGrants(c, heard) \/ StoreGranted(c, heard)
       \/ StoreRefused(c) \/ LoseConnection(c)
  \/ \E t \in Token : ProviderEnds(t)
  \/ Age
  \/ \E p \in Processes : ProcessDies(p)

GrantSpec == GrantInit /\ [][GrantNext]_grantVars

-----------------------------------------------------------------------------
(* Properties.                                                             *)

\* The refresh tokens spent on an answer that is about to be stored.
InHand == {caller[c].presents : c \in {d \in Callers : caller[d].stage = "granted"}}

\* The stored grant is true to the provider: its refresh token is one the provider
\* takes, and a grant marked refused is one it does not take, whichever callers of
\* which processes refresh it, drop its token and store another login meanwhile.
\* Only an answer that was never stored, or the provider itself, ends it
\* (oauth-grants.ts, locked).
GrantIsTrue ==
  Stored =>
    /\ grant.rejected => grant.refresh \notin honoured
    /\ grant.refresh \in honoured \cup ended \cup InHand

\* A refresh token is stored before the access token it came with is used: no
\* process keeps a token of an answer that was never stored, whatever it and its
\* connection die of (oauth-grant.ts, OAuthGrantStore).
StoredBeforeUsed ==
  \A p \in Processes : memo[p] \notin unheard
=============================================================================
