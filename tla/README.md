# OpenConditions: a verification project

TLA+ modules, TLC instances and TLAPS proofs for the parts of OpenConditions
whose correctness depends on order: of transactions, of deliveries, of failures
and of time. Paths are relative to the repository.

- [The system](#the-system): its components, their state and what is hard
- [Modules](#modules): what each models and how it corresponds to the code
- [Runs](#runs): what TLC checks, with which bounds and why they are enough
- [Fairness](#fairness)
- [Proofs](#proofs): what TLAPS proves, from which assumptions, by which invariant
- [Disagreements](#disagreements): where the code and its documents differ
- [Limits of the models](#limits-of-the-models) and [the plan](#plan)

## The system

OpenConditions instances poll published feeds (roads, charging, parking,
weather), turn each into records of one model, store them in PostgreSQL, serve
them, and federate them with other instances. Three services share one
database and talk through it only:

| Service | Does |
|---|---|
| `services/ingest` | polls feeds, fetches on-demand cells, writes records and readings, sweeps, binds records to the road graph |
| `services/contributions-api` | takes crowd reports and votes, merges reports of one phenomenon, lets reviewers decide, lands what peers push (`federation/inbox.ts`) |
| `services/federation` | serves the journal to peers, pulls from them, pushes to their webhooks and sockets, keeps the peer book |

The packages they share carry the logic: `packages/storage` (every write of a
record, the sweep, the federation reconcile), `packages/federation` (journal,
subscriptions, push, peers), `packages/core` (record semantics, evidence, and
the migrations whose triggers capture the journal), `packages/ingest-framework`
(feeds, egress, parsing, OAuth grants).

### Components, their state and their hazards

**Federation journal and pull** (`packages/federation/src/outbox.ts`,
`services/federation/src/puller.ts`, `0062_federation_capture.sql` and its
successors). State: the outbox table of rows with a transaction id, a sequence
number, a record and an operation; each peer's stored cursor. Operations: a
writing transaction captures its changes by trigger; an erasure removes the
record's earlier changes; a peer reads a page past its cursor, lands it and
stores the cursor. Hard: transactions commit out of the order of their sequence
numbers; two pulls overlap after a restart; a page fails half landed. Correct
when nothing the filter keeps is ever passed over, a record's rows keep their
order, and an erasure is final.

**Federation reconcile** (`packages/storage/src/federation-reconcile.ts`).
State: a source's restricted flag, the flag its journal reflects, a pending
mark. Operations: at boot the catalogue sets the flag and the reconcile
journals deletes or creates for the source's records, page by page. Hard: it
stops between pages, and polls, erasures and pruning go on beside it. Correct
when a settled source's subscribers hold exactly what its flag allows.

**Inbox and replica lifecycle** (`services/contributions-api/src/federation/inbox.ts`,
`packages/storage/src/write-record.ts`, `write-records.ts`,
`federation-lapse.ts`). State: a subscriber's copy of a record, its revision and
status, the tombstone of an erasure. Operations: land a change, a retraction or
an erasure; sweep; lapse with the peer's silence and return with its liveness.
Hard: a pull and a push deliver the same journal twice, in different orders,
with pages that time out and land late. Correct when an erasure stays, a copy's
revision never moves back and a caught-up copy equals the record.

**Webhook push** (`packages/federation/src/push.ts`, `subscriptions.ts`). State:
a row per subscription with its settings, cursor, failure count and status.
Operations: create, patch, delete, the delivery cycle. Hard: the row is read
before the POST and written after it, while patches, deletes and a second
process's cycle change it. Correct when the cursor moves only over what the row
in force was served, the push is disabled only when earned, and the push catches up.

**Live stream** (`services/federation/src/stream-pump.ts`). State per
connection: cursor, a tick in flight, paused, stopped, the socket's buffer.
Hard: timer and drain both start ticks, pages are cut by a full socket, the
connection closes during a read. Correct when entries go out once, in order,
without filling memory, and a reading peer is brought all of them.

**On-demand cells and request quota** (`services/ingest/src/on-demand/`).
State: a ledger row per cell (status, expiry, retry, claim) and a token bucket
per source; in each process the flights and the gates. Operations: claim, take
tokens, wait for a slot, renew, fetch, write, mark failed, release. Hard:
claims lapse at any step, processes crash, instants reach a row out of order.
Correct when one fetcher holds a cell, an older answer never overwrites a newer
one, a fetch starts only for a due cell and the quota is never overspent.

**Crowd reports, evidence and reviews** (`services/contributions-api/src/evidence/`,
`packages/core/src/evidence.ts`). State: each report's status and dispute flag,
its ledger of confirmations and external resolutions, the votes. Operations:
land, the hooks after it (dispute check, official match, corroboration by
merges), vote, accept, reject, resolve, sweep. Hard: the hooks read without the
crowd lock and merge under it, and may die between merges. Correct when reports
of one phenomenon end as one, no report vanishes without one that stands for
it, and its witnesses are exactly those who reported or confirmed.

**Backfill** (`services/federation/src/backfill.ts`, `archive-import.ts`,
`packages/federation/src/outbox-retention.ts`). State: the journal's retention,
the nightly archive, the archive a peer last landed. Operations: serve a page
within the tier's window, name an archive when the range reaches before it, land
the archive before the page, prune, build. Hard: a peer is away for any time
while the window moves on, entries are pruned and archives are replaced. Correct
when every live record the cursor passed is the one the peer holds.

**Feed polls** (`services/ingest/src/pipeline/run.ts`, `publish.ts`,
`packages/ingest-framework/src/fetch.ts`). State of one feed in memory: when each
data role was fetched, the answers held, the index of live states, the
validators; in the database: what is published and the last attempt. Operations:
fetch the roles that are due, hold, parse, publish all or only live states.
Hard: some roles fail while others answer, answers are held before the
publication that may fail, an answer "unchanged" stands for an earlier one.
Correct when no change is missed, validators stand for what was published, and
what an earlier poll published of a required role stays.

**OAuth grants of feeds** (`packages/ingest-framework/src/oauth-grant.ts`,
`services/ingest/src/oauth-grants.ts`). State: a row per account with its
tokens, and the access token each process keeps. Operations: a request, the refresh in a
transaction that holds the row, dropping a refused token, login and import.
Hard: the provider rotates the refresh token, and the answer, the connection or
the process is lost before the commit. Correct when the stored token is one the
provider takes, and no token is used before the refresh token it came with is
stored.

**Road graph and binding** (`services/ingest/src/pipeline/bind-records.ts`,
`graph-state.ts`, `rebind.ts`, `segment-rebuild.ts`, `scheduler.ts`). State: the
queue of situations to bind, each situation's binding, the graph's generation
and whether it is ready; in memory, the drain and whether it was asked for
again. Operations: a pass reads the graph, the situations and their bindings,
resolves, writes behind a fence and settles the queue; a rebuild retires the
bindings, changes the tables and activates the graph. Hard: passes run beside each
other, beside writes and beside a rebuild, and each reads in several statements.
Correct when what is served was resolved on the graph it is served with, work
stays queued until its binding answers, and a request for a drain leads to one.

**Not modelled** (each listed in `PROJECT.json` with its reason): the federation
process lock, readings and the latest cache, the raw archive, reputation
training, token issuer keys, registry discovery with its TUF rollback checks,
the peer book. [The plan](#plan) has the order.
**Left out for good**: parsers, exchange formats, record schemas, signatures and
documents (conversions and pure functions), HTTP reads of the database, batch
geometry (segments, fusion, OpenLR), operator tools. They are most of the
repository's lines, and nothing in them depends on order or failure.

### How the components interact

```
 feeds -> ingest -> [writing transaction] -> records + journal   (Outbox: LockSource, Capture, Commit)
 catalogue flag -> reconcile -> journal                          (Reconcile)
 journal -> pull page    -> land -> store cursor                 (Outbox: FetchPage ... StorePage)
 journal -> webhook push -> inbox of the peer                    (WebhookPush)
 journal -> socket                                               (StreamPump)
 pull + push -> inbox    -> copy                                 (Replica)
 reader -> cell ledger + quota -> feed -> records                (OnDemand over RequestQuota)
 report -> hooks -> merges, votes, reviewers                     (Evidence)
 journal + nightly archive -> peer that was away                 (Backfill)
 feed -> roles -> held answers -> records                        (FeedPoll)
 feed account -> grant -> fetches of a feed                      (OAuthGrant)
 written situation -> queue -> drain, rebuild -> binding         (RoadBinding)
```

## Modules

| Component modules | Proofs | Checked in |
|---|---|---|
| `Journal` (operators), `Feed` (abstract), `Outbox` (detailed, refines `Feed`) | `OutboxProofs` | `MCOutbox`; its liveness in `MCDelivery` |
| `Reconcile` | `ServicesProofs` | `MCServices` |
| `Replica` | `PullProofs` | `MCReplica` in `MCPull` |
| `Backfill` | `PullProofs` | `MCPull`; `MCBackfill` |
| `WebhookPush` | `PushProofs` | `MCPush` |
| `StreamPump` (also refines `Feed`) | `PumpProofs` | `MCDelivery` |
| `RequestQuota` <- `OnDemand` (extends it: the take of tokens inside a flight is the quota's own action) | `OnDemandProofs` | `MCIngest` |
| `RoadBinding` | `BindingProofs` | `MCIngest` |
| `Evidence` | `ServicesProofs` | `MCServices` |
| `FeedPoll` | `SourceProofs` | `MCFeedPoll` in `MCIngest` |
| `OAuthGrant` | `SourceProofs` | `MCServices` |

`MCPull`, `MCDelivery`, `MCIngest` and `MCServices` put instances of several
components side by side in one run. The components share no state, and the
variable `part`, chosen at the start, says which of them moves; the others rest
in an initial state of theirs. Such a run checks what a run of each would, with
one exploration. Where components do interact, the interaction is inside one
module (`OnDemand` over `RequestQuota`, two channels in `Replica`, drain, polls
and rebuild in `RoadBinding`).

`PROJECT.json` maps every definition to its lines. A definition commented
"Mutant of ..." is a plausible bug of the definition after it: no specification
uses it, and each property is shown to catch one.

**Journal** is the composite order (transaction id, then sequence number), the
rows a reader may be served behind the `xmin` fence, a page of them and when a
page is the end.

**Feed** is what the journal promises a reader: a mark that only moves forward,
everything up to it seen, nothing appearing behind it. Two readers implement it:
the pulls of a peer (`FeedSpec` of `Outbox`), whose mark is the stored cursor, and
a connection of the live stream (`PumpFeed` of `StreamPump`), whose mark is the
pump's place. A pull lands entries before it stores the cursor; the pump writes a
page and moves on in one step, which is why `Advance` may add to what is seen. What
is owed to a connection ends with it.

**Outbox**. `LockSource`/`FirstWrite` are the order in `write-records.ts` (the
source's lock before the write that gives a transaction its id); `Capture` is
the capture trigger, with an erasure's removal of earlier changes;
`Commit`/`Abort` make the rows visible. `FetchPage` is one request of
`pullPeer`, `LandEntry` the ingest of one entry, `StorePage` the conditional
update of the cursor, `YieldPull` a pull that ends between pages (it read
as many as it may, or a response is lost or refused), `FailPage` one that ends
within a page, with some of its entries landed. PostgreSQL is modelled by what the code
uses of it: ids grow, `pg_snapshot_xmin` is the least open id, rows appear at
commit.

**Reconcile**. `Boot` is `syncSources`; `List`, `ReconcilePage` and
`ReconcileFails` are `reconcileFederation` (`Retract` and `Publish` are its two
statements); `StoreLive`, `Withdraw`, `Erase` are polls with the capture
trigger; `Prune` is retention; `Stop` a crash. `peer` is what a subscriber that
read the whole journal holds.

**Replica**. One record. The publisher's changes (`Revise`, `End`, `Erase`,
`Restrict`, `Withdraw`, `Reopen`, `MoveLife`) journal entries; `Fetch`, `Land`,
`Store`, `Fail` carry them by two channels, the pull's pages read when served
and the push's likewise; `GiveUp`/`LandLate` is a POST the publisher timed out
and the subscriber still lands. `LandChange` and `LandDelete` are what the inbox
does with an entry, and `Expire`, `Lapse`, `HearPeer`, `ForgetErasure` what the
subscriber does by itself. A behaviour's `scenario` says which changes and faults
it may have and how long its clock runs; `MCReplica` names the run's.

**WebhookPush**. `Create`, `Patch`, `Delete` are the requests in
`subscriptions.ts`; `Load`, `Read`, `Answer`/`NoAnswer`/`AskedToWait`,
`Advance`/`CountFailure` are one turn of `push.ts`, split at its awaits. A filter is the set of kinds it
keeps, and the priority channel a set of kinds, so that a page may be empty of what
the subscriber asked for and move the cursor all the same. Several
cycles stand for a process that lost its single-process lock while it is in a
POST. A cycle's update names the cursor, the failures and the status, and holds at
the revision it loaded: this compare-and-set is the flag `current`, which every
request and every write of another cycle clears.

**StreamPump**. `Poll` is the timer, `Drain` the socket's drain and its catch-up
tick, `Answer`/`ReadFails` the end of the read, `WritePage` the loop that writes
frames until the socket's mark, `Heartbeat`, `Send`, `Close`.

**RequestQuota** and **OnDemand**. A flight goes ask, claim, take tokens (or
release), wait for a slot, renew, fetch, write or mark failed, as in
`fetch-cell.ts` over the statements of `ledger.ts`; `AnswerUnheard` is a commit
whose acknowledgement is lost. Instants are read before the statement they are
used in, as in the code. One tick refills a whole number of tokens.

**Evidence**. `Land` is the landing transaction; `CheckDispute`, `PileOn`,
`Match`, `Corroborate` and `StopHook` are the hooks the route runs after it and
their failure; `Merge` is `corroborate.ts` under the crowd lock, with its check
that both are live; `FindOfficial`/`ResolveOfficial`, `Accept`, `Reject`,
`CastVote` and `Expire` run beside them. Every change of a ledger recomputes the
report's state in its transaction, so the state is an operator (`State`) here.

**Backfill**. `Publish`, `PruneOutbox`, `BuildArchive` are the publisher's;
`ReceivePage` is one page of `readOutbox` within the floor (`Served`) with the
question whether older entries are still there (`NamesArchive`); `ImportArchive`
and `FailImport` are `archive-import.ts`, whole or ending within it; `LandPage`
and `DropPage` end the pull. Time is counted in half days. The order and the
fence of the journal are `Outbox`'s, so entries are simply numbered.

**FeedPoll**. `BeginPoll`, then `FetchRole`, `RoleFails` or `RoleIsPartial` for
each role that is due, `HoldAnswers` (which also counts the roles as fetched),
and `PublishStates`, `PublishAll`, `PayloadsFail` or `PublishFails`, in the order of
`run.ts`; `PollRestarts` loses what is in memory. `PayloadsFail` is a parse of all
that is held that ends before the index is deleted, because what is held cannot be
read or is no complete snapshot; `PublishFails` any failure after it, which may have
committed with its answer lost (`MayLand`). `index` is the publication the index is
of. A feed is a record of its roles, so that one
run has feeds of the shapes the repository configures (`MCFeedPoll` names them).

**OAuthGrant**. `Request`, `TokenRefused` and `Establish` begin; `LockToRefresh`,
`LockToEstablish` and `LockToDrop` are the transaction up to the provider's
call; `ProviderGrants`, `ProviderRefuses`, `ProviderFails` its answer;
`StoreGranted` and `StoreRefused` the commit and what is handed out.
`LoseConnection` and `ProcessDies` end a transaction anywhere.

**RoadBinding**. `Publish` queues; `ReadQueue`, `Open`, `Look`, `Compare`,
`Resolve`, `Fence`, `WriteBinding`/`WriteFails` and `Settle` are one pass split
at its statements; `Request`, `StopDrain` and `Over` are `createBindingDrain`;
`BeginRebuild`, `ChangeSpine`, `Activate`, `RebindAll`, `RebuildFails` and
`Restart` are the rebuild and the boot. Three variables are history only:
`overtaken` (see [disagreements](#disagreements)), `unserved` and `fellShort`. A drain
reads a page of `DrainLimit` situations (the code: 500). What it leaves behind a
full page, or when its read fails, stays due until the next request: `fellShort`
says so, and `RequestsServed` excepts exactly that.

## Runs

Every run also stands for its mutants: `PROJECT.json` gives, for each property
of a passing run, a changed definition under which the run must fail.

| Run | Question | Bounds |
|---|---|---|
| `outbox` | Do overlapping transactions and overlapping pulls leave no committed row behind the cursor, keep a record's order and an erasure final, land in order and implement `Feed`? Does what the fence lets through (`Fenced`) grow only at its end? | 2 sessions, 2 pulls, 2 sources, 2 records of which the filter keeps one, 2 transactions, 2 rows, pages of 2 |
| `delivery` | `Outbox`: does every kept row land, also behind rows the filter drops? | 2 sessions, 1 pull, 2 transactions, 2 rows, pages of 1 |
| | `StreamPump`: once each and in order, bounded memory, an implementation of `Feed`, catching up? | 5 entries, pages of 2, mark of 2, 2 ticks |
| `pull` | `Replica`: do two channels that fail, retry and go on converge, with all changes, lifetimes that pass and move, and the sweep; and with a push that stops for good and deliveries that land late, for changes that take a new revision? | 4 entries, pages of 2, three scenarios: all changes but lifetimes (2 revisions), lifetimes (2 revisions, the clock 0 to 2, lifetimes 1 to 3 and none), faults of the push (3 revisions) |
| | `Backfill`: does a peer away for any time hold every live record its cursor passed? | 2 records, 3 entries, 10 half days, window 4, reach 3, retention 6, an archive every 2, pages of 1 |
| `push` | Cursor, failures and catching up of one subscription under two cycles | 2 inboxes, 3 kinds of entries (one the filter drops, one not the priority channel's), threshold 2, pages of 1, 2 entries, 2 requests, one setting and for each column one that differs in it |
| `ingest` | `OnDemand`: one fetcher, no older answer, due starts, kept quota, failures that spare fresh answers | 2 processes, 2 cells, 1 slot, 4 instants, days of 3 |
| | `RoadBinding`: served bindings of the graph in force, work kept, requests served | 1 situation, the drain and one more pass, 2 revisions or 2 changes of the spine; and 2 situations of 1 revision, the drain alone with pages of 1, 2 changes of the spine |
| | `FeedPoll`: no change missed, validators and index of what was published, the last good answer kept | 4 shapes of feeds, the clock 0 to 3, 2 changes per snapshot, overlap of 1 |
| `services` | `Reconcile`: do subscribers of a settled source hold exactly what the flag allows, does restricted content stay in, does an erasure reach them? | 2 records, 3 revisions, 4 boots, a page of one record |
| | `Evidence`: one survivor per phenomenon, exact witnesses, no report lost | 3 reports by 2 keys, 3 keys, walks of 2 hops, 2 further events |
| | `OAuthGrant`: the stored grant true to the provider, tokens stored before use | 2 callers of 2 processes, a provider that rotates, 3 answers |
| `reconcile_flip` | the reconcile, when the catalogue flips a source back whose retraction is part done: violated | as in `services` |
| `replica_stop` | the copy, when the source turns restricted with a push in flight that then stops: violated | 1 revision, 2 entries |
| `backfill_ends` | the end of a record that came before the window while the peer was away: violated | as in `pull` |
| `poll_gap` | two failures within the window of a role of changes: violated | 1 feed, 4 instants, no overlap |
| `poll_unpublished` | what a failed publication held: violated | 1 feed, 4 instants |
| `binding_newer` | the work of a newer revision that a pass did not read: violated | 1 situation of 2 revisions, the drain and one more pass, 1 change of the spine |

Why these bounds. The order hazards of the journal need two transactions whose
ids, sequence numbers and commits disagree, which two rows can do; a reordering
inside a page needs pages of two, a filter that drops rows needs a record of each
kind. In `delivery` a page of one row makes the pull pass dropped rows page by
page. In the reconcile two records put one in front of and one behind its
position, and four boots allow two flips and a resumed run of each. In `Replica`
two copies of one entry in two channels and one newer entry are what reordering
needs; a third revision lets an older one land between. A lifetime of 1 has passed
at 2 both at the publisher and at the subscriber, and evidence may move it to 3
after the copy expired. In `Backfill` ten half
days are the window and the reach and an absence longer than the retention, with
five archives in it; three entries are one of each record and a newer one. In
`push` a cycle must read, be overtaken by a patch, an answer or the other cycle,
and write: two entries, two requests and two cycles reach every order of these. A
page of one entry that the filter drops, before one it keeps, is one the push must
pass without a POST.
The stream has pages longer than the mark (cut short) and a journal of three
pages. `OnDemand` has claims of two instants, so that a claim lapses, is taken
and lapses again within four, and a day's end between two takes. In `RoadBinding`
two changes of the spine let a rebuild end between a pass's resolution and its
write, and a second revision overtakes a pass. Situations meet only in the page a
drain reads, for which two and a page of one are enough, and a third pass adds
nothing two do not do to one row. In `FeedPoll` the clock's four values give an
answer, a failure, and a poll whose question, with the overlap taken off, still
starts after the first instant: a failure counted as an answer would lose a
change. `Evidence` needs
three reports for a chain of merges, the first and third of one key, so that a
witness that is the head's own key occurs. In `OAuthGrant` one answer is the
login's and two are refreshes that may overtake each other.

The bounds are as small as the hazards allow, so that a run ends in minutes on
two cores. What they do not reach (a third row, a situation's second revision
beside two changes of the spine, two situations beside several passes, a provider that does not rotate, longer chains
of merges) the theorems do, which have no bounds: every safety property the
passing runs check is proved.

Deadlock is checked only in `outbox`, where a pull can always start again. The
other models really stop: a closed stream, a record erased, a source with no
boot left, clocks and counters at their bounds.

## Fairness

- `Outbox`: a session's transaction ends (statement timeouts, or its process
  dies): weak fairness of commit or abort. The pull loop starts pulls again
  and again (weak), a request that keeps being made is answered sometimes
  (strong fairness of `FetchPage`: failing is enabled in between), and landing
  and storing go on by themselves (weak). `EverythingLands` further assumes that
  pages stop failing after they were fetched, as no retry helps a page that
  fails for ever.
- `WebhookPush`: the cycle runs on a timer, its statements end, its POST has a
  timeout and waits pass: weak fairness of each cycle's steps. Nothing is assumed
  of the inbox, the peer's requests or crashes; `PushCatchesUp` speaks of the
  case that the inbox answers and the subscription stays active from some point.
- `StreamPump`: the timer, the end of a read, the write of a page and the
  socket's sending and drain are weakly fair, and a read that is tried again and
  again succeeds sometimes (strong). `CatchesUp` speaks of a connection that
  stays open.

## Proofs

TLAPS checks every theorem to its last leaf. They hold for every value of the
constants that meets the modules' named assumptions: limits, thresholds and
durations are positive where the code divides or waits by them, filters, keys
and records are what they claim to be, bounds are numbers (`SourceOfAssumption`,
`WantedAssumption`, `LimitAssumption`, `NoneAssumption`, `BoundAssumption`,
`ScenariosAssumption`, `AskedAssumption`, `QuotaAssumption`,
`TicksAssumption`, `CallersAssumption`, `IssuedAssumption`,
`PassesAssumption`, `RevisionAssumption`, `RecordAssumption`,
`FlipAssumption`, `DurationAssumption`, `PageAssumption`,
`HorizonAssumption`, `PumpLimitAssumption`, `PumpBoundAssumption`,
`FeedAssumption`, `OverlapAssumption`, `PollBoundAssumption`, `KeyAssumption`,
`PolicyAssumption`, `EventsAssumption`). Two say more: `Backfill`'s
`MarginAssumption` (below), and `Evidence`'s `HopsAssumption`, that a walk may take
two hops (the code: 16). `FeedAssumption` says what every configured feed is: its
roles of changes are over snapshots of its own, a role that asks since its last
answer is one of changes and is fetched without validators. TLC evaluates each
assumption on the runs' values. None of the safety properties is inductive as it
stands; each proof strengthens it.

Where a proof needs induction over the natural numbers (that the entries of a page
can be put in order, that the walks of a given number of hops exist) it goes by the
least number that fails: `LeastMember`, from the library's theorem that the
natural numbers are well-founded.

**OutboxProofs**, for any number of sessions, pulls, sources and records, any
filter and page size: `TypeCorrect`, `RecordsInOrder`, `ErasureIsFinal`,
`NoGaps`, `OrderedDelivery`, `CursorMonotonic`, `ImplementsFeed` (the
refinement of `Feed`), `FeedCovers` and `FenceIsSequence` (`FencedGrows`). `RecordOrder` needs `PublisherInv`: locks are exclusive, a
session's pending rows are of the source it locked, and a transaction that holds
a source's lock is younger than every committed row of that source
(`LockedAfter`), which is what taking the lock before the first write gives.
`GapFree` needs `SubscriberInv`: every position a pull reached is below every
open transaction (`AllSettled`, what the fence is for), so a commit adds rows
past it only; everything kept up to a pull's place landed (`Delivered`), and
everything up to the page in hand landed or is in hand (`PageInHand`). Its key
lemma is `PageWhole`: a page holds every servable row between the reader's place
and its mark.
`FeedCovers` says what implementing the feed comes to, from `FeedSpec` alone: nothing
owed up to the mark is unseen, and the mark never moves back.
`FenceIsSequence` is what the other modules take the journal to be. `StreamPump`,
`WebhookPush`, `Replica` and `Backfill` number its entries and append to them, while
the table fills in an order of its own. The theorem says that the rows the fence
lets through grow only past all that it let through before, and that a row
once let through is hidden again by nothing but an erasure. A row that appears is
of a transaction that was open, at which the fence stopped, and a transaction that
opens has an id past every committed row (`FenceMoves`, `JournalEnded`).

**ServicesProofs**, of `Reconcile`, for any number of records, revisions and boots:
`TypeCorrect`, `RestrictedStaysIn` (`NothingGoesOut`), `ErasuresReach`
(`ErasedEnds`) and `SettlesInSync`. `ErasedEnds` needs that what a subscriber
holds is known to have been shared even once its entries are pruned, at no later
revision than the record's (`PeerKnown`), and that a latest entry that is a
delete has ended the copy (`DeleteEnds`). `SettlesInSync` assumes what
`reconcile_flip` shows to be needed: the catalogue flips a source only when it is
settled or being published (`Orderly`). Its invariant says what each direction
has brought about so far: the records in front of the page are brought to the
flag (`Brought`), a public source's copies follow their records and its latest
changes are held (`Follows`), and a source whose journal reflects its flag, or
that has no basis yet, is brought to it throughout.

Of `Evidence`, for any number of reports, any keys, votes and events and any walk
of two hops or more: `EvidenceTypeCorrect`, `SurvivorFound` (`HeadFound`),
`MergesLoseNothing` (`NoReportLost`), `WitnessesAreExact` (`WitnessesExact`) and
`ReportsDoMeet` (`ReportsMeet`). A merge goes to an earlier report (`Earlier`), and
takes the merged report's ledger along with its own name, so that the ledgers that
name a report are exactly those of the reports it led to (`Carried`). Hence the
parents of a merged report are all on its way to the live end or ended themselves,
two hops always suffice, and no code path needs the 16. "Led to" is stated without
recursion: a report led to another when every set that holds what it and the set's
own members were merged into holds the other (`LeadsTo`). `ReportsMeet` needs `MeetSoon`: of two reports
that stand and whose hooks have looked, the later look saw the other and is to
merge the two.

**PullProofs**, of `Replica`, for any subset of changes and faults, any number of
revisions and entries and any page size: `TypeCorrect`, `ErasureStays`,
`RevisionMonotonic` and `CaughtUpConverges`. The invariant (`Fenced`) follows an
erasure through the journal, both pages and a late push: the record and every
change still in the journal are newer than every erasure anywhere, changes in
flight may be older only while the subscriber keeps the erasure's fact, and so a
copy that is not erased is newer than every erasure that landed.
`CaughtUpConverges` is `Converges` for the behaviours of `Lasting`: the push
neither stops nor lands late, or every change takes a revision of its own. Each
scenario of `pull` is one or the other; that one of them is needed is what
`replica_stop` shows.
Its invariant (`ConvInv`) has an argument for each. If the push goes on and lands
in time, the newest entry says what the record is (`NewestSays`), and either some
channel still has it ahead or the copy is settled (`NewestSettles`), also against
a return of the peer's liveness. If every change takes a revision, the copy is as
its revision's entry left it (`CopyAs`) and of none older than what the pull has
passed (`PullPassed`), so the pull alone suffices. Either way an erasure is ahead
of the pull until one landed (`ErasureAhead`).

Of `Backfill`, for any records, page size and schedule that keeps
`MarginAssumption`: `BackfillTypeCorrect` and `NothingLost`
(`NothingFallsBetween`). The margins are that an archive that landed and may not
land again yet is younger than the window, and that the retention outlasts the
window by the publisher's longest silence. Then, for as long as the retention,
every record's newest entry is in the journal (`Kept`) and every silence ends
with an entry (`NeverSilent`), so a page whose range lost entries says so; the
archive holds what did not change since its night (`ArchiveHolds`), the peer
holds what the archive it noted held (`NotedLanded`), and what a page's mark
passes is held, in the page, or in the archive the page names (`PageSound`).

**PushProofs**, for any number of cycles, inboxes, filters, any threshold and page
limit: `TypeCorrect`, `DisabledDeserved`, `CursorIsEarned`. The
invariant says that a page misses nothing the loaded row asks for up to its mark
(`PageRead`, from a `PageWhole` of its own), that a cycle whose row was not
written since still holds the row in force, active, and what it saw acknowledged
was acknowledged by that row's inbox (`InForce`), and that no failure is counted
that did not happen (`Counted`, `FailureSeen`).

**OnDemandProofs**, for any number of processes and cells: `TypeCorrect`. Of the quota:
`FlightsUseQuota` (every step of a flight is a step of the quota or leaves it
alone) and `BucketHolds`; the invariant (`Accounted`) keeps the books: what was
spent and what the bucket still holds came from the full bucket and from the time
up to the last refill. It is inductive because the refill instant never moves
back, whatever order the takes arrive in. Of the ledger: `OneFetches`,
`AnswersGrow`, `FreshStays` and `StartsWhenDue`. Its invariant says, for each
cell, that a flight's claim ends a claim's length after the instant it claimed
or renewed at (`FlightDated`), that whoever still holds the row's claim found
the cell due at its instant (`HoldsDue`), that a claim that still runs is the
row's unless its flight is failing after a commit it never heard of
(`ClaimRuns`), and that two running claims end at different instants
(`EndsDiffer`). A cell that is due stays due with time until the row is written
(`DueLasts`), and what a holder writes leaves it not due at every instant before
(`NotDueLasts`): so an answer is never older than the row's, and a claim made
for an instant long past is not mistaken for one in force.

**SourceProofs**, of `OAuthGrant`, for any number of callers, processes and answers: `TypeCorrect`,
`GrantTrue`, `TokensStoredFirst`. The invariant: a caller past the row's lock
holds it unless its connection is lost, and one holds it at a time (`Locked`,
`OneHolder`); what it presents is what the row has; an answer under way belongs
to one caller, and its tokens are in no row and no memory before it is stored
(`OnItsWay`, `Unused`); a refused token stays refused (`RefusedIsDead`).

Of `FeedPoll`, for any feeds, overlap, clock and number of changes:
`PollTypeCorrect`, `AskedNoneMissed` (`AskingMissesNone`),
`ValidatorsOfPublished` (`AcceptedIsPublished`), `IndexOfPublished`
(`IndexIsPublished`) and `NeverTakenBack` (`LastGoodKept`). The invariant: changes
are stamped in order (`Stamped`); a poll fetches what is due, a snapshot before its
roles of changes (`Paced`, `InTurn`); an answer held of a snapshot is a beginning of
its changes, and validators stand for one that is held (`SnapshotsHeld`); a poll
goes on without a snapshot only if that is optional (`NoneMissing`); what is
published of a snapshot is held or was said (`ShownHeld`); and what is held of a
snapshot with its role of changes has no gap and, but for what is stamped within
the overlap of a question or after it, is all there is (`AllReach`, `Dated`): the
next question then reaches back to whatever is missing. The invariant speaks of
each feed twice, of what was held before the poll and of what the poll is about to
hold, which is what makes it hold between `FetchRole` and `HoldAnswers`.
`IndexIsPublished` compares the index with the database, so it depends on where a
failing poll deletes the index: one that may have committed must have, and one that
never reached its parse need not.

**PumpProofs**, for any journal, filter, page limit, mark and number of ticks:
`PumpTypeCorrect`, `StreamWrittenOnce` (`WrittenOnce`), `StreamBackpressure`
(`Backpressure`) and `StreamImplementsFeed` (`PumpFeed`). At most one tick is under way, it asked from the pump's place,
and the pump does not move nor pause before it writes (`OneTick`): so a page
continues what was written. A socket at its mark has asked to wait, and beyond it
the pump waits (`SocketWaits`). The page's entries in order are a chosen sequence;
that there is one (`CanBeOrdered`), that it lists them in order (`InOrderIs`), that a
page appended stays in order (`Appends`) and that an unfinished page is its beginning
(`Begins`) are the lemmas. For the refinement, what was written of an open
connection is exactly what the filter keeps up to the place (`SentAreKept`, from
`WrittenOnce`), and a page written moves the place forward over that
(`WritePageAdvances`); an entry published is past the place, which is in the journal.

**BindingProofs**, for any number of situations, revisions, changes of the spine
and passes: `TypeCorrect`, `ServedOfItsGraph`, `KeptWork`, `RequestsAreServed`.
`ServedIsOfItsGraph` needs that a ready graph's generation is the state of its
tables, that a graph being rebuilt is not ready, and that a pass is fenced only
when its generation is the one in force; a binding names the state it was
resolved on. `RequestsServed` needs that what a drain was asked for is due until a drain reads it
or its work is settled (`Due`): a drain that reads all due work then leaves nothing
that was asked for, and one that does not has fallen short.
`WorkIsKept` needs, besides that of bindings and revisions (a
binding is of a revision the situation had; one of the stored revision that is
not obsolete is of the graph in force), what each pass may rely on at each of
its stages: what it read, dealt with or fenced still stands, or the situation
was overtaken.

**Only model-checked.** Liveness (`EverythingLands`, `PushCatchesUp`,
`CatchesUp`), which needs fairness and `ENABLED`. The type invariants of
all modules are theorems and in no run.

## Disagreements

Each of these is shown by a run that ends in a violation:

- `reconcile_flip` (`packages/storage/src/federation-reconcile.ts:93`): a source
  flipped back to public while its retraction is part done settles with
  subscribers holding outdated or ended records. `publish` takes a latest entry
  that is a change as proof that subscribers are up to date, and a change made
  while the source was restricted was not journalled. The documentation of
  `reconcileFederation` says those records are brought to the flag. The passing
  run and the theorem therefore let the catalogue flip a source only when it is
  settled or being published (`MayFlip`, `Orderly`).
- `replica_stop` (`packages/storage/src/write-record.ts:175`): a change and a
  retraction at one revision have no order of their own. A push in flight lands
  after the pull's retraction, stops for good, and the copy of a restricted
  record stays live. The puller's documentation says the pull is complete
  whatever the push carries. Of the scenarios of `pull`, two leave the push on,
  and the third has only changes that take a new revision.
- `backfill_ends` (`services/federation/src/archive-import.ts:140`): the archive
  holds what is live and lands as creates. A record that ended before the window
  while the peer was away is in no page and no archive; the cursor passes its end
  and the copy lives on. `docs/archive.md:94` says nothing falls between the two;
  the passing property speaks of live records.
- `poll_gap` (`services/ingest/src/pipeline/run.ts:904`): whether a failing role
  of changes still reaches back is asked at the poll that fails, not at the one
  that answers. Two failures within the window are followed by an answer that
  does not reach back, and what changed in between is in no answer.
- `poll_unpublished` (`services/ingest/src/pipeline/run.ts:1195`): answers are
  held and counted as fetched before their publication. When that fails, the next
  poll that succeeds need not publish them, although the comment says the next
  tick fetches and publishes again.
- `binding_newer` (`services/ingest/src/pipeline/bind-records.ts:594`): a pass
  settles the queue up to the revision stored when it settles, not the one it
  bound. Work of a newer revision, queued in between, is deleted and its
  situation keeps the older binding. The passing property (`WorkIsKept`) excepts
  exactly those situations, as the history variable `overtaken`: queued anew
  after a pass that had yet to settle was done with them, or retired by a
  rebuild's last stage, which queues nothing.

Others were met while modelling. No property claims the contrary of them:

- a source without a basis settles at once, also when its records were
  journalled and its flag changed before its first reconcile
  (`federation-reconcile.ts:196`);
- the poll of a feed that still holds a record erased by an operator makes this
  instance's own record live again;
- a patch of `priorityOnly` to false leaves the push's cursor past the entries
  the narrower channel never carried (`subscriptions.ts:454`);
- a connection that closes before the stream route listens for its close leaves
  the pump's timers running;
- a take whose instant is before midnight and that reaches the quota's row after
  one of the new day starts the daily count again (`limits.ts`);
- a report disputed between a hook's unlocked read and the merge is merged all
  the same;
- a publisher whose journal was silent for longer than the retention exceeds the
  window keeps no entry before the floor, and a peer that was away is not told
  that its range is incomplete (`outbox-retention.ts:21-29`); with the shortest
  tier, a window of a day, the least time between two archives is as long as the
  window. Both are what `MarginAssumption` excludes;
- an archive's file rewritten after an erasure, between the page that names it
  and its fetch, does not match what the page states, and the import is refused;
- a feed whose payload returns to what validators of the last publication stand
  for is answered "unchanged" while a later, unpublished payload is held;
- an optional role that fails after a restart, with no held answer to stand in,
  is left out, and a snapshot published as complete withdraws what only that
  role gave (`run.ts:796`);
- a binding whose resolver failed is stored with the hash, revision and
  generation it was tried for: the next drain finds it unchanged, settles its
  work away and does not try again (`bind-records.ts:526-534`, where the code's
  own comment at 574 and `docs/graph-binding.md:413` speak of a retry); and
  the bindings the rebuild's last stage retires are not queued, so one whose
  write fails waits for the next boot or rebuild;
- "a drain reads the whole queue" (`scheduler.ts:58-59`): it reads 500 situations
  (`bind-records.ts:626-632`, as `docs/graph-binding.md:409` says), and neither a full
  page nor a read that failed asks for another drain. The rest waits for the next
  poll's request;
- "a poll that fails leaves none" (`run.ts:1095-1096`, of the index of live states):
  one that fails because what it holds cannot be read or is no complete snapshot
  leaves the index as it was (`run.ts:1077-1079`, `1088-1094`). It is still that of
  what is published, which is what `IndexIsPublished` asks;
- "never spend one refresh token" (`oauth-grants.ts:33-35`) holds except after an
  answer or a commit was lost, which no client can avoid.

A merge takes confirmations along and leaves negations and resolutions with the
merged report, as its documentation says: `WitnessesExact` speaks of the former
only.

## Limits of the models

- Every bound is a named constant whose comment says "bound"; it caps revisions,
  entries, boots, events or the clock, and is a guard of the actions it caps.
- **Outbox**: a subscription wants the class of every record; the archive import,
  signatures and rates end a pull (`YieldPull`) and have no other effect; the
  window is `Backfill`'s. A capture of a delete assumes the source was shared
  (`Reconcile` has the rest). A record has a source and keeps it.
- **Reconcile**: one source and its records; readings and the `seedFederation`
  command are left out. Subscribers read the journal at once; that they get it
  in order is what `Outbox` shows.
- **Replica**: one record of one peer, one pull and one push. What makes a crowd
  record "expired" at the same revision, the evidence-tier filter, canonical
  views and refusals of foreign or malformed records are left out.
- **Backfill**: one peer, pages landed whole; the format and the hashes of the
  archive's files are left out.
- **WebhookPush**: the window of the peer's tier, shape validation and the rule of
  one subscription per inbox are left out: the model has one subscription.
- **StreamPump**: one connection whose write loop is atomic, as it has no await.
  Its journal loses no entry; an erasure or the retention takes away entries the
  pump has not read, and its cursor does not name them.
  A stopped pump writes nothing by its first line, which no property repeats.
- **OnDemand**: processes share a clock. Gates admit waiters in any order (the
  code's order is first come, first served). What is fetched, the write's
  rejections and the source's status rows are left out.
- **RequestQuota**: whole tokens, so the rounding of fractions is not covered.
- **RoadBinding**: a drain may take any of the due work (the code: what has been due
  longest first), binds it in any order and one target per situation; binding turned
  off is left out; a change of the resolver's version at
  boot is a boot; what the resolver answers is placed or failed.
- **FeedPoll**: feeds of several roles, each of one URL. Streamed and per-item roles,
  the stand-ins of single URLs of a role, payloads too old to stand in, and the thresholds of the tripwires (a refusal is any failure
  to publish) are left out.
- **OAuthGrant**: the provider refuses only tokens it does not take, and tokens
  age in the order they were issued.
- **Evidence**: all reports are of one phenomenon and agree; lifetimes, scores,
  reputation training, the purge and peers' keyless reports are left out. The
  sweep may end any live report, which allows every lifetime. A hook's unlocked
  reads are taken as one, and a replayed landing does nothing. The bound of the
  survivor walk is a constant (`MaxHops`; the code: 16), 2 in the run and any number
  of at least 2 in the theorems.
- What is not in a module is listed under `components` of `PROJECT.json` with its
  reason.

## Plan

Done: the journal, its delivery by pull, push and socket, what a subscriber makes
of it, the reconcile, the backfill of a peer that was away, on-demand cells and
their quota, feed polls, OAuth grants, the binding queue and the road graph,
crowd evidence; and proofs of the safety of all of them.

Next, in this order:

1. **Evidence**, its remainder: reputation trained once per resolution, readings
   as its variant with one ledger each.
2. **LatestCache**: the two-phase cache beside the transaction that writes
   readings.
3. **ProcessLock**: a lost connection and the check that notices it, under two
   processes; then `WebhookPush` and `Outbox` composed with it, so that the time
   two processes overlap is bounded.
4. The raw archive's eviction, the token issuer's keys, the TUF root.
5. `WebhookPush` under the abstract channel too: `Feed`, which pull and stream
   implement, with a step that renews what is owed when a patch changes it.
