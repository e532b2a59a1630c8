# A TLA+ model of loon-plugins

This directory is the verification project kept beside the Go repository
`loon-plugins`: TLA+ modules that model its stateful core, TLC configurations that
check them on small instances, and proofs, checked by TLAPS, of the results that
matter for every value of the constants. Paths below are relative to `src/`.

Contents: [1 the system](#1-the-system) · [2 the modules](#2-the-modules) ·
[3 what is checked](#3-what-is-checked) · [4 what is proved](#4-what-is-proved) ·
[5 disagreements found](#5-where-code-and-comments-disagree) ·
[6 limits](#6-limits-of-the-model) · [7 plan](#7-plan)

## 1. The system

`loon-plugins` is a set of about sixty plugins for a community site (a tracker and
indexer with a forum, a store, ranks and so on). Every plugin is a Go package that
registers routes, migrations, jobs and services with a host through `pluginapi`;
state lives in Postgres (and, for the staging of articles, in Redis). The plugins
interact through the host: services looked up by name, domain events, the point
ledger, and jobs run by the host's scheduler (`RunLoop`, one run of a job at a time
per process).

By far the largest plugin is `usenet`, a crawler that may run as several processes
against one database and one Redis. It reads newsgroups from a news server, stages
the articles of each release, and builds a catalogue entry when a release is whole.

| part | source | state it keeps | operations | what must hold |
|---|---|---|---|---|
| leases | `usenet/lease.go`, heartbeats in `assign.go` | rows (scope, key) → owner, expiry; per-process reference counts; `crawler_workers.last_seen` | claim, renew, release, takeover, heartbeat | exact counts; a healthy worker is not displaced; a displaced one stops; orphans are freed |
| forward crawl | `usenet/crawl.go`, `provider_state.go`, `adopt.go` | per (backbone, group): high watermark, back watermark, server low, done flag | snapshot, plan, fetch, record, advance, adopt, re-arm | no article between the watermarks is skipped; the crawl catches up |
| backfill | `usenet/backfill.go`, `ranges.go`, `provider_store.go` | the same row, and `newsgroup_ranges` (coverage) | select, plan gaps, fetch, record, finish, reset | coverage is honest; "done" means read; the history ends |
| staging and assembly | `usenet/redis_staging.go`, `assemble.go` | per set: article hash, metadata, ready queue; the catalogue | stage, evict, queue, sweep, salvage, build, store limit | nothing recorded is missing; complete sets are queued and built; broken ones are marked |
| membership and shares | `usenet/assign.go` | `crawler_workers`: joined_at, last_seen | eligible, reap, share of groups | shares partition the groups once views agree |
| gates | `usenet/crawl.go`, `backfill.go` | tiers, pressure flag, in-process locks | hold the LOW tier, pause, drain | no tier is held for ever |
| health | `usenet/health.go` | sampling rounds and verdicts | sample, judge, requeue | a verdict rests on a full round |
| accounts, parsing, views | the rest of `usenet` | connections, telemetry | network I/O, text heuristics | tests enumerate the formats |
| point shop | `store` | items (stock, price), purchases | buy, restock, edit, delete | a sale is one step or none; no oversell |
| paid actions | `medals`, `magic`, `requests` (boosts) | medals, casts, experience, boosts | charge, write, refund | charged for what was handed over |
| communities | `communities` | members, applications with held points, invites | join, apply, approve, deny, redeem | held points are spent or returned, once |
| offer requests | `offers` and the host's escrow | request status, claim, stakes | back, withdraw, claim, deliver, fail, sweep | a pool is paid once, for its delivery |
| games | `games` | pots, donations, consolations | donate, close, draw, console, give | one draw per pot; points add up |
| daily reward | `dailyreward` | last day and streak | claim | one claim a day, honest streaks |
| rewards | `rewards` | grants and their payouts | grant, settle, claim, units, expire | paid in full, once; units exact |
| achievements | `achievements` | progress, completion, stamp | event, scoring job, repair | announced once, stamped only when paid |
| donations, events | `donations`, `events` | claims, donations, windows, the month's marker | claim, webhook, goal reward | what is paid is recorded; one free week a month |
| perks | `perks` | tokens; a table of perks per process | spend, refresh | a token is spent once, and applies |
| seed lock | `seedlock` | claims in Redis | acquire, refresh, release, clear | one host a torrent, for a window |
| tracker | `tracker` | peers in Redis, rows of members, counts | announce | nobody is credited what did not move |
| hit and run | `hitrun` | notices, warnings | sweep, pardon | nobody is warned untold |
| backup | `backup` | generations, inventory rows, suspects, packs; published dumps | index, seal, manifest, stream, acknowledge; dump, prune | a pass is honest; what is reported held is whole; the newest dump stays, dumps go on |

How they interact. The crawl and the backfill of one process share its leases, one
reference count per key. Both read the state row, plan, fetch through the same
connections, hand every batch to staging, and only then record the range as covered
and move their watermark. The sweep of the build job reads that coverage back to
decide that a missing article will never come. Operators' resets and a change of
lead account write the same row from outside. The health job re-examines what the
builder stored.

The plugins of the *economy* meet on one number per member, the points, which they
move through `core.Points` (`Deduct`, `Award`). Each handler is a sequence of calls
to its own tables, to the ledger and to other plugins' services (`rewards` pays for
`achievements` and `games`), with no transaction over them: the steps behind a
failing call are unwound by compensating calls, which may fail too. The plugins of
the *tracker site* meet on traffic: a donation that meets the month's goal opens a
free week in `events`; `perks` copies the open window and the spent tokens into a
table of every process by timer, and of its own after a spend; the announce asks
`seedlock` for leave, diffs the client's totals with the peer in Redis, and credits
the member's row by that table; `hitrun`'s hourly sweep judges those rows.

The *backup* stands beside all of these: it reads the files that other plugins write
while they write them, puts the dumps of the database among them, and its worker
serves the packs of a sealed generation to a puller on another machine.

Not modelled but with state worth modelling: `ranks`, `agent`, `tickets`, `polls`,
`roadmap`. The remaining plugins are create-read-update-delete pages,
network scrapers or views. `PROJECT.json` lists all of them with what is modelled.

What is hard here:

* Several processes share the groups through leases whose exclusivity rests on
  clocks, and one process runs the crawl and the backfill on one group together.
* Watermarks are read before a lease is taken, planned on, and written minutes or
  hours later, while siblings, a reset or a deepening account change the row.
* Fetches fail in the middle; what was fetched, what is recorded as covered and what
  the watermark says must stay consistent without a transaction over the three.
* A set in staging is touched by batches of both jobs, by eviction, by the sweep and
  by the builder, in Redis round trips of which no two are atomic.
* Several decisions are final ("done", "covered", "dead", "stored"): a wrong one is
  never looked at again.
* A handler that charges, writes and refunds runs beside every other; a fault or the
  end of the process may come between any two of its calls, and in the refund.
* What pays out once (a pot, a pool, a grant, a day, a month) is decided by a
  conditional UPDATE, a unique index, a row lock, or a read before a write; two
  callers at once find out which of these holds.
* Tables in memory, snapshots in Redis and lists read at the start of a sweep are
  older than the question they answer.
* A sealed generation is a list: its packs are assembled, hours later, from files that
  go on changing, by a worker that forgets its plans, for a puller that comes and goes.

## 2. The modules

| module | models | lines |
|---|---|---|
| `UsenetLeases` | leases, reference counts, renewers, heartbeats, crashes, time | 0.3k |
| `UsenetCrawl` | one group on one backbone: forward crawl, backfill, resets | 0.4k |
| `UsenetStaging` | one release set from staging to catalogue | 0.5k |
| `Handlers` | requests in flight, faults, the end of a process | 40 |
| `Points`, `PointStore`, `AtomicSale` | the ledger; the shop; what the shop promises | 0.3k |
| `PaidActions`, `CommunityJoins`, `OfferEscrow`, `PotGame`, `DailyReward` | one plugin each | 0.7k |
| `RewardGrants`, `Achievements` | the reward engine; what pays through it | 0.4k |
| `PointsEconomy` | all of these on one ledger, and their properties | 0.15k |
| `Site`, `EventWindows`, `Donations` | time and visits; windows; donations and the goal | 0.25k |
| `Perks`, `SeedLock`, `Announce`, `HitRun` | one plugin each | 0.55k |
| `TrackerSite` | all of these together, and their properties | 0.1k |
| `Assets`, `BackupIndex`, `BackupPull`, `BackupDumps` | the files; the index pass; packs and their puller; database dumps | 0.5k |
| `Backup` | all of these together, and their properties | 0.07k |
| `…Proofs`, `PointsLedger` | the proofs (section 4) | 24k |
| `Sums` | what sums over finite sets do when one value changes | 0.5k |
| `MC…` | constants of the instances | 0.2k |

Operators whose comment starts with "Mutant:" are not used by the specification: they
are the plausible bugs each property is shown to catch (`mutants` in
`PROJECT.json`).

### UsenetLeases

`lease[k]` is the row of a key with its remaining time, `beat[w]` the age of a
worker's heartbeat, `held[w][k]` the map `leaseHeld`, and `pass[w][j]` what the
goroutines of `claimGroupLeases` and `withLease` hold: the keys still to claim, those
claimed, the time since the last successful renewal (`okAge`) and since the last
renewer tick (`tickAge`).

| action | code |
|---|---|
| `BeginPass`, `ClaimKey`, `StartWork` | `claimGroupLeases` claims key by key through `claimLeaseHeld`; a refused key is skipped, an error may hide a committed claim |
| `Renew` | the renewer: one outcome per key, `renewalLost` decides, the first loss cancels the pass |
| `FinishPass`, `ReleaseKey` | release key by key through `releaseLeaseHeld`; the row goes with the last local hold |
| `Heartbeat`, `Start`, `Crash` | `startHeartbeat`; a restarted process has a new id |
| `Tick` | time: leases run down, beats and passes age |

`Punctual` workers have timers that fire on time (`OnTime` keeps `Tick` from passing a
due renewal or beat), `DbOk` workers have a database that answers. A worker outside
these sets may be arbitrarily slow or failing. Every age is capped where the code no
longer tells values apart, so time adds no unbounded state.

### UsenetCrawl

`row` is the `newsgroup_state` row, `covered` the recorded ranges as a set of
articles, `low..high` what the server has, `lead` the account that answers GROUP.
`crawl[w]` and `back[w]` are the local variables of a pass in flight, from its first
read to its last write; `fetched` is a ghost that says what was fetched and staged
since it was last asked for.

| action | code |
|---|---|
| `CrawlChoose` | `crawlBackbone` reads all watermarks, before any lease |
| `CrawlPlan` | claim, GROUP, `planGroup`, and a prefix of the batches (the pass's budget); with nothing to plan, the write of the server's bounds |
| `CrawlFetch` | `runBatches`: any subset succeeds; the rest failed or, under staging pressure, was not fed |
| `CrawlRecord` | `recordFetchedRangeFor`, one batch at a time, may fail |
| `CrawlAdvance` | `contiguousEnd` and `updateGroupStateForBackbone` (its GREATEST, its seeding of the back watermark, its re-arm on a deeper low) |
| `BackChoose` … `BackFinish` | `groupsNeedingBackfillForBackbone`, `backfillGapsFor`, `gapJobs`, `recordBackfill`, `horizonReached` |
| `Rescan`, `Rewind`, `RewalkHistory` | `resetBackfillForGroup`, `resetForward`, `resetHistory` (both through `resetWatermark`) |
| `CrawlStops`, `BackStops` | refused lease, lost lease, no connection, shutdown, kill |
| `Post`, `Expire`, `NewLead` | the server |

The lease is abstracted to its owner; `Takeover` says that it may be lost to a
sibling while the holder works, which `UsenetLeases` shows to be possible for an
unhealthy holder. Claim and plan are one step (nothing is written between them), the
release is part of the last write. `Horizon` stands for the retention cutoff: the
articles below are the older ones. `Calm` ends faults; it is only part of the fair
specification.

### UsenetStaging

One release set. `world`, chosen once, is the situation: the articles posted (with
the totals their subjects claim), the batches that stage them, whether time passes,
what may fail. `art` and `meta` are the set's two hashes, `idle` and `metaAge` the
ages of their TTLs and of `touched_at`, in four classes: fresh, past
`evict_staleness_secs`, past the sweep's grace, gone. `ready` is membership in
`nzb:ready`; `stager[s]` is what a batch has read so far, `builder` what the build
job has; `done` are the windows staged and recorded.

| action | code |
|---|---|
| `PutArticles`, `FoldMeta` | the staging pipeline, not a transaction: the articles (`artPutScript`), then the totals (`metaMaxScript`) |
| `FoldSpan` | `foldSpans`, best effort |
| `Check` | the length bound (`groupNeededParts`), the field names, `isGroupComplete`, `evictDecision` |
| `Queue`, `Evict`, `StrikeOrClear`, `Pass`, `StageFails` | how a batch ends |
| `Judge`, `Doom`, `SalvageLoad`, `SalvageStore`, `Mark` | `sweepWalkPast`, `salvageSets`, `salvageTally`, `healthVerdict` |
| `Draw`, `Withdraw`, `Load`, `Store`, `StoreFails`, `Delete` | `candidateGroups`, `demoteReady`, `buildLocked`, the attempts of a store, `deleteStaged` |
| `BuilderStops` | a failed call or the end of the process, between any two steps |
| `Tick` | the TTLs; not while a batch runs (over in less than the staleness limit) or the builder is inside one set |

Completeness is written three times because the code has three: the length bound, the
check at staging time on metadata and field names, and the check on the loaded
articles. An `HSET` on a deleted key creates it again, so `meta` may hold a span or a
strike without existing (`base_subject`), as in Redis.

### The economy

`call[r]` is the local state of request `r`'s handler: what it does, for whom, where
it is (`pc`), the points it is about (`amt`), and two ghosts, the points it has taken
and not placed (`hand`) and whether a compensation failed (`owed`). `Plans` are the
sets of requests that may come in together, chosen once. Every call may fail while
`faults` lasts, and every handler may be `Cut` between two calls (the process ends,
or the client goes away and takes the request's context with it). `PointsEconomy`
interleaves the steps of all plugins; what one does not own it leaves UNCHANGED.

| module | actions | code |
|---|---|---|
| `Points` | `Deduct`, `Refund` | `core.Points.Deduct`, `Award` as the handlers use them: conditional, one statement |
| `PointStore` | `BuyRead`, `ClaimStock`, `BuyDeduct`, `Grant`, `RecordPurchase`; `BuyRefund`, `RestoreStock` | `BuyItem`, `purchase` and its unwinding |
| | `EditOpen`, `EditSave`, `DeleteItem` | the operator's form, which writes back every column as it was opened |
| `PaidActions` | `Medal…`, `Cast…`, `Boost…`, `PaidRefund` | `actionBuy`, `actionCast`, `BoostRequest` |
| `CommunityJoins` | `JoinRead`, `JoinDeduct`, `Subscribe`, `CreateJoinRequest`, `ApplyRefund` | `ToggleSubscribe` |
| | `Approve`, `Deny`, `DenyRefund`, `Redeem` | the transactions of `pg.go`, the refund after the denial |
| `OfferEscrow` | `Stake`, `CreateOrJoin`, `Withdraw`, `Claim`, `Deliver`, `Settle`, `PayOfferer`, `Fail`, `Sweep` | `UserCreateRequest` … `payEscrow`, `offerSweeper`; the rows are the host's |
| `PotGame` | `PotRead` … `CloseCycle`, `Draw`, `Console`; `GiveDeduct`, `GiveShare` | `donate`; `give`, `distribute` |
| `DailyReward` | `DailyStart`, `ClaimLocked`, `ClaimUnlocked`, `Upsert`, `DailyAward` | `claim`, `PGStore.Claim` with and without a row to lock |
| `RewardGrants` | `GrantOneOff`, `UnitsRead`, `UnitsOwed`, `GrantPerUnit` | who grants; `Insert` is `CreateGrant` with its unique reference |
| | `SettleRead`, `PayLine`, `MarkLine`, `SettleGrant`, `ClaimGrant`, `ExpireGrants` | `Settle`, line by line; the member's claim; the maintenance job |
| `Achievements` | `Post`, `Increment`; `ScoreRead`, `ScoreOne`; `Complete`, `PayBadge`, `Stamp`; `Unpaid`, `Repair` | events, the scoring job, a completion, the repair of unpaid ones |

`AtomicSale` is the abstract specification of the shop: a purchase sells, is refused or
is lost to a fault, in one step; between purchases the operator sets the shelf. The
refinement mapping (`Sale`, at the end of `PointStore`) puts a unit that a purchase
in flight has claimed back on the shelf (`Shelf`) and calls a purchase open until it
was granted, refused with nothing kept, or torn (`SaleOf`).

### The tracker site

Visits (`Visit`) are the handlers of `Handlers` that run `todo` times: clients that
announce, members who spend or donate, BTCPay's deliveries, timers, sweeps. `clock`
advances by `Tick`, a plan's number of times. Durations are constants of one or two
ticks; a claim, a snapshot, a window or a token ends when the clock reaches its end.

| module | actions | code |
|---|---|---|
| `EventWindows` | `WindowRead`, `WindowInsert` | `OpenWindow`, used by the goal reward; no row, or one per second |
| `Donations` | `ClaimRead`, `ClaimInvoice` | `ClaimPackage` |
| | `WebhookRead`, `WebhookFetch`, `CreateDonation`, `WebhookRecheck`, `Redeliver` | `BTCPayWebhook`; BTCPay delivers again until it gets a 2xx |
| | `GoalRead`, `GoalWindow`, `GoalInsert`, `MarkFired`, `EmitAndAnswer` | `maybeOpenGoalReward` |
| `Perks` | `SpendCheck`, `SpendTake` | `PGStore.Spend`, `FOR UPDATE SKIP LOCKED` and the unique index |
| | `ReloadRead`, `ReloadInstall`, `FreeleechRead`, `FreeleechSet`, `TimerAgain` | `refresh` and `refreshSiteFreeleech`, by timer and after a spend |
| `SeedLock` | `AcquireSet`, `AcquireGet`, `Decide`, `Refresh`; `StopHeld`, `StopRelease`; `ClearClaim` | `admit`, one step per Redis command |
| `Announce` | `Report` | the client (external) |
| | `AnnounceGet`, `AnnouncePut`, `AnnounceCredit`, `AnnounceSnatch`, `AnnounceList`, `AnnounceCount`, `NextInterval` | `Handlers.Announce`, `ComputeDelta`, `Credit` |
| `HitRun` | `SweepStart`, `SweepExpire`, `SweepRead`, `Judge`, `Tell`, `SweepLimit`, `SweepDies`, `Pardon` | `runSweep`, `Sweep`, `Evaluate`; `ClearWarning` |

`moved`, `told`, `lost`, `broken`, `unmarked` are ghosts: what clients really moved,
what members really heard, and the three faults that properties have to except.

### Backup

`disk[p]` is a file as its contents and its stat identity (size, mtime, ctime, inode),
both of which a write renews and of which rot changes the first alone. `rows` is the
inventory, one row per path and contents with the first and the last generation that
had it; `pass` are the locals of `indexPass`, `cache` is `packCache`, `pull` the puller
and the stream it reads. `left` is what may still go wrong in a run; every set of
`Bounds` is one company of hazards. `touched`, `unread`, `rotten` and `seen` are
history: what changed since the pass began, what was there and the pass could not read,
for how many passes in a row a file has been rotten, and what the passes recorded.

| module | actions | code |
|---|---|---|
| `Assets` | `Edit`, `Restore`, `Rot`, `Remount` | other plugins, operators and the disk (external) |
| `BackupIndex` | `BeginPass`, `WalkClass` | `runIndex`, `indexPass` up to the first class; `walkClass` |
| | `CarryFile`, `ReadFile`, `SkipFile` | a file whose hash is carried; `hashFile`, the flags of suspects; one that cannot be read |
| | `RecordClass`, `Seal` | `upsertFiles` with its conflict clause; `sealGeneration` |
| `BackupPull` | `FetchManifest`, `OpenPack` | `BuildManifest` and `StreamPack` on `plansFor` and `planPacks` |
| | `DigestMember`, `CopyMember`, `SendRaw` | `writePack`, which reads a member twice; `writeRawPack` |
| | `FinishPack`, `Acknowledge`, `GiveUp`, `DropStream` | the puller (external), `recordAck` |
| `BackupDumps` | `StartDump`, `RemoveDump`, `Preflight` | `runDBDump` up to its space check, `pruneDumpsTo` |
| | `Publish`, `WriteNote`, `EndDump` | `pg_dump` and the rename, `writeDumpManifest`, the second pruning |
| `Backup` | `Crash` | the end of the worker, in the middle of everything |

## 3. What is checked

Runs marked "violation" show where the code does what a comment says it does not
(section 5). Every property of the other runs is shown to be able to fail: a mutant of
a mapped definition makes the same run, with the same bounds, refute it.

| run | instance | shows |
|---|---|---|
| `leases_safety` | 2 workers × 2 jobs on one key, one worker healthy, the other arbitrary | `RefCountExact`, `ReliableOwns`, `RowNotDroppedUnderHold` |
| `leases_live` | 2 workers, any of them slow, failing, killed | `DisplacedPassStops`, `OrphanFreed` |
| `crawl_two` | 2 workers, adopted group, leases taken over at work, operator's rescans and re-walks, batches of 1 | `CoverageHonest`, `NoHole`, `DoneSound` |
| `crawl_live` | 1 worker, two accounts, forward rewind, budget of one batch | `BackfillFinishes`, `ForwardCatchesUp` |
| `staging_worlds` | 14 situations, see below | `RecordedHeld`, `CompleteQueued`, `WalkPastFinal`, `StoredWhole`, `CompleteNotDropped`, `ReadyDrained` |
| `economy_all` | 31 sets of up to 5 requests, 1 or 2 faults | `TypeOK` (no purse below zero), `Conserved`, `AllOrNothing`, `SaleIsAtomic`, `NoOversell`, `PaidForDelivery`, `DrawnOnce`, `StreakHonest`, `ExpiredUnpaid`, `PaidInFull`, `UnitsExact`, `AwardedOnce` |
| `site_all` | 15 cases of up to 4 visits, up to 1 fault and 3 ticks | `CreditHonest`, `FreeWasGranted`, `SpendsMatch`, `SpentApplies`, `InvoiceRecorded`, `OneRewardAMonth`, `ToldBeforeWarned` |
| `backup_all` | 13 budgets of edits, rot, unmounted volumes, faults, crashes, drops, over up to 4 passes and 3 dumps | `AckedWhole`, `IndexHonest`, `KeepsNewest`, `DumpRecovers` |
| `economy_first_claim`, `economy_two_claims`, `site_warned`, `backup_gate` | violations | section 5 |

Why these bounds. *Leases*: rows of different keys do not interact except through the
reference counts and the pass that loses all its keys at once; the proofs of section 4
cover any number of both. A TTL of 3 ticks with renewal every tick leaves room for two
missed renewals, the shape of the code's TTL/3 period. *Crawl*: `crawl_two` has three
articles, batches of one, first windows of two and a budget of two batches, so that a
pass may stop early, two batches of one plan may be divided by a takeover, and the
second article can be a gap on its own. `crawl_live` has one worker, three articles,
batches of two, first windows of two and a budget of one batch, so that the last batch
is partial and no walk ends in one pass; the shallow account lacks the first article.
Longer groups, wider windows and more workers are covered by the proofs alone, under
their hypotheses. *Staging*: a set needs a first, a middle and a last batch around two completeness
checks. The posts are a file of four parts, whole, torn and almost absent; one with a
segment reposted worse; two-file posts with a par2 file, whole and without a data part,
without par2, without a data file. Single-batch worlds have the clock and the faults of
batches and builder; two-batch worlds race without the clock.

*Economy*: the plugins share only balances, so a set of requests is one plugin's
interesting company (two buyers of the last unit and an edit; an applicant, an
approver and a denier; a backer who withdraws while an offerer claims and delivers;
three donors of whom two fill the pot), with one mixed set that puts five plugins on
one purse. Balances of 4, 2 and 0 make the second purchase of each member fail. Two
faults let a compensation fail after the call it compensates; sets of the reward
engine, whose jobs run for ever, have one. Two pots, two days and counters up to 3
(`MaxCycles`, `LastDay`, `MaxCount`) are the bounds that stop growth; the proofs of
section 4 have none of them. *Site*: `Cases` pairs each set of visits with its
faults, ticks, rows and windows: two donations that meet the goal, a redelivery beside
the first delivery, two spends of one token, a spend beside both timers, a client
that moves, stops, restarts and expires, two hosts under the lock, sweeps beside
clients, spends and pardons. `Goal` is one payment; a month of three ticks holds a
window of two. One fault in the longest cases, none where the race alone is meant. *Backup*: two
assets whose turns to be read again alternate (`Denom` 2), so that every pass reads
one and carries one; a large dump in a pack of its own beside a small pack; two plans
kept (`KeptPlans` 2), so that a third generation evicts one; two dumps kept on a disk
with room for two. The budgets pair what may meet: an edit and a crash between two
passes while a puller is halfway, an edit and a drop within a pack, contents that come
back, rot beside a failing pass or beside an edit, dumps that are killed and refused.

What the properties say, in a sentence each, is above their definitions. Some need a
word here:

* `ReliableOwns` is about *time left*, not ownership alone: a worker with punctual
  timers and a working database owns every key it works on, with the expiry still
  ahead of its next renewal.
* `NoOversell` says both that the stock of a limited item is never below zero, which is
  what two claims of the last unit would do, and that stock and units out add up to what
  was put there, which a lost or doubled restore would break.
* `PaidForDelivery` says that a pool is settled only when delivered and that exactly
  one deliver call, of the member who held the claim, carries or carried its payment,
  whatever claims lapsed, failed or changed hands and however often the call is
  repeated. A backer who withdraws from a claimed request is the host's to refuse
  (`WithdrawBacking`); the plugin does not check it, and no property is about it.
* `NoHole` is about the span nobody looks at again: the crawl looks above the high
  watermark, the backfill below the back watermark. It relates the two marks to a
  ghost of what was fetched.
* `CompleteNotDropped` allows three ways out for a complete set (stored, refused by
  policy or by the store limit, expired unattended) and finds the others: eviction
  and sweep.
* `AckedWhole` compares what the puller kept with what the pass recorded, not with
  the manifest it was given: the manifest may be planned again from rows that later
  passes have stamped. It allows one difference, contents that stood both before and
  after the generation (section 5).
* `IndexHonest` has two exceptions. Bytes that rotted under an unchanged stat may stand
  in the inventory as they were, for less than `Denom` sealed passes in a row that
  began after they rotted. And a file that the pass had to read and could not
  (`unread`) is left out: the pass goes on and seals a generation without it
  (`backup/inventory.go:406-409`, `453`), although the file stood still.

**Fairness.** `leases_live`: time passes, a process that is up beats, its renewers
tick, and a pass that began claiming goes through its keys (timers of the Go runtime
and a loop; no claim or renewal is assumed to succeed). How long a pass works, and
whether it ever ends, is not assumed.
`crawl_live`: both jobs of a process keep being scheduled (`RunLoop`), and faults end
at some point (`Calm`); which step of the job comes next is not assumed. Arrivals and
expiry need no fairness, and are bounded. `staging_worlds`: a batch that began goes
on or fails, the build job runs, time passes; neither the sink nor any fetch is
assumed to succeed. `ReadyDrained` is stated for worlds where only the sink fails: a
build job that dies in every round drains nothing.
`site_all`: the steps of a webhook (its redeliveries included: BTCPay retries until a
2xx) and of the refresh timers are fair; clients, spends and sweeps get no fairness. A
finite number of faults is a bound of the run, and is what `InvoiceRecorded` means by
"in the end". `economy_all` states safety only: its requests simply end.
`backup_all`: the steps of the dump job are fair, because the scheduler runs it again
and again and a run ends; crashes and faults are as many as the budget says. Index and
puller get no fairness.

**Bounds in the guards.** `MaxArticle` on arrivals, each reset kind once
(`MayReset`), `StoreAttemptLimit` is the code's own; `MaxFaults` on `Fault`,
`MaxCycles` on `PotInsert`, `LastDay` on `Midnight`, `MaxCount` on `Count` and `Post`,
`MaxTicks` on `Tick`. `Tick` also waits for a webhook between reading the time and
inserting its window (`WindowSoon`): that takes milliseconds, a tick is hours. In the
backup, `left` on whatever goes wrong, on `BeginPass` ("gens"), `StartDump` ("dumps",
with `MaxDump`) and `FetchManifest` ("pullers").
The deadlock check is off in `staging_worlds`, `economy_*`, `site_*` and `backup_all`,
where what a situation holds ends and nothing is left to do; the other runs check it.

## 4. What is proved

All by TLAPS, for every value of the constants that satisfies the named assumptions
of the modules.

| theorem | statement | supposed |
|---|---|---|
| `UsenetLeasesProofs!TypeCorrect` | `Spec => []TypeOK` | |
| `UsenetLeasesProofs!Inductive` | the strengthening is an inductive invariant | |
| `UsenetLeasesProofs!RefCountCorrect` | `Spec => []RefCountExact` | |
| `UsenetLeasesProofs!ReliableOwnership` | `Spec => []ReliableOwns` | |
| `UsenetLeasesProofs!RowKept` | the action property `RowNotDroppedUnderHold` | |
| `UsenetCrawlProofs!TypeCorrect` | `Spec => []TypeOK` | |
| `UsenetCrawlProofs!CoverageIsHonest` | `Spec => []CoverageHonest` | no forward rewind |
| `UsenetCrawlProofs!NothingUnreadBetweenMarks` | `Spec => []NoHole` | `Tended`, accounts of equal retention, `NoSecondFirstPass` |
| `UsenetCrawlProofs!DoneIsSound` | `Spec => []DoneSound` | the same |
| `UsenetStagingProofs!RecordedArticlesAreHeld` | `Spec => []RecordedHeld` | |
| `UsenetStagingProofs!CompleteSetsAreQueued` | `Spec => []CompleteQueued` | `SteadyPosts` |
| `UsenetStagingProofs!AbsenceIsFinal` | `Spec => []WalkPastFinal` | `Contiguous` |
| `UsenetStagingProofs!StoredReleasesAreWhole` | `Spec => []StoredWhole` | `SoundPosts`, `NoUnmarked` |
| `PointsEconomyProofs!Framed` | `Spec => []Frame`: the shape of every request in the composition | |
| `PointsEconomyProofs!SaleInvariant` | `Spec => []SaleInv` | |
| `PointsEconomyProofs!NeverOversold` | `Spec => []NoOversell` | |
| `PointsEconomyProofs!SalesAreAtomic` | `Spec => SaleIsAtomic`, the refinement of `AtomicSale` | |
| `PointsEconomyProofs!SalesAllOrNothing` | `Spec => []AllOrNothing` | |
| `PointsEconomyProofs!PoolsPaidForDelivery` | `Spec => []PaidForDelivery` | |
| `PointsEconomyProofs!StreaksAreHonest` | `Spec => []StreakHonest` | |
| `PointsEconomyProofs!PotsDrawnOnce` | `Spec => []DrawnOnce` | |
| `PointsLedger!PointsAreConserved` | `Spec => []Conserved` | |
| `PointsLedger!PointsTypes` | `Spec => []TypeOK` | |
| `PointsLedger!CreditedInFull` | `Spec => []PaidInFull` | |
| `PointsLedger!AwardsAreOnce` | `Spec => []AwardedOnce` | |
| `PointsLedger!UnitsAreExact` | `Spec => []UnitsExact` | `OneCounter` |
| `PointsLedger!LapsedUnpaid` | `Spec => []ExpiredUnpaid` | `JobsNeverLapse` |
| `TrackerSiteProofs!TypeCorrect` | `Spec => []TypeOK` | |
| `TrackerSiteProofs!SpendsHaveTokens` | `Spec => []SpendsMatch` | |
| `TrackerSiteProofs!FreeTrafficWasGranted` | the action property `FreeWasGranted` | |
| `TrackerSiteProofs!WarnedWereTold` | `Spec => []ToldBeforeWarned` | `OneSweeper` |
| `TrackerSiteProofs!CreditsAreHonest` | `Spec => []CreditHonest` | `OnePeer` |
| `TrackerSiteProofs!MonthsAreRewardedOnce` | `Spec => []OneRewardAMonth` | `NoEarlierWindow` |
| `BackupProofs!AckedAreWhole` | `Spec => []AckedWhole` | |
| `BackupProofs!IndexIsHonest` | `Spec => []IndexHonest` | |
| `BackupProofs!NewestDumpStays` | `Spec => []KeepsNewest` | |

**What is supposed.** The named assumptions of the modules are about constants: sizes
and periods are positive, plans and worlds have the right shape, requests and stakers
are finitely many. Where a theorem supposes more, the third column says so, and the
hypothesis keeps out behaviours in which the code does break the property:

* `Tended`: operators reset a group that has been crawled, while no pass runs, and do
  not rewind it forward (a reset under a running pass loses what the pass had read);
  `Leads = {"deep"}`: an account of shorter retention makes the window jump;
  `NoSecondFirstPass`: the group was adopted, or one worker crawls it. The instance of
  `crawl_two` satisfies all three.
* `SteadyPosts`: every post is hopeless, in that no part of it ever makes a complete
  set, or its articles agree on what they claim (`Agreed`), their parts and files are
  numbered within that (`Numbered`), a file 0 beside numbered ones has one part
  (`Plain`), and every window with articles of it has one of a largest file
  (`LargestAmong`). Subjects that contradict each other raise the totals in Redis above
  what any article has, and the set then waits for an article nobody posted; and
  `isGroupComplete` takes a file unknown to its metadata for as large as the largest it
  knows. Every world of `staging_worlds` is such a post.
* `Contiguous`: no gap within a post is wider than a fetch, and where the span may fail
  to be recorded the post is no longer than one. `SoundPosts`: `Agreed` and `Numbered`.
  `NoUnmarked`: the mark of a broken release does not fail. All are satisfied by the
  worlds; the last is a hazard with its note.
* `OneCounter`: a member's units are counted by one job at a time, as the single loop
  over the counters in the rewards job does (`rewards/plugin.go`). Two counts that read
  the same mark would both grant what lies above it, up to their own counts.
* `JobsNeverLapse`: a reward that a job grants does not both expire and settle at once;
  the plugin's validator tells an administrator that such an expiry never applies
  (`rewards/validate.go`), but does not refuse it. A job that is cut short between
  handing a line over and marking it starts again without that grant in hand, and the
  sweep could then take a grant part of which was paid. Every plan of the runs satisfies
  it.
* `OneSweeper`: one run of the sweep at a time, which the host's job loop provides.
* `OnePeer`: each client has a peer id of its own and announces one report after the
  other. Two announces of one peer that read the same snapshot credit it twice. One case
  of the run has two members' clients under one id; TLC alone covers it.
* `NoEarlierWindow`: no window is open at the start where a donation may meet the goal:
  the marker does not know of windows opened by hand.

**Leases.** Assumed: `0 < RenewEvery < TTL`, `0 < BeatEvery < DeadAfter`, finitely
many jobs. `ReliableOwns` is not inductive: a step that renews must know that the
owner is still the worker, a step of a sibling that its claim guard fails, a tick
that time is left afterwards. The strengthening has the types, the shape of a pass
(an idle pass holds nothing, keys asked for and keys claimed are disjoint), the
exact reference counts, the fresh beat of a healthy worker with a pass in flight
(`BeatFresh`), and the margin of its rows (`RowMargin`): the time left on a row and the
time since the last renewal add up to at least the TTL, and a renewal is due before
the TTL is spent. The claim guard then fails for everybody else (owner present, not
expired, beat fresh), and a release by another job of the same process keeps the row
because the count is exact.

**Crawl, types.** Watermarks and batches stay inside the group: the windows are
maxima and minima of sets of articles, so the proof rests on the existence of a
least element of a set of naturals (from the library's well-foundedness of `<`). It
needs one strengthening, `SlowKnown`: a row that exists knows the server's low.

**Crawl, coverage.** `CoverageHonest` is inductive together with `HandsHonest`: what
a pass in its recording phase holds in its hands was fetched. It holds for any number
of workers, lost leases, failed writes and for rescans and history re-walks *while
passes run*. The forward rewind is excluded because it asks for articles again and
deliberately leaves them recorded.

**Crawl, no hole.** `NoHole` speaks of the row; passes act on marks they read
earlier. `HoleInv` therefore says of every mark a backfill holds what `NoHole` says
of the row's (`BackSound`), and of a forward pass that it started no higher than
where the row still stands, that what lies between that and its start is below the
server's low, and that what it fetched reaches from its start to its end
(`CrawlSound`). Advancing (`AdvanceSound`) splits the span the row gains at the
pass's start; the backfill's closing write (`LoweredSound`) splits it at the mark the
pass had read, with `CoverageHonest` below. A rescan puts the back mark right below the
high one, so the proof across resets needs to know that the high mark itself was read
(`HighRead`). The ways in which the code does open a hole are the hypotheses and are
listed as hazards. `HoleInv` was model-checked on the instance of `crawl_two` before it
was proved.

**Crawl, done.** `DoneSound` bounds what is unread by the marks of the row; a walk that
will set the flag has planned from older ones. `DoneInv` says of a planned walk that
what it has in hand begins with the newest unread article (`NewestFirst`, from how
`backfillGapsFor` and `gapJobs` order and cut the gaps), of one that reached the horizon
that nothing down to it is unread, and that a row that is done stays so when the server
loses its oldest articles and the crawl adds above. The batches of a plan are shown to
cover its gaps exactly (`GapCover` and the lemmas before it).

**Staging, what is held.** `StateInv` has the types and says that a window is in one
worker's hands (`BusyInv`); the lease on the group is what the code has for it.
`HeldInv` extends `RecordedHeld` to windows whose articles were put and that are not
recorded yet. That a later batch, a repost or a stronger duplicate leaves in each place
an article that the earlier one does not beat is a fact about `Put`, whatever the order.

**Staging, what is queued.** `QueueInv` follows a set that is neither stored nor dropped.
What the metadata claims, articles of the set claim (`Totals`); so does the copy that a
worker past the fold carries (`Copies`), and the claims of its window and of all recorded
ones are in the metadata (`Counted`); what is queued is complete (`QueuedFit`). A
complete set that is not queued is `Awaited`: some window with articles of it is not
recorded, and whoever has it in hand has not counted yet, or counted enough for its look
to succeed, or is about to queue (`OnlyOnTrack`). The step that matters is the last
look: when the last article is put, the length bound (`NeededHeld`), the field names and
`isGroupComplete` (`GroupIsComplete`) all agree with `IsComplete`. `QueueInv` and
`SteadyPosts` were model-checked on the worlds of `staging_worlds` before the proof.

**Staging, what is given up and what is stored.** `AgeInv` says that the keys of a set
that was never removed run out together, and `SpanInv` that the span is made of posted
articles and contains every window recorded; a set that the sweep judges dead has its
whole neighbourhood covered, so by `Contiguous` a window not fetched yet cannot hold any
of it. `CatInv` says of the builder that what it is about to store is complete, or was
tallied and is whole or will be marked; that the tally of `salvageTally`, maxima and sums
over the articles at hand, finds nothing missing only of a set that is `Whole` is a fact
about sets (`NothingLacking`).

**Economy, the frame.** Everything about one plugin rests on the fact that the
others leave its variables and its requests alone. `Frame` says that every request
is a handler record with the plan's operation, and that only requests of the reward
engine and of achievements stand where grants are settled (their settling steps are
shared). From it each step of the composition either belongs to a plugin or leaves
its requests as they were.

**Economy, the shop.** `SaleInv` says for each purchase, by its `pc`, what it has: a
unit from `claimed` until it is granted or put back, points in hand from `charged`
until granted or refunded, a grant from `granted` on; and of the item that it is
`Gone` or a row. `NoOversell` needs more: `StockInv` counts the units (cardinalities
change by one at each claim and restore) and keeps the stock at zero or more, as a
claim asks for one unit in the statement that takes it. The refinement has one step per action:
`Grant` is `Sell`, the refusals and deaths are `Refuse` and `Lose`, `EditSave` and
`DeleteItem` are `Stock`; everything else must leave `Shelf` and `SaleState`
unchanged, which is where `unit`, `InFlight` and the negative stock of an unlimited
item meet (a purchase that claimed a unit before an edit made the item unlimited).

**Economy, pools, pots, days.** `OfferInv` adds to `PaidForDelivery` the shape of the
offer rows (settled only when delivered) and that a delivering call stands at a delivered
row or carries nothing. `PoolInv` says of each row that exactly one call took the
delivery and where the pool is, seen from it (`PaidOnce`): the update that takes it is
conditional on `claimed`, so later calls are refused. It also says that a call which has
not yet asked holds nothing (`Phase`). `PotInv` has the shape of a pot (what is paid
is at most the winner's share of its total, nothing is paid while it is open or before
there is one) and says that a donor has seen no more than the pot's total, that who
stands at the draw has a closed and unpaid pot, and that no two stand at the draw of
one pot. `DailyInv` says of each member's row that each of the `streak` days behind it
has its award, and of each claim in flight that it carries its date.
`EndsInv` says of each refused, done
or dead sale what `AllOrNothing` asks, and of each one under way what it holds.

**Economy, conservation.** `Conserved` adds columns: balances, points in hand, stakes,
pots, applications, what was spent, minted and paid out. Each is a sum over members,
requests, pots or grants, and a step changes one summand or two. `Sums` proves, from the
definition of `SumFunctionOnSet` in the community modules, that a sum over a finite set
is the value of an element and the sum of the rest (`SumTake`), and what it becomes when
one value changes (`SumChange`) or no value grows (`SumLeq`). The definition is
recursive; the proof builds the recursion's values by an induction that the library has
for finite subsets in first-order form. `LedgerInv` says what each record may hold by its
`pc`: points in hand only where something was taken and not placed (`Purse`), a price paid
for what was bought, an application's points while it is pending (`Applying`), gifts in
equal shares (`Giving`), the reward of the day (`Dated`), lines and units of grants
(`Granting`, `Scoring`). There is one lemma for each action, of what it moves from which
column to which. A balance that a handler reads as sufficient may be spent before it
deducts; the deduction is conditional, so no column is ever below zero, and `PointsTypes`
follows with what the other invariants say of their rows (`ColumnsInv`).

**Economy, grants and awards.** `PayInv`: a credited grant has every line handed over,
and a settlement that has lines left to pay has handed over the others and, at the mark,
the one that it marks; what was handed over stays so, and rows are only added.
`AwardInv` relates the row of a completion to the grants: a row is paid only with the
badge's grant, and is announced only by the request that completed it. Two requests
that announce for one member cannot exist (`Apart`), as the completing update returns
one row.

**Economy, units.** `UnitInv`: what a member was granted by the unit adds up to the
distance from the baseline to the highest mark, and a job about to grant has exactly
the rest of its count in hand (`Counting`). The units of a grant move the sum by what
its mark moves the maximum; a count that another job raised in between would not be the
rest any more, which `Alone` excludes. Grants of achievements and one-off grants carry
no mark, and no step changes the mark or the units of a row (`GrantsGrow`).

**Economy, expiry.** The sweep passes over a grant with a marked line. `LapseInv` says
of a line that was handed over and not marked that a request that settles the grant by
a claim or a trigger is at the mark of that line, or died or failed there (`Holds`). So
whatever the sweep takes with a line handed over has such a request (`Busy`), which
keeps it until it settles the grant or ends in failure.

**Site.** `SiteInv` consists of `Frame` (visits keep the operation, the caller and the
argument of the plan) and the time, `TokenInv` (the shape of tokens, with
`SpendsMatch`), `WindowInv` (windows have their length, and a visit that pays for a
goal carries a time and a month), `TableInv` (every perk and end that a process has in
its table, or that a refresh has read and not installed, is backed by a token or a
window row, so that a table can be older but never more generous than the rows) and
`AnnounceInv` (the types of rows, clients and swarms). `DonationInv` adds, for the
types, what a webhook carries to its row and that rows and settlements are of the past.
`FreeWasGranted` then follows at the credit,
because the announce looks at the end of every perk and window again. `HitRunInv`
says that a notice once recorded is never changed, that whoever has one has heard of
it, is just being told, or lost it with a sweep that died, and that every candidate
on a sweep's list carries the notice that is recorded. The warning step must exclude
"just being told": that is the hypothesis `OneSweeper`.

**Site, credit.** What a report may still add to a row is what its client moved since
the snapshot in Redis or what a report in flight found new when it read one (`Owing`).
`CreditInv` says that what was credited and what is owed are together no more than what
moved, for upload twice that once a token doubles it; the sum is over the requests of a
member on a torrent. A restart of the client, an expired or deleted snapshot and a lost
answer only lower what is owed. A report that stands at the credit with its snapshot
written owes nothing besides (`Settled`); a snapshot that was not written sets `lost`.

**Site, months.** Between its look at the marker and its own mark a webhook may be
overtaken. `RewardInv` says that a month with a window is marked, or a webhook is about to
mark it and the window is as fresh as this tick or the last (`OfMonth`), and that a
webhook on its way to open one meets, of its month, only windows still open (`Running`).

**Backup, what is reported held.** `IndexInv` has the shape of the inventory: every
recorded file has a row whose interval contains its generation, whose ends were both
recorded, and no two rows agree in path and contents. A row that is in a generation
which did not record it therefore holds contents seen before and after, which is
`Stands`, and stamping rows anew (`StoreKeeps`) keeps it so. `CacheInv` and `PullInv`
say that the packs in the cache and those of the puller serve a sealed generation
(`Served`), and that every member sent so far was digested as the pack describes it;
`HeldInv`, that a pack that was kept holds what its id says, since the puller compares
it with what was digested. `AckedInv` adds up to `AckedWhole`.

**Backup, what a pass records.** `FaithInv`: the latest row of a path has its contents
if it has its stat and nothing rotted, since only rot changes the one without the
other. `CoverInv` says of a file that stood still what the pass has done with it: it is
yet to be done, or in the batch, or recorded, as it is unless it rotted and was not
due; or the pass could not read it (`unread`), and the generation is without it. `CountInv` bounds the passes it has been rotten by the passes since it was due
(`Ago`, a remainder that grows by one until its turn comes, `TurnComes`); a file that
is due is read, so the count cannot reach `Denom`. It needs `IndexInv` for the rows that
the batch meets and `DumpInv` for the dumps, which appear among the files once.

**Backup, dumps.** `DumpInv` says that what a run is about to remove is older than the
newest published dump. It does not mention how the run was ended.

**Only model-checked**: all liveness and the other temporal properties (fairness and
ENABLED are beyond the prover). Of the safety properties, `CompleteNotDropped`, an
action property of the worlds that is false of posts in general (the claims of a file
that only failed stores removed outlive its articles). The type invariants of leases,
crawl and site are proved and not run.

## 5. Where code and comments disagree

Each is a run that TLC refutes, and a finding in `PROJECT.json` with the lines quoted.

* `economy_first_claim`: two tabs of a member who never claimed a daily reward find no
  row to lock and both take the day, which the README says the row lock prevents.
* `economy_two_claims`: two claims of one pending grant read the same unsettled lines
  and both pay them, where a comment calls a double settlement a no-op.
* `site_warned`: a member whose warning lapsed or was lifted is told of a warning again
  at every sweep, where the interface promises one warning per torrent.
* `backup_gate`: a volume that is not mounted leaves a class empty; the pass seals the
  generation (`backup/inventory.go:453`) before the shrink gate is asked
  (`index_job.go:68`), so it is served and is the baseline of the next comparison,
  where three comments say that the pass refuses to seal it.

Others are kept as hazards with their notes, and no run shows them. A renewer that
sees only errors works on for two thirds of the TTL, while the dead-owner clause gives
its rows away after two minutes without a heartbeat (`usenet/lease.go:169`). A
generation that is planned late may have, of a file whose contents came back, the
revision that stood before and after it, although "Sealed generations never change"
(`backup/manifest.go:98`). A pass that fails after it read a file and before it
recorded it has used up the file's turn, although "every file is verified once per
`denom` runs" (`backup/inventory.go:330`). Two first passes of a new group that saw different
newest articles, on two replicas, leave a hole between the watermarks that neither
walk visits (`usenet/crawl.go:360`).

Seen in earlier forms of the crawl and staging modules: a backfill that finishes after
the lead account deepened sets the done flag over the re-arm; a critical group with
nothing outstanding and no flag holds the LOW tier; the builder's withdrawal by name
removes an entry queued since.

## 6. Limits of the model

* One group, one backbone, one release set, one builder. Groups share budgets and
  sets share rounds of the builder; both are nondeterministic prefixes here.
* Resets under a running pass are modelled (`QuietResets = FALSE`) and break
  `NoHole` and `DoneSound`; the runs state these between passes.
* Worlds of `staging_worlds` that combine two batches with the clock, or lose a span
  fold of a set that can be judged, or fail between a salvaged release and its mark,
  break a property; each is a hazard with its note in `PROJECT.json`.
* The window of a batch is recorded together with its staging, while the code records
  it at the end of the pass: the sweep of the model judges earlier than the code's,
  never later. A pass that dies in between is a window fetched again.
* Economy: the host's ledger, offers and escrow are external, modelled from the
  calls in `src/` and the comments of their interfaces. Left out: references of event
  windows and recurring rewards, achievements of single events (`fireTriggers`), the
  weights of draws, prizes of a lootbox other than by claim. The consolation of a
  pot is recorded as granted and not settled through `RewardGrants`.
* Site: left out are promoted and neutral torrents, passkeys and registration,
  dual-stack announces, the batch limit of a sweep, exemptions other than the free
  factors (`Free(Web, …)`). `CreditHonest` excepts a snapshot whose `Put` failed
  (`lost`): the code drops that error and credits the traffic again.
* `OneRewardAMonth` excepts a marker that could not be read or written, and a window
  whose insert committed and was reported failed, for which the code sets no marker
  (all of them `unmarked`),
  and lets two callers at once open windows that overlap, as the comments in
  `goalreward.go` do. A webhook in flight across a month's end writes the old month's
  marker over the new one's, since it names the month by the time at which it began;
  the next donation then opens a second week. The model has this, and counts it as
  `unmarked`.
* Two deliveries of one invoice at once whose fetches see different assets make two
  rows; noted with the hazard, no property forbids it.
* Backup: a class is one batch (the code writes one for every 512 files), and a plan
  reads the classes in one step. The puller is modelled from `pluginapi/backup.go`
  and the README. Not modelled: the bytes of the ZIP format, priorities of packs, a host
  that passes no `FreeDisk` or `DBSize`, for which the code skips the pre-flight
  (`dbdump.go:141`), table exclusions of a dump, mount warnings and the gate's report, the sweep of the retired
  archive job. The runs keep two dumps; one, the floor of `dbdump.go:132`, is covered by
  the proof only. An existing flag on a path that is gone stays, here as there.
* The map covers the protocols, a small share of the repository's lines: most of it is
  pages, forms, scrapers and views, whose state changes are single statements.
* Left out: the one-time migration of the ready queue from a list to a set, the
  Postgres staging backend, NZB writing, titles and categories, telemetry, and the
  network. The ways they fail appear as failing steps.

## 7. Plan

Done: the three usenet modules, the economy with the refinement of `AtomicSale`, the
tracker site and the backup, each with its invariants proved but for those listed at the
end of section 4. Next, in this order; a new component replaces or merges runs where
that keeps the project small.

1. `GroupLock`, an abstract specification of mutual exclusion with lapse, that
   `UsenetLeases` implements for healthy workers and that `UsenetCrawl` uses in place
   of `owner` and `Takeover`; the refinement checked and its step proof.
2. `UsenetAssign` (eligibility, reaping, shares), `UsenetSchedule` (tiers, pressure,
   drain) over two groups, `UsenetHealth` (sampling rounds and the requeue).
3. `UsenetReadyMigration` (`redis_staging.go` 135–262): entries survive the migration
   of the queue while two versions of the builder run.
4. `ranks` (timed ranks over the shop's grants), `agent` (its job leases), `tickets`,
   `polls`, `roadmap`, as further parts of the composites.
