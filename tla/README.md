# Verification of the Olympus protocol metrics pipeline

TLA+ modules for the program under `src/`, the TLC runs that check them and the
TLAPS proofs about them.

## The system

```
 chains --events, RPC--> indexer (Envio) --> Postgres/Hasura
                                                 |  GraphQL reads
                                                 v
                                   metrics-publisher (hourly one-shot job)
                                                 |  S3 puts, deletes, lock
                                                 v
                                   bucket: shards, manifest, lock
                                                 |  S3 reads
                                                 v
                                   metrics-api (HTTP) <-- client library
```

Each part runs as a service of its own; they share state only through the
database and the bucket, and no transaction spans two requests.

### Inventory

| component | state | operations | what is hard | what makes it correct |
|---|---|---|---|---|
| publisher lock (`publisher.ts:505-572`, `artifact-store.ts`) | object `v2/publisher.lock` | conditional put, take-over of an expired lock, read-back, conditional delete | expiry under a running holder, lost answers, late and repeated requests, crashes | a run with an unexpired lock owns it; a lock is never removed or replaced by another run before it expires; a dead run's lock is taken over |
| publisher run (`publisher.ts:134-318`) | shards `v2/deployments/<id>/<kind>/daily/<month>.json`, `v2/manifest.json`, locals | read manifest, lock, read bounds and rows, write shards, write manifest, list and delete stale shards, unlock | state read before the lock, in-place overwrites, failure between any two requests, handover to a new deployment | the manifest lists only existing shards and exactly those of the announced months; announced days are never lost; clean-up is complete; the lock is given back |
| ranges and dates (`publisher.ts:383-409,618-639`, `date-ranges.ts`) | none | refresh range, first range, month keys, announced dates | month and boundary arithmetic | successive ranges leave no gap |
| metrics source (`metrics-source.ts`) | none (reads Hasura) | bounds, progress, paginated rows | pages by offset while rows are written; three queries at different moments | every row of the range exactly once |
| artifact store (`artifact-store.ts`, `timeout.ts`) | the bucket | get, put, conditional put and delete, list | an abandoned request may still take effect | conditions are evaluated by the store |
| indexer start-up (`start-envio.ts`) | the database | start with reset on Railway | a restart without a new deployment id | published data survive a reindex |
| token ledgers (`Erc20Transfers.ts`, `BackfillTokenBalances.ts`, `Lender.ts`, `Staking.ts`) | balances, supplies, AMO amounts, sentinel, update log | transfer, mint, burn, backfill, AMO added and removed, stake and unstake | order of registration, mint and backfill; clamps at zero; ids of update rows | balance = seed + sum of deltas; the log replays to the state |
| pool states (`BalancerPools.ts`, `Univ2Pools.ts`, `Univ3Pools.ts`, `KodiakLps.ts`, `SOhmV3.ts`, ...) | last state of each pool | events, seeding by RPC | a seed at the end of a block and events of the same block | state = chain state at the block |
| bond auctions (`BondManager.ts`, `GnosisEasyAuction.ts`, `GnosisAuctions.ts`) | auction records | launched, cleared, supply rows | partial burns, expiry boundaries | each auction counted once and in one phase |
| daily snapshots (`BlockHandlers.ts`, `global.ts`) | per-chain and cross-chain rows per day | snapshot of a chain | six chains writing one row in any order; preserved fields; stale categories; skipped days | cross-chain row = sum over chains; fields known on Ethereum survive |
| record builders, supply math (`records.ts`, `math.ts`, `CoolerLoans.ts`, ...) | none | rows from reads | signs and multipliers | supply identities |
| pricing (`pricing/`) | cache and in-flight set per snapshot | price and value lookups | recursion over pools, the cycle guard, order dependence | termination; no fallback kept where a price exists |
| RPC client and contract caches (`rpc-client.ts`, `contract-cache.ts`) | caches, limiter queue | cached read, retry, wait | a global swapped across awaits; failed entries | a cached value is of its own block |
| metrics API (`server.ts`) | none | bounds, daily metrics, assets, supply, legacy operations | manifest and shards read at different moments | an announced day is answered from one version |
| client (`client.ts`) | cached bounds | paged and plain reads | stale bounds, cuts between pages | pages cover the range exactly once |
| chain configuration, RPC effects, OpenAPI text, release and audit scripts | none | - | - | not modelled (data, pure I/O, developer tools) |

`PROJECT.json` lists the components with their status and every hazard at its
line, with the properties about it or the reason why there is none.

## Modules

| module | models |
|---|---|
| `PublisherLock` | the lock protocol, request by request, with its faults; also the abstract specification the publisher refines |
| `PublishRange` | days, months, refresh ranges, announced dates (no state) |
| `Publisher` | publisher runs over the source and the store; EXTENDS the two above |
| `PublisherInv` | the inductive invariants of the publisher: store, values, dates, rows, clean-up, latest dates, stored days |
| `PublishedArtifacts` | abstract specification of the store: what publishing promises to readers |
| `PublisherStore` | the refinement mapping from `Publisher` to `PublishedArtifacts` |
| `MetricsApi` | the HTTP server: a request validates, reads the manifest and then shard after shard |
| `MetricsClient` | the client library over `MetricsApi`, while the store changes as `PublishedArtifacts` allows |
| `MetricsInv` | the inductive invariants of the API and the client |
| `Rows` | tables of rows by id, and the Maps of the code, as functions (no state) |
| `TokenLedger` | balances, supplies, AMO amounts, staking positions of one contract, and the backfill |
| `PoolLedger` | Balancer pools with their seeding, and contracts whose last report is kept |
| `IndexedBlocks` | the chain executes blocks of logs, the indexer handles them: composes the two ledgers |
| `SnapshotRecords` | the builders of token records and supply rows of a snapshot (no state) |
| `BondAuctions` | launched and cleared bond auctions, the bond manager's OHM, their supply rows |
| `GlobalSnapshot` | snapshots of all chains, their values, the shared row of a day; composes the two above |
| `ContractReads` | retried contract reads and the two caches, with overlapping users |
| `Pricing` | price, value and unit price lookups with memo and cycle guard; EXTENDS `ContractReads` |
| `PublisherProofs` | theorems and proofs: the lock protocol; the publisher implements it; its manifest never dangles |
| `PublisherDatesProofs` | types, announced dates, rows, handover and clean-up of the publisher |
| `PublisherStoreProofs` | latest dates, announced days, and the refinement of `PublishedArtifacts` |
| `SumProofs` | lemmas about sums over finite sets |
| `LedgerProofs` | the ledgers of tokens, the immutable rows and the pools |
| `SnapshotProofs` | the shared row of a day; records and supplies against values; bond deposits |
| `ReadsProofs` | contract reads and their caches |
| `MetricsProofs` | lemmas about lists of days; answers of the API and results of the client |
| `MC...` | instances for TLC |

The chain of abstractions is: `Publisher` implements `LockSpec` and
`ArtifactsSpec`; the API and the client are checked over `ArtifactsSpec`, not
over the publisher itself, so what holds of their answers holds for whatever
the publisher does within its promise.

### State and actions against the code

*Lock.* `lock` is the owner of the lock object: a lock body contains the run's
random id, so body, ETag and owner determine each other, and the ETag condition
of a replacement or a delete is the comparison `lock = seen[r]` or `lock = r`.
`pc` is the place of a run in `acquirePublisherLock`, the `try` block
(`critical`) and `releasePublisherLock`. `started` is the run's `now`, which is
read once and is what the expiry is computed from and compared with. `etags`
says whether the store answers a read with an ETag, and `seen` is the owner whose
ETag a run has read: without ETags the code replaces with `putJsonIfAbsent` and
releases with an unconditional delete. Both stores of `artifact-store.ts` always
answer with one, so that only `lock` checks the other branch; a store without
them never lets a lock be taken over (`StaleLockTakenOver` excepts it).

A run goes through `PutIfAbsent`, `ReadHolder`, `Replace`, `Verify`, then the
work, `ReleaseRead` and `ReleaseDelete`, each one request. `Abort` is the death
of the process or an error outside the `try` block, `Throw` an error inside it.
`withTimeout` abandons a request and does not cancel it, hence the states
`lateAbsent`, `lateMatch` and `lateDelete`: the run is over and its request may
still `Land` or be lost. `RepeatedWrite` is the library repeating a conditional
write whose first answer was lost: the write is in place, the caller is told it
failed. The repetition of a delete without condition is left out.

*Publisher.* `bucket` maps the key of a shard - deployment, kind, month - to the
days it has rows for and the version of the source they were read from (which
stands for content and hash). The keys of older publishers name no deployment
(`v2/metrics/daily/...`): `Stable` stands in their place, and the manifest a run
finds may list them. `pruneHistoricalDeploymentArtifacts` and the clean-up leave
them alone, pruning by months does not. `manifest` holds the deployment, the announced
dates and the recorded shards. `job[r]` is a record with the local variables of
the run at its stage:

| stage | code | actions |
|---|---|---|
| `manifestRead` | `getExistingManifest`, before the lock | `BeginRun`, `ReadManifest` |
| `lock` | `acquirePublisherLock` | `TakeLock`, `LockWriteRepeated` |
| `bounds` | `fetchBounds`, handover test, `resolvePublishRange` | `FetchBounds` |
| `rows` | the three concurrent queries, the missing-day test | `FetchRows`, `AcceptRows` |
| `shards` | `writeArtifact` for each month and kind | `WriteShard` |
| `manifest` | dates, pruning, put of the manifest | `WriteManifest` |
| `list`, `clean` | `cleanupHistoricalDeploymentArtifacts` | `ListStale`, `DeleteStale` |
| `idle` | skipped, failed or done; the `finally` block | `Unlock` |

Every early return goes through `Return`, which is the lock protocol's
`Finish`. `RequestThrows` and `RunDies` may leave the request under way in
`late`, from where `LateRequest` performs it at any later moment, or never.
`Index` lets the source move forward, `Redeploy` switches the deployment id and
resets the source, `Restart` resets it under the same id.

*API and client.* `exchange[c]` is a request with what the server has read for
it so far. `Arrived` is the validation of path, parameters and legacy variables
with all early answers, `ReadManifest` and `ReadShard` one read of the store
each (the manifest is read anew by every request), `Respond` the assembly of
the answer; `ReadFails` is a read that throws. A shard that is missing is an
empty month, as in `readArtifactRows`; `ArtifactKey` looks for the key of the
manifest's deployment, then for the stable key, then for that of any other
deployment. An unknown path under `/operations/` is refused for its parameters
before it is not found. `call[u]` is a call of the client
library: `BeginCall`, `BoundsArrive` (the shared promise of the bounds, which is
dropped when it is rejected), `SplitPages`, `JoinPages`, and `PageRefused` or
`FetchFails` when a page fails; `Send` is a plain request, of any path.

*Ledgers.* The chain is external and part of the model: `held`, `vault`,
`value` are its state, `Emit` the logs of a block. `HandleLog` delivers the
logs that pass a registration's `where` filter in order, `OnBlock` is the
backfill after the logs of a block, as Envio schedules it. `opening` remembers of the
chain in which block a Balancer pool begins and what the vault held after the
first and the last log of that block. One contract is
followed at a time, of each kind of registration, because the rows of
different contracts have different ids. `before` is what was held before the
window, `tokenStart` the start block of the token's definition.

*Snapshots.* Snapshot n of a chain stands for a block and its time; `Readings`
is what the reads of that block may return (ledger rows, prices, answers of
effects with their fallbacks). `Snapshot(c)` is one `onBlock` callback, whose
entity writes Envio commits together: records and supplies are built and stored
by id, the chain's `values` replaced and the shared row `global` recomputed from
the rows the query shows (`stale`: whether it shows the row just set). `Rebase`
and `BondEvent` are the event handlers in between. `canonical` is a history
variable.

*Pricing.* `lookups` is the stack of lookups under way with the memo and the
in-flight set. Computation between two reads is one step (`Advance`);
`StartRead` and `EndRead` are the awaits. `ContractReads` has the active cache,
saved and restored around an operation (`EnterCache`, `LeaveCache`), the
process-wide cache of invariant reads, and calls that are attempted several
times (`Attempt`). `Handlers` are the `liquidityHandlers`, in order; `Owned` those
of `ownedLiquidityHandlers` that are not among them, whose value is asked for
although they price nothing (the Infrared vault, `berachain.ts:132`).

### What is abstracted

* A row query of the publisher is one atomic read; its pages are not modelled.
  The three queries are separate steps, so they may see different versions.
* Days up to the head of the source all have rows, because each chain indexes
  its days in order; completeness is `all <= cross <= head`.
* The schema objects, `generatedAt` and `indexingProgress` are left out:
  nothing depends on them. A listing of several pages is one step.
* A conditional replacement or delete of a lock object that has vanished may
  fail with an error instead of the refusal the code expects; in either case the
  run ends without the lock, which the model has as `refused` or `failed`.
* `Redeploy` changes the id and resets the source at once; in reality two
  services are redeployed one after the other.
* An answer of the API is the list of its days with the blocks of metric and
  records; the fields of a row and the shape of the body are left out.
* The weights of a Balancer pool and the decimals of its token, read together
  (`balancer.ts:32-42`), are one invariant read.
* Amounts are small integers. Those of the auctions are multiples of 12, so
  that the pro-rated quotients are whole; other quotients are kept as pairs
  (`Ratio`) or rounded down (prices, of which only zero and order matter).
* Reorganisations of a chain are Envio's business and not modelled.

## Runs

| run | shows |
|---|---|
| `lock` | three runs, TTL 2, clock to 5, two faults, a store with ETags or without: runs start before, at and after an expiry, and a take-over can itself be taken over. `LockInv` is the inductive invariant; an unexpired holder owns the lock, overlap needs an expiry, a lock is lost only to its owner or after its expiry |
| `publish` | the lock does not expire; refresh, handover between two deployments, reset of the source. The manifest never dangles and lists exactly the announced months, stable keys apart (`ListedShardsExist`, `ManifestCoversDates`); announced days are recorded and stay stored; the latest date moves back only by a late request (or by a run that is behind, which takes three runs); a deployment takes over only when all chains are complete and fresh; clean-up leaves nothing behind; the publisher implements `PublishedArtifacts` (`ImplementsArtifacts`) |
| `live` | TTL 1, an indexer that restarts under its id, and a range that ends before it starts: two publishers at work at once, and each way a run can leave the `try` block - the source not ready, not fresh, an invalid range, days missing, a request that throws, nothing to clean up. Under fairness every run ends, every one gives its lock back unless the process dies, and a dead run's lock is taken over (`RunsEnd`, `LockGivenBack`, `StaleLockTakenOver`). The manifest covers its dates even so, and the publisher implements `LockSpec`. With one deployment nothing is ever stale here; dangling entries are the matter of `publish` and `stale` |
| `serve` | two users of a client and plain requests while shards are rewritten, announced and removed. No announced day is missing from an answer unless its deployment was replaced or a late write arrived (`AnnouncedDaysServed`); records are of their metric's block; legacy answers stay inside the bounds and descend; pages join to every day once, are not refused as too long, and a call fails only for a fault of its own time |
| `ledger` | two blocks of up to three logs, every kind of contract, tokens that start before, with and inside the window. Balances equal the chain's wherever the seed applies; clamped counters lag by at most what existed before; an AMO's amount has every mint since its first addition; the latest update row is the state; a Balancer pool is what the vault holds, plus exactly what its seeding block changed after the log that made the row (`PoolFollowsVault`) |
| `snapshot` | three chains over two days with thresholds inside the run, and auctions that still vest at one snapshot and have vested at the next. The shared row is the sum over its chains in any order, the fields of Ethereum survive once it has written, a complete day stays complete; records add up to the values; supplies are nested; bond rows account for the bond manager's balance, burns between clearing and expiry included |
| `pricing` | one handler of every kind in a cyclic graph on the pattern of Berachain, two requests in any order, one overlapping snapshot, two attempts per read. A token is priced exactly if some way grounds it; a value in a cache is of its own block; lookups end |

### Bounds

The publisher's instances have two runs (three in `lock`), two shard kinds of
the three (the code treats them alike; `metrics` alone decides about missing
days), seven days in months of one to three days with the public start inside a
month, so that the previous month, the first unpublished month and the clamp to
the start all differ, and one fault, which leaves the failed run's effects for
the other run to cope with. `MaxVersion` bounds the changes of the source and
`MaxClock` the clock. `serve` has four days in two months and pages of two days,
so that a call takes two pages and crosses a month; `MaxEvents` (3) bounds calls,
drops and changes together: two users and a change in between, or a request and
two changes between its reads. In `ledger`, `MaxHeld` and `LastBlock` bound the
chain; two blocks are needed for the seed and what follows it, three logs for a
seed, a second log of its block and one more. The lengths of `Readings` give
Ethereum and Arbitrum two days and every chain the chance to write before,
between and after the others; an auction vests for two snapshots (`Term`), so
that one may vest beside another that has vested. `MaxAsked`,
`MaxReads`, `MaxAttempts` and `MaxSteps` bound the pricing run; two requests are what order
dependence needs.

### Fairness and deadlock

`live` assumes weak fairness of `RunStep(r)` only: the process is scheduled and
each request is answered or times out (`withTimeout`). Nothing is assumed of
time, of the indexer, of faults or of late requests, and nothing makes a run
start. The reading of a response's body is not inside `withTimeout`
(`metrics-source.ts:240`, `:242`); that it ends is part of the assumption. The
initial progress of `live` has Arbitrum and Ethereum up to the present and another
chain behind: a refresh goes through all stages, a first publish is not fresh, and
a restart makes the source not ready or, between bounds and rows, leaves days
missing.

`pricing` assumes weak fairness of the snapshot's own steps and of the calls: a
request to the RPC node is answered or fails by viem's timeout, and `retryRpc`
tries a bounded number of times. The other snapshot need not proceed.

Deadlock checking is off: the publisher is a one-shot job, and the bounded
clock, source, blocks and requests come to rest.

### Where code and documentation disagree

| run | property | |
|---|---|---|
| `stale` | `ListedShardsExist` | The manifest is read before the lock is taken; a run of a deployment that has meanwhile been replaced publishes entries of deleted shards. Under `RedeployWhenIdle` this cannot happen, and that is the assumption of the theorem. |
| `backfill` | `SeededLedgerIsBalance` | The seed is read at `startBlock - 1` and skipped for tokens not active there, which are all tokens whose start block is the chain's: their balances of before the window are lost, and the ledger goes negative, as observed on Fantom. |
| `bonds` | `VestedDepositsDeducted` | The bond manager is not a tracked wallet, so it has no ledger row; its balance reads as zero and vested deposits are not deducted. The `snapshot` run checks the auctions with the row present (`TracksBondManager`). |
| `deposits` | `RecordsAddUp` | Several Treasure deposits of one wallet get records with one id; the stored rows do not add up to the chain's values. With one deposit per wallet they do (`snapshot`). |
| `canonical` | `CanonicalHeld` | `schema.graphql:42-45` and `docs/envio-migration/schema.md:48` say that the row of a new day holds the previous canonical values until Ethereum writes; the code starts it with zeros for price, staked supply and growth. `CanonicalSurvives` (`snapshot`) says what holds: what Ethereum has written for a day stays. |

Observed while modelling, without a run of its own:

* The manifest that is read before the lock (`publisher.ts:155`) also decides
  whether a run is a first publish. A run that found no manifest, and waits for
  its lock while a second run publishes and a third refreshes, still asks for the
  bounds of all chains and skips the test for missing days (`publisher.ts:234`):
  it rewrites an announced shard with fewer days and moves the latest date back
  (`publisher.ts:282`), while `docs/railway-metrics-api.md:243-245` has
  incremental bounds once a deployment has published. It takes three runs
  (`Run = {r1, r2, r3}` in `MCPublisher`, `MaxFaults = 0`, `MaxVersion = 1`,
  `BaseDay = 5`) and no fault. `AnnouncedDaysStay` and `LatestNeverMovesBack`
  except such a run by name (`Behind`); without the exception TLC finds the
  trace.
* After a restart of the indexer under the same id the latest date is capped by
  the shrunken bounds (`publisher.ts:282`) and months leave the manifest, while
  `docs/railway-metrics-api.md:156-160` has the old manifest served until the
  reindex is done. `LatestNeverMovesBack` holds of the `publish` run because it
  has no such restart.
* A date window on the first publish of a deployment (`publisher.ts:390`) makes
  the manifest announce months without shards. `publish` has no windows, that of
  `live` is refused, and the theorem assumes `Unwindowed`.
* Shards are documented as immutable (`docs/railway-metrics-api.md:184-185`); a
  refresh overwrites listed ones in place. `PublishedArtifacts` states what
  does hold: a rewritten shard still has every announced day.
* The legacy operations refuse `ignoreCache` (`server.ts:440-446`), which
  `docs/client-backwards-compatibility.md:162` lists as accepted and the client
  sends (`client.ts:61-63`).
* `BalancerPools.ts:150-152` says that the events after a seed are not counted
  twice. It is true of the log that seeds; those that follow it in the same block
  are in the state read at its end and are applied again. `PoolFollowsVault`
  gives the difference exactly (`CountedTwice`).
* The rule for buyback records (`IsBuyback`) fires for no source of the
  configuration tables, since no table has a token of the category
  `OHM`; it is in the model because it is in the code, and nothing shown here
  depends on it.
* Records whose shard is not of the block of their metric's shard are dropped from
  an answer (`server.ts:304`): between the writes of a day's shards its records may
  be missing. `RecordsMatchMetrics` says that those shown belong to their metric.
* OHM minted to a lender before `AMOAdded` is dropped (`Erc20Transfers.ts:94`),
  while `Lender.ts:27-28` expects it to be preserved; `DeployedSinceAdded` counts
  from the addition on.
* A client keeps the bounds it read first and never asks for later days
  (`client.ts:223`).
* Category rows of a type that disappears during a day stay
  (`BlockHandlers.ts:451`).
* A shard that cannot be read is answered as a bad request (`server.ts:745-756`);
  `PagesNotRefused` therefore excepts failed reads.
* Overlapping users of `withContractReadCache` may leave another's map active
  after both have ended; the keys contain the block, so `ReadsOwnBlock` holds all
  the same.
* The cycle guard's fallback makes memoised liquidities, and so the choice among
  handlers, depend on the order of requests; `PricedWhenGrounded` shows that it
  does not cost a token its price in the instance.

## Proofs

The theorems hold for every value of the constants: any sets of runs, wallets,
chains and calls, any TTL, calendar, sequence of kinds, amounts, blocks and
bounds, any number of faults, under the named assumptions on constants
(`LockAssumption`, `CalendarAssumption`, `PublisherAssumption`,
`TokenAssumption`, `BlocksAssumption`, `PoolAssumption`, `ReadsAssumption` and
their like), which TLC evaluates on the instances. What a theorem assumes
beyond these stands in its `ASSUME`.

*Lock.* `LockInv` strengthens `HolderOwnsLock` by: clocks were read in the past;
the lock belongs to a run that started; a run about to replace a lock, or whose
replacement is late, has seen an expired one. The last part is what makes it
inductive: an expired lock stays expired because the clock only advances. From
it follow `OverlapNeedsExpiry` (two unexpired holders would both own the one
lock object) and the action property `LockKeptUntilExpiry`.

*Refinement.* `PublisherFollowsLock` shows that each publisher step is a step of
the lock protocol or leaves its variables alone; the lock theorems then hold of
the publisher (`PublisherOwnsLock`, `PublisherNoOverlap`).

*Store.* `ListedShardsExist` is not inductive: a manifest in preparation, at
work or late must also be backed by the bucket, its stable keys included, and
nobody may delete what it needs. `StoreInv` adds, for each run: the deployment is the current one; shards
of the current deployment listed by the manifest it read exist (`Based`); shards
before the next place exist (`WrittenBefore`), so that all of them do when the
manifest is written; deletes, pending or late, concern other deployments only,
and only once the manifest is of the current one (`Cleaning`, `Pending`,
`HandedOver`). `StoreInvariant` and `ManifestNeverDangles` assume
`RedeployWhenIdle`; the run `stale` shows that this is needed. The lock is not
among the premises: overlapping runs of one deployment cannot make the manifest
dangle.

*Types.* `ValuesInv` follows the values through the stages of a run: which
fields a job has, that a fetched row set, a shard in a late request and an entry
of a manifest are days of the calendar under keys of the deployment, kind and
month, and that a run has a job under the lock exactly while it holds it.
`PublisherTypeCorrect` needs no hypothesis.

*Dates.* `ManifestCoversDates` needs to know what each run will make of the
manifest it read. `DatesInv` says that this manifest covers its dates
(`Covering`) and that the range of the run joins them (`Joining`): it ends with
the bounds of the source, and starts with the first public day or with the first
day of a month not after the month of the first unannounced day. The months of
the next manifest are then those of the range and, before them, those of the old
manifest, and pruning drops nothing in between (`NextCovers`). The lemmas about
the calendar (`NextMonth`, `EarlierMonth`, `RefreshStarts`) carry the argument;
they use that no month is empty, which `CalendarAssumption` therefore says
(`MonthOf[MonthStart[m]] = m`). The only hypothesis is `Unwindowed`:
`PUBLISHER_START_DATE` and `PUBLISHER_END_DATE` are unset. Resets of the indexer,
overlapping runs and redeployments at any time are allowed.

*Rows.* `RecordsInv` adds what the rows contain. The manifests that were read,
published or left behind record every day they announce (`Recorded`); the rows a
run has accepted have every day of its range (`HasRows`), on a refresh because
of the test for missing days and on a first publish because its bounds are days
all chains have indexed; and a run that found shards of its deployment knows
that the manifest is its deployment's, while one that found none has bounds fit
for a handover (`FitForHandover`). That the manifest, once taken over, stays so
(`TakenOver`) is what relates a run's old copy to the present. It follows that
announced days are recorded (`AnnouncedDaysAlwaysRecorded`) and that each
handover is complete and fresh, also when the manifest arrives late
(`HandoverAlwaysComplete`). The hypotheses: `Unwindowed`; `RedeployWhenIdle`;
`~RestartAllowed`, because a reset under the same id takes indexed days away
between the bounds and the rows of a first publish, which tests nothing; and
`None \notin Manifests`, which says that the value for "no manifest" is not one
(in the instances it is a model value).

*Clean-up.* `CleanUpInv`: a run that deletes has listed every stale shard there
is, and late shards are of the current deployment, so none is added behind its
back. `CleanUpAlwaysComplete` assumes `RedeployWhenIdle`.

*Latest dates and announced days.* `ForwardInv` compares bounds with dates: no
manifest of the deployment announces a day that is not indexed (`Reached`), and
the bounds of a refresh reach as far as the manifest and every manifest that may
still arrive (`Reaching`). It holds because a refresh asks for its bounds after
it has read the manifest and nobody else publishes before it is done. From it,
with `Joining` and `HasRows`, a run that is not behind has rows for every
announced day of each month it rewrites (`RowsOfAnnounced`), and the date it
publishes is not before the one it replaces: `AnnouncedDaysAlwaysStay` and
`LatestAlwaysMovesForward`. To the hypotheses of *Rows* they add two about the
behaviour. `[]LocksLast`: a run is done before its lock expires; the lock is
taken for twelve hours by default (`publisher.ts:59`), and `live` is about the contrary.
`[][IdIsNew]_vars`: no redeployment takes up an id whose manifest is still
published. Ids are commit hashes; a rollback before the newer deployment has
published would reuse one, its first run would then refresh what the old manifest
announces from a source that has just been reset, and the dates could move back.
TLC found this when `ForwardInv` was checked before it was proved; the `publish`
run does not show it because its source changes too seldom.

*Promise to readers.* `ServedInv` says what is stored until a request fails:
every announced day (`Served`), the rows of all shards a run has written so far
(`StoredRows`), and that the days a run found announced still are. Publishing
the manifest after the last shard therefore announces only stored days: those of
the run's range by its own shards and earlier ones by the manifest it extends
(`PublishedServed`). `PublisherImplementsArtifacts` maps each step of the
publisher to one of `PublishedArtifacts`: the write of a shard to `StoreShard`,
of the manifest to `Announce`, a delete to `RemoveShard`, a fault to `GiveUp`,
and the late arrival of a request to the action of that request; all others
leave the store alone. It assumes moreover `[]NobodyBehind`, since a run that is
behind breaks the promise, and `None \notin SeenManifests`.

*Ledgers.* Between two logs of a block the rows are not the chain's state. The
invariant is about the way there: `Leads` says that handling the logs that wait,
in their order, takes a row from its value to the chain's, up to a debt that the
seed of `OnBlock` pays. `LedgerInv` states it for balances, positions, supplies
and AMO amounts; at the end of a block no log waits and the rows are the
state. Supplies are sums over all wallets: `SumProofs` has the lemmas about
`SumOver` (one member changed, an element taken out, a set split), proved with
the library's theorems on finite sets by taking a least counterexample
(`WFMin`), since an induction over sets cannot be cited.

*Immutable rows and pools.* `RowsInv` orders the waiting logs and the immutable
rows by block and log index and shows that the last row of each subject is its
state at every moment (`Told`), although rows may share an id or a log. The logs
that wait lead a pool's row to the vault as above (`VaultLeads`), ahead of it by
`CountedTwice`, which no log changes once the row is there: `opening` fixes it
in the block in which the pool begins.

*Snapshots.* For the shared row the properties are nearly inductive; what is
added is that rows are stored under their own keys (`RowsKeyed`).

*Records.* `RecordsAlwaysAddUp` is a question of ids: rows are stored by id and
of several with one id the last stays, so that the stored rows add up to the
values exactly if no two records of a snapshot share an id. A record is of one
of six forms (`RecordForms`), and `RecordsDistinct` shows that source and name
determine it under two hypotheses. `NamesDistinct` is about configurations: what
makes records of different forms is named apart. It speaks of tokens that are
held, handlers with an LP token, NFT pools and the labels of coolers only, because
the tables of the code do name a cooler as a wallet, an LP token as a token, a
pool of NFT positions as a handler; it is true of all chains' tables.
`PositionsDistinct` is about readings: no wallet has two Treasure deposits
(`OneDeposit`; the finding `deposits` is that wallets do), and none holds the LP
tokens of two handlers with one id (`OnePosition`). The two Beradrome vaults of
Berachain share an id (`berachain.ts:93`, `:102`), and TLC finds `RecordsAddUp`
violated when a wallet is given both.
`AddUpInv` is then inductive because a snapshot replaces the stored rows and the
values of its own chain together.

*Supplies and bonds.* All builders but one make rows that take OHM off the supply
(`Deducts`), and `SupplyOf` of disjoint types adds (`SupplySplit`), which leaves
one question: what the deposit rows of the auctions come to. The share of a vested
auction is negative when burns have left the bond manager less than the
auctions that still vest have brought, and its row then adds to the supply.
`DepositTotals` shows that all deposit rows together are the balance, up to the bids
of all cleared auctions, and so never negative; from it follow
`SuppliesAlwaysNested` and `BondDepositsAlwaysWithinBalance`. `BondsInv` keeps what
the argument needs of the past: a bid is none or `Bid`, and the balance is
`Spare` and a multiple of `Bid`. The hypotheses are `AmountsRead`, that a
snapshot reads natural numbers (not granted by the ledgers: the run `backfill`
shows one below zero), and `WholeShares`, that `Bid` and `Spare` divide
evenly among any number of auctions: the code divides decimals, and the rounding of
the model's integers is not what the property is about. The second theorem
also assumes `TracksBondManager`; the finding `bonds` is about the contrary.

*Contract reads.* `ReadsInv` says that every entry of a cache, every call under
way and every value handed out is of the block in its key, in whatever Map it
lies and whichever snapshot's Map is active.

*API.* `ApiInv` says of every exchange what has been read: the rows of a kind
are of the range, of months that are no longer `left`, one for each day at most,
and an answer with rows is `Data` of an exchange that has read all its months
(`Reading`, `MadeFrom`). That a day has one row per kind is what makes the
choice of a metric in `Metric` unique, and the filter on its block
(`Selected`) attach the records of that block only: `RecordsAlwaysMatch`,
although a publisher may rewrite any shard between two reads. Answers are lists
made by `FlattenSeq` and `Reverse` of what each day contributes. What a list
built this way contains, and in which order, is stated once, for the community
module's recursive function, by lemmas that find the least index at which it
could fail (`FlattenSteps`, `FlattenLaid`, `FlattenOrdered`, `Reversed`);
`LegacyAlwaysInside` uses them with `Clip`.

*Client.* `ClientInv` ties each call to its exchanges: while the bounds are
awaited one exchange carries them, a call in `pages` has one exchange for each
page with that page's own range, and everybody else's are free. Two facts about
numbers carry the rest: pages cut from a range follow each other without a gap
(`SplitCovers`, a quotient by the number of days), and a page is a range the
server accepts under every manifest (`PageLocated`), because its length is the
server's own limit and both ends are days. Hence `PagesNeverRefused`, and with
the lemmas on lists `PagesAlwaysCover`: the joined result has each day once, in
order.

*Failures.* `FailuresHaveCause` needs `CauseInv`: a call that has failed, or
that waits for a refused exchange, began before the fault that refused it. It is
inductive only with `PendingInv`, that the shared promise is pending exactly
while somebody waits, since a promise nobody waits for could hand an old failure
to a new call. The theorem assumes `RangesNotEmpty`: no call asks for a range
without a day, the failure of `splitRange` that is the caller's own
(`client.ts`); the instance's inputs satisfy it.

*Announced days.* `ServedInv`: while the deployment of the manifest a request
reads is the published one and all writes arrive in time, its announced days are
still announced, and each has a metric unless its month is still to be read.
`AnnouncedDaysAlwaysServed` takes from `PublishedArtifacts` that a shard
rewritten in place keeps the announced days, and assumes `ForwardOnly(rank)`:
the manifest does not go back to a deployment it has left. Without that the
property is false, as TLC shows with five events: a request finds the manifest
of one deployment, another takes over, a shard of the first is removed and read
as an empty month, the shard is written again, the first deployment is announced
again, and the answer lacks a day it announces. Two handovers within one request
do not happen in practice, as runs of the publisher are hourly; `serve` bounds
the events at three. `RankInv` and `DirectInv` (a plain request is not sent while
one is under way) complete the induction.

*Assumptions that proofs added.* All are on constants, checked by TLC on the
instances and true of the code: no month is empty; amounts, blocks and bounds
are natural numbers, sets of wallets, markets and the tables of a configuration
are finite, and special values differ from ordinary ones (`NoDate` and `BadDate`
from days and from each other). The inputs of the client's calls name a subject
and dates, as its TypeScript types have it, and connections are those of the
users, the bounds and one plain request. Some definitions took another form for
the provers: `Advance` of `Pricing` is bounded by `MaxSteps`, the steps of one
computation between two reads (larger than any in the run), rows are collected
by nested unions in `SnapshotRecords`, and the lists of the API day by day
(`ByDay`).

*Only model-checked:*

* Liveness (`LockGivenBack`, `StaleLockTakenOver`, `RunsEnd`, `LookupsEnd`):
  fairness and ENABLED are beyond the prover.
* `PricedWhenGrounded` compares a recursive search with a reachability
  definition; this needs induction over the graph.

## Not modelled

* The pages of a row query and the normalisation of rows (`metrics-source.ts`):
  a query is one read.
* The registration of the pools behind Kodiak islands as dynamic contracts
  (`KodiakLps.ts:51-71`), and Envio itself: batching, reorganisations and the
  persistent cache of effects.
* The request rate limiter and the construction of clients
  (`rpc-client.ts`): they delay requests and decide nothing.
* Chain configurations and ABIs: constant tables, the CONSTANTS of the modules.
* The shapes of response bodies and the OpenAPI document
  (`packages/metrics-artifacts`): field-by-field mappings without state.
* Environment validation, deployment files, release, parity and audit scripts.
