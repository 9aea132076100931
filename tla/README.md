# Verification of sui-indexer

TLA+ models of the services in this repository, checked with TLC on small
instances, and theorems about them checked with TLAPS for every value of the
constants. Paths below are relative to the repository's root.

## 1. Inventory

### The system

    sui-master ──insert rows──▶ block_status (Postgres) ◀──claim / DONE / FAIL── sui-worker ──▶ Kafka topics
        │  cron: reap, monitor, compress      ▲                                                (txs, events, indices, checkpoints)
        ▼                                     └──────── backfill-indexer ──▶ S3                      │
     Athena / S3                                                                                    ▼
    sui-price-feed ──▶ Kafka, Postgres                        sui-ingest (swap, defi, token) ──▶ Postgres ◀── sui-api

The indexer's services coordinate through the table `block_status` (a row per
checkpoint with a status) and through Kafka; the ingesters and the price feed
share the tables `trade`, `pool`, `tokens` and `price_feeds`. No service talks to
another directly.

| Component | Source | State | Operations | What makes it correct |
|---|---|---|---|---|
| block_status repository | `sui-indexer/internal/repo/gorm`, `gorm_scope`, `entity` | the table; row locks of open transactions | page query, insert, status update, reap | a claim sees only claimable, unlocked rows; a transaction is all or nothing |
| sui-worker | `sui-indexer/internal/app/sui-worker` | ten threads per process, their batches, a goroutine per checkpoint, an LRU cache of event keys | claim, fetch checkpoints, fetch and send transactions chunk by chunk, DONE / FAIL | one owner per row; DONE means sent; every row gets DONE in the end |
| sui-master loop | `sui-indexer/internal/app/sui-master/master.go` | a round: latest, saved, chunks of blocks and the goroutines that insert them | ask node, ask table, insert | no block missing, none too young, none twice |
| sui-master cron | `.../sui-master/cronjob.go` | three jobs | reap (15 min), monitor (1 h), compress (daily) | abandoned rows return in time; a day reported as compressed is |
| backfill-indexer | `.../backfill-indexer` | two bounded channels, a storing goroutine with a pool, threads as in sui-worker | claim, fetch, queue, upload to S3 | DONE means stored; shutdown ends |
| S3 streaming | `sui-indexer/internal/service/s3_service.go` | a pipe and an error channel | write, close, upload | no goroutine waits for ever |
| trade/token sync CLI | `.../app/cli`, `.../service/sync_trade_service.go` | the trades read and not saved yet | read a file or the objects of a prefix, save every 1000 lines | every line up to the first one that cannot be read is saved, once per command |
| compression | `.../service/compression_service.go` | Athena tables, partitions; a flag shared by the days of a range | repair both raw tables, insert a day into both final ones | a day that was reported is in both tables, once per command |
| Kafka producers | `sui-indexer/internal/infra/kafka_producer.go` | producer pool of the transactional producer (unused) | send, borrow, release | ack means stored; the pool loses no producer |
| bloom filter, memoize, csv and format helpers | `sui-indexer/pkg` | none, a cache | pure functions | no false negatives |
| sui-price-feed | `sui-price-feed` | none between runs | every 5 minutes: ask the node (with retries), query the trades, send each price to Kafka and to Postgres | one failing sink does not cost the other its data |
| sui-ingest swap / defi, live | `sui-ingest/swap/src`, `sui-ingest/defi/src` | Kafka offsets, the first block to handle | handle a batch, save, commit | each event is handled, once |
| sui-ingest pool and token caches | `src/utils.ts` of both | pools, metadata, remembered calls; tables `pool` and `tokens` | look up, ask the node, store without waiting | a wrong value is traced to a guess; handlers end |
| sui-ingest price history | `sui-ingest/swap/src/utils.ts` | the chart last fetched and when | fetch, nearest point, value from earlier trades | a trade is valued with a price of its time |
| sui-ingest swap adapters | `sui-ingest/swap/src/protocols` | none | an event to a trade | tokens, direction and decimals are those of the swap |
| sui-ingest token | `sui-ingest/token/src` | none | a handler that does nothing yet | |
| sui-ingest backfill | `sui-ingest/swap`, `sui-ingest/defi` | rows buffered from a file | buffer, flush | the tail is flushed; no row handled twice |
| sui-ingest defi adapters | `sui-ingest/defi/src/protocols/*/indexer.ts` | none | an event to rows of the tables `defi_*` | what was given is filed as given, with the decimals of its coin |
| sui-ingest defi positions | `sui-ingest/defi/src/server.ts`, `protocols/*/position.ts`, `services/cache.ts` | the owner's objects and balances in Redis, for two minutes | read the context, ask every protocol, answer | what an owner holds is answered once and with its worth; one protocol does not take the others down |
| sui-api | `sui-api/src` | `total_supply` of a token, filled in by requests | list tokens, trades, coins and NFTs | what was there all the time is answered, whatever changes meanwhile |

### Hard behaviours

* Threads and processes claim from one table; the claim is a transaction, but
  every later status update is a single unconditional `UPDATE` by id, whose
  error nobody looks at.
* A goroutine cannot know that its row was released: after the reaper, a failed
  claim or a recovered panic its attempt is *stale* and may overwrite the status
  of the attempt that owns the row now.
* The claimed checkpoints are collected by unsynchronised `append`s
  (`worker.go:200`): a checkpoint can be lost, or a nil slot can make the thread
  panic while goroutines it has started go on.
* The event cache is filled before the events are sent (`worker.go:293`).
* The master resumes at the highest saved block; chunks commit in any order.
* Commit answers are lost, sends fail after having reached the broker, processes
  die between any two steps, RPC nodes lag behind.

* The caches of two processes feed each other through tables that have no key
  against copies; a guess made after one failed call is stored and loaded again.
* Errors of one event are swallowed while the others of its batch go on
  (`defi/src/utils.ts:501`), and two processes of one ingester share a table whose
  ids are random.
* The price history is module state that concurrent calls replace while others
  are in the middle of using it; its points are in the order the search needs
  only as long as one turn fetches them all.
* An entry of the Redis cache gets its time to live by a second command, and the
  two lists of an owner's context are cached apart from each other.
* The requests of sui-api read page by page, or in a window of time, while other
  services write what they read.
* The goroutines of a range of days share the variable that decides who makes the
  partitions known (`app/cli/app.go:98`).

The list with its lines is in `PROJECT.json` under `hazards`.

## 2. Modules

| Module | What it models |
|---|---|
| `BlockStatus` | the table: statuses, the claimable rows, pages in block order, the unconditional update, the reaper's filter. Pure operators shared by the services' modules. |
| `CheckpointQueue` | the abstract promise of the table: an at-least-once queue. No threads, locks or time. |
| `SuiWorker` | sui-worker with the reaper of sui-master. EXTENDS `BlockStatus`, INSTANCEs `CheckpointQueue` to state that it implements it. |
| `SuiMaster` | the checkpoint loop of sui-master, any number of masters. |
| `CheckpointPipeline` | sui-master, the threads of sui-worker and the reaper over one table, with rows in block order, copies of blocks, and blocks that always fail. EXTENDS `SuiMaster` and `BlockStatus`. |
| `MasterCron` | the clock of the reaper. EXTENDS `BlockStatus`. |
| `Compression` | the compress job of sui-master and the compress command of the CLI. |
| `SyncTrades` | the sync command of the CLI. |
| `BackfillIndexer` | backfill-indexer with its channels, storing goroutine, uploaders and S3 objects, from start to shutdown. EXTENDS `BlockStatus`. |
| `TopicConsumer` | the abstract promise of a live process to the topic it reads: an at-least-once consumer. No batches, sessions, snapshots or handlers. |
| `SwapIngest` | sui-ingest/swap: the live consumer and the backfill process, which write trades to one table. INSTANCEs `TopicConsumer` to state that the live process implements it. |
| `SwapAdapters` | the protocols of sui-ingest/swap: from one event to its trade. Pure operators. |
| `TokenPoolCache` | how the handlers of both ingesters learn about pools and tokens. EXTENDS `SwapAdapters`, whose trades are made with what was learnt. |
| `PriceHistory` | what a swap is worth: the chart, its cache and the value of a trade. |
| `DefiAdapters` | the protocols of sui-ingest/defi: from one event to its rows. Pure operators. |
| `DefiIngest` | sui-ingest/defi: the live consumer with its handlers and commits. EXTENDS `DefiAdapters`, INSTANCEs `TopicConsumer`. |
| `PriceFeed` | sui-price-feed. |
| `PositionAdapters` | the positions of sui-ingest/defi: from what an owner has to what is answered. EXTENDS `DefiAdapters`, whose conversions it uses. Pure operators. |
| `PositionServer` | GET /positions/:address with its cache. EXTENDS `PositionAdapters`. |
| `TokensApi` | GET /tokens of sui-api, over the prices that the job of sui-price-feed stores. |
| `AccountApi` | GET /trades, /holding/tokens and /holding/nfts of sui-api. |
| `MCSuiWorker`, `MCBackfillIndexer`, `MCSwapIngest` | values for model checking. |
| `MCSuiMaster` | `SuiMaster` with two masters, or `CheckpointPipeline` with one; `part` says which. |
| `MCIngest` | `TokenPoolCache`, `DefiIngest` and `PositionServer` in one model; `part`, chosen at the start, says which of them moves. |
| `MCServices` | `MasterCron`, `SyncTrades`, `Compression`, `PriceHistory`, `PriceFeed`, `TokensApi` and `AccountApi` in one model; `part` says which of them moves. |
| `SuiWorkerProofs`, `SuiWorkerDelivery`, `SuiMasterProofs`, `CheckpointPipelineProofs`, `BackfillIndexerProofs`, `SwapIngestProofs`, `IngestProofs`, `ServicesProofs` | theorems. |

Definitions whose comment begins with *Variant* are not part of the models.
Each is a copy of one definition with a plausible bug in it; substituting it
breaks the property it was made for, which shows that the property can fail.

Components that share no state are checked in one model, where a variable chosen
at the start picks one of them for good: their states add up instead of
multiplying, and a behaviour of the model is a behaviour of one component with
the others standing still.

### SuiWorker and worker.go

A thread's `pc` follows `fetchTxs`: `Idle` (asleep in `FetchTxs`), `Selected`
(inside the claim transaction), `Aborted` (`dbErr`), `Fetching` (until
`wg1.Wait`), `Panicked` (the deferred recover), `Waiting` (until `wg2.Wait`).
`batch` is `blockStatuses`. A goroutine is the record `task[a]` of an *attempt*
`a = <<row, n>>`, the n-th claim of the row. The attempt number is a device of
the model, as is the flag `lost`, set when somebody releases the row; no guard
reads either to decide what the code does (`tries` is bounded by `MaxTry`, which
is chosen so large that the bound is never reached, see below).

* `SelectForUpdate`, `CommitClaim`, `AbortClaim` are the transaction:
  `FOR UPDATE SKIP LOCKED` locks a page, the update and the commit are one step
  (nobody sees the table in between), and an abort leaves the rows unchanged, or
  changed if the commit succeeded and only its answer was lost. `FailAborted` is
  the update the code then makes outside the transaction and without a lock.
* `UpdateCheckpointStatus` is every update outside a transaction. It waits for
  row locks, looks at nothing, and may fail silently.
* `StartCheckpoints` covers the outcomes of the append race: any subset of the
  fetched checkpoints can be missed, and with two or more of them the thread may
  panic. The checkpoints that fail `Validate` are rejected one by one.
* `FetchTxs`, `BuildPayload`, `SendChunk` are one turn of the chunk loop. The
  four senders run concurrently, and when one fails any part of the payload may
  have been produced.
* `Evict`, `HourPasses`, `UpdateFailedStatus`, `Crash` are the environment.

Abstractions: a chunk's events have one cache key (they enter the cache in one
loop and are evicted within seconds of each other); the retries of one RPC call
are one success or one failure; a row is named by its block number, so copies of
a block (which `SuiMaster` shows can exist) are separate rows here only if given
separate numbers; the connection pool and the cooldowns are left out.

### SuiMaster and master.go

`rows[b]` counts the rows of a block, since the table's only key is a random
id. A round is `GetLatestCheckpoint` (the node may lag: any value up to `head`),
`PlanBlocks` (query and loop), `StartChunk` (`errgroup` with its limit), the
goroutines' `CreateMany` and `Save`, and `Return`. `CreateMany` is atomic:
`CreateInBatches` runs in one gorm transaction. `dropped` and `lost` are history
variables for the properties. The ids make `OnConflict DoNothing` void, so `Save`
always inserts. `SnapshotCheckpoint` has the same chunk loop with a fixed range;
its call is commented out in `app.go`, and it is not modelled separately.

### CheckpointPipeline: master, worker and reaper over one table

The masters are those of `SuiMaster`, step by step; `table` gives every row they
have inserted a status, and `Grown` adds the new ones as NOT_READY. A row is a
number, `RowOf(b, i)` for the i-th copy of block b, so that the order of rows is
the order of blocks that `GetList` asks for. `ClaimPage` is the claim of a page of
at most `PageLimit` rows, `EndClaimed` the end of one of its rows. Each is one
step: `SuiWorker` has their transactions, goroutines and retries, and
`LockProtectsClaim` and `ClaimExclusive` say that nobody else can be in between.
`CrashWorker`, `ReapAbandoned` and `ReapSlow` are the ways in which a row comes
back. `Poison` are blocks that fail whenever they are tried (a checkpoint the node
answers with an error, `worker.go:196`): the code puts them back to FAIL, and the
claim query takes FAIL like NOT_READY, lowest block first, so they come first
again.

### MasterCron and cronjob.go

Five-minute ticks; the job is due every third tick and runs before anything else
happens then. A run is missed when its `UPDATE` fails or no master is up. The
monitor job changes no state; the compress job is in `Compression`.

### Compression and compression_service.go

A command is the daily job (one day, partitions repaired), the CLI with one date
(no repair) or with two (a goroutine per day, at most `JobLimit`, 3 in the code;
the second date is not compressed). `StartJob` is `eg.Go`, `EnterJob` the read and
write of the shared `autoAddPartitions`, `Repair` and `Insert` the four queries,
each pair concurrent. `Doomed` says which context a query has: the repair of
`raw_sui_txs` has that of the caller and is not cancelled by its sibling. A failed
query may have run in Athena. `known` is what MSCK REPAIR TABLE has found, for all
days at once; `blind` remembers inserts that ran before that.

A day may be reported without its rows: with one date nothing is repaired, and in
a range only the first day repairs, with the flag possibly cleared before it has
read it, while the others insert meanwhile. The property names those cases and
excludes them for the daily job. One command runs at a time, and the data of a day
are complete in S3 when it is compressed.

### SyncTrades and sync_trade_service.go

`line` and `counter` are the position in a file and `i`; `buffer` is `trades`.
`TakeLine` is one turn of either loop (they differ in which lines they accept,
`Accepted`, and in what happens at any other, `LeaveLine`): `encoding/csv` wraps
`ErrFieldCount`, so the comparison in line 74 never holds and a line of the wrong
length ends the file; the loop over S3 Select looks for the end of the stream
only, and `getRecordValue` panics on a field that is missing. `CutStream` is an
error of the event stream, which the goroutine at line 166 turns into the end of
the pipe, in the middle of a line or between lines, and which `EndOfLines` sees
after it has saved the rest. A listing is not continued: `ListLimit` is 1000 in
S3. The fields of a trade and their scaling by token decimals are left out.

### PriceFeed and price_feed_service.go

The chain and sui-ingest/swap are the environment (`NewCheckpoint`, `SaveSwap`).
A run is `GetPriceFeed`, `FetchLatestCheckpoint` with its five attempts,
`QueryPrices`, a `Send` or `SendFails` for each price and sink, and `WaitSends`; a
process that ends (`StopFeed`) loses its run. A price is the group it is the
average of: which trades, and which token, `NULL` for all tokens that the table
`tokens` does not know. The query has `quanlity_out > 0` but divides by
`quanlity_in` too, so one trade with nothing put in fails it.

### TokensApi, AccountApi and sui-api

`TokensApi` has the clock in minutes, since two clocks meet here: the job of
sui-price-feed starts every `Epoch` (`StartRun`; not while a run is under way,
`MinutePasses`), stamps its prices with the minute in which it knows the
checkpoint (`StampRun`, after up to five attempts) and stores them one by one,
perhaps not all (`StorePrice`). A listing is the query (`QueryTokens`, a row for
each price in `Window`, both ends included), the loop that asks the chain for
supplies the table does not have (`FillSupply`, which does not sort again), and
the answer. The comment at `tokens.ts:133` says "query from 1 days ago to now";
the window is of five minutes, and `TokensListed` is about the one in the code.

`AccountApi` follows a client that reads its trades page by page while trades are
saved (`GetTrades`, `TradeSaved`), a request for coins that reads the node's pages
while coins come and go (`GetAllCoins`, `CoinMoves`), and one for NFTs that reads
objects first and kiosks after them (`GetOwnedObjects`, `GetKiosk`, `NftMoves`).
`LatestFirst` are the orders in which the database may answer. A token is looked up
by its type as the node spells it, while the table has normalized addresses: such
tokens are `Misspelt`, and found under no name. Left out: the metadata and
pictures of an NFT, and the price beside a coin, which is looked up as its name is.

### PositionServer, PositionAdapters and the positions of sui-ingest/defi

One holding of one owner is followed (`kind`, `place`), while it moves between
wallet and protocol and pages shift. A request reads the list of the context that
shows the holding: from Redis (`GetCache`), or page by page from the chain
(`ReadPage`) and then stores it without waiting, `SetEntry` and `ExpireEntry` being
the two commands of `setCache`. The other list is read at the same time; of it only
the failure matters (`OtherListFails`). Then the protocol looks the holding up
(`LookUp`), in the lists or by a call of its own (`Shown`), and may fail
(`LookUpFails`) or divide by zero (`Throws`, of kriya). `ServerStops` is the end of
the process, also by the rejection of a SET that nobody handles. `Pass` is time:
`Ttl` is the life of an entry, and a request is done within `FetchTime`.
`redis.orphan` and `fetch.orphan` are history: an entry whose EXPIRE never came.

`SettledShownOnce` therefore speaks of holdings that have stayed for `LongAgo`, the
life of an entry and three requests: the one that read before the move, the one
whose EXPIRE came last, and the one that answers.

`PositionAdapters` says what the positions of the six protocols that have any are
made of: which coins, which amounts with which decimals, which prices. Their sums
over `defi_*` are commented out in the code, so what was put in is zero
(`Zero`). navi lists all lendings as the input of each borrowing and alone only if
there is none (`NaPositions`). `IsInRange` is cetus's comparison of BN objects by
`>=`, which JavaScript does on their decimal strings: it is right for numbers of
equal length only, and the last part of `PositionsWorth` is about those
(`RangeIsRight`); it says nothing of numbers of different lengths.

The staking list of scallop has every coin that is supplied, whether staked or not
(`position.ts:183-187`), and shows how much of it is staked. A coin in the wallet is
therefore answered twice: as the lending that it is, and as a staking position with
nothing in it (`ShowsEmpty`, `ScEmpty`). `Guises` are the places of a holding and
this empty one. `SettledShownOnce` is about the worth of a holding: it allows the
empty position beside the right one, for that coin and no other.

### BackfillIndexer and backfill-indexer/worker.go

`fetchTxs` claims and fetches as sui-worker does; the claim is one step here,
since `SuiWorker` is where its transaction is taken apart. What is new lies
behind it. `channel` holds `txsCh` and `checkpointCh` with `Capacity` places
(300 in the code), `store` follows the storing goroutine through its `select`
(`Receive`, `LeaveSelect`), `pool.Submit` (`Submit`, which waits for one of
`Workers` uploaders, 100 in the code: pond is created without a queue) and the
deferred `StopAndWait`. `pool` is what is being uploaded; an `Upload` writes the
object of its checkpoint; `FailUpload` is an upload that fails, and `stuck` the
uploader that it leaves blocked on the pipe nobody reads any more, which can only
happen when the data is larger than the part size (`Large`). `Cancel` is the
signal: afterwards every call with the context fails, `StopThread` ends the
threads, `CloseChannels` is the deferred close after `eg.Wait`, and `Exit` and
`Kill` end the process and start it again with empty memory. `stored` and
`lost` are history variables. An orphan is a goroutine whose thread panicked
while starting others and so no longer waits for it.

Abstractions: an item carries which chunk it is, not what is in it; a row has
`ChunksOf` chunks of 20 transactions; uploads have no order among themselves.

### SwapIngest and sui-ingest/swap

`trades[e]` counts the trades that event `e` has in the table: each call of a
protocol gives its trade a fresh uuid, so `skipDuplicates` never meets a
duplicate. An event is named by where it is read, an offset of the topic or a row
of the csv export, and has a block; several events have one block.

* The live process (`liveIndexer`): `StartLive` reads `startSnapshot` from the
  table once. `Fetch` is a batch from kafkajs, `Batch` what `eachBatch` keeps of
  it, `EachBatch` a call that succeeds, `EachBatchThrows` one that does not.
  `position` is what the process has resolved and `committed` what the broker
  knows. The timer of `autoCommit` (`Commit`), fetching and the retry after an
  error are kafkajs, modelled from how `index.ts` configures it.
* The backfill process (`backfillData`): `StartBackfill` reads the range from the
  table, `ReadRow` is one turn of the loop, and `ProcessData` each of its two
  calls of `processData`. `EndOfFile` is the end of the loop, after which nothing
  is flushed.
* `Handler` is `processingConfig.handler`: one `createMany` for all trades of the
  call. A protocol that fails answers null, and its event is `dropped`.
  `HandlerThrows` leaves the table unchanged, or changed if only the answer of
  `createMany` was lost.
* `Rejoin` is the session of the consumer group expiring between two batches: what
  was not committed is delivered again, to a process that keeps its snapshot.
  `thrown` counts such sessions and failed calls, each of which may repeat a batch.

Both processes run at once or one after the other. The lower end of the backfill
range is the highest trade below `CHECKPOINT`, whoever saved it: a live process
that has saved one makes the backfill skip every row up to it, which is why
`LossesExplained` speaks of the rows within the range only.

`ImplementsConsumer` maps the process to `TopicConsumer`: `passed` is the offset
committed, `copies` the trades of each event, `returns` the failed calls and
sessions, and an event is excused if a protocol dropped it or it was overtaken: its
block is too early, or not above that of a trade saved from an earlier offset or
from the export.

Abstractions: one partition and one consumer (the code says so itself), an event
has one trade; prices are in `PriceHistory`, the caches in `TokenPoolCache`, what
a trade says in `SwapAdapters`. A message
that cannot be parsed, which would stop the consumer for good, is left out.

### SwapAdapters and sui-ingest/swap/src/protocols

A swap is what happened: the pool and which of its two tokens was paid. The
operators named after the protocols are their `process` functions: they read the
fields of the event (`AmountIn` and so on, with zero written as `None`) and the
pool info, and give tokens, direction and quantities with the decimals they were
divided by. An address carries whether it is spelled with leading zeros, because
`kriya.ts:91` compares a spelled one with a normalized one: of a token whose
address begins with a zero, Kriya turns the trades round. FlowX V3 asks the node
for the content of a pool and then reads its type (`flowX.ts:136-143`), which such
an answer does not have: both tokens are the empty address then (`TokensOf`,
`NoToken`), whose decimals nobody knows.

### TokenPoolCache and utils.ts

The handlers of a batch run concurrently and each is a `task`, with one step from
one `await` to the next: the cached pool (`StartPool`), the pool in the table
(`FindFirst`), the object on the chain (`GetObject`), the decimals of both tokens
(`Ask`, then `Answer` or an error for each), and what is done when both are known
(`Settle`). `poolCache`, `metadata` and `cacheData` are per process, `poolRows` and
`tokenRows` are the tables both processes share; they are written without
waiting (`StorePool`, `StoreToken`), at any time later or never. `Prepare` loads
the tables, `Restart` empties the memory. `cacheFn` of swap retries and then
throws, except for the second token of Cetus, whose default is used and not
cached; that of defi tries once and caches its default, 18 or 9. That the node has
no answer for the empty address costs no error of the budget (`AskedInVain`).
`guessed` is a history variable: `GuessesTraced` says that wrong decimals are always
9 or 18, and go back to a guess about the very token they are used for.
`turbosFinance/indexer.ts` of defi does not import `parseWrapperObj`, so
`ParsesType` fails there and the handlers of such pools end with an error. The
properties do not depend on that; they hold as well with the import.

### DefiAdapters, DefiIngest and sui-ingest/defi

Each operator of `DefiAdapters` is a handler of a protocol: which coins, which
amounts with which decimals, whether a price stands next to them. `Kind` has the
events of every handler that is registered; a handler of a commented-out entry is
left out. `priced` is what `price_feeds` has to say: for the coins with a price, the
decimals stored next to it. Without a price `getNimbusDBPrice` answers 18 decimals
and price 0 (`PriceDecimals`). Coins in parsed events lack the `0x` of the stored
addresses, and where a handler does not add it no price is ever found: the reward of
cetus and both events of blueMove (`ByNoPrice`), and the stakes of aftermath, which
are converted with nine decimals whatever the price (`AmStake`, `AmUnstake`).
`ScBorrow` always throws. For Turbos, one of two kinds of collected fee occurs in
an event (`TuCollect0`, `TuCollect1`).

`DefiIngest` is the consumer. `getLatestIndexed` is always 0, so a restart skips
nothing; each event has a `create` of its own (`Handle`), whose error is logged
(`HandleError`) before or after the row was saved; `EndBatch` is `Promise.all`.
The timer of commits, the group and fetching are kafkajs, as in `SwapIngest`, and
`PriceArrives` is sui-price-feed, which stores the decimals of table `tokens` with a
price. `guesses` are the decimals that a failed call left in a cache or a table
(`GuessDecimals`); that they are 9 or 18 and belong to their coin is `GuessesTraced`
of `TokenPoolCache`, from which `PoolDecimals` takes what `getPool` may say: for each
coin its own decimals, 9 for none, or a guess. A handler may be told any of the
prices or none (`Quotes`), so `RowsOf` has every set of rows that it can make of its
event. `saved[n]` holds the rows of each call, and
`replays` counts how often the process went back. `ImplementsConsumer` maps it to
the same `TopicConsumer`: `passed` is what the broker knows, `copies` the number
of calls of an event that saved rows, `returns` is `replays`, and an event is
excused if its handler gave it up or it is below the first block.

The properties name the places where rows do not say what happened: amounts got that
are filed as given (`Inverted`), amounts that are left out (`LeftOut`), navi's
lookup of the coin, which finds the pool event of another operation of the same
transaction (`Shadowed`), and cetus's redemption of xCETUS, which converts with 9
decimals (`AlwaysNine`). Values are scaled by the decimals of their coin or by a
guess that was made about this coin (`ScaledFor`). The backfill of defi has the
range [24964427, 0] (`main.ts:84`), which is empty, and is not modelled.

### PriceHistory and swap/src/utils.ts

Time is in minutes, a day is `Day` long and the chart has a point every `Granule`.
All listed tokens are fetched for the same times, so one sequence of times,
`history`, stands for the charts. `PreparePrices` and `Prepared` are
`preparePrices` before and after its `await`; a turn of `getCMCPricing` asks for a
day, or ten for a backfill, goes back ten days, and appends what it gets, so that
a call which spans more than ten days leaves the points in an order that
`FindNearestPoint` does not expect. `GetTradeValue` values the trades of a call in
any order: from the chart, or, between unlisted tokens, from trades of the last
five blocks. Both loops of a process share the history when both environment
variables are set (`index.ts:186`). `at`, `of`, `latest`, `prepared` and `sorted`
of a trade are history for the properties. Left out: a point whose price is 0, and
the limit of ten trades; the two queries of `getTradeValue` are one step.

## 3. Runs

| Run | Properties | Bounds |
|---|---|---|
| `worker_queue` | `TypeOK`, `ImplementsQueue`, `EventuallyDone` | 2 rows, 2 threads, 1 process, page of 2, 1 fault |
| `worker_stale` | `ClaimExclusive`, `LockProtectsClaim`, `DoneMeansProduced`, `EventsLostOnlyToCache`, `RetriesBounded` | 1 row of 2 chunks, 2 threads in 2 processes, 2 faults |
| `worker_event_cache` (violation) | `DoneMeansEventsProduced` | 1 row, 1 fault |
| `master_insert` | `TableTypeOK`, `HolesExplained`, `DelayKept`, `CopiesBounded`, `SavedAndIndexed` | 4 blocks, chunks of 2, 2 goroutines; 2 masters, no worker and 2 faults, or 1 master, 2 threads with pages of 2, 1 block that always fails and 1 fault |
| `master_hole` (violation) | `EveryCheckpointSaved` | 1 master, 3 blocks, chunks of 1, 1 fault |
| `backfill` | `TypeOK`, `ChannelsKept`, `DoneMeansObjects`, `EventuallyDone`, `ShutdownEndsOrHangs` | a page of 2 rows, of 2 chunks and of none, 1 thread, channels of 1, 2 uploaders, 1 fault |
| `backfill_stored` (violation) | `DoneMeansStored` | 1 row of 2 chunks, no fault |
| `swap_ingest` | `TypeOK`, `CopiesExplained`, `LossesExplained`, `ImplementsConsumer`, `EventuallyPassed` | topic of 5 events, export of 4 rows, batches of 2, 2 faults |
| `swap_backfill_once` (violation) | `BackfilledOnce` | topic of 1 event, export of 2 rows, no fault |
| `ingest_parts` | `IngestTypeOK`, `GuessesTraced`, `TradesMirrorSwaps`, `HandlersEndHere`; `ImplementsConsumer`, `RowsBelievable`; `SettledShownOnce`, `PositionsWorth` | caches: 2 handlers, 2 pools of 2 tokens with 6 and 0 decimals, the empty address, 2 tries, 2 errors; defi: topics of 2 events, 2 faults (guesses on every topic, other faults on two); positions: 2 requests, lists of 2 pages, 1 move, 1 defect |
| `services` | `ServicesTypeOK`, `ReapedInTime`, `LinesSyncedOnce`, `ReportedMeansCompressed`, `PricesJustified`, `PricedInBothSinks`, `TokensListed`, `TradesPaged`, `HoldingsShown` | reaper: 2 rows, real periods, 2 missed runs in a row; sync: 7 sources, saved every 3 lines, listings of 2, 2 commands, 2 errors; compression: 3 days, 2 goroutines, 2 commands, 1 failure; prices: 3 calls of 5, 3 configurations, 1 failure; feed: 4 checkpoints, 4 trades, 2 runs, 2 failures; tokens: epochs of 3 minutes, 6 minutes, 2 tokens, lists of 3, 2 requests (when an epoch is over), 1 fault (in the first epoch); account: 4 trades in pages of 2, 4 coins of 2 types in pages of 2, 2 changes |
| `sync_malformed` (violation) | `MalformedSkipped` | as `services` |

Why the bounds suffice. A fault is what makes attempts overlap: with one, a row
can be claimed again while its first attempt runs; with two, three attempts can
overlap and a stale one can be overtaken twice. Two rows in one page are needed
for the batch-wide updates (`FailBatch`, `RecoverPanic`) to hit a row that
somebody else has claimed; two chunks for a row that was sent in part. `MaxTry`
is `2 * MaxFault + 1`, which `RetriesBounded` shows no row ever exceeds, so the
bound cuts off no behaviour. In `SuiMaster`, four
blocks of which the last is too young give two chunks, the second one short, for
two goroutines of each of two masters.
In `BackfillIndexer`, a goroutine with two chunks sends two items to each channel of
one place, where two uploaders are behind, so senders, storing goroutine and pool
all wait for each other at some point; a goroutine that was left by a thread which
panicked still sends when the next attempt of its row does. The second row of the
page makes appends race and is touched by updates of the whole page; it has nothing
to send, and is DONE without objects. There are more uploaders than faults: an uploader that
hangs never comes back, and when all of them hang the indexer stands still until
it is killed, which is a limit of the code and the reason for that bound.
In `SwapIngest` the topic has two events of one block that a batch of two
separates and a block that comes after a higher one, which is what restarts
trip over; the export has two rows of one block, a row beyond the range, and,
depending on where the range begins, a full last buffer or an incomplete one.
Two faults give a handler that throws and a restart in one behaviour, in either
order.
In the second half of `master_insert`, pages of two rows and one block that always
fails leave one place in each page; a fault that gives that block a second copy
fills it, which is `Clogged`.

In `ingest_parts` the two handlers are of one process or of both, at one pool in
both directions or at two pools of the same tokens, for every protocol; the token
with 6 decimals has an address that begins with a zero, the one with 0 decimals
meets `|| 9`. Two errors are what it takes to exhaust a handler's tries, or to
guess in one process, restart it, and load what the guess left behind. The topics
pair the kinds so that each occurs, and those of navi in every combination that
its lookup tells apart, within one transaction and after another. Two faults allow
a guess about each coin, a guess that is then stored with a price, or a guess with
an error or a restart. Since the consumer treats events of all kinds alike, faults
other than guesses happen on two topics only: one whose first event is too early,
and one with an event that leaves no row. Two requests
suffice for an entry read before a move to be found after it, and for both to
read and store at once; two pages for a holding to be on one that was read already.
Holdings of all nine kinds are answered. Two of them also move, one within the list
of the objects and one between the balances and a call (`Moving`), and for two, one
of the balances and one of the objects, calls also fail and the process stops
(`Failing`); prices and coins are any. The three numbers of
`SqrtPrice` are of one and of two digits.
In `services`, the sources have a full batch, an incomplete one, a line too long,
one too short and one that cannot be read, and a prefix with more objects than a
listing. Three days and two goroutines let a day begin while the first one has
not read the flag, and let one begin after another has ended; a second command
covers days again. The calls of `PriceHistory` are within the cache's time of each
other and not, one spans more than twenty days and one is older than the history;
three of them are needed for a history fetched by one loop, replaced by the other,
and used by the first. The trades of `PriceFeed` include one that put nothing in,
one that got nothing, one without metadata and one that has left the window.
The clock of `TokensApi` goes through two runs that may be late, and lists are
shorter than what two runs store. In `AccountApi` two of four trades are of the
same time, across the boundary of two pages, and coins come before and after the
cursor.

Fairness. `EventuallyDone` of `SuiWorker` assumes weak fairness of each thread, each
goroutine, the passing of time and the reaper: goroutines are scheduled, every RPC,
database and Kafka call has a timeout or returns, and the cron of sui-master runs.
Nothing is assumed of faults, crashes and evictions, whose number the budget limits:
liveness is claimed once the environment behaves. `SavedAndIndexed` also assumes
strong fairness for a node that answers with the current checkpoint; a node that
lags for ever would stall the indexer. `ProcessFairness` of `BackfillIndexer`
assumes that goroutines are scheduled and calls return, and strong fairness of each
case of the `select`, which picks at random among those that are ready, and of a
process that ended being started again. Nobody has to kill a process that hangs:
`EventuallyDone` says that this is the only thing that can keep a row from DONE.
`EventuallyPassed` of `SwapIngest` assumes that the live process is started again
when it stops and that its poll loop runs (weak fairness), and strong fairness of
the commit timer, whose chance passes whenever a batch is being handled. That
somebody starts the backfill again is not assumed. `HandlersEndHere` assumes that a
process given a batch loads its tables, that handlers run, and that a call to the
node or the table returns or fails (weak fairness of `Prepare`, of each handler and
each answer); errors and restarts are bounded. Nothing is assumed of the other part
of the model.

Violations. `worker_event_cache`: a send fails after `cache.Add`, the row goes to
FAIL, the retry finds the keys in the cache, omits events and indices, sends the
rest and sets DONE. `master_hole`: the second chunk commits, the process dies before
the first does, and the next round resumes above the hole. `backfill_stored`: the
object of a checkpoint has no chunk in its name, so the second chunk replaces the
first. `swap_backfill_once`: `index.ts:176` processes a full buffer and
`index.ts:180` processes it again before it is cleared; the new trades have new ids,
so `skipDuplicates` keeps both. `sync_malformed`: a local file has a line with too
many fields between good ones; the loop ends there, since line 74 compares with an
error that the csv reader wraps, what was read is saved, and the command returns
nil. `LinesSyncedOnce` of the run `services` asks for nothing about the lines after
such a one, so it holds of a corrected loop as well.

More disagreements are visible in passing runs. `cronjob.go:51` speaks of 15
minutes, but the query waits for an hour: `ReapedInTime` measures the real time.
`holding.ts:310` says "TODO: Support query paginatated": `HoldingsShown` needs the
exception of NFTs beyond the first page.
`worker.go:104` of backfill-indexer returns an error "to stop goroutine", but
`ShutdownEndsOrHangs` needs its second half: a goroutine that sends to a full
channel after the storing goroutine has left never ends. And
`ReportedMeansCompressed` needs its exception for the CLI, which reports days
whose partitions it has not looked for.

## 4. Proofs

The theorems hold for every value of the constants that satisfies the
assumptions named below; the runs show the same properties on the instances of
section 3. Each safety theorem has the form Init => IInv, IInv /\ [Next] => IInv',
IInv => property. TLC checked each property, and most of the IInv, on the instance
of its run before it was proved.

`SuiWorkerProofs`, from `WorkerAssumption` (constants are numbers and functions
of the obvious sorts, and there are finitely many threads; rows may be infinitely
many, and `MaxFault` is arbitrary):

* `TypeCorrect`, `LockSafe`, `ClaimSafe` by the inductive invariant `ClaimInv`,
  the conjunction of `TypeOK`, `LockProtectsClaim` and `ClaimExclusive`. None is
  inductive alone: that a commit does not disturb an owner needs the locked rows
  to be unclaimed, and that `tries` stays in its type needs the page of a claim
  to be still what was selected. One lemma per kind of step (thread, goroutine,
  environment), each resting on `UpdateEffect`, which says what a status update
  outside a transaction can and cannot do.
* `RetriesSafe` by `RetryInv`, an account of who may still release a row. A row
  has used up its claims, plus one if it can be claimed now, plus one for each
  goroutine that will put it back (`Failing`) and one for each thread whose whole
  batch will be put back (`Releasing`); `RetriesCounted` says that together these
  are at most one and two for each fault. A fault pays two because a goroutine
  that fails may be the last of its batch, and then the batch releases the row
  again. The count needs the batches of threads that fetch to be apart
  (`BatchInv`), and threads to be finitely many, so that those who release can be
  counted.

`SuiWorkerDelivery`:

* `DoneSafe`, `EventsSafe` by `DeliveryInv`, which adds `ChunksBehindProduced`
  and `EventsBehindAccounted`: what lies behind a goroutine's chunk counter has
  been sent or was skipped. Most steps are *quiet*: they send nothing, finish
  nothing and move no goroutine forward; only `BuildPayload`, `SendChunk` and
  `MarkDone` need arguments of their own.
* `QueueImplemented`: the initial states map to initial states, and each step to
  a step of `CheckpointQueue` or to a stutter. A claim is `Take`, each FAIL and
  the reaper `PutBack`, `SendChunk` a `Deliver`, and `MarkDone` a `Finish`, whose
  guard is where `ChunksBehindProduced` is needed.

`SuiMasterProofs`, from `MasterAssumption` (masters are finitely many):

* `MasterTypeCorrect`, `HolesSafe` and `DelaySafe` by `MasterInv`.
  `HolesExplained` is not inductive because blocks in hand are inserted in any
  order: `HolesInv` extends it to blocks somebody has in hand.
* `CopiesSafe` by `CopiesInv`: the rows of a block and the masters that hold it
  are together at most the masters and the lost answers. Nobody gives a block to
  a master that has it (`HandsApart`), and nobody plans a block that is saved, so
  at first there is at most one holder per master; an insert turns a holder into a
  row, and one whose answer is lost is counted.

`CheckpointPipelineProofs`, from `MasterAssumption` and `PipelineAssumption`:
`PipelineTypeCorrect` and `PipelineHolesSafe` by `PipelineInv`, which is
`MasterInv` with `PipelineTypeOK`. A step of a master keeps `MasterInv` as
`SuiMasterProofs` shows, and the table only grows with it (`RowsGrow`,
`AllRowsMonotone`), so that the threads' pages stay rows of the table; a step of
the worker or of the cron job changes nothing of the masters but the fault budget
(`BesideMasters`). That a page never gets longer than `PageLimit` needs the table
to be finite (`RowsFinite`). `TableTypeCorrect` says it of what TLC checks, masters
with a worker or without, by `PartsInv`: whichever of the two specifications is
stepping, its own invariant holds.

`BackfillIndexerProofs`, from `BackfillAssumption`: `TypeCorrect`,
`ChannelsSafe` and `ObjectsExist` by one invariant in two halves. `Owned` says
who a goroutine belongs to: batches of committed claims are apart, what runs
belongs to a batch or was left by a thread that panicked, and the channels are
closed after the last thread has stopped; this is `ClosedAfterSenders`, which is
not inductive without it. `Kept` follows an item: what lies behind a goroutine's
chunk counter is in a channel, in memory, in the bucket or accounted for
(`ItemsKept`: no step forgets an item), which makes `MarkDone` safe, and what was
acknowledged has left an object. That `pool` and `stuck` stay finite is part of the
invariant too, since a full pool is told from one with room by their number.

`SwapIngestProofs`, from `SwapAssumption`: `TypeCorrect`, `CopiesAreExplained`
and `LossesAreExplained` by `Inv`. For copies, what lies ahead of a process has
not been saved by it (`AheadFresh`, `RowsFresh`), so that a call which adds a
trade to an event is the first, the second of the double call, or follows one
that threw. For losses, every event before a saved one is settled
(`PassedSettled`): the process may resume at the block of any trade
(`SnapshotSaved`), wherever the group is set back to, and then skips only what is
settled or overtaken. What the backfill has read is saved, dropped or in its
buffer (`ReadSettled`), and the buffer is below its limit.
`ConsumerImplemented`: each step of either process is a step of `TopicConsumer` or
a stutter. A call that succeeds is `Deliver`; one that throws and the expiry of a
session are `Return`, with a commit of what was resolved; the timer's commit is
`Pass`; the backfill only saves rows of the export. That nothing behind the group
is saved comes from `AheadFresh`, that nothing is passed without a copy or an
excuse from `PassedSettled`.

`IngestProofs`, the handlers of both ingesters:

* `DefiConsumerImplemented` and `RowsSafe`, from `DefiAssumption` and
  `CoinAssumption`, by `DefiInv`. A handler that saves is `Deliver` of one event,
  also if it reports an error; a restart is `Return`, a commit is `Pass`. The guard
  of `Pass` holds since what was given out is delivered or in hand
  (`ReachedDelivered`), that of `Save` since an event that is in hand or ahead has
  no copy that going back does not explain (`CopiesCounted`). It is the abstract
  specification that the process of swap implements, although defi saves event by
  event and forgets where it was. `DeliverySafe` then follows: the abstract
  specification keeps its promise (`ConsumerKeeps`), and the offsets are those of
  the topic; so the run checks `ImplementsConsumer` and not `DeliveryExplained`,
  too. Rows: every element of `saved[n]` is `Process` of the event for some quotes
  and some decimals of the pool, which are right or guessed (`RowsOf`); prices and
  guesses only grow, so that rows which could be made once could be made later
  (`PossibleRows`). `ProcessBelievable` goes through the kinds of events; the one
  that needs an argument is navi, whose rows depend on the first pool event of the
  transaction (`PoolCoinFirst`).
* `InfoSafe` and `TradesSafe`, from `AdapterAssumption` and `CacheAssumption`, by
  `CacheInv`: every place a number of decimals or a pool can be copied to (module
  state, remembered calls, rows, writes on their way, answers, what a task used) has
  the right value or 9 or 18, traced to a guess about the same token. The steps are
  shown for one `guessed` and then for it growing. `AtPool` is an invariant of its
  own: a task queries the table of pools only if its event names a pool. The
  adapters are correct for any pool and token (`AdaptedFrom`); that of Kriya
  compares two tokens and needs those of a pool to differ, which `AdapterAssumption`
  states: no exchange has a pool of a token and itself.
* `SettledSafe`, from `PositionAssumption`, by `PositionInv`: how long ago a request
  or an entry may have seen the holding where it no longer is. A list that is being
  stored is behind by at most what its request has spent, an entry by what is left
  of its life and two requests (`EntryKept`), a list that was found by both
  (`FoundKept`), and a request is done within `FetchTime`; so an answer is behind by
  less than `Ttl` and three requests, which is `LongAgo`. What is shown as empty is
  set apart first (`TrulyShown`). An entry without an end is
  waiting for the EXPIRE of a request, or an orphan.
* `AnswersWorth`, from the same: each of the nine kinds of holdings, in each guise,
  with any prices and either their coin's decimals or a guess next to them
  (`AnyQuotes`). Two arguments are not case by case. navi's answer lists its
  lendings once or once for each borrowing, and has each of them either way. And
  cetus compares numbers as strings of digits: `DigitByDigit` compares two strings
  of equal length at the first digit in which they differ, and `DigitsOrder`
  concludes that their order is that of the numbers, for all numbers of
  `SqrtPrice`, which are below 1000.

* `IngestTypeCorrect`: whatever part a behaviour is about, all keep their types. That
  of the caches needs more than `CacheInv`: a task that looks nothing up has no
  lookup under way, so that an answer which comes late finds a task that is still
  looking or was dropped, never one that is done (`TasksEnded`). That of defi goes
  through the handlers again, for the entries of their rows (`ProcessTyped`).

`ServicesProofs`, the services that `MCServices` puts side by side. Each has an
invariant of its own:

* `ReapSafe`, from `CronAssumption`, by `CronInv`: the age of an abandoned row and
  the time to the next run are together at most the threshold and a period for
  each run missed and one more (`AgeAccounted`).
* `ReportsSafe`, from `CompressionAssumption`, by `CompressInv`: a day is in a table
  at most as often as it was asked for, and once less while a job has its insert
  ahead (`AddedOnce`); what a job has inserted is there or was inserted blindly
  (`BehindInserted`), which cannot be for the daily job, since it works on one
  day and repairs first (`DailyAlone`).
* `PagesSafe` and `HoldingsSafe`, from `AccountAssumption`, by `AccountInv`. A trade
  alone in its time stands right behind the newer ones in every order the database
  may choose (`PlaceInOrder`, a bijection between its place and them); what is saved
  only adds newer ones, so it moves away from the offset and is not passed over. A
  coin that stayed was listed when the cursor went past it.
* `FeedsSafe`, from `FeedAssumption`, by `FeedInv`: each price of a run was sent,
  was lost, or is under way, and only one of these.
* `SyncSafe`, from `SyncAssumption`, by `SyncInv`: a line that the running command
  still has before it or in its buffer (`Pending`) was saved by the earlier commands
  at most, and any other line it can reach by this one as well (`AtMostOnce`,
  `AtLeastOnce`). A listing has its files and lines in one order, and the command
  is at one place of it.
* `ListSafe`, from `TokensApiAssumption`, by `TokensInv`: runs start at multiples of
  the epoch and each stamps its prices before the next starts (`RunsApart`), so that
  of three runs only two have their stamps in a window of one epoch, and a token has
  at most two rows in a list. That the tokens with a known supply are in order
  needs the ordering of the query to survive the loop that fills in supplies.
* `PricesSafe`, from `PriceAssumption` (a granule is at most a day, and no event is
  as old as the epoch), by `PriceInv`: the history covers the day before its end
  (`Covers`), and a call that values trades has none later than the history it was
  prepared with, but for the cache's time. That the first turn covers its day is
  `TurnCovers`, that the history begins with it `FlattenBegins`. The search is a
  recursive function: that it exists on every interval (`SearchDefined`) is shown by
  induction over the set of interval lengths for which it does (`AllNumbers` is that
  induction for sets, as the library's takes an operator); that it ends at the nearest of
  ascending points is `NearestFound`. The value of an unlisted token needs only
  that its quotes are in the table already.
* `ServicesTypeCorrect`: the types of all seven. `MCSpec` implies the specification
  of each service, whose type theorem (`CronTyped`, `SyncTypeCorrect`,
  `CompressTypeCorrect`, `PriceTyped`, `FeedTypeCorrect`, `TokensTypeCorrect`,
  `AccountTypeCorrect`) follows from its invariant and the bounds of its counters.

Three models were corrected by a proof. `Digits` of `PositionAdapters` had
overlapping guards in its CASE, `TokensListed` claimed an order of tokens that are
worth nothing, whose supply the table may lack (`Cap` 0 was not among the values of
the run), and `FeedAssumption` allowed a limit of zero attempts, with which
`FetchLatestCheckpoint`, which counts an attempt after it failed, leaves its type;
the code has five.

Only model-checked:

* liveness, which needs ENABLED: `EventuallyDone`, `SavedAndIndexed`,
  `EventuallyPassed`, `ShutdownEndsOrHangs`, `HandlersEndHere`.

Every invariant and every refinement that a run checks is stated by a theorem. The
theorems of one component are about its own specification; where `MCServices` or
`MCIngest` puts several side by side, its specification implies theirs but for
fairness, as the theorems about the composed types show. `MCSuiMaster` steps like
one of its two specifications, whose invariants are then kept (`PartsInv`).

## 5. Not modelled

See `components` in `PROJECT.json`. `GET /tokens/:address` and `GET /yields` of
sui-api are one query each, over what the modelled requests read too; of the
positions of sui-ingest/defi, the filter by protocol, the header `Cache-Control` and
the cached values of the chain (navi's reserves, cetus's dividend manager) are left
out. The handler of sui-ingest/token is empty, and its consumer and helpers are
copies of those of swap; the backfill of defi has an empty range; the transactional
and the asynchronous Kafka producer, the Redis repository and `SnapshotCheckpoint`
have no caller. Entry points, configuration, dependency injection, logging, health
checks and alerts do not affect the properties. Of data, what no property tells
apart is left out: the fields of a trade or a position other than coins, amounts,
decimals and prices, the formatting helpers and the bloom filter of
`sui-indexer/pkg`.

## 6. Plan

Done: the worker, its queue, the master and their proofs; `BackfillIndexer`;
`SwapIngest`; the caches, adapters and the consumer of defi; the cron jobs, the
CLI, the price history and the price feed; master, worker and reaper over one
table; the positions of defi and their cache; the requests of sui-api; the safety
properties of worker, master, backfill-indexer, swap, defi, their caches and
positions, and of the smaller services, by an inductive invariant each; the types
of the composed modules; the abstract consumer of both ingesters.

What would come next: liveness, once the provers can be given ENABLED.
