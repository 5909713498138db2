# A TLA+ verification project for arseeding

arseeding is a light Arweave node and bundler. It stores Arweave transactions
and their chunks, keeps tasks that copy data from and to the network, takes
bundle items for a fee, brings them on chain in bundles, and serves them to
browsers. Nearly all of its logic is concurrent: HTTP handlers, one goroutine
per task, a subscription to everPay, and about twenty scheduled jobs (jobs.go,
`runJobs`), each a singleton but all running against each other on a key-value
store, an SQL database and three remote services. There are no transactions
across these, and a node may stop between any two accesses. That is what the
modules here model.

## 1. Inventory

| Part | State | Operations | Hard behaviour | What makes it correct |
|---|---|---|---|---|
| Chunk store (submit.go, store.go, `getArTxData` of api.go) | `allDataEndOffset`, an end offset per payload, chunks by address, transaction metadata, wait-for-parse marks, manifest table; `submitLocker`, `endOffsetLocker` | submit chunk, submit transaction, fetch and store, read | allocation outside the callers' tests, two-Put "atomic" operations with roll-back, readers without locks, chunks whose content nobody verifies, crashes | payloads never share an address, chunks are where readers look, reads and fetches are whole, a foreign chunk harms one payload only |
| Task manager (task.go, taskmanager.go, handlers of api.go, `watcherAndCloseTasks`) | `taskMap`, pending pool, saved tasks, an unbuffered channel | register, run (sync, broadcast, broadcast_meta, sync_manifest), kill, time out, reload | the same id registered and worked on several times at once, failing bookkeeping, restart | no pending task is forgotten, an accepted one stays pending until it is saved, closed ones go away |
| Items, orders and payments (bundle.go, api.go, jobs.go, wdb.go) | order, receipt and api key tables, item binaries and metadata, everPay's transfers | submit item or native data, watch receipts, merge, refund, expire | five actors on the same rows without transactions, refunds that may be executed or not, expiry racing payment | money is settled once, pays what it should, items live as long as their orders |
| On-chain jobs (jobs.go, wdb.go) | order status, OnChainTx rows, the Arweave network | bundle, send, record, watch, retry; the same in sequence | sends whose outcome is unknown, dropped transactions, four jobs on two tables | success means on chain, pending means tracked, sequences keep their order, everything ends in success |
| Temporary files of downloads (api.go, jobs.go, middleware.go, manifest.go) | files, `tmpFileMap` of use counts | open, load, rename, count, serve, sweep | a lock over the map but not over the files, downloads that fail half-way | counts are right, files are removed |
| Kafka publication (jobs.go, kafka.go, wdb.go) | flags in two tables, the topics | query, look up, write, flag | lost acknowledgements, records that can never be published | nothing is flagged unpublished, few duplicates, everything is published |
| Daily statistic (jobs.go, wdb.go) | order_statistic table | one run at start-up, one per day | missed days, cut-off runs, failing queries, orders whose date moves | one row per day, the right orders in it |
| Gateway (middleware.go, manifest.go, arns.go, cache/) | a cache of domains for an hour, the item buckets | resolve a domain, serve a site, register and run its synchronisation | sites mined piece by piece, slow requests that write back old records, tasks that fail half-way | a site that is on chain comes up whole, a domain leaves the site its record has left |
| Client SDK (sdk/manifest.go, sdk/sdk.go) | orders and paths collected by a pool of goroutines, payment windows | upload a folder, pay its orders | goroutines that end in any order, payments whose outcome is unknown and that are repeated | the manifest comes last, every order is paid, once per attempt |
| Peer list and cache (cache.go), fees and prices, configuration, key-value back-ends, HTTP queries, GraphQL client, command line | see `components` in PROJECT.json | | | not modelled, reasons there and in section 8 |

How they interact: the task manager calls the chunk store (`FetchAndStoreTx`)
and the manifest synchronisation; payments make orders "paid", which the
on-chain jobs read; the statistic reads `updated_at`, which their updates and
Kafka's flags move; downloads read the items that payments store and the expiry job
deletes; what one node's on-chain jobs bring to Arweave another node's gateway
synchronises. Two modules compose components where they meet on the same data
(Reports on the order rows, Website on the items of a folder). Elsewhere a
module takes the others' part as environment (an order is opened, a row becomes
ready), with every choice the others could make.

The hazards, each with its line and the properties that would notice it, are
listed under `hazards` in PROJECT.json.

## 2. Modules

A component module holds constants, variables, one action per step and its
properties; the `MC` module next to it gives the small instances for TLC; the
`.cfg` files carry the bounds. A step is one access of the database, the store
or a remote service, since between any two of them every other goroutine may
run. What happens to local variables only is part of the neighbouring step.
Definitions named `X_Something`, placed before `X`, are deliberate faults: they
show that a property notices the mistake. Nothing else uses them.

**DataStore** - `allEnd`, `txEnd`, `chunks`, `txMeta`, `waitParse` are the
buckets of store.go; `submitLock` and `endLock` the mutexes; `pc`, `op`, ... the
locals of a goroutine. The actions follow `SaveSubmitChunk`, `SaveSubmitTx`,
`FetchAndStoreTx`, `syncAddTxDataEndOffset`, `AtomicSyncDataEndOffset`,
`setTxDataChunks`, `storeChunk` and `getArTxData` in order, with their early
returns. Addresses and sizes are integers: a region is `Size[k]` bytes ending
at `txEnd[k]`. A payload's split into chunks, `Chunks`, is a constant, because
the data root commits to it; `Data` is what a transaction's own data splits
into, the same when the transaction states its size rightly. What fails the
checks of a Merkle path or a signature changes nothing and is left out;
`Network` may deliver the data or not. `verifyChunk` validates a chunk's path
and looks neither at its bytes nor at their number, and does not compare the
`Offset` field with the path: `Submitted` is any set of chunks, whatever they
claim. A chunk is the place it claims (`lo` to `hi`, `hi` being the Offset field,
`lo` following from the number of bytes, below the payload or behind `hi` when
those are too many or none) and whose bytes it carries: its payload's, others,
or none that decode. A chunk that is not of its payload's split is foreign.
Addresses wrap below zero as uint64 does (`Word`); `spoiled` is a history
variable, the addresses that were ever given a foreign chunk.

**Archive** - what the chunk store promises, in four variables: the first
address of each payload (`region`), the chunks of it that can be read (`held`),
what each actor was answered (`reply`), and the payloads among whose addresses a
foreign chunk was put (`spoiled`). A payload is allocated once, to addresses no
other has; chunks arrive and never leave; only a whole payload is answered. To a
spoiled payload the last two are not promised, and spoiling one takes nothing
from the others. DataStore implements it (`ImplementsArchive`): `region` is where
the end offset puts a payload, `held` the chunks filed where `getArTxData` looks,
`reply` the payload of an error-free read or fetch, and a payload is spoiled when
a foreign chunk was filed in its region, by whomever. Locks, the two Puts, the
roll-back, the loop and the crash are invisible in it.

**Tasks** - `taskMap`, the pending pool and the saved tasks; `pc`/`id` per
goroutine, first in `registerTask`, then, after the rendezvous on `tkChan`, in
`processTask`. The type of a task is part of its id; here `kind` is chosen once
at the start, so that one instance covers all types. History variables:
`owed` are the ids with an accepted registration whose task is not saved yet;
a registration is `overtaken` when another goroutine of its id takes the entry
out of `taskMap` or the id out of the pool under it.

**Payments** - `orders`, `status` (the receipt table), `bal` (api keys),
`binary`, `meta`, `manifest` (the item buckets and table), everPay's `sent` and
`refunds`, and the locals of the handlers and of the merge, refund and expiry
jobs. `CalcItemFee` is any member of `Fees`: prices move between two requests.
The configuration is the one that charges fees; with `NoFee` none of these jobs
is started.

**Settlement** - what becomes of the money, in five variables: the orders, how
far each payment is (`fate`), the orders it `bought`, how often it was credited
(`credit`) and sent `back`. A payment buys an order of every item it names, at
once, in its currency, for no more than it brought and none that another payment
has; or it is credited, perhaps repeatedly, before it counts as spent; or it is
rejected, announced as refunded and sent back at most once. Payments implements
it (`ImplementsSettlement`): `fate` is the receipt's status, `bought` the orders
with its payment id. Sweeps, the search item by item, expiry, lost answers and
crashes are invisible in it.

**OnChain** - `orders`, `rows` (the OnChainTx table), the network's `net` and
`blocks`, and the locals of `onChainBundleItems`, `onChainItemsBySeq`,
`watchArTx` and `retryOnChainArTx`. The network may confirm or drop what it
has; a send may fail before or after it arrived. A job goes through a set of
ids from the least on, as the queries order them. `Failing` names the calls
that may fail; at most one item of a bundle fails to load. `SlowChain` says that
a block takes longer than the updates a job makes right after sending.

**Delivery** - what these jobs promise: orders are placed, items are sent and
mined, and the orders of an item are called pending or successful, all at once
and never before the item has come that far. Only ordered items are sent, no
order is lost or put back to waiting. OnChain implements it
(`ImplementsDelivery`): `sent` and `mined` are the items of the transactions
sent and confirmed, whichever bundle, row or retry they belong to. A successful
order may be called pending again, which the code allows (section 4).

**TmpFiles** - the file system, `tmpFileMap`, `deleteTmpFile` holding the map's
lock while it removes files, and requests of `dataRoute`, of the item data
route and of `ManifestMiddleware`. Loading an item fails without a file, or with
one that nobody knows of: the binary does not parse, or the download is cut off.
`leaked` is a history variable, the files nobody is going to remove. Ranges and
contents are left out.

**Kafka** - the two tables' eligible rows and flags, how often each row was
published, and the two jobs. A write may fail with or without the message in
the topic.

**Statistics** - successful orders with the day of their `updated_at`, the
statistic's rows, the start-up run and the daily one. Time is counted in days.
The on-chain jobs write an order's status as often as they like, and each time
the order is dated anew (`dated`: every day it was dated to). Each query and the
insert may fail; a failing query for the last row starts over at the first
order's day, and `again` keeps how long the table was then.

**Reports** - Kafka and Statistics on the same order rows: `KafkaDone` (wdb.go)
updates the row of an order and so moves the date the statistic counts it by, as
the on-chain jobs' updates do; an order is published once paid and counted once
successful; a crash stops both.

**Upload** - `uploadFolder` and `BatchPayOrders` of the SDK: the goroutine pool
(`file`, per file), the orders and paths it collects, the manifest, the window
of orders being paid, the everPay transfers made, and what the node has stored.
A file that cannot be sent ends the program (the pool's panic handler panics); a
payment that fails may have been executed, and may be repeated by the caller.
With `NO_FEE` nothing is paid; the model is of a node that charges.

**Gateway** - the gateway branch of `ManifestMiddleware` (`req`, per request),
`localCache`, the ArNS records, the item buckets, and `syncManifestData`
(`sync`, per goroutine): the raw site, the filter of items that are there, the
GraphQL queries in batches, the bundles they are in, `saveItem` of each. Where
an item is on Arweave is `bundleOf`: nowhere yet, in a bundle, or by itself
(`L1`). The life of the task around `syncManifestData` is in Tasks. A site is
asked for as a whole: which page a path leads to does not matter here.

**Website** - Upload and Gateway on the same items: what is paid may be mined,
in any grouping and order, the domain may point to the manifest as soon as it
is stored, and the second node synchronises what it is asked for. Failing calls
of both are counted together.

**DataStoreProofs, TasksProofs, PaymentsProofs, OnChainProofs, TmpFilesProofs,
ReportsProofs, WebsiteProofs** - theorems about the module (or composition) of
that name, **SumTheorems** the facts about sums they share (section 5).

## 3. Runs

`tlc -config X.cfg M` for every row; sizes are distinct states.

| Run | Module | Checks | Instance |
|---|---|---|---|
| DataStore | MCDataStore | `TypeOK`, `RegionsDisjoint`, `ChunksInPlace`, `ReadsWholePayload`, `FetchStoresPayload`, `LocksReleased`, `ImplementsArchive`, no deadlock | two goroutines, a payload of two chunks and one of one; submitted chunks: a genuine one, one of four bytes for a place of two, which reaches back over the other payload or below address zero, one that does not decode; one failing Put, one crash (1.5M, with symmetry) |
| Tasks | MCTasks | `PendingHasOwner`, `AcceptedTaskKept`, `PendingIsProcessed`, `ClosedTaskLeaves`, no deadlock | one id of every type, two goroutines, two peers, one fault, one crash (193k) |
| Payments | MCPayments | `SettledOnce`, `PaymentCovers`, `ImplementsSettlement` | a payment of two items and one of the first alone, fees 1 and 2, two orders, one fault, one crash (1.8M) |
| PaymentsItems | MCPayments | `BinaryHasMeta`, `NoOrphanItem`, `ReceiptsSettle`, `OverdueOrdersClosed` | two handlers, two currencies, two orders of one item with different deadlines, a day's change (240k) |
| PaymentsKeys | MCPayments | `CreditedOnce`, `BalanceWithinCredits`, `PaymentRecorded` | a deposit, unusable data, a deposit in an unsupported currency, a spending request, one fault, one crash (209k) |
| PaymentsExpiry | MCPayments | `PaidItemStored`, violated | one order, no faults |
| OnChain | MCOnChain | `SuccessIsOnChain`, `PendingIsTracked`, `SortedInOrder`, `ImplementsDelivery` | a sequenced item and one that comes both ways, two sends, one drop, one fault, one crash (369k) |
| OnChainLive | MCOnChain | `OrderStaysSuccess` | two plain items, one per bundle, five sends, one drop, one crash (285k) |
| OnChainRetry | MCOnChain | `SuccessIsOnChain`, violated | two plain items, an item that fails to load once |
| TmpFiles | MCTmpFiles | `CountIsUses`, `NoFileForgotten`, `FilesAreRemoved` | three requests by two goroutines for two names, one a manifest, one fault, one crash (76k) |
| Reports | MCReports | `FlaggedIsPublished`, `DuplicatesBounded`, `AllPublished`, `OneRowPerDay`, `NoDaySkipped`, `CountedOnItsDay`, `EveryDayReported` | two orders, one stuck and one whose status the jobs write again and again, three days, one fault, one crash (281k) |
| Website | MCWebsite | `ManifestLast`, `OrdersPaidOnce`, `SiteComesUp`, `StaleSiteLeaves` | a folder of two files, pool and windows of two, an older page by itself, one domain, one client, one task goroutine, two bundles, one repeated payment, one failing call, one crash of the gateway in behaviours without a failing call before it (440k) |

The `TypeOK` of TmpFiles, Kafka, Statistics and Website state what their
variables hold and are not part of the runs; those of the four large modules are.

Why these bounds are enough to be interesting. Every race above is between two
goroutines, or between a goroutine and a job, on one key, so two actors meet in
every order; a fault or a crash can hit every single step, once, together with
the other. Task ids share nothing but the watcher's copy of the map, so one id
is enough; two plain items or two orders of one item are what bundling, copying
a status and passing over an order need. Two sends are a bundle that is lost in
a crash or dropped and the one sent in its place, or one bundle of each job; what
longer histories could add is covered by the theorems (section 5). Five sends in OnChainLive
are more than any fair behaviour of that instance needs, so the bound does not
cut anything off (a smaller one would show up as a violation). TmpFiles allows
twice as many files as requests for the same reason. The jobs of Payments,
OnChain and Reports rest when there is nothing to do, which is why their
configurations switch the deadlock check off; DataStore and Tasks can always
take a new request. In Website the folder has three items with its manifest,
more than a GraphQL query or a payment takes, so both need a second round; one
task goroutine at a time is what TLC can afford (a second one multiplies the
states by more than twenty), so two synchronisations of one site overlap only
across a restart.

Limits of single runs, stated because the properties fail beyond them:
`SuccessIsOnChain` is checked without `"load"` in `Failing` (OnChainRetry is
the case with it); `BinaryHasMeta` and `NoOrphanItem` without crashes and
faults, and with every currency supported (an item sent with an unsupported
currency is stored before the fee is looked up and has no order);
`SortedInOrder` with items of one size; `OneRowPerDay` with
`NearMidnight = FALSE`. What the code allows and a property has to except is
said in the property: foreign chunks (`ReadsWholePayload`, `FetchStoresPayload`,
`ImplementsArchive`), overtaken registrations (`AcceptedTaskKept`), the five ways
a file is left behind (`NoFileForgotten`, `FilesAreRemoved`), failing reads of
the last row (`OneRowPerDay`). The run of DataStore reaches each of its
exceptions. Further limits: `ReadsWholePayload` and `FetchStoresPayload` with
payloads that do not end in a one-byte chunk; `SiteComesUp` for sites that are
mined when their task starts, without a failing call (section 6).

## 4. Fairness

- Tasks: weak fairness of each goroutine. Fetches and peer calls have time-outs.
  Registrations, kills, time and crashes are not assumed to happen.
- Payments: weak fairness of the handlers, of the subscription and of each job.
  The scheduler starts every job again and again (5 seconds to 2 minutes).
- OnChain: weak fairness of the four jobs, of blocks being mined, and of the
  network confirming a transaction it does not drop; drops are bounded.
  `SlowChain` is used in OnChainLive: ten confirmations take far longer than
  the database updates that follow a send. Without it `watchArTx` could
  overtake `updateOnChainInfo`, which would write "pending" over "success"
  until the next sweep.
- TmpFiles: strong fairness of the requests, since each may find the map's lock
  taken again and again and Go's mutex hands it to a starving waiter; weak
  fairness of the sweep.
- Reports: weak fairness of the jobs, of the scheduler and of time going on.
- Website: weak fairness of requests, of synchronisation tasks (HTTP calls that
  return) and of cache entries growing old (bigcache evicts after an hour).
  Nobody has to publish, to mine, to move a record or to ask for a page.

Faults are bounded in every run: a store that fails for ever settles nothing.

## 5. Proofs

`tlapm M.tla` checks the theorems of a module M for every value of its
constants: any number of goroutines, items, orders, payloads, transactions,
failing calls and crashes (the bounds of the runs are constants like any other
and are only assumed to be naturals). Every invariant that a passing run checks
is also a theorem, and so are the three refinements `ImplementsArchive`,
`ImplementsSettlement` and `ImplementsDelivery`. The types of Tasks, Payments
and OnChain and the action properties `RegionStable` and `PaymentIdStable` are
left to the theorems: the runs spend their time elsewhere.

| Module | Theorem | States |
|---|---|---|
| DataStoreProofs | `TypeCorrect` | `Spec => []TypeOK` |
| | `RegionsNeverOverlap` | `Spec => []RegionsDisjoint` |
| | `ChunksWellPlaced` | `Spec => []ChunksInPlace` |
| | `RegionsNeverMove` | `Spec => RegionStable` |
| | `ReadsAreWhole` | `NoOneByteTail /\ Spec => []ReadsWholePayload` |
| | `FetchIsDurable` | `NoOneByteTail /\ Spec => []FetchStoresPayload` |
| | `LocksAlwaysReleased` | `Spec => []LocksReleased` |
| | `StoreIsArchive` | `NoOneByteTail /\ Spec => ImplementsArchive` |
| TasksProofs | `TaskTypes` | `Spec => []TypeOK` |
| | `PendingAlwaysOwned` | `Spec => []PendingHasOwner` |
| | `AcceptedNeverForgotten` | `Spec => []AcceptedTaskKept` |
| PaymentsProofs | `PaymentTypes` | `Spec => []TypeOK` |
| | `NothingSettledTwice` | `Spec => []SettledOnce` |
| | `PaymentsCovered` | `Spec => []PaymentCovers` |
| | `PaymentIdWrittenOnce` | `Spec => PaymentIdStable` |
| | `DepositsCreditedOnce` | `Spec => []CreditedOnce` |
| | `BalancesCovered` | `Spec => []BalanceWithinCredits` |
| | `NoBinaryWithoutMeta` | `BinaryHasMeta` until the first fault or crash |
| | `NoItemOrphaned` | `NoOrphanItem` likewise, with `Symbols \subseteq Supported` |
| | `PaymentsSettle` | `Spec => ImplementsSettlement` |
| OnChainProofs | `OnChainTypes` | `Spec => []TypeOK` |
| | `SuccessesAreOnChain` | `Spec => []SuccessIsOnChain`, with `"load" \notin Failing` |
| | `PendingNeverForgotten` | `Spec => []PendingIsTracked`, likewise |
| | `SequenceIsKept` | `Spec => []SortedInOrder`, likewise and with items of one size |
| | `JobsDeliver` | `Spec => ImplementsDelivery`, with `"load" \notin Failing` |
| TmpFilesProofs | `CountsAreUses` | `Spec => []CountIsUses` |
| | `FilesNotForgotten` | `Spec => []NoFileForgotten` |
| ReportsProofs | `FlaggedWasPublished` | `SpecAll => []FlaggedIsPublished` |
| | `DuplicatesAreBounded` | `SpecAll => []DuplicatesBounded` |
| | `NoDayTwice` | `SpecAll => []OneRowPerDay`, with `NearMidnight = FALSE` |
| | `OrdersCountedOnTheirDay` | `SpecAll => []CountedOnItsDay` |
| | `DaysNotSkipped` | `SpecAll => []NoDaySkipped` |
| WebsiteProofs | `ManifestComesLast` | `Spec => []ManifestLast` |
| | `EveryOrderPaidOnce` | `Spec => []OrdersPaidOnce` |

Assumptions are the named ones of each module: sizes, fees and bounds are
naturals, sets that are counted are finite, `None` is none of the values, a
payload's chunks are disjoint and lie in it, a transaction's data contains the
chunks of its payload, a folder lists every file once. Of the chunks requests
bring nothing is assumed.
The provisos in the table are not conveniences of the proof; without them the
statement is false, and section 6 says how the code gets there.

- `NoOneByteTail`: the loop of `getArTxData` leaves out a last chunk of one byte.
- No fault and no crash so far: `AtomicSaveItem` and `AtomicDelItem` are two
  Puts, and nothing repairs what is left when the second does not happen.
- `Symbols \subseteq Supported`: an item is stored before its currency is
  looked up, so one in an unsupported currency has no order.
- `"load" \notin Failing`: the run OnChainRetry is the counterexample.
- Items of one size: an order too large for the rest of a bundle is passed
  over, the smaller one behind it is not. With one size, what follows does not
  fit either; the bundle may still hold any number of items.
- `NearMidnight = FALSE`: only time separates the two runs of the statistic.

**DataStore.** `RegionsDisjoint` is not inductive: it says nothing about the
moment between the two Puts. The invariant is `StoreInv`: `Core` (types, and
which operation may be at which step); `AllocInv` (whoever is between reading
and writing the offsets holds `endOffsetLocker`; before the first Put the value
read is still current, after it no allocated payload ends beyond the value from
before, which is why a roll-back is safe, and why a roll-back that fails, or a
crash instead of it, only leaves a hole); `BucketInv` (stored chunks are in
place, foreign ones on record); `TodoInv` (who stores chunks has a region for
them); `ReadInv` (what a reader has collected is the payload's chunks below its
position, or has a foreign chunk in it) and `FetchInv` (what a fetch has put
behind it is stored). Both speak of what is held unless the payload is `Meddled`
with, its region spoiled: regions do not move, and a chunk is lost
only to a foreign one at its own address, which spoils the region (`KeepsHeld`,
from `StoreEffects`, the three things that storing a chunk can do: deposit a
genuine one, spoil one region, or neither). `LocksReleased` is inductive together
with `Core`. `StoreIsArchive` is the refinement: storing the end offset allocates
(`AllocInv`), storing a chunk deposits it, spoils one region or changes nothing
(`StoreEffects`), the end of a read or a fetch answers (`ReadInv`, `FetchInv`),
everything else, crashes included, at most takes answers back. Reads of the
store do not fail in DataStore;
`LoadAllDataEndOffset` answers 0 for any error, and an allocation after a
failed read would start at address 0, so `RegionsNeverOverlap` depends on that.

**Tasks.** `PendingHasOwner` is inductive with the types: an id leaves its
goroutine only when it has left the pool or is `stuck`. `AcceptedTaskKept` needs
two invariants. `OwedInv`: as long as nobody has overtaken a goroutine, its task
is in the map and, past the step on the pending pool, pending; and an owed task
has such a goroutine or is `stuck`. `Kept`, for the rest: unless a registration
of the id was refused, a goroutine finds its task in the map or saved; past the
step on the pending pool the id is pending or saved, and past `SaveTask` it is
saved.

**Payments.** `TypeInv` adds to `TypeOK` which locals are set at which step.
`ReceiptInv` says where a receipt stands: what the merge job has before it is
unspent, what the refund job has before it waits for its refund, and money is
sent back only after the status says so; a receipt is in the hands of one job.
`OrderInv` follows the orders collected by `processPayItems`: an unpaid order,
and one that the merge job is about to pay although nothing locks it, has no
payment id (`UnpaidInv`); the receipt that paid an order is spent, in the
order's currency (`SpentInv`); what a receipt paid for costs at most its amount
(`FeesInv`).
`DepositInv` and `AgainInv` charge every repeated credit to a fault or a crash;
`BalanceInv` bounds the balances held in locals as well as those stored.
`Calm` (no fault, no crash) is part of `NoBinaryWithoutMeta` and `NoItemOrphaned`,
whose invariants say who finishes a half-stored or half-deleted item.
`PaymentsSettle` is the refinement: the transaction of `processPayItems` buys
(`OrderInv`, and `WantInv`: the items found and those still looked for are the
ones the transfer names, so at the end each has its order), writing a balance
credits, every update of a receipt's status is a decision on a payment that had
come just as far (`ReceiptInv`, `DepositInv`), and closing an order changes
nothing that Settlement sees.

**OnChain.** `TypeInv` holds the references between tables and locals, and
every step is shown once and for all to let the tables `Grow`: nothing is
deleted, an order, a row and a transaction keep their items, what is confirmed
stays so. `TrackInv` says of a status, in the tables and wherever a job carries
it, what it means (`Known`): a success is on chain, a pending item is listed by
a row; and a row's transaction carries the row's items. Both meanings are stable
under `Grow`, which is why four jobs that overwrite each other's statuses do no
harm. `SortInv` says that every bundle collected, recorded or sent is `Sound`:
what comes before one of its items is in it or on chain. That is stable too,
since an order opened later comes before nothing; it is established by
`InTurn`, and needs that only the plain job makes orders pending (`OrdersSound`).
`JobsDeliver` is the refinement: what a job is about to write as a status its
item has reached (`TrackInv`), so the update is a report, and what is bundled,
recorded or sent again was ordered (`WantedInv`), so the send is one too.

**TmpFiles.** `UsesInv`: the count of a name and its users change together, and
what `deleteTmpFile` read as unused under the lock (`DoomedUnused`) is unused.
`NoFileForgotten` is the safety half of `FilesAreRemoved`: `ForgetInv` says which
files a request holds at which step (`OwnInHand`), so that a rename, a failure
or the sweep passes a file on and never drops it.

**Reports.** The steps of Kafka and Statistics are handled apart and put
together for the composition. `JobInv`: a job works on rows without the flag,
and behind the write the row is published. `OwedInv` counts messages that no
flag stands for: each is due to a fault, to a crash, or to the job that is
about to set the flag. `DayInv`: at most one of the two runs is active; rows are
in the order of their days, all before today; behind its first queries a run is
about days after the last row. A run that could not read the last row starts
this order anew (`Behind`). `CountInv`: a day that a run counts is over, so no
update dates an order to it any more; updates only take orders away from it,
which had been dated to it. It holds for two runs at once too.
`NoDaySkipped` is the safety half of `EveryDayReported`. `SkipInv` adds that a
run has dealt with every day between the last row it read and the day it is at;
it holds for two runs at once too, so no proviso is needed.

**Website.** `FilesInv`: how far a file is decides whether the node has it and
the manifest names it, and past `wg.Wait` all are through. `OrdersInv` and
`WindowInv`: the orders noted are one for each file that is through, and the
manifest's when paying; before this attempt an order was paid at most once per
attempt, and in it those up to the window were paid and no other. No step of
gateway, miner or reader touches these variables.

**SumTheorems.** `SumFunction` and `SumFunctionOnSet` are defined by a fold, and
the library's induction theorems take an operator as a parameter, which the
provers cannot instantiate. Where a proof needs induction it takes the least
counterexample instead (`LeastNatural`), over the cardinality of the set: a sum
can be taken apart, is monotone, zero, or changed at one index.

Left to TLC: liveness under fairness, which the provers do not handle
(`PendingIsProcessed`, `ClosedTaskLeaves`, `ReceiptsSettle`,
`OverdueOrdersClosed`, `PaymentRecorded`, `OrderStaysSuccess`,
`FilesAreRemoved`, `AllPublished`, `EveryDayReported`, `SiteComesUp`,
`StaleSiteLeaves`), and the two violations of section 6.

## 6. Where the code and its comments disagree

Two runs end in a counterexample, listed under `findings`:

- **PaymentsExpiry.** `processExpiredOrd` checks for a paid order and deletes
  the item in separate steps, and both `UpdateOrderPay` and
  `UpdateOrdToExpiredStatus` update by id whatever the status: an order paid in
  between keeps its payment and loses its item.
- **OnChainRetry.** `retryOnChainArTx` ignores which items `onChainBundleTx`
  included, so an item that failed to load is marked successful with the rest.

Others follow from the models in the same way and have no run of their own:

- `getArTxData` reads a payload of one byte as empty, and `FetchAndStoreTx`
  takes that for "local exist data" (submit.go:145).
- `SaveSubmitTx` drops the data in the request when the payload already has a
  region (submit.go:65), although submit.go:74 says "save tx data chunk if exist".
- `verifyChunk` ("1. verify chunk", submit.go:15) drops the place and size that
  `ValidatePath` returns (submit.go:295) and never hashes the bytes: a chunk of
  other bytes is stored over a genuine one, one of the wrong length or Offset in
  another payload's region, and `getArTxData` returns, and `FetchAndStoreTx`
  takes for "local exist data", what it finds there. A chunk without bytes keeps
  the loop of `getArTxData` at one address for ever (api.go:386).
- A second registration of a task that is accepted while the first run is
  between `SaveTask` and `DelPendingPoolTaskId` leaves the pool with the first
  (task.go:152); a crash then loses it.
- A crash between the Puts of `AtomicSyncDataEndOffset` ("must use tx db",
  store.go:63) moves the global offset only.
- With two goroutines on one task a kill can be lost: the first to finish
  removes the closed entry (taskmanager.go:261). `syncManifestTask` never sets
  the timestamp that jobs.go:185 takes for "do not start" when it is zero.
- A sequenced item too large for the rest of a bundle is passed over, and a
  later one is uploaded first (jobs.go:645); so it is when an item does not load
  (jobs.go:888). An item that was also ordered without a sequence is bundled by
  the plain job, whatever comes before it.
- `getBundleItemData` leaves its temporary file behind when the binary does not
  parse (manifest.go:115) or the download fails after some bytes
  (rawdb/s3.go:113); `dataRoute` that of a manifest (api.go:1016), and
  `deleteTmpFile` may remove a file between its opening and `incFileCnt`
  (api.go:1142).
- "syncing data please wait some minutes and fresh the page" (middleware.go:215)
  is not always followed by the page. Pages that were not mined when the
  manifest was synchronised are left out (manifest.go:188), and so is what comes
  after a failing call (manifest.go:214, :237); once the manifest itself is
  stored a missing page is an error and starts no task. Transactions that are in
  no bundle are collected in `L1Artxs` and never fetched (manifest.go:203), so a
  site that is one stays "syncing".
- A crash between `SaveItemBinary` and `SaveItemMeta` leaves an item that the
  next synchronisation takes for present (manifest.go:168) and `LoadItemMeta`
  does not find; the undo of `AtomicSaveItem` (store.go:272) may delete a binary
  that another goroutine's task relies on.
- `BatchPayOrders` returns no transfers when one of several fails (sdk.go:110);
  calling it again pays the first windows twice.
- Two requests that spend from one api key at once may write the same balance,
  and a deposit credited in between may be lost (api.go:541, jobs.go:368).
- A node started just before 00:01 may run the daily statistic twice at once
  and insert a day twice (jobs.go:1169).
- An error of the query for the last row of the statistic is taken for an empty
  table (jobs.go:1160): the run inserts the days since the first order again.
- Every update of an order's row moves `updated_at`, by which the statistic
  counts it: an order whose status is written again on a later day (jobs.go:650,
  :685, :729), or that is published then, is counted on both days.

## 7. Plan

Done: DataStore, Tasks, Payments,
OnChain, TmpFiles, Kafka and Statistics composed in Reports, Upload and Gateway
composed in Website; abstract specifications Archive, Settlement and Delivery
for DataStore, Payments and OnChain; a theorem for every invariant and
every refinement of the passing runs. Next:

1. The safety half of `SiteComesUp` as a theorem: what a synchronisation has
   dealt with so far is stored.
2. A composition of Payments and OnChain through the order table; Settlement and
   Delivery are written over the same orders and would compose first.
3. The peer list (`filterPeers` waits for ever when an `Invoke` fails).

## 8. Not modelled

- Peer list and prices: values replaced whole and used as hints; the modules
  that use them allow every value.
- The SDK's HTTP wrappers, rewards and streams.
- Configuration (config/): three tables polled and replaced whole.
- Key-value back-ends (rawdb/): client libraries behind Put, Get and Delete.
- Fee collection, real-time statistic, metrics, command line, GraphQL client
  (generated), HTTP queries: no state of their own, or one overwritten value.
- `parseAndSaveBundleTx`: commented out of `runJobs`, so nothing takes the
  marks that DataStore models.
- Cryptography, encodings, message contents. In DataStore `allDataEndOffset`
  does not overflow: a payload whose claimed size is near 2^63 is left out.
- The order of the items inside a bundle: `getOnChainBundle` moves one with data
  to the end, and refuses a bundle in which none has data (jobs.go:905); the
  items of OnChain have data. The temporary files of `getOnChainBundleStream`.
- Torn values of unsynchronised fields (the counters of a task, the settings
  read while `config` replaces them). The database is assumed to return rows in
  the order of their ids where the code sets no order.
