# Formal models of HTF-Nano-Tick

TLA+ models of the trading components of this repository, model-checked with TLC, with theorems
proved with TLAPS about the lock-free queue and the logger on it, the order book and its index, the order rate limiter, the
object pool and the arena, the histogram and the calibrator, the gateway with its exchange, and the way from
the feed to the orders. Paths below are
relative to the repository; `PROJECT.json` gives, for each definition, the lines it models.

## 1. The system

A header-only, low-latency trading system. A QuickFIX session thread receives market data
and execution reports (`QuickFixApplication`), queues them in lock-free rings (`SPSCQueue`), and
one application thread takes them out, keeps order books (`MarketDataHandler`, `OrderBook`), computes
signals (`StrategyEngine`) and sends orders (`OrderEntryGateway`). Log lines go through one more
ring to a writer thread (`AsyncLogger`).

    FIX session thread --> SPSCQueue (market data) --> MarketDataHandler --> OrderBook --> StrategyEngine
           ^      |                                                                             |
           |      +--> SPSCQueue (execution reports) --> OrderEntryGateway::onExecutionReport    |
           +------------------ send callback <--- submit / cancel / replace <-------------------+

| component | state | operations | where it is hard | what makes it correct |
|---|---|---|---|---|
| `SPSCQueue`, `SPSCQueueBlocking` | two atomic indices, raw slots | tryPush, tryEmplace, tryPop, pop, front, empty, sizeApprox, full; push, emplace, popWait | two threads, stale loads, wrap-around, construction before publication | no slot used by both threads, FIFO, a bounded atomic queue, wait-free tries |
| `OrderBook` | slot pool and free stack, lists through the slots, sorted level arrays, hash index, cached best prices | addOrder, modifyOrder, deleteOrder, applySnapshot, clear, queries, update callback | five linked structures changed by each call, three limits that are reached at different moments | the structures agree with each other and implement price-time queues |
| order index of `OrderBook` | open-addressing table with linear probing | find, insert, erase with cluster reinsertion | an error shows long after the erase that caused it | finds exactly the live ids, no stale entry |
| rate limiter of `OrderEntryGateway` | ring of accepted times | checkRateLimit | wrap, several entries expiring at once, the edge of the window | never more than the limit in any window, never refuses below it |
| `OrderEntryGateway` | orders, pending set, positions, reserved positions, id counter | submitOrder, cancelOrder, cancelAllOrders, replaceOrder, onExecutionReport | reports cross requests; a message may not leave and nobody notices; a reservation is given back in pieces | tables consistent with each other and with the exchange; limits hold; done is done; every order is answered |
| `QuickFixApplication` | two rings, connection flag | onLogon, onLogout, three order sends, FIX callbacks, parsing, enqueue | a logout between any two steps of anything; "best effort" pushes into full rings; ExecTypes without a case | what left is answered; gateway and exchange agree, as far as every message left |
| `MarketDataHandler` | ring, books, last sequence numbers | enqueue, processNext, processMessage, processEntry | staleness is checked twice, at different times; per-symbol gap tracking of a session-wide number | no stale update reaches a book, no loss goes unnoticed, books converge to the venue's |
| `StrategyEngine` | life-cycle state, positions, entry time, last signal | initialize, stop, pause, resume, onMarketDataInto, handleOrderFill | fills attributed by the last signal; limit checked before exit | pairs are hedged and priced from current quotes; a position is closed when it should be |
| `ObjectPool` | lock-free free list through the slots, counter | allocate, deallocate, counts | compare-and-swap on a list whose nodes are reused (ABA); links in the storage of objects; a throwing constructor | every slot in one place; a call is refused only when the pool is empty; some call always gets through |
| `LinearArena` | bump offset | allocate, create, reset | alignment, the end of the buffer, `size_t` arithmetic | blocks are aligned, disjoint and inside the buffer |
| `AsyncLogger` | ring, running flag, writer thread | log, flush, destructor | flush against a message in the writer's hands; drain on shutdown; one producer assumed | every line queued before shutdown is written |
| `LatencyHistogram` | atomic buckets, count, sum, minimum, maximum | record, percentile, reset | counters updated one by one, by several threads and a reset; ranks from a floating-point product, truncated | exact at rest; a percentile has its share of the samples below it, up to a bucket and one sample |
| `TscCalibrator`, clocks | calibrated rate | calibrate; now | two clocks read one after the other | the rate survives interrupted samples |
| `Types`, mains, tests, benchmarks | none | - | - | - |

Everything in this code that is hard to test is listed under `hazards` in `PROJECT.json`, at its
line, with the property that would catch it or the reason there is none yet.

## 2. The modules

### The ring: `SPSCQueue`, `SPSCQueueObserver`, `BoundedFIFO`

One action per shared access of `tryPush` and `tryPop`. `ppc` and `cpc` say where each thread is in
its call.

| code | model |
|---|---|
| load of `m_head`, full | `PushFull` (a try returns false; the spinning `push`, `emplace` stay in the call) |
| load of `m_head`, room | `PushRoom` |
| placement new | `PushConstruct` |
| release store of `m_tail` | `PushPublish` |
| load of `m_tail`, empty / found | `PopEmpty` / `PopFound` |
| move out, destroy, release store of `m_head` | `PopMove`, `PopDestroy`, `PopRelease` |
| `front()` | `Front`; `peeked` is what the pointer points to |

Memory order: a thread reads its own index exactly. An acquire load of the other index may return
any value in that index's modification order from the last one this thread read (`headSeen`, `tailSeen`)
up to the current one (`Loadable`). That is weaker than sequential consistency and is what C++
promises for an atomic with one writer. Slots need no views: a value loaded with acquire makes the
accesses before the matching release store visible, and `NoSlotRace` shows that no slot is accessed
otherwise. `accepted`, `taken` are history variables.

`SPSCQueueObserver` adds `empty` and `sizeApprox`, two loads each (`full`, a third such query, is called by tests only
and not modelled), called by the producer
(as `AsyncLogger::flush` does) or the consumer (as its writer does). From a third thread (`queueDepth`,
`pendingCount`) the two loads can be a whole turn of the ring apart and the result means nothing; the
code's comments call it approximate and no property is stated about it. `AsyncLogger` extends it.

`BoundedFIFO` is the abstract specification: a bounded queue with atomic push and pop. A push takes
effect at the store of the tail, a pop when the element is moved out (`Contents`, `Returned`). The
destructor, which pops what is left when both threads are gone, is a sequence of pop calls.

### The logger: `AsyncLogger`

Two threads on the ring, at the ring's own grain: the application thread logs, flushes and destroys the
logger (`apc`), the writer loops (`wpc`).

| code | model |
|---|---|
| `log` (level, build, `tryPush`) | `Log`: the steps of a try; a line below the level changes nothing |
| `flush`: `while (!empty()) yield`, then flush the streams | `Flush`, `FlushLoads`, `FlushAsked`, `FlushReturns` |
| `while (m_running \|\| !m_queue.empty())` | `LoopRuns`; `LoopStops`, `LoopLoads`, `LoopAsked` |
| `tryPop`, `formatAndWrite`, `sleep_for` | `WriterPops`, `WriterPopped`, `WriterWrites`, `WriterSleeps` |
| destructor: clear the flag; join, drain | `Destroy`; `JoinAndDrain` (one step: no other thread is left) |

The flag is an acquire load: it may be seen set after it was cleared (`LoopRuns` has no guard on it), but
once it is seen cleared, every push made before is visible (`LoopStops` raises `tailSeen`). That is what
`WriterLeavesNothing` rests on. `flush` is to write all pending messages (Logger.hpp:202), which `FlushWritesEverything`
states and the run `logger_flush` refutes: it waits for the ring, not for the writer, and one line may still be in
the writer's hands when it returns. `FlushLeavesAtMostOne` is what it does keep. `MCRing` puts the two into one run: a behaviour is one of the ring, used by any two threads, or one of
the logger.

### The book: `OrderIndex`, `OrderIndexMachine`, `OrderBook`, `PriceTimeBook`

`OrderIndex` is the hash table as operators on a table: `Find`, `Insert`, `Erase` (with
`ReinsertCluster`, a loop of `Turn`s that each take one entry out and insert it again). `OrderIndexMachine` drives it alone, with any hash function,
and is run in `MCStructures`. `OrderBook` is the
whole storage; each of its operations is a function from a book to an outcome (book, result, emitted
updates), because `applySnapshot` composes them, and each public call is one action: the book has
one thread. `PriceTimeBook` is the abstract specification: a FIFO queue for each side and price, the
same limits, results and events; `Queues` is the refinement mapping. Left out: timestamps; read-only
queries beyond what the properties read. In the runs ids, prices and quantities are small integers (the proofs take any); 64-bit
overflow of a level's total is out of the model.

| code | model |
|---|---|
| `addOrder`: checks; slot taken, and given back if there is no level for it; level, links; index, or undo | `Add`; `AllocateOrderSlot`, `SlotGoesBack`; `Place`, with `WithLevel`, `LinkedAtEnd`, `EndedBy`, `Increased` |
| `deleteOrder` | `Delete`, with `Decreased` (clamped at zero), `Unlinked`, `LeftBy`, `ReleaseOrderSlot`, `RemoveLevelIfEmpty` |
| `modifyOrder` (to zero or less: a delete) | `Modify` |
| `applySnapshot`: `clear`, then `addOrder` for each entry | `Snapshot`: `after[n]` is the outcome of the first n calls (`AddEntry`) |
| `findOrInsertLevel`, `removeLevelIfEmpty`, `updateLevelLinks`: walk each moved level's list | `WithLevel`, `RemoveLevelIfEmpty`, `UpdateLevelLinks` over `Chain`, the slots a walk passes |
| `updateBBO`, `emitUpdate` | `UpdateBBO`; `events` |

The rollback at the end of `addOrder`, when the index refuses the id, is modelled (`Place`, last
branch) but cannot be reached: the code makes the index at least twice as large as the pool
(`BookAssumption`) and erases leave no stale entry (`NoStaleEntries`); the lemma `Fills` proves it.

### The gateway: `RateLimiter`, `RateLimiterMachine`, `OrderEntryGateway`, `GatewayExchange`

`RateLimiter` has the ring of `checkRateLimit` as operators (`Evict`, `HasRoom`, `Record`, `Admits`,
`AfterCheck`); `RateLimiterMachine` runs them against an unbounded clock and the history of accepted
requests; `OrderEntryGateway` uses the same operators inside `SubmitOrder`.

`OrderEntryGateway` has one action per public call, made by one thread (the class has no locks):

| code | model |
|---|---|
| `submitOrder`: rate limit, risk checks, tables, send | `SubmitOrder` |
| `cancelOrder`, `cancelAllOrders` | `CancelOrder`, `CancelAllOrders` (in any order of the hash map) |
| `replaceOrder` | `ReplaceOrder` (only the message is sent; nothing is recorded) |
| `onExecutionReport`, with `updatePositionOnFill`, `OnCancel`, `cleanupOrder` | `OnExecutionReport` |
| `nowNanos` | `now`, `Tick` |

`connected` is `m_connected` of `QuickFixApplication`, `sent` what has left through its send functions, `reports`
its queue of execution reports. While the session is down the send functions return false and the
gateway ignores it (`Send`): the message is gone and the tables say otherwise. `missed` remembers
that. The session's thread may log out or on between any two actions, and between the messages
of one `cancelAllOrders`: any of them may leave, in their order, the first if the session is up, and the session is up
afterwards if the last left. QuickFIX itself numbers and resends, so what left is delivered in order, after the next
logon if need be.

`GatewayExchange` adds `OnLogon`, `OnLogout` and the exchange, which is not in the repository: it takes messages in
order, accepts or rejects, fills in any pieces, answers cancels and replaces, and its reports are dropped when
the queue is full (`enqueueExecutionReport`). Where the code leaves it to the exchange, the model has every case:

- a cancel is confirmed under the id of the order or under the one `cancelOrder` drew for the request, which the
  gateway does not know; `unheard` remembers the orders whose end it is so not told of;
- a report that ends an order by cancel or reject states what was left of it, or 0 (as the rejected report of
  test_fix_parser.cpp does, and as `processExecutionReport` takes a report without LeavesQty): `Leaves`;
- OrderIDs are numbers or not (`NumericOrderIds`): for one that is not, `stoull` throws before the report is queued.

Left out: statistics, latency figures, timestamps of orders and the texts of messages.

### Memory and measurement: `SlotPool`, `ObjectPool`, `LinearArena`, `LatencyHistogram`, `TscCalibrator`

| code | model |
|---|---|
| `popFreeSlot`: load of the head; `oldHead->next`; exchange | `AllocateCall`, `PopReadNext`, `PopSwap`; `PopRetry` when it fails, for a reason or for none (weak) |
| `allocate`: null, count, placement new | `AllocateRefused`, `CountAllocated`, `Construct` (may throw) |
| `deallocate`, `pushFreeSlot` | `DeallocateCall`, `PushLink`, `PushSwap`, `PushRetry`, `CountDeallocated` |
| `LinearArena::allocate`, `create`, `reset` | `ArenaAllocate`, `ArenaReset`; sums modulo `WordSize` |
| `record`: three increments, two exchange loops | `RecordBucket`, `RecordCount`, `RecordSum`, `LoadMin` .. `RetryMax` |
| `reset` | `ResetCall`, then one `ResetStore` per counter |
| `percentile`: the rank, a truncated product of doubles; the bucket that reaches it | `Targets` (the ranks the product may give); `Cumulative`, `Percentile` |
| `calibrate` | the four readings of a sample `StartWall`, `StartTsc`, `EndTsc`, `EndWall`; `Measure`, `Calibrate` |

A slot of the pool is a union: the link of a slot in use reads as `Object`, a pointer to nowhere. Loads of the
head return the latest value: an older one could as well have been loaded earlier, and the exchange
acts on the latest. `SlotPool` is the abstract specification, a stack on which each call acts at once: at its
exchange, or at the load that finds the list empty. It is implemented **as long as one thread
allocates** (any number may deallocate, that one too): with two, a
slot can be popped, reused and pushed back between the load of its link and the exchange, see the finding.

The relaxed accesses of the histogram may return old values: the first load of the minimum returns any value
not below the current one, the first of the maximum any not above. No ordering between counters is
assumed: the properties speak of a histogram at rest, after the threads have been joined or
synchronised, and a reset that does not overlap a record is taken to be synchronised with it too. `overlapped` tells whether a record and a reset ran into each other.

`MCStructures` puts the four, the rate limiter and the order index into one run. They share no state, so each behaviour runs one of
them, chosen by `running`; the histogram has two kinds, a few calls of threads that race and more samples of one thread.
The index is run up to renaming, which nothing in it can see: the ids in the order of their buckets (`HomesInOrder`), and each
id in the slot of its own number.

### From the feed to the orders: `MarketDataHandler`, `CashCarryArbitrage`, `TradingLoop`

`MarketDataHandler` has the three ways an update takes to the books:

| code | model |
|---|---|
| a protocol adapter calls `enqueue`; the application thread `processNext` | `Enqueue`, `ProcessNext` (staleness at the pop) |
| `processMessage` on a FIX refresh, with `checkSequenceGap` | `ProcessIncremental`, `ProcessSnapshot`, `CheckSequenceGap` |
| `QuickFixApplication` queues entries; `processEntry` | `QueueEntries`, `ProcessEntry` (age since the receipt) |
| `DefaultMarketDataHandler::onMarketDataUpdate` | `OnMarketDataUpdate` on a book as a set of orders (`PriceTimeBook` has the queues) |

The two FIX ways leave the order id unset, and `addOrder` refuses an order without an id: nothing they
bring reaches a book. So the strategy is run from the adapter's way, which is also the
one the repository's README shows, and the FIX ways are there for staleness and gaps.

`CashCarryArbitrage` is `StrategyBase` with its one strategy: `Initialize`, `Stop`, `Pause`, `Resume`,
`ComputeSignal`, `OrdersFor`, `HandleOrderFill`. `TradingLoop` composes them with a venue and a link,
which are not in the repository: the venue publishes additions, changes and deletes of its own book, the link
may delay or lose a message (`Lossy`), each accepted update calls the strategy back, and the strategy's
orders are filled one unit at a time. History variables: `venueBooks` and `quoted` (the venue's book
and its best prices over time), `carried` and `heard` (what each message carried, what was checked for gaps),
`dropped`, `pair` (the last pair of orders and what it was based on).

## 3. The runs

| run | shows | instance |
|---|---|---|
| `ring_and_logger` | ring: `NoSlotRace`, `DeliversInOrder`, `FrontStaysOldest`, the inductive `RingInvariant`, `ImplementsFIFO` (the ring refines `BoundedFIFO`); under fairness `TriesAreWaitFree`, `WaitingEnds`; logger: `ProducerNeverUnderestimates`, `WritesInOrder`, `WriterLeavesNothing`, `FlushLeavesAtMostOne`; under fairness `WaitsEnd` (flush and the destructor return) | 4 slots, 5 pushes of 2 values: the ring wraps; full, empty and every stale view occur; any number of flushes |
| `logger_flush` | finding: `FlushWritesEverything` fails | the logger, as in `ring_and_logger` |
| `order_book` | storage invariants (`PoolConsistent` with the index, `LevelsConsistent`, `BestPricesCurrent`) and `ImplementsPriceTimeBook` | 3 slots, 4 ids that collide, 2 levels a side, 3 prices: pool, levels and a snapshot all overflow; lists of three orders; levels inserted in front of and between others |
| `structures` | limiter: `SlidingWindow`, `RefusesOnlyAtTheLimit`; index: `IndexConsistent` (`FindsExactlyTheLive`, `NoStaleEntries`); pool: `SlotsHaveOneOwner`, `CountSettles`, `ImplementsSlotPool`, under fairness `SomeCallGetsThrough`; `BlocksSound`; histogram: `ExactAtRest`, `PercentileIsRanked`, from p0 to p100 with p29 and p99.9; `RateIsRobust` | limiter: ring of 3, limit above it, window of 2, 9 ticks (several turns); index: 4 ids, 4 slots, 8 buckets (the code's ratio), all 4096 hash functions up to renaming: every cluster shape, around the end of the table too; pool: 3 slots, one thread that allocates and deallocates and two that deallocate, throwing constructors; arena: 16 bytes, alignments to 8, empty blocks and exact fits; histogram: 3 buckets, one latency out of range; 3 calls of record and reset of 2 threads, or 5 samples of one, the least for which p20 or p80 is a whole rank that the product may miss; calibrator: 5 samples of 2 or 3 ticks |
| `object_pool_aba` | finding: `HandedOutOnce` fails | two threads that allocate and deallocate |
| `gateway_tables` | `TablesConsistent` (`PositionIsFilledQuantity`, `PendingAwaitAck`), `ReservationsAccounted`, `OrderLimitsHold`, `OneSidedPositionHolds`, `DoneIsDone`, with logouts, cancels, replaces, closing reports with and without the quantity left | 2 symbols, 4 ids, limits of 1 pending, 2 open, position 2, 3 requests a window, ring of 4, clock at rest |
| `gateway_agreement` | `AgreesWithExchange` (positions always; open orders if every message left, but for those in `unheard`); under fairness `PendingIsAnswered`, `CancelStopsTrading` | logouts anywhere, no replace, 3 ids, 1 symbol, both sides |
| `trading_loop` | `StaleNeverApplied`, `NoSilentLoss`, `BooksConverge`, `TradesOnFreshQuotesUnlessDropped`, `HoldingTimeMatchesPosition` | 2 symbols, 2 messages to the adapter or 3 on a FIX way, clock to 3 with a threshold of 1, queues of 2, any loss |
| `gateway_replace` | finding: `PositionMatchesExchange` fails | with replaces |
| `gateway_reservation` | finding: `ReservesOpenQuantity` fails | 2 symbols, no replace, the session up |
| `trading_stale_quotes` | finding: `TradesOnFreshQuotes` fails | as `trading_loop`, nothing lost |
| `trading_exit_at_limit` | finding: `ClosesWhenBasisCollapses` fails | as above, position limit of 1 |

Each property has a mutant, an operator marked `Mutant:` before the definition it changes: TLC finds
the property violated when it replaces the definition.

Bounds: `MaxPushes`, `MaxIds`, `MaxTime`, `MaxMessages`, `MaxFixMessages`, `MaxBlocks`, `MaxCalls`, `MaxRacing` and the constraint `Clock` of
`MCStructures` cap what grows without limit in the code. Two messages to the adapter are enough for an
update that changes a quote and one that trades on what the first left; three on a FIX way are the
least that have one lost between two heard. Three slots are what the ABA problem needs, three calls what it takes
for two records to race and a reset to come between or after; the percentiles look at a histogram at rest, so one
thread with more samples shows more of them. The runs of the gateway, the ring with the logger and the trading loop do not
check deadlock, nor does `structures`: when ids, pushes, calls or clock are used up, or the logger is destroyed, the system may simply stop.
A queue of execution reports of 10 never fills in the runs that need it not to. Gateway windows are of
length 0 (a tick of the clock empties the ring; in `gateway_tables` there is no tick, and the fourth request is refused): the limiter itself is explored in `structures` and proved.

### Findings

- `gateway_replace`: `replaceOrder` (line 365) sends and returns a new id that it records nowhere; every report
  under that id is dropped (line 414), so the fills never reach the position. `cancelOrder` ("Cancel an existing order.", line 309)
  draws an id for its request in the same way (lines 329-333, sent as ClOrdID by QuickFixApplication.hpp:268): a confirmation under that id is dropped too,
  and the order stays PendingCancel, open and reserved. For cancels `CancelStopsTrading` is what holds, and the positions stay right;
  `AgreesWithExchange` sets apart the orders it happens to (`unheard`).
- `gateway_reservation`: `onExecutionReport` overwrites the remaining quantity with the report's LeavesQty (line 425) before
  `updatePositionOnCancel` (line 715) gives back what remains. A reject or cancel with LeavesQty 0, which
  is what a closed order has and what test_fix_parser.cpp:186 builds, or without the field, gives nothing back: the reservation ("Reserve
  position for pending order", line 702) outlives the order and counts against the position limit.
  `ReservationsAccounted` is what holds: nothing else is left reserved, and nothing is given back twice.
- `logger_flush`: `flush` ("Flush all pending messages synchronously.", Logger.hpp:202) returns, and flushes the streams, while the
  writer holds a line it has popped and not written (line 208).
- `object_pool_aba`: between the load of `oldHead->next` (MemoryArena.hpp:185) and the exchange (186) another thread may
  pop that slot and the one behind it, and push the first back. The exchange then succeeds and makes the second, which
  is in use, the head; the next call hands it out again. The class calls its allocation thread-safe (line 88). With
  a single allocating thread the same instance passes (`SlotsHaveOneOwner`).
- `trading_stale_quotes`: a stale message is discarded (MarketDataHandler.hpp:448) and the book stays as it is. The
  quote the message removed or changed is still the best price when the next update calls the strategy,
  which trades on it however old it is; the repository's README promises that this protection
  prevents that. `TradesOnFreshQuotesUnlessDropped` is what holds.
- `trading_exit_at_limit`: `computeSignal` returns at the position limit (StrategyEngine.hpp:459) before it looks
  at the exit conditions: a strategy at `maxPosition` never closes, by the basis or by the holding time. Below
  the limit the property holds (the same instance passes with a limit of 9).

Other things the model shows have no run of their own: most are ruled out by no text of the repository, or need calls or
messages the repository does not produce.

- with orders on both sides the gateway's position check takes the *net* of what is pending
  (OrderEntryGateway.hpp:678), so a pending sell makes room for a buy and the position may pass its limit;
  `OneSidedPositionHolds` is what it does bound;
- a full queue of execution reports drops what comes, and the tables are wrong from then on (`RoomForReports` in the proofs);
- the same holds of a report whose OrderID is not a number, on which `stoull` throws (QuickFixApplication.hpp:499, OrderEntryGateway.hpp:483) before it
  is queued: with `NumericOrderIds` FALSE no order is ever answered. test_fix_parser.cpp:503 answers an order under OrderID "EX123" and
  expects it to become New (line 517);
- an order or a cancel submitted while the session is down is gone, and nothing in the gateway finds out;
- `availableCount` of the pool wraps below zero while a call is between list and counter, and a slot whose constructor
  throws is lost (`CountSettles`, `lost`);
- the arena accepts an alignment above that of its buffer, and a size that wraps (`ArenaAssumption` excludes them);
- the rank of a percentile is rounded to zero for p50 of one sample, which gives the bound of the first bucket or the maximum, and
  falls one short of a whole number where the product of doubles does (p29 of 100 is 28): the property allows one sample.

### Fairness

- Ring: a thread inside a call keeps running (weak fairness of its steps). A store becomes visible
  to other threads' loads in finite time (C++ asks this of implementations), so among infinitely many loads
  that could find room, or an element, one does: strong fairness of `PushRoom` and `PopFound`,
  since failed tries come in between. `WaitingEnds` also assumes that the consumer
  polls, as the writer loop of `AsyncLogger` does. Wait-freedom assumes the fairness of the caller's thread only.
- Logger: both threads keep running inside a call and the writer in its loop; among infinitely many loads
  of the head by `flush`, of the tail by the writer, or of the flag, one returns the latest value.
- Gateway: the application keeps taking reports, the session is logged on again after each logout (QuickFIX reconnects), and
  among infinitely many chances, interrupted by logouts, the exchange answers (strong fairness of `Answer`).
  Nobody has to submit, cancel or trade. A message that did not leave is never retried and never times out in the
  code (`orderTimeoutNanos` is read nowhere), so the liveness properties end in `missed`.
- Pool: threads keep running inside their calls, and among infinitely many exchanges that could succeed not all
  fail spuriously. No fairness between threads is assumed in the loops: only that *some* call gets through is claimed.

## 4. The proofs

What TLC shows on an instance these theorems show for every value of the constants: every capacity, set of ids,
limit, threshold and number of calls. Each rests on an inductive invariant, checked step by step: one lemma
for each action, one step for each part of the invariant that the action can disturb.

| module | theorem | states | needs |
|---|---|---|---|
| `SPSCQueue_proofs` | `TypeAndRingInvariant`, `SlotsAreExclusive`, `FrontIsStable`, `InOrderDelivery`, `RingImplementsFIFO` | `RingInvariant`, `NoSlotRace`, `FrontStaysOldest`, `DeliversInOrder`, `ImplementsFIFO` | |
| | `SizeErrsHighOnly`, `LinesInOrder`, `WriterEndsDone`, `FlushNearlyDone` | `ProducerNeverUnderestimates`, `WritesInOrder`, `WriterLeavesNothing`, `FlushLeavesAtMostOne` | |
| `OrderIndex_proofs` | `IndexStaysConsistent` | `IndexConsistent` | |
| `OrderBook_proofs` | `PoolStaysConsistent`, `LevelsStayConsistent`, `BestPricesStayCurrent`, `BookImplementsPriceTimeBook` | `PoolConsistent`, `LevelsConsistent`, `BestPricesCurrent`, `ImplementsPriceTimeBook` | |
| `Timing_proofs` | `WindowIsBounded`, `LimiterIsExact` | `SlidingWindow`, `RefusesOnlyAtTheLimit` | |
| | `HistogramIsExactAtRest`, `PercentilesAreRanked` | `ExactAtRest`, `PercentileIsRanked` | |
| | `CalibrationIsRobust` | `RateIsRobust` | |
| `MemoryArena_proofs` | `PoolKeepsSlotsApart`, `PoolCountSettles`, `PoolImplementsStack`; `ArenaBlocksSound` | `SlotsHaveOneOwner`, `CountSettles`, `ImplementsSlotPool`; `BlocksSound` | pool: `OneAllocator`, finitely many threads |
| `GatewayExchange_proofs` | `LimitsHold`, `DoneStaysDone` | `OrderLimitsHold`, `DoneIsDone` | risk checks on |
| | `TablesStayConsistent`, `ReservationsAddUp`, `PositionLimitHolds` | `TablesConsistent`, `ReservationsAccounted`, `OneSidedPositionHolds` | risk checks on, `RoomForReports` |
| | `BothEndsAgree` | `AgreesWithExchange` | as before, no replaces |
| `TradingLoop_proofs` | `StaleIsDiscarded`, `LossIsNoticed`, `BooksBecomeTheVenues`, `PairsAreFreshlyPriced`, `ClockRunsWithPosition` | `StaleNeverApplied`, `NoSilentLoss`, `BooksConverge`, `TradesOnFreshQuotesUnlessDropped`, `HoldingTimeMatchesPosition` | |

`FiniteSums_proofs` holds the lemmas about sums over finite sets that the limiter, the histogram, the gateway and the book need (the
sum of a function that changes in one place, of one that is bounded by another, over two sets with nothing in common, and over a set counted another way), and two that stand in for induction, in the
index too: a set of natural numbers has a least element, and counting up there is a first number outside a set.

*Hypotheses.* Besides the assumptions on the constants, which are those of the code (`IndexAssumption`: the
table has at least two buckets for each slot, as the constructor of the book makes it; `BookAssumption`: that, prices are
integers, and a snapshot numbers its orders with ids), `OneAllocator` (no two threads allocate) is what the finding `object_pool_aba` shows to be needed.
`EnableRiskChecks` is the switch without which the gateway checks nothing. `RoomForReports` says of a
behaviour that the queue of execution reports is never full and that OrderIDs are numbers: the code drops what it has no room for
and what `stoull` refuses, and a report that is lost is an account that is wrong for ever. Nothing is assumed of what a
closing report states as left, or of the id a cancel is confirmed under. `ReplaceQuantities = {}` leaves replaces out, since they
break the agreement (`gateway_replace`). Each holds in the run that checks the same property.

**The ring.** The properties are not inductive: that
the slot at the tail is raw depends on what the producer last knew of the head. `RingInvariant` adds that

- in ring order the views are behind the indices: headSeen, head, tailSeen, tail (`ViewsBehind`);
- the slots from head to tail hold the accepted elements not yet taken, in order (`Stored`);
- every other slot is raw, except one being filled (`Unused`);
- a thread past its check has room, or an element, by the index it saw (`InCall`).

Lemmas about `Distance` and `NextIndex` carry the modular arithmetic.

**The logger.** Its steps are steps of the ring or leave it alone, so the ring's invariant holds. `LoggerInv` adds which
phase of one thread goes with which of the other (`Phases`: after the flag is cleared nobody pushes), what
the two loads of `empty` and `sizeApprox` returned against the indices as they are now (`Loads`), what the writer
holds (`Hands`) and that once the writer has seen the flag cleared it also sees the last push (`Emptied`).

**The order index.** What a probe finds depends on every bucket it passes, so `IndexConsistent` says too little to be
inductive. `IndexInv` adds that each live order is held once and is *reached*: all buckets from the one its id hashes to
up to its own are full. An empty bucket cuts the ring into a line (`Line`, `Rank`); there is always one, as the table has
twice as many buckets as there are slots (`IndexAssumption`). An erase breaks the invariant for the rest of its
cluster, and `ReinsertCluster` mends it turn by turn: after the turn at rank *a* (`Mending`) the entries up to *a* are reached and
the others miss no bucket beyond *a*. At the end of the cluster nothing is left to mend. The loop is a
recursive function on the number of turns; that each turn preserves `Mending` is carried to the last one by the least
number of turns for which it would fail.

**The order book.** None of its properties is inductive: that a call leaves the links of one level right depends on every other
level, the stack and the index. `BookInvariant` says that the storage *represents* some lists (`Represents`): q gives a
sequence of slots for each side and price, and

- the links spell these sequences, forward and back (`Threaded`), and every live order is in the one of its side and
  price (`Queued`);
- each side's levels are sorted and describe the lists of their prices: ends, number, quantity; each live order knows the
  position of its level (`LevelsFit`);
- the free stack holds the other slots, wiped, and the index the live orders (`Pooled`, `IndexHolds`);
- no level's list is empty, and the best prices are those of the first levels.

The first three are `Assembled`: they also hold inside a call, when a level is open that has no order yet or no order left, or
the best price is old. Each helper of the code has a lemma that takes an assembled book to an assembled book
(`WithLevelOpens`, `Fills`, `TakesOut`, `RemoveLevelCloses`, `UpdateBBOIs`), and the calls are put together from them: `Placing` appends to
one list, `Deleting` removes one member, `Modifying` keeps every list. So the subtraction that `deleteOrder` clamps at zero is
never clamped (`LevelWeighs`), and the index never refuses an order, so the undoing branch of `addOrder` is dead (`Fills`). That a walk
along the links ends, and where (`ChainIs`), and that a snapshot of any length does what the queues promise (`CoursesMeet`), are
inductions, made by the least number for which it would fail. The three storage properties follow from the
representation; for the refinement `Queues` is what the lists show (`QueuesAreShown`), and each call on the storage
is the call on the queues (`AddSame`, `DeleteSame`, `ModifySame`, `SnapshotSame`). The index enters by the lemmas of
`OrderIndex_proofs`, instantiated with the book's slots. TLC checks the same three properties, which say of a state what
the invariant says of its lists, and the refinement, in `order_book`.

**The limiter.** The ring is the tail of the history of accepted times, the history is in time order and what
the ring forgot is out of the window.

**The histogram.** `HistogramInv`: the counters and what the threads still owe them are the samples. A thread past its
bucket owes the count one, the sum its latency, and each extreme its latency, until it has exchanged it or seen one beyond it
(`BucketsTally` .. `MaxTally`); a minimum that is not at or below a recorded latency is owed by a thread
that recorded it. A reset alone with the histogram leaves zeros behind it (`Cleared`), and nothing is claimed while
`overlapped`. At rest nothing is owed. For the percentiles, the sum up to a bucket is the number of samples up to it
(`CumulativeIs`), and only what was recorded counts (`NumberCovers`). So the samples up to the bound of the bucket in which the sum reaches
the target are at least the target, which is less than one sample short of the share (`TargetIs`), and those below the
bucket are fewer than the target, which is at most the share.

**The calibrator.** A sample is at most one, and one if the thread was not kept in it (`ClocksAgree`). If the median is below one, more
than half of the samples are.

**The pool.** `LinksMatchFree`: the links from the head on are the abstract stack. `LocalsHold`: while the
allocating thread is between its load of a link and its exchange, a head that is still the same still
has that link. That is where a single allocator is needed: other threads can only push in front, and the
head cannot come back unless that thread pops it. `Apart` and `Everywhere` put each slot in exactly one place: free,
in use, in a thread's hands or lost. `PoolImplementsStack` maps every step to one of `SlotPool` or a stutter.

**The arena.** `AlignUp` gives the least multiple at or above its argument, and no sum wraps as long as the sizes are
within `ArenaAssumption`.

**The gateway and the exchange.** Three invariants, each on top of the last:

- `LifeInv`: where an order is in its life. A message not yet read, an order resting and a report on the
  way exclude each other as they should (`OnTheWay`, `SentOnce`, `LiveIsOpen`), a report that ends an order is the last of it
  (`EndIsLast`), and every report is for an order not yet over (`ReportsOpen`). Without it nothing stops a
  report from reopening an order that is done. The order limits follow, as they count open orders only.
- `AccountInv`: what of an order is filled and what is left. The reports of one order on the way continue each other and the
  gateway's own account (`FirstContinues`, `OthersContinue`; a report that ends the order may leave out what was left), and the last agrees with the order that rests
  (`LastAgrees`, `NothingToTell`). The reserved quantities are then the sums of what is pending and of what closing reports left out, the positions the sums of
  what is filled, and the exposure, position and reservation together, stays within the limit on
  a symbol that was traded on one side (`ExposureBounded`, which is inductive where `OneSidedPositionHolds` is not).
- `AgreementInv`: there are fills told, by the last report of each order, that sum up to what the exchange traded;
  and if every message left, each open order is on the way there, resting, or on the way back, unless it is `unheard`: gone at the
  exchange (`UnheardGone`), and open here for good.

**From the feed to the orders.** `FeedInv` says what is on the link and in the queues. `HeardInv` ties the last sequence
numbers to what was heard: what is still on the link comes after it, so a message that carried a
symbol and is missing shows in the next one. `HeldInv`: the two legs cancel. `FlightInv`, of the adapter's way with nothing dropped,
is a path of books from the handler's to the venue's through the messages under way (queue, then link), in which every
book in between was quoted by the venue until its message was sent or later. So the pair a message causes is priced
from quotes that held when the message was sent or later, and a message that passes the staleness check bounds their age;
once nothing is under way, the path is one book.

*Only model-checked*: the liveness properties, `TriesAreWaitFree`, `WaitingEnds`, `WaitsEnd`, `SomeCallGetsThrough`, `PendingIsAnswered` and
`CancelStopsTrading` (fairness and ENABLED are beyond the prover). Every invariant, action property and refinement that a passing run checks has
its theorem.

## 5. Not modelled

The work went from the ring and the logger on it over the index and the book, the limiter, the gateway with its session and exchange, and the way
from the feed to the orders, to the pool, the arena, the histogram and the calibrator; then the proofs of section 4, the book's last.

Not modelled: `subscribeMarketData` of `QuickFixApplication` (sends a request and keeps nothing) and its message
counters; the clock sources (hardware reads) and floating-point conversions of `Types`; `AlignedAllocator`
(forwards to the C library); uses the code leaves undefined (two producers on a ring, the gateway called from two
threads); mains, tests, benchmarks and build files.
