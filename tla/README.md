# FalconKV: TLA+ models, model checks and proofs

FalconKV stores the key/value cache blocks of an inference cluster on local
SSDs.  Every node runs a *store* (a preallocated data file cut into slots, an
in-memory key index, background eviction) and *clients* embedded in the
inference engine; one *Meta* server maps keys to the store that has them; one
*scheduler* per node admits and accounts I/O.  Paths below are relative to the
repository root; the C++ is in `src/{common,store,meta,client,scheduler,transfer}`
and `python/_pyfalconkv_internal`.

## 1. The system

| component | state | operations | talks to |
|---|---|---|---|
| `SlotAllocator` (common) | slot size and count, bump pointer `next_slot_`, LIFO `free_stack_`, `used_slots_` | `Alloc`, `BatchAlloc`, `Free`, usage getters | called by the store, the pending queue |
| `StoreMetaIndex` (store) | key -> record map, intrusive LRU list, `committed_count_` | `Put`, `Get`, `Touch`, `BatchContains`, `Commit`, `Remove`, candidate selection, snapshot | called by the store, EvictManager, FullResync |
| `FalconKVStore` (store) | owns all of the store, the data file | `Put`, `BatchPut`, `Get`, `Remove`, `Read`/`Write`, `Init`, `Close` | everything in the store |
| `EvictManager` (store) | a thread, watermarks | `EvictLoop`, `ForceEvict` | index, MetaSyncClient, pending queue |
| `PendingEvictQueue` (store) | slots with their enqueue time, a thread | `Enqueue`, `EvictLoop`, `FlushExpired`, `FlushAllForced`, `Stop` | allocator |
| `MetaSyncClient` (store) | `connected_`, channel and stub, queue of commits, two threads | `SyncCommit`, `AsyncCommit`, `SyncRemove`, `RegisterStore`, `ReconnectLoop`, `FullResync` | Meta by RPC, index |
| `MetaManager`, Meta service | sharded key -> record map, registered stores; nothing is persisted | `RegisterStore`, `SyncCommit`, `SyncRemove`, `BatchExist`, `BatchLookup` | stores and clients by RPC |
| `MetaRpcClient` (meta) | channel, reconnect thread | `BatchExist`, `BatchLookup` | Meta by RPC |
| Client (client) | `KeyDescCache`, remote clients | `BatchExist`, `BatchPut`, `BatchGet`, `BatchGetSync`, `Close` | local store, Meta, remote stores, scheduler proxy |
| Store RPC service | HIXL leases and buffers | `Read`, `BatchRead`, `PrepareHixlBatchRead`, `ReleaseHixlRead`, `GetByKey` | store |
| `NodeLocalAccessor`, `FdCache` | data files and descriptors of stores on the node | `RegisterStoreFile`, `Read`, `BatchRead` | SSD files |
| `IOThreadPool`, `IOUringEngine` | worker threads and queue, one ring for all threads | `SubmitAndWait`, `Stop`, batch I/O | SSD |
| `SchedulerProxy` (one in the client, one in the store) | CONNECTED/BYPASS, failure count, probe thread | `RequestIO`, `ReportIOCompletion`, `StoreReportIOAsync` with its detached threads | scheduler by RPC |
| Scheduler | active I/Os, windows of statistics | `RequestIO`, `ReportIOCompletion`, `StoreReportIO` | proxies |
| Transfer | channel maps | `GetMetaChannel`, `GetStoreChannel`, `CloseAll` | stubs in this tree |
| Python bridge | registry of bridges, task queue, two workers | `BatchExistSync`, `BatchPutSync`, `BatchGetSync`, `FireAndForgetPut`, `Close` | client, store |

What is hard about it:

* **No lock spans two objects.**  Allocator, index and pending queue each have
  a mutex; a put or an eviction is a sequence of locked sections, and puts,
  the evict thread and the reaper interleave between any two.
* **Snapshots.**  Evictions work on copies of index records, `FullResync` on a
  copy of the whole index, a flush on a clock value read before the lock.
* **Two copies of the truth.**  Index and Meta are kept in step by blocking
  calls, a queue with its own thread, and a resync, over RPCs that fail or lose
  their reply, to a server that forgets everything when it restarts.
* **Deferred reclaim.**  A slot returns to the allocator only after a grace
  period, so that readers holding an old description still find the data;
  a put that runs out of space overrides it.
* **Failure in the middle** of batches: partial allocation, partial writes,
  refused removals.
* **Descriptions outlive what they describe.**  Clients keep offsets they read
  later without asking the store; leases, tokens and tickets cross restarts of
  the process that issued them.
* **Shutdown.**  `Close` stops some ten groups of threads one after the other,
  under a mutex, with the Python interpreter lock given up and retaken, while
  detached threads go on that nobody stops.

What makes the parts correct: no slot has two owners and none is lost; a key in
the index has its value on the SSD; usage counters that trigger eviction are
exact; every operation ends and reports no space only with cause; the LRU list
is a list of the committed keys in order of use; what the store has, Meta comes
to know, and what was removed, Meta does not bring back; a read delivers the
key's bytes or an error while the description's slot lasts; leases, buffers and
engines last as long as the transfer that uses them; the scheduler counts the
IOs that are going on; the proxy finds its way back from bypass; and `Close`
loses no put, frees nothing that the threads it stops still use, and returns.

`PROJECT.json` lists every hazard found with its line and the properties that
cover it.

## 2. Modules

| module | models | abstract specification |
|---|---|---|
| `SlotAllocator` | `common/slot_allocator.cpp` | `SlotPool` |
| `StoreMetaIndex` | `store/store_meta_index.cpp` | `LruOrder` |
| `FalconKVStore` | put, remove, eviction and reclaim over allocator, index and queue | |
| `MetaSync` | `store/meta_sync_client.cpp` with `meta/meta_manager.cpp` | |
| `SchedulerProxy` | `scheduler/scheduler_proxy.cpp` with the scheduler's service and its two accumulators | |
| `PyBridge` | `python/_pyfalconkv_internal`, `io_thread_pool.cpp`, `FalconKVStore::Close`, `FalconKVClientImpl::Close` and the stopping of every thread, the probe threads of both scheduler proxies included | |
| `ClientRead` | `client/falconkv_client_impl.cpp`, `key_desc_cache.cpp`, `meta_rpc_client.cpp`, the lookups of Meta, the read routes of the stores | |
| `HixlRead` | `client/remote_read_backend.cpp` with the leases of `store_service_impl.cpp` | |
| `IoUring` | `store/io_uring_engine.cpp` | |
| `SlotAllocatorProofs`, `StoreMetaIndexProofs`, `FalconKVStoreProofs`, `MetaSyncProofs`, `SchedulerProxyProofs`, `PyBridgeProofs`, `ClientReadProofs`, `HixlReadProofs` | theorems about the module they are named after | |
| `MC*` | instances for TLC | |

**SlotAllocator.**  One action per method, since each holds the mutex
throughout.  The lazy detection of the slot size, the two size checks, the
truncation of slot counts and indexes to 32 bits (`U32` stands for 2^32) and
the refusals of `Free` are kept.  `held` is auxiliary: which slots callers
hold.  `Free` does not detect a double free, so the specification states the
guarantee given to callers that free what they hold (`CallerMayFree`); whether
the store is such a caller is the subject of `FalconKVStore`.

**StoreMetaIndex.**  `prev` and `next` are the pointer fields of the list nodes,
and the list helpers are the assignments of the code.  `stat` values 0 and 2
occur because `Put` accepts any record.  A `BatchContains` touches its hits one
after the other (`LruTouchHits`), and `Collected` is the running total of
`GetLRUCandidatesBySize`.  Access times are left out: nothing the store calls
reads them.

**FalconKVStore.**  A step is one locked section, one SSD write or one RPC.
`pc` says where each thread is: the writers run `BatchPut` (a `Put` is a batch
of one: same check, allocation, ladder, write, unwinding and publication) or
`Remove`; `Evictor` runs `EvictLoop`; `Reaper` runs the queue's `EvictLoop`.
The ladder of a put without a slot is `ClimbLadder`: flush expired; force-evict
and flush expired; flush all; give up.  The allocator is abstracted to how
often each slot is on offer (a multiset, because a double free is possible),
and candidates are any records of the index (a superset of LRU order).
`content` says whose bytes a slot holds; a slot being written holds nobody's.
The evict loop's test of the usage ratio (`LoopTest`) and its look at the index
(`LoopPick`) are separate steps.  `futile` and `lost` are auxiliary: the
`ForceEvict` of a put found nothing or was refused; how many slots others were
given while the put was on its ladder.
Slot size is configured, so a value is refused only when it is too large
(`Oversize`).  `Guarded` chooses between the code as it is (FALSE) and the
discipline under which it is correct (TRUE): no two evictions or removals
overlap and no two puts of one key do.  It restricts when an operation may
begin and leaves every step as the code has it.

**MetaSync.**  One store and its records in Meta.  A record is a key and the
number of the put that wrote it.  An RPC succeeds, fails while Meta is
unreachable, or is executed and loses its reply as an outage begins; an outage
ends with Meta's memory intact or lost.  Threads that put and remove, the commit
thread and the reconnect thread share `connected`, with the read of the flag and
the RPC as separate steps.  A put is three steps: the existence check
(`StartPut`), the entry into the index (`Publish`, unless it fails before,
`PutFails`) and the talk with Meta, so two puts of one key may both pass the
check, and the second then enters the index over the first.  A batch has one
key.  An eviction is modelled as the removal of one candidate.  `Remove` asks Meta before it looks at the index, and erases whatever
record the index has under the key by then, a newer one included.  `overlooked`
is auxiliary: a restart, or a failed RPC whose retry succeeded, that no resync
has followed; so is `excused`: keys whose removal was skipped while
disconnected, or met a commit of the key on its way to Meta, or was overtaken
between Meta and the index by the snapshot of a resync or by a new put, and keys
of which two puts overlapped.  A Meta address is configured; without one the client does nothing.

**SchedulerProxy.**  The stores to `state_`, `consecutive_failures_` and
`reconnect_started_` are separate steps of the IO threads and of the probe
thread, since they are not made under one lock; an RPC is one step that
succeeds, does not arrive, or is executed after its caller timed out.  The
scheduler is its ticket counter and the two lists of active IOs; a restart
empties them and starts the tickets again.  A detached thread of
`StoreReportIOAsync` only counts as a report under way.  `terminated` stands for
`std::terminate` in the move assignment to a joinable `std::thread`.  Tickets are
64 bits wide; `HighBit` stands for 2^63.

**PyBridge.**  Threads are Python callers, the bridge's workers, the threads of
the store's IO pool, RPC handlers, the polling threads (the client's watcher of
Meta, evictor, reaper, reconnector), the commit thread, the probe thread of the
client's and of the store's scheduler proxy, and the detached threads that send
the store's reports, all of them together.  The GIL and `g_bridges_mutex` are
variables.  `CloseSteps` is the sequence of `FalconKVBridge::Close` with the
client's `Close` and destructor and `FalconKVStore::Close` in it: drain, signal,
lock, notify, join, flush and drop, one step each.  `lock` is the mutex that
`~SchedulerProxy` takes and keeps while it joins its probe thread; the rings'
`Close` is the dropping of "uring", and `scheduler_proxy_.reset()` that of "proxy".
The condition variable of the commit thread is modelled by its parts (the
predicate, going to sleep, being asleep), and `missed` remembers a notification
that came between the first two; the other waits have a timeout or are
notified under their mutex and are single steps.  A task of the pool is one
submitter's batch.  A probe started for the second time is left to
`SchedulerProxy`.

**ClientRead.**  The threads of one client over two stores and Meta.  A store's
write path is abstracted from `FalconKVStore` (index, free slots, the pending
queue as a multiset, writes in progress that tear the bytes of their slot), its
talk with Meta from `MetaSync` (a commit or its retry under way, a store that has
`connected_` unset).  An eviction goes through its candidates one at a time, from
the copy of the record (`GetLRUCandidates`) through Meta (`SyncRemove`, executed,
skipped or failed) to `Unindex`, which removes whatever record the key has by
then and queues the slot that was copied, so that two evictors with one candidate
queue its slot twice.  `FalconKVStore::Remove` has no caller and is left to
`FalconKVStore` and `MetaSync`.  A restart of Meta tells no store: one
resyncs only after a call of its own has failed.  A description is a place (key,
store, slot), an access type and whether it carries an address; the cache is a
sequence in order of use.  The bytes of a key are the key.  Each phase of `BatchGet` (local, node-local, one RPC
per remote store) is one step, since a batch of reads that meets a write is no
different from a single one; lookups at Meta are a request and a reply.  Requests
are small sequences of keys; results of `BatchExist` may be kept by the caller
and used for a later `BatchGet`.  `lapsed`, `twice`, `foreign` and `overlooked`
are auxiliary: places whose slot was reclaimed or whose store restarted, slots
queued by an eviction whose record had gone, keys one store removed while another
had them, stores that should resync and will not notice.

**HixlRead.**  Readers of one client and the leases of one store.  The engine is
the number of the `hixl_engine_` object; handles remember the engine and the
lease they were made for.  A read is prepare, registrations one by one, connect,
transfer, release; a lost answer of prepare is retried by brpc as often as its
channel says.  `lost`, `raced` and `clashes` are auxiliary: leases whose token
nobody knows, two first reads at once in `EnsureHixlInitialized`, leases taken
away by the late release of an equal token.

**IoUring.**  Callers, the submission queue, the requests in the kernel and the
completion queue of the one ring.  A sub-batch is prepared in one step; the
torn queue that two threads inside `io_uring_get_sqe` can produce is undefined
behaviour of the library and is left out: sharing the completions is enough.
`BatchRead` and `BatchWrite` have the same control and are modelled once.

## 3. Runs

| run | cfg | checks | result |
|---|---|---|---|
| `alloc` | `MCSlotAllocator.cfg` | `TypeOK`, `SlotPartition`, `UsageExact`, `CapacityRespected`, `PoolSpec` (refinement) | holds |
| `index` | `MCStoreMetaIndex.cfg` | `TypeOK`, `ListExact`, `CountExact`, `CandidatesJustEnough`, `OrderSpec` (refinement) | holds |
| `store` | `MCFalconKVStore.cfg` | `TypeOK`, `SlotOwnership`, `PublishedIntact`, `GraceUnlessStaleClock`, guarded | holds |
| `store_free` | `MCStoreFree.cfg` | `OperationsReturn`, `NoSpaceJustified`, as the code runs, two writers | holds |
| `store_evict_race` | `MCStoreEvictRace.cfg` | `PublishedIntact`, as the code runs | violated |
| `meta` | `MCMetaSync.cfg` | `TypeOK`, `NothingForgotten`, `GhostsExplained`, `NoticedOutagesRepaired` | holds |
| `scheduler` | `MCSchedulerProxy.cfg` | `TypeOK`, `NoPhantomIO`, `BypassProbed`, `CountedUntilReported`, `DestructorReturns` | holds |
| `proxy_outage` | `MCProxyOutage.cfg` | `NeverTerminates` | violated |
| `bridge` | `MCPyBridge.cfg` | `TypeOK`, `NothingFreedInUse`, `PutsFinished`, `CloseReturns` | holds |
| `client` | `MCClientRead.cfg` | `TypeOK`, `ReadsHonest`, `KnownToMeta` | holds |
| `remote` | `MCHixlRead.cfg` | `TypeOK`, `LeasesAccounted`, `TransferCovered`, `HandlesReleased`, `EngineAlive` | holds |
| `uring_race` | `MCIoUring.cfg` | `BlocksUntilComplete` | violated |

The violated ones are disagreements between the code and a document or comment
of the repository, quoted under "findings":

* *Double eviction.*  A put's `ForceEvict` and the evict thread pick the same
  key; both enqueue its slot; it is freed twice and given to two keys.
* *Second outage.*  A probe thread that reconnected has returned but was never
  joined; the next outage assigns a new thread to the same object, and
  `std::terminate` ends the process.
* *Shared ring.*  A batch reaps the completion of another thread's request and
  returns while its own request is still in the kernel.

The properties that hold name the ways out the code has; a reader should know
them, since each is a behaviour the run reaches:

* `SlotOwnership` and `PublishedIntact` hold under `Guarded`.  Without it they
  fail in two ways: the double eviction above, and two puts of one key that both
  pass the existence check, after which the slot of the record that is
  overwritten is lost.  With both excluded nothing else breaks them.
* `GraceUnlessStaleClock`: a flush that read the clock before an entry was
  enqueued computes a negative age in unsigned arithmetic and frees the entry at
  once.  That and the forced flush of a put without space are the only ways to
  lose the grace period.  The first disagrees with
  `doc/falconkv_store_design.md:883-895`, which lets only the third level of a put
  ignore the grace period and has the reaper free a slot only after it.
* `NoSpaceJustified`: a put may report no space although keys could be evicted,
  when each slot it evicted for itself was given to another put before it could
  take it, or is in the hands of another thread's flush.
* The evict loop tests a usage ratio that counts slots in their grace period, so
  it does not see its own progress and goes on below the low watermark while
  keys are left.
* `GhostsExplained`: a commit taken from the queue, or a record of a resync's
  snapshot, can arrive after the removal of its key; a removal while
  disconnected is skipped and never repaired; the commits of two puts of a key
  that both passed the existence check may arrive in the other order, and leave
  Meta with the place of the record that was overwritten.
* `NoticedOutagesRepaired`: `connected_` is cleared only by a failed RPC, so a
  Meta that restarts while the store is silent is not noticed (`overlooked`).
* `BypassProbed`: a failure acted on after the probe thread stored CONNECTED
  leaves BYPASS without a probe (`late`).
* `CountedUntilReported`: a store's report carries ticket 0, and a restarted
  scheduler issues its tickets again; either can end another IO's accounting.
* `DestructorReturns`: it joins under the mutex the probe thread still needs.
* `CloseReturns`: a Python thread that enters any call while `Close` holds the
  registry mutex blocks on it with the GIL, which `Close` or a callback needs
  (`Entangled`); the flag of the commit thread is cleared and notified without
  its mutex, and a notification between its test and its sleep is lost
  (`MissedWakeUp`); a scheduler proxy joins, with the mutex, a probe thread that
  has succeeded and waits for the mutex (`ProbeStuck`).
* `NothingFreedInUse`: a synchronous call that was in progress when `Close` began
  is not waited for, and a detached report thread of the store's proxy goes on
  using the stub of a proxy that is gone.  No other thread uses what is destroyed.
* `ReadsHonest`: once a slot is reclaimed, or its store restarts, an old
  description reads whatever is there (`lapsed`); and a slot that a double
  eviction queued is free and in use at a time (`twice`), so that even the
  description of a later put may read another key's bytes.  Else no route does.
* `KnownToMeta`: Meta removes by key, so a store that evicts its copy removes the
  record of another store's copy (`foreign`); a restart of Meta that meets none
  of a store's calls, and a commit whose retry succeeds, leave it without a resync
  (`overlooked`).
* `TransferCovered`, `EngineAlive`, `HandlesReleased`: a token reused after a
  restart, two first reads at once, and an empty segment, as named there.

**Bounds.**  `alloc`: a file of 10 bytes, slot sizes 1 to 11 and detection,
batches of 3, counters of 3 bits, so that there are 1 to 7 slots, truncating
counts and offsets included.  `index`: three keys (a list with head, middle and
tail), batches of two.  `store`: two keys, two slots, two writers; one batch
takes all slots, so both writers compete for both, and every level of the ladder
is reached; the clock has two values, which separates fresh from expired
entries.  `store_free`: two writers with a key each and one slot between them, so
that each takes what the other evicts, and a third key that is too large;
overlapping evictions duplicate offers without end, so the number of calls is
bounded by `MaxCalls`.  `meta`: one key, two workers of which one also removes,
two puts and two outages, so that both puts may pass the existence check, records
of both are queued, in flight and in snapshots at once, and an outage can come
while the last one is being repaired.  A resync of several pushes and two
overlapping removals are beyond this instance (with the liveness property they
take too long); the theorems about `NothingForgotten` and `GhostsExplained` cover
them.  `scheduler`: two IO threads, one outage
or restart, one late answer, one store report, a limit of one failure, so that
failure, probe and restart overlap; `proxy_outage` has the code's limit of three
failures and two outages.  `bridge`: two callers (one puts and closes, the other
calls synchronously), one worker, one put, one pool thread, one handler, a
connected store, and proxies that have reached the scheduler, of which the
client's may lose it; a second put queued behind a busy worker and a store that
found no scheduler or no Meta are left to the theorems.  `client`: one thread,
whose lookup, read and later read interleave with two stores of one slot and two
keys; the client's own store has two evictors, which may have the same candidate,
the other has none but may restart; three puts and two evictions (a slot changes
hands, and is queued twice and given to two keys), two calls (a description and
its later use), one fault, and a cache of one entry, so that it evicts.  `remote`: two readers, three reads, two faults (a restart and a
lost message), batches with and without an empty segment.  `uring_race`: two
callers with batches of two, no faults.  The kMax constants of the code (5
rounds, 64 and 16 candidates, 256 records, 3 attempts) are constants of the
modules, small in the runs so that their limits are met.  `Symmetry` permutes
the writers, `MCSymmetry` the keys and the evictors, which are interchangeable, and
only in runs without liveness.

**Fairness.**  A thread inside an operation keeps running (weak fairness of each
thread's step): the code blocks only on mutexes held for bounded sections and on
RPCs with timeouts.  Nobody is obliged to call an operation, and the clock need
not advance.  `MetaSync` adds that an outage ends, and that `TryConnect`
succeeds when repeated: it only builds a channel.  `SchedulerProxy`: the probe
thread and the destructor keep running.  `PyBridge`: every thread keeps running
(weak fairness), except that a report need not be answered and the scheduler need
not come back to a probe; and a thread that waits for the GIL gets it in the end
(strong fairness): a CPython thread asked to drop the GIL waits until another has
taken it.  `ClientRead`, `HixlRead` and `IoUring` state no liveness and no fairness.

**Deadlock** is checked in the allocator, index and store runs.  In the others
the system rests when nobody calls any more (and, in `PyBridge` and
`SchedulerProxy`, when it is closed), so they switch the check off; that a call
or `Close` does not get stuck is stated by the liveness properties instead.

## 4. Proofs

Eight modules prove what follows for every value of the constants that the
`ASSUME` of the component's module admits.  Those assumptions say that bounds are
numbers, that names are distinct, that batches are non-empty sequences, and,
where something is counted or resynced, that keys or threads are finitely many.
The bounds on calls, faults and restarts are constants too, so that no theorem
depends on how large they are; the one limit is that fewer calls are made of a
`SchedulerProxy` than there are tickets below `HighBit` (2^63 in the code).
Fairness is used in none.

In most modules the property is not inductive, and the proof is about a stronger
invariant.  TLC confirms these invariants on the instances of the runs, except for
the two conjuncts it cannot evaluate, which quantify over all sequences (in
`IndexInv`) and over all owners (`Owned`); for these it checks `ListExact` and
`SlotOwnership` instead.

| module | theorems | inductive invariant |
|---|---|---|
| `SlotAllocatorProofs` | `TypeOK`, `SlotPartition`, `UsageExact`, `CapacityRespected`, refinement of `SlotPool` | `Inv`, `LaidOut` |
| `StoreMetaIndexProofs` | `TypeOK`, `ListExact`, `CountExact`, `CandidatesJustEnough`, refinement of `LruOrder` | `IndexInv` |
| `FalconKVStoreProofs` | `TypeOK`, `SlotOwnership`, `PublishedIntact`, `GraceUnlessStaleClock` | `Control`, `OwnInv`, `DataInv` |
| `MetaSyncProofs` | `TypeOK`, `NothingForgotten`, `GhostsExplained` | `Inv` |
| `SchedulerProxyProofs` | `TypeOK`, `NoPhantomIO`, `BypassProbed`, `CountedUntilReported` | `Inv` |
| `PyBridgeProofs` | `TypeOK`, `NothingFreedInUse`, `PutsFinished` | `Inv` |
| `ClientReadProofs` | `TypeOK`, `ReadsHonest`, `KnownToMeta` | `ReadInv` |
| `HixlReadProofs` | `TypeOK`, `LeasesAccounted`, `TransferCovered`, `HandlesReleased`, `EngineAlive` | `Inv` |

**Allocator.**  `Inv == TypeOK /\ SlotPartition /\ UsageExact`; no conjunct is
inductive alone.  That the modular counter does not wrap needs its equality with
the number of held slots and that those are fewer than the counter can express,
which follows from held and stacked slots partitioning what lies below the bump
pointer; the partition needs the stack to have no duplicates and the pointer to
be bounded.  `StackTop` says what popping p entries of a duplicate-free stack
takes and leaves; `SlotsTaken` combines it with the bump into one set of free
slots, exactly what `SlotPool` grants, and serves both the invariant and the
refinement; `FreedIsHeld` shows that the truncation of the slot index is harmless
for callers that hold the slot.  `CapacityRespected` follows from `LaidOut`:
the slot count is what the constructor or the detection computed from the
capacity, and never changes afterwards.

**Index.**  `ListExact` is about two walks, and says little about what a pointer
update does to them.  `IndexInv` says instead that some sequence of the committed
keys, each once, is *threaded* by the pointers.  `LruRemove`, `LruPushFront` and
the touches of a batch are then shown to be operations on that sequence, and both
walks to compute it (one of them reversed), from which the list theorem, the
refinement of `LruOrder` and the theorem about candidates follow.  The last is
proved for any amount and cap, not only for those the run enumerates.

**Store.**  Types and the grace period hold for the code as it is.
`SlotOwnershipHolds` has the hypothesis `Apart`: `Guarded`, and no batch with the
same key twice (the code checks neither).  It rests on one eviction or removal
going on at a time, so that what it picked is still what the index says; on keys
wanted by puts being apart and unindexed; on nothing being left in the locals of
a thread that has moved on; and on every slot having one owner among free,
queued, indexed and the hands of threads, counted with multiplicity.
`PublishedIntactHolds` has the further hypothesis `OneSize`, since `BatchAlloc`
looks only at the size of the first value: a larger one later in the batch is
written over the next slot.  Its invariant adds what each put has written and
not yet published.

**MetaSync.**  `NothingForgotten` counts a record that is about to be retried
among those on their way, yet a retry may fail silently.  The invariant leaves
retries out (`Scheduled`) and keeps in their place that the failure before the
retry cleared `connected_` (`RetryNoticed`).  For `GhostsExplained` every record
under way of an unexcused key has to be the index's (`PendingExact`), and there
is none while the key's removal is between Meta and the index (`ConfirmedGone`).
Until it enters the index a put has no record; when it does so over an entry, the
key is excused, for the commits of the two puts may change places.  The attempt
to prove it found a way out the property had not named: a removal erases the
index entry of a put that came after its question to Meta.

**SchedulerProxy.**  An entry of the scheduler has to be tied to its caller:
calls are different, the ticket of an entry is the one its thread was given, and
a ticket of the present scheduler has one call.  `CountedUntilReported` is an
action property proved from the same invariant.  For `BypassProbed`,
`reconnect_started_` is set only while the probe thread is on duty.

**PyBridge.**  That nothing is freed in use is a fact about the order of
`CloseSteps`: threads that it joined have left, objects are gone only after their
step, and the table joins the users of each object first.  Detached reports are
in no join, and the statement excepts them; the callers that `Close` overtook are
recorded when it takes the registry, and no other caller gets past the handle
after that.  That no put is
forgotten needs the two locks: whoever submits holds the GIL and saw the handle
registered, which nobody does once `Close` has the registry.

**ClientRead.**  The invariant says of every slot who may write to it next: a
slot being written is neither free nor queued and is written once, an indexed or
queued slot has its key's bytes and is at rest, and so has every place that
anyone still has a description of (cached, looked up, in a reply, in Meta, in a
resync) unless it lapsed or its slot is one of `twice`.  Since no step makes a
sound place unsound (`SoundStays`), only the descriptions a step makes need a
look.  Evictions take no part in it but through the slots they queue: what an
evictor copied may be out of date, and then its slot is in `twice`.  `KnownToMeta` needs no more than the types: a failed call leaves its store
unsynced, and what ends that without a resync leaves it overlooked.

**HixlRead.**  Tokens of one incarnation are not given twice; the lease is held
from the reply of prepare to the release and not only during the transfer; the
registrations of a read are those of its batch up to the segment it is at;
without a race one thread at a time makes an engine.

**Recursion.**  Batches, walks and running totals are recursive functions over an
interval.  That such a function exists and satisfies its equation
(`ResultsExist`), and induction along it (`Induct`: a set with 0 and every
successor contains every number), are proved in first-order form from the
well-foundedness of `<`, which is what makes theorems about batches of any length
possible.

Only model-checked: liveness (`OperationsReturn`, `NoticedOutagesRepaired`,
`DestructorReturns`, `CloseReturns`), which rests on fairness; `NoSpaceJustified`,
for which one would have to count slots along each level of every writer's ladder;
and `IoUring`, whose one property is violated.

## 5. Not modelled

* Configuration, logging, status codes, process start-up, the transfer stubs:
  no state that others race on.
* How one read or write is cut into aligned requests, O_DIRECT, the aligned
  buffer pool, descriptors in `FdCache`: the models take a batch of I/O as a
  start and an end with partial failure.
* Sizes of values in the read path: `BatchGet` reads as many bytes as the
  caller's buffer has.
* The scheduler's statistics (bandwidth, histograms, the reporting thread):
  the one policy of this tree admits everything, so they decide nothing.
* Undefined behaviour on which no document takes a position: the RPC stub
  replaced under a call in flight (`MetaSyncClient`, `SchedulerProxy`),
  `store_addr_map_` without a lock, access times written under a shared lock,
  two threads inside one submission queue.  A call in flight completes, and each
  access is one step.
* The end of the client's cache: `FalconKVClientImpl::Close` clears `KeyDescCache`,
  which is part of dropping the client in `PyBridge`; its contents play no part
  there.
* Operations nobody calls: `KeyDescCache::Invalidate`, `FdCache::EvictIdle`,
  `StoreMetaIndex::GetColdEntries`.

## 6. What remains

Every safety invariant that a run checks is stated by a theorem, and so are both
refinements and the action properties `CountedUntilReported` and
`GraceUnlessStaleClock`.  What could still be proved is `NoSpaceJustified`, where
the invariant has to relate each level of the ladder to what has been on offer
since and to whom it was given; action properties of the existing modules, such as that
Meta's record of a key only moves to newer puts; and, for `IoUring`, what holds
of a ring that one thread uses alone.
