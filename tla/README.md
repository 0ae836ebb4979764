# A TLA+ model of the Corgi upload server

Corgi stores objects on raw block devices. A client opens an rsocket request
channel, sends chunks, and the server writes them to free blocks with Linux AIO
and commits the object's metadata, the space bitmap and the usage counters to a
Pebble database in one batch. This directory models the server's components,
checks them with TLC on small instances, and proves with TLAPS, for every size,
every safety property that the passing runs check. All paths below are under `src/`.

## 1. The system

| Part | Source | State | Operations | Module |
|---|---|---|---|---|
| Block allocator | `internal/fs/allocator_v3.go` | three bitmap levels L0, L1, L2, `available`, `lastPos`, one mutex | `Allocate`, `Release`, `InitAllocated`, `InitFree` | `AllocatorV3`, `BlockPool` |
| Space bitmap | `internal/fs/block_device.go` | one Pebble key per 4096 blocks | `tryInitBlockSpace`, `loadAllocator`, `PersistAllocBatch`, `Release` | `SpaceBitmap` |
| Asynchronous writes | `internal/fs/aio_channel.go`, `internal/third_party/goaio` | `slotSem`, `avail`, `active`, `dmtx`, kernel context, completion loop | `WriteAllocated`, `WriteAtNotify`, `WaitAnyNotify`, `Close` | `AioChannel` |
| Requests by id | `internal/third_party/goaio/aio.go` | the same, `requests`, `wmtx`; no completion loop | `WriteAt`, `ReadAt`, `WaitFor`, `Wait`, `WaitAny`, `Flush`, `Close` | `GoAio` |
| Device registry | `internal/fs/block_device_scan.go`, `block_device.go` | `deviceMap`, `batchMap`, Pebble's directory locks, open files | scan, `Init`, `Get`, `Remove`, open and `Close` of a device | `DeviceRegistry` |
| Group commit | `internal/database/pebble/batch_pebble.go` | `batchMap`, a channel, `stopCh`, one goroutine per lun | submit, dispatch, drain, flush, stop | `BatchPebble` |
| Metadata batch | `internal/database/pebble/WriteBatch.go` | an indexed batch | put, delete, transfer, get, commit, clear, typed handlers | `WriteBatch` |
| Merge operator | `internal/database/pebble/ms_pebble.go` | none | counter, bitmap and JSON merge | `MossMerger`, `MergeLog` |
| Upload handler | `internal/ec/server/aio_upload_server_handler.go` | pending data, flushes and their tokens, `flushErr`, `finalized` | `Start`, `Put`, `Complete`, `TimeOut`, flush goroutine, rollback | `UploadServer` |
| Request channel and client | `internal/network/rsocket`, `cmd/aio_upload_client` | two bounded channels, `finishOnce`, the context, three goroutines | pump, server, responder | `RequestChannel`, `UploadServer` |

How they interact: `main` opens the devices it finds (`DeviceRegistry`) and serves.
The request channel drives one upload handler per channel. A
handler's flush takes blocks from the device's allocator, which all uploads
share, writes them through the device's `AioChannel`, and keeps them as tokens.
`Complete` submits one consumer to the lun's `BatchPebble`, which merges bitmap
deltas (`SpaceBitmap`, `MossMerger`), sets the metadata and merges the counters.
On any failure the tokens go back to the allocator. After a restart
`loadAllocator` rebuilds the allocator from the bitmap.

What is hard here is listed, with its line, under "hazards" in `PROJECT.json`.
In short: summaries that go stale, padding at the end of the device, next-fit
wrapping around; a dispatch that races with stop, consumers that fail half way
into a batch that is used again; slots and tokens counted twice, requests in the
kernel when their caller has left, Close under load; deltas composed in any
grouping, a read-modify-write beside them in one batch, initialisation cut by a
crash; blocks that are released, reallocated
and written to concurrently; two goroutines that both finish one sink; opens that
fail half way or race for one lun; events that any waiter may take.

## 2. Modules

**`BlockPool`** is what callers of the allocator may rely on: a set of free
blocks; a request gets exactly the number it asks for, all free before, or is
refused for lack of space; a bad release changes nothing.

**`AllocatorV3`** has the three levels. `l0` is the set of free bits; `l1` and
`l2` are functions from entries to FULL, PARTIAL or FREE, padding entries
included. `Allocate` is split as its code is, so that the invariants also speak
of the states between two steps of its loop: `AllocateStart` (the tests),
`AllocateScan` (one iteration, with `NextFreeRun` searching L2, L1 and L0) and
`AllocateFinish`. The mutex makes every other operation one step. Word size,
slotset size and entries per word are constants (64, 8 and 32 in the code).

**`AllocatorV3Proofs`**, **`AioChannelProofs`**, **`GoAioProofs`**,
**`UploadServerProofs`**, **`DeviceRegistryProofs`** and **`RequestChannelProofs`**
hold the proofs of the module they are named after; **`BatchPebbleProofs`** those of
`BatchPebble` and of `WriteBatch`, the batch that a flush fills; **`PebbleProofs`**
those of `MergeLog` and `SpaceBitmap`, which share the merge operator (section 6). A
module with the proofs of two extends both, so `MergeLog` and `WriteBatch` have names
of their own for their specifications: `MergeSpec` and `BatchSpec`.

**`SpaceBitmap`** keeps, per space key, the records Pebble has for it. `Open`,
`InitBatch` and `LoadAllocator` are the steps of opening a device, `Crash` may
come between any two, `Compact` merges neighbouring records with the operator of
`MossMerger`. `PersistAlloc` and `Release` are consumers of one group-commit batch:
they write to `staged`, what the records will be, and `Commit` or `Fail` ends the
batch for all of them, as `flush` does. `Release` reads the database and not the
batch, its Set hides what the batch had for the key, and it frees the blocks in memory
at once. Nothing in `src/` calls `Release`; its parameter, a `WriteBatch`, is what
makes it a consumer. `owned`, `overwritten`, `lost` and `astray` are history: whose
the blocks are, and where an update was overwritten or memory may be wrong. The byte and bit arithmetic of `spaceUpdateValues` and the run
scanner of `loadAllocator` (`Scanned`, byte by byte) have the size of a byte and of a
space as constants.

**`AioChannel`** has one goroutine per writer, the completion loop, `Close` and
the kernel. A step is what happens between two points where another goroutine
can interfere: taking a token, taking an iocb under `dmtx`, `io_submit`, adding
to `active`, waiting, reaping, verifying one event, sending one result. That
`c.aio` is nil after `Close` and used without a check is modelled as the outcome
"panic".

**`GoAio`** is the half of goaio that `AioChannel` does not use and the benchmark
`cmd/io_uring_test` does: requests are known by id, and whoever holds `wmtx` calls
`io_getevents` and files what comes, its own or not. Workers submit and wait in
rounds; they may also call `WaitAny`, `Wait` and `Flush`. The kernel completes a
request in full, short or with an error, possibly before its id exists. `fate` is
a history of what became of each worker's last request.

**`DeviceRegistry`** has any number of callers of `Init` and `Remove`. `Candidates`
is the scan over a mount table and a partition table. An open is as many steps as
it has effects that others can see (lock and DB, processor and `batchMap`, file,
the device itself, `deviceMap`), each of which may fail and is then undone as in
the code. Afterwards `main` picks a default device and uploads choose a device and
a lun to commit under. That `main` never runs `Init` twice is not used: the code
is written for concurrent callers, and the model has them.

**`BatchPebble`** is one life of a lun's processor, from `AddDataBatch` to
`RemoveBatch` and the closing of the database. The database and the batch are
sequences of operations, so that all-or-nothing can be stated. Consumers are
callers' code and may fail after any of their writes. A flush works through the
positions of its requests (`todo`), in the order `Before` of its two loops. Go's
`select` with several ready cases is a choice.

**`WriteBatch`** models how the metadata of an object moves between its own key
and its delete marker key. Each operation is a sequence of Sets and Deletes, any
of which may fail; the indexed batch reads the last write of a key, or the database
(`Apply`). `CompareAndPut` always fails, as in the code.

**`MossMerger`** are the merge functions; **`MergeLog`** puts operands and
compactions on one key and compares a read with merging on arrival. JSON text is
reduced to the three fields the code extracts.

**`UploadServer`** composes uploads on one device. It uses the parts below it by
what they promise: the allocator is the free set of `BlockPool`; a commit applies
all of a consumer's writes or none (`BatchPebble`: `AllOrNothing`,
`AnswerMatchesStore`); a restart finds the committed bitmap (`SpaceBitmap`:
`LoadExact`); a write is submitted, done by the kernel later, and a cancelled
writer leaves before that (`AioChannel`). One goroutine per upload handles
payloads in the order of `ErasureServer.RequestChannel`, the flush goroutine runs
beside the other uploads, and `Crash` loses everything volatile at any point.
The metadata key that `Complete` looks up (`fileMetaKey`) and the one it writes
(`GetKey`) are different keys in the model because they are in the code.

**`RequestChannel`** has the three goroutines behind one channel, with their
bounded channels, `finishOnce` and the context. A payload is its kind. `uploadOnce`
is the client's verdict on the responses it got for the upload it sent.

`MC*` modules give constants their values for TLC. Definitions named `X_Y` just
before a definition `X` are wrong variants of it; each property fails when the
variant listed in `PROJECT.json` takes the place of the definition.

## 3. Runs

| Run | Instance | Checks |
|---|---|---|
| `allocator` | 7 blocks, 2-bit words, 1 word per slotset, 3 entries per L1 and L2 word: padding at L0, L1 and L2, two L1 words | `SummariesExact`, `AvailableExact`, `ResultsExact`, `SearchComplete`, `NextFit`, `ImplementsPool` (refinement of `BlockPool`) |
| `batch` | 3 callers, 2 keys, batches of 2, channel of 1 | `AllOrNothing`, `AnswerMatchesStore`, `PutIfAbsent`, `CommitsOnOpenDb`, `CallersServed`, `StopReturns` |
| `aio` | 3 writers (2, 1 and 1 segments), 1 iocb | `SlotsConserved`, `KernelTracked`, `LoopNeverBlocks`, `OkIsWritten`, `WritesReturn`, `CloseReturns` |
| `goaio` | 2 workers (2 and 1 rounds), 2 iocbs | `OwnResult`, `BooksAgree`, `WaitForReturns` |
| `devices` | 3 callers, 3 devices, 6 mounts of which 3 are devices and 2 share a lun, 1 upload | `RegisteredIsWhole`, `StoreNeverLoses`, `NothingLeaks`, `CommitOnOwnDevice` |
| `space` | 13 blocks in spaces of 6, 6 extents, 4 updates in batches | `BitmapExact`, `LoadExact` |
| `upload` | 2 uploads of one name, up to two chunks of 1 or 2 blocks, 3 blocks, one context may be cancelled, 1 crash | `OneOwner`, `CommittedDataIntact`, `SuccessIsDurable`, `UsedExact`, `FailureReleasesAll`, `RequestsAnswered` |
| `channel` | 3 payloads of any kind, channels of 1, failing streams, cancels | `AnswersInOrder`, `VerdictIsServers`, `ChannelFinishes`, `OnlyFullOutBlocks` |
| `write_batch` | 2 objects, 2 values, 1 delete marker, 2 requests per flush | `NoCoexistence`, `GetIsLatest` |

The comment above each property says what it means and which code it is about.
Three more runs, `batch_stopped`, `aio_cancel` and `merge`, show where the code and its
own comments disagree (section 5).

Some of these deserve a word. `BitmapExact` and `LoadExact` have exceptions, which are
what `Release` does in the code. When a batch has an allocation or a release of a
space and then a `Release` in the same space, the latter undoes the former: these
blocks are `lost` until they are updated again. A `Release` whose batch fails leaves its
blocks free in memory although they are committed, and one that the allocator refuses
leaves them allocated: they are `astray` until the next restart, and so are the ones
`lost` then. The properties say that no other block is ever wrong. `WritesReturn`
excepts the call that finds the channel closed when it comes to its next segment
(section 5); all others return. `StoreNeverLoses`: `Init` closes a device that
lost the race of `LoadOrStore`, and closing it would stop the processor of the
winner, since `RemoveBatch` goes by the lun. The race is never lost, because
Pebble's directory lock turns the second opener away first. `CommitOnOwnDevice`: an
upload for an unknown lun writes to the default device but commits under the
unknown lun; the commit then finds no processor and fails, so data and metadata
never part. `VerdictIsServers`: when the client reports success the server did
store the object; a failure reported for a stored object is possible only when the
pump met an error of its own.

**Bounds.** They are chosen so that the boundary cases occur. Allocator: more
than one word at L0 and L1, ranges that start and end inside a word and inside
an L1 word, padding at every level; the proofs remove the bound. Batch: a full
channel, a full batch and one request left over; two requests on one key, in one
batch and in two. AIO: more writers than iocbs, one of which comes back for a second
segment; that several events reaped together are told apart is left to the proof,
which has any number of iocbs. Requests by id: two iocbs and two workers, so that
one can reap the other's event alone or together with its own, and a worker comes
back after a failed wait. Registry: two callers race for one lun while a third
closes it; two mounts with one base name, and mounts that are no device for each
of the scan's reasons. Bitmap: extents
inside a byte, over bytes and over keys, up to their ends, a last key with one
block, keys that a crash left without a base value; the extents overlap, so that
the same bits are set, cleared and set again with compactions in between, and two of
them share a space, so that a release meets an update of its space in a batch; with
four updates a block can be lost or astray, and even be given out twice. Uploads: one upload can fill the device, so
the other fails, and released blocks are reused at once; one crash is enough
because the state after a restart is an initial state with another disk and
bitmap. Channels: capacity 1 in place of 64, so that every send can block. Only
`devices` uses symmetry, of callers and of devices, which nothing tells apart; it
checks no liveness.

**Deadlock** is checked for the allocator, `SpaceBitmap` and `WriteBatch`. It is not
checked where the system may rightly stop: callers, writers, uploads, clients
and operands are finite in number, and when all are done nothing happens.

## 4. Fairness

* `BatchPebble`: weak fairness of the processor goroutine, of a removal once it
  has begun, and of callers once they have dispatched. Nobody has to open or
  remove the device.
* `AioChannel`: weak fairness of each writer, of the loop and of `Close` once it
  has been called. A mutex or a token may be taken by others while one waits for
  it, but not for ever, as every writer has finitely many segments; so weak
  fairness is enough. The kernel completes what it has taken. Contexts need not
  be cancelled, and `Close` need not be called.
* `GoAio`: weak fairness of each worker and of the kernel for each iocb, and strong
  fairness of `io_getevents`: a signal may interrupt it, but not every time. Weak
  fairness is enough for the mutexes, as for `AioChannel`. `WaitForReturns` excepts
  one case, in which the code does wait for ever: a short transfer leaves its iocb
  in `active` with no event to come.
* `UploadServer`: weak fairness of each handler and of the kernel. Clients may
  stop sending at any time.
* `RequestChannel`: weak fairness of the three goroutines. That the server always
  gets its handler's answer is `RequestsAnswered` of `UploadServer`. Clients may
  stop sending, end, break or cancel, or do nothing.

## 5. Where code and comments disagree

* `batch_stopped`: "If the processor is already stopped the request is
  immediately failed" (`batch_pebble.go:211`). `dispatch` selects between the
  channel and `stopCh`; with both ready the request may be queued for nobody.
* `merge`: the operator has "associative merge semantics" (`ms_pebble.go:506`; also
  :47). `mossJSONMerge` looks at the deleteMark of the older operand only
  (`ms_pebble.go:223`). The unstamped documents version 1, version 2 deleted and
  version 1 deleted merge to the last one on arrival, and to the first one, which is
  not deleted, in a read from the newest down. Without deleteMark and with stamps
  documents are grouped freely, and so are counters (section 6); bitmap deltas read
  back right in every grouping (`BitmapExact`).
* `aio_cancel`: `WriteAllocated` "waits for all completions"
  (`aio_channel.go:138-139`). With a cancelled context it returns while the kernel
  has the write. `runFlush` then gives the blocks back, and the late write can land
  on blocks another upload has committed. `CommittedDataIntact` therefore excepts
  the writes of cancelled uploads.

Two more comments are not what the code does, without a run of their own. The
comment of the JSON merge, "if the higher-versionNum value has "deleteMark", the
other wins" (`ms_pebble.go:191`), holds only when the deleted document is the older
operand; this is the cause of what `merge` shows. The comment in `AIO.Close`
(`aio.go:208`) says that `c.aio` has been cleared before and that later calls get
`ErrNotInit`. It is cleared after, and a writer that comes to its next segment then
(`aio_channel.go:256`) calls a method of a nil `AIO`. `AioChannel` has this as the
outcome "panic"; it is the exception of `WritesReturn`.

## 6. What is proved

### The allocator

`AllocatorV3Proofs` proves, for every device size, word size, slotset size,
number of entries per word and every set of requests and extents:

| Theorem | States |
|---|---|
| `TypeCorrect` | `TypeOK` |
| `SummariesAreExact` | `SummariesExact`: L1 and L2 describe L0 exactly, padding is FULL |
| `AvailableIsExact` | `AvailableExact`: the counter is the number of free bits |
| `ResultsAreExact` | `ResultsExact`: what a running Allocate has is disjoint and allocated |
| `SearchIsComplete` | `SearchComplete`: the "bitmap inconsistent" rollback is dead code |
| `SearchIsNextFit` | `NextFit`: blocks are taken in order from `lastPos`, none skipped |
| `Refinement` | `ImplementsPool`: the allocator implements `BlockPool` |

Assumptions: `GeometryAssumption` (the sizes are positive) and `InputAssumption`
(requests are integers, extents are pairs of integers). Nothing is assumed of
the requests beyond that; bad ones are refused.

The argument. The inductive invariant is
`IInv == TypeOK /\ SummariesExact /\ AvailableExact /\ ResultsExact /\ LoopInvariant`
(theorem `Invariant`). None of the safety properties is inductive alone. A search
finds every free block only if the summaries are exact. The counter is right at
the end of `Allocate` only if the results are disjoint and counted exactly. That
the search does not fail needs to know what the passes have covered already:
`LoopInvariant` says that the first pass leaves nothing free between `lastPos`
and `from`, that the second starts only when nothing is free from `lastPos` on,
and that after it nothing is free at all; together with `available >= want` the
search cannot end short.

Two facts carry the steps. `Mark` refreshes every
entry whose range changed, so exact summaries stay exact; this is arithmetic on
nested divisions. `NextFreeRun` returns the first free run at or after `from`,
whichever level finds it, and nothing only if there is none. There is then one lemma per action for `IInv`, and one per action for the refinement,
where the steps of the loop are stutters and `AllocateFinish` is `Grant`.

### Asynchronous writes

`AioChannelProofs` proves `SlotsConserved`, `KernelTracked`, `LoopNeverBlocks`,
`OkIsWritten` and `TypeOK` for every finite set of writers and iocbs, any number of
segments, any cancels and a `Close` at any point (`AioAssumption`).

The argument. `SlotsConserved` counts iocbs and tokens; to keep it, a step that
releases a token must know that the semaphore has room, which is the case as the
iocb it gives back was not available. `PlacesInv` ties who holds an iocb, or `dmtx`,
to where the writer is, and `KernelInv` says that a request is in one of the
kernel, the completed events and the events being verified. `LoopNeverBlocks` needs
to know that no channel has a result yet when the loop sends to it: `ChannelInv`
says that a result channel belongs to one request, of a segment its writer has
come to. `PassedInv` says that the segments a writer has left behind are written.
`CloserInv` says what `Close` waits for: it destroys the context when the loop has
let go of its events.

### The device registry

`DeviceRegistryProofs` proves `RegisteredIsWhole`, `StoreNeverLoses`, `NothingLeaks`,
`CommitOnOwnDevice` and `TypeOK` for every mount table, and any callers, devices and
uploads. The assumptions are `RegistryAssumption` (the table has the right form) and
`MountedOnce` (a directory is in the table once).

The argument. A lun has one candidate, the first mount with its name, and so one
directory; Pebble's lock on it makes an open database the only one of its lun
(`LockInv`). An open device is registered or in the hand of exactly one caller
(`OwnerInv`), whose place tells how far its open or close has come, which is what
`batchMap`, `running` and `fileOpen` have of it (`BatchInv`). `ServeInv` says that
nothing opens or closes while uploads run.

### Requests by id

`GoAioProofs` proves `BooksAgree` and `OwnResult` for any workers, every finite set
of iocbs and any number of rounds (`GoAioAssumption`), with failed submits, interrupted
waits, short transfers and errors, and a `Close` when the workers are done.

The argument. `BooksAgree` is about counts and sets that every step moves together;
`Places` ties who has an iocb or a mutex to where the worker is, and `OnePlace` says
that a request is in one of the kernel, its completed events and the events being
filed. `OwnResult` needs more, as the event may come before the id exists and be
filed by another worker: `Carries` names the iocb that has the request of a worker,
before (`held`) and after (`active`) the id exists; `Told` says that whatever the
kernel or the events have of this iocb is about that worker's present request; and
`Rounded` says that the kernel has no request of the present round other than the
one `Carries` names, so a short transfer whose iocb stays active for ever is never
taken for a later request. `Ids` says that no two workers wait for one id.

### Group commit

`BatchPebbleProofs` proves `AllOrNothing`, `AnswerMatchesStore`, `PutIfAbsent` and the
action property `CommitsOnOpenDb` for any callers, keys, priorities, batch size and
channel capacity (`BatchAssumption`).

The argument. The properties are about the database and the answers, and follow
from what holds of the batch and of the requests not yet answered. `InOnePlace`: a
request is on the channel or in the flush, once, and has no answer. `Phases`: the
batch is empty when a flush begins (what the deferred `Clear` is for), and the
database is open unless the processor has exited. `Authors`: an operation in the
database is of a request that was answered nil or is about to be; one in the batch is
of a request handled in this flush. `Whole`: the operations of a request are a pair
or none, in the database and in a batch that can still be committed. `Found` and
`Absent` state what is to be committed of the batch on top of the database, since a
consumer reads both.

### Uploads on one device

`UploadServerProofs` proves `OneOwner`, `CommittedDataIntact`, `SuccessIsDurable`,
`UsedExact` and the action property `FailureReleasesAll` for any number of uploads, blocks, names, chunk sizes and crashes,
and any set of uploads that may be cancelled (`UploadAssumption`).

The argument. `OwnerInv` is `OneOwner` in the form that is inductive: held blocks are
those of the running flush, of the completed ones and of the tokens being rolled
back, and these never overlap within an upload either (`LTokens`), so that a
rollback does not give a block back twice. Data is intact because a block is only
committed when its flush has seen its write end (`LData`), because nothing of an
upload is in the bitmap before its own commit (`LTokens`), and because the kernel
has at most the one write a flush waits for, or one of a cancelled upload
(`InflightInv`). A success comes after a commit or after a look that found the
object; in both cases the name has metadata (`LStored`), which no step removes, and
`MetaInv` says that a file in the metadata has blocks, all in the bitmap. That needs
`LFilled`: data that is not pending any more has blocks or is being flushed, and
`Complete` gets as far as a commit only with such data. `DownInv` says that a crash
leaves nothing of the volatile state, which is what a restart builds on.

The steps of the handlers differ in what they do to one upload and agree in what they
leave of the others; lemma `Step` says what such a step must show, once for all of
them.

`UsedExact` (theorem `UsedStaysExact`): a commit adds the sizes of all results to the
counter and their blocks to the bitmap. The two agree because the results of one
upload do not overlap and none of them is in the bitmap yet (`LTokens`, `OwnerInv`).

### The request channel

`RequestChannelProofs` proves `AnswersInOrder` and `VerdictIsServers` for any set of
payloads, any number of them and any capacity of the two channels
(`ChannelAssumption`).

The argument. `Flow` and `InOrder` say where the answers are: the sink has the first
ones, then `out`, then those the server has still to send, without gap or overlap.
`Finish` says who completes the sink: the pump only after its own error, under
`finishOnce`; the responder only when the server has exited and `out` is empty, so
that nothing is left. For the verdict the answers must be tied to the payloads:
`Taken(k)` says that the server has taken the first k payloads of the client and
where the others are, and `Story(k)` what it answered to these k: so far only
CONTINUE, or an error at the end, or SUCCESS to a whole upload. `uploadOnce` counts
and compares the responses, and with `Flow` only the last case passes.

### The metadata batch

`BatchPebbleProofs` also proves `NoCoexistence` and `GetIsLatest` for any objects, values and
markers and any length of the requests (`WriteBatchAssumption`). The two are inductive
together with the types (`BatchInv`), since a lookup that prefers one of two keys is
right only if the other is empty. The work is in the writes: `Tidy` says that a value
is put for an object right after both of its keys were deleted. This holds of every
prefix of the writes of a request, so a request that fails half way does not leave an
object with two keys either. `Gives` says which value the last writes of the two keys
leave; for requests of several keys, this is the value of the last pair or key that
names the object.

### The space bitmap

`PebbleProofs` proves `BitmapExact` and `LoadExact` for any size of the device, of a
block, of a byte and of a space, any set of aligned extents, and any number of batches,
updates, failed commits, compactions, crashes and restarts (`SpaceAssumption`).

The argument. The records of a key stand for a set of bits (`Holds`): they are deltas
of allocations, and only the oldest may be a bitmap that was Set. Appending a delta,
merging two neighbours and reading from the newest down all take the union of their
bits; a Set starts anew. `SpaceInv` has this of the committed records (`StoreInv`) and
of those the batch will leave (`StagedInv`): both stand for sets of blocks, which are
the blocks owned now, and the ones owned after a commit, except for `lost` and what
`lost` will be. The second is needed for `Commit`; that a `Release` starts from the
database and not from the batch is where `overwritten` comes in, and one must show that
nothing else in the space differs between the two. `MemoryInv` is `LoadExact` together
with a bound on allocations twice: what is taken and owned by another is astray
already, so that a rollback of the batch frees nothing else that is owned. `BatchInv`
says that there is no batch while the device is not open. The steps need that `spaceUpdateValues` cuts an extent into
exactly the bits of its blocks, over bytes and keys; this is arithmetic on nested
divisions. `LoadExact` rests on a loop invariant of the scanner (`Covers`): after a
byte, the closed runs and the open run cover the set bits so far, and end where the
scan stands. `FirstKeyInv` says that while the first key has no
record nothing is owned, which is why `tryInitBlockSpace` may look at that key only.

### Keys under Merge

`PebbleProofs` proves `GroupingNeverMatters`: `GroupingIrrelevant` for every word size
and every set of operands that satisfies `Groupable`, that is, the operands of a key
are all counters, or all documents that are stamped and not deleted. The hypothesis is
needed: the run `merge` violates the property with documents that do not satisfy it
(section 5). Counters and bitmap deltas are all that the server merges.

The argument. On the values that operands can merge to (`Carrier`) the merge is closed
and associative (`CarrierMerges`): addition modulo the word for counters, and for
documents the one with the later stamp, then the higher version, the older record if
they are even. A read
is the head of a chain of merges from the newest record down (`Chain`), and both
appending an operand and merging two neighbours give a chain with the right head.

### Recursion in the proofs

What a list of writes, records or bytes comes to is defined by last writes, by
positions or by recursive functions over an interval. The proofs reason about these by
the least or greatest counterexample (`MinNat`, `MaxNat`, from the well-foundedness of
the naturals), or compare a recursive function with an explicit one at all positions.

### Only model-checked

All liveness (`CallersServed`, `StopReturns`, `WritesReturn`, `CloseReturns`,
`WaitForReturns`, `RequestsAnswered`, `ChannelFinishes`, `OnlyFullOutBlocks`), which
the prover does not do. Every invariant, action property and refinement of the
passing runs is also proved.

## 7. What is not modelled

Flags, statistics and profiling (`main.go`); the measurements of the benchmarks and
the dump tool; the client's workers and reconnects (`runUploads`); generated
protocol buffers; buffers and their alignment pools; decoding of stored metadata
(`meta_reader.go`, `file_meta_codec.go`); the text of `/proc` and `/sys`, which
`DeviceRegistry` has as tables; Pebble's options and the plain wrappers of
`MSPebble`; goaio's appending `Write` with its file end `a.end`, which has no
caller, and `Truncate`, which waits as `Flush` does; `AioChannel.Read`; the request-response PING. Checksums, etags and the bytes of payloads are left
out everywhere. Pebble, rsocket-go and the kernel are external: they appear as
actions (`Compact`, `CompactRecords`, `Send`, `EndStream`, `CancelContext`, `KernelDone`, `Crash`)
with the behaviour the code relies on.

Simplifications a reader should know: `UploadServer` has one device; the
fallback for an unknown lun is in `DeviceRegistry`. `DeviceRegistry` has a fixed
mount table, and opens and closes nothing once uploads run, as `main`. It does not
exclude one partition mounted at two directories. `BatchPebble` is one life of a lun; a
lun that is opened again gets a new processor with new channels. `SpaceBitmap` does not
have clear deltas (`spaceUpdateValues` with `allocated` false), which nothing merges.
In `WriteBatch`
objects whose transfer key equals another object's delete marker key are left
out, as nothing calls `TransferAndPut`. In `RequestChannel` the handler's
answers are any of those it can give.
