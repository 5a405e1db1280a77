# Verification of QEMU 0.12.3's disk stack: asynchronous I/O, qcow2 images, migration

The repository is colama's collection of third-party tools. Most of it is
vendored: an upload applet (`JUpload`), a copy of pdf.js (`cviewer`), monitoring
packages (`ganglia`), remote-desktop packages (`spice-package`, `tightvnc`,
`tvnc_unix`, `vnc4-4.1.1+xorg1.0.2.orig`) and `qemu-0.12.3`, to which colama adds
two tools of its own, `img-fuse.c` (mounts a disk image as a FUSE file) and
`img-info.c`. All that colama does with QEMU goes through its disk-image stack,
and that stack carries the concurrency, the failure handling and the persistent
data of the program. This project models it from the bottom up. Paths below are
relative to `src/qemu-0.12.3/`.

## 1. Inventory

| Component | State | Operations | Correct when |
|---|---|---|---|
| POSIX AIO pool, `posix-aio-compat.c` | request blocks, `first_aio`, `request_list`, `cur_threads`, `idle_threads`, a signal and a pipe | submit, ioctl, cancel, worker loop, signal handler, processing of the queue | counters agree with the threads; no request is lost, run twice or touched after it was released |
| AsyncContext stack, bottom halves, `async.c` | stack of contexts, a bottom-half list each | push, pop, new/schedule/poll | a callback runs only in the context that submitted it; none is forgotten when a context ends |
| AIO handlers, `aio.c` | `aio_handlers`, `walking_handlers` | register, wait, flush, process queue | flush returns with nothing outstanding; wait always returns |
| Block layer, `block.c` | devices, AIO pools, dirty bitmap | synchronous emulation, multiwrite, AIO emulation, cancel | a synchronous call returns its own result; merged requests are answered once each |
| virtio-blk, `hw/virtio-blk.c` | the requests, `s->rq` | batch, complete, stop on error, restart | every write is answered once; what is reported as written is on the disk |
| qcow2 writes, `block/qcow2.c`, `qcow2-cluster.c` | L1/L2 tables and cache, `cluster_allocs`, per-request `l2meta` and dependents | write, callback, allocation, link, restart of dependents, cancel | the guest reads what it wrote; allocations do not overlap; waiting requests are restarted |
| qcow2 refcounts, `block/qcow2-refcount.c` | refcount table and blocks, `free_cluster_index` | allocate, free, update, check | nothing in use counts as free |
| qcow2 snapshots, `block/qcow2-snapshot.c` | snapshot table | create, go to, delete | snapshots keep their contents; refcounts and COPIED flags agree |
| Migration, `migration.c`, `buffered_file.c`, `block-migration.c`, `savevm.c` | migration state, output buffer, block lists, dirty bitmaps | start, iterate, complete, cancel | the destination's disk equals the source's; only one side runs the guest; a migration ends |
| Raw files, `block/raw-posix.c`, `linux-aio.c` | a descriptor | system calls | external to the models |
| `img-fuse.c`, `img-info.c`, `qemu-tool.c` | one open image | FUSE calls | each call is one synchronous block operation |
| Other formats, NBD, DMA helpers, devices, CPU emulation, the other trees | - | - | not modelled, see section 7 |

How they interact: a device model or an image driver calls `bdrv_aio_*`; the raw
driver hands the request to the AIO pool; a worker thread performs it and sends
`SIGUSR2`; the handler writes a byte into a pipe; the main loop, or whoever is
inside `qemu_aio_wait`, reads the pipe and walks `first_aio`, calling callbacks.
The callback of a qcow2 write links clusters, which does *synchronous* I/O, which
pushes an AsyncContext and waits in it, hence walks the same list again from
inside a callback. That nesting, the unlocked accesses of the worker threads and
the dependencies between qcow2 requests are the hard behaviours. Above the
drivers a device batches the guest's writes and answers them together, and a
migration reads and watches the same disks from a timer while the guest goes on,
with its output held back by a full socket and a rate limit. Every place is
listed with its line under `hazards` in `PROJECT.json`.

## 2. Modules

`PosixAio` models `posix-aio-compat.c` and what drives it: the AsyncContext stack
of `async.c`, `qemu_aio_wait`/`qemu_aio_flush` of `aio.c`, and `bdrv_read_em`/
`bdrv_write_em` of `block.c`.

- *State.* Each field of `struct qemu_paiocb` is a function over the blocks; a
  worker has a location `pc` and a `job`; the main thread's C stack is the
  sequence `stack` of frames (main loop, callback, walk over the list, a
  synchronous operation, a flush, the end of a submission, the busy wait of a
  cancellation), each with the AsyncContext it runs in.
- *Atomicity.* A region under `lock` is one step. What the code does outside it
  is a step of its own: `cond_signal` after unlock (`CondSignal`), `kill` after
  unlock (`AioThreadKill`, which reads `ev_signo` of a block that may have been
  recycled), each list element a walk looks at, each callback.
- *Actions.* `AioRw`, `AioIoctl`, `RwEm`, `RwEmFails`, `AioFlush`, `Cancel*` are
  the users' calls, made from the main loop or inside a callback; `AioThread*` is
  the loop of a worker; `AioSignalHandler` interrupts the main thread anywhere;
  `Walk*`, `CbReturn` are `posix_aio_process_queue`; `AioWait*`, `Em*`, `Flush*`
  are the waiting loops. A system call is its outcome: everything transferred,
  less, an error, or the error `ECANCELED`, which the code confuses with a
  cancellation: the request is dropped without a callback.

`AsyncIo` is the abstract service: a request is free, queued, running, finished or
in its callback, and belongs to the context it was submitted in. A running request
is never taken away from under the I/O; only a finished one gets a callback; only
free ones are submitted. It knows no threads, lists or signals. `PosixAio`
instantiates it as `AbstractIo` with the refinement mapping `RequestState`.

`Qcow2Write` models concurrent AIO writes to a qcow2 image: `qcow_aio_writev`,
`qcow_aio_write_cb`, `run_dependent_requests`, `qcow_aio_cancel`
(`block/qcow2.c`), `qcow2_alloc_cluster_offset`, `qcow2_alloc_cluster_link_l2`,
`copy_sectors` (`block/qcow2-cluster.c`) and the allocation and freeing of
clusters (`block/qcow2-refcount.c`).

- *State.* One L2 table with COPIED flags, the refcounts and
  `free_cluster_index`, the contents of the host clusters sector by sector,
  `cluster_allocs`, the fields of each request, and `todo`, the callbacks the main
  thread is in. Offsets are in sectors. A sector's content is the name of the
  request that wrote it, or of the guest sector it was filled for. `supersedes`
  and `allowed` are history: what each guest sector may legally read as.
- *Atomicity.* Callbacks do not interrupt each other and the synchronous I/O they
  do runs no foreign callbacks (that is what `PosixAio` shows), so a callback up
  to its next asynchronous write is one step, and each restart of a dependent
  request is another. A user's callback may issue new writes while restarts are
  pending (`NoReq` on `todo`).
- *Failures.* The data write fails after any prefix (`HdFail`), linking fails before or
  after the cached L2 table changed (`LinkFails`), the write of the refcount block
  fails for an allocation whose request is already on the list, with the counts
  changed in the cache and nothing undone (`AllocFails`), and the submission of the
  data write returns NULL (`SubmitFails`).
- *Left out.* All refcounts are in one block, which exists and stays cached; no
  refcount block is allocated or loaded. `qcow2_free_clusters` aborts the process
  when that block cannot be written, so no failure of a free is modelled.

`Qcow2Snapshot` models the metadata of an image under internal snapshots:
`block/qcow2-snapshot.c`, `qcow2_update_snapshot_refcount` and
`qcow2_check_refcounts` (`block/qcow2-refcount.c`), the L1 growth and the copy on
write of L2 tables and clusters (`block/qcow2-cluster.c`), and `qcow_open`.

- *State.* What `BDRVQcowState` holds in memory (`l1`, `l1_size`, `rc`, `snaps`)
  and what the file holds (`disk_*`, `snap_l1`, and `file`, the contents of the
  host clusters: a guest value or an L2 table). `op` is the operation that runs,
  with its position in the L1 table and whether it has modified it. `image` and
  `saved` are history: what the disk and each snapshot have to read as.
- *Atomicity.* The main thread does nothing else during a snapshot operation
  (`do_savevm` flushes the requests and stops the machine first), so operations do not interleave; each of their
  writes to the file is a step, after which they may fail or QEMU may die
  (`Reopen`). A guest write, also of the VM state behind the end of the disk, is
  one step: `Qcow2Write` has its interleavings.
- *Left out.* Clusters of L1 tables, of the list and of refcount blocks are never
  shared, hence not counted; refcounts are in one block; the L2 cache, written
  through and reset by every pass, is the file.

`Multiwrite` models the path of guest writes: `hw/virtio-blk.c` (batching,
`virtio_blk_rw_complete`, the error policies, `virtio_blk_dma_restart_bh`) and the
multiwrite of `block.c` (`multiwrite_merge`, `bdrv_aio_multiwrite`,
`multiwrite_cb`).

- *State.* Each request with its place on the disk and its status, `s->rq`, the
  merged requests still to submit, the `MultiwriteCB`s, the writes the driver has,
  and the disk. A sector's content is the request and the sector it was meant for,
  so data written to a wrong place is seen. Differences of sectors are cut to an
  `int` of `IntRange` as the comparator's are, and `qsort` is any order whose
  neighbours it accepts.
- *Freed memory.* Requests are freed when they are answered, the merged qiovs with
  them, the `MultiwriteCB` with its last completion. `fault` says which freed or
  doubly linked object was touched; the model stops there. A write in flight whose
  qiov was freed may be carried out all the same or touch it (`UseFreedQiov`).
- *Atomicity.* Everything runs in the main thread; the loop of
  `bdrv_aio_multiwrite` is one step per call of the driver, which may accept the
  write, return NULL, or call back before it returns: with an error (qcow2 when the
  allocation fails) or with success although nothing was written (qcow2 when its own
  submission fails, `qcow2.c:623`). Completions come between handlers, in any order:
  success, an error of either kind the policies tell apart (`EIO`, `ENOSPC`), or
  success with a part not written.
- *External.* The image driver. The `bdrv_merge_requests` hook is left out: no
  driver of this version sets it.

`BufferedFile` is the output of a migration (`buffered_file.c`): a file is a record
and `buffered_put_buffer`, `buffered_flush`, `buffered_rate_tick` etc. are functions
on it, over a socket that takes a bounded number of messages until the peer reads,
or breaks. `BlockMigration` extends it with `block-migration.c`, the state machine of
`migration.c`, the order in which `savevm.c` calls the sections, the dirty bitmap of
`block.c`, the guest's writes and the loading side.

- *State.* The disks of all devices as one line of chunks with versions as contents;
  guest writes and block reads in flight; one dirty bitmap per device, indexed by the
  device's own chunks, with the width of its mask; `BlkMigState`;
  `FdMigrationState`; the file; the destination's disks.
- *Atomicity.* A handler (the timer's `put_ready`, the socket's `put_notify`, a
  command, a read's callback) is a chain of steps, located by `pc` and `stage`,
  because the peer reads and the connection fails while it runs. Guest writes,
  reads and callbacks happen between handlers.
- *Limits.* `bytes_xfer` and `xfer_limit` are in bytes: a block counts with its
  header in `buffered_put_buffer` and without it in `block_save_live`, whose
  comparisons differ (`>` at `buffered_file.c:129`, `<` at `block-migration.c:432`).
- *Left out.* Progress marks, section headers and end marks are a few bytes each
  and count neither as messages nor against the limit. The RAM section is external:
  it needs another round, has converged, or a put of it fails. A guest write is
  inside one chunk.
- `excused` is history: the chunks whose newest contents the code loses track of
  (a write in flight when the dirty bit is cleared or tracking begins; a bit shared
  with another chunk; a block left on `blk_list` at the end). The copy properties
  name it, so that they say exactly what holds.

The `MC` modules add only the symmetry sets TLC uses.
The theorems are in modules of their own, one chain per component:
`PosixAioProofs`, extended by `PosixAioContextProofs`; `Qcow2WriteProofs`, extended
by `Qcow2WriteDataProofs`; `Qcow2SnapshotProofs`; `MultiwriteProofs`;
`BlockMigrationProofs`, extended by `BlockMigrationCopyProofs`.

## 3. Runs

| Run | Question | Result |
|---|---|---|
| `posix_aio_safety` | Three blocks, two workers, `max_threads` 2, one nested context, four operations, completions with and without `ECANCELED`, ioctls: `TypeOK`, `ThreadAccounting` (the counters are exact), `NoLostWakeup`, `QueuedIffInactive`, `WorkerOwnsJob`, `KillRaisesSignal`, `OneOwner`, `FlushDrains` | pass |
| `posix_aio_live` | Two blocks, without ioctls and under fairness: `EveryRequestReaped` and `SyncReturns`, unless the system call of a synchronous operation returns `ECANCELED`, and does the detailed model implement the abstract one (`ImplementsAsyncIo`)? | pass |
| `qcow2_write_faults` | Three writes of one or two sectors on two clusters of two sectors, with failing data writes and links: `TypeOK`, `InFlightExact`, `AllocationsDisjoint`, `NeverAborts` (the `abort()` of `qcow2_alloc_cluster_offset` is not reached), `GuestData`, `WaitersHaveOwner` | pass |
| `qcow2_write_abort` | Two writes of up to three sectors; failing data writes, links, writes of the refcount block and submissions; cancellation; under fairness: `RefcountSafe`, `SnapshotKept`; `NoLeak` when nothing failed; `WritesComplete` unless the write waits for an abandoned one | pass |
| `qcow2_cancel_strands_dependents` | `WaitersHaveOwner` when requests may be cancelled | violation |
| `qcow2_snapshots` | Any five writes (also behind the end of the disk, where the L1 table grows), creations, reverts and deletions, reopening in between, creations that fail or die at any write: `GuestIntact`, `SnapshotsIntact`, `NeverUndercounted`, and `CheckClean` (what `qcow2_check_refcounts` tests) while nothing was abandoned | pass |
| `qcow2_goto_shrinks_l1` | `CheckClean` with L1 growth when the image may be reopened | violation |
| `multiwrite` | Any three writes in one or two batches, distances that wrap, refused writes, early and late callbacks, lost data, freed qiovs, policies enospc and stop: `TypeOK`, `OnlyRequested` (merging moves no data) and `SuccessIsOnDisk` for requests that neither overlap nor are too far apart, `OneFailureContained`, `CountExact`, and under fairness `EveryWriteAnswered` | pass |
| `block_migration_copy` | One migration of two disks with three chunks against guest writes, a failing read, two rate limits (one of them 0), a socket that fills and breaks, cancellation: `TypeOK`, `CopyComplete`, `NothingForgotten`, `OneGuest`, `HealthyRunIsSound` | pass |
| `block_migration_live` | Two migrations in a row, with cancellation and a breaking connection, under fairness: `CountersExact`, `GuestNotLost`, `MigrationEnds` (unless the rate limit stays or keeps becoming 0), `HandlersEnd` | pass |
| `block_migration_restart` | `AssertionsHold` when a migration is cancelled and started again | violation |
| `block_migration_full_copy` | `FullCopy` with an idle guest and no failures | violation |

The four violations are disagreements between the code and what it says of itself:

1. `qcow_aio_cancel` neither takes the request off `cluster_allocs` nor restarts
   its dependents (`qcow2.c:347-353`).
2. `qcow2_snapshot_goto` to a snapshot with a shorter L1 table leaves the header's
   size and the rest of the table (`qcow2-snapshot.c:332`): reopened, the image
   maps clusters that were freed.
3. `blk_mig_cleanup` leaves block reads in flight; their callbacks decrement the
   counter of the next migration and fail its assertion
   (`block-migration.c:380`, `:137`).
4. `is_stage2_completed` does not look at `blk_list`, and what the rate limit or a
   full socket holds back in stage 3 is freed unsent with its dirty bit already
   cleared: a "full copy of disk" (`qemu-monitor.hx:742`) that completes without a
   chunk, although nothing failed (`block-migration.c:363`, `:340`, `:389`).

The passing runs check the same properties, or the part of them that holds, with
the condition in question excluded by name. These disagreements were
met as well; no violating run is spent on them, and all but that of
`alloc_refcount_block` are part of the models:

- `paio_ioctl` does not set `async_context_id`, so a recycled block keeps the context
  of its last use (`posix-aio-compat.c:595` against `async.c:40`): its callback may
  run in a foreign context, or only when that context is entered again.
  `posix_aio_live` and the refinement are about the pool without ioctls.
- A request whose system call returns `ECANCELED` is released without a callback
  (`posix-aio-compat.c:440`). A synchronous operation then waits for its result for
  ever (`block.c:1930`); both liveness properties name that state (`SyncCanceled`).
- A snapshot creation that fails in `qcow2_update_snapshot_refcount` leaves COPIED
  flags cleared in memory and set in the file (`qcow2-refcount.c:635-661`). Reopened
  after a second creation, the image lets the guest write into a shared L2 table.
  `drift` says when the file's L1 table is out of date; `qcow2_snapshots` does not
  reopen an image in that state, and `qcow2_goto_shrinks_l1` does
  (`"drift" \in ReopenIn`).
- `bdrv_aio_writev` returning NULL after other writes of a batch were accepted is
  never reported (`block.c:1759` against the comment above it), and when nothing was
  accepted only one request of the batch is answered; `EveryWriteAnswered` excludes
  refused batches (`refused`), and those with a success called back before it was
  counted: `num_requests` goes 0, -1, 0 and a batch of that one write is never
  answered. A second failure in a batch, or one from inside the submission, touches
  freed requests (`block.c:1620`); `OneFailureContained` excludes both.
- Even a single failure answers and frees all requests of its batch and the merged
  qiovs (`virtio-blk.c:98`, `block.c:1611`) while the driver still has the other
  writes of the batch and uses their qiovs. `OneFailureContained` says that the
  damage goes no further: not to writes of other batches, and neither to a
  `MultiwriteCB` nor to an answer.
- Requests that overlap are merged with the sum of their lengths (`block.c:1692`),
  and the order of requests 2^31 sectors apart is wrong because their difference is
  returned as an `int` (`block.c:1636`), so that the merge moves their data. The data
  properties are about requests that do neither (`Disjoint`, `Comparable`).
- `alloc_refcount_block` zeroes the cached refcount block while
  `refcount_block_cache_offset` still names the old one (`qcow2-refcount.c:220`): if
  writing the new block then fails, clusters in use read as free. Allocating refcount
  blocks is not modelled, and `RefcountSafe` does not speak of it.
- With a rate limit of 0 no block is ever submitted (`block-migration.c:432`) and the
  migration stays active; the monitor accepts 0, and also 4g, which is cut to 32 bits
  (`migration.c:128`). `MigrationEnds` is about migrations whose limit is finally not 0.
- A migration whose connection breaks in the last flush is reported as completed
  (`migration.c:404`), and one whose disk or connection fails during the iteration
  stays active until it is cancelled (`migration.c:387`).

A failing cluster allocation (`qcow2-cluster.c:808`) leaves the request on
`cluster_allocs` in the same way as a cancellation; it is part of
`qcow2_write_abort` and excluded from `qcow2_write_faults`.

## 4. Bounds

- `MaxOps` = 4 operations over three request blocks: a block is recycled at
  least once, a synchronous request nests in a callback while a third request is
  outstanding, and a flush overlaps both. The liveness run has two blocks and three
  operations: a synchronous request then competes with one of the main loop, or nests
  in a callback. Two workers with `MaxThreads` = 2 reach the limit of the pool;
  `PipeSize` = 1 in the liveness run makes the signal handler's write fail. Short
  transfers and errors other than `ECANCELED` differ from success only in the value
  the callback is given; `ECANCELED` is among the outcomes of both runs.
  `MaxContext` = 1 allows a synchronous operation inside a callback of the
  main loop; a second level behaves as the first with ids shifted by one.
- Two clusters of two sectors are the smallest disk with aligned and unaligned,
  neighbouring and overlapping requests, with sectors to copy before and behind
  the written ones. Three requests give chains of dependencies (a request that
  waits for one that waits for a third). `H` = 8 host clusters are more than the
  requests can allocate, so the file never ends early.
- Two snapshots, two L1 entries and two values: a cluster and a table can be
  shared by the disk and two snapshots, by two snapshots only, and by one; with
  five operations a snapshot is created, written over, reverted to and deleted, or
  two are created around a failing one. `L1Max` = 2 and `DiskTables` = 1 is the smallest growth.
  `H` = 14 clusters exceed what three owners of two tables can use, so a
  write always finds a free cluster.
- Three writes of one sector on five: apart, adjacent, and on the same sector; three
  that merge into one, or into two, which makes writes of up to three sectors, longer
  than their buffer where requests overlap, and behind the disk's end. `IntRange` = 3
  lets two requests be too far apart to compare, also with a third between them, and
  leaves room for three that are not. Requests of several sectors that overlap in a
  part are the theorems' business: there the size is arbitrary. Two batches
  let a stopped batch be issued again, while writes of the first are in flight or
  after all have ended. The policy stop keeps every failed request, enospc keeps or
  answers it depending on the error, so that it does what report does on `EIO`;
  ignore differs only in what the guest is told.
- Three chunks on two disks, the last partial, and words of two bits with masks of one
  let the two chunks of the second disk share a dirty bit, and not those of different
  disks; two writes, one before and one after a chunk
  is read; a socket with room for one message is full at every put. With blocks of 2
  and headers of 1 the limits 0, 2 and 3 are none, exactly a block, and a block with
  its header: they stop the bulk phase at once, after one block or after two, and the
  flush after the first block or the second. The first run has 0 and 3, the second 0
  and 2. Two chunks are enough
  for the second run, where what matters is that there are two migrations.
- Each qcow2 request is issued once and `MaxOps`, `MaxBatches`, `MaxStarts` and
  `MaxWrites` bound the operations of the other models: the models stop when the
  bound is reached, so the deadlock check is
  off in these runs. Waiting for ever is what the liveness properties are for.

Requests, blocks and threads are symmetric in the safety runs; the liveness runs,
and those of `Multiwrite` and `BlockMigration`, use no symmetry.

## 5. Fairness

`PosixAio`: weak fairness of the main thread's own steps, of each worker and of
the delivery of a pending signal. The code justifies it: the main loop never blocks
with a readable pipe, the kernel schedules runnable threads and delivers signals,
and system calls return. Nothing is assumed of the ten-second timeout or of users.
`Qcow2Write`: callbacks run to their end and data writes end, which is what
`EveryRequestReaped` establishes for the layer below; no fairness of cancellation.
`Multiwrite`: the loop that submits goes on and the driver completes what it has
accepted (`WritesComplete`); nothing is assumed of the guest or of the machine being
started again. `BlockMigration`: a handler runs to its end and the peer goes on
reading, the timer and the socket's handler are run when they are due, and connecting
ends (weak fairness: `Handler`, `Drain`, `Tick`, `migrate_fd_put_notify`, `Connect`);
the disk performs reads and guest writes and the main loop delivers their callbacks
although other handlers come between (strong fairness of `Host` and
`blk_mig_read_cb`, which are disabled while a handler runs); and the
RAM converges after finitely many rounds (strong fairness of `RamConverged`), which
is an assumption on the guest, as it is for a migration of RAM alone. No fairness is
assumed of the user, of errors or of guest writes.

## 6. Proofs

Every theorem holds for all values of the constants that satisfy the named
assumptions of its module; the conditions some of them add are named below, with
the code that makes them necessary. None of the properties is inductive as it
stands: each chain of modules has an inductive invariant, checked with TLC before
it was proved, with one conjunct per thing the code relies on without saying so.

### The AIO pool

| Theorem | Property | Condition |
|---|---|---|
| `AccountingCorrect` | `ThreadAccounting` | |
| `TypeCorrect`, `WakeupCorrect` | `TypeOK`, `NoLostWakeup` | |
| `QueueCorrect`, `WorkerCorrect`, `KillCorrect`, `OwnerCorrect` | `QueuedIffInactive`, `WorkerOwnsJob`, `KillRaisesSignal`, `OneOwner` | |
| `FlushCorrect` | `FlushDrains` | |
| `RefinementCorrect` | `ImplementsAsyncIo` | `~Ioctls` |

- `AccountingInv` adds the types of `pc` and of the counters to `ThreadAccounting`:
  whether a worker may finish or exit depends on where it is. `OneMore`, `OneLess`
  and `PcMove` turn the move of one thread into a change of cardinality.
- `TypeInv` adds the shape of the main thread's stack, which is popped without
  looking whether anything is left: the main loop is at its bottom, a walk's
  position is positive, callbacks and waiting cancellations have a block.
- `NoLostWakeup` is inductive with it. When a submission spawns no thread, either
  `idle_threads` is not 0 or `cur_threads` is at `MaxThreads > 0`, and since the
  counters are exact a thread is then really alive and awake, or waits and the
  submitter has still to call `cond_signal`.
- `OwnInv` says where each block is: on the free list, on `first_aio` or in exactly
  one running callback; on `request_list` exactly while it is inactive and not
  taken; with at most one worker, whose block stays where it is until the I/O ends.
  A worker reads `ev_signo` after it has let go of the block; the field is never
  reset, which is why the signal is raised although the block may be recycled.
- `MainInv` is about the stack: which frames may be suspended, in which AsyncContext
  each runs, that a flush looks at an empty list before it returns, and that without
  `paio_ioctl` the only request of a nested context is the one its synchronous
  operation waits for. With it `AsyncContextPop` has nothing to hand over, and each
  step maps to a step of `AsyncIo` or to a stutter (one lemma per action).
- `paio_ioctl` leaves `async_context_id` as the block's last use left it, hence
  `~Ioctls`: with ioctls the pool does not implement `AsyncIo` (section 3).

### qcow2 writes

| Theorem | Property | Condition |
|---|---|---|
| `TypeCorrect`, `DisjointCorrect`, `RefcountCorrect`, `AbortUnreachable`, `SnapshotCorrect` | `TypeOK`, `AllocationsDisjoint`, `RefcountSafe`, `NeverAborts`, `SnapshotKept` | |
| `NoLeakCorrect` | `NoLeak` | |
| `InFlightCorrect`, `WaitersCorrect` | `InFlightExact`, `WaitersHaveOwner` | `~Cancels`, neither `"alloc"` nor `"hd_submit"` in `Faults` |
| `DataCorrect` | `GuestData` | `~Cancels`, `"hd_submit"` not in `Faults` |

- `QcowInv`: every allocation in flight is on `cluster_allocs`, so the scan sees it
  (`Listed`); it covers clusters that exist; COPIED flags belong to mapped clusters;
  nothing that may be written is part of the snapshot. What the scan over
  `cluster_allocs` leaves is established by induction on its index, as the least
  index at which it would fail. Refcounts are compared with the number of users of
  a cluster by cardinalities of the sets of users.
- `RunInv`: `todo`, the lists of dependents and `cluster_allocs` name each request
  once and agree with its state. `TargetInv`: a write in place goes to the cluster
  the L2 table maps, one to new clusters to clusters nobody else refers to.
  `LeakInv`: the counts are exact, allocations in flight included, while nothing
  has failed. These hold whatever fails and whatever is cancelled.
- `DataInv`: what a guest sector may read as, relative to how far each request is.
  The argument needs all of the above: a request that is overtaken waits, and its
  data goes where only it can write.
- `RefcountCorrect` and `NoLeakCorrect` are about one refcount block that exists and
  stays cached, whose writes may fail; the allocation of further blocks, which can
  lose counts (section 3), is outside the model.
- The conditions exclude behaviours of the code that break the statements:
  `qcow_aio_cancel` leaves the request on `cluster_allocs` and its dependents
  waiting, and leaves a cancelled dependent where it will be restarted after its
  release; a failed allocation or submission leaves the request on the list; and a
  failed submission is reported as a success (`qcow2.c:623`). In the last case a
  theorem without the condition would be false, as `qcow2_cancel_strands_dependents`
  shows for the first.

### qcow2 snapshots

| Theorem | Property | Condition |
|---|---|---|
| `GuestCorrect`, `SnapshotsCorrect` | `GuestIntact`, `SnapshotsIntact` | `Supported` |
| `CheckCorrect`, `UndercountCorrect` | `CheckClean`, `NeverUndercounted` | `Supported` |
| `TypeCorrect` | `TypeOK` | `Supported` |

They hold for L1 and L2 tables of any size, any number of clusters, values,
snapshots and operations. `IInv` sees the image as trees: the active L1 table and
that of each listed snapshot, each with its L2 tables and data clusters.

- `Trees`: a tree uses no cluster twice, and what is an L2 table in one tree is no
  data cluster in another. Without this neither a refcount nor a copy on write
  means anything.
- `Counts`: a refcount is the number of trees that hold the cluster (`Holders`), or
  more when a creation was abandoned. While `qcow2_update_snapshot_refcount` is at
  L1 entry `op.i`, one tree holds only the clusters of the entries it has reached
  (a new snapshot, the active tree after a revert) or has still to reach (a
  deleted snapshot, the active tree before a revert). So `Counts` is an equation
  at every step of a pass, not only at its end.
- `Exclusive` and `Exact`: a COPIED flag of the active tree is on what no other tree
  holds, hence writing in place is safe; and, for the entries already reflagged,
  it is set exactly where the refcount is 1. A pass with addend 0 after a deletion
  is what restores the second.
- `SameSize`, `Synced`, `Written`, `Listing`: how far the L1 table, its size, the
  refcounts and the list in the file are behind those in memory, for each step of
  each operation. They are what `Reopen` needs, and what makes the order of the
  writes in `qcow2_snapshot_create` matter: references first, list last.
- `Contents`: what each tree reads as. `Shape` and `Distinct`: where the operations
  are, and that no id is listed twice.

A guest write is proved in two halves that know of the snapshots only the number of
holders of each cluster, the tables and the data clusters: `get_cluster_table` makes
the L2 table the image's own (`TableStep`, `OwnTable`), then the data go in place or
to a new cluster (`InPlaceStep`, `NewStep`); `WriteTree` puts them together.
`References` counts entries of tables; that this is the number of trees is shown
with a bijection from the entries that refer to a cluster to the trees that hold it
(`TableCount`, `DataCount`). That the growth by halves in `qcow2_grow_l1_table` ends,
at a size that is enough, is `GrowsEnough`.

`Supported` says that only creations fail or die, and that an image whose L1 table in
the file is out of date (`drift`) is not opened again. The code makes this
necessary: reverting and deleting drop references before the file has the new state
(`qcow2-snapshot.c:326`, `:368`), and reopening with `drift` is the violation of
`qcow2_goto_shrinks_l1`. `qcow2_snapshots` runs under the same condition.

### Multiwrite and virtio-blk

| Theorem | Property | Condition in the property |
|---|---|---|
| `CountCorrect` | `CountExact` | nothing freed has been touched |
| `ContainedCorrect` | `OneFailureContained` | at most one failure per batch, no callback before the count |
| `MergeMovesNothing` | `OnlyRequested` | `Disjoint`, `Comparable` |
| `SuccessCorrect` | `SuccessIsOnDisk` | `Disjoint`, `Comparable`, `NotLost`, policy other than ignore |

They hold for any finite set of requests, all their sizes, every disk and every width
of the `int`. Each condition is there because the code does otherwise without it
(section 3). `MwInv` has a part for each theorem:

- sorting: where distances fit into an `int` the comparison is that of the sectors
  (`CompareFacts`), hence an array whose neighbours are in order is sorted;
- merging: by induction along the sorted array every merged write carries, for each
  of its sectors, what some request sent for this very sector, and together they
  cover all requests (`MergeCorrect`);
- counting: the writes the driver has are told apart by the request they began
  with, so `num_requests` is their number until a freed `MultiwriteCB` is used
  (`CountInv`);
- answering: the callbacks of a batch that can still be called are pending, its merged
  qiovs are not freed, and no two such batches share a callback (`SafeInv`); a write
  that still has the qiov of a request has one of its own batch (`QueueInv`);
- data: unless the driver lost something of the batch, a sector of a batch that can
  still succeed is on the disk, in a write the driver has, or in one still to be
  submitted (`DataInv`).

### Block migration

`TypeCorrect`, `OneGuestCorrect`, `NotLostCorrect`, `CountersCorrect` and
`HealthyCorrect` (`TypeOK`, `OneGuest`, `GuestNotLost`, `CountersExact`,
`HealthyRunIsSound`), for any disks, rates and socket. `MigInv`:

- the file: what is put is written or buffered, in order (`FlushCorrect`,
  `PutCorrect`), and it has an error only when the connection is broken;
- control: a handler runs only while the file is open, and the devices are there
  in between, or there was an error, on which it turns back;
- the end of the stream: in stage 3 the guest stands still, the end is put last, it
  is in the buffer, delivered, or lost with the connection, and nobody starts the
  guest after it;
- blocks: a chunk is read once in a migration, and no block belongs to the
  migration that is being started;
- health: until a read has failed, the counters never fall behind.

`CopyCorrect` and `ForgottenCorrect` (`CopyComplete`, `NothingForgotten`) are on top
of it, for any guest, any connection, reads that fail and any number of migrations.
`CopyInv` follows one chunk through the code:

- not reached by the bulk phase: nothing of it is in the file, and in an incremental
  migration the destination has the base image (`Unpassed`, `Fresh`);
- passed: it is marked dirty or excused, or `OnTheWay`, that is, every block of it
  that can still be sent holds what is on the disk now and, when there is none, what
  is already in the file ends with it (`Passed`). A chunk is in one block only
  (`OneBlock`), so nothing older follows, and a write in flight has left its mark
  (`Noticed`), so that completing it needs none;
- in stage 3 all is read and nothing is written (`Late`): `flush_blks`, then one
  pass over the bitmap, then no chunk is left that is neither excused nor in the
  file;
- closing: the end of the stream is the last message, so when the destination has
  loaded it the buffer is empty and what the file ends with is what it has (`Done`).

`Newest` says what a chunk holds after a sequence of messages; that it is one value,
and that it is the same whether a message is in the buffer or loaded (`NewestConcat`,
`LoadNewest`, `FileCopies`), is why the rate limit and the socket cannot matter.

### Induction, and what is only model-checked

The provers cannot instantiate the induction schemes of the library. The three
inductions the theorems need (the scan over `cluster_allocs`, the merging of
requests, the growth of the L1 table) are done by hand: the recursive function
exists (`RecursionExists`, `MergingExists`, `GrowsExists`, by piecing together its
restrictions or the values it goes through), and a property of it that failed would
fail at a least index (`LeastNatural`), which the step refutes.

Every invariant and every safety property of an action that a run checks is also
proved, under the conditions named above, except `TypeOK` of `Multiwrite`, of which
`ShapeInv` has the types and not the bounds. Only model-checked is also liveness, which is
out of the prover's reach: `EveryRequestReaped`, `SyncReturns`, `WritesComplete`,
`EveryWriteAnswered`, `MigrationEnds`, `HandlersEnd`.

## 7. Not modelled

Raw system calls (only their outcomes), `linux-aio.c`, DMA helpers, the other image
formats, NBD and curl, device models except the writes of virtio-blk, CPU emulation,
and the vendored trees besides QEMU. Of the modelled files: the registration of AIO
handlers (nested walks share `walking_handlers`, `aio.c:133`), bottom halves other
than the completion ones, the racy `preadv_present` flag, qcow2 reads of several
clusters, the L2 cache, allocating and loading refcount blocks, the `abort()` of a
failing free, compressed and encrypted clusters, a flush from inside a completion
callback, memory reuse after a
release (a request block of `Qcow2Write` is used once), cancellation from inside a
completion callback. Of the snapshot operations: failures and crashes while
reverting or deleting (both drop references before the new state is in the file,
so the loss is certain; see the hazards), a failing write of the L1 table, which
leaves it byte-swapped in memory (`qcow2-refcount.c:643`), a failing refcount update
in the middle of the pass, which is taken for a refcount (`qcow2-refcount.c:602`),
and crashes inside a guest write (`qcow2-cluster.c:524`). Of `block.c`: opening,
closing and committing images and the asynchronous emulation of synchronous drivers.
Of virtio-blk: reads, flushes and SCSI requests, reset and the saved device state. Of
migration: the contents of RAM and of the device sections, the transports' own
connecting besides its outcome, the release of a finished migration state, and a
machine without hard disks (the progress of an empty set of disks is a division by
zero, `block-migration.c:284`). `img-fuse.c` runs several FUSE threads over a block
layer that keeps unlocked global state; a model of it needs that layer at the
granularity of single accesses.

## 8. Plan

1. An abstract disk with snapshots that `Qcow2Snapshot` refines, and the crashes
   inside a guest write.
2. The asynchronous emulation of `block.c`; bottom halves and the registration of
   handlers in `aio.c` and `async.c`.
