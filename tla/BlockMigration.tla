--------------------------- MODULE BlockMigration ---------------------------
(***************************************************************************)
(* Live migration with the disks (migrate -b, -i): block-migration.c as    *)
(* driven by the state machine of migration.c, the sections of savevm.c    *)
(* and the buffered file, against a guest that goes on writing, and the    *)
(* destination that loads what arrives.                                    *)
(*                                                                         *)
(* The disks are a line of chunks, the unit of dirty tracking and of       *)
(* transfer, those of one device after those of the one before it.  A      *)
(* chunk's contents are a version: 0 is the base image that source and     *)
(* destination share in an incremental migration, 1 what was written       *)
(* before, and every guest write has a version of its own.                 *)
(*                                                                         *)
(* The main loop runs one handler at a time, but a handler puts data on    *)
(* the socket many times while the peer reads or the connection fails, so  *)
(* it is a chain of steps: pc and stage say where in it the program is.    *)
(* Guest writes and disk I/O take effect between handlers; inside one      *)
(* nothing reads a chunk except in stage 3, when all I/O has been flushed. *)
(***************************************************************************)
EXTENDS Integers, Sequences, FiniteSets, BufferedFile

CONSTANTS
    NChunks,       \* chunks of all disks together
    DiskStarts,    \* the first chunk of each disk
    PartialChunks, \* the last chunks of disks whose length is no multiple of
                   \* BDRV_SECTORS_PER_DIRTY_CHUNK
    Allocated,     \* chunks that differ from the base image at first
    WordBits,      \* bits of an unsigned long
    IntBits,       \* bits of an int
    Rates,         \* transfer limits that are set, 0 among them or not
    MaxWrites,     \* bound on guest writes
    MaxErrors,     \* bound on disk reads that fail
    MaxStarts      \* bound on migrations

ASSUME MigrationAssumption ==
    /\ NChunks \in Nat \ {0}
    /\ DiskStarts \subseteq 0 .. (NChunks - 1) /\ 0 \in DiskStarts
    /\ \A c \in PartialChunks : /\ c \in 0 .. (NChunks - 1)
                                /\ c + 1 \in DiskStarts \cup {NChunks}
    /\ Allocated \subseteq 0 .. (NChunks - 1)
    /\ IntBits \in Nat \ {0}
    /\ WordBits \in {IntBits, 2 * IntBits}
    /\ Rates \subseteq Nat
    /\ MaxWrites \in Nat /\ MaxErrors \in Nat /\ MaxStarts \in Nat

Chunk == 0 .. (NChunks - 1)
Version == 0 .. (MaxWrites + 1)
Blank == -1           \* what a new destination image holds
Unread == -2          \* a buffer whose read has not been performed
Failed == -3          \* a buffer whose read failed (ret < 0)
NoWrite == -4         \* no write in flight

VARIABLES
    src,        \* the source's disks
    inflight,   \* per chunk, the guest write that has been submitted
    writes,     \* number of guest writes so far
    tracking,   \* bs->dirty_bitmap is allocated
    dirty,      \* the bits set in it
    bmds,       \* block_mig_state.bmds_list is not empty
    cur,        \* bmds->cur_sector, in chunks
    submitted, read_done,   \* block_mig_state
    reads,      \* BlkMigBlocks with their read in flight
    blk_list,   \* BlkMigBlocks whose read is done
    shared,     \* shared_base
    mstate,     \* FdMigrationState.state
    file,       \* s->file is open
    has_error,  \* QEMUFile.has_error
    bf,         \* the QEMUFileBuffered under it
    running,    \* vm_running
    outcome,    \* the state migrate_fd_put_ready sets after the clean-up; in
                \*   stage 3 "running" or "stopped", its old_vm_running
    pc, stage,  \* where the running handler is
    dst, eof,   \* the destination's disks; it has loaded everything
    starts, errors,         \* migrations and failed reads so far
    fault       \* what stopped the program: a failed assertion, or the use
                \* of a BlkMigDevState that has been freed

VARIABLE excused
                \* history: chunks whose newest contents the code loses track
                \*   of.  A write to them was in flight when their bit was
                \*   cleared or tracking began; their bit was cleared for a
                \*   chunk they share it with; or the block read was still
                \*   on blk_list at the end of stage 3

diskVars == <<src, inflight, writes, tracking, dirty>>
blkVars == <<bmds, cur, submitted, read_done, reads, blk_list, shared>>
fileVars == <<file, has_error, bf>>
migVars == <<mstate, running, outcome>>
dstVars == <<dst, eof>>
boundVars == <<starts, errors>>
vars == <<diskVars, blkVars, fileVars, migVars, pc, stage, dstVars, boundVars,
          fault, excused>>

-----------------------------------------------------------------------------
Block == [gen : 1 .. MaxStarts, chunk : Chunk,
          data : Version \cup {Unread, Failed}]
Eof == [eof |-> TRUE]
BlockMsg(b) == [chunk |-> b.chunk, data |-> b.data]
Msg == [chunk : Chunk, data : Version] \cup {Eof}

\* blk->bmds still points to a device of the list.
Live(b) == bmds /\ b.gen = starts

(***************************************************************************)
(* The dirty bitmaps, one for each disk, indexed by the disk's own chunks. *)
(* set_dirty_bitmap and bdrv_get_dirty build their mask with 1 << bit, an  *)
(* int, for a bit of an unsigned long: where that is twice as wide the     *)
(* shift count is taken modulo IntBits, so two chunks of a word share a    *)
(* bit.                                                                    *)
(***************************************************************************)
DiskOf(c) == CHOOSE s \in DiskStarts :
                 s <= c /\ \A t \in DiskStarts : t <= c => t <= s

DirtyBit(c) ==
    LET n == c - DiskOf(c)
    IN  <<DiskOf(c), n \div WordBits, (n % WordBits) % IntBits>>

bdrv_get_dirty(c) == DirtyBit(c) \in dirty

bdrv_reset_dirty(c) == dirty' = dirty \ {DirtyBit(c)}

\* The chunks that lose a mark they still need when c's bit is cleared: c
\* itself, when a write to it is in flight, and those that share the bit.
Unmarked(c) ==
    {d \in Chunk : /\ DirtyBit(d) = DirtyBit(c) /\ bdrv_get_dirty(d)
                   /\ inflight[d] # NoWrite \/ (d # c /\ d < cur)}

(***************************************************************************)
(* The destination's block_load: a block is written as a full chunk, which *)
(* bdrv_write refuses behind the end of the disk, and the error is         *)
(* ignored.                                                                *)
(***************************************************************************)
block_load(msgs) ==
    LET Of(c) == {i \in 1 .. Len(msgs) : msgs[i] # Eof /\ msgs[i].chunk = c}
        Last(c) == CHOOSE i \in Of(c) : \A j \in Of(c) : j <= i
    IN  /\ dst' = [c \in Chunk |-> IF Of(c) = {} \/ c \in PartialChunks
                                   THEN dst[c] ELSE msgs[Last(c)].data]
        /\ eof' = (eof \/ \E i \in 1 .. Len(msgs) : msgs[i] = Eof)

\* The file becomes b; what the socket accepted reaches the destination.
SetFile(b) == /\ bf' = [b EXCEPT !.out = << >>]
              /\ block_load(b.out)

\* qemu_put_buffer and the qemu_fflush it leads to.
Put(m) ==
    IF has_error THEN UNCHANGED <<has_error, bf, dstVars>>
    ELSE /\ SetFile(buffered_put_buffer(bf, m))
         /\ has_error' = PutFails(bf)

-----------------------------------------------------------------------------
(***************************************************************************)
(* The guest and its disks.                                                *)
(***************************************************************************)
Alive == fault = "none"
Idle == Alive /\ pc = "idle"

\* bdrv_aio_writev marks the chunk when the write is submitted.
MarkedNever(c) == dirty                               \* mutant
Marked(c) == IF tracking THEN dirty \cup {DirtyBit(c)} ELSE dirty

GuestWrite(c) ==
    /\ Idle /\ running /\ inflight[c] = NoWrite /\ writes < MaxWrites
    /\ writes' = writes + 1
    /\ inflight' = [inflight EXCEPT ![c] = writes + 2]
    /\ dirty' = Marked(c)
    /\ UNCHANGED <<src, tracking, blkVars, fileVars, migVars, pc, stage,
                   dstVars, boundVars, fault, excused>>

WriteDone(c) ==
    /\ Idle /\ inflight[c] # NoWrite
    /\ src' = [src EXCEPT ![c] = inflight[c]]
    /\ inflight' = [inflight EXCEPT ![c] = NoWrite]
    /\ UNCHANGED <<writes, tracking, dirty, blkVars, fileVars, migVars, pc,
                   stage, dstVars, boundVars, fault, excused>>

\* The read of a block is performed, or fails.
ReadDone(b) ==
    /\ Idle /\ b \in reads /\ b.data = Unread
    /\ \/ /\ reads' = (reads \ {b}) \cup {[b EXCEPT !.data = src[b.chunk]]}
          /\ UNCHANGED errors
       \/ /\ errors < MaxErrors
          /\ errors' = errors + 1
          /\ reads' = (reads \ {b}) \cup {[b EXCEPT !.data = Failed]}
    /\ UNCHANGED <<diskVars, bmds, cur, submitted, read_done, blk_list, shared,
                   fileVars, migVars, pc, stage, dstVars, starts, fault,
                   excused>>

\* Its callback in the main loop; assert(block_mig_state.submitted >= 0).
blk_mig_read_cb(b) ==
    /\ Idle /\ b \in reads /\ b.data # Unread
    /\ reads' = reads \ {b}
    /\ blk_list' = Append(blk_list, b)
    /\ submitted' = submitted - 1
    /\ read_done' = read_done + 1
    /\ fault' = IF submitted - 1 < 0 THEN "assert" ELSE "none"
    /\ UNCHANGED <<diskVars, bmds, cur, shared, fileVars, migVars, pc, stage,
                   dstVars, boundVars, excused>>

-----------------------------------------------------------------------------
(***************************************************************************)
(* The connection.  It may be drained or fail at any time.                 *)
(***************************************************************************)
Drain ==
    /\ Alive /\ file /\ ~bf.broken /\ bf.room < MaxRoom
    /\ bf' = Drained(bf)
    /\ UNCHANGED <<diskVars, blkVars, file, has_error, migVars, pc, stage,
                   dstVars, boundVars, fault, excused>>

Break ==
    /\ Alive /\ file /\ ~bf.broken
    /\ bf' = [bf EXCEPT !.broken = TRUE]
    /\ UNCHANGED <<diskVars, blkVars, file, has_error, migVars, pc, stage,
                   dstVars, boundVars, fault, excused>>

-----------------------------------------------------------------------------
(***************************************************************************)
(* block_save_live.                                                        *)
(***************************************************************************)

\* blk_mig_cleanup frees the devices and the blocks on blk_list.  The list of
\* devices is empty when set_dirty_tracking(0) walks it: tracking stays on.
\* The blocks being read, submitted and read_done stay as they are.
blk_mig_cleanup == /\ bmds' = FALSE
                   /\ blk_list' = << >>

\* Enter the handler with a stage.
EnterStage(n) == pc' = "flush1" /\ stage' = n

(***************************************************************************)
(* One round of the loop of flush_blks.  A block is put on the file, taken *)
(* from the list and counted; assert(block_mig_state.read_done >= 0).      *)
(***************************************************************************)
SentStillCounted == read_done                         \* mutant
SentCounted == read_done - 1

FlushStops == blk_list = << >> \/ buffered_rate_limit(bf)
ReadErrorIgnored == FALSE                             \* mutant
ReadFailed == ~FlushStops /\ Head(blk_list).data = Failed

flush_blks ==
    /\ Alive /\ pc \in {"flush1", "flush2"}
    /\ ~FlushStops /\ ~ReadFailed
    /\ IF ~Live(Head(blk_list))
       THEN /\ fault' = "freed"
            /\ UNCHANGED <<blk_list, read_done, has_error, bf, dstVars>>
       ELSE /\ Put(BlockMsg(Head(blk_list)))
            /\ blk_list' = Tail(blk_list)
            /\ read_done' = SentCounted
            /\ fault' = IF SentCounted < 0 THEN "assert" ELSE "none"
    /\ UNCHANGED <<diskVars, bmds, cur, submitted, reads, shared, file, migVars,
                   pc, stage, boundVars, excused>>

FlushEnds == FlushStops \/ ReadFailed
FlushError == has_error \/ ReadFailed

(***************************************************************************)
(* The end of flush_blks: on an error the migration of the disks is        *)
(* cleaned up and the handler returns 0, which in stage 3                  *)
(* qemu_savevm_state_complete does not look at.                            *)
(***************************************************************************)
AfterFailedFlush == IF stage = 3 THEN "complete" ELSE "return0"

FlushFails ==
    /\ Alive /\ pc \in {"flush1", "flush2"} /\ FlushEnds /\ FlushError
    /\ has_error' = TRUE
    /\ blk_mig_cleanup
    /\ pc' = AfterFailedFlush
    /\ UNCHANGED <<diskVars, cur, submitted, read_done, reads, shared, file, bf,
                   migVars, stage, dstVars, boundVars, fault, excused>>

FlushToBulk ==
    /\ Alive /\ pc = "flush1" /\ FlushEnds /\ ~FlushError
    /\ pc' = "bulk"
    /\ UNCHANGED <<diskVars, blkVars, fileVars, migVars, stage, dstVars,
                   boundVars, fault, excused>>

(***************************************************************************)
(* is_stage2_completed: all blocks read and nothing in flight.  Blocks on  *)
(* blk_list are not asked for.                                             *)
(***************************************************************************)
is_stage2_completed == submitted <= 0 /\ (bmds => cur = NChunks)

\* After the second flush stages 1 and 2 are over.  Stage 3 has no chunk left
\* to read for the first time (is_stage2_completed); what it leaves on
\* blk_list will be freed unsent.
FlushToEnd ==
    /\ Alive /\ pc = "flush2" /\ FlushEnds /\ ~FlushError
    /\ IF stage = 3
       THEN /\ pc' = "dirty"
            /\ excused' = excused \cup
                   {c \in Chunk : ~bdrv_get_dirty(c)
                      /\ \E i \in DOMAIN blk_list : blk_list[i].chunk = c}
       ELSE /\ pc' = IF stage = 2 /\ is_stage2_completed THEN "ram" ELSE "return0"
            /\ UNCHANGED excused
    /\ UNCHANGED <<diskVars, blkVars, fileVars, migVars, stage, dstVars,
                   boundVars, fault>>

(***************************************************************************)
(* The loop that keeps the pipeline filled: one call of                    *)
(* blk_mig_save_bulked_block.  A device that shares its base skips what is *)
(* not allocated.  The dirty bit is reset although the read has only been  *)
(* submitted.  When the read cannot be submitted the call sets the error   *)
(* and the loop tries again.                                               *)
(***************************************************************************)
BulkRoom == (submitted + read_done) * BLOCK_SIZE < bf.xfer_limit /\ cur < NChunks

ToCopy == {c \in cur .. (NChunks - 1) : shared => src[c] # 0}
NextCopy == CHOOSE c \in ToCopy : \A d \in ToCopy : c <= d

ReadNotCounted == submitted                           \* mutant
ReadCounted == submitted + 1

mig_save_device_bulk ==
    /\ Alive /\ pc = "bulk" /\ BulkRoom /\ ToCopy # {}
    /\ LET c == NextCopy IN
       /\ reads' = reads \cup {[gen |-> starts, chunk |-> c, data |-> Unread]}
       /\ submitted' = ReadCounted
       /\ bdrv_reset_dirty(c)
       /\ cur' = c + 1
       /\ excused' = excused \cup Unmarked(c)
    /\ UNCHANGED <<src, inflight, writes, tracking, bmds, read_done, blk_list,
                   shared, fileVars, migVars, pc, stage, dstVars, boundVars,
                   fault>>

BulkSkipsRest ==
    /\ Alive /\ pc = "bulk" /\ BulkRoom /\ ToCopy = {}
    /\ cur' = NChunks
    /\ UNCHANGED <<diskVars, bmds, submitted, read_done, reads, blk_list, shared,
                   fileVars, migVars, pc, stage, dstVars, boundVars, fault,
                   excused>>

BulkReadFails ==
    /\ Alive /\ pc = "bulk" /\ BulkRoom /\ ToCopy # {} /\ errors < MaxErrors
    /\ errors' = errors + 1
    /\ has_error' = TRUE
    /\ UNCHANGED <<diskVars, blkVars, file, bf, migVars, pc, stage, dstVars,
                   starts, fault, excused>>

BulkStops ==
    /\ Alive /\ pc = "bulk" /\ ~BulkRoom
    /\ pc' = "flush2"
    /\ UNCHANGED <<diskVars, blkVars, fileVars, migVars, stage, dstVars,
                   boundVars, fault, excused>>

(***************************************************************************)
(* Stage 3: blk_mig_save_dirty_blocks sends the chunks whose bit is set.   *)
(* It reads full chunks, so the read of a partial one fails.               *)
(***************************************************************************)
DirtyChunks == {c \in 0 .. (cur - 1) : bdrv_get_dirty(c)}
NextDirty == CHOOSE c \in DirtyChunks : \A d \in DirtyChunks : c <= d

blk_mig_save_dirty_blocks ==
    /\ Alive /\ pc = "dirty" /\ DirtyChunks # {} /\ NextDirty \notin PartialChunks
    /\ Put([chunk |-> NextDirty, data |-> src[NextDirty]])
    /\ bdrv_reset_dirty(NextDirty)
    /\ excused' = excused \cup Unmarked(NextDirty)
    /\ UNCHANGED <<src, inflight, writes, tracking, blkVars, file, migVars, pc,
                   stage, boundVars, fault>>

DirtyReadFails ==
    /\ Alive /\ pc = "dirty" /\ DirtyChunks # {}
    /\ \/ NextDirty \in PartialChunks /\ UNCHANGED errors
       \/ errors < MaxErrors /\ errors' = errors + 1
    /\ has_error' = TRUE
    /\ blk_mig_cleanup
    /\ pc' = "complete"
    /\ UNCHANGED <<diskVars, cur, submitted, read_done, reads, shared, file, bf,
                   migVars, stage, dstVars, starts, fault, excused>>

DirtyEnds ==
    /\ Alive /\ pc = "dirty" /\ DirtyChunks = {}
    /\ blk_mig_cleanup
    /\ pc' = "complete"
    /\ UNCHANGED <<diskVars, cur, submitted, read_done, reads, shared, fileVars,
                   migVars, stage, dstVars, boundVars, fault, excused>>

-----------------------------------------------------------------------------
(***************************************************************************)
(* The migration (migration.c, savevm.c).                                  *)
(***************************************************************************)

\* do_migrate: a socket is connecting, there is no file yet.
do_migrate(inc) ==
    /\ Idle /\ mstate # "active" /\ starts < MaxStarts
    /\ starts' = starts + 1
    /\ mstate' = "active"
    /\ shared' = inc
    /\ dst' = [c \in Chunk |-> IF inc THEN 0 ELSE Blank]
    /\ eof' = FALSE
    /\ UNCHANGED <<diskVars, bmds, cur, submitted, read_done, reads, blk_list,
                   fileVars, running, outcome, pc, stage, errors, fault, excused>>

ConnectFails ==
    /\ Idle /\ mstate = "active" /\ ~file
    /\ mstate' = "error"
    /\ UNCHANGED <<diskVars, blkVars, fileVars, running, outcome, pc, stage,
                   dstVars, boundVars, fault, excused>>

\* The list of devices is made anew.
init_blk_migration == bmds' = TRUE /\ cur' = 0 /\ submitted' = 0 /\ read_done' = 0

\* bdrv_set_dirty_tracking(1) keeps a bitmap that is there already.
set_dirty_tracking == /\ tracking' = TRUE
                      /\ dirty' = IF tracking THEN dirty ELSE {}

(***************************************************************************)
(* migrate_fd_connect and the beginning of stage 1, which                  *)
(* qemu_savevm_state_begin calls.                                          *)
(***************************************************************************)
migrate_fd_connect(limit) ==
    /\ Idle /\ mstate = "active" /\ ~file
    /\ file' = TRUE
    /\ has_error' = FALSE
    /\ bf' = qemu_fopen_ops_buffered(limit)
    /\ init_blk_migration
    /\ set_dirty_tracking
    /\ excused' = {c \in Chunk : inflight[c] # NoWrite
                                   /\ ~(tracking /\ bdrv_get_dirty(c))}
    /\ EnterStage(1)
    /\ UNCHANGED <<src, inflight, writes, reads, blk_list, shared, migVars,
                   dstVars, boundVars, fault>>

\* migrate_fd_cleanup begins to close the file; the state is set at the end.
CloseWith(state) == pc' = "close" /\ outcome' = state

(***************************************************************************)
(* The handler returned 0.  In stage 1 qemu_savevm_state_begin fails on an *)
(* error and the migration with it; otherwise migrate_fd_put_ready runs    *)
(* stage 2.  In stage 2 qemu_savevm_state_iterate cancels on an error, but *)
(* migrate_fd_put_ready does not look at its result: the state is still    *)
(* active.                                                                 *)
(***************************************************************************)
HandlerReturns ==
    /\ Alive /\ pc = "return0"
    /\ IF has_error THEN blk_mig_cleanup ELSE UNCHANGED <<bmds, blk_list>>
    /\ \/ /\ stage = 1 /\ has_error
          /\ mstate' = "error"
          /\ CloseWith("error")
          /\ UNCHANGED stage
       \/ /\ stage = 1 /\ ~has_error
          /\ EnterStage(2)
          /\ UNCHANGED <<mstate, outcome>>
       \/ /\ stage = 2
          /\ pc' = "idle"
          /\ UNCHANGED <<mstate, outcome, stage>>
    /\ UNCHANGED <<diskVars, cur, submitted, read_done, reads, shared, fileVars,
                   running, dstVars, boundVars, fault, excused>>

(***************************************************************************)
(* ram_save_live.  A put of it may fail; its result does not say so, and   *)
(* qemu_savevm_state_iterate looks at the error only when another round is *)
(* needed: stage 3 may begin with an error.                                *)
(***************************************************************************)
RamPutFails ==
    /\ Alive /\ pc = "ram" /\ ~has_error /\ PutFails(bf)
    /\ has_error' = TRUE
    /\ bf' = IF bf.has_error THEN bf ELSE [Unfrozen(bf) EXCEPT !.has_error = TRUE]
    /\ UNCHANGED <<diskVars, blkVars, file, migVars, pc, stage, dstVars,
                   boundVars, fault, excused>>

\* The RAM needs another round ...
RamPending ==
    /\ Alive /\ pc = "ram"
    /\ pc' = "return0"
    /\ UNCHANGED <<diskVars, blkVars, fileVars, migVars, stage, dstVars,
                   boundVars, fault, excused>>

(***************************************************************************)
(* ... or is down to what the downtime allows: the guest is stopped,       *)
(* qemu_aio_flush completes all I/O, and stage 3 begins.  Reads that are   *)
(* in flight now were not counted by submitted, and their callbacks bring  *)
(* it below 0.  outcome keeps old_vm_running until the end.                *)
(***************************************************************************)
GuestGoesOn == UNCHANGED running                      \* mutant
StopGuest == running' = FALSE

RamConverged ==
    /\ Alive /\ pc = "ram"
    /\ StopGuest
    /\ outcome' = IF running THEN "running" ELSE "stopped"
    /\ src' = [c \in Chunk |-> IF inflight[c] = NoWrite THEN src[c]
                               ELSE inflight[c]]
    /\ inflight' = [c \in Chunk |-> NoWrite]
    /\ fault' = IF Cardinality(reads) > submitted THEN "assert"
                ELSE "none"
    /\ EnterStage(3)
    /\ UNCHANGED <<writes, tracking, dirty, blkVars, fileVars, mstate, dstVars,
                   boundVars, excused>>

(***************************************************************************)
(* The end of qemu_savevm_state_complete: without an error the end of the  *)
(* stream is put, and goes out when the file is closed.                    *)
(***************************************************************************)
qemu_savevm_state_complete ==
    /\ Alive /\ pc = "complete"
    /\ IF has_error
       THEN /\ CloseWith("error")
            /\ running' = (outcome = "running")
            /\ UNCHANGED <<has_error, bf, dstVars>>
       ELSE /\ CloseWith("completed")
            /\ Put(Eof)
            /\ UNCHANGED running
    /\ UNCHANGED <<diskVars, blkVars, file, mstate, stage, boundVars, fault,
                   excused>>

(***************************************************************************)
(* buffered_close flushes until the buffer is empty or an error occurs.    *)
(* While the socket is full it spins, or waits in select.  Then the file   *)
(* is gone and the state is set.                                           *)
(***************************************************************************)
CloseFlush ==
    /\ Alive /\ pc = "close" /\ ~bf.has_error /\ bf.buffer # << >>
    /\ bf.room > 0 \/ bf.broken
    /\ SetFile(buffered_flush(bf))
    /\ UNCHANGED <<diskVars, blkVars, file, has_error, migVars, pc, stage,
                   boundVars, fault, excused>>

CloseAtOnce == TRUE                                   \* mutant
CloseWhenEmpty == bf.buffer = << >>                   \* mutant
CloseEnds == bf.has_error \/ bf.buffer = << >>

buffered_close ==
    /\ Alive /\ pc = "close" /\ CloseEnds
    /\ file' = FALSE
    /\ mstate' = outcome
    /\ pc' = "idle"
    /\ UNCHANGED <<diskVars, blkVars, has_error, bf, running, outcome, stage,
                   dstVars, boundVars, fault, excused>>

\* The timer, which an error of the buffered file stops for good.
Tick ==
    /\ Idle /\ file /\ ~bf.has_error /\ ~bf.freeze_output
    /\ SetFile(buffered_rate_tick(bf))
    /\ EnterStage(2)
    /\ UNCHANGED <<diskVars, blkVars, file, has_error, migVars, boundVars, fault,
                   excused>>

\* The socket is writable again.
migrate_fd_put_notify ==
    /\ Idle /\ file /\ bf.freeze_output /\ (bf.room > 0 \/ bf.broken)
    /\ SetFile(put_notify(bf))
    /\ UNCHANGED <<diskVars, blkVars, file, has_error, migVars, pc, stage,
                   boundVars, fault, excused>>

\* The user's commands.
migrate_fd_cancel ==
    /\ Idle /\ mstate = "active"
    /\ mstate' = "cancelled"
    /\ blk_mig_cleanup
    /\ IF file THEN CloseWith("cancelled") ELSE UNCHANGED <<pc, outcome>>
    /\ UNCHANGED <<diskVars, cur, submitted, read_done, reads, shared, fileVars,
                   running, stage, dstVars, boundVars, fault, excused>>

do_migrate_set_speed(limit) ==
    /\ Idle /\ file
    /\ bf' = buffered_set_rate_limit(bf, limit)
    /\ UNCHANGED <<diskVars, blkVars, file, has_error, migVars, pc, stage,
                   dstVars, boundVars, fault, excused>>
-----------------------------------------------------------------------------
Init ==
    /\ src = [c \in Chunk |-> IF c \in Allocated THEN 1 ELSE 0]
    /\ inflight = [c \in Chunk |-> NoWrite]
    /\ writes = 0 /\ tracking = FALSE /\ dirty = {}
    /\ bmds = FALSE /\ cur = 0 /\ submitted = 0 /\ read_done = 0
    /\ reads = {} /\ blk_list = << >> /\ shared = FALSE
    /\ mstate = "none" /\ file = FALSE /\ has_error = FALSE
    /\ bf = qemu_fopen_ops_buffered(1)
    /\ running = TRUE /\ outcome = "none"
    /\ pc = "idle" /\ stage = 1
    /\ dst = [c \in Chunk |-> Blank] /\ eof = FALSE
    /\ starts = 0 /\ errors = 0 /\ fault = "none" /\ excused = {}

Host == \/ \E c \in Chunk : WriteDone(c)
        \/ \E b \in reads : ReadDone(b)

BlockSaveLive ==
    \/ flush_blks \/ FlushFails \/ FlushToBulk \/ FlushToEnd
    \/ mig_save_device_bulk \/ BulkSkipsRest \/ BulkReadFails \/ BulkStops
    \/ blk_mig_save_dirty_blocks \/ DirtyReadFails \/ DirtyEnds

Next ==
    \/ \E c \in Chunk : GuestWrite(c)
    \/ Host
    \/ \E b \in reads : blk_mig_read_cb(b)
    \/ Drain \/ Break
    \/ BlockSaveLive
    \/ \E inc \in BOOLEAN : do_migrate(inc)
    \/ ConnectFails
    \/ \E limit \in Rates : migrate_fd_connect(limit)
    \/ HandlerReturns \/ RamPutFails \/ RamPending \/ RamConverged
    \/ qemu_savevm_state_complete \/ CloseFlush \/ buffered_close
    \/ Tick \/ migrate_fd_put_notify \/ migrate_fd_cancel
    \/ \E limit \in Rates : do_migrate_set_speed(limit)

Spec == Init /\ [][Next]_vars

Handler == \/ BlockSaveLive \/ HandlerReturns
           \/ RamPutFails \/ RamPending \/ RamConverged
           \/ qemu_savevm_state_complete \/ CloseFlush \/ buffered_close

Connect == ConnectFails \/ \E limit \in Rates : migrate_fd_connect(limit)

FairSpec ==
    /\ Spec
    /\ WF_vars(Handler) /\ WF_vars(Drain) /\ SF_vars(RamConverged)
    /\ SF_vars(Host) /\ SF_vars(\E b \in reads : blk_mig_read_cb(b))
    /\ WF_vars(Connect) /\ WF_vars(Tick) /\ WF_vars(migrate_fd_put_notify)
-----------------------------------------------------------------------------
(***************************************************************************)
(* Properties.                                                             *)
(***************************************************************************)
TypeOK ==
    /\ src \in [Chunk -> Version]
    /\ inflight \in [Chunk -> Version \cup {NoWrite}]
    /\ writes \in 0 .. MaxWrites
    /\ tracking \in BOOLEAN
    /\ dirty \subseteq {DirtyBit(c) : c \in Chunk}
    /\ bmds \in BOOLEAN /\ cur \in 0 .. NChunks
    /\ submitted \in Int /\ read_done \in Int
    /\ reads \subseteq Block
    /\ blk_list \in Seq(Block)
    /\ shared \in BOOLEAN
    /\ mstate \in {"none", "active", "completed", "error", "cancelled"}
    /\ file \in BOOLEAN /\ has_error \in BOOLEAN
    /\ bf \in QEMUFileBuffered(Msg)
    /\ running \in BOOLEAN
    /\ outcome \in {"none", "running", "stopped", "completed", "error",
                    "cancelled"}
    /\ pc \in {"idle", "flush1", "bulk", "flush2", "dirty", "ram", "return0",
               "complete", "close"}
    /\ stage \in 1 .. 3
    /\ dst \in [Chunk -> Version \cup {Blank}]
    /\ eof \in BOOLEAN
    /\ starts \in 0 .. MaxStarts /\ errors \in 0 .. MaxErrors
    /\ fault \in {"none", "assert", "freed"}
    /\ excused \subseteq Chunk

(***************************************************************************)
(* When the destination has loaded the end of the stream its disks are     *)
(* those of the source, chunk by chunk: bulk phase, dirty phase, buffer,   *)
(* rate limit and connection together lose and reorder nothing, except for *)
(* the chunks in excused and the partial chunk at the end of a disk, which *)
(* block_load cannot write.                                                *)
(***************************************************************************)
CopyComplete ==
    eof => \A c \in Chunk : dst[c] = src[c] \/ c \in excused \cup PartialChunks

\* The contents of chunk c the destination will have last, as things stand:
\* those being read, or of the last block on blk_list that can still be sent,
\* or of the last message in the buffer, or what it has.
NewestCopy(c) ==
    LET R == {b \in reads : b.chunk = c /\ Live(b)}
        L == {i \in DOMAIN blk_list :
                 pc # "dirty" /\ Live(blk_list[i]) /\ blk_list[i].chunk = c}
        B == {i \in DOMAIN bf.buffer :
                 bf.buffer[i] # Eof /\ bf.buffer[i].chunk = c}
        Last(I) == CHOOSE i \in I : \A j \in I : j <= i
    IN  IF R # {} THEN {b.data : b \in R}
        ELSE IF L # {} THEN {blk_list[Last(L)].data}
        ELSE IF B # {} THEN {bf.buffer[Last(B)].data}
        ELSE {dst[c]}

(***************************************************************************)
(* At every moment of a migration without errors, a chunk the bulk phase   *)
(* has passed is either marked dirty or its newest contents are on their   *)
(* way: being read, on blk_list, in the output buffer or at the            *)
(* destination, with nothing older behind them.  This is why stage 3 needs *)
(* to look at the dirty bitmap only.                                       *)
(***************************************************************************)
NothingForgotten ==
    bmds /\ Alive /\ ~has_error /\ ~bf.has_error =>
        \A c \in 0 .. (cur - 1) :
            \/ bdrv_get_dirty(c)
            \/ c \in excused \cup PartialChunks
            \/ NewestCopy(c) \subseteq {src[c], Unread, Failed}

\* No block of an earlier migration is left.
NoStaleBlocks == /\ \A b \in reads : Live(b)
                 /\ \A i \in DOMAIN blk_list : Live(blk_list[i])

(***************************************************************************)
(* submitted and read_done count the reads in flight and the blocks that   *)
(* wait to be sent, as the fields' users assume, unless a block of an      *)
(* earlier migration is still about.                                       *)
(***************************************************************************)
CountersExact ==
    bmds /\ NoStaleBlocks =>
        submitted = Cardinality(reads) /\ read_done = Len(blk_list)

(***************************************************************************)
(* Once the destination can start the guest the source does not run it:    *)
(* the end of the stream goes out only after vm_stop, and a migration that *)
(* fails and starts the guest again has not given the destination an end   *)
(* of the stream that it loads.                                            *)
(***************************************************************************)
OneGuest == eof => ~running

(***************************************************************************)
(* A migration that reports success has delivered the end of the stream,   *)
(* although it is put into a buffer that may be full or rate-limited, or   *)
(* the connection broke during the last flush.                             *)
(***************************************************************************)
GuestNotLost == mstate = "completed" => eof \/ bf.broken

(***************************************************************************)
(* The first migration trips over no assertion of block-migration.c and    *)
(* touches no device state that has been freed, whatever the connection,   *)
(* the rate limit and the user do, as long as the disk can be read.        *)
(***************************************************************************)
HealthyRunIsSound == errors = 0 /\ starts = 1 => fault = "none"

(***************************************************************************)
(* The assertions of blk_mig_read_cb and flush_blks on their counters.     *)
(***************************************************************************)
AssertionsHold == fault # "assert"

(***************************************************************************)
(* A migration with "full copy of disk" leaves the destination with the    *)
(* whole disk of the source.                                               *)
(***************************************************************************)
FullCopy == eof /\ ~shared => \A c \in Chunk : dst[c] = src[c]

(***************************************************************************)
(* A migration ends: it completes, fails or is cancelled, however low the  *)
(* rate limit and however often the socket is full; unless the disk or the *)
(* connection has failed, which leaves it active until it is cancelled, or *)
(* the limit is 0 for good or again and again: with it block_save_live     *)
(* submits no block.                                                       *)
(***************************************************************************)
Stalled == file /\ (has_error \/ bf.has_error)

MigrationEnds ==
    <>[](bf.xfer_limit > 0) =>
        ((mstate = "active") ~> (mstate # "active" \/ Stalled \/ ~Alive))

(***************************************************************************)
(* A handler of the main loop comes to its end, although buffered_close    *)
(* waits for a socket that is full and may break; and one that has entered *)
(* the final stage, for which the guest is stopped, ends with the          *)
(* migration completed or failed, not active.                              *)
(***************************************************************************)
HandlersEnd ==
    (pc # "idle") ~> ((pc = "idle" /\ (stage = 3 => mstate # "active")) \/ ~Alive)
=============================================================================
