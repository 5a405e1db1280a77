---------------------------- MODULE BufferedFile ----------------------------
(***************************************************************************)
(* The output side of a migration: QEMUFileBuffered (buffered_file.c) over *)
(* a non-blocking socket or pipe.  What is put is written to the socket at *)
(* once when it can be, and kept in a buffer otherwise: because the socket *)
(* is full (freeze_output) or because the rate limit is used up.           *)
(*                                                                         *)
(* A file is a record, the operations are functions on it, and the unit of *)
(* data is a message: what the caller puts in one piece.  The fields       *)
(* buffer, freeze_output, has_error and bytes_xfer are those of            *)
(* QEMUFileBuffered.  The socket is external: room is the number of        *)
(* messages it takes before it answers EAGAIN, broken that every further   *)
(* write fails (a connection that failed stays failed), and out collects   *)
(* what it accepted during an operation.                                   *)
(*                                                                         *)
(* Limits.  bytes_xfer and xfer_limit are in bytes, as in the code.  Every *)
(* message counts as a block of BLOCK_SIZE with the header blk_send puts   *)
(* before it; nothing depends on the count after the end of the stream.    *)
(***************************************************************************)
EXTENDS Naturals, Sequences

CONSTANTS
    MaxRoom,      \* messages the socket holds while the peer does not read
    BLOCK_SIZE,   \* bytes of a block of the disk
    HeaderSize    \* bytes of the header of a block

ASSUME MaxRoomAssumption == MaxRoom \in Nat \ {0}
ASSUME SizeAssumption == BLOCK_SIZE \in Nat \ {0} /\ HeaderSize \in Nat

(***************************************************************************)
(* The files that carry messages of the set Msg.                           *)
(***************************************************************************)
QEMUFileBuffered(Msg) ==
    [buffer : Seq(Msg), freeze_output : BOOLEAN, has_error : BOOLEAN,
     bytes_xfer : Nat, xfer_limit : Nat, room : 0 .. MaxRoom,
     broken : BOOLEAN, out : Seq(Msg)]

qemu_fopen_ops_buffered(limit) ==
    [buffer |-> << >>, freeze_output |-> FALSE, has_error |-> FALSE,
     bytes_xfer |-> 0, xfer_limit |-> limit, room |-> MaxRoom,
     broken |-> FALSE, out |-> << >>]

(***************************************************************************)
(* buffered_flush writes the buffer until it is empty, the socket is full  *)
(* (freeze_output) or fails (has_error).  It does not count against the    *)
(* rate limit.                                                             *)
(***************************************************************************)
Flushed(b) == IF Len(b.buffer) <= b.room THEN Len(b.buffer) ELSE b.room

buffered_flush(b) ==
    IF b.has_error \/ b.buffer = << >> THEN b
    ELSE IF b.broken THEN [b EXCEPT !.has_error = TRUE]
    ELSE [b EXCEPT !.buffer = SubSeq(@, Flushed(b) + 1, Len(@)),
                   !.freeze_output = @ \/ Flushed(b) < Len(b.buffer),
                   !.room = @ - Flushed(b),
                   !.out = @ \o SubSeq(b.buffer, 1, Flushed(b))]

(***************************************************************************)
(* buffered_put_buffer: unfreeze, flush, then write the message itself if  *)
(* neither the socket nor the rate limit stops it.  The loop does not look *)
(* at has_error again after the flush: it calls the socket once more.      *)
(***************************************************************************)
UnfrozenNever(b) == buffered_flush(b)                 \* mutant
UnfrozenOnly(b) == [b EXCEPT !.freeze_output = FALSE] \* mutant
Unfrozen(b) == buffered_flush([b EXCEPT !.freeze_output = FALSE])

LimitReached(b) == b.bytes_xfer > b.xfer_limit

\* The socket answers EAGAIN.
SocketFull(b) == b.room = 0

buffered_append(b, m) == [b EXCEPT !.buffer = Append(@, m)]

buffered_put_buffer(b, m) ==
    LET f == Unfrozen(b) IN
    IF b.has_error THEN b
    ELSE IF f.freeze_output \/ LimitReached(f) THEN buffered_append(f, m)
    ELSE IF f.broken THEN [f EXCEPT !.has_error = TRUE]
    ELSE IF SocketFull(f)
         THEN buffered_append([f EXCEPT !.freeze_output = TRUE], m)
    ELSE [f EXCEPT !.out = Append(@, m), !.room = @ - 1,
                   !.bytes_xfer = @ + BLOCK_SIZE + HeaderSize]

\* The call returns -EINVAL: the caller sets the error flag of the QEMUFile.
PutFails(b) ==
    LET f == Unfrozen(b) IN
    \/ b.has_error
    \/ ~f.freeze_output /\ ~LimitReached(f) /\ f.broken

(***************************************************************************)
(* qemu_file_put_notify, called when the socket is writable again: a put   *)
(* of nothing.                                                             *)
(***************************************************************************)
put_notify(b) == IF b.has_error THEN b ELSE Unfrozen(b)

buffered_rate_limit(b) ==
    ~b.has_error /\ (b.freeze_output \/ LimitReached(b))

buffered_set_rate_limit(b, limit) ==
    IF b.has_error THEN b ELSE [b EXCEPT !.xfer_limit = limit]

\* The part of buffered_rate_tick before it calls put_ready.
buffered_rate_tick(b) == buffered_flush([b EXCEPT !.bytes_xfer = 0])

\* What the peer read makes room again.
Drained(b) == [b EXCEPT !.room = MaxRoom]
=============================================================================
