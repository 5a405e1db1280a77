------------------------ MODULE BlockMigrationProofs ------------------------
(***************************************************************************)
(* Proofs about BlockMigration, for every number of chunks, guest writes,  *)
(* failing reads and migrations, every set of rate limits and every size   *)
(* of the socket's buffer:                                                 *)
(*                                                                         *)
(*   TypeCorrect       the type invariant;                                 *)
(*   OneGuestCorrect   source and destination never both run the guest;    *)
(*   NotLostCorrect    a completed migration has delivered its end;        *)
(*   CountersCorrect   submitted and read_done are exact;                  *)
(*   HealthyCorrect    the first migration of a disk that can be read      *)
(*                     trips over no assertion and no freed device.        *)
(*                                                                         *)
(* None of them is inductive.  MigInv is: the type invariant and, one      *)
(* conjunct per idea, what the handlers rely on without saying so.         *)
(***************************************************************************)
EXTENDS BlockMigration, TLAPS, FiniteSetTheorems, SequenceTheorems,
        WellFoundedInduction

Holds(s, m) == \E i \in DOMAIN s : s[i] = m

-----------------------------------------------------------------------------
(* The inductive invariant.                                                *)

\* The buffered file: nothing is left in out between two steps, and it only
\* has an error when the connection is broken.
FileSound ==
    /\ bf.out = << >>
    /\ bf.has_error => bf.broken

\* A handler runs only while the file is open, and the file is open only
\* while a migration is active or being wound up; the devices are there only
\* in between, and go away early only after an error, on which the handlers
\* turn back at once.
Control ==
    /\ pc # "idle" => file
    /\ file => starts > 0
    /\ file /\ pc # "close" => mstate = "active"
    /\ mstate = "active" => starts > 0
    /\ pc = "close" => /\ outcome \in {"completed", "error", "cancelled"}
                       /\ mstate \in {"active", "error", "cancelled"}
    /\ pc \in {"dirty", "complete"} => stage = 3
    /\ pc = "ram" => submitted <= 0
    /\ bmds => file /\ pc \notin {"complete", "close"}
    /\ file /\ pc \notin {"complete", "close"} => bmds \/ has_error
    /\ pc \in {"bulk", "flush2", "dirty", "ram"} => bmds

\* In stage 3 the guest stands still.  The end of the stream is put at the
\* very end, is either in the buffer, delivered or lost with the connection,
\* and nobody starts the guest after that.
EndOfStream ==
    /\ stage = 3 /\ pc \in {"flush1", "bulk", "flush2", "dirty", "complete"} => ~running
    /\ mstate = "active" /\ pc # "close" => ~eof
    /\ file /\ pc # "close" => ~Holds(bf.buffer, Eof)
    /\ eof => ~running
    /\ pc = "close" /\ Holds(bf.buffer, Eof) => ~running
    /\ pc = "close" /\ outcome = "completed" =>
          eof \/ Holds(bf.buffer, Eof) \/ bf.broken
    /\ mstate = "completed" => eof \/ bf.broken

\* Blocks: a chunk is read once in a migration, and blocks of the migration
\* that is being started do not exist yet.
Blocks ==
    /\ IsFiniteSet(reads)
    /\ \A b \in reads : b.gen <= starts
    /\ \A i \in DOMAIN blk_list : blk_list[i].gen <= starts /\ blk_list[i].data # Unread
    /\ \A b, d \in reads : b.gen = d.gen /\ b.chunk = d.chunk => b = d
    /\ bmds => \A b \in reads : b.gen = starts => b.chunk < cur
    /\ mstate = "active" /\ ~file =>
          /\ \A b \in reads : b.gen < starts
          /\ \A i \in DOMAIN blk_list : blk_list[i].gen < starts

\* Until a read has failed, and in the first migration: the counters never
\* fall behind, an error is one of the connection, and the handlers find the
\* devices.
Healthy ==
    starts <= 1 /\ errors = 0 =>
        /\ fault = "none"
        /\ \A b \in reads : b.data # Failed
        /\ \A i \in DOMAIN blk_list : blk_list[i].data # Failed
        /\ Cardinality(reads) <= submitted
        /\ Len(blk_list) <= read_done
        /\ pc \in {"flush1", "bulk", "flush2", "dirty", "ram"} => bmds
        /\ has_error /\ file /\ pc \notin {"complete", "close"} => bf.has_error

MigInv == TypeOK /\ FileSound /\ Control /\ EndOfStream /\ Blocks
             /\ CountersExact /\ Healthy

-----------------------------------------------------------------------------
(* The buffered file.  Nothing it is given gets lost or changes places, as  *)
(* long as it has no error.                                                 *)

\* A file reads b with message sequence s on its way: what the socket has
\* taken in this operation, then what waits.
Pending(b) == b.out \o b.buffer

LEMMA FileRecord ==
    ASSUME NEW M, NEW u \in Seq(M), NEW fr \in BOOLEAN, NEW he \in BOOLEAN,
           NEW x \in Nat, NEW l \in Nat, NEW r \in 0 .. MaxRoom,
           NEW br \in BOOLEAN, NEW o \in Seq(M)
    PROVE  [buffer |-> u, freeze_output |-> fr, has_error |-> he,
            bytes_xfer |-> x, xfer_limit |-> l, room |-> r, broken |-> br,
            out |-> o] \in QEMUFileBuffered(M)
  BY DEF QEMUFileBuffered

LEMMA FlushedBounds ==
    ASSUME NEW M, NEW b \in QEMUFileBuffered(M)
    PROVE  Flushed(b) \in Nat /\ Flushed(b) <= Len(b.buffer) /\ Flushed(b) <= b.room
  BY MaxRoomAssumption DEF Flushed, QEMUFileBuffered

LEMMA FlushCorrect ==
    ASSUME NEW M, NEW b \in QEMUFileBuffered(M)
    PROVE  /\ buffered_flush(b) \in QEMUFileBuffered(M)
           /\ Pending(buffered_flush(b)) = Pending(b)
           /\ buffered_flush(b).broken = b.broken
           /\ buffered_flush(b).xfer_limit = b.xfer_limit
           /\ b.has_error => buffered_flush(b).has_error
           /\ buffered_flush(b).has_error => b.has_error \/ b.broken
  <1> DEFINE n == Flushed(b)
             f == buffered_flush(b)
             first == SubSeq(b.buffer, 1, n)
             rest == SubSeq(b.buffer, n + 1, Len(b.buffer))
  <1>1. n \in Nat /\ n <= Len(b.buffer) /\ n <= b.room
    BY FlushedBounds
  <1>2. CASE b.has_error \/ b.buffer = << >>
    BY <1>2 DEF buffered_flush
  <1>3. CASE ~(b.has_error \/ b.buffer = << >>) /\ b.broken
    <2>1. f = [b EXCEPT !.has_error = TRUE]
      BY <1>3 DEF buffered_flush
    <2> QED
      BY <1>3, <2>1 DEF QEMUFileBuffered, Pending
  <1>4. CASE ~(b.has_error \/ b.buffer = << >>) /\ ~b.broken
    <2> DEFINE frozen == b.freeze_output \/ n < Len(b.buffer)
    <2>1. f = [b EXCEPT !.buffer = rest,
                        !.freeze_output = frozen,
                        !.room = @ - n,
                        !.out = @ \o first]
      BY <1>4 DEF buffered_flush
    <2>2. /\ b.buffer \in Seq(M) /\ b.out \in Seq(M) /\ b.room \in 0 .. MaxRoom
          /\ b.freeze_output \in BOOLEAN
      BY DEF QEMUFileBuffered
    <2>3. first \in Seq(M) /\ rest \in Seq(M) /\ first \o rest = b.buffer
      <3>1. \A i \in 1 .. Len(b.buffer) : b.buffer[i] \in M
        BY <2>2, ElementOfSeq
      <3>2. first \in Seq(M)
        BY <1>1, <2>2, <3>1, SubSeqProperties
      <3>3. rest \in Seq(M)
        BY <1>1, <2>2, <3>1, SubSeqProperties
      <3>4. first \o rest = SubSeq(b.buffer, 1, Len(b.buffer))
        <4>1. Len(b.buffer) \in Nat
          BY <2>2, LenProperties
        <4>2. /\ 1 \in 1 .. Len(b.buffer) + 1 /\ n \in 1 - 1 .. Len(b.buffer)
              /\ Len(b.buffer) \in n .. Len(b.buffer)
          BY <1>1, <4>1
        <4> QED
          BY <2>2, <4>2, ConcatAdjacentSubSeq
      <3> QED
        BY <2>2, <3>2, <3>3, <3>4, SubSeqFull
    <2>0. frozen \in BOOLEAN
      OBVIOUS
    <2> HIDE DEF first, rest, frozen
    <2>4. b.out \o first \in Seq(M)
      BY <2>2, <2>3, ConcatProperties
    <2>5. b.room - n \in 0 .. MaxRoom
      BY <1>1, <2>2, MaxRoomAssumption
    <2>6. f \in QEMUFileBuffered(M)
      <3>1. f = [buffer |-> rest, freeze_output |-> frozen,
                 has_error |-> b.has_error, bytes_xfer |-> b.bytes_xfer,
                 xfer_limit |-> b.xfer_limit, room |-> b.room - n,
                 broken |-> b.broken, out |-> b.out \o first]
        BY <2>1 DEF QEMUFileBuffered
      <3>2. /\ b.has_error \in BOOLEAN /\ b.bytes_xfer \in Nat
            /\ b.xfer_limit \in Nat /\ b.broken \in BOOLEAN
        BY DEF QEMUFileBuffered
      <3> HIDE DEF f, n
      <3> QED
        BY <3>1, <3>2, <2>0, <2>3, <2>4, <2>5, FileRecord, Zenon
    <2>7. (b.out \o first) \o rest = b.out \o b.buffer
      <3>0. \A o, p, q \in Seq(M) : (o \o p) \o q = o \o (p \o q)
        BY ConcatAssociative
      <3>1. (b.out \o first) \o rest = b.out \o (first \o rest)
        BY <2>2, <2>3, <3>0, Zenon
      <3> QED
        BY <2>3, <3>1
    <2>8. f.out = b.out \o first /\ f.buffer = rest
      BY <2>1 DEF QEMUFileBuffered
    <2>9. f.broken = b.broken /\ f.has_error = b.has_error /\ f.xfer_limit = b.xfer_limit
      BY <2>1 DEF QEMUFileBuffered
    <2> QED
      BY <1>4, <2>6, <2>7, <2>8, <2>9 DEF Pending
  <1> QED
    BY <1>2, <1>3, <1>4

\* Unless the socket is full or fails, a flush leaves nothing behind.
LEMMA FlushEmpties ==
    ASSUME NEW M, NEW b \in QEMUFileBuffered(M), ~b.has_error, ~b.broken,
           ~buffered_flush(b).freeze_output
    PROVE  buffered_flush(b).buffer = << >>
  <1> DEFINE n == Flushed(b)
  <1>1. n \in Nat /\ n <= Len(b.buffer) /\ b.buffer \in Seq(M) /\ Len(b.buffer) \in Nat
    BY FlushedBounds DEF QEMUFileBuffered
  <1>2. CASE b.buffer = << >>
    BY <1>2 DEF buffered_flush
  <1>3. CASE b.buffer # << >>
    <2>1. /\ buffered_flush(b).buffer = SubSeq(b.buffer, n + 1, Len(b.buffer))
          /\ buffered_flush(b).freeze_output
                = (b.freeze_output \/ n < Len(b.buffer))
      BY <1>3 DEF buffered_flush, QEMUFileBuffered
    <2>2. ~(n < Len(b.buffer))
      BY <2>1
    <2> HIDE DEF n
    <2> QED
      BY <1>1, <2>1, <2>2, SubSeqEmpty
  <1> QED
    BY <1>2, <1>3

LEMMA UnfreezeCorrect ==
    ASSUME NEW M, NEW b \in QEMUFileBuffered(M)
    PROVE  /\ Unfrozen(b) \in QEMUFileBuffered(M)
           /\ Pending(Unfrozen(b)) = Pending(b)
           /\ Unfrozen(b).broken = b.broken
           /\ b.has_error => Unfrozen(b).has_error
           /\ Unfrozen(b).has_error => b.has_error \/ b.broken
           /\ ~b.has_error /\ ~b.broken /\ ~Unfrozen(b).freeze_output
                 => Unfrozen(b).buffer = << >>
  <1> DEFINE u == [b EXCEPT !.freeze_output = FALSE]
  <1>1. /\ u \in QEMUFileBuffered(M) /\ u.out = b.out /\ u.buffer = b.buffer
        /\ u.broken = b.broken /\ u.has_error = b.has_error
    BY DEF QEMUFileBuffered
  <1>2. Unfrozen(b) = buffered_flush(u)
    BY DEF Unfrozen
  <1>3. Pending(u) = Pending(b)
    BY <1>1 DEF Pending
  <1> HIDE DEF u
  <1> DEFINE f == buffered_flush(u)
  <1>4. /\ f \in QEMUFileBuffered(M) /\ Pending(f) = Pending(u)
        /\ f.broken = u.broken /\ (u.has_error => f.has_error)
        /\ (f.has_error => u.has_error \/ u.broken)
    BY <1>1, FlushCorrect
  <1>5. ~u.has_error /\ ~u.broken /\ ~f.freeze_output => f.buffer = << >>
    BY <1>1, FlushEmpties
  <1> HIDE DEF f
  <1>6. Unfrozen(b) = f
    BY <1>2 DEF f
  <1> QED
    BY <1>1, <1>3, <1>4, <1>5, <1>6

LEMMA AppendConcat ==
    ASSUME NEW M, NEW o \in Seq(M), NEW u \in Seq(M), NEW m \in M
    PROVE  /\ o \o Append(u, m) = Append(o \o u, m)
           /\ Append(o, m) \o << >> = Append(o \o << >>, m)
  <1>1. Append(u, m) = u \o <<m>> /\ Append(o \o u, m) = (o \o u) \o <<m>>
    BY ConcatProperties, AppendIsConcat
  <1>2. <<m>> \in Seq(M)
    OBVIOUS
  <1>3. (o \o u) \o <<m>> = o \o (u \o <<m>>)
    BY <1>2, ConcatAssociative
  <1>4. o \o << >> = o /\ Append(o, m) \o << >> = Append(o, m)
    BY AppendProperties, ConcatEmptySeq
  <1> QED
    BY <1>1, <1>3, <1>4

\* qemu_put_buffer keeps the order: the message comes after all that is
\* pending, although the buffer may have been flushed just before.
LEMMA PutCorrect ==
    ASSUME NEW M, NEW b \in QEMUFileBuffered(M), NEW m \in M
    PROVE  LET r == buffered_put_buffer(b, m) IN
           /\ r \in QEMUFileBuffered(M)
           /\ Pending(r) = Pending(b) \/ Pending(r) = Append(Pending(b), m)
           /\ ~r.has_error \/ ~PutFails(b) => Pending(r) = Append(Pending(b), m)
           /\ r.broken = b.broken
           /\ r.has_error => b.has_error \/ b.broken
           /\ b.has_error \/ PutFails(b) => r.has_error
  <1> DEFINE r == buffered_put_buffer(b, m)
             f == Unfrozen(b)
  <1>1. /\ f \in QEMUFileBuffered(M) /\ Pending(f) = Pending(b)
        /\ f.broken = b.broken
        /\ f.has_error => b.has_error \/ b.broken
        /\ ~b.has_error /\ ~b.broken /\ ~f.freeze_output => f.buffer = << >>
    BY UnfreezeCorrect
  <1>2. CASE b.has_error
    BY <1>2 DEF buffered_put_buffer, PutFails
  <1>3. CASE ~b.has_error
    <2> HIDE DEF f
    <2>1. f.out \in Seq(M) /\ f.buffer \in Seq(M)
      BY <1>1 DEF QEMUFileBuffered
    <2>2. /\ f.out \o Append(f.buffer, m) = Append(Pending(b), m)
          /\ Append(f.buffer, m) \in Seq(M) /\ Append(f.out, m) \in Seq(M)
      <3>1. \A o, u \in Seq(M) : /\ o \o Append(u, m) = Append(o \o u, m)
                                 /\ Append(u, m) \in Seq(M)
        BY AppendConcat, AppendProperties
      <3>2. f.out \o f.buffer = Pending(b)
        BY <1>1 DEF Pending
      <3> QED
        BY <2>1, <3>1, <3>2, Zenon
    <2>3. CASE f.freeze_output \/ LimitReached(f)
      <3>1. r = [f EXCEPT !.buffer = Append(f.buffer, m)] /\ ~PutFails(b)
        BY <1>3, <2>3 DEF buffered_put_buffer, buffered_append, f, PutFails
      <3>2. r \in QEMUFileBuffered(M)
        BY <1>1, <2>2, <3>1 DEF QEMUFileBuffered
      <3>3. /\ r.out = f.out /\ r.buffer = Append(f.buffer, m)
            /\ r.broken = f.broken /\ r.has_error = f.has_error
        BY <1>1, <3>1 DEF QEMUFileBuffered
      <3> QED
        BY <1>1, <1>3, <2>2, <3>1, <3>2, <3>3 DEF Pending
    <2>4. CASE ~(f.freeze_output \/ LimitReached(f)) /\ f.broken
      <3>1. r = [f EXCEPT !.has_error = TRUE] /\ PutFails(b)
        BY <1>3, <2>4 DEF buffered_put_buffer, f, PutFails
      <3>2. /\ r \in QEMUFileBuffered(M) /\ r.out = f.out /\ r.buffer = f.buffer
            /\ r.broken = f.broken /\ r.has_error
        BY <1>1, <3>1 DEF QEMUFileBuffered
      <3> QED
        BY <1>1, <2>4, <3>1, <3>2 DEF Pending
    <2>5. CASE ~(f.freeze_output \/ LimitReached(f)) /\ ~f.broken
      <3>1. ~PutFails(b) /\ f.buffer = << >> /\ ~f.has_error
        BY <1>1, <1>3, <2>5 DEF PutFails, f
      <3>2. CASE SocketFull(f)
        <4>1. r = [[f EXCEPT !.freeze_output = TRUE]
                      EXCEPT !.buffer = Append(f.buffer, m)]
          BY <1>1, <1>3, <2>5, <3>2
          DEF buffered_put_buffer, buffered_append, f, QEMUFileBuffered
        <4>2. r \in QEMUFileBuffered(M)
          BY <1>1, <2>2, <4>1 DEF QEMUFileBuffered
        <4>3. /\ r.out = f.out /\ r.buffer = Append(f.buffer, m)
              /\ r.broken = f.broken /\ r.has_error = f.has_error
          BY <1>1, <4>1 DEF QEMUFileBuffered
        <4> QED
          BY <1>1, <1>3, <2>2, <3>1, <4>2, <4>3 DEF Pending
      <3>3. CASE ~SocketFull(f)
        <4>1. r = [f EXCEPT !.out = Append(f.out, m), !.room = f.room - 1,
                            !.bytes_xfer = f.bytes_xfer + BLOCK_SIZE + HeaderSize]
          BY <1>3, <2>5, <3>3 DEF buffered_put_buffer, f
        <4>2. /\ f.room - 1 \in 0 .. MaxRoom
              /\ f.bytes_xfer + BLOCK_SIZE + HeaderSize \in Nat
          BY <1>1, <3>3, MaxRoomAssumption, SizeAssumption DEF SocketFull, QEMUFileBuffered
        <4>3. r \in QEMUFileBuffered(M)
          BY <1>1, <2>2, <4>1, <4>2 DEF QEMUFileBuffered
        <4>4. /\ r.out = Append(f.out, m) /\ r.buffer = f.buffer
              /\ r.broken = f.broken /\ r.has_error = f.has_error
          BY <1>1, <4>1 DEF QEMUFileBuffered
        <4>5. Pending(r) = Append(Pending(b), m)
          <5>1. \A o \in Seq(M) : Append(o, m) \o << >> = Append(o \o << >>, m)
            BY AppendConcat
          <5>2. Pending(b) = f.out \o << >> /\ Pending(r) = Append(f.out, m) \o << >>
            BY <1>1, <3>1, <4>4 DEF Pending
          <5> QED
            BY <2>1, <5>1, <5>2, Zenon
        <4> QED
          BY <1>1, <1>3, <3>1, <4>3, <4>4, <4>5
      <3> QED
        BY <3>2, <3>3
    <2> QED
      BY <2>3, <2>4, <2>5
  <1> QED
    BY <1>2, <1>3

-----------------------------------------------------------------------------
(* What the destination loads.                                             *)

LEMMA HoldsConcat ==
    ASSUME NEW M, NEW s \in Seq(M), NEW u \in Seq(M), NEW m
    PROVE  Holds(s \o u, m) <=> Holds(s, m) \/ Holds(u, m)
  <1>1. /\ s \o u \in Seq(M) /\ Len(s \o u) = Len(s) + Len(u)
        /\ \A i \in 1 .. Len(s) + Len(u) :
              (s \o u)[i] = IF i <= Len(s) THEN s[i] ELSE u[i - Len(s)]
    BY ConcatProperties
  <1>2. /\ Len(s) \in Nat /\ Len(u) \in Nat
        /\ DOMAIN s = 1 .. Len(s) /\ DOMAIN u = 1 .. Len(u)
        /\ DOMAIN (s \o u) = 1 .. Len(s) + Len(u)
    BY <1>1, LenProperties
  <1>3. ASSUME Holds(s \o u, m)
        PROVE  Holds(s, m) \/ Holds(u, m)
    <2>1. PICK i \in 1 .. Len(s) + Len(u) : (s \o u)[i] = m
      BY <1>2, <1>3 DEF Holds
    <2>2. CASE i <= Len(s)
      <3>1. i \in DOMAIN s /\ s[i] = m
        BY <1>1, <1>2, <2>1, <2>2
      <3> QED
        BY <3>1 DEF Holds
    <2>3. CASE ~(i <= Len(s))
      <3>1. i - Len(s) \in DOMAIN u /\ u[i - Len(s)] = m
        BY <1>1, <1>2, <2>1, <2>3
      <3> QED
        BY <3>1 DEF Holds
    <2> QED
      BY <2>2, <2>3
  <1>4. ASSUME Holds(s, m)
        PROVE  Holds(s \o u, m)
    <2>1. PICK i \in 1 .. Len(s) : s[i] = m
      BY <1>2, <1>4 DEF Holds
    <2>2. i \in 1 .. Len(s) + Len(u) /\ (s \o u)[i] = m
      BY <1>1, <1>2, <2>1
    <2> QED
      BY <1>2, <2>2 DEF Holds
  <1>5. ASSUME Holds(u, m)
        PROVE  Holds(s \o u, m)
    <2>1. PICK i \in 1 .. Len(u) : u[i] = m
      BY <1>2, <1>5 DEF Holds
    <2>2. Len(s) + i \in 1 .. Len(s) + Len(u) /\ (s \o u)[Len(s) + i] = m
      BY <1>1, <1>2, <2>1
    <2> QED
      BY <1>2, <2>2 DEF Holds
  <1> QED
    BY <1>3, <1>4, <1>5

LEMMA HoldsAppend ==
    ASSUME NEW M, NEW s \in Seq(M), NEW e \in M, NEW m
    PROVE  Holds(Append(s, e), m) <=> Holds(s, m) \/ e = m
  <1>1. <<e>> \in Seq(M) /\ Append(s, e) = s \o <<e>>
    BY AppendIsConcat
  <1>2. Holds(<<e>>, m) <=> e = m
    <2>1. DOMAIN <<e>> = {1} /\ <<e>>[1] = e
      OBVIOUS
    <2> QED
      BY <2>1 DEF Holds
  <1>3. Holds(s \o <<e>>, m) <=> Holds(s, m) \/ Holds(<<e>>, m)
    BY <1>1, HoldsConcat
  <1> QED
    BY <1>1, <1>2, <1>3

\* Induction on the naturals, in the form that needs no predicate.
LEMMA LeastNatural ==
    ASSUME NEW T \in SUBSET Nat, T # {}
    PROVE  \E n \in T : \A k \in T : n <= k
  <1>1. IsWellFoundedOn(OpToRel(<, Nat), Nat)
    BY NatLessThanWellFounded
  <1>2. PICK n \in T : \A k \in T : ~(<<k, n>> \in OpToRel(<, Nat))
    BY <1>1, WFMin
  <1>3. \A k \in T : ~(k < n)
    BY <1>2 DEF OpToRel
  <1> QED
    BY <1>3

LEMMA GreatestIndex ==
    ASSUME NEW n \in Nat, NEW T \in SUBSET (1 .. n), T # {}
    PROVE  \E i \in T : \A j \in T : j <= i
  <1> DEFINE D == {n - i : i \in T}
  <1>1. D \in SUBSET Nat /\ D # {}
    <2>1. \A i \in T : n - i \in Nat
      OBVIOUS
    <2> QED
      BY <2>1
  <1>2. PICK d \in D : \A k \in D : d <= k
    BY <1>1, LeastNatural
  <1>3. PICK i \in T : d = n - i
    BY <1>2
  <1>4. \A j \in T : n - i <= n - j
    BY <1>2, <1>3
  <1>5. ASSUME NEW j \in T
        PROVE  j <= i
    <2>1. i \in 1 .. n /\ j \in 1 .. n /\ n - i <= n - j
      BY <1>4
    <2> QED
      BY <2>1
  <1> QED
    BY <1>5

LEMMA LoadCorrect ==
    ASSUME TypeOK, NEW msgs \in Seq(Msg), block_load(msgs)
    PROVE  /\ dst' \in [Chunk -> Version \cup {Blank}]
           /\ eof' \in BOOLEAN
           /\ eof' <=> eof \/ Holds(msgs, Eof)
  <1>1. Len(msgs) \in Nat /\ DOMAIN msgs = 1 .. Len(msgs)
    BY LenProperties
  <1> DEFINE Of(c) == {i \in 1 .. Len(msgs) : msgs[i] # Eof /\ msgs[i].chunk = c}
             Last(c) == CHOOSE i \in Of(c) : \A j \in Of(c) : j <= i
  <1>2. dst' = [c \in Chunk |-> IF Of(c) = {} \/ c \in PartialChunks
                                THEN dst[c] ELSE msgs[Last(c)].data]
    BY DEF block_load
  <1>3. ASSUME NEW c \in Chunk, Of(c) # {}
        PROVE  msgs[Last(c)].data \in Version
    <2>1. Of(c) \in SUBSET (1 .. Len(msgs))
      OBVIOUS
    <2>2. \E i \in Of(c) : \A j \in Of(c) : j <= i
      <3> HIDE DEF Of
      <3> QED
        BY <1>1, <1>3, <2>1, GreatestIndex
    <2>3. Last(c) \in Of(c)
      <3> HIDE DEF Of
      <3> QED
        BY <2>2 DEF Last
    <2> HIDE DEF Last
    <2>4. Last(c) \in 1 .. Len(msgs) /\ msgs[Last(c)] # Eof
      BY <2>3
    <2>5. msgs[Last(c)] \in Msg
      BY <2>4, ElementOfSeq
    <2> QED
      BY <2>4, <2>5 DEF Msg
  <1>4. dst' \in [Chunk -> Version \cup {Blank}]
    <2> HIDE DEF Of, Last
    <2> QED
      BY <1>2, <1>3 DEF TypeOK
  <1>5. eof' = (eof \/ \E i \in 1 .. Len(msgs) : msgs[i] = Eof)
    BY DEF block_load
  <1> QED
    BY <1>1, <1>4, <1>5 DEF Holds

\* The file after an operation on it.
FileOK ==
    /\ bf \in QEMUFileBuffered(Msg)
    /\ dst \in [Chunk -> Version \cup {Blank}] /\ eof \in BOOLEAN
    /\ FileSound

LEMMA SetFileStep ==
    ASSUME TypeOK, FileSound, NEW b \in QEMUFileBuffered(Msg), SetFile(b),
           b.has_error => b.broken
    PROVE  /\ FileOK'
           /\ bf'.broken = b.broken /\ bf'.has_error = b.has_error
           /\ eof' \/ Holds(bf'.buffer, Eof) <=> eof \/ Holds(Pending(b), Eof)
           /\ eof => eof'
  <1>1. bf' = [b EXCEPT !.out = << >>] /\ block_load(b.out)
    BY DEF SetFile
  <1>2. b.out \in Seq(Msg) /\ b.buffer \in Seq(Msg)
    BY DEF QEMUFileBuffered
  <1>3. /\ dst' \in [Chunk -> Version \cup {Blank}] /\ eof' \in BOOLEAN
        /\ eof' <=> eof \/ Holds(b.out, Eof)
    BY <1>1, <1>2, LoadCorrect
  <1>4. /\ bf' \in QEMUFileBuffered(Msg)
        /\ bf'.out = << >> /\ bf'.buffer = b.buffer
        /\ bf'.broken = b.broken /\ bf'.has_error = b.has_error
    <2>1. << >> \in Seq(Msg)
      OBVIOUS
    <2>2. [b EXCEPT !.out = << >>] \in QEMUFileBuffered(Msg)
      BY <2>1 DEF QEMUFileBuffered
    <2> QED
      BY <1>1, <2>2 DEF QEMUFileBuffered
  <1>5. Holds(Pending(b), Eof) <=> Holds(b.out, Eof) \/ Holds(b.buffer, Eof)
    BY <1>2, HoldsConcat DEF Pending
  <1>6. FileOK'
    BY <1>3, <1>4 DEF FileOK, FileSound
  <1> QED
    BY <1>3, <1>4, <1>5, <1>6

LEMMA PendingNow ==
    ASSUME TypeOK, FileSound
    PROVE  Pending(bf) = bf.buffer /\ bf \in QEMUFileBuffered(Msg)
  <1>1. bf.buffer \in Seq(Msg) /\ bf.out = << >>
    BY DEF TypeOK, FileSound, QEMUFileBuffered
  <1> QED
    BY <1>1, ConcatEmptySeq DEF Pending, TypeOK

\* An operation that sends nothing new.
LEMMA SendStep ==
    ASSUME TypeOK, FileSound, NEW b \in QEMUFileBuffered(Msg), SetFile(b),
           Pending(b) = Pending(bf), b.broken = bf.broken,
           b.has_error => bf.has_error \/ bf.broken,
           bf.has_error => b.has_error
    PROVE  /\ FileOK' /\ bf'.broken = bf.broken
           /\ bf.has_error => bf'.has_error
           /\ eof' \/ Holds(bf'.buffer, Eof) <=> eof \/ Holds(bf.buffer, Eof)
           /\ eof => eof'
  BY SetFileStep, PendingNow DEF FileSound

LEMMA PutStep ==
    ASSUME TypeOK, FileSound, NEW m \in Msg, Put(m)
    PROVE  /\ FileOK' /\ bf'.broken = bf.broken /\ has_error' \in BOOLEAN
           /\ bf.has_error => bf'.has_error
           /\ has_error' => has_error \/ bf'.has_error
           /\ eof' \/ Holds(bf'.buffer, Eof) =>
                 eof \/ Holds(bf.buffer, Eof) \/ m = Eof
           /\ ~has_error /\ m = Eof =>
                 eof' \/ Holds(bf'.buffer, Eof) \/ bf'.broken
  <1>1. CASE has_error
    BY <1>1 DEF Put, dstVars, TypeOK, FileOK, FileSound
  <1>2. CASE ~has_error
    <2> DEFINE r == buffered_put_buffer(bf, m)
    <2>1. /\ r \in QEMUFileBuffered(Msg)
          /\ (Pending(r) = Pending(bf) \/ Pending(r) = Append(Pending(bf), m))
          /\ (~r.has_error => Pending(r) = Append(Pending(bf), m))
          /\ r.broken = bf.broken
          /\ (r.has_error => bf.has_error \/ bf.broken)
          /\ (bf.has_error \/ PutFails(bf) => r.has_error)
      BY PutCorrect, PendingNow
    <2>2. SetFile(r) /\ has_error' = PutFails(bf)
      BY <1>2 DEF Put
    <2> HIDE DEF r
    <2>3. r.has_error => r.broken
      BY <2>1 DEF FileSound
    <2>4. /\ FileOK' /\ bf'.broken = r.broken /\ bf'.has_error = r.has_error
          /\ eof' \/ Holds(bf'.buffer, Eof) <=> eof \/ Holds(Pending(r), Eof)
      BY <2>1, <2>2, <2>3, SetFileStep
    <2>5. bf.buffer \in Seq(Msg) /\ Pending(bf) = bf.buffer
      BY PendingNow DEF QEMUFileBuffered
    <2>6. Holds(Append(Pending(bf), m), Eof) <=> Holds(bf.buffer, Eof) \/ m = Eof
      BY <2>5, HoldsAppend
    <2>7. has_error' \in BOOLEAN
      BY <2>2 DEF PutFails
    <2>8. Holds(Pending(r), Eof) => Holds(bf.buffer, Eof) \/ m = Eof
      BY <2>1, <2>5, <2>6
    <2>9. m = Eof /\ ~r.has_error => Holds(Pending(r), Eof)
      BY <2>1, <2>6
    <2> QED
      BY <1>2, <2>1, <2>2, <2>3, <2>4, <2>7, <2>8, <2>9
  <1> QED
    BY <1>1, <1>2 DEF TypeOK

-----------------------------------------------------------------------------
(* The chunks the loops choose.                                            *)

LEMMA NextCopyCorrect ==
    ASSUME TypeOK, ToCopy # {}
    PROVE  NextCopy \in ToCopy /\ NextCopy \in Chunk /\ cur <= NextCopy
              /\ NextCopy + 1 \in 0 .. NChunks
  <1>1. ToCopy \in SUBSET Nat /\ \A c \in ToCopy : c \in Chunk /\ cur <= c /\ c + 1 \in 0 .. NChunks
    BY MigrationAssumption DEF ToCopy, TypeOK, Chunk
  <1>2. \E c \in ToCopy : \A d \in ToCopy : c <= d
    BY <1>1, LeastNatural
  <1>3. NextCopy \in ToCopy
    BY <1>2 DEF NextCopy
  <1> QED
    BY <1>1, <1>3

LEMMA NextDirtyCorrect ==
    ASSUME TypeOK, DirtyChunks # {}
    PROVE  NextDirty \in DirtyChunks /\ NextDirty \in Chunk
  <1>1. DirtyChunks \in SUBSET Nat /\ \A c \in DirtyChunks : c \in Chunk
    BY MigrationAssumption DEF DirtyChunks, TypeOK, Chunk
  <1>2. \E c \in DirtyChunks : \A d \in DirtyChunks : c <= d
    BY <1>1, LeastNatural
  <1>3. NextDirty \in DirtyChunks
    BY <1>2 DEF NextDirty
  <1> QED
    BY <1>1, <1>3

LEMMA NextRead ==
    ASSUME TypeOK, blk_list # << >>
    PROVE  /\ Head(blk_list) \in Block /\ Tail(blk_list) \in Seq(Block)
           /\ Len(Tail(blk_list)) = Len(blk_list) - 1 /\ Len(blk_list) \in Nat
           /\ DOMAIN blk_list = 1 .. Len(blk_list) /\ 1 \in DOMAIN blk_list
           /\ DOMAIN Tail(blk_list) = 1 .. (Len(blk_list) - 1)
           /\ Head(blk_list) = blk_list[1]
           /\ \A i \in DOMAIN Tail(blk_list) :
                 i + 1 \in DOMAIN blk_list /\ Tail(blk_list)[i] = blk_list[i + 1]
  <1>1. blk_list \in Seq(Block)
    BY DEF TypeOK
  <1>2. /\ Head(blk_list) \in Block /\ Tail(blk_list) \in Seq(Block)
        /\ Len(Tail(blk_list)) = Len(blk_list) - 1
        /\ \A i \in 1 .. Len(Tail(blk_list)) : Tail(blk_list)[i] = blk_list[i + 1]
    BY <1>1, HeadTailProperties
  <1>3. /\ Len(blk_list) \in Nat /\ DOMAIN blk_list = 1 .. Len(blk_list)
        /\ DOMAIN Tail(blk_list) = 1 .. Len(Tail(blk_list)) /\ Len(blk_list) # 0
    BY <1>1, <1>2, LenProperties, EmptySeq
  <1> QED
    BY <1>2, <1>3

-----------------------------------------------------------------------------
(* The type invariant, one lemma per group of actions.                     *)

LEMMA DiskTypes ==
    ASSUME MigInv,
           \/ \E c \in Chunk : GuestWrite(c) \/ WriteDone(c)
           \/ \E b \in reads : ReadDone(b) \/ blk_mig_read_cb(b)
    PROVE  TypeOK'
  <1>1. CASE \E c \in Chunk : GuestWrite(c)
    <2>1. PICK c \in Chunk : GuestWrite(c)
      BY <1>1
    <2>2. dirty' \subseteq {DirtyBit(d) : d \in Chunk}
      BY <2>1 DEF GuestWrite, Marked, MigInv, TypeOK
    <2>3. writes' \in 0 .. MaxWrites /\ writes + 2 \in Version
      BY <2>1, MigrationAssumption DEF GuestWrite, MigInv, TypeOK, Version
    <2>4. inflight' \in [Chunk -> Version \cup {NoWrite}]
      BY <2>1, <2>3 DEF GuestWrite, MigInv, TypeOK
    <2> QED
      BY <2>1, <2>2, <2>3, <2>4
      DEF GuestWrite, MigInv, TypeOK, blkVars, fileVars, migVars, dstVars, boundVars
  <1>2. CASE \E c \in Chunk : WriteDone(c)
    <2>1. PICK c \in Chunk : WriteDone(c)
      BY <1>2
    <2>2. inflight[c] \in Version
      BY <2>1 DEF WriteDone, MigInv, TypeOK
    <2>3. src' \in [Chunk -> Version]
      BY <2>1, <2>2 DEF WriteDone, MigInv, TypeOK
    <2>4. inflight' \in [Chunk -> Version \cup {NoWrite}]
      BY <2>1 DEF WriteDone, MigInv, TypeOK
    <2> QED
      BY <2>1, <2>3, <2>4
      DEF WriteDone, MigInv, TypeOK, blkVars, fileVars, migVars, dstVars, boundVars
  <1>3. CASE \E b \in reads : ReadDone(b)
    <2>1. PICK b \in reads : ReadDone(b)
      BY <1>3
    <2>2. b \in Block /\ b.chunk \in Chunk /\ src[b.chunk] \in Version
      BY <2>1 DEF MigInv, TypeOK, Block
    <2>3. [b EXCEPT !.data = src[b.chunk]] \in Block /\ [b EXCEPT !.data = Failed] \in Block
      BY <2>2 DEF Block
    <2>4. reads' \subseteq Block
      BY <2>1, <2>3 DEF ReadDone, MigInv, TypeOK
    <2>5. errors' \in 0 .. MaxErrors
      BY <2>1, MigrationAssumption DEF ReadDone, MigInv, TypeOK
    <2> QED
      BY <2>1, <2>4, <2>5
      DEF ReadDone, MigInv, TypeOK, diskVars, fileVars, migVars, dstVars
  <1>4. CASE \E b \in reads : blk_mig_read_cb(b)
    <2>1. PICK b \in reads : blk_mig_read_cb(b)
      BY <1>4
    <2>2. blk_list' \in Seq(Block)
      BY <2>1, AppendProperties DEF blk_mig_read_cb, MigInv, TypeOK
    <2>3. /\ submitted' \in Int /\ read_done' \in Int
          /\ fault' \in {"none", "assert", "freed"} /\ reads' \subseteq Block
      BY <2>1 DEF blk_mig_read_cb, MigInv, TypeOK
    <2> QED
      BY <2>1, <2>2, <2>3
      DEF blk_mig_read_cb, MigInv, TypeOK, diskVars, fileVars, migVars, dstVars, boundVars
  <1> QED
    BY <1>1, <1>2, <1>3, <1>4

LEMMA FileTypes ==
    ASSUME MigInv,
           \/ Drain \/ Break
           \/ \E limit \in Rates : do_migrate_set_speed(limit)
    PROVE  TypeOK' /\ FileSound' /\ bf'.buffer = bf.buffer
              /\ bf'.has_error = bf.has_error /\ (bf.broken => bf'.broken)
  <1>1. bf \in QEMUFileBuffered(Msg) /\ FileSound
    BY DEF MigInv, TypeOK
  <1>2. /\ bf' \in QEMUFileBuffered(Msg) /\ bf'.out = bf.out
        /\ bf'.buffer = bf.buffer /\ bf'.has_error = bf.has_error
        /\ bf.broken => bf'.broken
    <2>1. CASE Drain
      BY <1>1, <2>1, MaxRoomAssumption DEF Drain, Drained, QEMUFileBuffered
    <2>2. CASE Break
      BY <1>1, <2>2 DEF Break, QEMUFileBuffered
    <2>3. CASE \E limit \in Rates : do_migrate_set_speed(limit)
      BY <1>1, <2>3, MigrationAssumption
      DEF do_migrate_set_speed, buffered_set_rate_limit, QEMUFileBuffered
    <2> QED
      BY <2>1, <2>2, <2>3
  <1>3. FileSound'
    BY <1>1, <1>2 DEF FileSound
  <1>4. TypeOK'
    BY <1>2
    DEF Drain, Break, do_migrate_set_speed, MigInv, TypeOK, diskVars, blkVars,
        migVars, dstVars, boundVars
  <1> QED
    BY <1>2, <1>3, <1>4

\* A message for a block that has been read is one of the stream.
LEMMA BlockMsgType ==
    ASSUME MigInv, blk_list # << >>, Head(blk_list).data # Failed
    PROVE  BlockMsg(Head(blk_list)) \in Msg /\ BlockMsg(Head(blk_list)) # Eof
  <1>1. Head(blk_list) \in Block /\ Head(blk_list) = blk_list[1] /\ 1 \in DOMAIN blk_list
    BY NextRead DEF MigInv
  <1>2. Head(blk_list).data # Unread
    BY <1>1 DEF MigInv, Blocks
  <1>3. Head(blk_list).chunk \in Chunk /\ Head(blk_list).data \in Version
    BY <1>1, <1>2 DEF Block
  <1> QED
    BY <1>3 DEF BlockMsg, Msg, Eof

LEMMA FlushTypes ==
    ASSUME MigInv, flush_blks
    PROVE  TypeOK' /\ FileSound'
  <1>0. blk_list # << >> /\ Head(blk_list).data # Failed
    BY DEF flush_blks, FlushStops, ReadFailed
  <1>1. CASE ~Live(Head(blk_list))
    BY <1>1
    DEF flush_blks, MigInv, TypeOK, FileSound, diskVars, migVars, dstVars, boundVars
  <1>2. CASE Live(Head(blk_list))
    <2>1. Put(BlockMsg(Head(blk_list))) /\ BlockMsg(Head(blk_list)) \in Msg
      BY <1>0, <1>2, BlockMsgType DEF flush_blks
    <2>2. FileOK' /\ has_error' \in BOOLEAN
      BY <2>1, PutStep DEF MigInv
    <2>3. blk_list' \in Seq(Block)
      BY <1>0, <1>2, NextRead DEF flush_blks, MigInv
    <2>4. read_done' \in Int /\ fault' \in {"none", "assert", "freed"}
      BY <1>2 DEF flush_blks, SentCounted, MigInv, TypeOK
    <2> QED
      BY <2>2, <2>3, <2>4
      DEF flush_blks, FileOK, MigInv, TypeOK, diskVars, migVars, boundVars
  <1> QED
    BY <1>1, <1>2

LEMMA SaveTypes ==
    ASSUME MigInv,
           \/ FlushFails \/ FlushToBulk \/ FlushToEnd \/ BulkSkipsRest
           \/ BulkReadFails \/ BulkStops \/ DirtyReadFails \/ DirtyEnds
           \/ RamPending
    PROVE  TypeOK' /\ FileSound'
  <1>0. bf' = bf
    BY DEF FlushFails, FlushToBulk, FlushToEnd, BulkSkipsRest, BulkReadFails,
       BulkStops, DirtyReadFails, DirtyEnds, RamPending, fileVars
  <1>1. FileSound'
    BY <1>0 DEF MigInv, FileSound
  <1>2. CASE FlushFails
    <2>0. has_error' \in BOOLEAN /\ bmds' \in BOOLEAN
      BY <1>2, Zenon DEF FlushFails, blk_mig_cleanup
    <2>1. /\ blk_list' \in Seq(Block) /\ pc' \in {"complete", "return0"}
          /\ errors' = errors
      BY <1>2 DEF FlushFails, AfterFailedFlush, blk_mig_cleanup, boundVars
    <2>2. UNCHANGED <<src, inflight, writes, tracking, dirty, cur, submitted,
                      read_done, reads, shared, mstate, file, bf, running,
                      outcome, stage, dst, eof, starts, fault, excused>>
      BY <1>2 DEF FlushFails, diskVars, migVars, dstVars, boundVars
    <2> QED
      BY <1>1, <2>0, <2>1, <2>2 DEF MigInv, TypeOK
  <1>3. CASE FlushToBulk \/ BulkStops \/ RamPending
    BY <1>1, <1>3 DEF FlushToBulk, BulkStops, RamPending, MigInv, TypeOK, diskVars,
       blkVars, fileVars, migVars, dstVars, boundVars
  <1>4. CASE FlushToEnd
    BY <1>1, <1>4 DEF FlushToEnd, MigInv, TypeOK, diskVars, blkVars, fileVars, migVars,
       dstVars, boundVars
  <1>5. CASE BulkSkipsRest
    BY <1>1, <1>5, MigrationAssumption
    DEF BulkSkipsRest, MigInv, TypeOK, diskVars, fileVars, migVars, dstVars, boundVars
  <1>6. CASE BulkReadFails
    <2>1. has_error' \in BOOLEAN /\ errors' \in 0 .. MaxErrors
      BY <1>6, MigrationAssumption DEF BulkReadFails, MigInv, TypeOK
    <2>2. UNCHANGED <<src, inflight, writes, tracking, dirty, cur, submitted,
                      read_done, reads, shared, mstate, file, bf, running,
                      outcome, stage, dst, eof, starts, fault, excused>>
      BY <1>6 DEF BulkReadFails, diskVars, blkVars, migVars, dstVars
    <2>3. UNCHANGED <<bmds, blk_list, pc>>
      BY <1>6 DEF BulkReadFails, blkVars
    <2> QED
      BY <1>1, <2>1, <2>2, <2>3 DEF MigInv, TypeOK
  <1>7. CASE DirtyReadFails
    <2>0. has_error' \in BOOLEAN /\ bmds' \in BOOLEAN
      BY <1>7, Zenon DEF DirtyReadFails, blk_mig_cleanup
    <2>1. /\ blk_list' \in Seq(Block) /\ pc' \in {"complete", "return0"}
          /\ errors' \in 0 .. MaxErrors
      BY <1>7, MigrationAssumption
      DEF DirtyReadFails, blk_mig_cleanup, MigInv, TypeOK
    <2>2. UNCHANGED <<src, inflight, writes, tracking, dirty, cur, submitted,
                      read_done, reads, shared, mstate, file, bf, running,
                      outcome, stage, dst, eof, starts, fault, excused>>
      BY <1>7 DEF DirtyReadFails, diskVars, migVars, dstVars
    <2> QED
      BY <1>1, <2>0, <2>1, <2>2 DEF MigInv, TypeOK
  <1>8. CASE DirtyEnds
    <2>0. bmds' \in BOOLEAN
      BY <1>8, Zenon DEF DirtyEnds, blk_mig_cleanup
    <2>1. blk_list' \in Seq(Block) /\ pc' = "complete" /\ UNCHANGED <<errors, has_error>>
      BY <1>8 DEF DirtyEnds, blk_mig_cleanup, boundVars, fileVars
    <2>2. UNCHANGED <<src, inflight, writes, tracking, dirty, cur, submitted,
                      read_done, reads, shared, mstate, file, bf, running,
                      outcome, stage, dst, eof, starts, fault, excused>>
      BY <1>8 DEF DirtyEnds, diskVars, fileVars, migVars, dstVars, boundVars
    <2> QED
      BY <1>1, <2>0, <2>1, <2>2 DEF MigInv, TypeOK
  <1> QED
    BY <1>1, <1>2, <1>3, <1>4, <1>5, <1>6, <1>7, <1>8

LEMMA ReadTypes ==
    ASSUME MigInv, mig_save_device_bulk
    PROVE  TypeOK' /\ FileSound'
  <1>1. NextCopy \in Chunk /\ NextCopy + 1 \in 0 .. NChunks
    BY NextCopyCorrect DEF mig_save_device_bulk, MigInv
  <1>2. starts \in 1 .. MaxStarts
    BY MigrationAssumption DEF mig_save_device_bulk, MigInv, Control, TypeOK
  <1>3. [gen |-> starts, chunk |-> NextCopy, data |-> Unread] \in Block
    BY <1>1, <1>2 DEF Block
  <1>4. reads' \subseteq Block /\ cur' \in 0 .. NChunks /\ submitted' \in Int
    BY <1>1, <1>3 DEF mig_save_device_bulk, ReadCounted, MigInv, TypeOK
  <1>5. dirty' \subseteq {DirtyBit(c) : c \in Chunk} /\ excused' \subseteq Chunk
    BY DEF mig_save_device_bulk, bdrv_reset_dirty, Unmarked, MigInv, TypeOK
  <1> QED
    BY <1>4, <1>5
    DEF mig_save_device_bulk, MigInv, TypeOK, FileSound, fileVars, migVars,
        dstVars, boundVars

LEMMA DirtyTypes ==
    ASSUME MigInv, blk_mig_save_dirty_blocks
    PROVE  TypeOK' /\ FileSound'
  <1>1. NextDirty \in Chunk
    BY NextDirtyCorrect DEF blk_mig_save_dirty_blocks, MigInv
  <1>2. [chunk |-> NextDirty, data |-> src[NextDirty]] \in Msg
    BY <1>1 DEF Msg, MigInv, TypeOK
  <1>3. FileOK' /\ has_error' \in BOOLEAN
    BY <1>2, PutStep DEF blk_mig_save_dirty_blocks, MigInv
  <1>4. dirty' \subseteq {DirtyBit(c) : c \in Chunk} /\ excused' \subseteq Chunk
    BY DEF blk_mig_save_dirty_blocks, bdrv_reset_dirty, Unmarked, MigInv, TypeOK
  <1> QED
    BY <1>3, <1>4
    DEF blk_mig_save_dirty_blocks, FileOK, MigInv, TypeOK, blkVars, migVars, boundVars

LEMMA StartTypes ==
    ASSUME MigInv,
           \/ \E inc \in BOOLEAN : do_migrate(inc)
           \/ ConnectFails
           \/ \E limit \in Rates : migrate_fd_connect(limit)
    PROVE  TypeOK' /\ FileSound'
  <1>1. CASE \E inc \in BOOLEAN : do_migrate(inc)
    <2>1. PICK inc \in BOOLEAN : do_migrate(inc)
      BY <1>1
    <2>2. /\ starts' \in 0 .. MaxStarts /\ mstate' = "active"
          /\ dst' \in [Chunk -> Version \cup {Blank}]
      BY <2>1, MigrationAssumption DEF do_migrate, MigInv, TypeOK, Version
    <2>3. shared' \in BOOLEAN /\ eof' \in BOOLEAN
      BY <2>1, Zenon DEF do_migrate
    <2>4. UNCHANGED <<diskVars, bmds, cur, submitted, read_done, reads, blk_list,
                      fileVars, running, outcome, pc, stage, errors, fault,
                      excused>>
      BY <2>1 DEF do_migrate
    <2> QED
      BY <2>2, <2>3, <2>4 DEF MigInv, TypeOK, FileSound, diskVars, fileVars
  <1>2. CASE ConnectFails
    BY <1>2 DEF ConnectFails, MigInv, TypeOK, FileSound, diskVars, blkVars,
       fileVars, dstVars, boundVars
  <1>3. CASE \E limit \in Rates : migrate_fd_connect(limit)
    <2>1. PICK limit \in Rates : migrate_fd_connect(limit)
      BY <1>3
    <2>2. file' \in BOOLEAN /\ has_error' \in BOOLEAN /\ bmds' \in BOOLEAN
             /\ tracking' \in BOOLEAN
      BY <2>1, Zenon DEF migrate_fd_connect, init_blk_migration, set_dirty_tracking
    <2>3. bf' \in QEMUFileBuffered(Msg) /\ bf'.out = << >> /\ ~bf'.has_error
      <3>1. bf' = qemu_fopen_ops_buffered(limit) /\ limit \in Nat
        BY <2>1, MigrationAssumption DEF migrate_fd_connect
      <3>2. MaxRoom \in 0 .. MaxRoom /\ << >> \in Seq(Msg)
        BY MaxRoomAssumption
      <3>3. bf' \in QEMUFileBuffered(Msg)
        BY <3>1, <3>2, FileRecord DEF qemu_fopen_ops_buffered
      <3> QED
        BY <3>1, <3>3 DEF qemu_fopen_ops_buffered
    <2>4. dirty' \subseteq {DirtyBit(c) : c \in Chunk} /\ excused' \subseteq Chunk
      BY <2>1 DEF migrate_fd_connect, set_dirty_tracking, MigInv, TypeOK
    <2>5. /\ cur' \in 0 .. NChunks /\ submitted' \in Int /\ read_done' \in Int
          /\ pc' = "flush1" /\ stage' = 1
      BY <2>1, MigrationAssumption
      DEF migrate_fd_connect, init_blk_migration, EnterStage
    <2>6. UNCHANGED <<src, inflight, writes, reads, blk_list, shared, migVars,
                      dstVars, boundVars, fault>>
      BY <2>1 DEF migrate_fd_connect
    <2> QED
      BY <2>2, <2>3, <2>4, <2>5, <2>6
      DEF MigInv, TypeOK, FileSound, migVars, dstVars, boundVars
  <1> QED
    BY <1>1, <1>2, <1>3

LEMMA ReturnTypes ==
    ASSUME MigInv, HandlerReturns \/ RamConverged \/ migrate_fd_cancel
    PROVE  TypeOK' /\ FileSound'
  <1>1. CASE HandlerReturns
    <2>1. bmds' \in BOOLEAN
      <3>1. CASE has_error
        BY <1>1, <3>1, Zenon DEF HandlerReturns, blk_mig_cleanup
      <3>2. CASE ~has_error
        BY <1>1, <3>2 DEF HandlerReturns, MigInv, TypeOK
      <3> QED
        BY <3>1, <3>2
    <2>2. blk_list' \in Seq(Block)
      <3>1. CASE has_error
        BY <1>1, <3>1 DEF HandlerReturns, blk_mig_cleanup
      <3>2. CASE ~has_error
        BY <1>1, <3>2 DEF HandlerReturns, MigInv, TypeOK
      <3> QED
        BY <3>1, <3>2
    <2>3. /\ mstate' \in {mstate, "error"} /\ outcome' \in {outcome, "error"}
          /\ pc' \in {"close", "flush1", "idle"} /\ stage' \in {stage, 2}
      BY <1>1 DEF HandlerReturns, CloseWith, EnterStage
    <2>4. UNCHANGED <<diskVars, cur, submitted, read_done, reads, shared,
                      fileVars, running, dstVars, boundVars, fault, excused>>
      BY <1>1 DEF HandlerReturns
    <2> QED
      BY <2>1, <2>2, <2>3, <2>4
      DEF MigInv, TypeOK, FileSound, diskVars, fileVars, dstVars, boundVars
  <1>2. CASE RamConverged
    <2>1. running' \in BOOLEAN
      BY <1>2, Zenon DEF RamConverged, StopGuest
    <2>2. /\ src' \in [Chunk -> Version]
          /\ inflight' \in [Chunk -> Version \cup {NoWrite}]
      BY <1>2 DEF RamConverged, MigInv, TypeOK
    <2>3. /\ outcome' \in {"running", "stopped"} /\ fault' \in {"assert", "none"}
          /\ pc' = "flush1" /\ stage' = 3
      BY <1>2 DEF RamConverged, EnterStage
    <2>4. UNCHANGED <<writes, tracking, dirty, blkVars, fileVars, mstate, dstVars,
                      boundVars, excused>>
      BY <1>2 DEF RamConverged
    <2> QED
      BY <2>1, <2>2, <2>3, <2>4
      DEF MigInv, TypeOK, FileSound, blkVars, fileVars, dstVars, boundVars
  <1>3. CASE migrate_fd_cancel
    <2>1. bmds' \in BOOLEAN
      BY <1>3, Zenon DEF migrate_fd_cancel, blk_mig_cleanup
    <2>2. /\ blk_list' \in Seq(Block) /\ mstate' = "cancelled"
          /\ pc' \in {pc, "close"} /\ outcome' \in {outcome, "cancelled"}
      BY <1>3 DEF migrate_fd_cancel, blk_mig_cleanup, CloseWith
    <2>3. UNCHANGED <<diskVars, cur, submitted, read_done, reads, shared,
                      fileVars, running, stage, dstVars, boundVars, fault,
                      excused>>
      BY <1>3 DEF migrate_fd_cancel
    <2> QED
      BY <2>1, <2>2, <2>3
      DEF MigInv, TypeOK, FileSound, diskVars, fileVars, dstVars, boundVars
  <1> QED
    BY <1>1, <1>2, <1>3

\* The operations on the file that send what is pending.
LEMMA TickFile ==
    ASSUME MigInv, CloseFlush \/ Tick \/ migrate_fd_put_notify
    PROVE  /\ FileOK' /\ bf'.broken = bf.broken /\ (bf.has_error => bf'.has_error)
           /\ eof' \/ Holds(bf'.buffer, Eof) <=> eof \/ Holds(bf.buffer, Eof)
           /\ eof => eof'
  <1>1. bf \in QEMUFileBuffered(Msg) /\ TypeOK /\ FileSound
    BY DEF MigInv, TypeOK
  <1>2. CASE CloseFlush
    <2> DEFINE b == buffered_flush(bf)
    <2>1. /\ b \in QEMUFileBuffered(Msg) /\ Pending(b) = Pending(bf)
          /\ b.broken = bf.broken /\ (bf.has_error => b.has_error)
          /\ (b.has_error => bf.has_error \/ bf.broken)
      BY <1>1, FlushCorrect
    <2>2. SetFile(b)
      BY <1>2 DEF CloseFlush
    <2> HIDE DEF b
    <2> QED
      BY <1>1, <2>1, <2>2, SendStep
  <1>3. CASE Tick
    <2> DEFINE u == [bf EXCEPT !.bytes_xfer = 0]
               b == buffered_flush(u)
    <2>1. /\ u \in QEMUFileBuffered(Msg) /\ Pending(u) = Pending(bf)
          /\ u.broken = bf.broken /\ u.has_error = bf.has_error
      BY <1>1 DEF QEMUFileBuffered, Pending
    <2>2. SetFile(b)
      BY <1>3 DEF Tick, buffered_rate_tick
    <2> HIDE DEF u
    <2>3. /\ b \in QEMUFileBuffered(Msg) /\ Pending(b) = Pending(bf)
          /\ b.broken = bf.broken /\ (bf.has_error => b.has_error)
          /\ (b.has_error => bf.has_error \/ bf.broken)
      BY <2>1, FlushCorrect
    <2> HIDE DEF b
    <2> QED
      BY <1>1, <2>2, <2>3, SendStep
  <1>4. CASE migrate_fd_put_notify
    <2> DEFINE b == put_notify(bf)
    <2>1. /\ b \in QEMUFileBuffered(Msg) /\ Pending(b) = Pending(bf)
          /\ b.broken = bf.broken /\ (bf.has_error => b.has_error)
          /\ (b.has_error => bf.has_error \/ bf.broken)
      BY <1>1, UnfreezeCorrect DEF put_notify
    <2>2. SetFile(b)
      BY <1>4 DEF migrate_fd_put_notify
    <2> HIDE DEF b
    <2> QED
      BY <1>1, <2>1, <2>2, SendStep
  <1> QED
    BY <1>2, <1>3, <1>4

LEMMA EndTypes ==
    ASSUME MigInv,
           \/ qemu_savevm_state_complete \/ CloseFlush \/ buffered_close
           \/ Tick \/ migrate_fd_put_notify
    PROVE  TypeOK' /\ FileSound'
  <1>1. CASE qemu_savevm_state_complete
    <2>1. pc' = "close" /\ outcome' \in {"error", "completed"}
      BY <1>1 DEF qemu_savevm_state_complete, CloseWith
    <2>2. FileOK' /\ has_error' \in BOOLEAN /\ running' \in BOOLEAN
      <3>1. CASE has_error
        <4>1. UNCHANGED <<has_error, bf, dstVars>> /\ running' = (outcome = "running")
          BY <1>1, <3>1 DEF qemu_savevm_state_complete
        <4> QED
          BY <4>1 DEF MigInv, TypeOK, FileOK, FileSound, dstVars
      <3>2. CASE ~has_error
        <4>1. Put(Eof) /\ running' = running /\ Eof \in Msg
          BY <1>1, <3>2 DEF qemu_savevm_state_complete, Msg
        <4> QED
          BY <4>1, PutStep DEF MigInv, TypeOK
      <3> QED
        BY <3>1, <3>2
    <2>3. UNCHANGED <<diskVars, blkVars, file, mstate, stage, boundVars, fault,
                      excused>>
      BY <1>1 DEF qemu_savevm_state_complete
    <2> QED
      BY <2>1, <2>2, <2>3
      DEF MigInv, TypeOK, FileOK, diskVars, blkVars, boundVars
  <1>2. CASE CloseFlush \/ migrate_fd_put_notify
    <2>1. FileOK'
      BY <1>2, TickFile
    <2> QED
      BY <1>2, <2>1 DEF CloseFlush, migrate_fd_put_notify, MigInv, TypeOK, FileOK,
         diskVars, blkVars, migVars, boundVars
  <1>3. CASE Tick
    <2>1. FileOK'
      BY <1>3, TickFile
    <2> QED
      BY <1>3, <2>1 DEF Tick, EnterStage, MigInv, TypeOK, FileOK, diskVars,
         blkVars, migVars, boundVars
  <1>4. CASE buffered_close
    <2>1. file' \in BOOLEAN
      BY <1>4, Zenon DEF buffered_close
    <2>2. mstate' \in {"completed", "error", "cancelled"} /\ pc' = "idle"
      BY <1>4 DEF buffered_close, MigInv, Control
    <2>3. UNCHANGED <<diskVars, blkVars, has_error, bf, running, outcome, stage,
                      dstVars, boundVars, fault, excused>>
      BY <1>4 DEF buffered_close
    <2> QED
      BY <2>1, <2>2, <2>3
      DEF MigInv, TypeOK, FileSound, diskVars, blkVars, dstVars, boundVars
  <1> QED
    BY <1>1, <1>2, <1>3, <1>4

-----------------------------------------------------------------------------
(* The control of a migration.                                             *)

\* The variables Control reads.
controlVars == <<pc, stage, file, starts, mstate, outcome, bmds>>

LEMMA ControlKept ==
    ASSUME MigInv, UNCHANGED controlVars, pc = "ram" => submitted' = submitted,
           has_error => has_error'
    PROVE  Control'
  BY DEF MigInv, Control, controlVars

LEMMA ControlOfHost ==
    ASSUME MigInv,
           \/ \E c \in Chunk : GuestWrite(c) \/ WriteDone(c)
           \/ \E b \in reads : ReadDone(b) \/ blk_mig_read_cb(b)
           \/ Drain \/ Break \/ migrate_fd_put_notify \/ CloseFlush
           \/ \E limit \in Rates : do_migrate_set_speed(limit)
           \/ flush_blks \/ mig_save_device_bulk \/ BulkSkipsRest \/ BulkReadFails
           \/ blk_mig_save_dirty_blocks
    PROVE  Control'
  <1>1. UNCHANGED controlVars /\ (pc = "ram" => submitted' = submitted)
           /\ (has_error => has_error')
    BY DEF Put, GuestWrite, WriteDone, ReadDone, blk_mig_read_cb, Drain, Break,
       migrate_fd_put_notify, CloseFlush, do_migrate_set_speed, flush_blks,
       mig_save_device_bulk, BulkSkipsRest, BulkReadFails, Idle,
       blk_mig_save_dirty_blocks, controlVars, blkVars, fileVars, migVars, boundVars
  <1> QED
    BY <1>1, ControlKept

LEMMA ControlOfHandler ==
    ASSUME MigInv,
           \/ FlushFails \/ FlushToBulk \/ FlushToEnd \/ BulkStops
           \/ DirtyReadFails \/ DirtyEnds \/ RamPending \/ RamConverged \/ Tick
    PROVE  Control'
  <1>1. CASE FlushFails
    <2>1. ~bmds' /\ has_error' /\ UNCHANGED <<stage, file, starts, mstate, outcome>>
      BY <1>1, Zenon DEF FlushFails, blk_mig_cleanup, migVars, boundVars
    <2>2. pc' = (IF stage = 3 THEN "complete" ELSE "return0") /\ pc \in {"flush1", "flush2"}
      BY <1>1 DEF FlushFails, AfterFailedFlush
    <2> QED
      BY <2>1, <2>2 DEF MigInv, Control
  <1>2. CASE FlushToBulk \/ FlushToEnd \/ BulkStops \/ RamPending
    <2>1. UNCHANGED <<stage, file, starts, mstate, outcome, bmds, submitted, has_error>>
      BY <1>2 DEF FlushToBulk, FlushToEnd, BulkStops, RamPending, blkVars, fileVars,
         migVars, boundVars
    <2>2. /\ pc \in {"flush1", "bulk", "flush2", "ram"}
          /\ pc' \in {"bulk", "flush2", "dirty", "ram", "return0"}
          /\ pc = "flush1" => ~has_error
          /\ pc' = "dirty" => stage = 3
          /\ pc' = "ram" => submitted <= 0
      BY <1>2 DEF FlushToBulk, FlushToEnd, BulkStops, RamPending,
         is_stage2_completed, FlushError
    <2> QED
      BY <2>1, <2>2 DEF MigInv, Control
  <1>3. CASE DirtyReadFails \/ DirtyEnds
    <2>1. ~bmds' /\ UNCHANGED <<stage, file, starts, mstate, outcome>>
      BY <1>3, Zenon
      DEF DirtyReadFails, DirtyEnds, blk_mig_cleanup, fileVars, migVars, boundVars
    <2>2. pc' = "complete" /\ pc = "dirty"
      BY <1>3 DEF DirtyReadFails, DirtyEnds
    <2> QED
      BY <2>1, <2>2 DEF MigInv, Control
  <1>4. CASE RamConverged \/ Tick
    <2>1. /\ pc' = "flush1" /\ UNCHANGED <<file, starts, mstate, bmds, has_error>>
          /\ (pc = "ram" \/ (pc = "idle" /\ file))
      BY <1>4 DEF RamConverged, Tick, Idle, EnterStage, blkVars, fileVars, migVars,
         boundVars
    <2> QED
      BY <2>1 DEF MigInv, Control
  <1> QED
    BY <1>1, <1>2, <1>3, <1>4

LEMMA ControlOfMigration ==
    ASSUME MigInv,
           \/ \E inc \in BOOLEAN : do_migrate(inc)
           \/ ConnectFails
           \/ \E limit \in Rates : migrate_fd_connect(limit)
           \/ HandlerReturns \/ qemu_savevm_state_complete \/ buffered_close
           \/ migrate_fd_cancel
    PROVE  Control'
  <1>0. starts \in Nat
    BY DEF MigInv, TypeOK
  <1>1. CASE \E inc \in BOOLEAN : do_migrate(inc)
    <2>1. /\ starts' = starts + 1 /\ mstate' = "active" /\ pc = "idle"
          /\ mstate # "active"
          /\ UNCHANGED <<pc, stage, file, outcome, bmds, submitted>>
      BY <1>1 DEF do_migrate, Idle, fileVars
    <2> QED
      BY <1>0, <2>1 DEF MigInv, Control
  <1>2. CASE ConnectFails
    <2>1. /\ mstate' = "error" /\ pc = "idle" /\ ~file
          /\ UNCHANGED <<pc, stage, file, starts, outcome, bmds, submitted>>
      BY <1>2 DEF ConnectFails, Idle, fileVars, blkVars, boundVars
    <2> QED
      BY <2>1 DEF MigInv, Control
  <1>3. CASE \E limit \in Rates : migrate_fd_connect(limit)
    <2>1. /\ file' /\ bmds' /\ pc' = "flush1" /\ mstate = "active"
          /\ UNCHANGED <<starts, mstate>>
      BY <1>3, Zenon
      DEF migrate_fd_connect, init_blk_migration, EnterStage, migVars, boundVars
    <2> QED
      BY <2>1 DEF MigInv, Control
  <1>4. CASE HandlerReturns
    <2>1. pc = "return0" /\ UNCHANGED <<file, has_error, starts, submitted>>
      BY <1>4 DEF HandlerReturns, fileVars, boundVars
    <2>2. has_error => ~bmds'
      BY <1>4, Zenon DEF HandlerReturns, blk_mig_cleanup
    <2>3. ~has_error => bmds' = bmds
      BY <1>4 DEF HandlerReturns
    <2>4. \/ has_error /\ mstate' = "error" /\ pc' = "close" /\ outcome' = "error"
          \/ pc' \in {"flush1", "idle"} /\ mstate' = mstate
      BY <1>4 DEF HandlerReturns, CloseWith, EnterStage
    <2> QED
      BY <2>1, <2>2, <2>3, <2>4 DEF MigInv, Control
  <1>5. CASE qemu_savevm_state_complete
    <2>1. /\ pc = "complete" /\ pc' = "close" /\ outcome' \in {"error", "completed"}
          /\ UNCHANGED <<bmds, file, mstate, starts>>
      BY <1>5 DEF qemu_savevm_state_complete, CloseWith, blkVars, boundVars
    <2> QED
      BY <2>1 DEF MigInv, Control
  <1>6. CASE buffered_close
    <2>1. ~file' /\ pc = "close" /\ pc' = "idle" /\ mstate' = outcome
             /\ UNCHANGED <<bmds, starts>>
      BY <1>6, Zenon DEF buffered_close, blkVars, boundVars
    <2> QED
      BY <2>1 DEF MigInv, Control
  <1>7. CASE migrate_fd_cancel
    <2>1. ~bmds' /\ mstate' = "cancelled" /\ UNCHANGED <<file, starts>> /\ pc = "idle"
      BY <1>7, Zenon
      DEF migrate_fd_cancel, blk_mig_cleanup, Idle, fileVars, boundVars
    <2>2. IF file THEN pc' = "close" /\ outcome' = "cancelled" ELSE pc' = pc
      BY <1>7 DEF migrate_fd_cancel, CloseWith
    <2> QED
      BY <2>1, <2>2 DEF MigInv, Control
  <1> QED
    BY <1>1, <1>2, <1>3, <1>4, <1>5, <1>6, <1>7

-----------------------------------------------------------------------------
(* The end of the stream and the two guests.                               *)

LEMMA EndOfHost ==
    ASSUME MigInv,
           \/ \E c \in Chunk : GuestWrite(c) \/ WriteDone(c)
           \/ \E b \in reads : ReadDone(b) \/ blk_mig_read_cb(b)
           \/ mig_save_device_bulk \/ BulkSkipsRest \/ BulkReadFails
    PROVE  EndOfStream'
  <1>1. UNCHANGED <<stage, pc, mstate, eof, running, file, bf, outcome>>
    BY DEF GuestWrite, WriteDone, ReadDone, blk_mig_read_cb, mig_save_device_bulk,
       BulkSkipsRest, BulkReadFails, fileVars, migVars, dstVars
  <1> QED
    BY <1>1 DEF MigInv, EndOfStream, Holds

LEMMA EndOfHandler ==
    ASSUME MigInv,
           \/ FlushFails \/ FlushToBulk \/ FlushToEnd \/ BulkStops
           \/ DirtyReadFails \/ DirtyEnds \/ RamPending \/ RamConverged
    PROVE  EndOfStream'
  <1>1. UNCHANGED <<mstate, eof, file, bf>>
    BY DEF FlushFails, FlushToBulk, FlushToEnd, BulkStops, DirtyReadFails,
       DirtyEnds, RamPending, RamConverged, fileVars, migVars, dstVars
  <1>2. pc \in {"flush1", "bulk", "flush2", "dirty", "ram"} /\ pc' # "close"
    BY DEF FlushFails, FlushToBulk, FlushToEnd, BulkStops, DirtyReadFails,
       DirtyEnds, RamPending, RamConverged, EnterStage, AfterFailedFlush
  <1>3. ~eof /\ ~Holds(bf.buffer, Eof) /\ file /\ mstate = "active"
    BY <1>2 DEF MigInv, Control, EndOfStream
  <1>4. /\ stage' = 3 /\ pc' \in {"flush1", "bulk", "flush2", "dirty", "complete"}
              => ~running'
        /\ eof' => ~running'
    <2>1. CASE RamConverged
      <3>1. ~running'
        BY <2>1, Zenon DEF RamConverged, StopGuest
      <3> QED
        BY <3>1
    <2>2. CASE ~RamConverged
      <3>1. /\ UNCHANGED <<running, stage>>
            /\ pc = "ram" => pc' = "return0"
        BY <2>2 DEF FlushFails, FlushToBulk, FlushToEnd, BulkStops, DirtyReadFails,
           DirtyEnds, RamPending, migVars
      <3> QED
        BY <1>1, <1>2, <3>1 DEF MigInv, EndOfStream
    <2> QED
      BY <2>1, <2>2
  <1> QED
    BY <1>1, <1>2, <1>3, <1>4 DEF EndOfStream, Holds

LEMMA EndOfFile ==
    ASSUME MigInv,
           \/ Drain \/ Break
           \/ \E limit \in Rates : do_migrate_set_speed(limit)
    PROVE  EndOfStream'
  <1>1. bf'.buffer = bf.buffer /\ (bf.broken => bf'.broken)
    BY FileTypes
  <1>2. UNCHANGED <<stage, pc, mstate, eof, running, file, outcome>>
    BY DEF Drain, Break, do_migrate_set_speed, migVars, dstVars
  <1> QED
    BY <1>1, <1>2 DEF MigInv, EndOfStream, Holds

LEMMA EndOfPut ==
    ASSUME MigInv, flush_blks \/ blk_mig_save_dirty_blocks
    PROVE  EndOfStream'
  <1>1. /\ UNCHANGED <<stage, pc, mstate, running, file, outcome>>
        /\ pc \in {"flush1", "flush2", "dirty"}
    BY DEF flush_blks, blk_mig_save_dirty_blocks, migVars
  <1>2. file /\ mstate = "active" /\ ~eof /\ ~Holds(bf.buffer, Eof)
    BY <1>1 DEF MigInv, Control, EndOfStream
  <1>3. CASE \E m \in Msg : m # Eof /\ Put(m)
    <2>1. PICK m \in Msg : m # Eof /\ Put(m)
      BY <1>3
    <2>2. ~eof' /\ ~Holds(bf'.buffer, Eof)
      BY <1>2, <2>1, PutStep DEF MigInv
    <2> QED
      BY <1>1, <1>2, <2>2 DEF MigInv, EndOfStream
  <1>4. CASE flush_blks
    <2>0. blk_list # << >> /\ Head(blk_list).data # Failed
      BY <1>4 DEF flush_blks, FlushStops, ReadFailed
    <2>1. CASE Live(Head(blk_list))
      <3>1. Put(BlockMsg(Head(blk_list)))
        BY <1>4, <2>1 DEF flush_blks
      <3>2. BlockMsg(Head(blk_list)) \in Msg /\ BlockMsg(Head(blk_list)) # Eof
        BY <2>0, BlockMsgType
      <3> QED
        BY <1>3, <3>1, <3>2
    <2>2. CASE ~Live(Head(blk_list))
      BY <1>1, <1>4, <2>2 DEF flush_blks, MigInv, EndOfStream, Holds, dstVars
    <2> QED
      BY <2>1, <2>2
  <1>5. CASE blk_mig_save_dirty_blocks
    <2> DEFINE m == [chunk |-> NextDirty, data |-> src[NextDirty]]
    <2>1. NextDirty \in Chunk
      BY <1>5, NextDirtyCorrect DEF blk_mig_save_dirty_blocks, MigInv
    <2>2. m \in Msg /\ m # Eof
      BY <2>1 DEF Msg, Eof, MigInv, TypeOK
    <2>3. Put(m)
      BY <1>5 DEF blk_mig_save_dirty_blocks
    <2> HIDE DEF m
    <2> QED
      BY <1>3, <2>2, <2>3
  <1> QED
    BY <1>4, <1>5

LEMMA EndOfSend ==
    ASSUME MigInv, CloseFlush \/ Tick \/ migrate_fd_put_notify
    PROVE  EndOfStream'
  <1>1. /\ bf'.broken = bf.broken
        /\ eof' \/ Holds(bf'.buffer, Eof) <=> eof \/ Holds(bf.buffer, Eof)
        /\ eof => eof'
    BY TickFile
  <1>2. UNCHANGED <<mstate, running, file, outcome>>
    BY DEF CloseFlush, Tick, migrate_fd_put_notify, migVars
  <1>3. CASE CloseFlush
    <2>1. pc = "close" /\ UNCHANGED <<pc, stage>>
      BY <1>3 DEF CloseFlush
    <2> QED
      BY <1>1, <1>2, <2>1 DEF MigInv, Control, EndOfStream
  <1>4. CASE Tick \/ migrate_fd_put_notify
    <2>1. /\ pc = "idle" /\ file /\ pc' # "close"
          /\ ~(stage' = 3 /\ pc' \in {"flush1", "bulk", "flush2", "dirty", "complete"})
      BY <1>4 DEF Tick, migrate_fd_put_notify, Idle, EnterStage
    <2>2. mstate = "active" /\ ~eof' /\ ~Holds(bf'.buffer, Eof)
      BY <1>1, <2>1 DEF MigInv, Control, EndOfStream
    <2> QED
      BY <1>2, <2>1, <2>2 DEF EndOfStream
  <1> QED
    BY <1>3, <1>4

LEMMA EndOfMigration ==
    ASSUME MigInv,
           \/ \E inc \in BOOLEAN : do_migrate(inc)
           \/ ConnectFails
           \/ \E limit \in Rates : migrate_fd_connect(limit)
           \/ HandlerReturns \/ migrate_fd_cancel
    PROVE  EndOfStream'
  <1>1. CASE \E inc \in BOOLEAN : do_migrate(inc)
    <2>1. ~eof' /\ ~file
      BY <1>1, Zenon DEF do_migrate, Idle, MigInv, Control
    <2>2. pc = "idle" /\ mstate' = "active" /\ UNCHANGED <<pc, file>>
      BY <1>1 DEF do_migrate, Idle, fileVars
    <2> QED
      BY <2>1, <2>2 DEF EndOfStream
  <1>2. CASE ConnectFails
    <2>1. pc = "idle" /\ mstate' = "error" /\ UNCHANGED <<pc, stage, eof, running, file, bf>>
             /\ ~file
      BY <1>2 DEF ConnectFails, Idle, fileVars, dstVars
    <2> QED
      BY <2>1 DEF MigInv, EndOfStream
  <1>3. CASE \E limit \in Rates : migrate_fd_connect(limit)
    <2>1. /\ mstate = "active" /\ pc = "idle" /\ pc' = "flush1" /\ stage' = 1
          /\ bf'.buffer = << >>
          /\ UNCHANGED <<mstate, eof, running>>
      BY <1>3 DEF migrate_fd_connect, Idle, EnterStage, qemu_fopen_ops_buffered,
         migVars, dstVars
    <2>2. ~Holds(bf'.buffer, Eof)
      BY <2>1 DEF Holds
    <2> QED
      BY <2>1, <2>2 DEF MigInv, EndOfStream
  <1>4. CASE HandlerReturns
    <2>1. /\ pc = "return0" /\ UNCHANGED <<eof, running, file, bf>>
          /\ pc' \in {"idle", "flush1", "close"} /\ mstate' \in {mstate, "error"}
          /\ ~(stage' = 3 /\ pc' = "flush1")
          /\ pc' = "close" => outcome' = "error"
      BY <1>4 DEF HandlerReturns, CloseWith, EnterStage, fileVars, dstVars
    <2>2. mstate = "active" /\ ~eof /\ ~Holds(bf.buffer, Eof)
      BY <2>1 DEF MigInv, Control, EndOfStream
    <2> QED
      BY <2>1, <2>2 DEF EndOfStream
  <1>5. CASE migrate_fd_cancel
    <2>1. /\ pc = "idle" /\ mstate = "active" /\ mstate' = "cancelled"
          /\ UNCHANGED <<eof, running, file, bf, stage>>
      BY <1>5 DEF migrate_fd_cancel, Idle, fileVars, dstVars
    <2>2. IF file THEN pc' = "close" /\ outcome' = "cancelled" ELSE pc' = pc
      BY <1>5 DEF migrate_fd_cancel, CloseWith
    <2> QED
      BY <2>1, <2>2 DEF MigInv, EndOfStream
  <1> QED
    BY <1>1, <1>2, <1>3, <1>4, <1>5

LEMMA EndOfComplete ==
    ASSUME MigInv, qemu_savevm_state_complete
    PROVE  EndOfStream'
  <1>1. /\ pc = "complete" /\ pc' = "close" /\ UNCHANGED <<stage, file, mstate>>
    BY DEF qemu_savevm_state_complete, CloseWith
  <1>2. mstate = "active" /\ ~eof /\ ~Holds(bf.buffer, Eof) /\ ~running
    BY <1>1 DEF MigInv, Control, EndOfStream
  <1>3. CASE has_error
    <2>1. outcome' = "error" /\ UNCHANGED <<bf, eof>>
      BY <1>3 DEF qemu_savevm_state_complete, CloseWith, dstVars
    <2> QED
      BY <1>1, <1>2, <2>1 DEF EndOfStream
  <1>4. CASE ~has_error
    <2>1. Put(Eof) /\ running' = running /\ Eof \in Msg
      BY <1>4 DEF qemu_savevm_state_complete, Msg
    <2>2. eof' \/ Holds(bf'.buffer, Eof) \/ bf'.broken
      BY <1>4, <2>1, PutStep DEF MigInv
    <2> QED
      BY <1>1, <1>2, <2>1, <2>2 DEF EndOfStream
  <1> QED
    BY <1>3, <1>4

\* The file is closed only when the buffer is empty or the connection broken.
LEMMA EndOfClose ==
    ASSUME MigInv, buffered_close
    PROVE  EndOfStream'
  <1>1. ~file'
    BY Zenon DEF buffered_close
  <1>2. /\ pc = "close" /\ pc' = "idle" /\ mstate' = outcome
        /\ UNCHANGED <<bf, running, eof>>
    BY DEF buffered_close, dstVars
  <1>3. outcome \in {"completed", "error", "cancelled"}
    BY <1>2 DEF MigInv, Control
  <1>4. bf.broken \/ ~Holds(bf.buffer, Eof)
    <2>1. CASE bf.has_error
      BY <2>1 DEF MigInv, FileSound
    <2>2. CASE bf.buffer = << >>
      BY <2>2 DEF Holds
    <2> QED
      BY <2>1, <2>2 DEF buffered_close, CloseEnds
  <1> QED
    BY <1>1, <1>2, <1>3, <1>4 DEF MigInv, EndOfStream

-----------------------------------------------------------------------------
(* The blocks that are being read or wait to be sent.                      *)

LEMMA BlockFields ==
    ASSUME TypeOK
    PROVE  /\ \A b \in reads : /\ b.gen \in 1 .. MaxStarts /\ b.chunk \in Chunk
                               /\ b.data \in Version \cup {Unread, Failed}
           /\ \A i \in DOMAIN blk_list :
                 blk_list[i] \in Block /\ blk_list[i].gen \in 1 .. MaxStarts
           /\ starts \in Nat /\ cur \in Nat
  <1>1. \A b \in Block : /\ b.gen \in 1 .. MaxStarts /\ b.chunk \in Chunk
                        /\ b.data \in Version \cup {Unread, Failed}
    BY DEF Block
  <1>2. \A b \in reads : b \in Block
    BY DEF TypeOK
  <1>3. \A i \in DOMAIN blk_list : blk_list[i] \in Block
    BY DEF TypeOK
  <1>4. starts \in Nat /\ cur \in Nat
    BY MigrationAssumption DEF TypeOK
  <1> QED
    BY <1>1, <1>2, <1>3, <1>4

LEMMA BlocksKept ==
    ASSUME MigInv, UNCHANGED <<reads, blk_list, starts, cur>>,
           bmds' => bmds, mstate' = "active" /\ ~file' => mstate = "active" /\ ~file
    PROVE  Blocks'
  BY DEF MigInv, Blocks

LEMMA BlocksFreed ==
    ASSUME MigInv, ~bmds', blk_list' = << >>, UNCHANGED <<reads, starts, file>>,
           mstate' \in {mstate, "error", "cancelled"}
    PROVE  Blocks'
  BY DEF MigInv, Blocks

LEMMA BlocksOfOthers ==
    ASSUME MigInv,
           \/ \E c \in Chunk : GuestWrite(c) \/ WriteDone(c)
           \/ Drain \/ Break \/ migrate_fd_put_notify \/ CloseFlush
           \/ \E limit \in Rates : do_migrate_set_speed(limit)
           \/ BulkReadFails \/ blk_mig_save_dirty_blocks
           \/ FlushToBulk \/ FlushToEnd \/ BulkStops \/ RamPending \/ RamConverged
           \/ Tick \/ qemu_savevm_state_complete \/ ConnectFails
    PROVE  /\ UNCHANGED <<reads, blk_list, starts, cur, bmds, submitted, read_done>>
           /\ Blocks'
  <1>1. UNCHANGED <<reads, blk_list, starts, cur, bmds, submitted, read_done>>
    BY DEF GuestWrite, WriteDone, Drain, Break, migrate_fd_put_notify, CloseFlush,
       do_migrate_set_speed, BulkReadFails, blk_mig_save_dirty_blocks, FlushToBulk,
       FlushToEnd, BulkStops, RamPending, RamConverged, Tick,
       qemu_savevm_state_complete, ConnectFails, blkVars, boundVars
  <1>2. file' = file /\ (mstate' = "active" => mstate = "active")
    BY DEF GuestWrite, WriteDone, Drain, Break, migrate_fd_put_notify, CloseFlush,
       do_migrate_set_speed, BulkReadFails, blk_mig_save_dirty_blocks, FlushToBulk,
       FlushToEnd, BulkStops, RamPending, RamConverged, Tick,
       qemu_savevm_state_complete, ConnectFails, migVars, fileVars
  <1> QED
    BY <1>1, <1>2, BlocksKept

\* The code paths that free the devices.
LEMMA CleanupFrees ==
    ASSUME MigInv,
           \/ FlushFails \/ DirtyReadFails \/ DirtyEnds \/ migrate_fd_cancel
           \/ HandlerReturns /\ has_error
    PROVE  /\ ~bmds' /\ blk_list' = << >>
           /\ UNCHANGED <<reads, starts, file, submitted, read_done, fault, bf>>
           /\ mstate' \in {mstate, "error", "cancelled"}
  <1>1. ~bmds'
    BY Zenon DEF FlushFails, DirtyReadFails, DirtyEnds, migrate_fd_cancel,
       HandlerReturns, blk_mig_cleanup
  <1>2. blk_list' = << >>
    BY DEF FlushFails, DirtyReadFails, DirtyEnds, migrate_fd_cancel,
       HandlerReturns, blk_mig_cleanup
  <1>3. UNCHANGED <<reads, starts, file, submitted, read_done, fault, bf>>
    BY DEF FlushFails, DirtyReadFails, DirtyEnds, migrate_fd_cancel,
       HandlerReturns, fileVars, boundVars
  <1>4. mstate' \in {mstate, "error", "cancelled"}
    BY DEF FlushFails, DirtyReadFails, DirtyEnds, migrate_fd_cancel,
       HandlerReturns, migVars
  <1> QED
    BY <1>1, <1>2, <1>3, <1>4

\* The counters after the devices have been freed, or nothing has changed.
LEMMA CountersKept ==
    ASSUME MigInv,
           ~bmds' \/ UNCHANGED <<reads, blk_list, starts, bmds, submitted, read_done>>
    PROVE  CountersExact'
  <1>1. CASE ~bmds'
    BY <1>1 DEF CountersExact
  <1>2. CASE UNCHANGED <<reads, blk_list, starts, bmds, submitted, read_done>>
    BY <1>2 DEF MigInv, CountersExact, NoStaleBlocks, Live
  <1> QED
    BY <1>1, <1>2

LEMMA ReadDoneBlocks ==
    ASSUME MigInv, NEW b \in reads, ReadDone(b)
    PROVE  /\ Blocks' /\ CountersExact'
           /\ Cardinality(reads') = Cardinality(reads)
           /\ errors' = errors =>
                 \A d \in reads' : d \in reads \/ d.data \in Version
  <1>1. PICK v \in Version \cup {Failed} :
              /\ reads' = (reads \ {b}) \cup {[b EXCEPT !.data = v]}
              /\ errors' = errors => v \in Version
    <2>1. b \in Block /\ src[b.chunk] \in Version
      BY DEF MigInv, TypeOK, Block
    <2>2. errors + 1 # errors
      BY DEF MigInv, TypeOK
    <2> QED
      BY <2>1, <2>2 DEF ReadDone
  <1>2. PICK n \in Block : /\ n = [b EXCEPT !.data = v]
                           /\ n.gen = b.gen /\ n.chunk = b.chunk /\ n.data = v
    <2>1. b \in Block /\ v \in Version \cup {Unread, Failed}
      BY DEF MigInv, TypeOK
    <2>2. [b EXCEPT !.data = v] \in Block
      BY <2>1 DEF Block
    <2> QED
      BY <2>1, <2>2 DEF Block
  <1>3. reads' = (reads \ {b}) \cup {n} /\ (errors' = errors => v \in Version)
    BY <1>1, <1>2
  <1>4. UNCHANGED <<blk_list, starts, cur, bmds, submitted, read_done, mstate, file>>
    BY DEF ReadDone, migVars, fileVars
  <1>5. IsFiniteSet(reads) /\ n \notin reads \ {b}
    BY <1>2 DEF MigInv, Blocks
  <1>6. IsFiniteSet(reads') /\ Cardinality(reads') = Cardinality(reads)
    <2>1. IsFiniteSet(reads \ {b}) /\ Cardinality(reads \ {b}) = Cardinality(reads) - 1
      BY <1>5, FS_RemoveElement
    <2>2. /\ IsFiniteSet((reads \ {b}) \cup {n})
          /\ Cardinality((reads \ {b}) \cup {n}) = Cardinality(reads \ {b}) + 1
      BY <1>5, <2>1, FS_AddElement
    <2>3. Cardinality(reads) \in Nat
      BY <1>5, FS_CardinalityType
    <2> QED
      BY <1>3, <2>1, <2>2, <2>3
  <1>7. \A d \in reads' : \E e \in reads : e.gen = d.gen /\ e.chunk = d.chunk
    BY <1>2, <1>3
  <1>8. \A d, e \in reads' : d.gen = e.gen /\ d.chunk = e.chunk => d = e
    <2>1. \A d, e \in reads : d.gen = e.gen /\ d.chunk = e.chunk => d = e
      BY DEF MigInv, Blocks
    <2>2. \A d \in reads \ {b} : ~(d.gen = n.gen /\ d.chunk = n.chunk)
      BY <1>2, <2>1
    <2> QED
      BY <1>3, <2>1, <2>2, Zenon
  <1>9. Blocks'
    BY <1>4, <1>6, <1>7, <1>8 DEF MigInv, Blocks
  <1>10. CountersExact'
    <2>1. NoStaleBlocks' /\ bmds' => NoStaleBlocks
      BY <1>2, <1>3, <1>4 DEF NoStaleBlocks, Live
    <2> QED
      BY <1>4, <1>6, <2>1 DEF MigInv, CountersExact
  <1> QED
    BY <1>2, <1>3, <1>6, <1>9, <1>10

LEMMA ReadCallbackBlocks ==
    ASSUME MigInv, NEW b \in reads, blk_mig_read_cb(b)
    PROVE  /\ Blocks' /\ CountersExact'
           /\ reads' \subseteq reads /\ Cardinality(reads') = Cardinality(reads) - 1
           /\ Cardinality(reads) \in Nat \ {0}
           /\ Len(blk_list') = Len(blk_list) + 1
           /\ \A i \in DOMAIN blk_list' :
                 blk_list'[i] = b \/ \E j \in DOMAIN blk_list : blk_list'[i] = blk_list[j]
  <1>1. /\ reads' = reads \ {b} /\ blk_list' = Append(blk_list, b) /\ b.data # Unread
        /\ submitted' = submitted - 1 /\ read_done' = read_done + 1
        /\ UNCHANGED <<starts, cur, bmds, mstate, file>>
    BY DEF blk_mig_read_cb, migVars, fileVars, boundVars
  <1>2. b \in Block /\ blk_list \in Seq(Block) /\ Len(blk_list) \in Nat
          /\ DOMAIN blk_list = 1 .. Len(blk_list)
    BY LenProperties DEF MigInv, TypeOK
  <1>3. /\ Len(blk_list') = Len(blk_list) + 1
        /\ DOMAIN blk_list' = 1 .. (Len(blk_list) + 1)
        /\ blk_list'[Len(blk_list) + 1] = b
        /\ \A i \in 1 .. Len(blk_list) : blk_list'[i] = blk_list[i]
    BY <1>1, <1>2, AppendProperties
  <1>4. \A i \in DOMAIN blk_list' :
           blk_list'[i] = b \/ \E j \in DOMAIN blk_list : blk_list'[i] = blk_list[j]
    BY <1>2, <1>3
  <1>5. IsFiniteSet(reads)
    BY DEF MigInv, Blocks
  <1>6. IsFiniteSet(reads') /\ Cardinality(reads') = Cardinality(reads) - 1
    BY <1>1, <1>5, FS_RemoveElement
  <1>7. Cardinality(reads) \in Nat /\ Cardinality(reads) # 0
    BY <1>5, FS_CardinalityType, FS_EmptySet
  <1>8. Blocks'
    <2>1. b.gen <= starts /\ (mstate = "active" /\ ~file => b.gen < starts)
      BY DEF MigInv, Blocks
    <2>2. \A i \in DOMAIN blk_list' :
             /\ blk_list'[i].gen <= starts /\ blk_list'[i].data # Unread
             /\ mstate = "active" /\ ~file => blk_list'[i].gen < starts
      BY <1>1, <1>4, <2>1 DEF MigInv, Blocks
    <2> QED
      BY <1>1, <1>6, <2>2 DEF MigInv, Blocks
  <1>9. CountersExact'
    <2>1. ASSUME NoStaleBlocks', bmds'
          PROVE  NoStaleBlocks /\ bmds
      <3>1. b.gen = starts
        BY <1>1, <1>2, <1>3, <2>1 DEF NoStaleBlocks, Live
      <3>2. \A i \in DOMAIN blk_list : Live(blk_list[i])
        <4>1. \A i \in DOMAIN blk_list : i \in DOMAIN blk_list' /\ blk_list'[i] = blk_list[i]
          BY <1>2, <1>3
        <4> QED
          BY <1>1, <2>1, <4>1 DEF NoStaleBlocks, Live
      <3> QED
        BY <1>1, <2>1, <3>1, <3>2 DEF NoStaleBlocks, Live
    <2> QED
      BY <1>1, <1>3, <1>6, <2>1 DEF MigInv, CountersExact
  <1> QED
    BY <1>1, <1>3, <1>4, <1>6, <1>7, <1>8, <1>9

LEMMA FlushBlocks ==
    ASSUME MigInv, flush_blks
    PROVE  Blocks' /\ CountersExact'
  <1>0. blk_list # << >>
    BY DEF flush_blks, FlushStops
  <1>1. /\ UNCHANGED <<reads, starts, cur, bmds, submitted, mstate, file>>
        /\ pc \in {"flush1", "flush2"}
    BY DEF flush_blks, migVars, boundVars
  <1>2. CASE ~Live(Head(blk_list))
    <2>1. UNCHANGED <<blk_list, read_done>>
      BY <1>2 DEF flush_blks
    <2> QED
      BY <1>1, <2>1, BlocksKept, CountersKept
  <1>3. CASE Live(Head(blk_list))
    <2>1. blk_list' = Tail(blk_list) /\ read_done' = read_done - 1
      BY <1>3 DEF flush_blks, SentCounted
    <2>2. /\ Len(blk_list') = Len(blk_list) - 1 /\ Len(blk_list) \in Nat
          /\ DOMAIN blk_list = 1 .. Len(blk_list)
          /\ DOMAIN blk_list' = 1 .. (Len(blk_list) - 1)
          /\ Head(blk_list) = blk_list[1]
          /\ \A i \in DOMAIN blk_list' :
                i + 1 \in DOMAIN blk_list /\ blk_list'[i] = blk_list[i + 1]
      BY <1>0, <2>1, NextRead DEF MigInv
    <2>3. Blocks'
      BY <1>1, <2>2 DEF MigInv, Blocks
    <2>4. ASSUME NoStaleBlocks', bmds'
          PROVE  NoStaleBlocks /\ bmds
      <3>1. \A i \in DOMAIN blk_list : i = 1 \/ (i - 1 \in DOMAIN blk_list'
                                                  /\ blk_list'[i - 1] = blk_list[i])
        BY <2>2
      <3>2. \A i \in DOMAIN blk_list : Live(blk_list[i])
        BY <1>1, <1>3, <2>2, <2>4, <3>1 DEF NoStaleBlocks, Live
      <3> QED
        BY <1>1, <2>4, <3>2 DEF NoStaleBlocks, Live
    <2>5. CountersExact'
      BY <1>1, <2>1, <2>2, <2>4 DEF MigInv, CountersExact
    <2> QED
      BY <2>3, <2>5
  <1> QED
    BY <1>2, <1>3

\* A chunk is read only once in a migration: the read that is added is new.
LEMMA BulkBlocks ==
    ASSUME MigInv, mig_save_device_bulk \/ BulkSkipsRest
    PROVE  /\ Blocks' /\ CountersExact' /\ UNCHANGED <<blk_list, read_done>>
           /\ Cardinality(reads') - submitted' = Cardinality(reads) - submitted
           /\ \A b \in reads' : b \in reads \/ b.data = Unread
  <1>0. bmds /\ UNCHANGED <<blk_list, read_done, starts, bmds, mstate, file>>
    BY DEF mig_save_device_bulk, BulkSkipsRest, MigInv, Control, migVars, fileVars,
       boundVars
  <1>1. /\ IsFiniteSet(reads) /\ Cardinality(reads) \in Nat /\ submitted \in Int
        /\ \A b \in reads : /\ b.chunk \in Chunk /\ b.gen <= starts
                            /\ b.gen = starts => b.chunk < cur
    BY <1>0, FS_CardinalityType, BlockFields DEF MigInv, Blocks, TypeOK
  <1>2. CASE BulkSkipsRest
    <2>1. cur' = NChunks /\ UNCHANGED <<reads, submitted>>
      BY <1>2 DEF BulkSkipsRest
    <2>2. \A b \in reads : b.chunk < NChunks
      BY <1>1, MigrationAssumption DEF Chunk
    <2> QED
      BY <1>0, <1>1, <2>1, <2>2, CountersKept DEF MigInv, Blocks
  <1>3. CASE mig_save_device_bulk
    <2>1. PICK n \in Block : /\ n = [gen |-> starts, chunk |-> NextCopy, data |-> Unread]
                             /\ n.gen = starts /\ n.chunk = NextCopy /\ n.data = Unread
      <3>1. NextCopy \in Chunk
        BY <1>3, NextCopyCorrect DEF mig_save_device_bulk, MigInv
      <3>2. starts \in 1 .. MaxStarts
        BY <1>3, MigrationAssumption DEF mig_save_device_bulk, MigInv, Control, TypeOK
      <3>3. [gen |-> starts, chunk |-> NextCopy, data |-> Unread] \in Block
        BY <3>1, <3>2 DEF Block
      <3> QED
        BY <3>3
    <2>2. reads' = reads \cup {n} /\ submitted' = submitted + 1 /\ cur' = NextCopy + 1
      BY <1>3, <2>1 DEF mig_save_device_bulk, ReadCounted
    <2>3. cur <= NextCopy /\ NextCopy \in Nat /\ cur \in Nat
      BY <1>3, NextCopyCorrect, MigrationAssumption
      DEF mig_save_device_bulk, MigInv, Chunk, TypeOK
    <2>4. \A b \in reads : b.gen = n.gen => b.chunk # n.chunk /\ b.chunk < cur'
      <3>1. \A b \in reads : b.chunk \in Nat
        BY <1>1 DEF Chunk
      <3> QED
        BY <1>1, <2>1, <2>2, <2>3, <3>1
    <2>5. n \notin reads
      BY <2>4
    <2>6. IsFiniteSet(reads') /\ Cardinality(reads') = Cardinality(reads) + 1
      BY <1>1, <2>2, <2>5, FS_AddElement
    <2>7. \A b, d \in reads' : b.gen = d.gen /\ b.chunk = d.chunk => b = d
      <3>1. \A b, d \in reads : b.gen = d.gen /\ b.chunk = d.chunk => b = d
        BY DEF MigInv, Blocks
      <3> QED
        BY <2>2, <2>4, <3>1, Zenon
    <2>8. \A b \in reads' : b.gen <= starts /\ (b.gen = starts => b.chunk < cur')
      <3>1. starts <= starts /\ NextCopy < NextCopy + 1
        BY <2>3, BlockFields DEF MigInv
      <3> QED
        BY <1>1, <2>1, <2>2, <2>4, <3>1
    <2>9. file
      BY <1>0 DEF MigInv, Control
    <2>10. Blocks'
      BY <1>0, <2>6, <2>7, <2>8, <2>9 DEF MigInv, Blocks
    <2>11. CountersExact'
      <3>1. NoStaleBlocks' => NoStaleBlocks
        BY <1>0, <2>2 DEF NoStaleBlocks, Live
      <3> QED
        BY <1>0, <2>2, <2>6, <3>1 DEF MigInv, CountersExact
    <2>12. \A b \in reads' : b \in reads \/ b.data = Unread
      BY <2>1, <2>2
    <2> QED
      BY <1>0, <1>1, <2>2, <2>6, <2>10, <2>11, <2>12
  <1> QED
    BY <1>2, <1>3

\* When a migration connects it has no block: those that are about belong to
\* earlier ones.
LEMMA StartBlocks ==
    ASSUME MigInv,
           \/ \E inc \in BOOLEAN : do_migrate(inc)
           \/ \E limit \in Rates : migrate_fd_connect(limit)
           \/ buffered_close
    PROVE  Blocks' /\ CountersExact' /\ UNCHANGED <<reads, blk_list>>
  <1>1. CASE \E inc \in BOOLEAN : do_migrate(inc)
    <2>1. /\ starts' = starts + 1 /\ mstate # "active" /\ pc = "idle"
          /\ UNCHANGED <<reads, blk_list, bmds, file>>
      BY <1>1 DEF do_migrate, Idle, fileVars
    <2>2. ~bmds
      BY <2>1 DEF MigInv, Control
    <2>3. /\ \A b \in reads : b.gen < starts + 1
          /\ \A i \in DOMAIN blk_list : blk_list[i].gen < starts + 1
      BY BlockFields DEF MigInv, Blocks
    <2>4. /\ \A b \in reads : b.gen <= starts + 1
          /\ \A i \in DOMAIN blk_list : blk_list[i].gen <= starts + 1
      BY <2>3, BlockFields DEF MigInv
    <2> QED
      BY <2>1, <2>2, <2>3, <2>4, CountersKept DEF MigInv, Blocks
  <1>2. CASE \E limit \in Rates : migrate_fd_connect(limit)
    <2>1. file' /\ ~file
      BY <1>2, Zenon DEF migrate_fd_connect
    <2>2. /\ mstate = "active" /\ UNCHANGED <<reads, blk_list, starts>>
          /\ submitted' = 0 /\ read_done' = 0
      BY <1>2 DEF migrate_fd_connect, init_blk_migration, boundVars
    <2>3. /\ \A b \in reads : b.gen < starts
          /\ \A i \in DOMAIN blk_list : blk_list[i].gen < starts
      BY <2>1, <2>2 DEF MigInv, Blocks
    <2>4. /\ \A b \in reads : b.gen # starts
          /\ \A i \in DOMAIN blk_list : blk_list[i].gen # starts
      BY <2>3, BlockFields DEF MigInv
    <2>5. Blocks'
      BY <2>1, <2>2, <2>4 DEF MigInv, Blocks
    <2>6. ASSUME NoStaleBlocks', bmds'
          PROVE  submitted' = Cardinality(reads') /\ read_done' = Len(blk_list')
      <3>1. reads = {}
        BY <2>2, <2>4, <2>6 DEF NoStaleBlocks, Live
      <3>2. DOMAIN blk_list = {}
        BY <2>2, <2>4, <2>6 DEF NoStaleBlocks, Live
      <3>3. blk_list = << >>
        <4>1. blk_list \in Seq(Block)
          BY DEF MigInv, TypeOK
        <4>2. Len(blk_list) \in Nat /\ DOMAIN blk_list = 1 .. Len(blk_list)
          BY <4>1, LenProperties
        <4>3. Len(blk_list) = 0
          BY <3>2, <4>2
        <4> QED
          BY <4>1, <4>3, EmptySeq
      <3> QED
        BY <2>2, <3>1, <3>3, FS_EmptySet
    <2> QED
      BY <2>2, <2>5, <2>6 DEF CountersExact
  <1>3. CASE buffered_close
    <2>1. /\ UNCHANGED <<reads, blk_list, starts, cur, bmds, submitted, read_done>>
          /\ mstate' = outcome /\ pc = "close"
      BY <1>3 DEF buffered_close, blkVars, boundVars
    <2>2. mstate' # "active"
      BY <2>1 DEF MigInv, Control
    <2> QED
      BY <2>1, <2>2, BlocksKept, CountersKept
  <1> QED
    BY <1>1, <1>2, <1>3

-----------------------------------------------------------------------------
(* The first migration of a disk that can be read.                         *)

LEMMA HealthyOfDisk ==
    ASSUME MigInv,
           \/ \E c \in Chunk : GuestWrite(c) \/ WriteDone(c)
           \/ \E b \in reads : ReadDone(b) \/ blk_mig_read_cb(b)
    PROVE  Healthy'
  <1>1. UNCHANGED <<pc, bmds, has_error, file, bf, starts>>
    BY DEF GuestWrite, WriteDone, ReadDone, blk_mig_read_cb, blkVars, fileVars,
       boundVars
  <1>2. CASE \E c \in Chunk : GuestWrite(c) \/ WriteDone(c)
    <2>1. UNCHANGED <<reads, blk_list, submitted, read_done, fault, errors>>
      BY <1>2 DEF GuestWrite, WriteDone, blkVars, boundVars
    <2> QED
      BY <1>1, <2>1 DEF MigInv, Healthy
  <1>3. CASE \E b \in reads : ReadDone(b)
    <2>1. PICK b \in reads : ReadDone(b)
      BY <1>3
    <2>2. UNCHANGED <<blk_list, submitted, read_done, fault>>
      BY <2>1 DEF ReadDone
    <2>3. /\ Cardinality(reads') = Cardinality(reads)
          /\ errors' = errors => \A d \in reads' : d \in reads \/ d.data \in Version
      BY <2>1, ReadDoneBlocks
    <2>4. errors' = 0 => errors' = errors
      BY <2>1 DEF ReadDone, MigInv, TypeOK
    <2>5. Failed \notin Version
      BY MigrationAssumption DEF Failed, Version
    <2> QED
      BY <1>1, <2>2, <2>3, <2>4, <2>5 DEF MigInv, Healthy
  <1>4. CASE \E b \in reads : blk_mig_read_cb(b)
    <2>1. PICK b \in reads : blk_mig_read_cb(b)
      BY <1>4
    <2>2. /\ submitted' = submitted - 1 /\ read_done' = read_done + 1
          /\ fault' = (IF submitted - 1 < 0 THEN "assert" ELSE "none")
          /\ errors' = errors /\ submitted \in Int /\ read_done \in Int
      BY <2>1 DEF blk_mig_read_cb, boundVars, MigInv, TypeOK
    <2>3. /\ reads' \subseteq reads /\ Cardinality(reads') = Cardinality(reads) - 1
          /\ Cardinality(reads) \in Nat \ {0}
          /\ Len(blk_list') = Len(blk_list) + 1
          /\ \A i \in DOMAIN blk_list' :
                blk_list'[i] = b \/ \E j \in DOMAIN blk_list : blk_list'[i] = blk_list[j]
      BY <2>1, ReadCallbackBlocks
    <2>4. Len(blk_list) \in Nat
      BY LenProperties DEF MigInv, TypeOK
    <2>5. ASSUME starts <= 1, errors = 0
          PROVE  /\ fault' = "none" /\ Cardinality(reads') <= submitted'
                 /\ Len(blk_list') <= read_done'
                 /\ \A i \in DOMAIN blk_list' : blk_list'[i].data # Failed
                 /\ \A d \in reads' : d.data # Failed
      BY <2>1, <2>2, <2>3, <2>4, <2>5 DEF MigInv, Healthy
    <2> QED
      BY <1>1, <2>2, <2>5 DEF MigInv, Healthy
  <1> QED
    BY <1>2, <1>3, <1>4

LEMMA HealthyOfFlush ==
    ASSUME MigInv, flush_blks
    PROVE  Healthy'
  <1>0. blk_list # << >> /\ Head(blk_list).data # Failed
    BY DEF flush_blks, FlushStops, ReadFailed
  <1>1. /\ UNCHANGED <<reads, submitted, errors, starts, bmds, pc, file>>
        /\ pc \in {"flush1", "flush2"}
    BY DEF flush_blks, boundVars
  <1> SUFFICES ASSUME starts <= 1, errors = 0
               PROVE  Healthy'
    BY <1>1 DEF Healthy
  <1>2. bmds /\ file /\ fault = "none" /\ Len(blk_list) <= read_done
    BY <1>1 DEF MigInv, Healthy, Control
  <1>3. Head(blk_list) = blk_list[1] /\ 1 \in DOMAIN blk_list
    BY <1>0, NextRead DEF MigInv
  <1>4. Head(blk_list).gen \in 1 .. MaxStarts /\ Head(blk_list).gen <= starts
          /\ starts \in Nat
    BY <1>3, BlockFields DEF MigInv, Blocks
  <1>5. Live(Head(blk_list))
    BY <1>2, <1>4 DEF Live
  <1>6. /\ Put(BlockMsg(Head(blk_list))) /\ blk_list' = Tail(blk_list)
        /\ read_done' = read_done - 1
        /\ fault' = (IF read_done - 1 < 0 THEN "assert" ELSE "none")
    BY <1>5 DEF flush_blks, SentCounted
  <1>7. BlockMsg(Head(blk_list)) \in Msg
    BY <1>0, BlockMsgType
  <1>8. /\ bf.has_error => bf'.has_error
        /\ has_error' => has_error \/ bf'.has_error
    BY <1>6, <1>7, PutStep DEF MigInv
  <1>9. /\ Len(blk_list') = Len(blk_list) - 1 /\ Len(blk_list) \in Nat
        /\ DOMAIN blk_list = 1 .. Len(blk_list)
        /\ \A i \in DOMAIN blk_list' :
              i + 1 \in DOMAIN blk_list /\ blk_list'[i] = blk_list[i + 1]
    BY <1>0, <1>6, NextRead DEF MigInv
  <1>10. Len(blk_list') <= read_done' /\ fault' = "none"
    <2>1. read_done \in Int /\ Len(blk_list) >= 1
      BY <1>3, <1>9 DEF MigInv, TypeOK
    <2> QED
      BY <1>2, <1>6, <1>9, <2>1
  <1>11. \A i \in DOMAIN blk_list' : blk_list'[i].data # Failed
    BY <1>9 DEF MigInv, Healthy
  <1> QED
    BY <1>1, <1>2, <1>8, <1>10, <1>11 DEF MigInv, Healthy

LEMMA HealthyOfBulk ==
    ASSUME MigInv, mig_save_device_bulk \/ BulkSkipsRest \/ BulkReadFails
    PROVE  Healthy'
  <1>1. CASE BulkReadFails
    <2>1. errors' = errors + 1 /\ errors \in Nat
      BY <1>1 DEF BulkReadFails, MigInv, TypeOK
    <2> QED
      BY <2>1 DEF Healthy
  <1>2. CASE mig_save_device_bulk \/ BulkSkipsRest
    <2>1. /\ UNCHANGED <<blk_list, read_done>>
          /\ Cardinality(reads') - submitted' = Cardinality(reads) - submitted
          /\ \A b \in reads' : b \in reads \/ b.data = Unread
          /\ Blocks'
      BY <1>2, BulkBlocks
    <2>2. UNCHANGED <<errors, starts, fault, pc, bmds, has_error, file, bf>>
      BY <1>2 DEF mig_save_device_bulk, BulkSkipsRest, fileVars, boundVars
    <2>3. /\ Cardinality(reads) \in Nat /\ Cardinality(reads') \in Nat
          /\ submitted \in Int /\ submitted' \in Int
      <3>1. IsFiniteSet(reads) /\ IsFiniteSet(reads')
        BY <2>1 DEF MigInv, Blocks
      <3>2. submitted \in Int /\ submitted' \in Int
        BY <1>2 DEF mig_save_device_bulk, BulkSkipsRest, ReadCounted, MigInv, TypeOK
      <3> QED
        BY <3>1, <3>2, FS_CardinalityType
    <2>4. Unread # Failed
      BY DEF Unread, Failed
    <2> QED
      BY <2>1, <2>2, <2>3, <2>4 DEF MigInv, Healthy
  <1> QED
    BY <1>1, <1>2

LEMMA HealthyOfHandler ==
    ASSUME MigInv,
           \/ FlushToBulk \/ FlushToEnd \/ BulkStops \/ RamPending \/ RamConverged
           \/ blk_mig_save_dirty_blocks \/ qemu_savevm_state_complete
           \/ CloseFlush \/ ConnectFails \/ buffered_close
    PROVE  Healthy'
  <1>1. /\ UNCHANGED <<reads, blk_list, starts, bmds, submitted, read_done, errors>>
        /\ file' => file
    <2>1. CASE buffered_close
      <3>1. ~file'
        BY <2>1, Zenon DEF buffered_close
      <3> QED
        BY <2>1, <3>1 DEF buffered_close, blkVars, boundVars
    <2>2. CASE ~buffered_close
      BY <2>2 DEF FlushToBulk, FlushToEnd, BulkStops, RamPending, RamConverged,
         blk_mig_save_dirty_blocks, qemu_savevm_state_complete, CloseFlush,
         ConnectFails, blkVars, fileVars, boundVars
    <2> QED
      BY <2>1, <2>2
  <1>2. starts <= 1 /\ errors = 0 => fault' = "none"
    <2>1. CASE RamConverged
      <3>1. fault' = (IF Cardinality(reads) > submitted THEN "assert" ELSE "none")
        BY <2>1 DEF RamConverged
      <3>2. Cardinality(reads) \in Nat /\ submitted \in Int
        BY FS_CardinalityType DEF MigInv, Blocks, TypeOK
      <3> QED
        BY <3>1, <3>2 DEF MigInv, Healthy
    <2>2. CASE ~RamConverged
      <3>1. fault' = fault
        BY <2>2 DEF FlushToBulk, FlushToEnd, BulkStops, RamPending,
           blk_mig_save_dirty_blocks, qemu_savevm_state_complete, CloseFlush,
           ConnectFails, buffered_close
      <3> QED
        BY <3>1 DEF MigInv, Healthy
    <2> QED
      BY <2>1, <2>2
  <1>3. pc' \in {"flush1", "bulk", "flush2", "dirty", "ram"} =>
           pc \in {"flush1", "bulk", "flush2", "dirty", "ram"}
    BY DEF FlushToBulk, FlushToEnd, BulkStops, RamPending, RamConverged,
       blk_mig_save_dirty_blocks, qemu_savevm_state_complete, CloseFlush,
       ConnectFails, buffered_close, EnterStage, CloseWith, Idle
  <1>4. \/ pc' \in {"complete", "close"} \/ ~file'
        \/ /\ pc \notin {"complete", "close"}
           /\ has_error' => has_error \/ bf'.has_error
           /\ bf.has_error => bf'.has_error
    <2>1. CASE \/ FlushToBulk \/ FlushToEnd \/ BulkStops \/ RamPending
               \/ RamConverged \/ ConnectFails
      <3>1. UNCHANGED <<has_error, bf>> /\ pc \notin {"complete", "close"}
        BY <2>1 DEF FlushToBulk, FlushToEnd, BulkStops, RamPending, RamConverged,
           ConnectFails, Idle, fileVars
      <3> QED
        BY <3>1
    <2>2. CASE blk_mig_save_dirty_blocks
      <3>1. pc = "dirty"
        BY <2>2 DEF blk_mig_save_dirty_blocks
      <3>2. [chunk |-> NextDirty, data |-> src[NextDirty]] \in Msg
        BY <2>2, NextDirtyCorrect
        DEF blk_mig_save_dirty_blocks, Msg, MigInv, TypeOK
      <3>3. Put([chunk |-> NextDirty, data |-> src[NextDirty]])
        BY <2>2 DEF blk_mig_save_dirty_blocks
      <3> QED
        BY <3>1, <3>2, <3>3, PutStep DEF MigInv
    <2>3. CASE qemu_savevm_state_complete \/ CloseFlush
      BY <2>3 DEF qemu_savevm_state_complete, CloseFlush, CloseWith
    <2>4. CASE buffered_close
      BY <2>4, Zenon DEF buffered_close
    <2> QED
      BY <2>1, <2>2, <2>3, <2>4
  <1> QED
    BY <1>1, <1>2, <1>3, <1>4 DEF MigInv, Healthy

LEMMA HealthyOfCleanup ==
    ASSUME MigInv,
           \/ FlushFails \/ DirtyReadFails \/ DirtyEnds \/ migrate_fd_cancel
           \/ HandlerReturns /\ has_error
    PROVE  Healthy'
  <1>1. /\ blk_list' = << >>
        /\ UNCHANGED <<reads, starts, file, submitted, read_done, fault, bf>>
    BY CleanupFrees
  <1>2. errors' = 0 => errors = 0
    BY DEF FlushFails, DirtyReadFails, DirtyEnds, migrate_fd_cancel,
       HandlerReturns, boundVars, MigInv, TypeOK
  <1>3. pc' \notin {"flush1", "bulk", "flush2", "dirty", "ram"}
    <2>1. CASE migrate_fd_cancel
      BY <2>1 DEF migrate_fd_cancel, CloseWith, Idle
    <2>2. CASE HandlerReturns /\ has_error
      BY <2>2 DEF HandlerReturns, CloseWith
    <2>3. CASE FlushFails \/ DirtyReadFails \/ DirtyEnds
      BY <2>3 DEF FlushFails, DirtyReadFails, DirtyEnds, AfterFailedFlush
    <2> QED
      BY <2>1, <2>2, <2>3
  <1>4. starts <= 1 /\ errors = 0 /\ file /\ pc' \notin {"complete", "close"}
           => bf.has_error
    <2>1. CASE migrate_fd_cancel
      BY <2>1 DEF migrate_fd_cancel, CloseWith
    <2>2. CASE HandlerReturns /\ has_error
      BY <2>2 DEF HandlerReturns, MigInv, Healthy
    <2>3. CASE DirtyReadFails \/ DirtyEnds
      BY <2>3 DEF DirtyReadFails, DirtyEnds
    <2>4. CASE FlushFails
      <3>1. ReadFailed /\ starts <= 1 /\ errors = 0 => FALSE
        <4>1. ReadFailed => blk_list # << >> /\ Head(blk_list).data = Failed
          BY DEF ReadFailed, FlushStops
        <4>2. blk_list # << >> => Head(blk_list) = blk_list[1] /\ 1 \in DOMAIN blk_list
          BY NextRead DEF MigInv
        <4> QED
          BY <4>1, <4>2 DEF MigInv, Healthy
      <3>2. pc \in {"flush1", "flush2"} /\ (has_error \/ ReadFailed)
        BY <2>4 DEF FlushFails, FlushError
      <3> QED
        BY <3>1, <3>2 DEF MigInv, Healthy
    <2> QED
      BY <2>1, <2>2, <2>3, <2>4
  <1>5. starts <= 1 /\ errors = 0 => Len(blk_list') <= read_done
    <2>1. Len(blk_list) \in Nat /\ read_done \in Int
      BY LenProperties DEF MigInv, TypeOK
    <2> QED
      BY <1>1, <2>1 DEF MigInv, Healthy
  <1> QED
    BY <1>1, <1>2, <1>3, <1>4, <1>5 DEF MigInv, Healthy

LEMMA HealthyOfFile ==
    ASSUME MigInv,
           \/ Drain \/ Break \/ Tick \/ migrate_fd_put_notify
           \/ \E limit \in Rates : do_migrate_set_speed(limit)
           \/ HandlerReturns /\ ~has_error
    PROVE  Healthy'
  <1>1. UNCHANGED <<reads, blk_list, starts, bmds, submitted, read_done, errors, fault,
                    file, has_error>>
    BY DEF Drain, Break, Tick, migrate_fd_put_notify, do_migrate_set_speed,
       HandlerReturns, blkVars, fileVars, boundVars
  <1>2. bf.has_error => bf'.has_error
    <2>1. CASE Tick \/ migrate_fd_put_notify
      BY <2>1, TickFile
    <2>2. CASE Drain \/ Break \/ \E limit \in Rates : do_migrate_set_speed(limit)
      BY <2>2, FileTypes
    <2>3. CASE HandlerReturns
      BY <2>3 DEF HandlerReturns, fileVars
    <2> QED
      BY <2>1, <2>2, <2>3
  <1>3. \/ pc' = pc
        \/ file /\ ~has_error /\ pc \notin {"complete", "close"}
        \/ file /\ ~bf.has_error /\ pc \notin {"complete", "close"}
    <2>1. CASE Tick
      BY <2>1 DEF Tick, Idle
    <2>2. CASE HandlerReturns /\ ~has_error
      BY <2>2 DEF HandlerReturns, MigInv, Control
    <2>3. CASE \/ Drain \/ Break \/ migrate_fd_put_notify
               \/ \E limit \in Rates : do_migrate_set_speed(limit)
      BY <2>3 DEF Drain, Break, migrate_fd_put_notify, do_migrate_set_speed
    <2> QED
      BY <2>1, <2>2, <2>3
  <1> QED
    BY <1>1, <1>2, <1>3 DEF MigInv, Healthy, Control

LEMMA HealthyOfStart ==
    ASSUME MigInv,
           \/ \E inc \in BOOLEAN : do_migrate(inc)
           \/ \E limit \in Rates : migrate_fd_connect(limit)
    PROVE  Healthy'
  <1>1. CASE \E inc \in BOOLEAN : do_migrate(inc)
    <2>1. /\ starts' = starts + 1 /\ mstate # "active" /\ pc = "idle"
          /\ UNCHANGED <<reads, blk_list, file, errors, fault, submitted, read_done, pc>>
      BY <1>1 DEF do_migrate, Idle, fileVars
    <2>2. ~file /\ starts \in Nat
      BY <2>1 DEF MigInv, Control, TypeOK
    <2> QED
      BY <2>1, <2>2 DEF MigInv, Healthy
  <1>2. CASE \E limit \in Rates : migrate_fd_connect(limit)
    <2>1. ~has_error' /\ bmds' /\ ~file
      BY <1>2, Zenon DEF migrate_fd_connect, init_blk_migration
    <2>2. /\ mstate = "active" /\ UNCHANGED <<reads, blk_list, starts, errors, fault>>
          /\ submitted' = 0 /\ read_done' = 0
      BY <1>2 DEF migrate_fd_connect, init_blk_migration, boundVars
    <2>3. ASSUME starts <= 1
          PROVE  reads = {} /\ blk_list = << >>
      <3>1. /\ \A b \in reads : b.gen < starts /\ b.gen \in 1 .. MaxStarts
            /\ \A i \in DOMAIN blk_list :
                  blk_list[i].gen < starts /\ blk_list[i].gen \in 1 .. MaxStarts
            /\ starts \in Nat
        BY <2>1, <2>2, BlockFields DEF MigInv, Blocks
      <3>2. \A g \in 1 .. MaxStarts : ~(g < starts)
        BY <2>3, <3>1
      <3>5. reads = {} /\ DOMAIN blk_list = {}
        BY <3>1, <3>2
      <3>3. blk_list \in Seq(Block)
        BY DEF MigInv, TypeOK
      <3>4. Len(blk_list) = 0
        BY <3>5, <3>3, LenProperties
      <3> QED
        BY <3>5, <3>3, <3>4, EmptySeq
    <2>4. starts <= 1 => Cardinality(reads) = 0 /\ Len(blk_list) = 0
      BY <2>3, FS_EmptySet
    <2> QED
      BY <2>1, <2>2, <2>4 DEF MigInv, Healthy
  <1> QED
    BY <1>1, <1>2

\* A failing put of ram_save_live changes nothing but the error flags: what
\* waits in the buffer stays there.
LEMMA RamPutStep ==
    ASSUME MigInv, RamPutFails
    PROVE  /\ bf' \in QEMUFileBuffered(Msg) /\ bf'.has_error /\ bf'.broken
           /\ bf'.out = << >> /\ bf'.buffer = bf.buffer
           /\ bf'.broken = bf.broken
           /\ UNCHANGED <<src, inflight, writes, tracking, dirty, bmds, cur,
                          submitted, read_done, reads, blk_list, shared, mstate,
                          file, running, outcome, pc, stage, dst, eof, starts,
                          errors, fault, excused>>
  <1>1. bf \in QEMUFileBuffered(Msg) /\ bf.out = << >> /\ (bf.has_error => bf.broken)
    BY DEF MigInv, TypeOK, FileSound
  <1>2. CASE bf.has_error
    BY <1>1, <1>2 DEF RamPutFails, diskVars, blkVars, migVars, dstVars, boundVars
  <1>3. CASE ~bf.has_error
    <2> DEFINE u == [bf EXCEPT !.freeze_output = FALSE]
               f == Unfrozen(bf)
    <2>1. f.broken
      BY <1>3 DEF RamPutFails, PutFails
    <2>2. /\ f \in QEMUFileBuffered(Msg) /\ f.broken = bf.broken
      BY <1>1, UnfreezeCorrect
    <2>3. /\ u \in QEMUFileBuffered(Msg) /\ u.out = bf.out /\ u.buffer = bf.buffer
          /\ u.broken = bf.broken
      BY <1>1 DEF QEMUFileBuffered
    <2>4. f = buffered_flush(u)
      BY DEF Unfrozen
    <2>5. f.out = << >> /\ f.buffer = bf.buffer
      <3> HIDE DEF u, f
      <3>1. f = u \/ f = [u EXCEPT !.has_error = TRUE]
        BY <2>1, <2>2, <2>3, <2>4 DEF buffered_flush
      <3> QED
        BY <1>1, <2>3, <3>1 DEF QEMUFileBuffered
    <2>6. bf' = [f EXCEPT !.has_error = TRUE]
      BY <1>3 DEF RamPutFails
    <2> HIDE DEF f, u
    <2>7. /\ bf' \in QEMUFileBuffered(Msg) /\ bf'.has_error
          /\ bf'.broken = f.broken /\ bf'.out = f.out /\ bf'.buffer = f.buffer
      BY <2>2, <2>6 DEF QEMUFileBuffered
    <2>8. UNCHANGED <<diskVars, blkVars, file, migVars, pc, stage, dstVars,
                      boundVars, fault, excused>>
      BY DEF RamPutFails
    <2> QED
      BY <2>1, <2>2, <2>5, <2>7, <2>8
      DEF diskVars, blkVars, migVars, dstVars, boundVars
  <1> QED
    BY <1>2, <1>3

LEMMA RamPutInv ==
    ASSUME MigInv, RamPutFails
    PROVE  MigInv'
  <1>1. has_error' = TRUE
    BY DEF RamPutFails
  <1>2. TypeOK' /\ FileSound'
    <2>1. has_error' \in BOOLEAN
      BY <1>1, Zenon
    <2> QED
      BY <2>1, RamPutStep DEF MigInv, TypeOK, FileSound
  <1>3. Control'
    BY <1>1, RamPutStep DEF MigInv, Control
  <1>4. EndOfStream'
    BY RamPutStep DEF MigInv, EndOfStream, Holds
  <1>5. Blocks' /\ CountersExact'
    BY RamPutStep, BlocksKept, CountersKept
  <1>6. Healthy'
    BY RamPutStep DEF MigInv, Healthy
  <1> QED
    BY <1>2, <1>3, <1>4, <1>5, <1>6 DEF MigInv

-----------------------------------------------------------------------------
(* The invariant holds, and with it the properties.                        *)

LEMMA MigInit ==
    ASSUME Init
    PROVE  MigInv
  <1>1. TypeOK
    <2>1. bf \in QEMUFileBuffered(Msg)
      <3>1. 1 \in Nat /\ 0 \in Nat /\ MaxRoom \in 0 .. MaxRoom /\ << >> \in Seq(Msg)
        BY MaxRoomAssumption
      <3> QED
        BY <3>1, FileRecord DEF Init, qemu_fopen_ops_buffered
    <2>2. src \in [Chunk -> Version] /\ inflight \in [Chunk -> Version \cup {NoWrite}]
             /\ dst \in [Chunk -> Version \cup {Blank}]
      BY MigrationAssumption DEF Init, Version
    <2>3. tracking \in BOOLEAN /\ bmds \in BOOLEAN /\ shared \in BOOLEAN /\ file \in BOOLEAN
             /\ has_error \in BOOLEAN /\ running \in BOOLEAN /\ eof \in BOOLEAN
      BY Zenon DEF Init
    <2>4. /\ dirty = {} /\ excused = {} /\ reads = {} /\ blk_list = << >>
          /\ writes \in 0 .. MaxWrites /\ cur \in 0 .. NChunks
          /\ starts \in 0 .. MaxStarts /\ errors \in 0 .. MaxErrors
          /\ submitted \in Int /\ read_done \in Int /\ stage \in 1 .. 3
      BY MigrationAssumption DEF Init
    <2>5. /\ mstate = "none" /\ outcome = "none" /\ pc = "idle" /\ fault = "none"
      BY DEF Init
    <2> QED
      BY <2>1, <2>2, <2>3, <2>4, <2>5 DEF TypeOK
  <1>2. /\ ~file /\ ~bmds /\ ~eof
        /\ ~bf.has_error /\ bf.out = << >>
    BY Zenon DEF Init, qemu_fopen_ops_buffered
  <1>3. /\ mstate = "none" /\ pc = "idle" /\ fault = "none" /\ stage = 1
        /\ reads = {} /\ blk_list = << >> /\ submitted = 0 /\ read_done = 0
    BY DEF Init
  <1>4. FileSound /\ Control /\ EndOfStream /\ CountersExact
    BY <1>2, <1>3 DEF FileSound, Control, EndOfStream, CountersExact
  <1>5. IsFiniteSet(reads) /\ Cardinality(reads) = 0 /\ Len(blk_list) = 0
    BY <1>3, FS_EmptySet
  <1>6. Blocks /\ Healthy
    BY <1>2, <1>3, <1>5 DEF Blocks, Healthy
  <1> QED
    BY <1>1, <1>4, <1>6 DEF MigInv

LEMMA MigStep ==
    ASSUME MigInv, [Next]_vars
    PROVE  MigInv'
  <1>1. CASE \E c \in Chunk : GuestWrite(c) \/ WriteDone(c)
    <2>1. bf' = bf
      BY <1>1 DEF GuestWrite, WriteDone, fileVars
    <2>2. FileSound'
      BY <2>1 DEF MigInv, FileSound
    <2> QED
      BY <1>1, <2>2, DiskTypes, ControlOfHost, EndOfHost, BlocksOfOthers,
         CountersKept, HealthyOfDisk DEF MigInv
  <1>2. CASE \E b \in reads : ReadDone(b) \/ blk_mig_read_cb(b)
    <2>1. bf' = bf
      BY <1>2 DEF ReadDone, blk_mig_read_cb, fileVars
    <2>2. FileSound'
      BY <2>1 DEF MigInv, FileSound
    <2>3. Blocks' /\ CountersExact'
      BY <1>2, ReadDoneBlocks, ReadCallbackBlocks
    <2> QED
      BY <1>2, <2>2, <2>3, DiskTypes, ControlOfHost, EndOfHost, HealthyOfDisk DEF MigInv
  <1>3. CASE Drain \/ Break \/ \E limit \in Rates : do_migrate_set_speed(limit)
    BY <1>3, FileTypes, ControlOfHost, EndOfFile, BlocksOfOthers, CountersKept,
       HealthyOfFile DEF MigInv
  <1>4. CASE flush_blks
    BY <1>4, FlushTypes, ControlOfHost, EndOfPut, FlushBlocks, HealthyOfFlush
    DEF MigInv
  <1>5. CASE blk_mig_save_dirty_blocks
    BY <1>5, DirtyTypes, ControlOfHost, EndOfPut, BlocksOfOthers, CountersKept,
       HealthyOfHandler DEF MigInv
  <1>6. CASE FlushFails \/ DirtyReadFails \/ DirtyEnds
    <2>1. Blocks' /\ CountersExact'
      BY <1>6, CleanupFrees, BlocksFreed, CountersKept
    <2> QED
      BY <1>6, <2>1, SaveTypes, ControlOfHandler, EndOfHandler, HealthyOfCleanup
      DEF MigInv
  <1>7. CASE FlushToBulk \/ FlushToEnd \/ BulkStops \/ RamPending
    BY <1>7, SaveTypes, ControlOfHandler, EndOfHandler, BlocksOfOthers, CountersKept,
       HealthyOfHandler DEF MigInv
  <1>8. CASE mig_save_device_bulk
    BY <1>8, ReadTypes, ControlOfHost, EndOfHost, BulkBlocks, HealthyOfBulk DEF MigInv
  <1>9. CASE BulkSkipsRest
    BY <1>9, SaveTypes, ControlOfHost, EndOfHost, BulkBlocks, HealthyOfBulk DEF MigInv
  <1>10. CASE BulkReadFails
    BY <1>10, SaveTypes, ControlOfHost, EndOfHost, BlocksOfOthers, CountersKept,
       HealthyOfBulk DEF MigInv
  <1>11. CASE \/ \E inc \in BOOLEAN : do_migrate(inc)
              \/ \E limit \in Rates : migrate_fd_connect(limit)
    BY <1>11, StartTypes, ControlOfMigration, EndOfMigration, StartBlocks,
       HealthyOfStart DEF MigInv
  <1>12. CASE ConnectFails
    BY <1>12, StartTypes, ControlOfMigration, EndOfMigration, BlocksOfOthers,
       CountersKept, HealthyOfHandler DEF MigInv
  <1>13. CASE HandlerReturns
    <2>1. CASE has_error
      <3>1. Blocks' /\ CountersExact'
        BY <1>13, <2>1, CleanupFrees, BlocksFreed, CountersKept
      <3> QED
        BY <1>13, <2>1, <3>1, ReturnTypes, ControlOfMigration, EndOfMigration,
           HealthyOfCleanup DEF MigInv
    <2>2. CASE ~has_error
      <3>1. /\ UNCHANGED <<reads, blk_list, starts, cur, bmds, submitted, read_done,
                           file, mstate>>
        BY <1>13, <2>2 DEF HandlerReturns, fileVars, boundVars
      <3>2. Blocks' /\ CountersExact'
        BY <3>1, BlocksKept, CountersKept
      <3> QED
        BY <1>13, <2>2, <3>2, ReturnTypes, ControlOfMigration, EndOfMigration,
           HealthyOfFile DEF MigInv
    <2> QED
      BY <2>1, <2>2
  <1>14. CASE RamConverged
    BY <1>14, ReturnTypes, ControlOfHandler, EndOfHandler, BlocksOfOthers,
       CountersKept, HealthyOfHandler DEF MigInv
  <1>15. CASE migrate_fd_cancel
    <2>1. Blocks' /\ CountersExact'
      BY <1>15, CleanupFrees, BlocksFreed, CountersKept
    <2> QED
      BY <1>15, <2>1, ReturnTypes, ControlOfMigration, EndOfMigration,
         HealthyOfCleanup DEF MigInv
  <1>16. CASE qemu_savevm_state_complete
    BY <1>16, EndTypes, ControlOfMigration, EndOfComplete, BlocksOfOthers,
       CountersKept, HealthyOfHandler DEF MigInv
  <1>17. CASE CloseFlush
    BY <1>17, EndTypes, ControlOfHost, EndOfSend, BlocksOfOthers, CountersKept,
       HealthyOfHandler DEF MigInv
  <1>18. CASE buffered_close
    BY <1>18, EndTypes, ControlOfMigration, EndOfClose, StartBlocks,
       HealthyOfHandler DEF MigInv
  <1>19. CASE Tick
    BY <1>19, EndTypes, ControlOfHandler, EndOfSend, BlocksOfOthers, CountersKept,
       HealthyOfFile DEF MigInv
  <1>20. CASE migrate_fd_put_notify
    BY <1>20, EndTypes, ControlOfHost, EndOfSend, BlocksOfOthers, CountersKept,
       HealthyOfFile DEF MigInv
  <1>21. CASE UNCHANGED vars
    <2>1. UNCHANGED <<diskVars, blkVars, fileVars, migVars, pc, stage, dstVars,
                      boundVars, fault, excused>>
      BY <1>21 DEF vars
    <2>2. TypeOK' /\ FileSound'
      BY <2>1 DEF MigInv, TypeOK, FileSound, diskVars, blkVars, fileVars, migVars,
         dstVars, boundVars
    <2>3. Control' /\ EndOfStream'
      BY <2>1 DEF MigInv, Control, EndOfStream, Holds, blkVars, fileVars, migVars,
         dstVars, boundVars
    <2>4. Blocks' /\ CountersExact' /\ Healthy'
      BY <2>1 DEF MigInv, Blocks, CountersExact, NoStaleBlocks, Live, Healthy, blkVars,
         fileVars, migVars, boundVars
    <2> QED
      BY <2>2, <2>3, <2>4 DEF MigInv
  <1>22. CASE RamPutFails
    BY <1>22, RamPutInv
  <1> QED
    BY <1>1, <1>2, <1>3, <1>4, <1>5, <1>6, <1>7, <1>8, <1>9, <1>10, <1>11, <1>12,
       <1>13, <1>14, <1>15, <1>16, <1>17, <1>18, <1>19, <1>20, <1>21, <1>22, Zenon
    DEF Next, Host, BlockSaveLive

LEMMA MigInvariant == Spec => []MigInv
  <1>1. Init => MigInv
    BY MigInit
  <1>2. MigInv /\ [Next]_vars => MigInv'
    BY MigStep
  <1> QED
    BY <1>1, <1>2, PTL DEF Spec

\* Every variable of the migration keeps its type, whatever the interleaving
\* of the handlers of migration.c, block-migration.c and buffered_file.c with
\* the guest, the disk and the connection.
THEOREM TypeCorrect == Spec => []TypeOK
  <1>1. MigInv => TypeOK
    BY DEF MigInv
  <1> QED
    BY <1>1, MigInvariant, PTL

\* migrate_fd_put_ready stops the guest before stage 3, and starts it again
\* only when the end of the stream has not been put: no matter how much of
\* the stream is still buffered, the guest never runs on both sides.
THEOREM OneGuestCorrect == Spec => []OneGuest
  <1>1. MigInv => OneGuest
    BY DEF MigInv, EndOfStream, OneGuest
  <1> QED
    BY <1>1, MigInvariant, PTL

\* When the state becomes MIG_STATE_COMPLETED buffered_close has written all
\* of the buffer, the end of the stream included, unless the connection broke.
THEOREM NotLostCorrect == Spec => []GuestNotLost
  <1>1. MigInv => GuestNotLost
    BY DEF MigInv, EndOfStream, GuestNotLost
  <1> QED
    BY <1>1, MigInvariant, PTL

\* block_mig_state.submitted and read_done count the reads in flight and the
\* blocks on blk_list, unless a block of an earlier migration is left.
THEOREM CountersCorrect == Spec => []CountersExact
  <1>1. MigInv => CountersExact
    BY DEF MigInv
  <1> QED
    BY <1>1, MigInvariant, PTL

\* The assertions of blk_mig_read_cb and flush_blks hold in the first
\* migration, and it uses no BlkMigDevState after blk_mig_cleanup freed it, as
\* long as no read of the disk fails.
THEOREM HealthyCorrect == Spec => []HealthyRunIsSound
  <1>1. MigInv => HealthyRunIsSound
    BY DEF MigInv, Healthy, HealthyRunIsSound, TypeOK
  <1> QED
    BY <1>1, MigInvariant, PTL
=============================================================================
