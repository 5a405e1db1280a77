---------------------- MODULE BlockMigrationCopyProofs ----------------------
(***************************************************************************)
(* What a migration delivers: at every moment the newest contents of each  *)
(* chunk the bulk phase has passed are on their way or the chunk is marked *)
(* dirty, and when the destination has loaded the end of the stream its    *)
(* disks are those of the source.  For any disks, any guest, any rates,    *)
(* socket and connection, any reads that fail and any number of            *)
(* migrations.                                                             *)
(*                                                                         *)
(* The argument follows one chunk: not reached yet (Unpassed); read,       *)
(* listed, put, delivered (Passed); sent again in stage 3, in which the    *)
(* guest stands still (Late); and the same at the destination when the end *)
(* of the stream is put behind all else (Done).                            *)
(***************************************************************************)
EXTENDS BlockMigrationProofs

-----------------------------------------------------------------------------
(* The inductive invariant.                                                *)

IsFor(m, c) == m # Eof /\ m.chunk = c

\* After the messages of s, chunk c holds v if it held d before.
Newest(s, c, d, v) ==
    \/ \E i \in DOMAIN s : /\ IsFor(s[i], c) /\ s[i].data = v
                           /\ \A j \in DOMAIN s : IsFor(s[j], c) => j <= i
    \/ d = v /\ \A i \in DOMAIN s : ~IsFor(s[i], c)

Silent(s, c) == \A i \in DOMAIN s : ~IsFor(s[i], c)

\* What is already in the output file brings chunk c to v.
Arrives(c, v) == Newest(bf.buffer, c, dst[c], v)

Lost(c) == c \in excused \cup PartialChunks

\* A chunk of the running migration is in one block.
OneBlock ==
    bmds =>
        /\ \A i \in DOMAIN blk_list : blk_list[i].gen = starts =>
              /\ blk_list[i].chunk < cur
              /\ \A b \in reads : b.gen = starts => b.chunk # blk_list[i].chunk
              /\ \A j \in DOMAIN blk_list :
                    blk_list[j].gen = starts /\ blk_list[i].chunk = blk_list[j].chunk => i = j

\* A write in flight has left its mark.
Noticed ==
    bmds => /\ tracking
            /\ \A c \in Chunk : inflight[c] # NoWrite => bdrv_get_dirty(c) \/ c \in excused

\* Nothing has been sent of the chunks the bulk phase has not reached.
Unpassed ==
    bmds => \A c \in Chunk : c >= cur =>
        /\ Silent(bf.buffer, c)
        /\ shared => dst[c] = 0

\* An incremental migration starts from the base image.
Fresh == mstate = "active" /\ ~file /\ shared => \A c \in Chunk : dst[c] = 0

\* The newest contents of a chunk, wherever they are.
Reading(b, c) == Live(b) /\ b.chunk = c
Listed(i, c) == pc # "dirty" /\ Live(blk_list[i]) /\ blk_list[i].chunk = c

OnTheWay(c) ==
    /\ \A b \in reads : Reading(b, c) => b.data \in {src[c], Unread, Failed}
    /\ \A i \in DOMAIN blk_list : Listed(i, c) => blk_list[i].data \in {src[c], Failed}
    /\ \/ \E b \in reads : Reading(b, c)
       \/ \E i \in DOMAIN blk_list : Listed(i, c)
       \/ Arrives(c, src[c])

Passed ==
    bmds /\ Alive /\ ~has_error =>
        \A c \in Chunk : c < cur => bdrv_get_dirty(c) \/ Lost(c) \/ OnTheWay(c)

\* Stage 3 begins when every chunk has been read and the guest stands still.
Late ==
    /\ pc = "ram" => cur = NChunks
    /\ Alive /\ stage = 3 /\ pc \in {"flush1", "bulk", "flush2", "dirty"} =>
          cur = NChunks /\ reads = {}
    /\ \/ stage = 3 /\ pc \in {"flush1", "bulk", "flush2", "dirty", "complete"}
       \/ pc = "close" /\ outcome = "completed"
       \/ eof
       => \A c \in Chunk : inflight[c] = NoWrite

\* The end of the stream is put behind everything else.
EofLast(s) == \A i \in DOMAIN s : s[i] = Eof => i = Len(s)

Done ==
    /\ EofLast(bf.buffer)
    /\ file /\ eof => bf.buffer = << >>
    /\ pc = "close" /\ outcome # "completed" => ~eof /\ ~Holds(bf.buffer, Eof)
    /\ \/ pc = "complete" /\ ~has_error
       \/ pc = "close" /\ outcome = "completed"
       => \A c \in Chunk : Lost(c) \/ Arrives(c, src[c])

CopyInv == OneBlock /\ Noticed /\ Fresh /\ Unpassed /\ Passed /\ Late /\ Done
              /\ CopyComplete

-----------------------------------------------------------------------------
(* Sequences of messages.                                                  *)

LEMMA NewestExists ==
    ASSUME NEW M, NEW s \in Seq(M), NEW c, NEW d
    PROVE  \E v : Newest(s, c, d, v)
  <1> DEFINE T == {i \in 1 .. Len(s) : IsFor(s[i], c)}
  <1>1. Len(s) \in Nat /\ DOMAIN s = 1 .. Len(s)
    BY LenProperties
  <1>2. CASE T = {}
    <2>1. Newest(s, c, d, d)
      BY <1>1, <1>2 DEF Newest
    <2> QED
      BY <2>1
  <1>3. CASE T # {}
    <2>1. T \in SUBSET (1 .. Len(s))
      OBVIOUS
    <2> HIDE DEF T
    <2>2. PICK i \in T : \A j \in T : j <= i
      BY <1>1, <1>3, <2>1, GreatestIndex
    <2> USE DEF T
    <2>3. Newest(s, c, d, s[i].data)
      BY <1>1, <2>2 DEF Newest
    <2> QED
      BY <2>3
  <1> QED
    BY <1>2, <1>3

LEMMA NewestUnique ==
    ASSUME NEW M, NEW s \in Seq(M), NEW c, NEW d, NEW e, NEW v,
           Newest(s, c, d, e), Newest(s, c, d, v)
    PROVE  e = v
  <1>1. Len(s) \in Nat /\ DOMAIN s = 1 .. Len(s)
    BY LenProperties
  <1>2. \A i, j \in 1 .. Len(s) : i <= j /\ j <= i => i = j
    BY <1>1
  <1> QED
    BY <1>1, <1>2 DEF Newest

\* What comes first fixes what the rest starts from.
LEMMA NewestConcat ==
    ASSUME NEW M, NEW s \in Seq(M), NEW u \in Seq(M), NEW c, NEW d, NEW e, NEW v,
           Newest(s, c, d, e)
    PROVE  Newest(s \o u, c, d, v) <=> Newest(u, c, e, v)
  <1> DEFINE w == s \o u
             m == Len(s)
             n == Len(u)
  <1>1. /\ w \in Seq(M) /\ Len(w) = m + n /\ m \in Nat /\ n \in Nat
        /\ DOMAIN w = 1 .. m + n /\ DOMAIN s = 1 .. m /\ DOMAIN u = 1 .. n
        /\ \A i \in 1 .. m + n : w[i] = IF i <= m THEN s[i] ELSE u[i - m]
    BY ConcatProperties, LenProperties
  <1>2. \A i \in 1 .. m : i \in 1 .. m + n /\ w[i] = s[i]
    BY <1>1
  <1>3. \A i \in 1 .. n : m + i \in 1 .. m + n /\ w[m + i] = u[i]
    BY <1>1
  <1>4. \A i \in 1 .. m + n : i \in 1 .. m \/ (i - m \in 1 .. n /\ w[i] = u[i - m] /\ m + (i - m) = i)
    BY <1>1
  <1> HIDE DEF w, m, n
  <1>5. CASE \E i \in 1 .. n : IsFor(u[i], c)
    <2>1. ASSUME Newest(u, c, e, v)
          PROVE  Newest(w, c, d, v)
      <3>1. PICK i \in 1 .. n : /\ IsFor(u[i], c) /\ u[i].data = v
                                /\ \A j \in 1 .. n : IsFor(u[j], c) => j <= i
        BY <1>1, <1>5, <2>1 DEF Newest
      <3>2. m + i \in 1 .. m + n /\ w[m + i] = u[i]
        BY <1>3
      <3>3. ASSUME NEW j \in 1 .. m + n, IsFor(w[j], c)
            PROVE  j <= m + i
        <4>1. CASE j \in 1 .. m
          BY <1>1, <4>1
        <4>2. CASE j - m \in 1 .. n /\ w[j] = u[j - m]
          <5>1. j - m <= i
            BY <3>1, <3>3, <4>2
          <5> QED
            BY <1>1, <5>1
        <4> QED
          BY <1>4, <4>1, <4>2
      <3> QED
        BY <1>1, <3>1, <3>2, <3>3 DEF Newest
    <2>2. ASSUME Newest(w, c, d, v)
          PROVE  Newest(u, c, e, v)
      <3>1. PICK k \in 1 .. n : IsFor(u[k], c)
        BY <1>5
      <3>2. m + k \in 1 .. m + n /\ IsFor(w[m + k], c)
        BY <1>3, <3>1
      <3>3. PICK i \in 1 .. m + n : /\ IsFor(w[i], c) /\ w[i].data = v
                                    /\ \A j \in 1 .. m + n : IsFor(w[j], c) => j <= i
        BY <1>1, <2>2, <3>2 DEF Newest
      <3>4. m + k <= i
        BY <3>2, <3>3
      <3>5. i - m \in 1 .. n /\ w[i] = u[i - m]
        BY <1>1, <1>4, <3>4
      <3>6. ASSUME NEW j \in 1 .. n, IsFor(u[j], c)
            PROVE  j <= i - m
        <4>1. m + j <= i
          BY <1>3, <3>3, <3>6
        <4> QED
          BY <1>1, <4>1
      <3> QED
        BY <1>1, <3>3, <3>5, <3>6 DEF Newest
    <2> QED
      BY <2>1, <2>2 DEF w
  <1>6. CASE \A i \in 1 .. n : ~IsFor(u[i], c)
    <2>1. Newest(u, c, e, v) <=> e = v
      BY <1>1, <1>6 DEF Newest
    <2>2. \A i \in 1 .. m + n : IsFor(w[i], c) => i \in 1 .. m
      BY <1>4, <1>6
    <2>3. Newest(w, c, d, v) <=> Newest(s, c, d, v)
      BY <1>1, <1>2, <2>2 DEF Newest
    <2>4. Newest(s, c, d, v) => e = v
      BY NewestUnique
    <2> QED
      BY <2>1, <2>3, <2>4 DEF w
  <1> QED
    BY <1>5, <1>6

LEMMA NewestAppend ==
    ASSUME NEW M, NEW s \in Seq(M), NEW m \in M, NEW c, NEW d
    PROVE  /\ ~IsFor(m, c) => \A v : Newest(Append(s, m), c, d, v) <=> Newest(s, c, d, v)
           /\ IsFor(m, c) => Newest(Append(s, m), c, d, m.data)
  <1>1. <<m>> \in Seq(M) /\ Append(s, m) = s \o <<m>> /\ DOMAIN <<m>> = {1} /\ <<m>>[1] = m
    BY AppendIsConcat
  <1>2. PICK e : Newest(s, c, d, e)
    BY NewestExists
  <1>3. ASSUME NEW v
        PROVE  Newest(Append(s, m), c, d, v) <=> Newest(<<m>>, c, e, v)
    <2> DEFINE u == <<m>>
    <2>1. u \in Seq(M) /\ Append(s, m) = s \o u
      BY <1>1
    <2> HIDE DEF u
    <2>2. Newest(s \o u, c, d, v) <=> Newest(u, c, e, v)
      BY <1>2, <2>1, NewestConcat
    <2> QED
      BY <2>1, <2>2 DEF u
  <1>4. ASSUME ~IsFor(m, c), NEW v
        PROVE  Newest(Append(s, m), c, d, v) <=> Newest(s, c, d, v)
    <2>1. Newest(<<m>>, c, e, v) <=> e = v
      BY <1>1, <1>4 DEF Newest
    <2>2. Newest(s, c, d, v) => e = v
      BY <1>2, NewestUnique
    <2> QED
      BY <1>2, <1>3, <2>1, <2>2
  <1>5. ASSUME IsFor(m, c)
        PROVE  Newest(Append(s, m), c, d, m.data)
    <2>1. Newest(<<m>>, c, e, m.data)
      BY <1>1, <1>5 DEF Newest
    <2> QED
      BY <1>3, <2>1
  <1> QED
    BY <1>4, <1>5

-----------------------------------------------------------------------------
(* The file and the destination.                                           *)

\* block_load leaves in a chunk what the messages bring last.
LEMMA LoadNewest ==
    ASSUME TypeOK, NEW msgs \in Seq(Msg), block_load(msgs), NEW c \in Chunk
    PROVE  /\ c \notin PartialChunks => Newest(msgs, c, dst[c], dst'[c])
           /\ (\A i \in DOMAIN msgs : ~IsFor(msgs[i], c)) => dst'[c] = dst[c]
  <1> DEFINE Of(x) == {i \in 1 .. Len(msgs) : msgs[i] # Eof /\ msgs[i].chunk = x}
             Last(x) == CHOOSE i \in Of(x) : \A j \in Of(x) : j <= i
  <1>1. Len(msgs) \in Nat /\ DOMAIN msgs = 1 .. Len(msgs)
    BY LenProperties
  <1>2. dst' = [x \in Chunk |-> IF Of(x) = {} \/ x \in PartialChunks
                                THEN dst[x] ELSE msgs[Last(x)].data]
    BY DEF block_load
  <1>3. \A i \in DOMAIN msgs : i \in Of(c) <=> IsFor(msgs[i], c)
    BY <1>1 DEF IsFor
  <1>4. Of(c) \in SUBSET (1 .. Len(msgs))
    OBVIOUS
  <1> HIDE DEF Of
  <1>5. ASSUME Of(c) # {}
        PROVE  Last(c) \in Of(c) /\ \A j \in Of(c) : j <= Last(c)
    <2>1. \E i \in Of(c) : \A j \in Of(c) : j <= i
      BY <1>1, <1>4, <1>5, GreatestIndex
    <2> QED
      BY <2>1 DEF Last
  <1> HIDE DEF Last
  <1>6. CASE Of(c) = {}
    <2>1. dst'[c] = dst[c]
      BY <1>2, <1>6
    <2>2. \A i \in DOMAIN msgs : ~IsFor(msgs[i], c)
      BY <1>3, <1>6
    <2> QED
      BY <2>1, <2>2 DEF Newest
  <1>7. CASE Of(c) # {}
    <2>1. Last(c) \in Of(c) /\ Last(c) \in DOMAIN msgs /\ IsFor(msgs[Last(c)], c)
      BY <1>1, <1>3, <1>4, <1>5, <1>7
    <2>2. c \notin PartialChunks => dst'[c] = msgs[Last(c)].data
      BY <1>2, <1>7
    <2>3. \A j \in DOMAIN msgs : IsFor(msgs[j], c) => j <= Last(c)
      BY <1>3, <1>5, <1>7
    <2> QED
      BY <2>1, <2>2, <2>3 DEF Newest
  <1> QED
    BY <1>6, <1>7

LEMMA Parts ==
    ASSUME NEW M, NEW s \in Seq(M), NEW u \in Seq(M)
    PROVE  /\ \A c : Silent(s \o u, c) => Silent(s, c) /\ Silent(u, c)
           /\ EofLast(s \o u) => EofLast(u) /\ (Holds(s, Eof) => u = << >>)
  <1> DEFINE w == s \o u
             m == Len(s)
             n == Len(u)
  <1>1. /\ w \in Seq(M) /\ Len(w) = m + n /\ m \in Nat /\ n \in Nat
        /\ DOMAIN w = 1 .. m + n /\ DOMAIN s = 1 .. m /\ DOMAIN u = 1 .. n
        /\ \A i \in 1 .. m + n : w[i] = IF i <= m THEN s[i] ELSE u[i - m]
    BY ConcatProperties, LenProperties
  <1>2. \A i \in 1 .. m : i \in 1 .. m + n /\ w[i] = s[i]
    BY <1>1
  <1>3. \A i \in 1 .. n : m + i \in 1 .. m + n /\ w[m + i] = u[i]
    BY <1>1
  <1>4. n = 0 => u = << >>
    BY EmptySeq
  <1> HIDE DEF w
  <1>5. ASSUME NEW c, Silent(w, c)
        PROVE  Silent(s, c) /\ Silent(u, c)
    BY <1>1, <1>2, <1>3, <1>5 DEF Silent
  <1>6. ASSUME EofLast(w)
        PROVE  EofLast(u) /\ (Holds(s, Eof) => u = << >>)
    <2>1. ASSUME NEW i \in 1 .. n, u[i] = Eof
          PROVE  i = n
      <3>1. m + i = m + n
        BY <1>1, <1>3, <1>6, <2>1 DEF EofLast
      <3> HIDE DEF m, n
      <3> QED
        BY <1>1, <3>1
    <2>2. ASSUME NEW i \in 1 .. m, s[i] = Eof
          PROVE  u = << >>
      <3>1. i = m + n
        BY <1>1, <1>2, <1>6, <2>2 DEF EofLast
      <3> QED
        BY <1>1, <1>4, <3>1
    <2> QED
      BY <1>1, <2>1, <2>2 DEF EofLast, Holds
  <1> QED
    BY <1>5, <1>6 DEF w

LEMMA Appended ==
    ASSUME NEW M, NEW s \in Seq(M), NEW m \in M
    PROVE  /\ \A c : Silent(s, c) /\ ~IsFor(m, c) => Silent(Append(s, m), c)
           /\ ~Holds(s, Eof) => EofLast(Append(s, m))
  <1>1. /\ Len(s) \in Nat /\ DOMAIN s = 1 .. Len(s)
        /\ Append(s, m) \in Seq(M) /\ Len(Append(s, m)) = Len(s) + 1
        /\ DOMAIN Append(s, m) = 1 .. Len(s) + 1
        /\ Append(s, m)[Len(s) + 1] = m
        /\ \A i \in 1 .. Len(s) : Append(s, m)[i] = s[i]
    BY AppendProperties, LenProperties
  <1>2. \A i \in 1 .. Len(s) + 1 : i \in 1 .. Len(s) \/ i = Len(s) + 1
    BY <1>1
  <1> QED
    BY <1>1, <1>2 DEF Silent, EofLast, Holds

\* What an operation on the file does to the chunks.
LEMMA FileCopies ==
    ASSUME TypeOK, NEW b \in QEMUFileBuffered(Msg), SetFile(b)
    PROVE  /\ \A c \in Chunk \ PartialChunks : \A v :
                 Newest(bf'.buffer, c, dst'[c], v) <=> Newest(Pending(b), c, dst[c], v)
           /\ \A c \in Chunk : Silent(Pending(b), c) =>
                 Silent(bf'.buffer, c) /\ dst'[c] = dst[c]
           /\ EofLast(Pending(b)) => /\ EofLast(bf'.buffer)
                                     /\ eof' => eof \/ bf'.buffer = << >>
  <1>1. bf' = [b EXCEPT !.out = << >>] /\ block_load(b.out)
    BY DEF SetFile
  <1>2. b.out \in Seq(Msg) /\ b.buffer \in Seq(Msg) /\ bf'.buffer = b.buffer
    BY <1>1 DEF QEMUFileBuffered
  <1> DEFINE o == b.out
             u == b.buffer
  <1>3. Pending(b) = o \o u /\ o \in Seq(Msg) /\ u \in Seq(Msg) /\ bf'.buffer = u
           /\ block_load(o)
    BY <1>1, <1>2 DEF Pending
  <1> HIDE DEF o, u
  <1>4. ASSUME NEW c \in Chunk \ PartialChunks, NEW v
        PROVE  Newest(u, c, dst'[c], v) <=> Newest(o \o u, c, dst[c], v)
    <2>1. Newest(o, c, dst[c], dst'[c])
      BY <1>3, LoadNewest
    <2> QED
      BY <1>3, <2>1, NewestConcat
  <1>5. ASSUME NEW c \in Chunk, Silent(o \o u, c)
        PROVE  Silent(u, c) /\ dst'[c] = dst[c]
    <2>1. Silent(u, c) /\ Silent(o, c)
      BY <1>3, <1>5, Parts
    <2> QED
      BY <1>3, <2>1, LoadNewest DEF Silent
  <1>6. ASSUME EofLast(o \o u)
        PROVE  EofLast(u) /\ (eof' => eof \/ u = << >>)
    <2>1. EofLast(u) /\ (Holds(o, Eof) => u = << >>)
      BY <1>3, <1>6, Parts
    <2>2. eof' <=> eof \/ Holds(o, Eof)
      BY <1>3, LoadCorrect
    <2> QED
      BY <2>1, <2>2
  <1> QED
    BY <1>3, <1>4, <1>5, <1>6

\* Steps after which the destination will have what it would have had.
SameCopies ==
    \A c \in Chunk \ PartialChunks : \A v :
        Newest(bf'.buffer, c, dst'[c], v) <=> Newest(bf.buffer, c, dst[c], v)

SameSilence ==
    \A c \in Chunk : Silent(bf.buffer, c) => Silent(bf'.buffer, c) /\ dst'[c] = dst[c]

EndBehind == EofLast(bf'.buffer) /\ (eof' => eof \/ bf'.buffer = << >>)

LEMMA SendCopies ==
    ASSUME MigInv, CloseFlush \/ Tick \/ migrate_fd_put_notify
    PROVE  SameCopies /\ SameSilence /\ (EofLast(bf.buffer) => EndBehind)
  <1>1. /\ bf \in QEMUFileBuffered(Msg) /\ TypeOK /\ FileSound /\ Pending(bf) = bf.buffer
    BY PendingNow DEF MigInv
  <1>2. \E b \in QEMUFileBuffered(Msg) : SetFile(b) /\ Pending(b) = Pending(bf)
    <2>1. CASE CloseFlush
      <3>1. SetFile(buffered_flush(bf))
        BY <2>1 DEF CloseFlush
      <3> QED
        BY <1>1, <3>1, FlushCorrect
    <2>2. CASE Tick
      <3> DEFINE u == [bf EXCEPT !.bytes_xfer = 0]
      <3>1. u \in QEMUFileBuffered(Msg) /\ Pending(u) = Pending(bf)
        BY <1>1 DEF QEMUFileBuffered, Pending
      <3>2. SetFile(buffered_flush(u))
        BY <2>2 DEF Tick, buffered_rate_tick
      <3> HIDE DEF u
      <3> QED
        BY <3>1, <3>2, FlushCorrect
    <2>3. CASE migrate_fd_put_notify
      <3>1. put_notify(bf) \in QEMUFileBuffered(Msg) /\ Pending(put_notify(bf)) = Pending(bf)
        BY <1>1, UnfreezeCorrect DEF put_notify
      <3>2. SetFile(put_notify(bf))
        BY <2>3 DEF migrate_fd_put_notify
      <3> QED
        BY <3>1, <3>2
    <2> QED
      BY <2>1, <2>2, <2>3
  <1>3. PICK b \in QEMUFileBuffered(Msg) : SetFile(b) /\ Pending(b) = Pending(bf)
    BY <1>2
  <1> QED
    BY <1>1, <1>3, FileCopies DEF SameCopies, SameSilence, EndBehind

LEMMA PutCopies ==
    ASSUME MigInv, NEW m \in Msg, Put(m)
    PROVE  /\ \A c \in Chunk \ PartialChunks : ~IsFor(m, c) => \A v :
                 Newest(bf'.buffer, c, dst'[c], v) <=> Newest(bf.buffer, c, dst[c], v)
           /\ \A c \in Chunk \ PartialChunks : IsFor(m, c) /\ ~has_error' =>
                 Newest(bf'.buffer, c, dst'[c], m.data)
           /\ \A c \in Chunk : ~IsFor(m, c) /\ Silent(bf.buffer, c) =>
                 Silent(bf'.buffer, c) /\ dst'[c] = dst[c]
           /\ EofLast(bf.buffer) /\ ~Holds(bf.buffer, Eof) => EndBehind
           /\ has_error => has_error'
  <1>1. CASE has_error
    BY <1>1 DEF Put, EndBehind, dstVars
  <1>2. CASE ~has_error
    <2> DEFINE r == buffered_put_buffer(bf, m)
    <2>0. /\ bf \in QEMUFileBuffered(Msg) /\ TypeOK /\ Pending(bf) = bf.buffer
      BY PendingNow DEF MigInv
    <2>1. /\ r \in QEMUFileBuffered(Msg)
          /\ (Pending(r) = bf.buffer \/ Pending(r) = Append(bf.buffer, m))
          /\ (~PutFails(bf) => Pending(r) = Append(bf.buffer, m))
      BY <2>0, PutCorrect
    <2>2. SetFile(r) /\ has_error' = PutFails(bf)
      BY <1>2 DEF Put
    <2> HIDE DEF r
    <2> DEFINE s == bf.buffer
    <2>3. s \in Seq(Msg)
      BY <2>0 DEF QEMUFileBuffered
    <2>4. /\ \A c \in Chunk \ PartialChunks : \A v :
                 Newest(bf'.buffer, c, dst'[c], v) <=> Newest(Pending(r), c, dst[c], v)
          /\ \A c \in Chunk : Silent(Pending(r), c) =>
                 Silent(bf'.buffer, c) /\ dst'[c] = dst[c]
          /\ EofLast(Pending(r)) => EndBehind
      BY <2>0, <2>1, <2>2, FileCopies DEF EndBehind
    <2> HIDE DEF s
    <2>5. \A c, d : /\ ~IsFor(m, c) => \A v : Newest(Append(s, m), c, d, v) <=> Newest(s, c, d, v)
                    /\ IsFor(m, c) => Newest(Append(s, m), c, d, m.data)
      BY <2>3, NewestAppend
    <2>6. /\ \A c : Silent(s, c) /\ ~IsFor(m, c) => Silent(Append(s, m), c)
          /\ ~Holds(s, Eof) => EofLast(Append(s, m))
      BY <2>3, Appended
    <2>7. /\ (Pending(r) = s \/ Pending(r) = Append(s, m))
          /\ (~PutFails(bf) => Pending(r) = Append(s, m))
      BY <2>1 DEF s
    <2>8. \A c \in Chunk \ PartialChunks : ~IsFor(m, c) => \A v :
             Newest(bf'.buffer, c, dst'[c], v) <=> Newest(s, c, dst[c], v)
      BY <2>4, <2>5, <2>7
    <2>9. \A c \in Chunk \ PartialChunks : IsFor(m, c) /\ ~has_error' =>
             Newest(bf'.buffer, c, dst'[c], m.data)
      BY <2>2, <2>4, <2>5, <2>7
    <2>10. \A c \in Chunk : ~IsFor(m, c) /\ Silent(s, c) =>
             Silent(bf'.buffer, c) /\ dst'[c] = dst[c]
      BY <2>4, <2>6, <2>7
    <2>11. EofLast(s) /\ ~Holds(s, Eof) => EndBehind
      BY <2>4, <2>6, <2>7
    <2> QED
      BY <1>2, <2>8, <2>9, <2>10, <2>11 DEF s
  <1> QED
    BY <1>1, <1>2

-----------------------------------------------------------------------------
(* One block per chunk.                                                    *)

\* Steps that leave the blocks alone, and those that free the devices.
Stays ==
    \/ \E c \in Chunk : GuestWrite(c) \/ WriteDone(c)
    \/ Drain \/ Break \/ FlushToBulk \/ FlushToEnd
    \/ BulkSkipsRest \/ BulkReadFails \/ BulkStops \/ blk_mig_save_dirty_blocks
    \/ ConnectFails
    \/ HandlerReturns /\ ~has_error
    \/ RamPutFails \/ RamPending \/ RamConverged
    \/ qemu_savevm_state_complete \/ CloseFlush \/ buffered_close
    \/ Tick \/ migrate_fd_put_notify
    \/ \E limit \in Rates : do_migrate_set_speed(limit)
    \/ UNCHANGED vars

Frees == \/ FlushFails \/ DirtyReadFails \/ DirtyEnds \/ migrate_fd_cancel
         \/ HandlerReturns /\ has_error

LEMMA StaysKeeps ==
    ASSUME MigInv, Stays
    PROVE  /\ UNCHANGED <<bmds, reads, blk_list, starts, shared>>
           /\ cur' \in {cur, NChunks} /\ cur \in 0 .. NChunks
  <1>1. UNCHANGED <<bmds, reads, blk_list, starts, shared>>
    BY DEF Stays, GuestWrite, WriteDone, Drain, Break, FlushToBulk, FlushToEnd,
       BulkSkipsRest, BulkReadFails, BulkStops, blk_mig_save_dirty_blocks,
       ConnectFails, HandlerReturns, RamPutFails, RamPending, RamConverged,
       qemu_savevm_state_complete, CloseFlush, buffered_close, Tick,
       migrate_fd_put_notify, do_migrate_set_speed, vars, blkVars, boundVars
  <1>2. cur' \in {cur, NChunks}
    BY DEF Stays, GuestWrite, WriteDone, Drain, Break, FlushToBulk, FlushToEnd,
       BulkSkipsRest, BulkReadFails, BulkStops, blk_mig_save_dirty_blocks,
       ConnectFails, HandlerReturns, RamPutFails, RamPending, RamConverged,
       qemu_savevm_state_complete, CloseFlush, buffered_close, Tick,
       migrate_fd_put_notify, do_migrate_set_speed, vars, blkVars
  <1> QED
    BY <1>1, <1>2 DEF MigInv, TypeOK

\* Between two migrations there are no devices.
LEMMA StartFrees ==
    ASSUME MigInv, NEW inc \in BOOLEAN, do_migrate(inc)
    PROVE  ~bmds'
  BY DEF do_migrate, Idle, MigInv, Control

LEMMA NextKinds ==
    ASSUME [Next]_vars
    PROVE  \/ Stays \/ Frees \/ flush_blks \/ mig_save_device_bulk
           \/ \E b \in reads : ReadDone(b)
           \/ \E b \in reads : blk_mig_read_cb(b)
           \/ \E inc \in BOOLEAN : do_migrate(inc)
           \/ \E limit \in Rates : migrate_fd_connect(limit)
  <1>1. Host \/ BlockSaveLive => \/ Stays \/ Frees \/ flush_blks \/ mig_save_device_bulk
                                \/ \E b \in reads : ReadDone(b)
    BY DEF Host, BlockSaveLive, Stays, Frees
  <1>2. HandlerReturns => Stays \/ Frees
    BY DEF Stays, Frees
  <1> QED
    BY <1>1, <1>2 DEF Next, Stays, Frees

LEMMA OneBlockStep ==
    ASSUME MigInv, OneBlock, [Next]_vars
    PROVE  OneBlock'
  <1>0. /\ \A i \in DOMAIN blk_list : blk_list[i] \in Block /\ blk_list[i].chunk \in Chunk
        /\ cur \in 0 .. NChunks /\ NChunks \in Nat
        /\ \A c \in Chunk : c \in Nat /\ c < NChunks
    BY BlockFields, MigrationAssumption DEF MigInv, TypeOK, Chunk, Block
  <1>1. CASE Stays
    BY <1>0, <1>1, StaysKeeps DEF OneBlock
  <1>2. CASE Frees
    BY <1>2, CleanupFrees DEF Frees, OneBlock
  <1>3. CASE flush_blks
    <2>1. /\ UNCHANGED <<bmds, reads, starts, cur>> /\ blk_list # << >>
          /\ blk_list' \in {blk_list, Tail(blk_list)}
      BY <1>3 DEF flush_blks, FlushStops, boundVars
    <2>2. CASE blk_list' = blk_list
      BY <2>1, <2>2 DEF OneBlock
    <2>3. CASE blk_list' = Tail(blk_list)
      <3>1. \A i \in DOMAIN blk_list' :
               i + 1 \in DOMAIN blk_list /\ blk_list'[i] = blk_list[i + 1] /\ i \in Nat
        BY <2>1, <2>3, NextRead DEF MigInv
      <3> SUFFICES ASSUME bmds, NEW i \in DOMAIN blk_list', blk_list'[i].gen = starts
                   PROVE  /\ blk_list'[i].chunk < cur
                          /\ \A b \in reads : b.gen = starts => b.chunk # blk_list'[i].chunk
                          /\ \A j \in DOMAIN blk_list' :
                                blk_list'[j].gen = starts
                                   /\ blk_list'[i].chunk = blk_list'[j].chunk => i = j
        BY <2>1 DEF OneBlock
      <3>2. i + 1 \in DOMAIN blk_list /\ blk_list[i + 1].gen = starts /\ i \in Nat
        BY <3>1
      <3>3. blk_list[i + 1].chunk < cur
               /\ \A b \in reads : b.gen = starts => b.chunk # blk_list[i + 1].chunk
        BY <3>2 DEF OneBlock
      <3>4. ASSUME NEW j \in DOMAIN blk_list', blk_list'[j].gen = starts,
                   blk_list'[i].chunk = blk_list'[j].chunk
            PROVE  i = j
        <4>1. j + 1 \in DOMAIN blk_list /\ blk_list[j + 1].gen = starts /\ j \in Nat
                 /\ blk_list[i + 1].chunk = blk_list[j + 1].chunk
          BY <3>1, <3>4
        <4>2. i + 1 = j + 1
          BY <3>2, <4>1 DEF OneBlock
        <4> QED
          BY <3>2, <4>1, <4>2
      <3> QED
        BY <3>1, <3>3, <3>4
    <2> QED
      BY <2>1, <2>2, <2>3
  <1>4. CASE mig_save_device_bulk
    <2> DEFINE c == NextCopy
    <2>1. /\ UNCHANGED <<bmds, blk_list, starts>> /\ cur' = c + 1
          /\ reads' = reads \cup {[gen |-> starts, chunk |-> c, data |-> Unread]}
      BY <1>4 DEF mig_save_device_bulk, boundVars
    <2>2. c \in Chunk /\ cur <= c /\ c \in Nat
      BY <1>0, <1>4, NextCopyCorrect DEF mig_save_device_bulk, MigInv
    <2> HIDE DEF c
    <2>3. \A b \in reads' : b \in reads \/ b.chunk = c
      BY <2>1
    <2>4. \A i \in DOMAIN blk_list : bmds /\ blk_list[i].gen = starts =>
             blk_list[i].chunk < c + 1 /\ blk_list[i].chunk # c
      <3>1. \A i \in DOMAIN blk_list : bmds /\ blk_list[i].gen = starts =>
               blk_list[i].chunk < cur /\ blk_list[i].chunk \in Nat
        BY <1>0 DEF OneBlock
      <3>2. \A x \in Nat : x < cur => x < c + 1 /\ x # c
        BY <1>0, <2>2
      <3> QED
        BY <3>1, <3>2
    <2> QED
      BY <2>1, <2>3, <2>4 DEF OneBlock
  <1>5. CASE \E b \in reads : ReadDone(b)
    <2>1. PICK b \in reads : ReadDone(b)
      BY <1>5
    <2>2. UNCHANGED <<bmds, blk_list, starts, cur>>
      BY <2>1 DEF ReadDone
    <2>3. PICK d : reads' = (reads \ {b}) \cup {[b EXCEPT !.data = d]}
      BY <2>1 DEF ReadDone
    <2>4. b \in Block
      BY DEF MigInv, TypeOK
    <2>5. [b EXCEPT !.data = d].gen = b.gen /\ [b EXCEPT !.data = d].chunk = b.chunk
      BY <2>4 DEF Block
    <2>6. \A x \in reads' : \E y \in reads : x.gen = y.gen /\ x.chunk = y.chunk
      BY <2>3, <2>5
    <2> QED
      BY <2>2, <2>6 DEF OneBlock
  <1>6. CASE \E b \in reads : blk_mig_read_cb(b)
    <2>1. PICK b \in reads : blk_mig_read_cb(b)
      BY <1>6
    <2>2. /\ UNCHANGED <<bmds, starts, cur>> /\ reads' = reads \ {b}
          /\ blk_list' = Append(blk_list, b)
      BY <2>1 DEF blk_mig_read_cb, boundVars
    <2> DEFINE n == Len(blk_list)
    <2>3. /\ blk_list \in Seq(Block) /\ b \in Block
          /\ n \in Nat /\ DOMAIN blk_list = 1 .. n /\ DOMAIN blk_list' = 1 .. n + 1
          /\ blk_list'[n + 1] = b /\ \A i \in 1 .. n : blk_list'[i] = blk_list[i]
      BY <2>2, AppendProperties, LenProperties DEF MigInv, TypeOK
    <2> HIDE DEF n
    <2>4. \A i \in 1 .. n + 1 : i \in 1 .. n \/ i = n + 1
      BY <2>3
    <2>5. /\ bmds /\ b.gen = starts => b.chunk < cur
          /\ \A d \in reads' : d.gen = b.gen => d.chunk # b.chunk
      BY <2>2 DEF MigInv, Blocks
    <2> QED
      BY <2>2, <2>3, <2>4, <2>5 DEF OneBlock
  <1>7. CASE \E inc \in BOOLEAN : do_migrate(inc)
    BY <1>7, StartFrees DEF OneBlock
  <1>8. CASE \E limit \in Rates : migrate_fd_connect(limit)
    <2>1. UNCHANGED <<blk_list, starts>> /\ mstate = "active" /\ ~file
      BY <1>8 DEF migrate_fd_connect, boundVars
    <2>2. \A i \in DOMAIN blk_list : blk_list[i].gen < starts /\ blk_list[i].gen \in Nat
      BY <2>1, BlockFields DEF MigInv, Blocks
    <2>3. \A i \in DOMAIN blk_list : blk_list[i].gen # starts
      BY <2>2, BlockFields DEF MigInv
    <2> QED
      BY <2>1, <2>3 DEF OneBlock
  <1> QED
    BY <1>1, <1>2, <1>3, <1>4, <1>5, <1>6, <1>7, <1>8, NextKinds

-----------------------------------------------------------------------------
(* Dirty marks.                                                            *)

\* Clearing a bit loses no mark unnoticed, except that of a chunk that is
\* about to be read.
LEMMA ResetMarks ==
    ASSUME TypeOK, NEW c \in Chunk, bdrv_reset_dirty(c),
           excused' = excused \cup Unmarked(c), NEW d \in Chunk,
           bdrv_get_dirty(d), d < cur \/ inflight[d] # NoWrite
    PROVE  bdrv_get_dirty(d)' \/ d \in excused' \/ (d = c /\ inflight[c] = NoWrite)
  BY DEF bdrv_reset_dirty, bdrv_get_dirty, Unmarked

\* Steps that leave the guest's disk and its bitmap alone.
LEMMA MarksStay ==
    ASSUME MigInv, [Next]_vars,
           ~(\E c \in Chunk : GuestWrite(c) \/ WriteDone(c)),
           ~mig_save_device_bulk, ~blk_mig_save_dirty_blocks, ~RamConverged,
           ~(\E limit \in Rates : migrate_fd_connect(limit))
    PROVE  UNCHANGED <<src, inflight, tracking, dirty>> /\ excused \subseteq excused'
  <1>1. CASE Host \/ BlockSaveLive
    <2>1. \/ \E b \in reads : ReadDone(b)
          \/ flush_blks \/ FlushFails \/ FlushToBulk \/ FlushToEnd
          \/ BulkSkipsRest \/ BulkReadFails \/ BulkStops \/ DirtyReadFails \/ DirtyEnds
      BY <1>1 DEF Host, BlockSaveLive
    <2> QED
      BY <2>1 DEF ReadDone, flush_blks, FlushFails, FlushToBulk, FlushToEnd,
         BulkSkipsRest, BulkReadFails, BulkStops, DirtyReadFails, DirtyEnds, diskVars
  <1>2. CASE ~(Host \/ BlockSaveLive)
    <2>1. \/ \E b \in reads : blk_mig_read_cb(b)
          \/ Drain \/ Break \/ ConnectFails \/ HandlerReturns \/ RamPutFails \/ RamPending
          \/ \E inc \in BOOLEAN : do_migrate(inc)
          \/ qemu_savevm_state_complete \/ CloseFlush \/ buffered_close
          \/ Tick \/ migrate_fd_put_notify \/ migrate_fd_cancel
          \/ \E limit \in Rates : do_migrate_set_speed(limit)
          \/ UNCHANGED vars
      BY <1>2 DEF Next
    <2> QED
      BY <2>1 DEF blk_mig_read_cb, Drain, Break, ConnectFails, HandlerReturns,
         RamPutFails, RamPending, do_migrate, qemu_savevm_state_complete, CloseFlush,
         buffered_close, Tick, migrate_fd_put_notify, migrate_fd_cancel,
         do_migrate_set_speed, vars, diskVars
  <1> QED
    BY <1>1, <1>2

\* Devices appear only when a connection is made.
LEMMA DevicesStay ==
    ASSUME MigInv, [Next]_vars, ~(\E limit \in Rates : migrate_fd_connect(limit)), bmds'
    PROVE  bmds /\ UNCHANGED <<starts, shared>>
  <1>1. CASE Stays
    BY <1>1, StaysKeeps
  <1>2. CASE Frees
    BY <1>2, CleanupFrees DEF Frees
  <1>3. CASE \/ flush_blks \/ mig_save_device_bulk
             \/ \E b \in reads : ReadDone(b)
             \/ \E b \in reads : blk_mig_read_cb(b)
    BY <1>3 DEF flush_blks, mig_save_device_bulk, ReadDone, blk_mig_read_cb, boundVars
  <1>4. CASE \E inc \in BOOLEAN : do_migrate(inc)
    BY <1>4, StartFrees
  <1> QED
    BY <1>1, <1>2, <1>3, <1>4, NextKinds

LEMMA NoticedStep ==
    ASSUME MigInv, Noticed, [Next]_vars
    PROVE  Noticed'
  <1>1. CASE \E limit \in Rates : migrate_fd_connect(limit)
    <2>1. /\ inflight' = inflight /\ dirty' = IF tracking THEN dirty ELSE {}
          /\ excused' = {c \in Chunk : inflight[c] # NoWrite
                                          /\ ~(tracking /\ bdrv_get_dirty(c))}
      BY <1>1 DEF migrate_fd_connect, set_dirty_tracking
    <2>2. tracking'
      BY <1>1, Zenon DEF migrate_fd_connect, set_dirty_tracking
    <2> QED
      BY <2>1, <2>2 DEF Noticed, bdrv_get_dirty
  <1> SUFFICES ASSUME ~(\E limit \in Rates : migrate_fd_connect(limit)), bmds'
               PROVE  Noticed'
    BY <1>1 DEF Noticed
  <1>2. bmds
    BY DevicesStay
  <1>3. CASE \E c \in Chunk : GuestWrite(c)
    <2>1. PICK c \in Chunk : GuestWrite(c)
      BY <1>3
    <2>2. dirty' = dirty \cup {DirtyBit(c)} /\ UNCHANGED <<tracking, excused>>
      BY <1>2, <2>1 DEF GuestWrite, Marked, Noticed
    <2>3. inflight' = [inflight EXCEPT ![c] = writes + 2] /\ inflight \in [Chunk -> Version \cup {NoWrite}]
      BY <2>1 DEF GuestWrite, MigInv, TypeOK
    <2> QED
      BY <1>2, <2>2, <2>3 DEF Noticed, bdrv_get_dirty
  <1>4. CASE \E c \in Chunk : WriteDone(c)
    <2>1. PICK c \in Chunk : WriteDone(c)
      BY <1>4
    <2>2. UNCHANGED <<tracking, dirty, excused>>
      BY <2>1 DEF WriteDone
    <2>3. inflight' = [inflight EXCEPT ![c] = NoWrite] /\ inflight \in [Chunk -> Version \cup {NoWrite}]
      BY <2>1 DEF WriteDone, MigInv, TypeOK
    <2> QED
      BY <1>2, <2>2, <2>3 DEF Noticed, bdrv_get_dirty
  <1>5. CASE mig_save_device_bulk \/ blk_mig_save_dirty_blocks
    <2>1. \E c \in Chunk : bdrv_reset_dirty(c) /\ excused' = excused \cup Unmarked(c)
      BY <1>5, NextCopyCorrect, NextDirtyCorrect
      DEF mig_save_device_bulk, blk_mig_save_dirty_blocks, MigInv
    <2>2. PICK c \in Chunk : bdrv_reset_dirty(c) /\ excused' = excused \cup Unmarked(c)
      BY <2>1
    <2>3. UNCHANGED <<inflight, tracking>>
      BY <1>5 DEF mig_save_device_bulk, blk_mig_save_dirty_blocks
    <2>4. ASSUME NEW d \in Chunk, inflight[d] # NoWrite
          PROVE  bdrv_get_dirty(d)' \/ d \in excused'
      BY <1>2, <2>2, <2>4, ResetMarks DEF Noticed, MigInv
    <2> QED
      BY <1>2, <2>3, <2>4 DEF Noticed
  <1>6. CASE RamConverged
    <2>1. \A c \in Chunk : inflight'[c] = NoWrite
      BY <1>6 DEF RamConverged
    <2>2. tracking' = tracking
      BY <1>6 DEF RamConverged
    <2> QED
      BY <1>2, <2>1, <2>2 DEF Noticed
  <1>7. CASE /\ ~(\E c \in Chunk : GuestWrite(c) \/ WriteDone(c))
             /\ ~mig_save_device_bulk /\ ~blk_mig_save_dirty_blocks /\ ~RamConverged
    BY <1>2, <1>7, MarksStay DEF Noticed, bdrv_get_dirty
  <1> QED
    BY <1>3, <1>4, <1>5, <1>6, <1>7

-----------------------------------------------------------------------------
(* What the output file holds.                                             *)

LEMMA HeadMsg ==
    ASSUME MigInv, flush_blks, Live(Head(blk_list))
    PROVE  LET h == Head(blk_list) IN
           /\ h = blk_list[1] /\ 1 \in DOMAIN blk_list /\ h.chunk \in Chunk
           /\ BlockMsg(h) \in Msg /\ BlockMsg(h) # Eof
           /\ \A c : IsFor(BlockMsg(h), c) <=> c = h.chunk
           /\ BlockMsg(h).data = h.data /\ h.data # Failed
           /\ Put(BlockMsg(h)) /\ blk_list' = Tail(blk_list)
  <1>1. blk_list # << >> /\ Head(blk_list).data # Failed
    BY DEF flush_blks, FlushStops, ReadFailed
  <1>2. Head(blk_list) = blk_list[1] /\ 1 \in DOMAIN blk_list /\ Head(blk_list) \in Block
    BY <1>1, NextRead DEF MigInv
  <1>3. BlockMsg(Head(blk_list)) \in Msg /\ BlockMsg(Head(blk_list)) # Eof
    BY <1>1, BlockMsgType DEF MigInv
  <1>4. Put(BlockMsg(Head(blk_list))) /\ blk_list' = Tail(blk_list)
    BY DEF flush_blks
  <1>5. Head(blk_list).chunk \in Chunk
    BY <1>2 DEF Block
  <1>6. /\ BlockMsg(Head(blk_list)).chunk = Head(blk_list).chunk
        /\ BlockMsg(Head(blk_list)).data = Head(blk_list).data
    BY DEF BlockMsg
  <1> QED
    BY <1>1, <1>2, <1>3, <1>4, <1>5, <1>6 DEF IsFor

LEMMA DirtyMsg ==
    ASSUME MigInv, blk_mig_save_dirty_blocks
    PROVE  LET m == [chunk |-> NextDirty, data |-> src[NextDirty]] IN
           /\ NextDirty \in Chunk /\ NextDirty < cur /\ NextDirty \notin PartialChunks
           /\ m \in Msg /\ m # Eof /\ Put(m)
           /\ \A c : IsFor(m, c) <=> c = NextDirty
           /\ m.data = src[NextDirty]
  <1> DEFINE m == [chunk |-> NextDirty, data |-> src[NextDirty]]
  <1>1. /\ NextDirty \in Chunk /\ NextDirty \in 0 .. (cur - 1) /\ NextDirty \notin PartialChunks
    BY NextDirtyCorrect DEF blk_mig_save_dirty_blocks, MigInv, DirtyChunks
  <1>2. m \in Msg /\ m # Eof
    BY <1>1 DEF Msg, Eof, MigInv, TypeOK
  <1>3. Put(m)
    BY DEF blk_mig_save_dirty_blocks
  <1>4. NextDirty < cur
    BY <1>1 DEF MigInv, TypeOK
  <1>5. \A c : IsFor(m, c) <=> c = NextDirty
    BY <1>2 DEF IsFor
  <1> QED
    BY <1>1, <1>2, <1>3, <1>4, <1>5

\* Steps that neither put nor send.
LEMMA FileStays ==
    ASSUME MigInv, [Next]_vars,
           ~flush_blks, ~blk_mig_save_dirty_blocks, ~qemu_savevm_state_complete,
           ~CloseFlush, ~Tick, ~migrate_fd_put_notify,
           ~(\E inc \in BOOLEAN : do_migrate(inc)),
           ~(\E limit \in Rates : migrate_fd_connect(limit))
    PROVE  bf'.buffer = bf.buffer /\ UNCHANGED <<dst, eof>>
  <1>1. CASE Host \/ BlockSaveLive
    <2>1. \/ \E c \in Chunk : WriteDone(c)
          \/ \E b \in reads : ReadDone(b)
          \/ FlushFails \/ FlushToBulk \/ FlushToEnd \/ mig_save_device_bulk
          \/ BulkSkipsRest \/ BulkReadFails \/ BulkStops \/ DirtyReadFails \/ DirtyEnds
      BY <1>1 DEF Host, BlockSaveLive
    <2> QED
      BY <2>1 DEF WriteDone, ReadDone, FlushFails, FlushToBulk, FlushToEnd,
         mig_save_device_bulk, BulkSkipsRest, BulkReadFails, BulkStops, DirtyReadFails,
         DirtyEnds, fileVars, dstVars
  <1>2. CASE Drain \/ Break \/ \E limit \in Rates : do_migrate_set_speed(limit)
    <2>1. bf'.buffer = bf.buffer
      BY <1>2, FileTypes
    <2> QED
      BY <1>2, <2>1 DEF Drain, Break, do_migrate_set_speed, dstVars
  <1>3. CASE RamPutFails
    BY <1>3, RamPutStep
  <1>4. CASE \/ \E c \in Chunk : GuestWrite(c)
             \/ \E b \in reads : blk_mig_read_cb(b)
             \/ ConnectFails \/ HandlerReturns \/ RamPending \/ RamConverged
             \/ buffered_close \/ migrate_fd_cancel \/ UNCHANGED vars
    BY <1>4 DEF GuestWrite, blk_mig_read_cb, ConnectFails, HandlerReturns, RamPending,
       RamConverged, buffered_close, migrate_fd_cancel, vars, fileVars, dstVars
  <1> QED
    BY <1>1, <1>2, <1>3, <1>4 DEF Next

LEMMA StateStays ==
    ASSUME MigInv, [Next]_vars, ~buffered_close,
           ~(\E inc \in BOOLEAN : do_migrate(inc)),
           ~(\E limit \in Rates : migrate_fd_connect(limit))
    PROVE  file' = file /\ (mstate' = "active" => mstate = "active")
  <1>1. CASE Host \/ BlockSaveLive
    BY <1>1 DEF Host, BlockSaveLive, WriteDone, ReadDone, flush_blks, FlushFails,
       FlushToBulk, FlushToEnd, mig_save_device_bulk, BulkSkipsRest, BulkReadFails,
       BulkStops, blk_mig_save_dirty_blocks, DirtyReadFails, DirtyEnds, fileVars, migVars
  <1>2. CASE ~(Host \/ BlockSaveLive)
    BY <1>2 DEF Next, GuestWrite, blk_mig_read_cb, Drain, Break, ConnectFails,
       HandlerReturns, RamPutFails, RamPending, RamConverged, qemu_savevm_state_complete,
       CloseFlush, Tick, migrate_fd_put_notify, migrate_fd_cancel, do_migrate_set_speed,
       CloseWith, vars, fileVars, migVars
  <1> QED
    BY <1>1, <1>2

LEMMA FreshStep ==
    ASSUME MigInv, Fresh, [Next]_vars
    PROVE  Fresh'
  <1>1. CASE \E inc \in BOOLEAN : do_migrate(inc)
    BY <1>1 DEF do_migrate, Fresh
  <1>2. CASE \E limit \in Rates : migrate_fd_connect(limit)
    <2>1. file'
      BY <1>2, Zenon DEF migrate_fd_connect
    <2> QED
      BY <2>1 DEF Fresh
  <1>3. CASE buffered_close
    <2>1. mstate' \in {"completed", "error", "cancelled"}
      BY <1>3 DEF buffered_close, MigInv, Control
    <2> QED
      BY <2>1 DEF Fresh
  <1>4. CASE /\ ~buffered_close
             /\ ~(\E inc \in BOOLEAN : do_migrate(inc))
             /\ ~(\E limit \in Rates : migrate_fd_connect(limit))
    <2> SUFFICES ASSUME mstate' = "active", ~file', shared'
                 PROVE  \A c \in Chunk : dst'[c] = 0
      BY DEF Fresh
    <2>1. mstate = "active" /\ ~file /\ pc = "idle"
      BY <1>4, StateStays DEF MigInv, Control
    <2>2. /\ ~flush_blks /\ ~blk_mig_save_dirty_blocks /\ ~qemu_savevm_state_complete
          /\ ~CloseFlush /\ ~Tick /\ ~migrate_fd_put_notify /\ ~mig_save_device_bulk
      BY <2>1 DEF flush_blks, blk_mig_save_dirty_blocks, qemu_savevm_state_complete,
         CloseFlush, Tick, migrate_fd_put_notify, mig_save_device_bulk
    <2>3. dst' = dst
      BY <1>4, <2>2, FileStays
    <2>4. shared' = shared
      <3>1. CASE Stays
        BY <3>1, StaysKeeps
      <3>2. CASE Frees
        BY <3>2 DEF Frees, FlushFails, DirtyReadFails, DirtyEnds, migrate_fd_cancel,
           HandlerReturns
      <3>3. CASE \/ \E b \in reads : ReadDone(b)
                 \/ \E b \in reads : blk_mig_read_cb(b)
        BY <3>3 DEF ReadDone, blk_mig_read_cb
      <3> QED
        BY <1>4, <2>2, <3>1, <3>2, <3>3, NextKinds
    <2> QED
      BY <2>1, <2>3, <2>4 DEF Fresh
  <1> QED
    BY <1>1, <1>2, <1>3, <1>4

\* The bulk phase only goes forward.
LEMMA BulkForward ==
    ASSUME MigInv, [Next]_vars, ~(\E limit \in Rates : migrate_fd_connect(limit)), bmds'
    PROVE  cur <= cur' /\ cur \in 0 .. NChunks /\ cur' \in 0 .. NChunks /\ NChunks \in Nat
  <1>1. cur \in 0 .. NChunks /\ cur' \in 0 .. NChunks /\ NChunks \in Nat
    <2>1. MigInv'
      BY MigStep
    <2> QED
      BY <2>1, MigrationAssumption DEF MigInv, TypeOK
  <1>2. CASE Stays
    BY <1>1, <1>2, StaysKeeps
  <1>3. CASE Frees
    BY <1>3, CleanupFrees DEF Frees
  <1>4. CASE \/ flush_blks
             \/ \E b \in reads : ReadDone(b)
             \/ \E b \in reads : blk_mig_read_cb(b)
    <2>1. cur' = cur
      BY <1>4 DEF flush_blks, ReadDone, blk_mig_read_cb
    <2> QED
      BY <1>1, <2>1
  <1>5. CASE mig_save_device_bulk
    <2>1. cur' = NextCopy + 1 /\ cur <= NextCopy /\ NextCopy \in Chunk
      BY <1>5, NextCopyCorrect DEF mig_save_device_bulk, MigInv
    <2> QED
      BY <1>1, <2>1 DEF Chunk
  <1>6. CASE \E inc \in BOOLEAN : do_migrate(inc)
    BY <1>6, StartFrees
  <1> QED
    BY <1>1, <1>2, <1>3, <1>4, <1>5, <1>6, NextKinds

LEMMA UnpassedStep ==
    ASSUME MigInv, OneBlock, Fresh, Unpassed, [Next]_vars
    PROVE  Unpassed'
  <1>1. CASE \E limit \in Rates : migrate_fd_connect(limit)
    <2>1. bf'.buffer = << >> /\ UNCHANGED <<dst, shared>> /\ mstate = "active" /\ ~file
      BY <1>1 DEF migrate_fd_connect, qemu_fopen_ops_buffered, dstVars
    <2>2. \A c : Silent(bf'.buffer, c)
      BY <2>1 DEF Silent
    <2> QED
      BY <2>1, <2>2 DEF Fresh, Unpassed
  <1> SUFFICES ASSUME ~(\E limit \in Rates : migrate_fd_connect(limit)), bmds'
               PROVE  Unpassed'
    BY <1>1 DEF Unpassed
  <1>2. bmds /\ shared' = shared /\ pc \notin {"complete", "close"}
    BY DevicesStay DEF MigInv, Control
  <1>3. cur <= cur' /\ cur \in Nat /\ cur' \in Nat
    BY BulkForward
  <1>4. \A c \in Chunk : c \in Nat
    BY DEF Chunk
  <1>5. ASSUME \A c \in Chunk : c >= cur /\ Silent(bf.buffer, c) =>
                                   Silent(bf'.buffer, c) /\ dst'[c] = dst[c]
        PROVE  Unpassed'
    <2>1. \A c \in Chunk : c >= cur' => c >= cur
      BY <1>3, <1>4
    <2> QED
      BY <1>2, <1>5, <2>1 DEF Unpassed
  <1>6. CASE flush_blks
    <2>1. CASE Live(Head(blk_list))
      <3> DEFINE h == Head(blk_list)
      <3>1. /\ h = blk_list[1] /\ 1 \in DOMAIN blk_list /\ h.chunk \in Chunk
            /\ BlockMsg(h) \in Msg /\ Put(BlockMsg(h))
            /\ \A c : IsFor(BlockMsg(h), c) <=> c = h.chunk
        BY <1>6, <2>1, HeadMsg
      <3>2. h.chunk < cur
        BY <1>2, <2>1, <3>1 DEF OneBlock, Live
      <3>3. \A c \in Chunk : c >= cur => ~IsFor(BlockMsg(h), c)
        BY <1>3, <1>4, <3>1, <3>2
      <3> HIDE DEF h
      <3> QED
        BY <1>5, <3>1, <3>3, PutCopies
    <2>2. CASE ~Live(Head(blk_list))
      BY <1>5, <1>6, <2>2 DEF flush_blks, dstVars
    <2> QED
      BY <2>1, <2>2
  <1>7. CASE blk_mig_save_dirty_blocks
    <2> DEFINE m == [chunk |-> NextDirty, data |-> src[NextDirty]]
    <2>1. /\ NextDirty \in Chunk /\ NextDirty < cur /\ m \in Msg /\ Put(m)
          /\ \A c : IsFor(m, c) <=> c = NextDirty
      BY <1>7, DirtyMsg
    <2>2. \A c \in Chunk : c >= cur => ~IsFor(m, c)
      BY <1>3, <1>4, <2>1
    <2> HIDE DEF m
    <2> QED
      BY <1>5, <2>1, <2>2, PutCopies
  <1>8. CASE Tick \/ migrate_fd_put_notify
    BY <1>5, <1>8, SendCopies DEF SameSilence
  <1>9. ~qemu_savevm_state_complete /\ ~CloseFlush /\ ~(\E inc \in BOOLEAN : do_migrate(inc))
    BY <1>2, StartFrees DEF qemu_savevm_state_complete, CloseFlush
  <1>10. CASE /\ ~flush_blks /\ ~blk_mig_save_dirty_blocks
              /\ ~Tick /\ ~migrate_fd_put_notify
    <2>1. bf'.buffer = bf.buffer /\ dst' = dst
      BY <1>9, <1>10, FileStays
    <2> QED
      BY <1>5, <2>1
  <1> QED
    BY <1>6, <1>7, <1>8, <1>10

-----------------------------------------------------------------------------
(* Stage 3 and the end.                                                    *)

LateAt == {"flush1", "bulk", "flush2", "dirty"}

\* Stage 3 is entered when the RAM has converged, and only then.
LEMMA LateEntry ==
    ASSUME MigInv, [Next]_vars, ~RamConverged, stage' = 3,
           pc' \in LateAt \cup {"complete"}
    PROVE  /\ stage = 3 /\ pc \in LateAt \cup {"complete"}
           /\ pc' \in LateAt => pc \in LateAt /\ ~Frees
  <1>1. pc \in {"idle", "flush1", "bulk", "flush2", "dirty", "ram", "return0",
                "complete", "close"}
    BY DEF MigInv, TypeOK
  <1>2. CASE Host \/ BlockSaveLive
    BY <1>1, <1>2 DEF Host, BlockSaveLive, WriteDone, ReadDone, flush_blks, FlushFails,
       FlushToBulk, FlushToEnd, mig_save_device_bulk, BulkSkipsRest, BulkReadFails,
       BulkStops, blk_mig_save_dirty_blocks, DirtyReadFails, DirtyEnds, LateAt, Frees,
       migrate_fd_cancel, HandlerReturns, Idle, AfterFailedFlush
  <1>3. CASE ~(Host \/ BlockSaveLive)
    <2>1. \/ \E c \in Chunk : GuestWrite(c)
          \/ \E b \in reads : blk_mig_read_cb(b)
          \/ Drain \/ Break \/ ConnectFails \/ HandlerReturns \/ RamPutFails \/ RamPending
          \/ \E inc \in BOOLEAN : do_migrate(inc)
          \/ \E limit \in Rates : migrate_fd_connect(limit)
          \/ qemu_savevm_state_complete \/ CloseFlush \/ buffered_close
          \/ Tick \/ migrate_fd_put_notify \/ migrate_fd_cancel
          \/ \E limit \in Rates : do_migrate_set_speed(limit)
          \/ UNCHANGED vars
      BY <1>3 DEF Next
    <2>2. stage = 3 /\ pc' = pc
      BY <1>1, <2>1 DEF GuestWrite, blk_mig_read_cb, Drain, Break, ConnectFails,
         HandlerReturns, RamPutFails, RamPending, do_migrate, migrate_fd_connect,
         qemu_savevm_state_complete, CloseFlush, buffered_close, Tick,
         migrate_fd_put_notify, migrate_fd_cancel, do_migrate_set_speed, vars, LateAt,
         CloseWith, EnterStage
    <2>3. pc \in LateAt => ~Frees
      BY <2>2, <1>3 DEF Frees, BlockSaveLive, migrate_fd_cancel, HandlerReturns, Idle, LateAt
    <2> QED
      BY <2>2, <2>3
  <1> QED
    BY <1>2, <1>3

LEMMA EofPut ==
    ASSUME MigInv, Done, [Next]_vars, eof'
    PROVE  \/ eof
           \/ qemu_savevm_state_complete
           \/ CloseFlush /\ pc = "close" /\ outcome = "completed" /\ Holds(bf.buffer, Eof)
  <1>1. CASE flush_blks \/ blk_mig_save_dirty_blocks
    <2>1. pc' # "close" /\ mstate = "active" /\ mstate' = mstate
      BY <1>1 DEF flush_blks, blk_mig_save_dirty_blocks, MigInv, Control, migVars
    <2>2. EndOfStream'
      BY <1>1, EndOfPut
    <2> QED
      BY <2>1, <2>2 DEF EndOfStream
  <1>2. CASE Tick \/ migrate_fd_put_notify
    <2>1. pc' # "close" /\ mstate = "active" /\ mstate' = mstate
      BY <1>2 DEF Tick, migrate_fd_put_notify, Idle, EnterStage, MigInv, Control, migVars
    <2>2. EndOfStream'
      BY <1>2, EndOfSend
    <2> QED
      BY <2>1, <2>2 DEF EndOfStream
  <1>3. CASE CloseFlush
    <2>1. pc = "close" /\ (eof \/ Holds(bf.buffer, Eof))
      BY <1>3, TickFile DEF CloseFlush
    <2> QED
      BY <1>3, <2>1 DEF Done
  <1>4. CASE \E inc \in BOOLEAN : do_migrate(inc)
    <2>1. ~eof'
      BY <1>4, Zenon DEF do_migrate
    <2> QED
      BY <2>1
  <1>5. CASE \E limit \in Rates : migrate_fd_connect(limit)
    BY <1>5 DEF migrate_fd_connect, dstVars
  <1> QED
    BY <1>1, <1>2, <1>3, <1>4, <1>5, FileStays

\* The steps that set an outcome.
LEMMA CloseEntry ==
    ASSUME MigInv, [Next]_vars, pc' = "close"
    PROVE  \/ pc = "close" /\ outcome' = outcome
           \/ pc = "complete" /\ qemu_savevm_state_complete
                 /\ outcome' = IF has_error THEN "error" ELSE "completed"
           \/ /\ outcome' \in {"error", "cancelled"}
              /\ HandlerReturns \/ (migrate_fd_cancel /\ file)
  <1>1. ~Host /\ ~BlockSaveLive
    BY DEF Host, BlockSaveLive, WriteDone, ReadDone, flush_blks, FlushFails,
       FlushToBulk, FlushToEnd, mig_save_device_bulk, BulkSkipsRest, BulkReadFails,
       BulkStops, blk_mig_save_dirty_blocks, DirtyReadFails, DirtyEnds, Idle,
       AfterFailedFlush
  <1> QED
    BY <1>1 DEF Next, GuestWrite, blk_mig_read_cb, Drain, Break, ConnectFails,
       HandlerReturns, RamPutFails, RamPending, RamConverged, do_migrate,
       migrate_fd_connect, qemu_savevm_state_complete, CloseFlush, buffered_close, Tick,
       migrate_fd_put_notify, migrate_fd_cancel, do_migrate_set_speed, vars, migVars,
       CloseWith, EnterStage, Idle

\* From stage 3 on the guest's disk is still.
Still == \/ stage = 3 /\ pc \in LateAt \cup {"complete"}
         \/ pc = "close" /\ outcome = "completed"
         \/ eof

LEMMA StillStep ==
    ASSUME MigInv, Done, [Next]_vars, ~RamConverged, Still'
    PROVE  Still
  <1>1. CASE stage' = 3 /\ pc' \in LateAt \cup {"complete"}
    BY <1>1, LateEntry DEF Still
  <1>2. CASE pc' = "close" /\ outcome' = "completed"
    BY <1>2, CloseEntry DEF Still, MigInv, Control
  <1>3. CASE eof'
    BY <1>3, EofPut DEF Still, MigInv, Control, qemu_savevm_state_complete
  <1> QED
    BY <1>1, <1>2, <1>3 DEF Still

\* Nor does it change after that.
LEMMA StillDisk ==
    ASSUME MigInv, Late, Still, [Next]_vars
    PROVE  UNCHANGED <<src, inflight>>
  <1>1. \A c \in Chunk : inflight[c] = NoWrite
    BY DEF Late, Still, LateAt
  <1>2. pc = "idle" => ~running
    BY DEF Still, LateAt, MigInv, EndOfStream
  <1>3. ~(\E c \in Chunk : GuestWrite(c) \/ WriteDone(c))
    BY <1>1, <1>2 DEF GuestWrite, WriteDone, Idle
  <1>4. CASE RamConverged
    <2>1. pc = "ram" /\ file /\ mstate = "active"
      BY <1>4 DEF RamConverged, MigInv, Control
    <2> QED
      BY <2>1 DEF Still, LateAt, MigInv, EndOfStream
  <1>5. CASE mig_save_device_bulk \/ blk_mig_save_dirty_blocks
    BY <1>5 DEF mig_save_device_bulk, blk_mig_save_dirty_blocks
  <1>6. CASE \E limit \in Rates : migrate_fd_connect(limit)
    BY <1>6 DEF migrate_fd_connect
  <1> QED
    BY <1>3, <1>4, <1>5, <1>6, MarksStay

LEMMA LateStep ==
    ASSUME MigInv, Late, Done, [Next]_vars
    PROVE  Late'
  <1>1. ASSUME pc' = "ram"
        PROVE  cur' = NChunks
    <2>1. CASE FlushToEnd
      <3>1. bmds /\ is_stage2_completed /\ cur' = cur
        BY <1>1, <2>1 DEF FlushToEnd, MigInv, Control, blkVars
      <3> QED
        BY <3>1 DEF is_stage2_completed
    <2>2. CASE ~FlushToEnd
      <3>1. pc = "ram"
        BY <1>1, <2>2 DEF Next, Host, BlockSaveLive, WriteDone, ReadDone, flush_blks,
           FlushFails, FlushToBulk, mig_save_device_bulk, BulkSkipsRest, BulkReadFails,
           BulkStops, blk_mig_save_dirty_blocks, DirtyReadFails, DirtyEnds, Idle,
           AfterFailedFlush, GuestWrite, blk_mig_read_cb, Drain, Break, ConnectFails,
           HandlerReturns, RamPutFails, RamPending, RamConverged, do_migrate,
           migrate_fd_connect, qemu_savevm_state_complete, CloseFlush, buffered_close,
           Tick, migrate_fd_put_notify, migrate_fd_cancel, do_migrate_set_speed, vars,
           CloseWith, EnterStage
      <3>2. Stays
        BY <1>1, <3>1, NextKinds DEF Frees, FlushFails, DirtyReadFails, DirtyEnds,
           migrate_fd_cancel, HandlerReturns, flush_blks, mig_save_device_bulk, ReadDone,
           blk_mig_read_cb, do_migrate, migrate_fd_connect, Idle
      <3> QED
        BY <3>1, <3>2, StaysKeeps DEF Late
    <2> QED
      BY <2>1, <2>2
  <1>2. ASSUME Alive', stage' = 3, pc' \in LateAt
        PROVE  cur' = NChunks /\ reads' = {}
    <2>1. CASE RamConverged
      <3>1. pc = "ram" /\ submitted <= 0 /\ submitted \in Int /\ UNCHANGED <<cur, reads>>
        BY <2>1 DEF RamConverged, MigInv, Control, TypeOK, blkVars
      <3>2. ~(Cardinality(reads) > submitted)
        BY <1>2, <2>1 DEF RamConverged, Alive
      <3>3. IsFiniteSet(reads) /\ Cardinality(reads) \in Nat
        BY FS_CardinalityType DEF MigInv, Blocks
      <3>4. Cardinality(reads) = 0
        BY <3>1, <3>2, <3>3
      <3>5. reads = {}
        BY <3>3, <3>4, FS_EmptySet
      <3> QED
        BY <3>1, <3>5 DEF Late
    <2>2. CASE ~RamConverged
      <3>1. stage = 3 /\ pc \in LateAt /\ ~Frees
        BY <1>2, <2>2, LateEntry
      <3>2. Alive
        BY <1>2 DEF Next, Host, BlockSaveLive, WriteDone, ReadDone, flush_blks,
           FlushFails, FlushToBulk, FlushToEnd, mig_save_device_bulk, BulkSkipsRest,
           BulkReadFails, BulkStops, blk_mig_save_dirty_blocks, DirtyReadFails, DirtyEnds,
           Idle, GuestWrite, blk_mig_read_cb, Drain, Break, ConnectFails, HandlerReturns,
           RamPutFails, RamPending, RamConverged, do_migrate, migrate_fd_connect,
           qemu_savevm_state_complete, CloseFlush, buffered_close, Tick, Alive,
           migrate_fd_put_notify, migrate_fd_cancel, do_migrate_set_speed, vars
      <3>3. cur = NChunks /\ reads = {}
        BY <3>1, <3>2 DEF Late, LateAt
      <3>4. ~mig_save_device_bulk
        BY <3>3, MigrationAssumption DEF mig_save_device_bulk, BulkRoom
      <3>5. CASE Stays
        BY <3>3, <3>5, StaysKeeps
      <3>6. CASE flush_blks
        BY <3>3, <3>6 DEF flush_blks
      <3>7. /\ ~(\E b \in reads : ReadDone(b)) /\ ~(\E b \in reads : blk_mig_read_cb(b))
            /\ ~(\E inc \in BOOLEAN : do_migrate(inc))
            /\ ~(\E limit \in Rates : migrate_fd_connect(limit))
        BY <3>1 DEF ReadDone, blk_mig_read_cb, do_migrate, migrate_fd_connect, Idle, LateAt
      <3> QED
        BY <3>1, <3>4, <3>5, <3>6, <3>7, NextKinds
    <2> QED
      BY <2>1, <2>2
  <1>3. ASSUME Still'
        PROVE  \A c \in Chunk : inflight'[c] = NoWrite
    <2>1. CASE RamConverged
      BY <2>1 DEF RamConverged
    <2>2. CASE ~RamConverged
      <3>1. Still
        BY <1>3, <2>2, StillStep
      <3> QED
        BY <3>1, StillDisk DEF Late, Still, LateAt
    <2> QED
      BY <2>1, <2>2
  <1> QED
    BY <1>1, <1>2, <1>3 DEF Late, Still, LateAt

-----------------------------------------------------------------------------
(* The newest contents of a chunk on their way.                            *)

\* An error stays until the next connection, and a fault for good.
LEMMA ErrorStays ==
    ASSUME MigInv, [Next]_vars, ~(\E limit \in Rates : migrate_fd_connect(limit)),
           ~has_error', Alive'
    PROVE  ~has_error /\ Alive
  <1>1. CASE flush_blks
    <2>1. CASE Live(Head(blk_list))
      BY <1>1, <2>1, HeadMsg, PutCopies DEF flush_blks
    <2>2. CASE ~Live(Head(blk_list))
      BY <1>1, <2>2 DEF flush_blks
    <2> QED
      BY <2>1, <2>2
  <1>2. CASE blk_mig_save_dirty_blocks
    BY <1>2, DirtyMsg, PutCopies DEF blk_mig_save_dirty_blocks
  <1>3. CASE qemu_savevm_state_complete
    BY <1>3 DEF qemu_savevm_state_complete
  <1>4. CASE Host \/ BlockSaveLive
    <2>1. CASE FlushFails \/ BulkReadFails \/ DirtyReadFails
      <3>1. has_error' = TRUE
        BY <2>1 DEF FlushFails, BulkReadFails, DirtyReadFails
      <3> QED
        BY <3>1
    <2>2. CASE ~(FlushFails \/ BulkReadFails \/ DirtyReadFails)
      BY <1>1, <1>2, <1>4, <2>2 DEF Host, BlockSaveLive, WriteDone, ReadDone, FlushToBulk,
         FlushToEnd, mig_save_device_bulk, BulkSkipsRest, BulkStops, DirtyEnds, Idle,
         fileVars
    <2> QED
      BY <2>1, <2>2
  <1>5. CASE RamPutFails
    <2>1. has_error' = TRUE
      BY <1>5 DEF RamPutFails
    <2> QED
      BY <2>1
  <1>6. CASE /\ ~Host /\ ~BlockSaveLive /\ ~qemu_savevm_state_complete /\ ~RamPutFails
             /\ ~UNCHANGED vars
    BY <1>6 DEF Next, GuestWrite, blk_mig_read_cb, Drain, Break, ConnectFails,
       HandlerReturns, RamPending, RamConverged, do_migrate, CloseFlush, buffered_close,
       Tick, migrate_fd_put_notify, migrate_fd_cancel, do_migrate_set_speed, Idle,
       fileVars
  <1>7. CASE UNCHANGED vars
    BY <1>7 DEF vars, fileVars, Alive
  <1> QED
    BY <1>3, <1>4, <1>5, <1>6, <1>7

\* What every step of this section starts from.
LEMMA PassedNow ==
    ASSUME MigInv, Passed, [Next]_vars, ~(\E limit \in Rates : migrate_fd_connect(limit)),
           bmds', Alive', ~has_error'
    PROVE  /\ bmds /\ Alive /\ ~has_error /\ UNCHANGED <<starts, shared>>
           /\ \A c \in Chunk : c < cur => bdrv_get_dirty(c) \/ Lost(c) \/ OnTheWay(c)
           /\ pc \notin {"complete", "close"}
  BY ErrorStays, DevicesStay DEF Passed, MigInv, Control

\* Nothing happens to the blocks of a chunk or to its place in the file.
LEMMA WayKept ==
    ASSUME NEW c, OnTheWay(c), bmds' = bmds, UNCHANGED <<starts, reads, blk_list>>,
           src'[c] = src[c], pc' = "dirty" <=> pc = "dirty",
           Arrives(c, src[c]) => Newest(bf'.buffer, c, dst'[c], src[c])
    PROVE  OnTheWay(c)'
  <1>1. /\ \A b : Live(b)' <=> Live(b)
        /\ \A b : Reading(b, c)' <=> Reading(b, c)
        /\ \A i : Listed(i, c)' <=> Listed(i, c)
    BY DEF Live, Reading, Listed
  <1>2. Arrives(c, src[c]) => Arrives(c, src[c])'
    BY DEF Arrives
  <1> QED
    BY <1>1, <1>2 DEF OnTheWay

LEMMA PassedKept ==
    ASSUME Passed, bmds, Alive, ~has_error,
           UNCHANGED <<bmds, cur, starts, reads, blk_list>>,
           pc' = "dirty" <=> pc = "dirty", SameCopies, excused \subseteq excused',
           \A c \in Chunk : c < cur =>
              \/ bdrv_get_dirty(c) => bdrv_get_dirty(c)'
              \/ c \in excused',
           \A c \in Chunk : c < cur =>
              \/ src'[c] = src[c]
              \/ bdrv_get_dirty(c)' \/ c \in excused'
    PROVE  Passed'
  <1> SUFFICES ASSUME NEW c \in Chunk, c < cur
               PROVE  bdrv_get_dirty(c)' \/ Lost(c)' \/ OnTheWay(c)'
    BY DEF Passed
  <1>1. bdrv_get_dirty(c) \/ Lost(c) \/ OnTheWay(c)
    BY DEF Passed
  <1>2. Lost(c) => Lost(c)'
    BY DEF Lost
  <1>3. CASE bdrv_get_dirty(c)
    BY <1>3 DEF Lost
  <1>4. CASE OnTheWay(c) /\ ~Lost(c)
    <2>1. c \in Chunk \ PartialChunks
      BY <1>4 DEF Lost
    <2>2. Arrives(c, src[c]) => Newest(bf'.buffer, c, dst'[c], src[c])
      BY <2>1 DEF SameCopies, Arrives
    <2>3. CASE src'[c] = src[c]
      BY <1>4, <2>2, <2>3, WayKept
    <2> QED
      BY <2>3 DEF Lost
  <1> QED
    BY <1>1, <1>2, <1>3, <1>4

\* Steps of the file and of the main loop that touch no chunk.
LEMMA PassedQuiet ==
    ASSUME MigInv, Passed, [Next]_vars, Stays, bmds', Alive', ~has_error',
           ~(\E c \in Chunk : GuestWrite(c) \/ WriteDone(c)),
           ~FlushToEnd, ~BulkSkipsRest, ~blk_mig_save_dirty_blocks, ~RamConverged,
           ~(\E limit \in Rates : migrate_fd_connect(limit)), ~mig_save_device_bulk,
           ~flush_blks, ~(\E inc \in BOOLEAN : do_migrate(inc))
    PROVE  Passed'
  <1>1. bmds /\ Alive /\ ~has_error /\ pc \notin {"complete", "close"}
    BY PassedNow
  <1>2. UNCHANGED <<bmds, reads, blk_list, starts>>
    BY StaysKeeps
  <1>3. UNCHANGED <<src, dirty>> /\ excused \subseteq excused'
    BY MarksStay
  <1>4. ~qemu_savevm_state_complete /\ ~CloseFlush /\ ~buffered_close
    BY <1>1 DEF qemu_savevm_state_complete, CloseFlush, buffered_close
  <1>5. SameCopies
    <2>1. CASE Tick \/ migrate_fd_put_notify
      BY <2>1, SendCopies
    <2>2. CASE ~(Tick \/ migrate_fd_put_notify)
      BY <1>4, <2>2, FileStays DEF SameCopies
    <2> QED
      BY <2>1, <2>2
  <1>6. cur' = cur /\ (pc' = "dirty" <=> pc = "dirty")
    <2>1. \/ Drain \/ Break \/ FlushToBulk \/ BulkReadFails \/ BulkStops \/ ConnectFails
          \/ HandlerReturns \/ RamPutFails \/ RamPending \/ Tick \/ migrate_fd_put_notify
          \/ \E limit \in Rates : do_migrate_set_speed(limit)
          \/ UNCHANGED vars
      BY <1>4 DEF Stays
    <2> QED
      BY <2>1 DEF Drain, Break, FlushToBulk, BulkReadFails, BulkStops, ConnectFails,
         HandlerReturns, RamPutFails, RamPending, Tick, migrate_fd_put_notify,
         do_migrate_set_speed, vars, blkVars, CloseWith, EnterStage, Idle
  <1>7. \A c \in Chunk : bdrv_get_dirty(c) => bdrv_get_dirty(c)'
    BY <1>3 DEF bdrv_get_dirty
  <1> QED
    BY <1>1, <1>2, <1>3, <1>5, <1>6, <1>7, PassedKept

\* The guest's writes, submitted, completed, or completed by the flush before
\* stage 3.
LEMMA PassedGuest ==
    ASSUME MigInv, Noticed, Passed, [Next]_vars, bmds', Alive', ~has_error',
           RamConverged \/ \E c \in Chunk : GuestWrite(c) \/ WriteDone(c)
    PROVE  Passed'
  <1>0. ~(\E limit \in Rates : migrate_fd_connect(limit))
    <2>2. CASE RamConverged
      BY <2>2 DEF RamConverged, migrate_fd_connect, Idle
    <2>3. CASE \E c \in Chunk : GuestWrite(c) \/ WriteDone(c)
      <3>1. pc = "idle" /\ pc' = pc
        BY <2>3 DEF GuestWrite, WriteDone, Idle
      <3> QED
        BY <3>1 DEF migrate_fd_connect, EnterStage
    <2> QED
      BY <2>2, <2>3
  <1>1. bmds /\ Alive /\ ~has_error
    BY <1>0, PassedNow
  <1>2. /\ UNCHANGED <<bmds, cur, starts, reads, blk_list, excused, dst, bf>>
        /\ pc' = "dirty" <=> pc = "dirty"
    BY DEF RamConverged, GuestWrite, WriteDone, blkVars, fileVars, dstVars, boundVars, Idle,
       EnterStage
  <1>3. SameCopies
    BY <1>2 DEF SameCopies
  <1>4. \A c \in Chunk : bdrv_get_dirty(c) => bdrv_get_dirty(c)'
    <2>1. dirty \subseteq dirty'
      BY DEF RamConverged, GuestWrite, WriteDone, Marked
    <2> QED
      BY <2>1 DEF bdrv_get_dirty
  <1>5. ASSUME NEW c \in Chunk, inflight[c] # NoWrite
        PROVE  bdrv_get_dirty(c)' \/ c \in excused'
    BY <1>1, <1>2, <1>4, <1>5 DEF Noticed
  <1>6. \A c \in Chunk : inflight[c] = NoWrite => src'[c] = src[c]
    <2>1. src \in [Chunk -> Version]
      BY DEF MigInv, TypeOK
    <2> QED
      BY <2>1 DEF RamConverged, GuestWrite, WriteDone
  <1> QED
    BY <1>1, <1>2, <1>3, <1>4, <1>5, <1>6, PassedKept

\* A read is performed, or fails.
LEMMA PassedRead ==
    ASSUME MigInv, Passed, [Next]_vars, bmds', Alive', ~has_error',
           NEW b \in reads, ReadDone(b)
    PROVE  Passed'
  <1>0. /\ UNCHANGED <<bmds, cur, starts, blk_list, excused, dirty, src, dst, bf, pc>>
        /\ pc = "idle" /\ b.data = Unread
    BY DEF ReadDone, diskVars, fileVars, dstVars, Idle
  <1>1. ~(\E limit \in Rates : migrate_fd_connect(limit))
    BY <1>0 DEF migrate_fd_connect, EnterStage
  <1>2. bmds /\ Alive /\ ~has_error
    BY <1>1, PassedNow
  <1>3. PICK d \in {src[b.chunk], Failed} : reads' = (reads \ {b}) \cup {[b EXCEPT !.data = d]}
    BY DEF ReadDone
  <1> DEFINE n == [b EXCEPT !.data = d]
  <1>4. b \in Block /\ n.gen = b.gen /\ n.chunk = b.chunk /\ n.data = d
    BY DEF MigInv, TypeOK, Block
  <1>5. reads' = (reads \ {b}) \cup {n}
    BY <1>3
  <1> HIDE DEF n
  <1> SUFFICES ASSUME NEW c \in Chunk, c < cur
               PROVE  bdrv_get_dirty(c)' \/ Lost(c)' \/ OnTheWay(c)'
    BY <1>0 DEF Passed
  <1>6. bdrv_get_dirty(c) \/ Lost(c) \/ OnTheWay(c)
    BY <1>2 DEF Passed
  <1>7. (bdrv_get_dirty(c) => bdrv_get_dirty(c)') /\ (Lost(c) => Lost(c)')
    BY <1>0 DEF bdrv_get_dirty, Lost
  <1>8. /\ \A x : Reading(x, c)' <=> Reading(x, c)
        /\ \A i : Listed(i, c)' <=> Listed(i, c)
        /\ Reading(n, c) <=> Reading(b, c)
        /\ Arrives(c, src[c])' <=> Arrives(c, src[c])
    BY <1>0, <1>4 DEF Live, Reading, Listed, Arrives
  <1>9. CASE OnTheWay(c)
    <2>1. \A x \in reads' : Reading(x, c) => x.data \in {src[c], Unread, Failed}
      BY <1>3, <1>4, <1>5, <1>8, <1>9 DEF OnTheWay, Reading
    <2>2. (\E x \in reads : Reading(x, c)) => \E x \in reads' : Reading(x, c)
      BY <1>5, <1>8
    <2> QED
      BY <1>0, <1>8, <1>9, <2>1, <2>2 DEF OnTheWay
  <1> QED
    BY <1>6, <1>7, <1>9

\* Its callback moves the block to blk_list.
LEMMA PassedCallback ==
    ASSUME MigInv, OneBlock, Passed, [Next]_vars, bmds', Alive', ~has_error',
           NEW b \in reads, blk_mig_read_cb(b)
    PROVE  Passed'
  <1>0. /\ UNCHANGED <<bmds, cur, starts, excused, dirty, src, dst, bf, pc>>
        /\ pc = "idle" /\ b.data # Unread
        /\ reads' = reads \ {b} /\ blk_list' = Append(blk_list, b)
    BY DEF blk_mig_read_cb, diskVars, fileVars, dstVars, boundVars, Idle
  <1>1. ~(\E limit \in Rates : migrate_fd_connect(limit))
    BY <1>0 DEF migrate_fd_connect, EnterStage
  <1>2. bmds /\ Alive /\ ~has_error
    BY <1>1, PassedNow
  <1>3. PICK n \in Nat :
           /\ DOMAIN blk_list = 1 .. n /\ DOMAIN blk_list' = 1 .. n + 1
           /\ blk_list'[n + 1] = b /\ \A i \in 1 .. n : blk_list'[i] = blk_list[i]
    <2>1. blk_list \in Seq(Block) /\ b \in Block
      BY DEF MigInv, TypeOK
    <2> QED
      BY <1>0, <2>1, AppendProperties, LenProperties
  <1>4. /\ \A i \in 1 .. n + 1 : i \in 1 .. n \/ i = n + 1
        /\ \A i \in 1 .. n : i \in 1 .. n + 1
        /\ n + 1 \in 1 .. n + 1
    BY <1>3
  <1> SUFFICES ASSUME NEW c \in Chunk, c < cur
               PROVE  bdrv_get_dirty(c)' \/ Lost(c)' \/ OnTheWay(c)'
    BY <1>0 DEF Passed
  <1>5. bdrv_get_dirty(c) \/ Lost(c) \/ OnTheWay(c)
    BY <1>2 DEF Passed
  <1>6. (bdrv_get_dirty(c) => bdrv_get_dirty(c)') /\ (Lost(c) => Lost(c)')
    BY <1>0 DEF bdrv_get_dirty, Lost
  <1>7. /\ \A x : Reading(x, c)' <=> Reading(x, c)
        /\ \A i \in 1 .. n : Listed(i, c)' <=> Listed(i, c)
        /\ Listed(n + 1, c)' <=> Reading(b, c)
        /\ Arrives(c, src[c])' <=> Arrives(c, src[c])
    BY <1>0, <1>3 DEF Live, Reading, Listed, Arrives
  <1>8. CASE OnTheWay(c)
    <2>1. \A i \in 1 .. n + 1 : Listed(i, c)' => blk_list'[i].data \in {src[c], Failed}
      BY <1>0, <1>3, <1>4, <1>7, <1>8 DEF OnTheWay
    <2>2. (\E x \in reads : Reading(x, c)) =>
             (\E x \in reads' : Reading(x, c)) \/ Listed(n + 1, c)'
      BY <1>0, <1>7
    <2>3. \/ \E x \in reads' : Reading(x, c)'
          \/ \E i \in 1 .. n + 1 : Listed(i, c)'
          \/ Arrives(c, src[c])'
      BY <1>3, <1>4, <1>7, <1>8, <2>2 DEF OnTheWay
    <2> QED
      BY <1>0, <1>3, <1>7, <1>8, <2>1, <2>3 DEF OnTheWay
  <1> QED
    BY <1>5, <1>6, <1>8

\* flush_blks puts the first block of the list.
LEMMA PassedFlush ==
    ASSUME MigInv, OneBlock, Passed, [Next]_vars, bmds', Alive', ~has_error', flush_blks
    PROVE  Passed'
  <1>0. /\ UNCHANGED <<bmds, cur, starts, reads, excused, dirty, src, pc>>
        /\ pc \in {"flush1", "flush2"} /\ blk_list # << >>
    BY DEF flush_blks, diskVars, boundVars, FlushStops
  <1>1. bmds /\ Alive /\ ~has_error
    <2>1. ~(\E limit \in Rates : migrate_fd_connect(limit))
      BY <1>0 DEF migrate_fd_connect, Idle
    <2> QED
      BY <2>1, PassedNow
  <1>2. Live(Head(blk_list))
    BY DEF flush_blks, Alive
  <1>3. PICK h : h = Head(blk_list)
    OBVIOUS
  <1>4. /\ h = blk_list[1] /\ 1 \in DOMAIN blk_list /\ h.chunk \in Chunk
        /\ BlockMsg(h) \in Msg /\ BlockMsg(h) # Eof
        /\ \A c : IsFor(BlockMsg(h), c) <=> c = h.chunk
        /\ BlockMsg(h).data = h.data /\ h.data # Failed
        /\ Put(BlockMsg(h)) /\ blk_list' = Tail(blk_list)
    BY <1>2, <1>3, HeadMsg
  <1>5. /\ \A i \in DOMAIN blk_list' :
              i + 1 \in DOMAIN blk_list /\ blk_list'[i] = blk_list[i + 1]
        /\ \A i \in DOMAIN blk_list : i # 1 => i - 1 \in DOMAIN blk_list' /\ (i - 1) + 1 = i
    BY <1>0, <1>4, NextRead DEF MigInv
  <1> SUFFICES ASSUME NEW c \in Chunk, c < cur
               PROVE  bdrv_get_dirty(c)' \/ Lost(c)' \/ OnTheWay(c)'
    BY <1>0 DEF Passed
  <1>6. bdrv_get_dirty(c) \/ Lost(c) \/ OnTheWay(c)
    BY <1>1 DEF Passed
  <1>7. (bdrv_get_dirty(c) => bdrv_get_dirty(c)') /\ (Lost(c) => Lost(c)')
    BY <1>0 DEF bdrv_get_dirty, Lost
  <1>8. /\ \A x : Reading(x, c)' <=> Reading(x, c)
        /\ \A i \in DOMAIN blk_list' : Listed(i, c)' <=> Listed(i + 1, c)
    BY <1>0, <1>5 DEF Live, Reading, Listed
  <1>9. CASE OnTheWay(c) /\ ~Lost(c)
    <2>0. c \in Chunk \ PartialChunks
      BY <1>9 DEF Lost
    <2>1. \A x \in reads' : Reading(x, c)' => x.data \in {src'[c], Unread, Failed}
      BY <1>0, <1>8, <1>9 DEF OnTheWay
    <2>2. \A i \in DOMAIN blk_list' : Listed(i, c)' => blk_list'[i].data \in {src'[c], Failed}
      BY <1>0, <1>5, <1>8, <1>9 DEF OnTheWay
    <2>3. CASE c = h.chunk
      <3>1. Listed(1, c)
        BY <1>0, <1>2, <1>3, <1>4, <2>3 DEF Listed
      <3>2. h.data = src[c]
        BY <1>4, <1>9, <3>1 DEF OnTheWay
      <3>3. Newest(bf'.buffer, c, dst'[c], BlockMsg(h).data)
        BY <1>4, <2>0, <2>3, PutCopies
      <3>4. Arrives(c, src[c])'
        BY <1>0, <1>4, <3>2, <3>3 DEF Arrives
      <3> QED
        BY <2>1, <2>2, <3>4 DEF OnTheWay
    <2>4. CASE c # h.chunk
      <3>1. ~IsFor(BlockMsg(h), c)
        BY <1>4, <2>4
      <3>2. Newest(bf'.buffer, c, dst'[c], src[c]) <=> Newest(bf.buffer, c, dst[c], src[c])
        BY <1>4, <2>0, <3>1, PutCopies
      <3>3. Arrives(c, src[c]) => Arrives(c, src[c])'
        BY <1>0, <3>2 DEF Arrives
      <3>4. ~Listed(1, c)
        BY <1>4, <2>4 DEF Listed
      <3>5. (\E i \in DOMAIN blk_list : Listed(i, c)) => \E i \in DOMAIN blk_list' : Listed(i, c)'
        <4>1. ASSUME NEW i \in DOMAIN blk_list, Listed(i, c)
              PROVE  \E j \in DOMAIN blk_list' : Listed(j, c)'
          <5>1. i # 1
            BY <3>4, <4>1
          <5>2. i - 1 \in DOMAIN blk_list' /\ (i - 1) + 1 = i
            BY <1>5, <5>1
          <5>3. PICK j \in DOMAIN blk_list' : j + 1 = i
            BY <5>2
          <5> QED
            BY <1>8, <4>1, <5>3
        <4> QED
          BY <4>1
      <3> QED
        BY <1>0, <1>8, <1>9, <2>1, <2>2, <3>3, <3>5 DEF OnTheWay
    <2> QED
      BY <2>3, <2>4
  <1> QED
    BY <1>6, <1>7, <1>9

\* Stage 3 excuses what is left on the list.
LEMMA PassedToDirty ==
    ASSUME MigInv, Passed, [Next]_vars, bmds', Alive', ~has_error', FlushToEnd
    PROVE  Passed'
  <1>0. /\ UNCHANGED <<bmds, cur, starts, reads, blk_list, dirty, src, dst, bf>>
        /\ pc = "flush2" /\ excused \subseteq excused'
    BY DEF FlushToEnd, diskVars, blkVars, fileVars, dstVars, boundVars
  <1>1. bmds /\ Alive /\ ~has_error
    <2>1. ~(\E limit \in Rates : migrate_fd_connect(limit))
      BY <1>0 DEF migrate_fd_connect, Idle
    <2> QED
      BY <2>1, PassedNow
  <1>2. \A c \in Chunk : (bdrv_get_dirty(c) => bdrv_get_dirty(c)') /\ (Lost(c) => Lost(c)')
    BY <1>0 DEF bdrv_get_dirty, Lost
  <1>3. CASE stage # 3
    <2>1. pc' # "dirty"
      BY <1>3 DEF FlushToEnd
    <2>2. SameCopies
      BY <1>0 DEF SameCopies
    <2> QED
      BY <1>0, <1>1, <1>2, <2>1, <2>2, PassedKept
  <1>4. CASE stage = 3
    <2>1. /\ pc' = "dirty"
          /\ \A c \in Chunk : \A i \in DOMAIN blk_list :
                blk_list[i].chunk = c => bdrv_get_dirty(c) \/ c \in excused'
      BY <1>4 DEF FlushToEnd
    <2> SUFFICES ASSUME NEW c \in Chunk, c < cur
                 PROVE  bdrv_get_dirty(c)' \/ Lost(c)' \/ OnTheWay(c)'
      BY <1>0 DEF Passed
    <2>2. bdrv_get_dirty(c) \/ Lost(c) \/ OnTheWay(c)
      BY <1>1 DEF Passed
    <2>3. CASE \E i \in DOMAIN blk_list : Listed(i, c)
      BY <1>2, <2>1, <2>3 DEF Listed, Lost
    <2>4. CASE OnTheWay(c) /\ ~(\E i \in DOMAIN blk_list : Listed(i, c))
      <3>1. /\ \A x : Reading(x, c)' <=> Reading(x, c)
            /\ \A i : ~Listed(i, c)'
            /\ Arrives(c, src[c]) => Arrives(c, src[c])'
        BY <1>0, <2>1 DEF Live, Reading, Listed, Arrives
      <3> QED
        BY <1>0, <2>4, <3>1 DEF OnTheWay
    <2> QED
      BY <1>2, <2>2, <2>3, <2>4
  <1> QED
    BY <1>3, <1>4

\* A chunk the bulk phase skips is the base image on both sides.
LEMMA SkippedAlike ==
    ASSUME MigInv, OneBlock, Unpassed, bmds, NEW c \in Chunk, c >= cur, c \notin ToCopy
    PROVE  OnTheWay(c)
  <1>1. cur \in Nat /\ c \in Nat /\ c \in cur .. (NChunks - 1)
    BY MigrationAssumption DEF MigInv, TypeOK, Chunk
  <1>2. shared /\ src[c] = 0
    BY <1>1 DEF ToCopy
  <1>3. Silent(bf.buffer, c) /\ dst[c] = 0
    BY <1>2 DEF Unpassed
  <1>4. Arrives(c, src[c])
    BY <1>2, <1>3 DEF Arrives, Newest, Silent
  <1>5. \A b \in reads : ~Reading(b, c)
    <2>1. \A b \in reads : b.gen = starts => b.chunk < cur
      BY DEF MigInv, Blocks
    <2>2. ~(c < cur)
      BY <1>1
    <2> QED
      BY <2>1, <2>2 DEF Reading, Live
  <1>6. \A i \in DOMAIN blk_list : ~Listed(i, c)
    <2>1. ~(c < cur)
      BY <1>1
    <2> QED
      BY <2>1 DEF Listed, Live, OneBlock
  <1> QED
    BY <1>4, <1>5, <1>6 DEF OnTheWay

LEMMA PassedSkip ==
    ASSUME MigInv, OneBlock, Unpassed, Passed, [Next]_vars, bmds', Alive', ~has_error',
           BulkSkipsRest
    PROVE  Passed'
  <1>0. /\ UNCHANGED <<bmds, starts, reads, blk_list, dirty, src, dst, bf, pc, excused>>
        /\ pc = "bulk" /\ ToCopy = {}
    BY DEF BulkSkipsRest, diskVars, fileVars, dstVars, boundVars
  <1>1. bmds /\ Alive /\ ~has_error
    <2>1. ~(\E limit \in Rates : migrate_fd_connect(limit))
      BY <1>0 DEF migrate_fd_connect, Idle
    <2> QED
      BY <2>1, PassedNow
  <1> SUFFICES ASSUME NEW c \in Chunk
               PROVE  bdrv_get_dirty(c)' \/ Lost(c)' \/ OnTheWay(c)'
    BY DEF Passed
  <1>2. cur \in Nat /\ c \in Nat
    BY DEF MigInv, TypeOK, Chunk
  <1>3. bdrv_get_dirty(c) \/ Lost(c) \/ OnTheWay(c)
    <2>1. CASE c < cur
      BY <1>1, <2>1 DEF Passed
    <2>2. CASE c >= cur
      BY <1>0, <1>1, <2>2, SkippedAlike
    <2> QED
      BY <1>2, <2>1, <2>2
  <1>4. (bdrv_get_dirty(c) => bdrv_get_dirty(c)') /\ (Lost(c) => Lost(c)')
    BY <1>0 DEF bdrv_get_dirty, Lost
  <1>5. OnTheWay(c) => OnTheWay(c)'
    BY <1>0, WayKept DEF Arrives
  <1> QED
    BY <1>3, <1>4, <1>5

\* The bulk phase passes what it skips and the chunk it reads.
LEMMA PassedBulk ==
    ASSUME MigInv, OneBlock, Unpassed, Passed, [Next]_vars, bmds', Alive', ~has_error',
           mig_save_device_bulk
    PROVE  Passed'
  <1>1. PICK k \in Chunk : k = NextCopy
    BY NextCopyCorrect DEF mig_save_device_bulk, MigInv
  <1>2. PICK n : n = [gen |-> starts, chunk |-> k, data |-> Unread]
    OBVIOUS
  <1>3. /\ UNCHANGED <<bmds, starts, blk_list, src, dst, bf, pc>>
        /\ pc = "bulk" /\ cur' = k + 1 /\ bdrv_reset_dirty(k)
        /\ excused' = excused \cup Unmarked(k) /\ reads' = reads \cup {n}
    BY <1>1, <1>2 DEF mig_save_device_bulk, fileVars, dstVars, boundVars
  <1>4. bmds /\ Alive /\ ~has_error
    <2>1. ~(\E limit \in Rates : migrate_fd_connect(limit))
      BY <1>3 DEF migrate_fd_connect, Idle
    <2> QED
      BY <2>1, PassedNow
  <1>5. /\ cur \in Nat /\ cur <= k /\ k \in Nat
        /\ \A c \in Chunk : c \in Nat /\ (c \in ToCopy => k <= c)
    <2>1. ToCopy # {} /\ ToCopy \in SUBSET Nat /\ cur <= k /\ cur \in Nat
      BY <1>1, NextCopyCorrect, MigrationAssumption
      DEF mig_save_device_bulk, MigInv, TypeOK, ToCopy
    <2>2. \A d \in ToCopy : k <= d
      <3>1. \E d \in ToCopy : \A e \in ToCopy : d <= e
        BY <2>1, LeastNatural
      <3> QED
        BY <1>1, <3>1 DEF NextCopy
    <2> QED
      BY <2>1, <2>2 DEF Chunk
  <1> SUFFICES ASSUME NEW c \in Chunk, c < k + 1
               PROVE  bdrv_get_dirty(c)' \/ Lost(c)' \/ OnTheWay(c)'
    BY <1>3 DEF Passed
  <1>6. n.gen = starts /\ n.chunk = k /\ n.data = Unread
    BY <1>2
  <1>7. /\ \A x : Reading(x, c)' <=> Reading(x, c)
        /\ \A i : Listed(i, c)' <=> Listed(i, c)
        /\ Arrives(c, src[c])' <=> Arrives(c, src[c])
        /\ Reading(n, c) <=> c = k
    BY <1>3, <1>4, <1>6 DEF Live, Reading, Listed, Arrives
  <1>8. Lost(c) => Lost(c)'
    BY <1>3 DEF Lost
  <1>9. CASE c = k
    <2>1. \A b \in reads : ~Reading(b, c)
      <3>1. ~(c < cur)
        BY <1>5, <1>9
      <3> QED
        BY <3>1 DEF MigInv, Blocks, Reading, Live
    <2>2. \A i \in DOMAIN blk_list : ~Listed(i, c)
      <3>1. ~(c < cur)
        BY <1>5, <1>9
      <3> QED
        BY <3>1 DEF OneBlock, Listed, Live
    <2> QED
      BY <1>3, <1>6, <1>7, <1>9, <2>1, <2>2 DEF OnTheWay
  <1>10. ASSUME OnTheWay(c), c # k
         PROVE  OnTheWay(c)'
    BY <1>3, <1>7, <1>10 DEF OnTheWay
  <1>11. CASE c # k /\ c < cur
    <2>1. bdrv_get_dirty(c) \/ Lost(c) \/ OnTheWay(c)
      BY <1>4, <1>11 DEF Passed
    <2>2. bdrv_get_dirty(c) => bdrv_get_dirty(c)' \/ c \in excused'
      BY <1>3, <1>11, ResetMarks DEF MigInv
    <2> QED
      BY <1>8, <1>10, <1>11, <2>1, <2>2 DEF Lost
  <1>12. CASE c # k /\ ~(c < cur)
    <2>1. c >= cur /\ c \notin ToCopy
      BY <1>5, <1>12
    <2> QED
      BY <1>4, <1>10, <1>12, <2>1, SkippedAlike
  <1> QED
    BY <1>9, <1>11, <1>12

\* Stage 3 sends the chunks that are marked.
LEMMA PassedDirty ==
    ASSUME MigInv, Passed, Late, [Next]_vars, bmds', Alive', ~has_error',
           blk_mig_save_dirty_blocks
    PROVE  Passed'
  <1>1. PICK k : k = NextDirty
    OBVIOUS
  <1>2. PICK m : m = [chunk |-> k, data |-> src[k]]
    OBVIOUS
  <1>3. /\ k \in Chunk \ PartialChunks /\ m \in Msg /\ Put(m)
        /\ \A c : IsFor(m, c) <=> c = k
        /\ m.data = src[k]
    BY <1>1, <1>2, DirtyMsg
  <1>4. /\ UNCHANGED <<bmds, cur, starts, reads, blk_list, src, pc>>
        /\ pc = "dirty" /\ bdrv_reset_dirty(k) /\ excused' = excused \cup Unmarked(k)
    BY <1>1 DEF blk_mig_save_dirty_blocks, blkVars, boundVars
  <1>5. bmds /\ Alive /\ ~has_error
    <2>1. ~(\E limit \in Rates : migrate_fd_connect(limit))
      BY <1>4 DEF migrate_fd_connect, Idle
    <2> QED
      BY <2>1, PassedNow
  <1>6. reads = {}
    BY <1>4, <1>5 DEF Late, MigInv, Control
  <1> SUFFICES ASSUME NEW c \in Chunk, c < cur
               PROVE  bdrv_get_dirty(c)' \/ Lost(c)' \/ OnTheWay(c)'
    BY <1>4 DEF Passed
  <1>7. CASE c = k
    <2>1. Newest(bf'.buffer, c, dst'[c], src[c])
      BY <1>3, <1>7, PutCopies
    <2>2. Arrives(c, src[c])'
      BY <1>4, <2>1 DEF Arrives
    <2>3. \A i : ~Listed(i, c)'
      BY <1>4 DEF Listed
    <2> QED
      BY <1>4, <1>6, <2>2, <2>3 DEF OnTheWay
  <1>8. CASE c # k
    <2>1. bdrv_get_dirty(c) \/ Lost(c) \/ OnTheWay(c)
      BY <1>5 DEF Passed
    <2>2. bdrv_get_dirty(c) => bdrv_get_dirty(c)' \/ c \in excused'
      BY <1>3, <1>4, <1>8, ResetMarks DEF MigInv
    <2>3. Lost(c) => Lost(c)'
      BY <1>4 DEF Lost
    <2>4. CASE OnTheWay(c) /\ ~Lost(c)
      <3>1. c \in Chunk \ PartialChunks
        BY <2>4 DEF Lost
      <3>2. Newest(bf'.buffer, c, dst'[c], src[c]) <=> Newest(bf.buffer, c, dst[c], src[c])
        BY <1>3, <1>8, <3>1, PutCopies
      <3> QED
        BY <1>4, <2>4, <3>2, WayKept DEF Arrives
    <2> QED
      BY <2>1, <2>2, <2>3, <2>4 DEF Lost
  <1> QED
    BY <1>7, <1>8

LEMMA PassedStep ==
    ASSUME MigInv, OneBlock, Noticed, Unpassed, Passed, Late, [Next]_vars
    PROVE  Passed'
  <1>1. CASE \E limit \in Rates : migrate_fd_connect(limit)
    <2>1. cur' = 0
      BY <1>1 DEF migrate_fd_connect, init_blk_migration
    <2>2. \A c \in Chunk : ~(c < 0)
      BY DEF Chunk
    <2> QED
      BY <2>1, <2>2 DEF Passed
  <1> SUFFICES ASSUME ~(\E limit \in Rates : migrate_fd_connect(limit)),
                      bmds', Alive', ~has_error'
               PROVE  Passed'
    BY <1>1 DEF Passed
  <1>2. ~Frees /\ ~(\E inc \in BOOLEAN : do_migrate(inc))
    BY CleanupFrees, StartFrees DEF Frees
  <1>3. CASE flush_blks
    BY <1>3, PassedFlush
  <1>4. CASE mig_save_device_bulk
    BY <1>4, PassedBulk
  <1>5. CASE \E b \in reads : ReadDone(b)
    BY <1>5, PassedRead
  <1>6. CASE \E b \in reads : blk_mig_read_cb(b)
    BY <1>6, PassedCallback
  <1>7. CASE RamConverged \/ \E c \in Chunk : GuestWrite(c) \/ WriteDone(c)
    BY <1>7, PassedGuest
  <1>8. CASE FlushToEnd
    BY <1>8, PassedToDirty
  <1>9. CASE BulkSkipsRest
    BY <1>9, PassedSkip
  <1>10. CASE blk_mig_save_dirty_blocks
    BY <1>10, PassedDirty
  <1> QED
    BY <1>2, <1>3, <1>4, <1>5, <1>6, <1>7, <1>8, <1>9, <1>10, PassedQuiet, NextKinds

-----------------------------------------------------------------------------
(* The end of the stream.                                                  *)

\* Who may put or send while the end of the stream is out.
LEMMA EofWhere ==
    ASSUME MigInv, eof, file
    PROVE  pc = "close"
  BY DEF MigInv, Control, EndOfStream

LEMMA EndStep ==
    ASSUME MigInv, Done, [Next]_vars
    PROVE  EofLast(bf'.buffer) /\ (file' /\ eof' => bf'.buffer = << >>)
  <1>1. CASE \E limit \in Rates : migrate_fd_connect(limit)
    <2>1. bf'.buffer = << >>
      BY <1>1 DEF migrate_fd_connect, qemu_fopen_ops_buffered
    <2> QED
      BY <2>1 DEF EofLast
  <1>2. CASE \E inc \in BOOLEAN : do_migrate(inc)
    <2>1. bf' = bf
      BY <1>2 DEF do_migrate, fileVars
    <2>2. ~eof'
      BY <1>2, Zenon DEF do_migrate
    <2> QED
      BY <2>1, <2>2 DEF Done
  <1>3. CASE \/ flush_blks \/ blk_mig_save_dirty_blocks
             \/ qemu_savevm_state_complete
    <2>1. file /\ pc # "close" /\ ~Holds(bf.buffer, Eof) /\ ~eof
      BY <1>3 DEF flush_blks, blk_mig_save_dirty_blocks, qemu_savevm_state_complete,
         MigInv, Control, EndOfStream
    <2>2. (\E m \in Msg : Put(m)) \/ (UNCHANGED <<bf, eof>>)
      <3>1. CASE flush_blks
        <4>1. CASE Live(Head(blk_list))
          BY <3>1, <4>1, HeadMsg
        <4>2. CASE ~Live(Head(blk_list))
          BY <3>1, <4>2 DEF flush_blks, dstVars
        <4> QED
          BY <4>1, <4>2
      <3>2. CASE blk_mig_save_dirty_blocks
        BY <3>2, DirtyMsg
      <3>3. CASE qemu_savevm_state_complete
        BY <3>3 DEF qemu_savevm_state_complete, dstVars, Msg
      <3> QED
        BY <1>3, <3>1, <3>2, <3>3
    <2>3. (\E m \in Msg : Put(m)) => EndBehind
      BY <2>1, PutCopies DEF Done
    <2> QED
      BY <2>1, <2>2, <2>3 DEF EndBehind, Done
  <1>4. CASE CloseFlush \/ Tick \/ migrate_fd_put_notify
    <2>1. EndBehind /\ file
      BY <1>4, SendCopies DEF Done, CloseFlush, Tick, migrate_fd_put_notify, MigInv, Control
    <2>2. ~eof
      <3>1. ASSUME eof
            PROVE  pc = "close" /\ bf.buffer = << >>
        BY <2>1, <3>1, EofWhere DEF Done
      <3> QED
        BY <1>4, <3>1 DEF CloseFlush, Tick, migrate_fd_put_notify, Idle
    <2> QED
      BY <2>1, <2>2 DEF EndBehind
  <1>5. CASE /\ ~(\E limit \in Rates : migrate_fd_connect(limit))
             /\ ~(\E inc \in BOOLEAN : do_migrate(inc))
             /\ ~flush_blks /\ ~blk_mig_save_dirty_blocks /\ ~qemu_savevm_state_complete
             /\ ~CloseFlush /\ ~Tick /\ ~migrate_fd_put_notify
    <2>1. bf'.buffer = bf.buffer /\ eof' = eof
      BY <1>5, FileStays
    <2>2. file' => file
      BY <1>5, StateStays DEF buffered_close
    <2> QED
      BY <2>1, <2>2 DEF Done
  <1> QED
    BY <1>1, <1>2, <1>3, <1>4, <1>5

\* A migration that does not complete has not put the end of the stream.
LEMMA NoEndStep ==
    ASSUME MigInv, Done, [Next]_vars, pc' = "close", outcome' # "completed"
    PROVE  ~eof' /\ ~Holds(bf'.buffer, Eof)
  <1>1. CASE pc = "close" /\ outcome' = outcome
    <2>1. ~eof /\ ~Holds(bf.buffer, Eof)
      BY <1>1 DEF Done
    <2>2. CASE CloseFlush
      BY <2>1, <2>2, TickFile
    <2>3. CASE ~CloseFlush
      <3>1. bf'.buffer = bf.buffer /\ eof' = eof
        <4>1. /\ ~flush_blks /\ ~blk_mig_save_dirty_blocks /\ ~qemu_savevm_state_complete
              /\ ~Tick /\ ~migrate_fd_put_notify
              /\ ~(\E inc \in BOOLEAN : do_migrate(inc))
              /\ ~(\E limit \in Rates : migrate_fd_connect(limit))
          BY <1>1 DEF flush_blks, blk_mig_save_dirty_blocks, qemu_savevm_state_complete,
             Tick, migrate_fd_put_notify, do_migrate, migrate_fd_connect, Idle
        <4> QED
          BY <2>3, <4>1, FileStays
      <3> QED
        BY <2>1, <3>1 DEF Holds
    <2> QED
      BY <2>2, <2>3
  <1>2. CASE pc # "close" /\ file /\ UNCHANGED <<bf, eof>>
    BY <1>2 DEF MigInv, Control, EndOfStream, Holds
  <1>3. CASE qemu_savevm_state_complete /\ outcome' = IF has_error THEN "error" ELSE "completed"
    <2>1. has_error /\ pc = "complete"
      BY <1>3 DEF qemu_savevm_state_complete
    <2>2. file /\ UNCHANGED <<bf, eof>>
      BY <1>3, <2>1 DEF qemu_savevm_state_complete, MigInv, Control, dstVars
    <2> QED
      BY <1>2, <2>1, <2>2
  <1>4. CASE HandlerReturns \/ (migrate_fd_cancel /\ file)
    BY <1>2, <1>4 DEF HandlerReturns, migrate_fd_cancel, Idle, MigInv, Control, fileVars,
       dstVars
  <1> QED
    BY <1>1, <1>3, <1>4, CloseEntry

\* Everything that is still needed is in the file when it is closed.
Delivered == \A c \in Chunk : Lost(c) \/ Arrives(c, src[c])

LEMMA DeliveredKept ==
    ASSUME Delivered, UNCHANGED src, excused \subseteq excused', SameCopies
    PROVE  Delivered'
  <1> SUFFICES ASSUME NEW c \in Chunk, ~Lost(c)'
               PROVE  Arrives(c, src[c])'
    BY DEF Delivered
  <1>1. ~Lost(c) /\ c \in Chunk \ PartialChunks
    BY DEF Lost
  <1>2. Arrives(c, src[c])
    BY <1>1 DEF Delivered
  <1> QED
    BY <1>1, <1>2 DEF SameCopies, Arrives

LEMMA CompleteEntry ==
    ASSUME MigInv, [Next]_vars, pc' = "complete", ~has_error'
    PROVE  \/ DirtyEnds
           \/ pc = "complete" /\ ~has_error
  <1>1. CASE Host \/ BlockSaveLive
    <2>1. CASE FlushFails \/ DirtyReadFails
      <3>1. has_error' = TRUE
        BY <2>1 DEF FlushFails, DirtyReadFails
      <3> QED
        BY <3>1
    <2>2. CASE ~(FlushFails \/ DirtyReadFails)
      BY <1>1, <2>2 DEF Host, BlockSaveLive, WriteDone, ReadDone, flush_blks,
         FlushToBulk, FlushToEnd, mig_save_device_bulk, BulkSkipsRest, BulkReadFails,
         BulkStops, blk_mig_save_dirty_blocks, Idle
    <2> QED
      BY <2>1, <2>2
  <1>2. CASE ~(Host \/ BlockSaveLive)
    BY <1>2 DEF Next, GuestWrite, blk_mig_read_cb, Drain, Break, ConnectFails,
       HandlerReturns, RamPutFails, RamPending, RamConverged, do_migrate,
       migrate_fd_connect, qemu_savevm_state_complete, CloseFlush, buffered_close, Tick,
       migrate_fd_put_notify, migrate_fd_cancel, do_migrate_set_speed, vars, fileVars,
       CloseWith, EnterStage, Idle
  <1> QED
    BY <1>1, <1>2

LEMMA DirtyDelivers ==
    ASSUME MigInv, Passed, Late, DirtyEnds, ~has_error
    PROVE  Delivered'
  <1>1. /\ UNCHANGED <<src, dst, bf, excused>> /\ Alive /\ pc = "dirty" /\ DirtyChunks = {}
    BY DEF DirtyEnds, diskVars, fileVars, dstVars
  <1>2. cur = NChunks /\ reads = {} /\ bmds /\ NChunks \in Nat
    BY <1>1, MigrationAssumption DEF Late, MigInv, Control
  <1>3. ASSUME NEW c \in Chunk, ~Lost(c)
        PROVE  Arrives(c, src[c])
    <2>1. c < cur /\ c \in 0 .. (cur - 1)
      BY <1>2 DEF Chunk
    <2>2. ~bdrv_get_dirty(c)
      BY <1>1, <2>1 DEF DirtyChunks
    <2>3. OnTheWay(c)
      BY <1>1, <1>2, <1>3, <2>1, <2>2 DEF Passed
    <2>4. \A i : ~Listed(i, c)
      BY <1>1 DEF Listed
    <2> QED
      BY <1>2, <2>3, <2>4 DEF OnTheWay
  <1> QED
    BY <1>1, <1>3 DEF Delivered, Lost, Arrives

LEMMA DeliveredStep ==
    ASSUME MigInv, Passed, Late, Done, [Next]_vars,
           \/ pc' = "complete" /\ ~has_error'
           \/ pc' = "close" /\ outcome' = "completed"
    PROVE  Delivered'
  <1>1. ASSUME pc \in {"complete", "close"}, Delivered, ~qemu_savevm_state_complete
        PROVE  Delivered'
    <2>1. /\ ~flush_blks /\ ~blk_mig_save_dirty_blocks /\ ~Tick /\ ~migrate_fd_put_notify
          /\ ~(\E inc \in BOOLEAN : do_migrate(inc))
          /\ ~(\E limit \in Rates : migrate_fd_connect(limit))
          /\ ~mig_save_device_bulk /\ ~RamConverged
          /\ ~(\E c \in Chunk : GuestWrite(c) \/ WriteDone(c))
      BY <1>1 DEF flush_blks, blk_mig_save_dirty_blocks, Tick, migrate_fd_put_notify,
         do_migrate, migrate_fd_connect, mig_save_device_bulk, RamConverged, GuestWrite,
         WriteDone, Idle
    <2>2. src' = src /\ excused \subseteq excused'
      BY <2>1, MarksStay
    <2>3. SameCopies
      <3>1. CASE CloseFlush
        BY <3>1, SendCopies
      <3>2. CASE ~CloseFlush
        BY <1>1, <2>1, <3>2, FileStays DEF SameCopies
      <3> QED
        BY <3>1, <3>2
    <2> QED
      BY <1>1, <2>2, <2>3, DeliveredKept
  <1>2. CASE pc' = "complete" /\ ~has_error'
    <2>1. CASE DirtyEnds
      <3>1. ~has_error
        BY <1>2, <2>1 DEF DirtyEnds, fileVars
      <3> QED
        BY <2>1, <3>1, DirtyDelivers
    <2>2. CASE pc = "complete" /\ ~has_error
      <3>1. Delivered
        BY <2>2 DEF Done, Delivered
      <3>2. ~qemu_savevm_state_complete
        BY <1>2 DEF qemu_savevm_state_complete, CloseWith
      <3> QED
        BY <1>1, <2>2, <3>1, <3>2
    <2> QED
      BY <1>2, <2>1, <2>2, CompleteEntry
  <1>3. CASE pc' = "close" /\ outcome' = "completed"
    <2>1. CASE pc = "close" /\ outcome' = outcome
      <3>1. Delivered /\ ~qemu_savevm_state_complete
        BY <1>3, <2>1 DEF Done, Delivered, qemu_savevm_state_complete
      <3> QED
        BY <1>1, <2>1, <3>1
    <2>2. CASE pc = "complete" /\ qemu_savevm_state_complete
      <3>1. ~has_error
        BY <1>3, <2>2 DEF qemu_savevm_state_complete, CloseWith
      <3>2. Put(Eof) /\ Eof \in Msg /\ UNCHANGED <<src, excused>>
        BY <2>2, <3>1 DEF qemu_savevm_state_complete, Msg, diskVars
      <3>3. \A c : ~IsFor(Eof, c)
        BY DEF IsFor
      <3>4. SameCopies
        BY <3>2, <3>3, PutCopies DEF SameCopies
      <3>5. Delivered
        BY <2>2, <3>1 DEF Done, Delivered
      <3> QED
        BY <3>2, <3>4, <3>5, DeliveredKept
    <2> QED
      BY <1>3, <2>1, <2>2, CloseEntry
  <1> QED
    BY <1>2, <1>3

LEMMA DoneStep ==
    ASSUME MigInv, Passed, Late, Done, [Next]_vars
    PROVE  Done'
  BY EndStep, NoEndStep, DeliveredStep DEF Done, Delivered

\* When the end of the stream is loaded nothing is behind it, and nothing
\* follows before the next migration.
LEMMA CompleteStep ==
    ASSUME MigInv, Late, Done, Done', CopyComplete, [Next]_vars
    PROVE  CopyComplete'
  <1> SUFFICES ASSUME eof'
               PROVE  \A c \in Chunk : dst'[c] = src'[c] \/ c \in excused' \cup PartialChunks
    BY DEF CopyComplete
  <1>1. CASE eof
    <2>1. file => pc = "close" /\ bf.buffer = << >>
      BY <1>1, EofWhere DEF Done
    <2>2. mstate = "active" => pc = "close"
      BY <1>1 DEF MigInv, EndOfStream
    <2>3. pc # "idle" => pc = "close" /\ bf.buffer = << >>
      BY <2>1 DEF MigInv, Control
    <2>4. /\ ~flush_blks /\ ~blk_mig_save_dirty_blocks /\ ~Tick /\ ~migrate_fd_put_notify
          /\ ~(\E limit \in Rates : migrate_fd_connect(limit))
          /\ ~mig_save_device_bulk /\ ~RamConverged
          /\ ~qemu_savevm_state_complete /\ ~CloseFlush
      BY <2>1, <2>2, <2>3 DEF flush_blks, blk_mig_save_dirty_blocks, Tick,
         migrate_fd_put_notify, migrate_fd_connect, mig_save_device_bulk, RamConverged,
         qemu_savevm_state_complete, CloseFlush, Idle
    <2>5. ~(\E inc \in BOOLEAN : do_migrate(inc))
      <3>1. (\E inc \in BOOLEAN : do_migrate(inc)) => ~eof'
        BY Zenon DEF do_migrate
      <3> QED
        BY <3>1
    <2>6. dst' = dst
      BY <2>4, <2>5, FileStays
    <2>7. src' = src
      BY <1>1, StillDisk DEF Still
    <2>8. excused \subseteq excused'
      <3>1. CASE \E c \in Chunk : GuestWrite(c) \/ WriteDone(c)
        BY <3>1 DEF GuestWrite, WriteDone
      <3> QED
        BY <2>4, <3>1, MarksStay
    <2> QED
      BY <1>1, <2>6, <2>7, <2>8 DEF CopyComplete
  <1>2. CASE ~eof
    <2>1. pc' = "close" /\ outcome' = "completed" /\ file'
      <3>1. CASE qemu_savevm_state_complete
        <4>1. pc = "complete" /\ ~has_error
          BY <1>2, <3>1 DEF qemu_savevm_state_complete, dstVars
        <4>2. file /\ file' = file
          BY <3>1, <4>1 DEF qemu_savevm_state_complete, MigInv, Control
        <4> QED
          BY <3>1, <4>1, <4>2 DEF qemu_savevm_state_complete, CloseWith
      <3>2. CASE CloseFlush /\ pc = "close" /\ outcome = "completed"
        <4>1. file /\ file' = file
          BY <3>2 DEF CloseFlush, MigInv, Control
        <4> QED
          BY <3>2, <4>1 DEF CloseFlush, migVars
      <3> QED
        BY <1>2, <3>1, <3>2, EofPut
    <2>2. bf'.buffer = << >>
      BY <2>1 DEF Done
    <2>3. \A c \in Chunk : Lost(c)' \/ Arrives(c, src[c])'
      BY <2>1 DEF Done
    <2>4. \A c \in Chunk : Arrives(c, src[c])' => dst'[c] = src'[c]
      BY <2>2 DEF Arrives, Newest
    <2> QED
      BY <2>3, <2>4 DEF Lost
  <1> QED
    BY <1>1, <1>2

-----------------------------------------------------------------------------
(* The results.                                                            *)

LEMMA CopyInit == Init => CopyInv
  <1> SUFFICES ASSUME Init
               PROVE  CopyInv
    OBVIOUS
  <1>1. /\ ~bmds /\ mstate = "none" /\ pc = "idle" /\ stage = 1 /\ ~eof
        /\ bf.buffer = << >>
    <2>1. mstate = "none" /\ pc = "idle" /\ stage = 1 /\ bf.buffer = << >>
      BY DEF Init, qemu_fopen_ops_buffered
    <2>2. ~bmds /\ ~eof
      BY Zenon DEF Init
    <2> QED
      BY <2>1, <2>2
  <1>2. OneBlock /\ Noticed /\ Fresh /\ Unpassed /\ Passed
    BY <1>1 DEF OneBlock, Noticed, Fresh, Unpassed, Passed
  <1>3. Late /\ CopyComplete
    BY <1>1 DEF Late, CopyComplete
  <1>4. Done
    BY <1>1 DEF Done, EofLast
  <1> QED
    BY <1>2, <1>3, <1>4 DEF CopyInv

LEMMA CopyStep == MigInv /\ CopyInv /\ [Next]_vars => CopyInv'
  <1> SUFFICES ASSUME MigInv, CopyInv, [Next]_vars
               PROVE  CopyInv'
    OBVIOUS
  <1>1. OneBlock' /\ Noticed' /\ Fresh'
    BY OneBlockStep, NoticedStep, FreshStep DEF CopyInv
  <1>2. Unpassed' /\ Passed'
    BY UnpassedStep, PassedStep DEF CopyInv
  <1>3. Late' /\ Done'
    BY LateStep, DoneStep DEF CopyInv
  <1>4. CopyComplete'
    BY <1>3, CompleteStep DEF CopyInv
  <1> QED
    BY <1>1, <1>2, <1>3, <1>4 DEF CopyInv

LEMMA CopyInvariant == Spec => []CopyInv
  BY CopyInit, CopyStep, MigInvariant, PTL DEF Spec

\* What the destination has loaded when block_load has seen the end of the
\* stream is the source's disks, chunk by chunk, except for the chunks in
\* excused and the partial ones: flush_blks, the bulk phase and
\* blk_mig_save_dirty_blocks lose nothing else, whatever the guest writes in
\* between and however the buffered file delays what they put.
THEOREM CopyCorrect == Spec => []CopyComplete
  <1>1. CopyInv => CopyComplete
    BY DEF CopyInv
  <1> QED
    BY <1>1, CopyInvariant, PTL

\* A chunk on its way has its newest contents last.
LEMMA WayIsNewest ==
    ASSUME MigInv, NEW c \in Chunk, OnTheWay(c)
    PROVE  NewestCopy(c) \subseteq {src[c], Unread, Failed}
  <1> DEFINE R == {b \in reads : b.chunk = c /\ Live(b)}
             L == {i \in DOMAIN blk_list :
                      pc # "dirty" /\ Live(blk_list[i]) /\ blk_list[i].chunk = c}
             B == {i \in DOMAIN bf.buffer :
                      bf.buffer[i] # Eof /\ bf.buffer[i].chunk = c}
             Last(I) == CHOOSE i \in I : \A j \in I : j <= i
  <1>1. NewestCopy(c) = IF R # {} THEN {b.data : b \in R}
                        ELSE IF L # {} THEN {blk_list[Last(L)].data}
                        ELSE IF B # {} THEN {bf.buffer[Last(B)].data}
                        ELSE {dst[c]}
    BY DEF NewestCopy
  <1>2. /\ \A b : b \in R <=> b \in reads /\ Reading(b, c)
        /\ \A i : i \in L <=> i \in DOMAIN blk_list /\ Listed(i, c)
        /\ \A i : i \in B <=> i \in DOMAIN bf.buffer /\ IsFor(bf.buffer[i], c)
    BY DEF Reading, Listed, IsFor
  <1>3. /\ blk_list \in Seq(Block) /\ bf.buffer \in Seq(Msg)
    BY DEF MigInv, TypeOK, QEMUFileBuffered
  <1>4. /\ Len(blk_list) \in Nat /\ DOMAIN blk_list = 1 .. Len(blk_list)
        /\ Len(bf.buffer) \in Nat /\ DOMAIN bf.buffer = 1 .. Len(bf.buffer)
    BY <1>3, LenProperties
  <1>5. L \in SUBSET (1 .. Len(blk_list)) /\ B \in SUBSET (1 .. Len(bf.buffer))
    BY <1>4
  <1> HIDE DEF R, L, B
  <1>6. ASSUME NEW n \in Nat, NEW I \in SUBSET (1 .. n), I # {}
        PROVE  Last(I) \in I /\ \A j \in I : j <= Last(I)
    <2>1. \E i \in I : \A j \in I : j <= i
      BY <1>6, GreatestIndex
    <2> QED
      BY <2>1
  <1> HIDE DEF Last
  <1>7. CASE R # {}
    BY <1>1, <1>2, <1>7 DEF OnTheWay
  <1>8. CASE R = {} /\ L # {}
    <2>1. Last(L) \in L
      BY <1>4, <1>5, <1>6, <1>8
    <2>2. blk_list[Last(L)].data \in {src[c], Failed}
      BY <1>2, <2>1 DEF OnTheWay
    <2> QED
      BY <1>1, <1>8, <2>2
  <1>9. CASE R = {} /\ L = {}
    <2>1. Arrives(c, src[c])
      BY <1>2, <1>9 DEF OnTheWay
    <2>2. CASE B # {}
      <3>1. Last(B) \in B /\ \A j \in B : j <= Last(B)
        BY <1>4, <1>5, <1>6, <2>2
      <3>2. PICK i \in B : bf.buffer[i].data = src[c] /\ \A j \in B : j <= i
        BY <1>2, <2>1, <2>2 DEF Arrives, Newest
      <3>3. i <= Last(B) /\ Last(B) <= i
        BY <3>1, <3>2
      <3>4. i \in 1 .. Len(bf.buffer) /\ Last(B) \in 1 .. Len(bf.buffer)
        BY <1>5, <3>1, <3>2, Zenon
      <3>5. \A x, y \in 1 .. Len(bf.buffer) : x <= y /\ y <= x => x = y
        BY <1>4
      <3>6. i = Last(B)
        BY <3>3, <3>4, <3>5, Zenon
      <3> QED
        BY <1>1, <1>9, <2>2, <3>2, <3>6
    <2>3. CASE B = {}
      <3>1. dst[c] = src[c]
        BY <1>2, <2>1, <2>3 DEF Arrives, Newest
      <3> QED
        BY <1>1, <1>9, <2>3, <3>1
    <2> QED
      BY <2>2, <2>3
  <1> QED
    BY <1>7, <1>8, <1>9

\* As long as nothing fails, a chunk the bulk phase of block_save_live has
\* passed is marked in the dirty bitmap, or its newest contents are being
\* read, wait on blk_list or in the output buffer, or have arrived, and
\* nothing older comes after them.
THEOREM ForgottenCorrect == Spec => []NothingForgotten
  <1>1. MigInv /\ CopyInv => NothingForgotten
    <2> SUFFICES ASSUME MigInv, CopyInv, bmds, Alive, ~has_error, NEW c \in 0 .. (cur - 1)
                 PROVE  \/ bdrv_get_dirty(c)
                        \/ c \in excused \cup PartialChunks
                        \/ NewestCopy(c) \subseteq {src[c], Unread, Failed}
      BY DEF NothingForgotten
    <2>1. c \in Chunk /\ c < cur
      BY MigrationAssumption DEF MigInv, TypeOK, Chunk
    <2>2. bdrv_get_dirty(c) \/ Lost(c) \/ OnTheWay(c)
      BY <2>1 DEF CopyInv, Passed
    <2> QED
      BY <2>1, <2>2, WayIsNewest DEF Lost
  <1> QED
    BY <1>1, CopyInvariant, MigInvariant, PTL
=============================================================================
