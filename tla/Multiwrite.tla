----------------------------- MODULE Multiwrite -----------------------------
(***************************************************************************)
(* The guest's writes through virtio-blk (hw/virtio-blk.c) and the block   *)
(* layer's multiwrite (block.c): the requests of one notification are      *)
(* sorted, merged, submitted one by one and answered together; a request   *)
(* that failed is reported, or kept while the machine is stopped and       *)
(* issued again when it goes on.                                           *)
(*                                                                         *)
(* Everything runs in the main thread: completions are delivered between   *)
(* the handlers, except those a driver delivers from inside                *)
(* bdrv_aio_writev (qcow2 does when it cannot allocate clusters or submit  *)
(* their data).  The image driver is external.  A sector's contents are    *)
(* the request that wrote it with the sector it was meant for.             *)
(*                                                                         *)
(* Memory that has been freed: the model stops (`fault') where it is       *)
(* certainly used, and where a driver may still use a freed qiov it may    *)
(* stop or go on with the contents the qiov had.                           *)
(***************************************************************************)
EXTENDS Integers, Sequences, FiniteSets, SequencesExt

CONSTANTS
    Reqs,        \* the guest's write requests (VirtIOBlockReq)
    NSectors,    \* length of the disk
    IntRange,    \* 2^31: an int is in -IntRange .. IntRange - 1
    MaxNb,       \* bound: sectors of a request
    MaxBatches,  \* bound: calls of bdrv_aio_multiwrite
    OnErrors,    \* the error policies (werror) a drive may have
    Faults       \* what the image driver may do besides accepting a write:
                 \*   "null"  bdrv_aio_writev returns NULL
                 \*   "sync"  it calls back with an error before it returns
                 \*   "lost"  it reports success without having written all,
                 \*           before it returns (and wrote nothing) or later
                 \*   "io"    the write fails later

ASSUME MultiwriteAssumption ==
    /\ IsFiniteSet(Reqs)
    /\ NSectors \in Nat \ {0}
    /\ IntRange \in Nat \ {0}
    /\ MaxNb \in 1 .. NSectors
    /\ MaxBatches \in Nat
    /\ OnErrors \subseteq {"report", "ignore", "enospc", "stop"}
    /\ Faults \subseteq {"null", "sync", "lost", "io"}

VARIABLES
    on_error,   \* drive_get_on_error
    want,       \* each request: its sector and nb_sectors
    status,     \* each request: "new", "pending", "stopped" (on s->rq), "ok"
                \*   or "error" (completed and freed)
    rq,         \* s->rq
    running,    \* vm_running
    reqs,       \* bdrv_aio_multiwrite: the merged requests still to submit
    mcb,        \* the MultiwriteCBs
    inflight,   \* accepted by the driver
    disk,
    fault       \* what stopped the program: "mcb", use of a MultiwriteCB that
                \*   has been freed; "req", of a request that has been; "qiov",
                \*   of a qiov that has been; "rq", a request put on s->rq twice
VARIABLES failures, refused, early, lost
                \* history: per MultiwriteCB, the failed writes, whether a
                \*   submission was refused (NULL), what was called back early,
                \*   and whether a success was reported for unwritten data

reqVars == <<on_error, want, status, rq, running>>
history == <<failures, refused, early, lost>>
vars == <<reqVars, reqs, mcb, inflight, disk, fault, history>>

Sector == 0 .. (NSectors - 1)
Batch == 1 .. MaxBatches
Old == <<"old", 0>>           \* what the disk held before
Garbage == <<"garbage", 0>>   \* memory behind the end of a qiov
Wants == {w \in [sector : Sector, nb : 1 .. MaxNb] :
             w.sector + w.nb <= NSectors}
Covers(r) == want[r].sector .. (want[r].sector + want[r].nb - 1)

\* error is mcb->error # 0; free_qiov stands for the qiovs that merging has
\* allocated for the batch, freed the state of the MultiwriteCB itself.
NoMcb == [error |-> FALSE, num_requests |-> 0, callbacks |-> {},
          free_qiov |-> "none", freed |-> FALSE]
Used(g) == mcb[g].callbacks # {}

Init ==
    /\ on_error \in OnErrors
    /\ want \in [Reqs -> Wants]
    /\ status = [r \in Reqs |-> "new"]
    /\ rq = {} /\ running = TRUE
    /\ reqs = << >>
    /\ mcb = [g \in Batch |-> NoMcb]
    /\ inflight = {}
    /\ disk = [s \in Sector |-> Old]
    /\ fault = "none"
    /\ failures = [g \in Batch |-> 0]
    /\ refused = [g \in Batch |-> FALSE] /\ early = [g \in Batch |-> {}]
    /\ lost = [g \in Batch |-> FALSE]

\* No handler is running.
Idle == fault = "none" /\ reqs = << >>

-----------------------------------------------------------------------------
(***************************************************************************)
(* Merging.                                                                *)
(***************************************************************************)
\* own: the request the qiov is part of; none if merging has allocated it.
BlockRequest(r) ==
    [sector |-> want[r].sector, nb |-> want[r].nb, own |-> {r},
     qiov |-> [k \in 1 .. want[r].nb |-> <<r, want[r].sector + k - 1>>]]

\* The difference of two sectors, returned as an int.
multiwrite_req_compare(r, q) ==
    ((want[r].sector - want[q].sector + IntRange) % (2 * IntRange)) - IntRange

\* qsort: neighbours are in order, equal ones in any.  (Where differences do
\* not fit into an int the order is not transitive.)
Sorted(S) ==
    {s \in SetToSeqs(S) :
        \A i \in 1 .. (Len(s) - 1) : multiwrite_req_compare(s[i], s[i + 1]) <= 0}

\* qemu_iovec_concat of the first size sectors of a qiov; a negative size is
\* a huge size_t.
Truncated(qiov, size) ==
    SubSeq(qiov, 1, IF size \in 0 .. Len(qiov) THEN size ELSE Len(qiov))

MergeNear(a, b) == b.sector <= a.sector + a.nb + 1    \* mutant
Mergeable(a, b) == b.sector <= a.sector + a.nb

\* Overlapping requests: "drop the last sectors of the first".  nb_sectors is
\* the sum all the same.
LengthKept(a, b) ==                                   \* mutant
    [sector |-> a.sector, nb |-> a.nb, own |-> {},
     qiov |-> Truncated(a.qiov, b.sector - a.sector) \o b.qiov]
Merge(a, b) ==
    [sector |-> a.sector, nb |-> a.nb + b.nb, own |-> {},
     qiov |-> Truncated(a.qiov, b.sector - a.sector) \o b.qiov]

multiwrite_merge(s) ==
    LET merged[i \in 1 .. Len(s)] ==
          LET b == BlockRequest(s[i]) IN
          IF i = 1 THEN <<b>>
          ELSE LET before == merged[i - 1]  a == Last(before) IN
               IF Mergeable(a, b) THEN Append(Front(before), Merge(a, b))
                                  ELSE Append(before, b)
    IN  merged[Len(s)]

\* The array afterwards: opaque and error stay where qsort has put them.  gen
\* is the MultiwriteCB the loop passes along.
Array(s, merged, g) ==
    [i \in 1 .. Len(merged) |->
        [sector |-> merged[i].sector, nb |-> merged[i].nb, own |-> merged[i].own,
         qiov |-> merged[i].qiov, opaque |-> s[i], gen |-> g]]

-----------------------------------------------------------------------------
(***************************************************************************)
(* Answering.                                                              *)
(***************************************************************************)

(* virtio_blk_rw_complete for the requests of S, with "none" or an error:  *)
(* the request is pushed to the guest and freed, or put on s->rq and the   *)
(* machine stopped.                                                        *)
(***************************************************************************)
Errors == {"EIO", "ENOSPC"}
Kept(err) ==
    \/ err = "ENOSPC" /\ on_error = "enospc"
    \/ err # "none" /\ on_error = "stop"

virtio_blk_rw_complete(S, err) ==
    /\ status' = [r \in Reqs |->
          IF r \notin S THEN status[r]
          ELSE IF Kept(err) THEN "stopped"
          ELSE IF err # "none" /\ on_error # "ignore" THEN "error" ELSE "ok"]
    /\ rq' = IF Kept(err) THEN rq \cup S ELSE rq
    /\ running' = (running /\ ~Kept(err))

Freed(r) == status[r] \in {"ok", "error"}

\* What touching requests that are no longer the block layer's would be.
Misused(S) ==
    IF \E r \in S : Freed(r) THEN "req"
    ELSE IF \E r \in S : status[r] = "stopped" THEN "rq" ELSE "none"

(***************************************************************************)
(* multiwrite_cb: an error is given to all callbacks at once; the last     *)
(* completion gives success, if there was no error, and frees mcb.  Each   *)
(* time the merged qiovs are freed with the callbacks.                     *)
(***************************************************************************)
LastOneLate(g) == mcb[g].num_requests = 0             \* mutant
LastOne(g) == mcb[g].num_requests = 1
Answers(g, err) == err # "none" \/ (LastOne(g) /\ ~mcb[g].error)

multiwrite_user_cb(g, err) ==
    IF Answers(g, err) THEN virtio_blk_rw_complete(mcb[g].callbacks, err)
    ELSE UNCHANGED <<status, rq, running>>

UserCbFault(g, err) ==
    IF ~Answers(g, err) THEN "none"
    ELSE IF Misused(mcb[g].callbacks) # "none" THEN Misused(mcb[g].callbacks)
    ELSE IF mcb[g].free_qiov = "freed" THEN "qiov" ELSE "none"

QiovsFreed(g, err) ==
    IF Answers(g, err) /\ mcb[g].free_qiov # "none" THEN "freed"
    ELSE mcb[g].free_qiov

FreedOnError(m, err) ==                               \* mutant
    [m EXCEPT !.error = @ \/ err # "none", !.num_requests = @ - 1,
              !.freed = err # "none" \/ m.num_requests = 1]
ErrorNotCounted(m, err) ==                            \* mutant
    [m EXCEPT !.error = @ \/ err # "none", !.freed = m.num_requests = 1,
              !.num_requests = IF err # "none" THEN @ ELSE @ - 1]
AfterCb(m, err) ==
    [m EXCEPT !.error = @ \/ err # "none", !.num_requests = @ - 1,
              !.freed = m.num_requests = 1]

CalledBack(g, err) ==
    [AfterCb(mcb[g], err) EXCEPT !.free_qiov = QiovsFreed(g, err)]

multiwrite_cb(g, err) ==
    IF mcb[g].freed
    THEN fault' = "mcb" /\ UNCHANGED <<mcb, status, rq, running>>
    ELSE /\ mcb' = [mcb EXCEPT ![g] = CalledBack(g, err)]
         /\ multiwrite_user_cb(g, err)
         /\ fault' = UserCbFault(g, err)

-----------------------------------------------------------------------------
(***************************************************************************)
(* Issuing.                                                                *)
(***************************************************************************)
LastBatch == Cardinality({g \in Batch : Used(g)})

\* bdrv_aio_multiwrite up to the loop, for the requests of S.
bdrv_aio_multiwrite(S) ==
    /\ LastBatch < MaxBatches
    /\ \E s \in Sorted(S) :
          LET merged == multiwrite_merge(s) IN
          /\ reqs' = Array(s, merged, LastBatch + 1)
          /\ mcb' = [mcb EXCEPT ![LastBatch + 1] =
                [NoMcb EXCEPT !.callbacks = S,
                    !.free_qiov = IF Len(merged) < Len(s) THEN "allocated" ELSE "none"]]
    /\ status' = [r \in Reqs |-> IF r \in S THEN "pending" ELSE status[r]]
    /\ UNCHANGED <<on_error, want, inflight, disk, fault, history>>

\* The writes of one notification (or 32 of them, the room of a batch).
virtio_blk_handle_output(S) ==
    /\ Idle /\ running /\ S # {} /\ \A r \in S : status[r] = "new"
    /\ bdrv_aio_multiwrite(S)
    /\ UNCHANGED <<rq, running>>

\* The machine goes on: the bottom half issues what is on s->rq.
virtio_blk_dma_restart_bh ==
    /\ Idle /\ ~running
    /\ running' = TRUE
    /\ rq' = {}
    /\ bdrv_aio_multiwrite(rq)

NoRangeCheck(m) == FALSE                              \* mutant
\* bdrv_aio_writev refuses what is behind the end of the disk.
OutOfRange(m) == m.sector + m.nb > NSectors

Submitting == fault = "none" /\ reqs # << >>
Req == Head(reqs)
Counted(g) == [mcb EXCEPT ![g].num_requests = @ + 1]

\* The driver accepts the write.
SubmitAccepted ==
    /\ Submitting /\ ~OutOfRange(Req)
    /\ inflight' = inflight \cup {Req}
    /\ mcb' = Counted(LastBatch)
    /\ reqs' = Tail(reqs)
    /\ fault' = IF mcb[LastBatch].freed THEN "mcb" ELSE "none"
    /\ UNCHANGED <<reqVars, disk, history>>

(***************************************************************************)
(* It returns NULL.  With nothing submitted the call fails, and            *)
(* do_multiwrite completes the requests whose error field is set: the one  *)
(* at this place of the sorted array.  Otherwise the loop ends and the     *)
(* error is left to the callbacks.                                         *)
(***************************************************************************)
SubmitRefused ==
    /\ Submitting /\ (OutOfRange(Req) \/ "null" \in Faults)
    /\ reqs' = << >>
    /\ refused' = [refused EXCEPT ![LastBatch] = TRUE]
    /\ IF mcb[LastBatch].num_requests = 0
       THEN /\ virtio_blk_rw_complete({Req.opaque}, "EIO")
            /\ fault' = Misused({Req.opaque})
            /\ mcb' = [mcb EXCEPT ![LastBatch].freed = TRUE]
       ELSE /\ mcb' = [mcb EXCEPT ![LastBatch].error = TRUE]
            /\ UNCHANGED <<status, rq, running, fault>>
    /\ UNCHANGED <<on_error, want, inflight, disk, failures, early, lost>>

\* It calls back before it returns: the count goes up behind the callback,
\* which has freed mcb if it was the last one counted.
CalledBackEarly(g, err) ==
    /\ mcb' = [mcb EXCEPT ![g] = [CalledBack(g, err) EXCEPT !.num_requests = @ + 1]]
    /\ multiwrite_user_cb(g, err)
    /\ fault' = IF LastOne(g) THEN "mcb" ELSE UserCbFault(g, err)
    /\ early' = [early EXCEPT ![g] = @ \cup {err}]
    /\ reqs' = Tail(reqs)

SubmitFailsEarly ==
    /\ Submitting /\ ~OutOfRange(Req) /\ "sync" \in Faults
    /\ \E err \in Errors : CalledBackEarly(LastBatch, err)
    /\ failures' = [failures EXCEPT ![LastBatch] = @ + 1]
    /\ UNCHANGED <<on_error, want, inflight, disk, refused, lost>>

\* qcow2 does this when the image file refuses its data: ret is still 0.
SubmitSucceedsEarly ==
    /\ Submitting /\ ~OutOfRange(Req) /\ "lost" \in Faults
    /\ CalledBackEarly(LastBatch, "none")
    /\ lost' = [lost EXCEPT ![LastBatch] = TRUE]
    /\ UNCHANGED <<on_error, want, inflight, disk, failures, refused>>

(***************************************************************************)
(* A write is carried out, sector by sector from its buffer and, where     *)
(* that ends early, from memory behind it; or it fails half way.  The      *)
(* callback is multiwrite_cb.                                              *)
(***************************************************************************)
Written(m, n) ==
    [s \in Sector |->
        IF s \notin m.sector .. (m.sector + n - 1) THEN disk[s]
        ELSE IF s - m.sector < Len(m.qiov) THEN m.qiov[s - m.sector + 1]
        ELSE Garbage]

WriteDone(m) ==
    /\ Idle
    /\ inflight' = inflight \ {m}
    /\ disk' = Written(m, m.nb)
    /\ multiwrite_cb(m.gen, "none")
    /\ UNCHANGED <<on_error, want, reqs, history>>

WriteFails(m) ==
    /\ Idle /\ "io" \in Faults
    /\ inflight' = inflight \ {m}
    /\ \E n \in 0 .. (m.nb - 1) : disk' = Written(m, n)
    /\ \E err \in Errors : multiwrite_cb(m.gen, err)
    /\ failures' = [failures EXCEPT ![m.gen] = @ + 1]
    /\ UNCHANGED <<on_error, want, reqs, refused, early, lost>>

\* The driver submits only its first sectors and reports success.
WriteLost(m) ==
    /\ Idle /\ "lost" \in Faults
    /\ inflight' = inflight \ {m}
    /\ \E n \in 0 .. (m.nb - 1) : disk' = Written(m, n)
    /\ multiwrite_cb(m.gen, "none")
    /\ lost' = [lost EXCEPT ![m.gen] = TRUE]
    /\ UNCHANGED <<on_error, want, reqs, failures, refused, early>>

\* The qiov of a write has been freed: the request it is part of, or the
\* merged qiovs of the batch, were given back when the batch was answered.
Dangling(m) ==
    \/ \E r \in m.own : Freed(r)
    \/ m.own = {} /\ mcb[m.gen].free_qiov = "freed"

\* The driver uses it all the same, for a write it has or is being given.
UseFreedQiov ==
    /\ \/ Idle /\ \E m \in inflight : Dangling(m)
       \/ Submitting /\ Dangling(Req)
    /\ fault' = "qiov"
    /\ UNCHANGED <<reqVars, reqs, mcb, inflight, disk, history>>

Submit == SubmitAccepted \/ SubmitRefused \/ SubmitFailsEarly \/ SubmitSucceedsEarly

Completion == \E m \in inflight : WriteDone(m) \/ WriteFails(m) \/ WriteLost(m)

Next ==
    \/ \E S \in SUBSET Reqs : virtio_blk_handle_output(S)
    \/ virtio_blk_dma_restart_bh
    \/ Submit
    \/ Completion
    \/ UseFreedQiov

Spec == Init /\ [][Next]_vars

FairSpec == Spec /\ WF_vars(Submit) /\ WF_vars(Completion)
-----------------------------------------------------------------------------
(***************************************************************************)
(* Properties.                                                             *)
(***************************************************************************)
(***************************************************************************)
(* Types.  Among them: the driver is given no write behind the end of the  *)
(* disk, although merging makes requests longer than their data, and no    *)
(* count goes below 0 between the steps.                                   *)
(***************************************************************************)
TypeOK ==
    /\ on_error \in OnErrors /\ want \in [Reqs -> Wants]
    /\ status \in [Reqs -> {"new", "pending", "stopped", "ok", "error"}]
    /\ rq \subseteq Reqs /\ running \in BOOLEAN
    /\ Len(reqs) <= Cardinality(Reqs)
    /\ \A g \in Batch : /\ mcb[g].num_requests \in 0 .. Cardinality(Reqs)
                        /\ mcb[g].free_qiov \in {"none", "allocated", "freed"}
                        /\ mcb[g].callbacks \subseteq Reqs
                        /\ mcb[g].error \in BOOLEAN /\ mcb[g].freed \in BOOLEAN
    /\ \A m \in inflight : m.gen \in Batch /\ m.sector + m.nb <= NSectors
    /\ fault \in {"none", "mcb", "req", "qiov", "rq"}

Disjoint == \A r, q \in Reqs : r # q => Covers(r) \cap Covers(q) = {}

\* The sectors are less than 2^31 apart, as on a disk of up to a terabyte.
Comparable ==
    \A r, q \in Reqs : want[r].sector - want[q].sector < IntRange

(***************************************************************************)
(* Merging moves no data: whatever requests that do not overlap are put    *)
(* together by multiwrite_merge, and however their writes fail half way    *)
(* and are issued again, every sector of the disk holds what it held or    *)
(* what the guest sent for this very sector.  (Requests further apart than *)
(* an int are sorted the wrong way and the merge does move data.)          *)
(***************************************************************************)
OnlyRequested ==
    Disjoint /\ Comparable => \A s \in Sector :
        disk[s] \in {Old} \cup {<<r, s>> : r \in {q \in Reqs : s \in Covers(q)}}

\* The driver has told the truth about every batch r was part of.
NotLost(r) == \A g \in Batch : r \in mcb[g].callbacks => ~lost[g]

(***************************************************************************)
(* A write the guest is told has succeeded is on the disk, although the    *)
(* answer is made by the completion of whichever write of the batch ends   *)
(* last, unless the driver itself reported a success for data it had not   *)
(* written.  (With the policy "ignore" the guest is told so of any write.) *)
(***************************************************************************)
SuccessIsOnDisk ==
    Disjoint /\ Comparable /\ on_error # "ignore" =>
        \A r \in Reqs : status[r] = "ok" /\ NotLost(r) =>
            \A s \in Covers(r) : disk[s] = <<r, s>>

(***************************************************************************)
(* As long as at most one write of a batch fails, and none calls back      *)
(* before it is counted, no MultiwriteCB is used and no request answered   *)
(* after it was freed, and none is put on s->rq twice: also not by the     *)
(* completions of the other writes of the batch, or of an earlier batch,   *)
(* that come when the requests have been issued again.  What a failure     *)
(* does free too early are qiovs, but only those of the writes that its    *)
(* own batch still has in flight.                                          *)
(***************************************************************************)
OneFailureContained ==
    (\A g \in Batch : early[g] = {} /\ failures[g] <= 1) =>
        /\ fault \in {"none", "qiov"}
        /\ \A m \in inflight : Dangling(m) => failures[m.gen] = 1

(***************************************************************************)
(* num_requests is the number of writes the driver still has, also when    *)
(* some were refused or have ended inside bdrv_aio_writev: mcb is freed    *)
(* with the last completion and not before.                                *)
(***************************************************************************)
CountExact ==
    fault = "none" => \A g \in Batch :
        mcb[g].num_requests = Cardinality({m \in inflight : m.gen = g})

\* A request waits for its answer, and of the batches it was part of the
\* driver has refused nothing and reported no success before it returned.
Waiting ==
    /\ fault = "none"
    /\ \E r \in Reqs :
          /\ status[r] = "pending"
          /\ \A g \in Batch : r \in mcb[g].callbacks =>
                                 ~refused[g] /\ "none" \notin early[g]

(***************************************************************************)
(* Every write is answered, with success, with an error or by stopping the *)
(* machine, unless bdrv_aio_writev returned NULL for its batch or called   *)
(* back with success before it was counted (a batch of one such write is   *)
(* never answered).                                                        *)
(***************************************************************************)
EveryWriteAnswered == Waiting ~> ~Waiting
=============================================================================
