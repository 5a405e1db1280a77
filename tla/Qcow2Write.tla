----------------------------- MODULE Qcow2Write -----------------------------
(***************************************************************************)
(* Concurrent AIO writes to a qcow2 image (block/qcow2.c, qcow_aio_writev  *)
(* and qcow_aio_write_cb; block/qcow2-cluster.c, the allocation of         *)
(* clusters).  A write that needs new clusters allocates them, writes its  *)
(* data asynchronously and only then copies the rest of the clusters and   *)
(* links them into the L2 table; a write to clusters that are being        *)
(* allocated waits for that allocation.                                    *)
(*                                                                         *)
(* Callbacks do not interrupt each other, so each stretch of code between  *)
(* two asynchronous operations is atomic; what the main thread still has   *)
(* to do, the restarts of dependent requests that a completion makes and   *)
(* the users' callbacks it is in, is the stack `todo'.  One L2 table,      *)
(* exclusively owned by the active image, maps the guest's disk; its       *)
(* clusters may be shared with a snapshot.  Refcounts are in one block,    *)
(* which exists and stays cached: none is allocated or loaded, so that of  *)
(* update_refcount only the write of that block can fail.  Where that      *)
(* write would fail for a free, qcow2_free_clusters aborts the process.    *)
(***************************************************************************)
EXTENDS Integers, Sequences, FiniteSets, SequencesExt

CONSTANTS
    Reqs,          \* the requests (QCowAIOCB), each issued at most once
    G,             \* guest clusters
    CS,            \* cluster_sectors
    H,             \* bound: host clusters of the image file
    MaxSectors,    \* bound: sectors of a request
    Faults,        \* which operations may fail
    Cancels,       \* whether requests may be cancelled
    NoReq          \* no request (NULL); in todo: code of a request's user

ASSUME ReqsAssumption == IsFiniteSet(Reqs)
ASSUME GAssumption == G \in Nat \ {0}
ASSUME CSAssumption == CS \in Nat \ {0}
ASSUME HAssumption == H \in Nat /\ H >= G
ASSUME MaxSectorsAssumption == MaxSectors \in 1..(G * CS)
ASSUME FaultsAssumption ==
    Faults \subseteq {"hd_write", "link", "alloc", "hd_submit"}
ASSUME NoReqAssumption == NoReq \notin Reqs

VARIABLES
    l2,              \* the L2 table: host cluster (0: none) and COPIED flag
    rc,              \* refcounts of the host clusters
    free_cluster_index,
    disk,            \* contents of the host clusters, sector by sector
    cluster_allocs,  \* in-flight allocations, newest first
    st,              \* each request: "new", "hd" (data write in flight),
                     \*   "written" or "broken" (it has ended), "wait"
                     \*   (dependent), "run" (in todo), "done"
    part,            \* each request: sector_num, nb_sectors, n
    meta,            \* each request: its l2meta
    dependents,      \* each request: l2meta.dependent_requests
    failed,          \* each request: ret < 0 in the running callback
    todo,            \* callbacks the main thread is in the middle of
    snapshot,        \* the host clusters that a snapshot refers to
    supersedes,      \* history: what each request, once successful, replaces
    allowed          \* history: what each guest sector may read as

tableVars == <<l2, rc, free_cluster_index>>
reqVars == <<st, part, meta, dependents, failed>>
history == <<supersedes, allowed>>
vars == <<tableVars, disk, cluster_allocs, reqVars, todo, snapshot, history>>

Guest == 0..(G - 1)
Host == 1..H
Offsets == 0..(CS - 1)
GuestSectors == 0..(G * CS - 1)

\* A sector holds the name of the request that wrote it last, the number of
\* the guest sector it was first filled for, or whatever the file held.
Garbage == -1
Contents == Reqs \cup GuestSectors \cup {Garbage}
Entries == [host : 0..H, copied : BOOLEAN]
Unallocated == [host |-> 0, copied |-> FALSE]

NoMeta == [offset |-> 0, cluster_offset |-> 0, n_start |-> 0,
           nb_available |-> 0, nb_clusters |-> 0, depends_on |-> NoReq]

\* What the guest reads: the mapped cluster or the backing image.
GuestRead(s) ==
    LET e == l2[s \div CS] IN
    IF e.host = 0 THEN s ELSE disk[e.host][s % CS]

\* Each guest cluster starts unallocated, owned, or shared with a snapshot.
Init ==
    /\ \E shared \in SUBSET Guest : \E owned \in SUBSET (Guest \ shared) :
         /\ l2 = [g \in Guest |->
                    IF g \in shared \cup owned
                    THEN [host |-> g + 1, copied |-> g \in owned]
                    ELSE Unallocated]
         /\ rc = [h \in Host |-> IF h - 1 \in shared THEN 2
                                 ELSE IF h - 1 \in owned THEN 1 ELSE 0]
         /\ snapshot = {g + 1 : g \in shared}
    /\ disk = [h \in Host |->
                 [o \in Offsets |-> IF h <= G THEN (h - 1) * CS + o
                                              ELSE Garbage]]
    /\ free_cluster_index = 1
    /\ cluster_allocs = <<>>
    /\ st = [r \in Reqs |-> "new"]
    /\ part = [r \in Reqs |-> [sector_num |-> 0, nb_sectors |-> 0, n |-> 0]]
    /\ meta = [r \in Reqs |-> NoMeta]
    /\ dependents = [r \in Reqs |-> <<>>]
    /\ failed = [r \in Reqs |-> FALSE]
    /\ todo = <<>>
    /\ supersedes = [r \in Reqs |-> [s \in GuestSectors |-> {}]]
    /\ allowed = [s \in GuestSectors |-> {s}]

-----------------------------------------------------------------------------
(* Allocation.                                                             *)

\* size_to_clusters
Clusters(sectors) == (sectors + CS - 1) \div CS

\* count_contiguous_clusters and count_contiguous_free_clusters: the longest
\* stretch from guest cluster g that can be written in place (first entry
\* COPIED), or that can be replaced by one new allocation.
InPlaceAnyFlag(g, i) == l2[g + i].host = l2[g].host + i    \* mutant
InPlace(g, i) == l2[g + i] = [host |-> l2[g].host + i, copied |-> TRUE]
Replaceable(g, i) ==
    \/ l2[g + i].host = 0
    \/ l2[g].host # 0 /\ l2[g + i] = [host |-> l2[g].host + i, copied |-> FALSE]
Stretch(Test(_, _), g, max) ==
    CHOOSE n \in 0..max : /\ \A i \in 0..(n - 1) : Test(g, i)
                          /\ n = max \/ ~Test(g, n)

\* The scan over cluster_allocs: how many of nb clusters from the (unaligned)
\* offset off are left, and the allocation to wait for if none is.
Narrowed(off, before, r) ==
    LET old == meta[r]
        apart == \/ off + before.nb * CS < old.offset
                 \/ off > old.offset + old.nb_clusters * CS
        left == IF off < old.offset THEN (old.offset - off) \div CS ELSE 0
    IN  IF before.dep # NoReq \/ apart THEN before
        ELSE [nb |-> left, dep |-> IF left = 0 THEN r ELSE NoReq]

NoConflicts(off, nb) == [nb |-> nb, dep |-> NoReq]    \* mutant
NeverWaits(off, nb) ==                                \* mutant
    [nb |-> IF cluster_allocs = <<>> THEN nb ELSE 0, dep |-> NoReq]
Conflicts(off, nb) ==
    LET Scan[i \in 0..Len(cluster_allocs)] ==
          IF i = 0 THEN [nb |-> nb, dep |-> NoReq]
          ELSE Narrowed(off, Scan[i - 1], cluster_allocs[i])
    IN Scan[Len(cluster_allocs)]

\* alloc_clusters_noref: the first free run at or after free_cluster_index.
FreeRun(h, nb) ==
    /\ h >= free_cluster_index
    /\ h + nb - 1 <= H
    /\ \A i \in 0..(nb - 1) : rc[h + i] = 0
FirstFreeRun(h, nb) ==
    FreeRun(h, nb) /\ \A k \in free_cluster_index..(h - 1) : ~FreeRun(k, nb)

\* qcow2_alloc_clusters: update_refcount counts the nb clusters from h once.
AllocClusters(h, nb) ==
    /\ FirstFreeRun(h, nb)
    /\ rc' = [x \in Host |-> IF x \in h..(h + nb - 1) THEN 1 ELSE rc[x]]
    /\ free_cluster_index' = h + nb
-----------------------------------------------------------------------------
(* Issuing a request: qcow_aio_writev, qcow_aio_setup.                     *)

\* The contents of sector x that no request in flight is still writing.
Settled(x) == {v \in allowed[x] : \A q \in Reqs : v = q => st[q] = "done"}

\* The main loop, or the callback of a completed request, is running.
UserCode == todo # <<>> => Head(todo) = NoReq

AioWritev(r, s, k) ==
    /\ UserCode
    /\ st[r] = "new"
    /\ s + k <= G * CS
    /\ st' = [st EXCEPT ![r] = "run"]
    /\ part' = [part EXCEPT ![r] = [sector_num |-> s, nb_sectors |-> k, n |-> 0]]
    /\ todo' = <<r>> \o todo
    /\ supersedes' = [supersedes EXCEPT ![r] = [x \in GuestSectors |->
                        IF x \in s..(s + k - 1) THEN Settled(x) ELSE {}]]
    /\ allowed' = [x \in GuestSectors |->
                     IF x \in s..(s + k - 1) THEN allowed[x] \cup {r}
                     ELSE allowed[x]]
    /\ UNCHANGED <<tableVars, disk, cluster_allocs, meta, dependents, failed,
                   snapshot>>
-----------------------------------------------------------------------------
(* qcow_aio_write_cb, second half: the next part of the request.           *)

\* The request that the running callback is for, and where it has got to.
Running == Head(todo)
Position ==
    LET p == part[Running] IN
    [sector_num |-> p.sector_num + p.n, nb_sectors |-> p.nb_sectors - p.n]
Index == Position.sector_num % CS
First == Position.sector_num \div CS
End == Index + Position.nb_sectors

Part(n) == [part EXCEPT ![Running] =
               [sector_num |-> Position.sector_num,
                nb_sectors |-> Position.nb_sectors, n |-> n]]

\* acb->common.cb with success or failure, and qemu_aio_release.  The user's
\* callback may issue new requests before the rest of todo goes on (if there
\* is no rest it need not be told from the main loop).  After a success the
\* guest relies on no longer reading what was there before.
Done(ok) ==
    /\ st' = [st EXCEPT ![Running] = "done"]
    /\ todo' = IF Len(todo) = 1 THEN <<>> ELSE <<NoReq>> \o Tail(todo)
    /\ allowed' = IF ok THEN [x \in GuestSectors |->
                               allowed[x] \ supersedes[Running][x]]
                  ELSE allowed
    /\ UNCHANGED <<disk, part, dependents, failed, snapshot, supersedes>>

CallbackReturns ==
    /\ todo # <<>> /\ Running = NoReq
    /\ todo' = Tail(todo)
    /\ UNCHANGED <<tableVars, disk, cluster_allocs, reqVars, snapshot,
                   history>>

Finish ==
    /\ todo # <<>> /\ Running # NoReq
    /\ failed[Running] \/ Position.nb_sectors = 0
    /\ Done(~failed[Running])
    /\ UNCHANGED <<tableVars, cluster_allocs, meta>>

More ==
    /\ todo # <<>> /\ Running # NoReq
    /\ ~failed[Running] /\ Position.nb_sectors > 0

\* bdrv_aio_writev on the image file, for the sectors of nb clusters.
AllClusters(nb) == nb * CS                            \* mutant
Available(nb) == IF nb * CS < End THEN nb * CS ELSE End
SubmitData(nb) ==
    /\ st' = [st EXCEPT ![Running] = "hd"]
    /\ todo' = Tail(todo)
    /\ part' = Part(Available(nb) - Index)

\* qcow2_alloc_cluster_offset finds COPIED clusters: nothing to allocate.
OwnedClusters == Stretch(InPlace, First, Clusters(End))
UseOwned ==
    /\ l2[First].copied
    /\ meta' = [meta EXCEPT ![Running] =
                [offset |-> @.offset, cluster_offset |-> l2[First].host,
                 n_start |-> @.n_start, nb_available |-> Available(OwnedClusters),
                 nb_clusters |-> 0, depends_on |-> NoReq]]
    /\ UNCHANGED <<tableVars, cluster_allocs>>

WriteInPlace ==
    /\ More
    /\ UseOwned
    /\ SubmitData(OwnedClusters)
    /\ UNCHANGED <<disk, dependents, failed, snapshot, history>>

\* What an allocation for the running request may cover.
ReplaceableClusters == Stretch(Replaceable, First, Clusters(End))
Room == Conflicts(Position.sector_num, ReplaceableClusters)

\* It conflicts with an allocation in flight: the request becomes dependent.
WaitForAllocation ==
    /\ More
    /\ ~l2[First].copied
    /\ Room.dep # NoReq
    /\ meta' = [meta EXCEPT ![Running] =
                  [@ EXCEPT !.nb_clusters = 0, !.depends_on = Room.dep]]
    /\ dependents' = [dependents EXCEPT ![Room.dep] = <<Running>> \o @]
    /\ st' = [st EXCEPT ![Running] = "wait"]
    /\ todo' = Tail(todo)
    /\ part' = Part(0)
    /\ UNCHANGED <<tableVars, disk, cluster_allocs, failed, snapshot, history>>

\* New clusters, counted once, for as much of the request as there is room.
AllocateNew ==
    /\ ~l2[First].copied
    /\ Room.dep = NoReq
    /\ cluster_allocs' = <<Running>> \o cluster_allocs
    /\ \E h \in Host :
          /\ AllocClusters(h, Room.nb)
          /\ meta' = [meta EXCEPT ![Running] =
                [offset |-> Position.sector_num, cluster_offset |-> h,
                 n_start |-> Index, nb_available |-> Available(Room.nb),
                 nb_clusters |-> Room.nb, depends_on |-> @.depends_on]]
    /\ UNCHANGED l2

WriteAllocating ==
    /\ More
    /\ AllocateNew
    /\ SubmitData(Room.nb)
    /\ UNCHANGED <<disk, dependents, failed, snapshot, history>>

\* qcow2_alloc_clusters fails after m was put on cluster_allocs: writing the
\* refcount block failed, the counts stay in the cache and nothing is undone.
AllocFails ==
    /\ "alloc" \in Faults
    /\ More
    /\ ~l2[First].copied
    /\ Room.dep = NoReq
    /\ cluster_allocs' = <<Running>> \o cluster_allocs
    /\ \E h \in Host : AllocClusters(h, Room.nb)
    /\ Done(FALSE)
    /\ UNCHANGED <<l2, meta>>

\* bdrv_aio_writev returns NULL: "goto done" with ret still 0.
SubmitFails ==
    /\ "hd_submit" \in Faults
    /\ More
    /\ UseOwned \/ AllocateNew
    /\ Done(TRUE)
-----------------------------------------------------------------------------
(* The data write, and qcow_aio_write_cb, first half.                      *)

\* The first k sectors of the data are in the image file.
Written(r, k) ==
    LET p == part[r]  h0 == meta[r].cluster_offset  i == p.sector_num % CS IN
    disk' = [h \in Host |-> [o \in Offsets |->
               IF (h - h0) * CS + o \in i..(i + k - 1) THEN r ELSE disk[h][o]]]

\* The raw file driver carries the write out, or fails it half way.
HdWrite(r) ==
    /\ st[r] = "hd"
    /\ Written(r, part[r].n)
    /\ st' = [st EXCEPT ![r] = "written"]
    /\ UNCHANGED <<tableVars, cluster_allocs, part, meta, dependents, failed,
                   todo, snapshot, history>>

HdFail(r) ==
    /\ "hd_write" \in Faults
    /\ st[r] = "hd"
    /\ \E k \in 0..(part[r].n - 1) : Written(r, k)
    /\ st' = [st EXCEPT ![r] = "broken"]
    /\ UNCHANGED <<tableVars, cluster_allocs, part, meta, dependents, failed,
                   todo, snapshot, history>>

\* copy_sectors: the contents of the i-th new cluster when the sectors around
\* the written ones have been copied.
NothingCopied(m, i) == disk[m.cluster_offset + i]     \* mutant
CopySectors(m, i) ==
    [o \in Offsets |->
        IF i * CS + o \in m.n_start..(m.nb_available - 1)
        THEN disk[m.cluster_offset + i][o]
        ELSE GuestRead((m.offset \div CS + i) * CS + o)]

NewClusters(m) == m.cluster_offset..(m.cluster_offset + m.nb_clusters - 1)

\* qcow2_alloc_cluster_link_l2 until the L2 entries are set.
SetL2Entries(m) ==
    LET g == m.offset \div CS IN
    /\ disk' = [h \in Host |-> IF h \in NewClusters(m)
                               THEN CopySectors(m, h - m.cluster_offset)
                               ELSE disk[h]]
    /\ l2' = [x \in Guest |->
                IF x \in g..(g + m.nb_clusters - 1)
                THEN [host |-> m.cluster_offset + x - g, copied |-> TRUE]
                ELSE l2[x]]

\* ... and the clusters that were replaced: one reference less each.
Replaced(m) ==
    {l2[m.offset \div CS + i].host : i \in 0..(m.nb_clusters - 1)} \ {0}
\* update_refcount lowers free_cluster_index to the lowest cluster freed.
IndexAfterFree(m) ==
    Min({free_cluster_index} \cup {h \in Replaced(m) : rc[h] = 1})
OldClustersKept(m) == UNCHANGED <<rc, free_cluster_index>>     \* mutant
FreeOldClusters(m) ==
    /\ rc' = [h \in Host |-> IF h \in Replaced(m) THEN rc[h] - 1 ELSE rc[h]]
    /\ free_cluster_index' = IndexAfterFree(m)

Link(m) == SetL2Entries(m) /\ FreeOldClusters(m)

\* Linking fails, before anything was changed or when the L2 table is written
\* (the cached table has then been changed already).
LinkFailsLate(m) == UNCHANGED <<disk, l2>> /\ FreeOldClusters(m)   \* mutant
LinkFails(m) ==
    \/ UNCHANGED <<disk, tableVars>>
    \/ SetL2Entries(m) /\ UNCHANGED <<rc, free_cluster_index>>

\* run_dependent_requests: off the list of running requests, and restart the
\* dependent ones before the request itself goes on.
NobodyRestarted(r) == todo' = <<r>>                   \* mutant
RestartDependents(r) == todo' = dependents[r] \o <<r>>

StillRunning(r) == cluster_allocs                     \* mutant
OffTheList(r) == IF meta[r].nb_clusters # 0 THEN RemoveFirst(cluster_allocs, r)
                                            ELSE cluster_allocs

RunDependentRequests(r) ==
    /\ cluster_allocs' = OffTheList(r)
    /\ RestartDependents(r)
    /\ dependents' = [dependents EXCEPT ![r] = <<>>]
    /\ st' = [q \in Reqs |-> IF q \in ToSet(todo') THEN "run" ELSE st[q]]

WriteCb(r) ==
    /\ todo = <<>>
    /\ st[r] \in {"written", "broken"}
    /\ \/ /\ st[r] = "broken"
          /\ failed' = [failed EXCEPT ![r] = TRUE]
          /\ UNCHANGED <<disk, tableVars>>
       \/ /\ st[r] = "written" /\ meta[r].nb_clusters = 0
          /\ UNCHANGED <<failed, disk, tableVars>>
       \/ /\ st[r] = "written" /\ meta[r].nb_clusters # 0
          /\ \/ Link(meta[r]) /\ UNCHANGED failed
             \/ /\ "link" \in Faults
                /\ LinkFails(meta[r])
                /\ failed' = [failed EXCEPT ![r] = TRUE]
    /\ RunDependentRequests(r)
    /\ UNCHANGED <<part, meta, snapshot, history>>
-----------------------------------------------------------------------------
\* qcow_aio_cancel: the data write is cancelled or waited for, and the block
\* released; cluster_allocs and the lists of dependents stay as they are.
AioCancel(r) ==
    /\ Cancels
    /\ todo = <<>>
    /\ st[r] \in {"hd", "written", "broken", "wait"}
    /\ st' = [st EXCEPT ![r] = "done"]
    /\ UNCHANGED <<tableVars, disk, cluster_allocs, part, meta, dependents,
                   failed, todo, snapshot, history>>

Callback ==
    \/ Finish \/ CallbackReturns \/ WriteInPlace \/ WaitForAllocation
    \/ WriteAllocating \/ AllocFails \/ SubmitFails

Next ==
    \/ Callback
    \/ \E r \in Reqs :
          \/ \E s \in GuestSectors, k \in 1..MaxSectors : AioWritev(r, s, k)
          \/ HdWrite(r) \/ HdFail(r) \/ WriteCb(r) \/ AioCancel(r)

Spec == Init /\ [][Next]_vars

\* The main thread runs callbacks to their end and data writes end.
Fairness ==
    /\ WF_vars(Callback)
    /\ \A r \in Reqs : WF_vars(HdWrite(r) \/ HdFail(r)) /\ WF_vars(WriteCb(r))

FairSpec == Spec /\ Fairness
-----------------------------------------------------------------------------
(* Properties.                                                             *)

Metas == [offset : GuestSectors, cluster_offset : 0..H, n_start : Offsets,
          nb_available : 0..(G * CS), nb_clusters : 0..G,
          depends_on : Reqs \cup {NoReq}]

TypeOK ==
    /\ l2 \in [Guest -> Entries]
    /\ rc \in [Host -> 0..2]
    /\ free_cluster_index \in 1..(H + 1)
    /\ disk \in [Host -> [Offsets -> Contents]]
    /\ cluster_allocs \in Seq(Reqs)
    /\ st \in [Reqs -> {"new", "hd", "written", "broken", "wait", "run", "done"}]
    /\ part \in [Reqs -> [sector_num : 0..(G * CS), nb_sectors : 0..(G * CS),
                          n : 0..(G * CS)]]
    /\ \A r \in Reqs : part[r].n <= part[r].nb_sectors
    /\ meta \in [Reqs -> Metas]
    /\ dependents \in [Reqs -> Seq(Reqs)]
    /\ failed \in [Reqs -> BOOLEAN]
    /\ todo \in Seq(Reqs \cup {NoReq})
    /\ snapshot \in SUBSET Host
    /\ supersedes \in [Reqs -> [GuestSectors -> SUBSET Contents]]
    /\ allowed \in [GuestSectors -> SUBSET Contents]

Allocating(r) == st[r] \in {"hd", "written", "broken"} /\ meta[r].nb_clusters # 0

(* cluster_allocs lists the "AIO write request[s] in flight" that allocate  *)
(* clusters (qcow2_alloc_cluster_offset): each of them once, and no other.  *)
InFlightExact ==
    /\ ToSet(cluster_allocs) = {r \in Reqs : Allocating(r)}
    /\ \A i, j \in DOMAIN cluster_allocs :
          cluster_allocs[i] = cluster_allocs[j] => i = j

Covered(r) ==
    LET g == meta[r].offset \div CS IN g..(g + meta[r].nb_clusters - 1)

(* No two requests in flight allocate the same guest cluster, although the  *)
(* scan compares unaligned offsets: the link of one can then not drop the   *)
(* data of the other.                                                       *)
AllocationsDisjoint ==
    \A r, q \in Reqs : r # q /\ Allocating(r) /\ Allocating(q) =>
        Covered(r) \cap Covered(q) = {}

(* Whatever the scan leaves, a request that need not wait has at least one  *)
(* cluster to allocate: the abort() in qcow2_alloc_cluster_offset is never  *)
(* reached.                                                                 *)
NeverAborts == More /\ ~l2[First].copied /\ Room.dep = NoReq => Room.nb >= 1

(* The guest reads what it wrote: a sector never shows contents older than  *)
(* a write reported as successful, whatever other sectors of its cluster    *)
(* were written, copied and linked at the same time.                        *)
GuestData == \A s \in GuestSectors : GuestRead(s) \in allowed[s]

Users(h) ==
    Cardinality({g \in Guest : l2[g].host = h})
        + Cardinality({r \in Reqs : Allocating(r) /\ h \in NewClusters(meta[r])})
        + Cardinality({h} \cap snapshot)

(* Failed and cancelled writes may leak clusters, but no cluster that is    *)
(* mapped, about to be mapped or part of the snapshot is counted as free or *)
(* has more users than its refcount says.                                   *)
RefcountSafe == \A h \in Host : Users(h) <= rc[h]

(* When no request is in flight, none has failed and none was abandoned    *)
(* with its allocation (it would still be on cluster_allocs), nothing has   *)
(* leaked: the refcounts are those of the L2 table and of the snapshot,     *)
(* also when requests were cancelled while they waited or wrote in place.   *)
NoLeak ==
    (/\ cluster_allocs = <<>>
     /\ \A r \in Reqs : st[r] \in {"new", "done"} /\ ~failed[r]) =>
        \A h \in Host : rc[h] = Users(h)

(* A cluster of the snapshot keeps its contents for ever: it is neither     *)
(* written in place nor, when its last guest mapping is replaced, freed and *)
(* allocated again.                                                         *)
SnapshotKept == [][\A h \in snapshot : disk'[h] = disk[h]]_vars

(* A dependent request waits for an allocation that is really in flight, so *)
(* that somebody will restart it.                                           *)
WaitersHaveOwner ==
    \A r \in Reqs : st[r] = "wait" =>
        \E q \in Reqs : Allocating(q) /\ r \in ToSet(dependents[q])

\* The request that r depends on was abandoned: it has ended but is still on
\* cluster_allocs.
Stranded(r) ==
    st[r] = "wait" /\ \E q \in ToSet(cluster_allocs) :
        q = meta[r].depends_on /\ st[q] = "done"

(* Every write is answered, whatever fails: dependencies are restarted and  *)
(* never circular.  The one exception is a request that waits for another   *)
(* that was abandoned with its allocation (qcow_aio_cancel, AllocFails and  *)
(* SubmitFails restart nobody).                                             *)
WritesComplete ==
    \A r \in Reqs : st[r] # "new" ~> st[r] = "done" \/ Stranded(r)
=============================================================================
