--------------------------- MODULE Qcow2Snapshot ---------------------------
(***************************************************************************)
(* The metadata of a qcow2 image under internal snapshots                  *)
(* (block/qcow2-snapshot.c): the active L1 table, the L1 tables of the     *)
(* snapshots, the L2 tables and data clusters they share, the refcounts    *)
(* (block/qcow2-refcount.c) and the COPIED flags, each in memory and in    *)
(* the image file.                                                         *)
(*                                                                         *)
(* The operations run in the main thread without other I/O in between, so  *)
(* a write to the disk by the guest (or of the VM state, behind the end of *)
(* the disk) is one step; a snapshot operation has one step for each of    *)
(* its writes to the file, between which it may fail or QEMU may die.      *)
(* Clusters of L1 tables, of the snapshot table and of refcount blocks are *)
(* left out: their owners never share them.                                *)
(***************************************************************************)
EXTENDS Integers, Sequences, FiniteSets, FiniteSetsExt

CONSTANTS
    L1Max,         \* bound: entries of an L1 table
    DiskTables,    \* L1 entries of a new image; the VM state is behind them
    L2Size,        \* entries of an L2 table
    H,             \* bound: host clusters
    Values,        \* what the guest writes
    Blank,         \* what a cluster reads as that was never written
    Ids,           \* ids of snapshots
    NoId,
    Ops,           \* the snapshot operations that are used
    MaxOps,        \* bound: guest writes and snapshot operations
    Faults,        \* where a snapshot operation may fail
    FailIn,        \* the operations that may
    ReopenIn       \* operations in the middle of which QEMU may die; "idle":
                   \*   the image may be closed and opened between them;
                   \*   "drift": also when the file's L1 table is out of date

ASSUME L1Assumption == L1Max \in Nat /\ DiskTables \in 1..L1Max
ASSUME L2Assumption == L2Size \in Nat \ {0}
ASSUME HAssumption == H \in Nat \ {0}
ASSUME BlankAssumption == Blank \notin Values /\ NoId \notin Ids
ASSUME OpsAssumption ==
    /\ Ops \subseteq {"create", "goto", "delete"}
    /\ FailIn \subseteq Ops
    /\ ReopenIn \subseteq {"idle", "drift"} \cup Ops
ASSUME MaxOpsAssumption == MaxOps \in Nat
ASSUME FaultsAssumption == Faults \subseteq {"refs", "save_l1", "list"}

VARIABLES
    file,                     \* contents of the host clusters
    l1, l1_size, rc, snaps,   \* in memory: BDRVQcowState
    disk_l1, disk_l1_size, disk_rc,          \* in the file
    disk_snaps, disk_nb,      \* in the file: snapshot table, nb_snapshots
    snap_l1,                  \* in the file: the snapshots' L1 tables
    op,                       \* the snapshot operation that is running
    ops,
    image, saved              \* history: what the guest wrote, and what it
                              \*   had written when each snapshot was made
VARIABLES
    drift,        \* history: the L1 table in the file, or its size, is not what
                  \*   memory had when the last operation ended
    leaky         \* history: a creation has failed or died half way

memVars == <<l1, l1_size, rc, snaps>>
diskVars == <<disk_l1, disk_l1_size, disk_rc, disk_snaps, disk_nb, snap_l1>>
history == <<image, saved, drift, leaky>>
vars == <<file, memVars, diskVars, op, ops, history>>

Host == 1..H
L1Index == 0..(L1Max - 1)
L2Index == 0..(L2Size - 1)
Clusters == L1Index \X L2Index

Entries == [host : 0..H, copied : BOOLEAN]
None == [host |-> 0, copied |-> FALSE]
L1Tables == [L1Index -> Entries]
L2Tables == [L2Index -> Entries]
EmptyL1 == [i \in L1Index |-> None]
EmptyL2 == [j \in L2Index |-> None]

Idle == [k |-> "idle", id |-> NoId, step |-> "idle", on |-> "active",
         addend |-> 0, i |-> 0, tab |-> EmptyL1, modified |-> FALSE]

\* The first n entries of table t, in front of the rest of table rest.
Overlay(t, n, rest) == [i \in L1Index |-> IF i < n THEN t[i] ELSE rest[i]]

Init ==
    /\ file = [h \in Host |-> Blank]
    /\ l1 = EmptyL1 /\ disk_l1 = EmptyL1
    /\ l1_size = DiskTables /\ disk_l1_size = DiskTables
    /\ rc = [h \in Host |-> 0] /\ disk_rc = [h \in Host |-> 0]
    /\ snaps = <<>> /\ disk_snaps = <<>> /\ disk_nb = 0
    /\ snap_l1 = [id \in Ids |-> EmptyL1]
    /\ op = Idle
    /\ ops = 0
    /\ image = [c \in Clusters |-> Blank]
    /\ drift = FALSE /\ leaky = FALSE
    /\ saved = [id \in Ids |-> [c \in Clusters |-> Blank]]

\* qcow_open: memory is filled from the file, after a clean shutdown or when
\* QEMU died in the middle of an operation.
Reopen ==
    /\ op.k \in ReopenIn
    /\ drift => "drift" \in ReopenIn
    /\ l1' = Overlay(disk_l1, disk_l1_size, EmptyL1)
    /\ l1_size' = disk_l1_size
    /\ rc' = disk_rc
    /\ snaps' = SubSeq(disk_snaps, 1, disk_nb)
    /\ op' = Idle
    /\ leaky' = (leaky \/ op.k # "idle")
    /\ drift' = FALSE
    /\ UNCHANGED <<file, diskVars, ops, image, saved>>
-----------------------------------------------------------------------------
(* Writing to the disk.                                                    *)

\* alloc_clusters_noref for one cluster: free_cluster_index is never above
\* the lowest free cluster.
Free(count) == {h \in Host : count[h] = 0}
LowestFree(count) == Min(Free(count))

\* qcow2_grow_l1_table: the new size, and the new table.
NewL1Size(min) ==
    LET grown[n \in Nat] == IF n >= min THEN n ELSE grown[(n * 3 + 1) \div 2]
    IN grown[IF l1_size = 0 THEN 1 ELSE l1_size]
GrownL1 == Overlay(l1, l1_size, EmptyL1)

\* get_cluster_table for L1 entry e: a table of the image's own is used as it
\* is; a shared one loses a reference and is copied to a new cluster.
OldL2(e) == IF e.host = 0 THEN EmptyL2 ELSE file[e.host]
ClusterTable(e) ==
    LET freed == IF e.host = 0 THEN rc ELSE [rc EXCEPT ![e.host] = @ - 1] IN
    IF e.copied
    THEN [at |-> e.host, table |-> file[e.host], count |-> rc]
    ELSE [at |-> LowestFree(freed), table |-> OldL2(e),
          count |-> [freed EXCEPT ![LowestFree(freed)] = 1]]

\* write_l1_entry follows only when there is a new L2 table.
L1Written(e, new) == IF e.copied THEN disk_l1 ELSE new

\* Only a cluster that no snapshot shares is written in place.
Mapped(old) == old.host # 0                           \* mutant
InPlace(old) == old.copied

\* qcow_aio_writev of one cluster, alone: in place, or into a new cluster
\* that replaces the one mapped before.
Write(i, j, v) ==
    /\ op.k = "idle" /\ ops < MaxOps
    /\ Cardinality(Free(rc)) >= 2
    /\ i < l1_size \/ NewL1Size(i + 1) <= L1Max
    /\ LET big == i >= l1_size
           e == IF big THEN None ELSE l1[i]
           l2 == ClusterTable(e)
           old == l2.table[j]
           new == LowestFree(l2.count)
       IN /\ l1_size' = IF big THEN NewL1Size(i + 1) ELSE l1_size
          /\ l1' = [(IF big THEN GrownL1 ELSE l1) EXCEPT
                      ![i] = [host |-> l2.at, copied |-> TRUE]]
          /\ disk_l1' = L1Written(e, l1')
          /\ IF InPlace(old)
             THEN /\ file' = [file EXCEPT ![l2.at] = l2.table, ![old.host] = v]
                  /\ rc' = l2.count
             ELSE /\ file' = [file EXCEPT
                        ![l2.at] = [l2.table EXCEPT
                                      ![j] = [host |-> new, copied |-> TRUE]],
                        ![new] = v]
                  /\ rc' = [h \in Host |->
                              IF h = new THEN 1
                              ELSE IF h = old.host THEN l2.count[h] - 1
                              ELSE l2.count[h]]
    /\ disk_l1_size' = IF i >= l1_size THEN l1_size' ELSE disk_l1_size
    /\ disk_rc' = rc'
    /\ ops' = ops + 1
    /\ image' = [image EXCEPT ![<<i, j>>] = v]
    /\ drift' = (drift /\ i < l1_size)
    /\ UNCHANGED <<snaps, disk_snaps, disk_nb, snap_l1, op, saved, leaky>>
-----------------------------------------------------------------------------
(* qcow2_update_snapshot_refcount on the active L1 table or on a snapshot's *)
(* (of which it works on a copy, op.tab): op.i counts the L1 entries done.  *)

Listed(id) == \E k \in DOMAIN snaps : snaps[k].id = id
find_snapshot_by_id(id) == CHOOSE k \in DOMAIN snaps : snaps[k].id = id
SizeOf(id) == snaps[find_snapshot_by_id(id)].size

InRefs == op.step \in {"refs", "refs2"}
Table == IF op.on = "active" THEN l1 ELSE op.tab
Size == IF op.on = "active" THEN l1_size ELSE SizeOf(op.id)

Pass(k, id, step, on, addend, tab) ==
    [k |-> k, id |-> id, step |-> step, on |-> on, addend |-> addend,
     i |-> 0, tab |-> tab, modified |-> FALSE]

\* Refcounts when the data clusters of L2 table t have been counted, and when
\* the cluster of the table itself has been.
CountData(t) ==
    [h \in Host |-> rc[h] + op.addend
                      * Cardinality({j \in L2Index : t[j].host = h})]
CountTable(t, host) == [CountData(t) EXCEPT ![host] = @ + op.addend]

Flag(e, count) == count[e.host] = 1
Reflag(e, count) ==
    IF e.host = 0 THEN e ELSE [host |-> e.host, copied |-> Flag(e, count)]

\* One L1 entry: the refcounts in memory, the L2 table in the file.
UpdateTable ==
    /\ InRefs /\ op.i < Size
    /\ LET e == Table[op.i] IN
       IF e.host = 0
       THEN op' = [op EXCEPT !.i = @ + 1] /\ UNCHANGED <<rc, file, l1>>
       ELSE LET t == file[e.host]
                count == CountTable(t, e.host)
                e2 == Reflag(e, count)
            IN /\ rc' = count
               /\ file' = [file EXCEPT ![e.host] =
                             [j \in L2Index |-> Reflag(t[j], count)]]
               /\ l1' = IF op.on = "active"
                        THEN [l1 EXCEPT ![op.i] = e2] ELSE l1
               /\ op' = [op EXCEPT !.i = @ + 1, !.tab[op.i] = e2,
                                    !.modified = @ \/ e2 # e]
    /\ UNCHANGED <<l1_size, snaps, diskVars, ops, history>>

\* The L1 table is written back if this pass has changed an entry.
WriteL1 ==
    /\ InRefs /\ op.i = Size
    /\ op' = [op EXCEPT !.i = @ + 1]
    /\ disk_l1' = IF op.modified /\ op.on = "active"
                  THEN Overlay(l1, l1_size, disk_l1) ELSE disk_l1
    /\ snap_l1' = IF op.modified /\ op.on = "snapshot"
                  THEN [snap_l1 EXCEPT ![op.id] = op.tab] ELSE snap_l1
    /\ drift' = IF op.modified /\ op.on = "active"
                THEN l1_size # disk_l1_size ELSE drift
    /\ UNCHANGED <<file, memVars, disk_l1_size, disk_rc, disk_snaps, disk_nb,
                   ops, image, saved, leaky>>

\* What follows the pass over the refcounts: "must update the copied flag on
\* the current cluster offsets" after those of a deleted snapshot.
DropAtOnce == IF op.k = "create" THEN [op EXCEPT !.step = "save_l1"]   \* mutant
              ELSE IF op.k = "delete" THEN [op EXCEPT !.step = "drop"]
              ELSE IF op.step = "refs" THEN [op EXCEPT !.step = "load_l1"]
              ELSE Idle
AfterRefs ==
    CASE op.k = "create" -> [op EXCEPT !.step = "save_l1"]
      [] op.k = "goto" /\ op.step = "refs" -> [op EXCEPT !.step = "load_l1"]
      [] op.k = "goto" /\ op.step = "refs2" -> Idle
      [] op.k = "delete" /\ op.step = "refs" ->
            Pass("delete", op.id, "refs2", "active", 0, EmptyL1)
      [] op.k = "delete" /\ op.step = "refs2" -> [op EXCEPT !.step = "drop"]

\* The refcounts, kept in memory so far, are written.
WriteRefcounts ==
    /\ InRefs /\ op.i = Size + 1
    /\ disk_rc' = rc
    /\ op' = AfterRefs
    /\ image' = IF op.k = "goto" /\ op.step = "refs2" THEN saved[op.id]
                                                      ELSE image
    /\ UNCHANGED <<file, memVars, disk_l1, disk_l1_size, disk_snaps, disk_nb,
                   snap_l1, ops, saved, drift, leaky>>

\* The L2 table cannot be read, or not be written: the refcounts are written
\* as they are and the operation gives up.
RefsFail ==
    /\ "refs" \in Faults /\ op.k \in FailIn
    /\ InRefs /\ op.i < Size
    /\ Table[op.i].host # 0
    /\ rc' \in {rc, CountData(file[Table[op.i].host])}
    /\ disk_rc' = rc'
    /\ op' = Idle
    /\ drift' = (drift \/ op.modified)
    /\ leaky' = TRUE
    /\ UNCHANGED <<file, l1, l1_size, snaps, disk_l1, disk_l1_size, disk_snaps,
                   disk_nb, snap_l1, ops, image, saved>>
-----------------------------------------------------------------------------
(* The snapshot operations.                                                *)

Start(k) == op.k = "idle" /\ k \in Ops /\ ops < MaxOps /\ ops' = ops + 1

\* qcow2_snapshot_create: the references of a second owner, then its L1 table.
\* ReferencesLater is a mutant.
ReferencesLater(id) == Pass("create", id, "save_l1", "active", 1, EmptyL1)
ReferencesFirst(id) == Pass("create", id, "refs", "active", 1, EmptyL1)
SnapshotCreate(id) ==
    /\ Start("create")
    /\ ~Listed(id)
    /\ op' = ReferencesFirst(id)
    /\ saved' = [saved EXCEPT ![id] = image]
    /\ UNCHANGED <<file, memVars, diskVars, image, drift, leaky>>

NewSnapshot == [id |-> op.id, size |-> l1_size]
SaveL1 ==
    /\ op.step = "save_l1"
    /\ snap_l1' = [snap_l1 EXCEPT ![op.id] = Overlay(l1, l1_size, EmptyL1)]
    /\ snaps' = Append(snaps, NewSnapshot)
    /\ op' = [op EXCEPT !.step = "list"]
    /\ UNCHANGED <<file, l1, l1_size, rc, disk_l1, disk_l1_size, disk_rc,
                   disk_snaps, disk_nb, ops, history>>

\* qcow2_snapshot_goto: the active references go, the snapshot's L1 table is
\* copied over the active one (grown first if it is shorter; a longer one
\* keeps its size in the header), and its references are added.
SnapshotGoto(id) ==
    /\ Start("goto")
    /\ Listed(id)
    /\ op' = Pass("goto", id, "refs", "active", -1, EmptyL1)
    /\ UNCHANGED <<file, memVars, diskVars, history>>

\* The model ends where the table would outgrow its bound L1Max.
GrowL1 ==
    /\ op.step = "load_l1" /\ SizeOf(op.id) > l1_size
    /\ NewL1Size(SizeOf(op.id)) <= L1Max
    /\ l1' = GrownL1 /\ disk_l1' = GrownL1
    /\ l1_size' = NewL1Size(SizeOf(op.id))
    /\ disk_l1_size' = l1_size'
    /\ drift' = FALSE
    /\ UNCHANGED <<file, rc, snaps, disk_rc, disk_snaps, disk_nb, snap_l1, op,
                   ops, image, saved, leaky>>

KeptL1(old) == old                                    \* mutant
LoadedL1(old) == Overlay(snap_l1[op.id], SizeOf(op.id), old)
LoadL1 ==
    /\ op.step = "load_l1" /\ SizeOf(op.id) <= l1_size
    /\ l1_size' = SizeOf(op.id)
    /\ l1' = LoadedL1(l1)
    /\ disk_l1' = LoadedL1(disk_l1)
    /\ op' = Pass("goto", op.id, "refs2", "active", 1, EmptyL1)
    /\ drift' = (SizeOf(op.id) # disk_l1_size)
    /\ UNCHANGED <<file, rc, snaps, disk_l1_size, disk_rc, disk_snaps, disk_nb,
                   snap_l1, ops, image, saved, leaky>>

\* qcow2_snapshot_delete.
SnapshotDelete(id) ==
    /\ Start("delete")
    /\ Listed(id)
    /\ op' = Pass("delete", id, "refs", "snapshot", -1, snap_l1[id])
    /\ UNCHANGED <<file, memVars, diskVars, history>>

Drop ==
    /\ op.step = "drop"
    /\ LET n == find_snapshot_by_id(op.id)
       IN snaps' = SubSeq(snaps, 1, n - 1) \o SubSeq(snaps, n + 1, Len(snaps))
    /\ op' = [op EXCEPT !.step = "list"]
    /\ UNCHANGED <<file, l1, l1_size, rc, diskVars, ops, history>>

\* qcow_write_snapshots: a new table and its place in the header, then the
\* number of snapshots.
WriteList ==
    /\ op.step = "list"
    /\ disk_snaps' = snaps
    /\ op' = [op EXCEPT !.step = "count"]
    /\ UNCHANGED <<file, memVars, disk_l1, disk_l1_size, disk_rc, disk_nb,
                   snap_l1, ops, history>>

WriteCount ==
    /\ op.step = "count"
    /\ disk_nb' = Len(snaps)
    /\ op' = Idle
    /\ UNCHANGED <<file, memVars, disk_l1, disk_l1_size, disk_rc, disk_snaps,
                   snap_l1, ops, history>>

\* The snapshot's L1 table or the snapshot table cannot be written: the
\* operation returns, with whatever was changed in memory and in the file.
SnapshotFail ==
    /\ op.k \in FailIn
    /\ \/ "save_l1" \in Faults /\ op.step = "save_l1"
       \/ "list" \in Faults /\ op.step \in {"list", "count"}
    /\ op' = Idle
    /\ leaky' = TRUE
    /\ UNCHANGED <<file, memVars, diskVars, ops, image, saved, drift>>

Next ==
    \/ Reopen
    \/ \E i \in L1Index, j \in L2Index, v \in Values : Write(i, j, v)
    \/ \E id \in Ids :
          SnapshotCreate(id) \/ SnapshotGoto(id) \/ SnapshotDelete(id)
    \/ UpdateTable \/ WriteL1 \/ WriteRefcounts \/ RefsFail
    \/ SaveL1 \/ GrowL1 \/ LoadL1 \/ Drop \/ WriteList \/ WriteCount
    \/ SnapshotFail

Spec == Init /\ [][Next]_vars
-----------------------------------------------------------------------------
(* Properties.                                                             *)

TypeOK ==
    /\ \A h \in Host : file[h] \in Values \cup {Blank} \cup L2Tables
    /\ l1 \in L1Tables /\ disk_l1 \in L1Tables
    /\ l1_size \in 0..L1Max /\ disk_l1_size \in 0..L1Max
    /\ rc \in [Host -> Nat] /\ disk_rc \in [Host -> Nat]
    /\ snaps \in Seq([id : Ids, size : 0..L1Max])
    /\ disk_snaps \in Seq([id : Ids, size : 0..L1Max])
    /\ disk_nb \in Nat
    /\ snap_l1 \in [Ids -> L1Tables]
    /\ op.k \in {"idle"} \cup Ops /\ op.id \in Ids \cup {NoId}
    /\ op.i \in 0..(L1Max + 1) /\ op.tab \in L1Tables
    /\ op.modified \in BOOLEAN
    /\ op.step \in {"idle", "refs", "refs2", "save_l1", "load_l1", "drop",
                    "list", "count"}
    /\ ops \in 0..MaxOps
    /\ image \in [Clusters -> Values \cup {Blank}]
    /\ saved \in [Ids -> [Clusters -> Values \cup {Blank}]]

\* qcow2_get_cluster_offset and the read: what cluster c of an L1 table of n
\* entries reads as.  A cluster that is no table reads as no value.
Read(t, n, c) ==
    LET i == c[1]  j == c[2] IN
    IF i >= n \/ t[i].host = 0 THEN Blank
    ELSE IF file[t[i].host] \notin L2Tables THEN NoId
    ELSE LET h == file[t[i].host][j].host IN IF h = 0 THEN Blank ELSE file[h]

(* Between operations the guest reads what it wrote, or after going to a    *)
(* snapshot what it had written when the snapshot was made; also when the   *)
(* image has been opened again, and when snapshot creations have failed or  *)
(* died anywhere.                                                           *)
GuestIntact ==
    op.k = "idle" => \A c \in Clusters : Read(l1, l1_size, c) = image[c]

(* Each snapshot of the list, until its own deletion, reads as the disk did *)
(* when it was made, whatever is written, created, deleted or reverted to   *)
(* afterwards; at every step of those operations, and in a reopened image.  *)
SnapshotsIntact ==
    \A k \in DOMAIN snaps :
        ~(op.k = "delete" /\ op.id = snaps[k].id) =>
            \A c \in Clusters : Read(snap_l1[snaps[k].id], snaps[k].size, c)
                                  = saved[snaps[k].id][c]

\* The references to cluster h from the L1 tables of the image, the active one
\* in the file (table 0) with n entries and those of a list of snapshots: from
\* their entries (check_refcounts_l1), and from the entries of the L2 tables
\* these refer to (check_refcounts_l2).
References(n, list, h) ==
    LET table(k) == IF k = 0 THEN disk_l1 ELSE snap_l1[list[k].id]
        size(k) == IF k = 0 THEN n ELSE list[k].size
        host(ki) == table(ki[1])[ki[2]].host
        used == {ki \in (0..Len(list)) \X L1Index :
                   ki[2] < size(ki[1]) /\ host(ki) # 0}
    IN Cardinality({ki \in used : host(ki) = h})
         + Cardinality({kij \in used \X L2Index :
                          /\ file[host(kij[1])] \in L2Tables
                          /\ file[host(kij[1])][kij[2]].host = h})

(* qcow2_check_refcounts finds nothing: every refcount is the number of     *)
(* references, and in the active tables "QCOW_OFLAG_COPIED must be set iff  *)
(* refcount == 1"; unless a creation has failed or died, whose references   *)
(* stay counted.                                                            *)
CheckClean ==
    op.k = "idle" /\ ~leaky =>
        /\ \A h \in Host : rc[h] = References(l1_size, snaps, h)
        /\ \A i \in L1Index : i < l1_size /\ disk_l1[i].host # 0 =>
              /\ disk_l1[i].copied <=> rc[disk_l1[i].host] = 1
              /\ \A j \in L2Index :
                    LET e == file[disk_l1[i].host][j] IN
                    e.host # 0 => (e.copied <=> rc[e.host] = 1)

(* Between operations, at every moment of the creation of a snapshot, and   *)
(* when it has failed, the file counts at least the references that a       *)
(* reopened image would have: what is lost is space, never data.  (Where    *)
(* the file's L1 table is out of date, see drift, it is not what counts.)   *)
NeverUndercounted ==
    op.k \in {"idle", "create"} /\ ~drift =>
      \A h \in Host :
        References(disk_l1_size, SubSeq(disk_snaps, 1, disk_nb), h)
            <= disk_rc[h]
=============================================================================
