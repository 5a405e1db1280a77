------------------------- MODULE Qcow2SnapshotProofs -------------------------
(***************************************************************************)
(* Internal snapshots of qcow2, for every size of the tables, number of    *)
(* clusters, of snapshots and of operations, with creations that fail or   *)
(* die at any write: what the guest and the snapshots read, the refcounts, *)
(* and the flags.                                                          *)
(*                                                                         *)
(* The image is a set of trees, one for each L1 table, that share          *)
(* clusters.  A tree holds a reference to each cluster it reaches; while a *)
(* pass over the refcounts runs, one tree holds those of the part of its   *)
(* entries that the pass has reached, or has not reached.  A refcount is   *)
(* never below the number of trees that hold the cluster.                  *)
(***************************************************************************)
EXTENDS Qcow2Snapshot, TLAPS, FiniteSetTheorems, SequenceTheorems,
        FunctionTheorems, WellFoundedInduction

-----------------------------------------------------------------------------
(* Trees: an L1 table t of n entries over the clusters f of the file.      *)

Used(t, n) == {i \in L1Index : i < n /\ t[i].host # 0}

\* Entry e of an L1 table reaches cluster h.
Covers(f, e, h) == e.host = h \/ \E j \in L2Index : f[e.host][j].host = h

\* The clusters that the entries from lo on and below hi reach.
Part(f, t, n, lo, hi) ==
    {h \in Host : \E i \in Used(t, n) :
                     lo <= i /\ i < hi /\ Covers(f, t[i], h)}

\* What is not mapped has no flag, tables are where they should be, and no
\* cluster is used twice.
Unflagged(e) == e.host = 0 => e.copied = FALSE
Sound(f, t, n) ==
    /\ \A i \in L1Index : i < n => Unflagged(t[i])
    /\ \A i \in Used(t, n) :
          /\ f[t[i].host] \in L2Tables
          /\ \A j \in L2Index : Unflagged(f[t[i].host][j])
Injective(f, t, n) ==
    /\ \A i, i2 \in Used(t, n) : t[i].host = t[i2].host => i = i2
    /\ \A i, i2 \in Used(t, n), j, j2 \in L2Index :
          /\ f[t[i].host][j].host # 0
          /\ f[t[i].host][j].host = f[t[i2].host][j2].host
          => i = i2 /\ j = j2
Tree(f, t, n) == Sound(f, t, n) /\ Injective(f, t, n)

\* No table of the first tree is a data cluster of the second one.
Apart(f, t, n, t2, n2) ==
    \A i \in Used(t, n), i2 \in Used(t2, n2), j \in L2Index :
        f[t2[i2].host][j].host # t[i].host

\* What cluster c reads as.
ReadIn(f, t, n, c) ==
    LET i == c[1]  j == c[2] IN
    IF i >= n \/ t[i].host = 0 THEN Blank
    ELSE IF f[t[i].host] \notin L2Tables THEN NoId
    ELSE LET h == f[t[i].host][j].host IN IF h = 0 THEN Blank ELSE f[h]
-----------------------------------------------------------------------------
(* The inductive invariant.                                                *)

Supported == FailIn \subseteq {"create"} /\ ReopenIn \subseteq {"idle", "create"}

Content == Values \cup {Blank} \cup L2Tables
Snapshot == [id : Ids, size : 0..L1Max]
Operation ==
    [k : {"idle", "create", "goto", "delete"}, id : Ids \cup {NoId},
     step : {"idle", "refs", "refs2", "save_l1", "load_l1", "drop", "list",
             "count"},
     on : {"active", "snapshot"}, addend : {-1, 0, 1}, i : 0..(L1Max + 1),
     tab : L1Tables, modified : BOOLEAN]

Types ==
    /\ file \in [Host -> Content]
    /\ l1 \in L1Tables /\ disk_l1 \in L1Tables
    /\ l1_size \in 0..L1Max /\ disk_l1_size \in 0..L1Max
    /\ rc \in [Host -> Nat] /\ disk_rc \in [Host -> Nat]
    /\ snaps \in Seq(Snapshot) /\ disk_snaps \in Seq(Snapshot)
    /\ disk_nb \in Nat
    /\ snap_l1 \in [Ids -> L1Tables]
    /\ op \in Operation
    /\ image \in [Clusters -> Values \cup {Blank}]
    /\ saved \in [Ids -> [Clusters -> Values \cup {Blank}]]
    /\ drift \in BOOLEAN /\ leaky \in BOOLEAN

\* The ids in the list are different.
Distinct == \A k, k2 \in DOMAIN snaps : snaps[k].id = snaps[k2].id => k = k2

\* What an operation has set out to do.
CreateShape ==
    op.k = "create" =>
        /\ op.id \in Ids /\ op.on = "active" /\ op.addend = 1
        /\ \/ op.step = "refs" /\ ~Listed(op.id)
           \/ op.step = "save_l1" /\ ~Listed(op.id) /\ op.i = l1_size + 1
           \/ op.step \in {"list", "count"} /\ Listed(op.id)
GotoShape ==
    op.k = "goto" =>
        /\ op.id \in Ids /\ Listed(op.id) /\ op.on = "active"
        /\ \/ op.step = "refs" /\ op.addend = -1
           \/ op.step = "load_l1"
           \/ op.step = "refs2" /\ op.addend = 1 /\ l1_size = SizeOf(op.id)
DeleteShape ==
    op.k = "delete" =>
        /\ op.id \in Ids
        /\ \/ op.step = "refs" /\ op.addend = -1 /\ op.on = "snapshot"
                /\ Listed(op.id)
           \/ op.step = "refs2" /\ op.addend = 0 /\ op.on = "active"
                /\ Listed(op.id)
           \/ op.step = "drop" /\ op.on = "active" /\ Listed(op.id)
           \/ op.step \in {"list", "count"} /\ op.on = "active" /\ ~Listed(op.id)
Shape ==
    /\ op.k = "idle" => op = Idle
    /\ CreateShape /\ GotoShape /\ DeleteShape
    /\ InRefs => op.i <= Size + 1
    /\ op.on = "snapshot" =>
          \A i \in L1Index : /\ op.tab[i].host = snap_l1[op.id][i].host
                             /\ i < SizeOf(op.id) => Unflagged(op.tab[i])

\* The trees: the active one, NoId, and those of the list.
Owners == {NoId} \cup {id \in Ids : Listed(id)}
TableOf(o) == IF o = NoId THEN l1 ELSE snap_l1[o]
EntriesOf(o) == IF o = NoId THEN l1_size ELSE SizeOf(o)
Trees ==
    /\ \A o \in Owners : Tree(file, TableOf(o), EntriesOf(o))
    /\ \A o, o2 \in Owners :
          Apart(file, TableOf(o), EntriesOf(o), TableOf(o2), EntriesOf(o2))

\* The clusters a tree holds.  Of the active tree the entries from First on
\* and below Last are counted; a snapshot that is created holds what the pass
\* has reached of the active tree, one that is deleted what is left of its own.
First == IF op.k = "goto" /\ op.step = "refs" THEN op.i ELSE 0
Last == IF op.k = "goto" /\ op.step = "load_l1" THEN 0
        ELSE IF op.k = "goto" /\ op.step = "refs2" THEN op.i
        ELSE L1Max
HeldByNew(id) == IF op.k = "create" /\ op.id = id
                 THEN Part(file, l1, l1_size, 0, op.i) ELSE {}
HeldByOld(id) == IF op.k = "delete" /\ op.id = id
                 THEN IF op.step = "refs"
                      THEN Part(file, snap_l1[id], SizeOf(id), op.i, L1Max)
                      ELSE {}
                 ELSE Part(file, snap_l1[id], SizeOf(id), 0, L1Max)
Hold(o) == IF o = NoId THEN Part(file, l1, l1_size, First, Last)
           ELSE IF Listed(o) THEN HeldByOld(o) ELSE HeldByNew(o)
Holders(h) == {o \in Ids \cup {NoId} : h \in Hold(o)}

Counts ==
    \A h \in Host : /\ Cardinality(Holders(h)) <= rc[h]
                    /\ ~leaky => Cardinality(Holders(h)) = rc[h]

\* A flag of the active tree is set on what no other tree holds.
Own(e) == e.copied => Holders(e.host) \subseteq {NoId}
Exclusive ==
    \A i \in Used(l1, l1_size) : First <= i /\ i < Last =>
        /\ Own(l1[i])
        /\ \A j \in L2Index : file[l1[i].host][j].host # 0 =>
                                Own(file[l1[i].host][j])

\* The flags of the first entries are what the refcounts say.
Flagged == IF op.k = "goto" /\ op.step \in {"refs", "load_l1"} THEN 0
           ELSE IF op.k = "delete" /\ op.step = "refs" THEN 0
           ELSE IF op.k \in {"goto", "delete"} /\ op.step = "refs2" THEN op.i
           ELSE L1Max
Exact ==
    ~leaky => \A i \in Used(l1, l1_size) : i < Flagged =>
        /\ l1[i].copied <=> rc[l1[i].host] = 1
        /\ \A j \in L2Index :
              file[l1[i].host][j].host # 0 =>
                  (file[l1[i].host][j].copied
                     <=> rc[file[l1[i].host][j].host] = 1)

\* The L1 table in the file.
Equal == \A i \in L1Index : i < l1_size => disk_l1[i] = l1[i]
SameSize == ~drift => disk_l1_size = l1_size
Synced ==
    /\ op.k \in {"idle", "create", "delete"} /\ ~(leaky /\ drift) =>
         (~(InRefs /\ op.on = "active" /\ op.modified /\ op.i <= Size) => Equal)
    /\ op.k = "goto" /\ op.step = "refs2" =>
         (~(op.modified /\ op.i <= Size) => Equal)
    /\ op.k = "create" /\ op.step = "refs" /\ ~(leaky /\ drift) =>
         \A i \in L1Index : i < l1_size =>
            /\ disk_l1[i].host = l1[i].host
            /\ Unflagged(disk_l1[i])
            /\ disk_l1[i].host # 0 /\ disk_l1[i].copied =>
                 Holders(l1[i].host) \subseteq {NoId, op.id}

\* The refcounts in the file.
Written ==
    /\ \/ op.k = "idle"
       \/ op.k = "create" /\ op.step # "refs"
       \/ op.k = "delete" /\ ~InRefs
       => disk_rc = rc
    /\ op.k = "create" /\ op.step = "refs" =>
         \A h \in Host : Cardinality(Holders(h) \ {op.id}) <= disk_rc[h]

\* The list in the file.
Listing ==
    /\ op.k \in {"idle", "create", "goto"} =>
         /\ disk_nb <= Len(snaps) /\ disk_nb <= Len(disk_snaps)
         /\ \A k \in 1..disk_nb : disk_snaps[k] = snaps[k]
         /\ ~leaky /\ op.k # "create" => disk_nb = Len(snaps)
         /\ op.k = "create" /\ op.step \in {"list", "count"} =>
               snaps[Len(snaps)].id = op.id /\ disk_nb < Len(snaps)
    /\ op.step = "count" => disk_snaps = snaps

\* What the trees read as.
Contents ==
    /\ op.k # "goto" =>
         \A c \in Clusters : ReadIn(file, l1, l1_size, c) = image[c]
    /\ \A id \in Ids : Listed(id) =>
         \A c \in Clusters :
            ReadIn(file, snap_l1[id], SizeOf(id), c) = saved[id][c]
    /\ op.k = "create" => saved[op.id] = image
    /\ op.k = "goto" /\ op.step = "refs2" =>
         \A i \in L1Index : i < l1_size => l1[i].host = snap_l1[op.id][i].host

IInv ==
    /\ Types /\ Distinct /\ Shape /\ Trees /\ Counts /\ Exclusive /\ Exact
    /\ SameSize /\ Synced /\ Written /\ Listing /\ Contents
-----------------------------------------------------------------------------
(* Lemmas about trees.                                                     *)

\* Tree t over f and tree u over g have the same clusters and contents: only
\* flags differ, or clusters that t does not reach.
Same(f, t, g, u, n) ==
    /\ \A i \in L1Index : i < n => u[i].host = t[i].host /\ Unflagged(u[i])
    /\ \A i \in Used(t, n) :
          /\ g[t[i].host] \in L2Tables
          /\ \A j \in L2Index :
                /\ g[t[i].host][j].host = f[t[i].host][j].host
                /\ Unflagged(g[t[i].host][j])
                /\ f[t[i].host][j].host # 0 =>
                      g[f[t[i].host][j].host] = f[f[t[i].host][j].host]

LEMMA SameTree ==
    ASSUME NEW f, NEW t, NEW g, NEW u, NEW n \in 0..L1Max,
           Tree(f, t, n), Same(f, t, g, u, n)
    PROVE  /\ Used(u, n) = Used(t, n)
           /\ Tree(g, u, n)
           /\ \A lo, hi : Part(g, u, n, lo, hi) = Part(f, t, n, lo, hi)
           /\ \A c \in Clusters : ReadIn(g, u, n, c) = ReadIn(f, t, n, c)
  <1>1. Used(u, n) = Used(t, n)
    BY DEF Same, Used
  <1>2. \A i \in Used(t, n) : /\ i \in L1Index /\ i < n
                              /\ u[i].host = t[i].host /\ t[i].host # 0
    BY DEF Same, Used
  <1>3. Sound(g, u, n)
    BY <1>1, <1>2 DEF Same, Sound
  <1>4. Injective(g, u, n)
    BY <1>1, <1>2 DEF Same, Tree, Injective
  <1>5. \A i \in Used(t, n) : \A h : Covers(g, u[i], h) <=> Covers(f, t[i], h)
    BY <1>2 DEF Same, Covers
  <1>6. \A lo, hi : Part(g, u, n, lo, hi) = Part(f, t, n, lo, hi)
    BY <1>1, <1>5 DEF Part
  <1>7. ASSUME NEW c \in Clusters
        PROVE  ReadIn(g, u, n, c) = ReadIn(f, t, n, c)
    <2>1. /\ c[1] \in L1Index /\ c[2] \in L2Index
          /\ c[1] >= n <=> ~(c[1] < n)
      BY L1Assumption DEF Clusters, L1Index
    <2>2. CASE c[1] >= n \/ t[c[1]].host = 0
      <3>1. c[1] >= n \/ u[c[1]].host = 0
        BY <2>1, <2>2, <1>1 DEF Used
      <3> QED
        BY <2>2, <3>1 DEF ReadIn
    <2>3. CASE ~(c[1] >= n \/ t[c[1]].host = 0)
      <3>1. c[1] \in Used(t, n)
        BY <2>1, <2>3 DEF Used
      <3>2. /\ u[c[1]].host = t[c[1]].host
            /\ f[t[c[1]].host] \in L2Tables /\ g[t[c[1]].host] \in L2Tables
            /\ g[t[c[1]].host][c[2]].host = f[t[c[1]].host][c[2]].host
            /\ f[t[c[1]].host][c[2]].host # 0 =>
                 g[f[t[c[1]].host][c[2]].host] = f[f[t[c[1]].host][c[2]].host]
        BY <2>1, <3>1, <1>2 DEF Same, Tree, Sound
      <3> QED
        BY <2>3, <3>2 DEF ReadIn
    <2> QED
      BY <2>2, <2>3
  <1> QED
    BY <1>1, <1>3, <1>4, <1>6, <1>7 DEF Tree

LEMMA SameApart ==
    ASSUME NEW f, NEW g, NEW t, NEW u, NEW n, NEW t2, NEW u2, NEW n2,
           Same(f, t, g, u, n), Same(f, t2, g, u2, n2),
           Apart(f, t, n, t2, n2)
    PROVE  Apart(g, u, n, u2, n2)
  <1>1. Used(u, n) = Used(t, n) /\ Used(u2, n2) = Used(t2, n2)
    BY DEF Same, Used
  <1>2. /\ \A i \in Used(t, n) : u[i].host = t[i].host
        /\ \A i \in Used(t2, n2) : u2[i].host = t2[i].host
    BY DEF Same, Used
  <1>3. \A i \in Used(t2, n2), j \in L2Index :
           g[t2[i].host][j].host = f[t2[i].host][j].host
    BY DEF Same
  <1> QED
    BY <1>1, <1>2, <1>3 DEF Apart

\* A part, and the entries next to it.
LEMMA PartStep ==
    ASSUME NEW f, NEW t, NEW n \in 0..L1Max, NEW i \in L1Index, i < n,
           t[i].host # 0, Tree(f, t, n), Apart(f, t, n, t, n),
           NEW h \in Host
    PROVE  /\ i \in Used(t, n)
           /\ h \in Part(f, t, n, 0, i + 1)
                <=> h \in Part(f, t, n, 0, i) \/ Covers(f, t[i], h)
           /\ h \in Part(f, t, n, i, L1Max)
                <=> h \in Part(f, t, n, i + 1, L1Max) \/ Covers(f, t[i], h)
           /\ Covers(f, t[i], h) =>
                 h \notin Part(f, t, n, 0, i) /\ h \notin Part(f, t, n, i + 1, L1Max)
  <1>1. i \in Used(t, n)
    BY DEF Used
  <1>2. \A k \in Used(t, n) : k \in 0..(L1Max - 1) /\ k \in Int /\ 0 <= k /\ k < L1Max
    BY L1Assumption DEF Used, L1Index
  <1>3. i \in Int /\ i < L1Max /\ 0 <= i
    BY <1>1, <1>2
  <1>4. \A k \in Used(t, n) : Covers(f, t[i], h) /\ Covers(f, t[k], h) => k = i
    <2> SUFFICES ASSUME NEW k \in Used(t, n), Covers(f, t[i], h),
                        Covers(f, t[k], h)
                 PROVE  k = i
      OBVIOUS
    <2>0. h # 0
      BY HAssumption DEF Host
    <2>1. CASE t[i].host = h
      <3>1. \A j \in L2Index : f[t[k].host][j].host # h
        BY <1>1, <2>1 DEF Apart
      <3> QED
        BY <2>1, <3>1, <1>1 DEF Covers, Tree, Injective
    <2>2. CASE t[i].host # h
      <3>1. PICK j \in L2Index : f[t[i].host][j].host = h
        BY <2>2 DEF Covers
      <3>2. t[k].host # h
        BY <3>1, <1>1 DEF Apart
      <3>3. PICK j2 \in L2Index : f[t[k].host][j2].host = h
        BY <3>2 DEF Covers
      <3> QED
        BY <2>0, <3>1, <3>3, <1>1 DEF Tree, Injective
    <2> QED
      BY <2>1, <2>2
  <1>5. \A k \in Used(t, n) : (k < i + 1 <=> k < i \/ k = i) /\ (i <= k <=> i + 1 <= k \/ k = i)
    BY <1>2, <1>3
  <1>6. \A lo, hi : h \in Part(f, t, n, lo, hi) <=>
           \E k \in Used(t, n) : lo <= k /\ k < hi /\ Covers(f, t[k], h)
    BY DEF Part
  <1>7. \A k \in Used(t, n) : 0 <= k /\ k < L1Max
    BY <1>2
  <1>8. h \in Part(f, t, n, 0, i + 1)
           <=> h \in Part(f, t, n, 0, i) \/ Covers(f, t[i], h)
    BY <1>1, <1>5, <1>6, <1>7
  <1>9. h \in Part(f, t, n, i, L1Max)
           <=> h \in Part(f, t, n, i + 1, L1Max) \/ Covers(f, t[i], h)
    BY <1>1, <1>5, <1>6, <1>7
  <1>10. ~(i < i) /\ ~(i + 1 <= i)
    BY <1>3
  <1> QED
    BY <1>1, <1>4, <1>6, <1>8, <1>9, <1>10

\* An entry that is not used changes nothing.
LEMMA PartSkip ==
    ASSUME NEW f, NEW t, NEW n \in 0..L1Max, NEW i \in Nat, i \notin Used(t, n)
    PROVE  /\ Part(f, t, n, 0, i + 1) = Part(f, t, n, 0, i)
           /\ Part(f, t, n, i + 1, L1Max) = Part(f, t, n, i, L1Max)
  <1>1. \A k \in Used(t, n) : k \in Int
    BY L1Assumption DEF Used, L1Index
  <1>2. \A k \in Used(t, n) : (k < i + 1 <=> k < i) /\ (i <= k <=> i + 1 <= k)
    BY <1>1
  <1> QED
    BY <1>2 DEF Part

LEMMA PartEnds ==
    ASSUME NEW f, NEW t, NEW n \in 0..L1Max, NEW i \in Nat
    PROVE  /\ Part(f, t, n, 0, 0) = {}
           /\ i >= n => /\ Part(f, t, n, i, L1Max) = {}
                        /\ Part(f, t, n, 0, i) = Part(f, t, n, 0, L1Max)
           /\ Part(f, t, n, 0, i) \subseteq Part(f, t, n, 0, L1Max)
           /\ Part(f, t, n, i, L1Max) \subseteq Part(f, t, n, 0, L1Max)
  <1>1. \A k \in Used(t, n) : k \in Int /\ 0 <= k /\ k < n /\ k < L1Max
    BY L1Assumption DEF Used, L1Index
  <1>2. ~\E k \in Used(t, n) : 0 <= k /\ k < 0
    BY <1>1
  <1>3. i >= n => \A k \in Used(t, n) : ~(i <= k) /\ k < i
    BY <1>1
  <1> QED
    BY <1>1, <1>2, <1>3 DEF Part
-----------------------------------------------------------------------------
(* Lemmas about lists of snapshots, and about the holders of a cluster.    *)

Has(s, id) == \E k \in DOMAIN s : s[k].id = id
SizeIn(s, id) == s[CHOOSE k \in DOMAIN s : s[k].id = id].size
DistinctIn(s) == \A k, k2 \in DOMAIN s : s[k].id = s[k2].id => k = k2

LEMMA ListFacts ==
    ASSUME NEW s \in Seq(Snapshot), DistinctIn(s)
    PROVE  /\ \A k \in DOMAIN s : /\ s[k].id \in Ids /\ Has(s, s[k].id)
                                  /\ SizeIn(s, s[k].id) = s[k].size
           /\ \A id : Has(s, id) => id \in Ids /\ SizeIn(s, id) \in 0..L1Max
           /\ IsFiniteSet({s[k].id : k \in DOMAIN s})
  <1>1. \A k \in DOMAIN s : s[k] \in Snapshot
    OBVIOUS
  <1>2. \A k \in DOMAIN s : s[k].id \in Ids /\ s[k].size \in 0..L1Max
    BY <1>1 DEF Snapshot
  <1>3. ASSUME NEW id, Has(s, id)
        PROVE  \E k \in DOMAIN s : s[k].id = id /\ SizeIn(s, id) = s[k].size
    <2> DEFINE K == CHOOSE k \in DOMAIN s : s[k].id = id
    <2>1. K \in DOMAIN s /\ s[K].id = id
      BY <1>3 DEF Has
    <2>2. SizeIn(s, id) = s[K].size
      BY DEF SizeIn
    <2> QED
      BY <2>1, <2>2
  <1>4. \A id : Has(s, id) => id \in Ids /\ SizeIn(s, id) \in 0..L1Max
    BY <1>2, <1>3
  <1>5. ASSUME NEW k \in DOMAIN s
        PROVE  s[k].id \in Ids /\ Has(s, s[k].id) /\ SizeIn(s, s[k].id) = s[k].size
    <2>1. Has(s, s[k].id)
      BY DEF Has
    <2>2. PICK k2 \in DOMAIN s : /\ s[k2].id = s[k].id
                                 /\ SizeIn(s, s[k].id) = s[k2].size
      BY <2>1, <1>3
    <2>3. k2 = k
      BY <2>2 DEF DistinctIn
    <2> QED
      BY <1>2, <2>1, <2>2, <2>3
  <1>6. IsFiniteSet({s[k].id : k \in DOMAIN s})
    <2>1. DOMAIN s = 1..Len(s) /\ Len(s) \in Nat
      OBVIOUS
    <2>2. IsFiniteSet(DOMAIN s)
      BY <2>1, FS_Interval
    <2> DEFINE I == {s[k].id : k \in DOMAIN s}
               F == [k \in DOMAIN s |-> s[k].id]
    <2>3. F \in Surjection(DOMAIN s, I)
      BY DEF Surjection
    <2> QED
      BY <2>2, <2>3, FS_Surjection
  <1> QED
    BY <1>4, <1>5, <1>6

LEMMA ListNames ==
    /\ \A id : Listed(id) <=> Has(snaps, id)
    /\ \A id : SizeOf(id) = SizeIn(snaps, id)
    /\ Distinct <=> DistinctIn(snaps)
  BY DEF Listed, Has, SizeOf, SizeIn, Distinct, DistinctIn, find_snapshot_by_id

LEMMA ListNamesNext ==
    /\ \A id : Listed(id)' <=> Has(snaps', id)
    /\ \A id : SizeOf(id)' = SizeIn(snaps', id)
    /\ Distinct' <=> DistinctIn(snaps')
  BY DEF Listed, Has, SizeOf, SizeIn, Distinct, DistinctIn, find_snapshot_by_id

LEMMA Sizes ==
    ASSUME Types, Distinct
    PROVE  \A id : Listed(id) => id \in Ids /\ SizeOf(id) \in 0..L1Max
  BY ListNames, ListFacts DEF Types

LEMMA HoldersFinite == Types /\ Distinct => \A h : IsFiniteSet(Holders(h))
  <1> SUFFICES ASSUME Types, Distinct, NEW h
               PROVE  IsFiniteSet(Holders(h))
    OBVIOUS
  <1> DEFINE L == {snaps[k].id : k \in DOMAIN snaps}
  <1>1. IsFiniteSet(L)
    BY ListNames, ListFacts DEF Types
  <1>2. IsFiniteSet((L \cup {NoId}) \cup {op.id})
    BY <1>1, FS_AddElement
  <1>3. \A o : Listed(o) => o \in L
    BY DEF Listed
  <1>4. \A o \in Holders(h) : o = NoId \/ Listed(o) \/ o = op.id
    BY DEF Holders, Hold, HeldByNew
  <1>5. Holders(h) \subseteq (L \cup {NoId}) \cup {op.id}
    BY <1>3, <1>4
  <1> QED
    BY <1>2, <1>5, FS_Subset

LEMMA HoldersFiniteNext ==
    ASSUME Types', Distinct'
    PROVE  \A h : IsFiniteSet(Holders(h)')
  <1>1. (Types /\ Distinct => \A h : IsFiniteSet(Holders(h)))'
    BY HoldersFinite, PTL
  <1> QED
    BY <1>1
-----------------------------------------------------------------------------
(* What keeps the parts of the invariant.                                  *)

LEMMA ListFrame ==
    ASSUME snaps' = snaps
    PROVE  /\ \A id : Listed(id)' <=> Listed(id)
           /\ \A id : SizeOf(id)' = SizeOf(id)
           /\ Distinct' <=> Distinct
  BY ListNames, ListNamesNext

LEMMA TreesKept ==
    ASSUME Trees, UNCHANGED <<file, l1, l1_size, snaps, snap_l1>>
    PROVE  Trees'
  <1>1. /\ \A o : Listed(o)' <=> Listed(o)
        /\ \A o : SizeOf(o)' = SizeOf(o)
    BY ListFrame
  <1>2. Owners' = Owners
    BY <1>1 DEF Owners
  <1>3. \A o : TableOf(o)' = TableOf(o) /\ EntriesOf(o)' = EntriesOf(o)
    BY <1>1 DEF TableOf, EntriesOf
  <1> QED
    BY <1>2, <1>3 DEF Trees

LEMMA HoldersShrink ==
    ASSUME \A o \in Ids \cup {NoId} : Hold(o)' \subseteq Hold(o)
    PROVE  \A h : Holders(h)' \subseteq Holders(h)
  BY DEF Holders

LEMMA HoldersKept ==
    ASSUME \A o \in Ids \cup {NoId} : Hold(o)' = Hold(o)
    PROVE  \A h : Holders(h)' = Holders(h)
  BY DEF Holders

LEMMA CountsKept ==
    ASSUME Counts, rc' = rc, leaky' = leaky, \A h : Holders(h)' = Holders(h)
    PROVE  Counts'
  BY DEF Counts

LEMMA CountsShrink ==
    ASSUME Types, Distinct, Types', Distinct', Counts, leaky' = TRUE,
           \A h \in Host : rc[h] <= rc'[h],
           \A h : Holders(h)' \subseteq Holders(h)
    PROVE  Counts'
  <1> SUFFICES ASSUME NEW h \in Host
               PROVE  Cardinality(Holders(h)') <= rc'[h]
    BY DEF Counts
  <1>1. /\ IsFiniteSet(Holders(h))
        /\ Holders(h)' \in SUBSET Holders(h)
    BY HoldersFinite
  <1>2. /\ IsFiniteSet(Holders(h)')
        /\ Cardinality(Holders(h)') <= Cardinality(Holders(h))
    BY <1>1, FS_Subset
  <1>3. Cardinality(Holders(h)') \in Nat /\ Cardinality(Holders(h)) \in Nat
    BY <1>1, <1>2, FS_CardinalityType
  <1>4. Cardinality(Holders(h)) <= rc[h] /\ rc[h] <= rc'[h]
    BY DEF Counts
  <1>5. rc[h] \in Nat /\ rc'[h] \in Nat
    BY DEF Types
  <1> QED
    BY <1>2, <1>3, <1>4, <1>5

LEMMA ExclusiveKept ==
    ASSUME Exclusive, UNCHANGED <<file, l1, l1_size>>,
           \A h : Holders(h)' \subseteq Holders(h),
           \A i \in Used(l1, l1_size) :
               First' <= i /\ i < Last' => First <= i /\ i < Last
    PROVE  Exclusive'
  <1>1. \A e : Own(e) => Own(e)'
    BY DEF Own
  <1> QED
    BY <1>1 DEF Exclusive

LEMMA ExactKept ==
    ASSUME Exact, UNCHANGED <<file, l1, l1_size>>, leaky' \/ rc' = rc,
           leaky => leaky',
           \A i \in Used(l1, l1_size) : ~leaky' /\ i < Flagged' => i < Flagged
    PROVE  Exact'
  BY DEF Exact
-----------------------------------------------------------------------------
(* The operations begin.                                                   *)

LEMMA Constants ==
    /\ None \in Entries /\ EmptyL1 \in L1Tables /\ EmptyL2 \in L2Tables
    /\ L1Max \in Nat /\ L1Max # 0 /\ L1Index = 0..(L1Max - 1)
    /\ NoId \notin Ids
    /\ Idle \in Operation
    /\ \A i \in L1Index : Unflagged(EmptyL1[i]) /\ EmptyL1[i].host = 0
    /\ \A j \in L2Index : Unflagged(EmptyL2[j]) /\ EmptyL2[j].host = 0
  <1>1. None \in Entries
    BY HAssumption DEF None, Entries
  <1>2. EmptyL1 \in L1Tables /\ EmptyL2 \in L2Tables
    BY <1>1 DEF EmptyL1, EmptyL2, L1Tables, L2Tables
  <1>3. L1Max \in Nat /\ L1Max # 0 /\ L1Index = 0..(L1Max - 1) /\ 0 \in 0..(L1Max + 1)
    BY L1Assumption DEF L1Index
  <1>4. NoId \notin Ids
    BY BlankAssumption
  <1>5. Idle \in Operation
    BY <1>2, <1>3 DEF Idle, Operation
  <1>6. /\ \A i \in L1Index : Unflagged(EmptyL1[i]) /\ EmptyL1[i].host = 0
        /\ \A j \in L2Index : Unflagged(EmptyL2[j]) /\ EmptyL2[j].host = 0
    BY DEF EmptyL1, EmptyL2, None, Unflagged
  <1> QED
    BY <1>1, <1>2, <1>3, <1>4, <1>5, <1>6

LEMMA PassType ==
    ASSUME NEW k \in {"create", "goto", "delete"}, NEW id \in Ids,
           NEW step \in {"refs", "refs2", "save_l1"},
           NEW on \in {"active", "snapshot"}, NEW addend \in {-1, 0, 1},
           NEW tab \in L1Tables
    PROVE  Pass(k, id, step, on, addend, tab) \in Operation
  BY Constants DEF Pass, Operation

\* Between operations every tree holds all it reaches.
LEMMA HoldIdle ==
    ASSUME op.k = "idle"
    PROVE  /\ First = 0 /\ Last = L1Max /\ Flagged = L1Max
           /\ Hold(NoId) = Part(file, l1, l1_size, 0, L1Max)
           /\ \A id \in Ids : Hold(id) =
                IF Listed(id) THEN Part(file, snap_l1[id], SizeOf(id), 0, L1Max)
                ELSE {}
  <1>1. First = 0 /\ Last = L1Max /\ Flagged = L1Max
    BY DEF First, Last, Flagged
  <1> QED
    BY <1>1, Constants DEF Hold, HeldByOld, HeldByNew

LEMMA CreateKeeps ==
    ASSUME IInv, NEW id \in Ids, SnapshotCreate(id)
    PROVE  IInv'
  <1>1. /\ op.k = "idle" /\ op = Idle /\ ~Listed(id)
        /\ op' = Pass("create", id, "refs", "active", 1, EmptyL1)
        /\ saved' = [saved EXCEPT ![id] = image]
        /\ UNCHANGED <<file, l1, l1_size, rc, snaps, disk_l1, disk_l1_size,
                       disk_rc, disk_snaps, disk_nb, snap_l1, image, drift, leaky>>
    BY DEF IInv, Shape, SnapshotCreate, Start, ReferencesFirst, memVars, diskVars
  <1>2. /\ op'.k = "create" /\ op'.id = id /\ op'.step = "refs"
        /\ op'.on = "active" /\ op'.addend = 1 /\ op'.i = 0
        /\ op'.tab = EmptyL1 /\ op'.modified = FALSE
    BY <1>1 DEF Pass
  <1>3. op' \in Operation
    BY <1>1, PassType, Constants
  <1>4. Types'
    BY <1>1, <1>3 DEF IInv, Types
  <1>5. /\ \A o : Listed(o)' <=> Listed(o)
        /\ \A o : SizeOf(o)' = SizeOf(o)
        /\ Distinct' <=> Distinct
    BY <1>1, ListFrame
  <1>6. Distinct'
    BY <1>5 DEF IInv
  <1>7. l1_size \in 0..L1Max
    BY DEF IInv, Types
  <1>8. Shape'
    <2>1. Size' = l1_size
      BY <1>1, <1>2 DEF Size
    <2>0. 0 <= l1_size + 1
      BY <1>7, L1Assumption
    <2>2. op'.i <= Size' + 1
      BY <2>0, <2>1, <1>2
    <2> QED
      BY <1>1, <1>2, <1>5, <2>2 DEF Shape, CreateShape, GotoShape, DeleteShape
  <1>9. Trees'
    BY <1>1, TreesKept DEF IInv
  <1>10. First' = 0 /\ Last' = L1Max /\ Flagged' = L1Max
    BY <1>2 DEF First, Last, Flagged
  <1>11. \A o \in Ids \cup {NoId} : Hold(o)' = Hold(o)
    <2>1. Part(file, l1, l1_size, 0, 0) = {}
      BY PartEnds, <1>7
    <2>2. \A o : HeldByNew(o)' = {}
      BY <2>1, <1>1, <1>2 DEF HeldByNew
    <2>3. \A o : HeldByOld(o)' = Part(file, snap_l1[o], SizeOf(o), 0, L1Max)
      BY <1>1, <1>2, <1>5 DEF HeldByOld
    <2>4. \A o : HeldByNew(o) = {} /\ HeldByOld(o) = Part(file, snap_l1[o], SizeOf(o), 0, L1Max)
      BY <1>1 DEF HeldByNew, HeldByOld
    <2>5. First = 0 /\ Last = L1Max
      BY <1>1, HoldIdle
    <2> QED
      BY <1>1, <1>5, <1>10, <2>2, <2>3, <2>4, <2>5 DEF Hold
  <1>12. \A h : Holders(h)' = Holders(h)
    BY <1>11, HoldersKept
  <1>13. Counts'
    BY <1>1, <1>12, CountsKept DEF IInv
  <1>14. First = 0 /\ Last = L1Max /\ Flagged = L1Max
    BY <1>1, HoldIdle
  <1>15. Exclusive'
    BY <1>1, <1>10, <1>12, <1>14, ExclusiveKept DEF IInv
  <1>16. Exact'
    BY <1>1, <1>10, <1>14, ExactKept DEF IInv
  <1>17. SameSize'
    BY <1>1 DEF IInv, SameSize
  <1>18. Equal' <=> Equal
    BY <1>1 DEF Equal
  <1>19. ~(leaky /\ drift) => Equal
    BY <1>1 DEF IInv, Synced, Idle, InRefs
  <1>20. ASSUME ~(leaky /\ drift), NEW i \in L1Index, i < l1_size
         PROVE  /\ disk_l1[i].host = l1[i].host
                /\ Unflagged(disk_l1[i])
                /\ disk_l1[i].host # 0 /\ disk_l1[i].copied =>
                      Holders(l1[i].host) \subseteq {NoId}
    <2>1. disk_l1[i] = l1[i]
      BY <1>19, <1>20 DEF Equal
    <2>2. Unflagged(l1[i])
      <3>1. Tree(file, l1, l1_size)
        BY DEF IInv, Trees, Owners, TableOf, EntriesOf
      <3> QED
        BY <3>1, <1>20 DEF Tree, Sound
    <2>3. l1[i].host # 0 => i \in Used(l1, l1_size) /\ First <= i /\ i < Last
      BY <1>14, <1>20, Constants DEF Used
    <2>4. l1[i].host # 0 => Own(l1[i])
      BY <2>3 DEF IInv, Exclusive
    <2> QED
      BY <2>1, <2>2, <2>4 DEF Own
  <1>21. Synced'
    BY <1>1, <1>2, <1>12, <1>18, <1>19, <1>20 DEF Synced
  <1>22. Written'
    <2>1. disk_rc = rc
      BY <1>1 DEF IInv, Written
    <2>2. ASSUME NEW h \in Host
          PROVE  Cardinality(Holders(h) \ {id}) <= disk_rc[h]
      <3>1. IsFiniteSet(Holders(h))
        BY HoldersFinite DEF IInv
      <3>2. /\ Cardinality(Holders(h) \ {id}) <= Cardinality(Holders(h))
            /\ IsFiniteSet(Holders(h) \ {id})
        BY <3>1, FS_Subset
      <3>3. Cardinality(Holders(h)) \in Nat /\ Cardinality(Holders(h) \ {id}) \in Nat
        BY <3>1, <3>2, FS_CardinalityType
      <3>4. Cardinality(Holders(h)) <= rc[h] /\ rc[h] \in Nat
        BY DEF IInv, Counts, Types
      <3> QED
        BY <2>1, <3>2, <3>3, <3>4
    <2> QED
      BY <1>1, <1>2, <1>12, <2>2 DEF Written
  <1>23. Listing'
    <2>1. op.k = "idle" /\ op.step = "idle"
      BY <1>1 DEF Idle
    <2> QED
      BY <1>1, <1>2, <2>1 DEF IInv, Listing
  <1>24. Contents'
    <2>1. \A c \in Clusters : ReadIn(file, l1, l1_size, c) = image[c]
      BY <1>1 DEF IInv, Contents
    <2>2. saved'[id] = image
      BY <1>1 DEF IInv, Types
    <2>3. \A o \in Ids : Listed(o) => o # id
      BY <1>1
    <2>4. \A o \in Ids : Listed(o) => saved'[o] = saved[o]
      BY <1>1, <2>3 DEF IInv, Types
    <2>5. \A o \in Ids : Listed(o) => \A c \in Clusters :
              ReadIn(file, snap_l1[o], SizeOf(o), c) = saved'[o][c]
      BY <2>4 DEF IInv, Contents
    <2> QED
      BY <1>1, <1>2, <1>5, <2>1, <2>2, <2>5 DEF Contents
  <1> QED
    BY <1>4, <1>6, <1>8, <1>9, <1>13, <1>15, <1>16, <1>17, <1>21, <1>22, <1>23, <1>24
       DEF IInv

LEMMA GotoKeeps ==
    ASSUME IInv, NEW id \in Ids, SnapshotGoto(id)
    PROVE  IInv'
  <1>1. /\ op.k = "idle" /\ op = Idle /\ Listed(id)
        /\ op' = Pass("goto", id, "refs", "active", -1, EmptyL1)
        /\ UNCHANGED <<file, l1, l1_size, rc, snaps, disk_l1, disk_l1_size,
                       disk_rc, disk_snaps, disk_nb, snap_l1, image, saved,
                       drift, leaky>>
    BY DEF IInv, Shape, SnapshotGoto, Start, memVars, diskVars, history
  <1>2. /\ op'.k = "goto" /\ op'.id = id /\ op'.step = "refs"
        /\ op'.on = "active" /\ op'.addend = -1 /\ op'.i = 0
        /\ op'.tab = EmptyL1 /\ op'.modified = FALSE
    BY <1>1 DEF Pass
  <1>3. op' \in Operation
    BY <1>1, PassType, Constants
  <1>4. Types'
    BY <1>1, <1>3 DEF IInv, Types
  <1>5. /\ \A o : Listed(o)' <=> Listed(o)
        /\ \A o : SizeOf(o)' = SizeOf(o)
        /\ Distinct' <=> Distinct
    BY <1>1, ListFrame
  <1>6. Distinct'
    BY <1>5 DEF IInv
  <1>8. Shape'
    <2>1. Size' = l1_size
      BY <1>1, <1>2 DEF Size
    <2>2. 0 <= l1_size + 1
      BY L1Assumption DEF IInv, Types
    <2>3. op'.i <= Size' + 1
      BY <2>1, <2>2, <1>2
    <2> QED
      BY <1>1, <1>2, <1>5, <2>3 DEF Shape, CreateShape, GotoShape, DeleteShape
  <1>9. Trees'
    BY <1>1, TreesKept DEF IInv
  <1>10. First' = 0 /\ Last' = L1Max /\ Flagged' = 0
    BY <1>2 DEF First, Last, Flagged
  <1>11. First = 0 /\ Last = L1Max /\ Flagged = L1Max
    BY <1>1, HoldIdle
  <1>12. \A h : Holders(h)' = Holders(h)
    <2>1. \A o : HeldByNew(o)' = HeldByNew(o)
      BY <1>1, <1>2 DEF HeldByNew
    <2>2. \A o : HeldByOld(o)' = HeldByOld(o)
      BY <1>1, <1>2, <1>5 DEF HeldByOld
    <2>3. \A o \in Ids \cup {NoId} : Hold(o)' = Hold(o)
      BY <1>1, <1>5, <1>10, <1>11, <2>1, <2>2 DEF Hold
    <2> QED
      BY <2>3, HoldersKept
  <1>13. Counts'
    BY <1>1, <1>12, CountsKept DEF IInv
  <1>15. Exclusive'
    BY <1>1, <1>10, <1>12, <1>11, ExclusiveKept DEF IInv
  <1>16. Exact'
    <2>1. \A i \in Used(l1, l1_size) : ~(i < 0)
      BY Constants DEF Used
    <2> QED
      BY <1>1, <1>10, <1>11, <2>1, ExactKept DEF IInv
  <1>17. SameSize'
    BY <1>1 DEF IInv, SameSize
  <1>21. Synced'
    BY <1>2 DEF Synced
  <1>22. Written'
    BY <1>2 DEF Written
  <1>23. Listing'
    BY <1>1, <1>2 DEF IInv, Listing
  <1>24. Contents'
    BY <1>1, <1>2, <1>5 DEF IInv, Contents
  <1> QED
    BY <1>4, <1>6, <1>8, <1>9, <1>13, <1>15, <1>16, <1>17, <1>21, <1>22, <1>23, <1>24
       DEF IInv

LEMMA DeleteKeeps ==
    ASSUME IInv, NEW id \in Ids, SnapshotDelete(id)
    PROVE  IInv'
  <1>1. /\ op.k = "idle" /\ op = Idle /\ Listed(id)
        /\ op' = Pass("delete", id, "refs", "snapshot", -1, snap_l1[id])
        /\ UNCHANGED <<file, l1, l1_size, rc, snaps, disk_l1, disk_l1_size,
                       disk_rc, disk_snaps, disk_nb, snap_l1, image, saved,
                       drift, leaky>>
    BY DEF IInv, Shape, SnapshotDelete, Start, memVars, diskVars, history
  <1>2. /\ op'.k = "delete" /\ op'.id = id /\ op'.step = "refs"
        /\ op'.on = "snapshot" /\ op'.addend = -1 /\ op'.i = 0
        /\ op'.tab = snap_l1[id] /\ op'.modified = FALSE
    BY <1>1 DEF Pass
  <1>3. op' \in Operation
    <2>1. snap_l1[id] \in L1Tables
      BY DEF IInv, Types
    <2> QED
      BY <1>1, <2>1, PassType
  <1>4. Types'
    BY <1>1, <1>3 DEF IInv, Types
  <1>5. /\ \A o : Listed(o)' <=> Listed(o)
        /\ \A o : SizeOf(o)' = SizeOf(o)
        /\ Distinct' <=> Distinct
    BY <1>1, ListFrame
  <1>6. Distinct'
    BY <1>5 DEF IInv
  <1>7. SizeOf(id) \in 0..L1Max /\ id # NoId /\ id \in Owners
    BY <1>1, Sizes, Constants DEF IInv, Owners
  <1>8. Shape'
    <2>1. Size' = SizeOf(id)
      BY <1>1, <1>2, <1>5 DEF Size
    <2>2. 0 <= SizeOf(id) + 1
      BY <1>7, L1Assumption
    <2>3. op'.i <= Size' + 1
      BY <2>1, <2>2, <1>2
    <2>4. Tree(file, snap_l1[id], SizeOf(id))
      BY <1>7 DEF IInv, Trees, TableOf, EntriesOf
    <2>5. \A i \in L1Index : i < SizeOf(id) => Unflagged(snap_l1[id][i])
      BY <2>4 DEF Tree, Sound
    <2> QED
      BY <1>1, <1>2, <1>5, <2>3, <2>5 DEF Shape, CreateShape, GotoShape, DeleteShape
  <1>9. Trees'
    BY <1>1, TreesKept DEF IInv
  <1>10. First' = 0 /\ Last' = L1Max /\ Flagged' = 0
    BY <1>2 DEF First, Last, Flagged
  <1>11. First = 0 /\ Last = L1Max /\ Flagged = L1Max
    BY <1>1, HoldIdle
  <1>12. \A h : Holders(h)' = Holders(h)
    <2>1. \A o : HeldByNew(o)' = HeldByNew(o)
      BY <1>1, <1>2 DEF HeldByNew
    <2>2. \A o : HeldByOld(o)' = HeldByOld(o)
      BY <1>1, <1>2, <1>5 DEF HeldByOld
    <2>3. \A o \in Ids \cup {NoId} : Hold(o)' = Hold(o)
      BY <1>1, <1>5, <1>10, <1>11, <2>1, <2>2 DEF Hold
    <2> QED
      BY <2>3, HoldersKept
  <1>13. Counts'
    BY <1>1, <1>12, CountsKept DEF IInv
  <1>15. Exclusive'
    BY <1>1, <1>10, <1>12, <1>11, ExclusiveKept DEF IInv
  <1>16. Exact'
    <2>1. \A i \in Used(l1, l1_size) : ~(i < 0)
      BY Constants DEF Used
    <2> QED
      BY <1>1, <1>10, <1>11, <2>1, ExactKept DEF IInv
  <1>17. SameSize'
    BY <1>1 DEF IInv, SameSize
  <1>21. Synced'
    <2>1. ~(leaky /\ drift) => Equal
      BY <1>1 DEF IInv, Synced, Idle, InRefs
    <2>2. Equal' <=> Equal
      BY <1>1 DEF Equal
    <2> QED
      BY <1>1, <1>2, <2>1, <2>2 DEF Synced
  <1>22. Written'
    BY <1>2 DEF Written, InRefs
  <1>23. Listing'
    BY <1>2 DEF Listing
  <1>24. Contents'
    BY <1>1, <1>2, <1>5 DEF IInv, Contents
  <1> QED
    BY <1>4, <1>6, <1>8, <1>9, <1>13, <1>15, <1>16, <1>17, <1>21, <1>22, <1>23, <1>24
       DEF IInv
-----------------------------------------------------------------------------
(* The operations end.                                                     *)

\* No pass is running or half done: every tree holds all it reaches.
Quiet == op.k = "idle" \/ op.step \in {"list", "count"}
AllHeld ==
    /\ First = 0 /\ Last = L1Max /\ Flagged = L1Max
    /\ Hold(NoId) = Part(file, l1, l1_size, 0, L1Max)
    /\ \A id \in Ids : Hold(id) =
          IF Listed(id) THEN Part(file, snap_l1[id], SizeOf(id), 0, L1Max)
          ELSE {}

LEMMA HoldQuiet == Shape /\ Quiet => AllHeld
  <1> SUFFICES ASSUME Shape, Quiet PROVE AllHeld
    OBVIOUS
  <1>1. CASE op.k = "idle"
    BY <1>1, HoldIdle DEF AllHeld
  <1>2. CASE op.k # "idle" /\ op.k = "create"
    <2>1. op.step \in {"list", "count"} /\ Listed(op.id)
      BY <1>2 DEF Quiet, Shape, CreateShape
    <2>2. First = 0 /\ Last = L1Max /\ Flagged = L1Max
      BY <1>2, <2>1 DEF First, Last, Flagged
    <2> QED
      BY <1>2, <2>1, <2>2, Constants DEF AllHeld, Hold, HeldByNew, HeldByOld
  <1>3. CASE op.k # "idle" /\ op.k = "delete"
    <2>1. op.step \in {"list", "count"} /\ ~Listed(op.id)
      BY <1>3 DEF Quiet, Shape, DeleteShape
    <2>2. First = 0 /\ Last = L1Max /\ Flagged = L1Max
      BY <1>3, <2>1 DEF First, Last, Flagged
    <2> QED
      BY <1>3, <2>1, <2>2, Constants DEF AllHeld, Hold, HeldByNew, HeldByOld
  <1>4. CASE op.k \notin {"idle", "create", "delete"}
    <2>1. First = 0 /\ Last = L1Max /\ Flagged = L1Max
      BY <1>4 DEF First, Last, Flagged, Quiet, Shape, GotoShape
    <2> QED
      BY <1>4, <2>1, Constants DEF AllHeld, Hold, HeldByNew, HeldByOld
  <1> QED
    BY <1>1, <1>2, <1>3, <1>4

LEMMA HoldQuietNext == Shape' /\ Quiet' => AllHeld'
  <1>1. (Shape /\ Quiet => AllHeld)'
    BY HoldQuiet, PTL
  <1> QED
    BY <1>1

\* What stays when a step changes no tree and no refcount, and nothing is
\* half done before it nor after it.
LEMMA QuietKeeps ==
    ASSUME IInv, Quiet, Shape', Quiet', leaky => leaky', Types',
           UNCHANGED <<file, l1, l1_size, rc, snaps, snap_l1>>
    PROVE  /\ Distinct' /\ Trees' /\ Counts' /\ Exclusive' /\ Exact'
           /\ \A h : Holders(h)' = Holders(h)
  <1>1. /\ \A o : Listed(o)' <=> Listed(o)
        /\ \A o : SizeOf(o)' = SizeOf(o)
        /\ Distinct'
    BY ListFrame DEF IInv
  <1>2. AllHeld /\ AllHeld'
    BY HoldQuiet, HoldQuietNext DEF IInv
  <1>3. \A o \in Ids \cup {NoId} : Hold(o)' = Hold(o)
    BY <1>1, <1>2 DEF AllHeld
  <1>4. \A h : Holders(h)' = Holders(h)
    BY <1>3, HoldersKept
  <1>5. Trees'
    BY TreesKept DEF IInv
  <1>6. /\ First = 0 /\ Last = L1Max /\ Flagged = L1Max
        /\ First' = 0 /\ Last' = L1Max /\ Flagged' = L1Max
    BY <1>2 DEF AllHeld
  <1>7. Exclusive'
    BY <1>4, <1>6, ExclusiveKept DEF IInv
  <1>8. Exact'
    BY <1>6, ExactKept DEF IInv
  <1>9. Counts'
    BY <1>4 DEF IInv, Counts
  <1> QED
    BY <1>1, <1>4, <1>5, <1>7, <1>8, <1>9

LEMMA ListKeeps ==
    ASSUME IInv, WriteList
    PROVE  IInv'
  <1>1. /\ op.step = "list" /\ disk_snaps' = snaps
        /\ op' = [op EXCEPT !.step = "count"]
        /\ UNCHANGED <<file, l1, l1_size, rc, snaps, disk_l1, disk_l1_size,
                       disk_rc, disk_nb, snap_l1, image, saved, drift, leaky>>
    BY DEF WriteList, memVars, diskVars, history
  <1>2. op \in Operation
    BY DEF IInv, Types
  <1>3. /\ op'.step = "count" /\ op'.k = op.k /\ op'.id = op.id
        /\ op'.on = op.on /\ op'.addend = op.addend /\ op'.i = op.i
        /\ op'.tab = op.tab /\ op'.modified = op.modified
        /\ op' \in Operation
    BY <1>1, <1>2 DEF Operation
  <1>4. op.k \in {"create", "delete"} /\ op.on = "active"
    BY <1>1, <1>2 DEF IInv, Shape, CreateShape, GotoShape, DeleteShape, Idle, Operation
  <1>5. Types'
    BY <1>1, <1>3 DEF IInv, Types
  <1>6. /\ \A o : Listed(o)' <=> Listed(o)
        /\ \A o : SizeOf(o)' = SizeOf(o)
    BY <1>1, ListFrame
  <1>7. Shape'
    BY <1>1, <1>3, <1>4, <1>6
       DEF IInv, Shape, CreateShape, GotoShape, DeleteShape, InRefs
  <1>8. Quiet /\ Quiet'
    BY <1>1, <1>3 DEF Quiet
  <1>9. /\ Distinct' /\ Trees' /\ Counts' /\ Exclusive' /\ Exact'
    BY <1>1, <1>5, <1>7, <1>8, QuietKeeps
  <1>10. SameSize'
    BY <1>1 DEF IInv, SameSize
  <1>11. Synced'
    <2>1. ~(leaky /\ drift) => Equal
      BY <1>1, <1>4 DEF IInv, Synced, InRefs
    <2>2. Equal' <=> Equal
      BY <1>1 DEF Equal
    <2> QED
      BY <1>1, <1>3, <1>4, <2>1, <2>2 DEF Synced
  <1>12. Written'
    BY <1>1, <1>3, <1>4 DEF IInv, Written, InRefs
  <1>13. Listing'
    BY <1>1, <1>3, <1>4 DEF IInv, Listing, Types
  <1>14. Contents'
    BY <1>1, <1>3, <1>4, <1>6 DEF IInv, Contents
  <1> QED
    BY <1>5, <1>7, <1>9, <1>10, <1>11, <1>12, <1>13, <1>14 DEF IInv

LEMMA CountKeeps ==
    ASSUME IInv, WriteCount
    PROVE  IInv'
  <1>1. /\ op.step = "count" /\ disk_nb' = Len(snaps) /\ op' = Idle
        /\ UNCHANGED <<file, l1, l1_size, rc, snaps, disk_l1, disk_l1_size,
                       disk_rc, disk_snaps, snap_l1, image, saved, drift, leaky>>
    BY DEF WriteCount, memVars, diskVars, history
  <1>2. op \in Operation /\ snaps \in Seq(Snapshot)
    BY DEF IInv, Types
  <1>3. /\ op'.k = "idle" /\ op'.step = "idle" /\ op'.on = "active"
        /\ op' \in Operation
    BY <1>1, Constants DEF Idle
  <1>4. op.k \in {"create", "delete"} /\ op.on = "active"
    BY <1>1, <1>2 DEF IInv, Shape, CreateShape, GotoShape, DeleteShape, Idle, Operation
  <1>5. Types'
    <2>1. Len(snaps) \in Nat
      BY <1>2
    <2> QED
      BY <1>1, <1>3, <2>1 DEF IInv, Types
  <1>6. /\ \A o : Listed(o)' <=> Listed(o)
        /\ \A o : SizeOf(o)' = SizeOf(o)
    BY <1>1, ListFrame
  <1>7. Shape'
    BY <1>1, <1>3 DEF Shape, CreateShape, GotoShape, DeleteShape, InRefs
  <1>8. Quiet /\ Quiet'
    BY <1>1, <1>3 DEF Quiet
  <1>9. /\ Distinct' /\ Trees' /\ Counts' /\ Exclusive' /\ Exact'
    BY <1>1, <1>5, <1>7, <1>8, QuietKeeps
  <1>10. SameSize'
    BY <1>1 DEF IInv, SameSize
  <1>11. Synced'
    <2>1. ~(leaky /\ drift) => Equal
      BY <1>1, <1>4 DEF IInv, Synced, InRefs
    <2>2. Equal' <=> Equal
      BY <1>1 DEF Equal
    <2> QED
      BY <1>1, <1>3, <2>1, <2>2 DEF Synced
  <1>12. Written'
    BY <1>1, <1>3, <1>4 DEF IInv, Written, InRefs
  <1>13. Listing'
    <2>1. disk_snaps = snaps /\ Len(snaps) \in Nat
      BY <1>1, <1>2 DEF IInv, Listing
    <2>2. \A n \in Nat : n <= n
      OBVIOUS
    <2> QED
      BY <1>1, <1>3, <2>1, <2>2 DEF Listing
  <1>14. Contents'
    BY <1>1, <1>3, <1>4, <1>6 DEF IInv, Contents
  <1> QED
    BY <1>5, <1>7, <1>9, <1>10, <1>11, <1>12, <1>13, <1>14 DEF IInv

\* A creation is given up: what it has counted stays counted.
LEMMA AbandonKeeps ==
    ASSUME IInv, op.k = "create", op' = Idle, leaky' = TRUE,
           UNCHANGED <<file, l1, l1_size, snaps, disk_l1, disk_l1_size,
                       disk_snaps, disk_nb, snap_l1, image, saved>>,
           rc' \in [Host -> Nat], disk_rc' = rc',
           \A h \in Host : rc[h] <= rc'[h],
           drift' \in BOOLEAN, drift => drift', InRefs /\ op.modified => drift'
    PROVE  IInv'
  <1>1. /\ op'.k = "idle" /\ op'.step = "idle" /\ op'.on = "active"
        /\ op' \in Operation
    BY Constants DEF Idle
  <1>2. Types'
    BY <1>1 DEF IInv, Types
  <1>3. /\ \A o : Listed(o)' <=> Listed(o)
        /\ \A o : SizeOf(o)' = SizeOf(o)
        /\ Distinct'
    BY ListFrame DEF IInv
  <1>4. Shape'
    BY <1>1 DEF Shape, CreateShape, GotoShape, DeleteShape, InRefs
  <1>5. Trees'
    BY TreesKept DEF IInv
  <1>6. AllHeld'
    BY <1>1, <1>4, HoldQuietNext DEF Quiet
  <1>7. First = 0 /\ Last = L1Max
    BY DEF First, Last
  <1>8. \A o \in Ids \cup {NoId} : Hold(o)' \subseteq Hold(o)
    <2>1. Hold(NoId)' = Hold(NoId)
      BY <1>6, <1>7 DEF AllHeld, Hold
    <2>2. ASSUME NEW o \in Ids, Listed(o)
          PROVE  Hold(o)' = Hold(o)
      BY <2>2, <1>3, <1>6, Constants DEF AllHeld, Hold, HeldByOld
    <2>3. ASSUME NEW o \in Ids, ~Listed(o)
          PROVE  Hold(o)' = {}
      BY <2>3, <1>3, <1>6 DEF AllHeld
    <2> QED
      BY <2>1, <2>2, <2>3
  <1>9. \A h : Holders(h)' \subseteq Holders(h)
    BY <1>8, HoldersShrink
  <1>10. Counts'
    BY <1>2, <1>3, <1>9, CountsShrink DEF IInv
  <1>11. Exclusive'
    BY <1>6, <1>7, <1>9, ExclusiveKept DEF IInv, AllHeld
  <1>12. Exact'
    BY DEF Exact
  <1>13. SameSize'
    BY DEF IInv, SameSize
  <1>14. Synced'
    <2>1. ~drift' => Equal
      BY DEF IInv, Synced
    <2>2. Equal' <=> Equal
      BY DEF Equal
    <2> QED
      BY <1>1, <2>1, <2>2 DEF Synced
  <1>15. Written'
    BY <1>1 DEF Written
  <1>16. Listing'
    BY <1>1 DEF IInv, Listing
  <1>17. Contents'
    BY <1>1, <1>3 DEF IInv, Contents
  <1> QED
    BY <1>2, <1>3, <1>4, <1>5, <1>10, <1>11, <1>12, <1>13, <1>14, <1>15, <1>16,
       <1>17 DEF IInv

LEMMA SnapshotFailKeeps ==
    ASSUME IInv, Supported, SnapshotFail
    PROVE  IInv'
  <1>1. /\ op.k = "create" /\ op.step \in {"save_l1", "list", "count"}
        /\ op' = Idle /\ leaky' = TRUE
        /\ UNCHANGED <<file, l1, l1_size, snaps, rc, disk_l1, disk_l1_size,
                       disk_rc, disk_snaps, disk_nb, snap_l1, image, saved, drift>>
    BY DEF Supported, SnapshotFail, memVars, diskVars
  <1>2. disk_rc = rc
    BY <1>1 DEF IInv, Written
  <1>3. rc \in [Host -> Nat] /\ drift \in BOOLEAN
    BY DEF IInv, Types
  <1>4. \A h \in Host : rc[h] <= rc[h]
    BY <1>3
  <1>5. ~InRefs
    BY <1>1 DEF InRefs
  <1> QED
    BY <1>1, <1>2, <1>3, <1>4, <1>5, AbandonKeeps

LEMMA RefsFailKeeps ==
    ASSUME IInv, Supported, RefsFail
    PROVE  IInv'
  <1>1. /\ op.k = "create" /\ InRefs /\ op.i < Size /\ Table[op.i].host # 0
        /\ op' = Idle /\ leaky' = TRUE /\ disk_rc' = rc'
        /\ drift' = (drift \/ op.modified)
        /\ rc' \in {rc, CountData(file[Table[op.i].host])}
        /\ UNCHANGED <<file, l1, l1_size, snaps, disk_l1, disk_l1_size,
                       disk_snaps, disk_nb, snap_l1, image, saved>>
    BY DEF Supported, RefsFail
  <1>2. op.addend = 1
    BY <1>1 DEF IInv, Shape, CreateShape
  <1>3. rc \in [Host -> Nat] /\ drift \in BOOLEAN /\ op.modified \in BOOLEAN
    BY DEF IInv, Types, Operation
  <1>4. \A t : /\ CountData(t) \in [Host -> Nat]
               /\ \A h \in Host : rc[h] <= CountData(t)[h]
    <2> SUFFICES ASSUME NEW t
                 PROVE  /\ CountData(t) \in [Host -> Nat]
                        /\ \A h \in Host : rc[h] <= CountData(t)[h]
      OBVIOUS
    <2>1. \A h : Cardinality({j \in L2Index : t[j].host = h}) \in Nat
      <3> SUFFICES ASSUME NEW h
                   PROVE  Cardinality({j \in L2Index : t[j].host = h}) \in Nat
        OBVIOUS
      <3>1. IsFiniteSet(L2Index)
        BY L2Assumption, FS_Interval DEF L2Index
      <3>2. IsFiniteSet({j \in L2Index : t[j].host = h})
        BY <3>1, FS_Subset
      <3> QED
        BY <3>2, FS_CardinalityType
    <2>2. \A h \in Host : CountData(t)[h] =
              rc[h] + 1 * Cardinality({j \in L2Index : t[j].host = h})
      BY <1>2 DEF CountData
    <2>3. ASSUME NEW h \in Host
          PROVE  CountData(t)[h] \in Nat /\ rc[h] <= CountData(t)[h]
      <3>1. PICK n \in Nat : n = Cardinality({j \in L2Index : t[j].host = h})
        BY <2>1
      <3>2. CountData(t)[h] = rc[h] + 1 * n /\ rc[h] \in Nat
        BY <1>3, <2>2, <3>1
      <3> QED
        BY <3>2
    <2>4. CountData(t) = [h \in Host |-> CountData(t)[h]]
      BY DEF CountData
    <2> QED
      BY <2>3, <2>4
  <1>5. rc' \in [Host -> Nat] /\ \A h \in Host : rc[h] <= rc'[h]
    <2>1. CASE rc' = rc
      <3>1. \A h \in Host : rc[h] <= rc[h]
        BY <1>3
      <3> QED
        BY <2>1, <3>1, <1>3
    <2>2. CASE rc' = CountData(file[Table[op.i].host])
      BY <2>2, <1>4
    <2> QED
      BY <1>1, <2>1, <2>2
  <1>6. drift' \in BOOLEAN /\ (drift => drift') /\ (InRefs /\ op.modified => drift')
    BY <1>1, <1>3, Zenon
  <1> QED
    BY <1>1, <1>5, <1>6, AbandonKeeps
-----------------------------------------------------------------------------
(* The end of a pass: WriteRefcounts.                                      *)

\* What a pass has reached when it is over.
LEMMA PassOver ==
    ASSUME IInv, InRefs, op.i = Size + 1
    PROVE  /\ Size \in 0..L1Max /\ op.i \in Nat /\ op.i >= Size
           /\ ~(op.i <= Size)
           /\ op.on = "active" => Size = l1_size
           /\ op.on = "snapshot" => Size = SizeOf(op.id)
           /\ op.on \in {"active", "snapshot"}
           /\ \A t : \A i \in Used(t, Size) : i < op.i
  <1>1. op.on \in {"active", "snapshot"} /\ l1_size \in 0..L1Max
    BY DEF IInv, Types, Operation
  <1>2. op.on = "snapshot" => Listed(op.id)
    BY <1>1 DEF IInv, Shape, CreateShape, GotoShape, DeleteShape, Idle, InRefs,
                Types, Operation
  <1>3. /\ op.on = "active" => Size = l1_size
        /\ op.on = "snapshot" => Size = SizeOf(op.id)
    BY DEF Size
  <1>4. Size \in 0..L1Max
    BY <1>1, <1>2, <1>3, Sizes DEF IInv
  <1>5. Size \in Nat
    BY <1>4, L1Assumption
  <1>6. op.i \in Nat /\ op.i >= Size /\ ~(op.i <= Size)
    BY <1>5
  <1>7. \A t : \A i \in Used(t, Size) : i < op.i
    BY <1>5, L1Assumption DEF Used, L1Index
  <1> QED
    BY <1>1, <1>3, <1>4, <1>6, <1>7

LEMMA RefcountsKeepOne ==
    ASSUME IInv, WriteRefcounts
    PROVE  /\ disk_rc' = rc /\ op' = AfterRefs /\ InRefs /\ op.i = Size + 1
           /\ UNCHANGED <<file, l1, l1_size, rc, snaps, disk_l1, disk_l1_size,
                          disk_snaps, disk_nb, snap_l1, saved, drift, leaky>>
           /\ ~(op.k = "goto" /\ op.step = "refs2") => image' = image
           /\ op' \in Operation => Types'
           /\ \A o : Listed(o)' <=> Listed(o)
           /\ \A o : SizeOf(o)' = SizeOf(o)
           /\ Distinct' /\ Trees' /\ SameSize'
           /\ Equal' <=> Equal
  <1>1. /\ disk_rc' = rc /\ op' = AfterRefs /\ InRefs /\ op.i = Size + 1
        /\ UNCHANGED <<file, l1, l1_size, rc, snaps, disk_l1, disk_l1_size,
                       disk_snaps, disk_nb, snap_l1, saved, drift, leaky>>
        /\ image' = IF op.k = "goto" /\ op.step = "refs2" THEN saved[op.id]
                                                         ELSE image
    BY DEF WriteRefcounts, memVars
  <1>2. /\ \A o : Listed(o)' <=> Listed(o)
        /\ \A o : SizeOf(o)' = SizeOf(o)
        /\ Distinct'
    BY <1>1, ListFrame DEF IInv
  <1>3. Trees' /\ SameSize'
    BY <1>1, TreesKept DEF IInv, SameSize
  <1>4. Equal' <=> Equal
    BY <1>1 DEF Equal
  <1>5. image' \in [Clusters -> Values \cup {Blank}]
    <2>1. op.k = "goto" => op.id \in Ids
      BY DEF IInv, Shape, GotoShape
    <2> QED
      BY <1>1, <2>1 DEF IInv, Types
  <1>6. op' \in Operation => Types'
    BY <1>1, <1>5 DEF IInv, Types
  <1> QED
    BY <1>1, <1>2, <1>3, <1>4, <1>6

LEMMA RefcountsCreate ==
    ASSUME IInv, WriteRefcounts, op.k = "create"
    PROVE  IInv'
  <1>1. /\ disk_rc' = rc /\ op' = AfterRefs /\ InRefs /\ op.i = Size + 1
        /\ UNCHANGED <<file, l1, l1_size, rc, snaps, disk_l1, disk_l1_size,
                       disk_snaps, disk_nb, snap_l1, saved, drift, leaky, image>>
    BY RefcountsKeepOne
  <1>2. /\ op' \in Operation => Types'
        /\ \A o : Listed(o)' <=> Listed(o)
        /\ \A o : SizeOf(o)' = SizeOf(o)
        /\ Distinct' /\ Trees' /\ SameSize'
        /\ Equal' <=> Equal
    BY RefcountsKeepOne
  <1>3. op \in Operation /\ op.step = "refs" /\ op.on = "active"
    BY <1>1 DEF IInv, Types, Shape, CreateShape, InRefs
  <1>4. op' = [op EXCEPT !.step = "save_l1"]
    BY <1>1 DEF AfterRefs
  <1>5. /\ op'.step = "save_l1" /\ op'.k = op.k /\ op'.id = op.id
        /\ op'.on = op.on /\ op'.addend = op.addend /\ op'.i = op.i
        /\ op'.tab = op.tab /\ op'.modified = op.modified
        /\ op' \in Operation
    BY <1>3, <1>4 DEF Operation
  <1>6. Size = l1_size /\ ~(op.i <= Size)
    BY <1>1, <1>3, PassOver
  <1>7. Shape'
    BY <1>1, <1>2, <1>3, <1>5, <1>6
       DEF IInv, Shape, CreateShape, GotoShape, DeleteShape, InRefs
  <1>8. /\ First' = First /\ Last' = Last /\ Flagged' = Flagged
    BY <1>3, <1>5 DEF First, Last, Flagged
  <1>9. \A h : Holders(h)' = Holders(h)
    <2>1. \A o : HeldByNew(o)' = HeldByNew(o)
      BY <1>1, <1>5 DEF HeldByNew
    <2>2. \A o : HeldByOld(o)' = HeldByOld(o)
      BY <1>1, <1>2, <1>5 DEF HeldByOld
    <2>3. \A o \in Ids \cup {NoId} : Hold(o)' = Hold(o)
      BY <1>1, <1>2, <1>8, <2>1, <2>2 DEF Hold
    <2> QED
      BY <2>3, HoldersKept
  <1>10. Counts'
    BY <1>1, <1>9, CountsKept DEF IInv
  <1>11. Exclusive'
    BY <1>1, <1>8, <1>9, ExclusiveKept DEF IInv
  <1>12. Exact'
    BY <1>1, <1>8, ExactKept DEF IInv
  <1>13. Synced'
    <2>1. ~(leaky /\ drift) => Equal
      BY <1>6 DEF IInv, Synced
    <2> QED
      BY <1>1, <1>2, <1>5, <2>1 DEF Synced
  <1>14. Written'
    BY <1>1, <1>5 DEF Written
  <1>15. Listing'
    BY <1>1, <1>5 DEF IInv, Listing
  <1>16. Contents'
    BY <1>1, <1>2, <1>5 DEF IInv, Contents
  <1> QED
    BY <1>2, <1>5, <1>7, <1>10, <1>11, <1>12, <1>13, <1>14, <1>15, <1>16 DEF IInv

LEMMA RefcountsGoto ==
    ASSUME IInv, WriteRefcounts, op.k = "goto", op.step = "refs"
    PROVE  IInv'
  <1>1. /\ disk_rc' = rc /\ op' = AfterRefs /\ InRefs /\ op.i = Size + 1
        /\ UNCHANGED <<file, l1, l1_size, rc, snaps, disk_l1, disk_l1_size,
                       disk_snaps, disk_nb, snap_l1, saved, drift, leaky, image>>
    BY RefcountsKeepOne
  <1>2. /\ op' \in Operation => Types'
        /\ \A o : Listed(o)' <=> Listed(o)
        /\ \A o : SizeOf(o)' = SizeOf(o)
        /\ Distinct' /\ Trees' /\ SameSize'
        /\ Equal' <=> Equal
    BY RefcountsKeepOne
  <1>3. op \in Operation /\ op.on = "active"
    BY <1>1 DEF IInv, Types, Shape, GotoShape
  <1>4. op' = [op EXCEPT !.step = "load_l1"]
    BY <1>1 DEF AfterRefs
  <1>5. /\ op'.step = "load_l1" /\ op'.k = op.k /\ op'.id = op.id
        /\ op'.on = op.on /\ op'.addend = op.addend /\ op'.i = op.i
        /\ op'.tab = op.tab /\ op'.modified = op.modified
        /\ op' \in Operation
    BY <1>3, <1>4 DEF Operation
  <1>6. Size = l1_size /\ op.i \in Nat /\ op.i >= l1_size /\ l1_size \in 0..L1Max
    BY <1>1, <1>3, PassOver
  <1>7. Shape'
    BY <1>1, <1>2, <1>3, <1>5
       DEF IInv, Shape, CreateShape, GotoShape, DeleteShape, InRefs
  <1>8. /\ First = op.i /\ Last = L1Max /\ Flagged = 0
        /\ First' = 0 /\ Last' = 0 /\ Flagged' = 0
    BY <1>5 DEF First, Last, Flagged
  <1>9. \A h : Holders(h)' = Holders(h)
    <2>1. \A o : HeldByNew(o)' = HeldByNew(o)
      BY <1>1, <1>5 DEF HeldByNew
    <2>2. \A o : HeldByOld(o)' = HeldByOld(o)
      BY <1>1, <1>2, <1>5 DEF HeldByOld
    <2>3. /\ Part(file, l1, l1_size, op.i, L1Max) = {}
          /\ Part(file, l1, l1_size, 0, 0) = {}
      BY <1>6, PartEnds
    <2>4. \A o \in Ids \cup {NoId} : Hold(o)' = Hold(o)
      BY <1>1, <1>2, <1>8, <2>1, <2>2, <2>3 DEF Hold
    <2> QED
      BY <2>4, HoldersKept
  <1>10. Counts'
    BY <1>1, <1>9, CountsKept DEF IInv
  <1>11. \A i \in L1Index : ~(i < 0)
    BY Constants
  <1>12. Exclusive'
    BY <1>8, <1>11 DEF Exclusive, Used
  <1>13. Exact'
    BY <1>8, <1>11 DEF Exact, Used
  <1>14. Synced' /\ Written'
    BY <1>5 DEF Synced, Written
  <1>15. Listing'
    BY <1>1, <1>5 DEF IInv, Listing
  <1>16. Contents'
    BY <1>1, <1>2, <1>5 DEF IInv, Contents
  <1> QED
    BY <1>2, <1>5, <1>7, <1>10, <1>12, <1>13, <1>14, <1>15, <1>16 DEF IInv

LEMMA RefcountsGotoEnds ==
    ASSUME IInv, WriteRefcounts, op.k = "goto", op.step = "refs2"
    PROVE  IInv'
  <1>1. /\ disk_rc' = rc /\ op' = AfterRefs /\ InRefs /\ op.i = Size + 1
        /\ UNCHANGED <<file, l1, l1_size, rc, snaps, disk_l1, disk_l1_size,
                       disk_snaps, disk_nb, snap_l1, saved, drift, leaky>>
    BY RefcountsKeepOne
  <1>2. /\ op' \in Operation => Types'
        /\ \A o : Listed(o)' <=> Listed(o)
        /\ \A o : SizeOf(o)' = SizeOf(o)
        /\ Distinct' /\ Trees' /\ SameSize'
        /\ Equal' <=> Equal
    BY RefcountsKeepOne
  <1>3. /\ op \in Operation /\ op.on = "active" /\ op.id \in Ids
        /\ Listed(op.id) /\ l1_size = SizeOf(op.id)
    BY <1>1 DEF IInv, Types, Shape, GotoShape
  <1>4. op' = Idle /\ image' = saved[op.id]
    BY <1>1 DEF AfterRefs, WriteRefcounts
  <1>5. /\ op'.k = "idle" /\ op'.step = "idle" /\ op'.on = "active"
        /\ op' \in Operation
    BY <1>4, Constants DEF Idle
  <1>6. /\ Size = l1_size /\ op.i \in Nat /\ op.i >= l1_size /\ l1_size \in 0..L1Max
        /\ ~(op.i <= Size) /\ \A i \in Used(l1, l1_size) : i < op.i
    BY <1>1, <1>3, PassOver
  <1>7. Shape'
    BY <1>4, <1>5 DEF Shape, CreateShape, GotoShape, DeleteShape, InRefs
  <1>8. AllHeld'
    BY <1>5, <1>7, HoldQuietNext DEF Quiet
  <1>9. First = 0 /\ Last = op.i /\ Flagged = op.i
    BY DEF First, Last, Flagged
  <1>10. \A h : Holders(h)' = Holders(h)
    <2>1. \A o : HeldByNew(o) = {}
      BY DEF HeldByNew
    <2>2. \A o : HeldByOld(o) = Part(file, snap_l1[o], SizeOf(o), 0, L1Max)
      BY DEF HeldByOld
    <2>3. Part(file, l1, l1_size, 0, op.i) = Part(file, l1, l1_size, 0, L1Max)
      BY <1>6, PartEnds
    <2>4. \A o \in Ids \cup {NoId} : Hold(o)' = Hold(o)
      BY <1>1, <1>2, <1>8, <1>9, <2>1, <2>2, <2>3, Constants DEF Hold, AllHeld
    <2> QED
      BY <2>4, HoldersKept
  <1>11. Counts'
    BY <1>1, <1>10, CountsKept DEF IInv
  <1>12. Exclusive'
    BY <1>1, <1>6, <1>8, <1>9, <1>10, ExclusiveKept DEF IInv, AllHeld
  <1>13. Exact'
    BY <1>1, <1>6, <1>8, <1>9, ExactKept DEF IInv, AllHeld
  <1>14. Synced'
    <2>1. Equal
      BY <1>6 DEF IInv, Synced
    <2> QED
      BY <1>2, <1>5, <2>1 DEF Synced
  <1>15. Written'
    BY <1>1, <1>5 DEF Written
  <1>16. Listing'
    BY <1>1, <1>5 DEF IInv, Listing
  <1>17. Contents'
    <2>1. op.id \in Owners /\ op.id # NoId /\ NoId \in Owners
      BY <1>3, Constants DEF Owners
    <2>2. /\ Tree(file, snap_l1[op.id], l1_size)
          /\ Tree(file, l1, l1_size)
      BY <1>3, <2>1 DEF IInv, Trees, TableOf, EntriesOf
    <2>3. \A i \in L1Index : i < l1_size => l1[i].host = snap_l1[op.id][i].host
      BY DEF IInv, Contents
    <2>4. Used(l1, l1_size) = Used(snap_l1[op.id], l1_size)
      BY <2>3 DEF Used
    <2>5. \A i \in Used(l1, l1_size) : l1[i].host = snap_l1[op.id][i].host
      BY <2>3 DEF Used
    <2>6. Same(file, snap_l1[op.id], file, l1, l1_size)
      BY <2>2, <2>3, <2>4, <2>5 DEF Same, Tree, Sound
    <2>7. \A c \in Clusters : ReadIn(file, l1, l1_size, c)
                                 = ReadIn(file, snap_l1[op.id], l1_size, c)
      BY <2>2, <2>6, <1>6, SameTree
    <2>8. \A c \in Clusters : ReadIn(file, snap_l1[op.id], l1_size, c)
                                 = saved[op.id][c]
      BY <1>3 DEF IInv, Contents
    <2> QED
      BY <1>1, <1>2, <1>4, <1>5, <2>7, <2>8 DEF IInv, Contents
  <1> QED
    BY <1>2, <1>5, <1>7, <1>11, <1>12, <1>13, <1>14, <1>15, <1>16, <1>17 DEF IInv

LEMMA RefcountsDelete ==
    ASSUME IInv, WriteRefcounts, op.k = "delete", op.step = "refs"
    PROVE  IInv'
  <1>1. /\ disk_rc' = rc /\ op' = AfterRefs /\ InRefs /\ op.i = Size + 1
        /\ UNCHANGED <<file, l1, l1_size, rc, snaps, disk_l1, disk_l1_size,
                       disk_snaps, disk_nb, snap_l1, saved, drift, leaky, image>>
    BY RefcountsKeepOne
  <1>2. /\ op' \in Operation => Types'
        /\ \A o : Listed(o)' <=> Listed(o)
        /\ \A o : SizeOf(o)' = SizeOf(o)
        /\ Distinct' /\ Trees' /\ SameSize'
        /\ Equal' <=> Equal
    BY RefcountsKeepOne
  <1>3. op \in Operation /\ op.on = "snapshot" /\ op.id \in Ids /\ Listed(op.id)
    BY <1>1 DEF IInv, Types, Shape, DeleteShape
  <1>4. op' = Pass("delete", op.id, "refs2", "active", 0, EmptyL1)
    BY <1>1 DEF AfterRefs
  <1>5. /\ op'.step = "refs2" /\ op'.k = "delete" /\ op'.id = op.id
        /\ op'.on = "active" /\ op'.addend = 0 /\ op'.i = 0
        /\ op'.tab = EmptyL1 /\ op'.modified = FALSE
    BY <1>4 DEF Pass
  <1>6. op' \in Operation
    BY <1>3, <1>4, PassType, Constants
  <1>7. /\ Size = SizeOf(op.id) /\ op.i \in Nat /\ op.i >= Size /\ Size \in 0..L1Max
    BY <1>1, <1>3, PassOver
  <1>8. Shape'
    <2>1. Size' = l1_size
      BY <1>1, <1>5 DEF Size
    <2>2. 0 <= l1_size + 1
      BY L1Assumption DEF IInv, Types
    <2>3. op'.i <= Size' + 1
      BY <2>1, <2>2, <1>5
    <2> QED
      BY <1>2, <1>3, <1>5, <2>3 DEF Shape, CreateShape, GotoShape, DeleteShape
  <1>9. /\ First = 0 /\ Last = L1Max
        /\ First' = 0 /\ Last' = L1Max /\ Flagged' = 0
    BY <1>5 DEF First, Last, Flagged
  <1>10. \A h : Holders(h)' = Holders(h)
    <2>1. \A o : HeldByNew(o)' = HeldByNew(o)
      BY <1>1, <1>5 DEF HeldByNew
    <2>2. Part(file, snap_l1[op.id], SizeOf(op.id), op.i, L1Max) = {}
      BY <1>7, PartEnds
    <2>3. \A o : HeldByOld(o)' = HeldByOld(o)
      BY <1>1, <1>2, <1>5, <2>2 DEF HeldByOld
    <2>4. \A o \in Ids \cup {NoId} : Hold(o)' = Hold(o)
      BY <1>1, <1>2, <1>9, <2>1, <2>3 DEF Hold
    <2> QED
      BY <2>4, HoldersKept
  <1>11. Counts'
    BY <1>1, <1>10, CountsKept DEF IInv
  <1>12. Exclusive'
    BY <1>1, <1>9, <1>10, ExclusiveKept DEF IInv
  <1>13. Exact'
    <2>1. \A i \in L1Index : ~(i < 0)
      BY Constants
    <2> QED
      BY <1>9, <2>1 DEF Exact, Used
  <1>14. Synced'
    <2>1. ~(leaky /\ drift) => Equal
      BY <1>3 DEF IInv, Synced
    <2> QED
      BY <1>1, <1>2, <1>5, <2>1 DEF Synced
  <1>15. Written'
    BY <1>5 DEF Written, InRefs
  <1>16. Listing'
    BY <1>5 DEF Listing
  <1>17. Contents'
    BY <1>1, <1>2, <1>5 DEF IInv, Contents
  <1> QED
    BY <1>2, <1>6, <1>8, <1>11, <1>12, <1>13, <1>14, <1>15, <1>16, <1>17 DEF IInv

LEMMA RefcountsDeleteEnds ==
    ASSUME IInv, WriteRefcounts, op.k = "delete", op.step = "refs2"
    PROVE  IInv'
  <1>1. /\ disk_rc' = rc /\ op' = AfterRefs /\ InRefs /\ op.i = Size + 1
        /\ UNCHANGED <<file, l1, l1_size, rc, snaps, disk_l1, disk_l1_size,
                       disk_snaps, disk_nb, snap_l1, saved, drift, leaky, image>>
    BY RefcountsKeepOne
  <1>2. /\ op' \in Operation => Types'
        /\ \A o : Listed(o)' <=> Listed(o)
        /\ \A o : SizeOf(o)' = SizeOf(o)
        /\ Distinct' /\ Trees' /\ SameSize'
        /\ Equal' <=> Equal
    BY RefcountsKeepOne
  <1>3. op \in Operation /\ op.on = "active" /\ op.id \in Ids /\ Listed(op.id)
    BY <1>1 DEF IInv, Types, Shape, DeleteShape
  <1>4. op' = [op EXCEPT !.step = "drop"]
    BY <1>1 DEF AfterRefs
  <1>5. /\ op'.step = "drop" /\ op'.k = op.k /\ op'.id = op.id
        /\ op'.on = op.on /\ op'.addend = op.addend /\ op'.i = op.i
        /\ op'.tab = op.tab /\ op'.modified = op.modified
        /\ op' \in Operation
    BY <1>3, <1>4 DEF Operation
  <1>6. /\ Size = l1_size /\ ~(op.i <= Size)
        /\ \A i \in Used(l1, l1_size) : i < op.i
    BY <1>1, <1>3, PassOver
  <1>7. Shape'
    BY <1>2, <1>3, <1>5 DEF Shape, CreateShape, GotoShape, DeleteShape, InRefs
  <1>8. /\ First = 0 /\ Last = L1Max /\ Flagged = op.i
        /\ First' = 0 /\ Last' = L1Max
    BY <1>5 DEF First, Last, Flagged
  <1>9. \A h : Holders(h)' = Holders(h)
    <2>1. \A o : HeldByNew(o)' = HeldByNew(o)
      BY <1>1, <1>5 DEF HeldByNew
    <2>2. \A o : HeldByOld(o)' = HeldByOld(o)
      BY <1>1, <1>2, <1>5 DEF HeldByOld
    <2>3. \A o \in Ids \cup {NoId} : Hold(o)' = Hold(o)
      BY <1>1, <1>2, <1>8, <2>1, <2>2 DEF Hold
    <2> QED
      BY <2>3, HoldersKept
  <1>10. Counts'
    BY <1>1, <1>9, CountsKept DEF IInv
  <1>11. Exclusive'
    BY <1>1, <1>8, <1>9, ExclusiveKept DEF IInv
  <1>12. Exact'
    BY <1>1, <1>6, <1>8, ExactKept DEF IInv
  <1>13. Synced'
    <2>1. ~(leaky /\ drift) => Equal
      BY <1>6 DEF IInv, Synced
    <2> QED
      BY <1>1, <1>2, <1>5, <2>1 DEF Synced
  <1>14. Written'
    BY <1>1, <1>5 DEF Written
  <1>15. Listing'
    BY <1>5 DEF Listing
  <1>16. Contents'
    BY <1>1, <1>2, <1>5 DEF IInv, Contents
  <1> QED
    BY <1>2, <1>5, <1>7, <1>10, <1>11, <1>12, <1>13, <1>14, <1>15, <1>16 DEF IInv

LEMMA RefcountsKeeps ==
    ASSUME IInv, WriteRefcounts
    PROVE  IInv'
  <1>1. \/ op.k = "create"
        \/ op.k = "goto" /\ op.step = "refs"
        \/ op.k = "goto" /\ op.step = "refs2"
        \/ op.k = "delete" /\ op.step = "refs"
        \/ op.k = "delete" /\ op.step = "refs2"
    <2>1. op \in Operation /\ InRefs /\ (op.k = "idle" => op = Idle)
      BY DEF IInv, Types, Shape, WriteRefcounts
    <2> QED
      BY <2>1 DEF Operation, InRefs, Idle
  <1> QED
    BY <1>1, RefcountsCreate, RefcountsGoto, RefcountsGotoEnds, RefcountsDelete,
       RefcountsDeleteEnds
-----------------------------------------------------------------------------
(* Steps of a pass that change no reference.                               *)

LEMMA SameRefl ==
    ASSUME NEW f, NEW t, NEW n, Tree(f, t, n)
    PROVE  Same(f, t, f, t, n)
  BY DEF Same, Tree, Sound

\* All trees keep their clusters and contents.
LEMMA TreesSame ==
    ASSUME IInv, UNCHANGED <<l1_size, snaps>>,
           \A o \in Owners :
               Same(file, TableOf(o), file', TableOf(o)', EntriesOf(o))
    PROVE  /\ Trees'
           /\ Used(l1', l1_size) = Used(l1, l1_size)
           /\ \A lo, hi : Part(file', l1', l1_size, lo, hi)
                            = Part(file, l1, l1_size, lo, hi)
           /\ \A c \in Clusters : ReadIn(file', l1', l1_size, c)
                                    = ReadIn(file, l1, l1_size, c)
           /\ \A id \in Ids : Listed(id) =>
                /\ \A lo, hi : Part(file', snap_l1'[id], SizeOf(id), lo, hi)
                                 = Part(file, snap_l1[id], SizeOf(id), lo, hi)
                /\ \A c \in Clusters : ReadIn(file', snap_l1'[id], SizeOf(id), c)
                                         = ReadIn(file, snap_l1[id], SizeOf(id), c)
  <1>1. /\ \A o : Listed(o)' <=> Listed(o)
        /\ \A o : SizeOf(o)' = SizeOf(o)
    BY ListFrame
  <1>2. Owners' = Owners
    BY <1>1 DEF Owners
  <1>3. \A o : EntriesOf(o)' = EntriesOf(o)
    BY <1>1 DEF EntriesOf
  <1>4. \A o \in Owners : EntriesOf(o) \in 0..L1Max
    BY Sizes DEF IInv, Types, Owners, EntriesOf
  <1>5. \A o \in Owners : Tree(file, TableOf(o), EntriesOf(o))
    BY DEF IInv, Trees
  <1>6. \A o \in Owners :
           /\ Used(TableOf(o)', EntriesOf(o)) = Used(TableOf(o), EntriesOf(o))
           /\ Tree(file', TableOf(o)', EntriesOf(o))
           /\ \A lo, hi : Part(file', TableOf(o)', EntriesOf(o), lo, hi)
                            = Part(file, TableOf(o), EntriesOf(o), lo, hi)
           /\ \A c \in Clusters : ReadIn(file', TableOf(o)', EntriesOf(o), c)
                                    = ReadIn(file, TableOf(o), EntriesOf(o), c)
    <2> SUFFICES ASSUME NEW o \in Owners
                 PROVE  /\ Used(TableOf(o)', EntriesOf(o)) = Used(TableOf(o), EntriesOf(o))
                        /\ Tree(file', TableOf(o)', EntriesOf(o))
                        /\ \A lo, hi : Part(file', TableOf(o)', EntriesOf(o), lo, hi)
                                         = Part(file, TableOf(o), EntriesOf(o), lo, hi)
                        /\ \A c \in Clusters :
                              ReadIn(file', TableOf(o)', EntriesOf(o), c)
                                = ReadIn(file, TableOf(o), EntriesOf(o), c)
      OBVIOUS
    <2>1. /\ Same(file, TableOf(o), file', TableOf(o)', EntriesOf(o))
          /\ Tree(file, TableOf(o), EntriesOf(o))
          /\ EntriesOf(o) \in 0..L1Max
      BY <1>4, <1>5
    <2> QED
      BY <2>1, SameTree
  <1>7. \A o, o2 \in Owners :
           Apart(file', TableOf(o)', EntriesOf(o), TableOf(o2)', EntriesOf(o2))
    <2> SUFFICES ASSUME NEW o \in Owners, NEW o2 \in Owners
                 PROVE  Apart(file', TableOf(o)', EntriesOf(o), TableOf(o2)', EntriesOf(o2))
      OBVIOUS
    <2>1. Apart(file, TableOf(o), EntriesOf(o), TableOf(o2), EntriesOf(o2))
      BY DEF IInv, Trees
    <2> QED
      BY <2>1, SameApart
  <1>8. Trees'
    BY <1>2, <1>3, <1>6, <1>7 DEF Trees
  <1>9. /\ NoId \in Owners /\ TableOf(NoId) = l1 /\ TableOf(NoId)' = l1'
        /\ EntriesOf(NoId) = l1_size
    BY DEF Owners, TableOf, EntriesOf
  <1>10. \A id \in Ids : Listed(id) =>
            /\ id \in Owners /\ TableOf(id) = snap_l1[id]
            /\ TableOf(id)' = snap_l1'[id] /\ EntriesOf(id) = SizeOf(id)
    BY Constants DEF Owners, TableOf, EntriesOf
  <1>11. /\ Used(l1', l1_size) = Used(l1, l1_size)
         /\ \A lo, hi : Part(file', l1', l1_size, lo, hi)
                          = Part(file, l1, l1_size, lo, hi)
         /\ \A c \in Clusters : ReadIn(file', l1', l1_size, c)
                                  = ReadIn(file, l1, l1_size, c)
    BY <1>6, <1>9
  <1>12. ASSUME NEW id \in Ids, Listed(id)
         PROVE  /\ \A lo, hi : Part(file', snap_l1'[id], SizeOf(id), lo, hi)
                                 = Part(file, snap_l1[id], SizeOf(id), lo, hi)
                /\ \A c \in Clusters : ReadIn(file', snap_l1'[id], SizeOf(id), c)
                                         = ReadIn(file, snap_l1[id], SizeOf(id), c)
    <2>1. /\ id \in Owners /\ TableOf(id) = snap_l1[id]
          /\ TableOf(id)' = snap_l1'[id] /\ EntriesOf(id) = SizeOf(id)
      BY <1>10, <1>12
    <2> QED
      BY <1>6, <2>1
  <1> QED
    BY <1>8, <1>11, <1>12

LEMMA SkipKeeps ==
    ASSUME IInv, InRefs, op.i \notin Used(Table, Size),
           op'.k = op.k, op'.id = op.id, op'.step = op.step, op'.i = op.i + 1,
           UNCHANGED <<file, l1, l1_size, rc, snaps, leaky, image, saved>>,
           op.k # "delete" => snap_l1' = snap_l1,
           \A id \in Ids : Listed(id) =>
               Same(file, snap_l1[id], file, snap_l1'[id], SizeOf(id))
    PROVE  /\ Trees' /\ Counts' /\ Exclusive' /\ Exact' /\ Contents'
           /\ \A h : Holders(h)' = Holders(h)
  <1>1. /\ \A o : Listed(o)' <=> Listed(o)
        /\ \A o : SizeOf(o)' = SizeOf(o)
    BY ListFrame
  <1>2. Tree(file, l1, l1_size)
    BY DEF IInv, Trees, Owners, TableOf, EntriesOf
  <1>3. \A o \in Owners : Same(file, TableOf(o), file', TableOf(o)', EntriesOf(o))
    BY <1>2, SameRefl DEF Owners, TableOf, EntriesOf
  <1>4. /\ Trees'
        /\ \A id \in Ids : Listed(id) =>
             /\ \A lo, hi : Part(file, snap_l1'[id], SizeOf(id), lo, hi)
                              = Part(file, snap_l1[id], SizeOf(id), lo, hi)
             /\ \A c \in Clusters : ReadIn(file, snap_l1'[id], SizeOf(id), c)
                                      = ReadIn(file, snap_l1[id], SizeOf(id), c)
    BY <1>3, TreesSame
  <1>5. op.i \in Nat /\ l1_size \in 0..L1Max
    BY L1Assumption DEF IInv, Types, Operation
  <1>6. /\ op.on = "active" => Table = l1 /\ Size = l1_size
        /\ op.on # "active" => Table = op.tab /\ Size = SizeOf(op.id)
    BY DEF Table, Size
  <1>7. op.k \in {"create", "goto"} => op.on = "active"
    BY DEF IInv, Shape, CreateShape, GotoShape
  <1>8. op.on = "active" =>
           /\ Part(file, l1, l1_size, 0, op.i + 1) = Part(file, l1, l1_size, 0, op.i)
           /\ Part(file, l1, l1_size, op.i + 1, L1Max) = Part(file, l1, l1_size, op.i, L1Max)
    BY <1>5, <1>6, PartSkip
  <1>9. op.k = "delete" /\ op.step = "refs" =>
           Part(file, snap_l1[op.id], SizeOf(op.id), op.i + 1, L1Max)
             = Part(file, snap_l1[op.id], SizeOf(op.id), op.i, L1Max)
    <2> SUFFICES ASSUME op.k = "delete", op.step = "refs"
                 PROVE  Part(file, snap_l1[op.id], SizeOf(op.id), op.i + 1, L1Max)
                          = Part(file, snap_l1[op.id], SizeOf(op.id), op.i, L1Max)
      OBVIOUS
    <2>1. op.on = "snapshot" /\ Listed(op.id) /\ op.id \in Ids
      BY DEF IInv, Shape, DeleteShape
    <2>2. \A i \in L1Index : op.tab[i].host = snap_l1[op.id][i].host
      BY <2>1 DEF IInv, Shape
    <2>3. Used(op.tab, Size) = Used(snap_l1[op.id], SizeOf(op.id))
      BY <1>6, <2>1, <2>2 DEF Used
    <2>4. SizeOf(op.id) \in 0..L1Max
      BY <2>1, Sizes DEF IInv
    <2> QED
      BY <1>5, <1>6, <2>1, <2>3, <2>4, PartSkip
  <1>10. Hold(NoId)' = Hold(NoId)
    <2>1. CASE op.k = "goto"
      BY <2>1, <1>7, <1>8 DEF Hold, First, Last
    <2>2. CASE op.k # "goto"
      BY <2>2 DEF Hold, First, Last
    <2> QED
      BY <2>1, <2>2
  <1>11. ASSUME NEW o \in Ids
         PROVE  Hold(o)' = Hold(o)
    <2>1. HeldByNew(o)' = HeldByNew(o)
      BY <1>7, <1>8 DEF HeldByNew
    <2>2. ASSUME Listed(o)
          PROVE  HeldByOld(o)' = HeldByOld(o)
      <3>1. \A lo, hi : Part(file, snap_l1'[o], SizeOf(o), lo, hi)
                          = Part(file, snap_l1[o], SizeOf(o), lo, hi)
        BY <2>2, <1>4
      <3> QED
        BY <1>1, <1>9, <3>1 DEF HeldByOld
    <2> QED
      BY <1>1, <2>1, <2>2, Constants DEF Hold
  <1>12. \A h : Holders(h)' = Holders(h)
    BY <1>10, <1>11, HoldersKept
  <1>13. Counts'
    BY <1>12, CountsKept DEF IInv
  <1>14. \A i \in Used(l1, l1_size) : i \in Int
    BY L1Assumption DEF Used, L1Index
  <1>15. op.on = "active" =>
           \A i \in Used(l1, l1_size) :
              (i < op.i + 1 <=> i < op.i) /\ (op.i + 1 <= i <=> op.i <= i)
    <2>1. op.on = "active" => \A i \in Used(l1, l1_size) : i # op.i
      BY <1>6
    <2> QED
      BY <1>5, <1>14, <2>1
  <1>16. Exclusive'
    <2>1. ASSUME NEW i \in Used(l1, l1_size), First' <= i, i < Last'
          PROVE  First <= i /\ i < Last
      <3>1. CASE op.k = "goto"
        BY <2>1, <3>1, <1>7, <1>15 DEF First, Last
      <3>2. CASE op.k # "goto"
        BY <2>1, <3>2 DEF First, Last
      <3> QED
        BY <3>1, <3>2
    <2> QED
      BY <1>12, <2>1, ExclusiveKept DEF IInv
  <1>17. Exact'
    <2>1. ASSUME NEW i \in Used(l1, l1_size), i < Flagged'
          PROVE  i < Flagged
      <3>1. CASE op.k \in {"goto", "delete"} /\ op.step = "refs2"
        <4>1. op.on = "active"
          BY <3>1, <1>7 DEF IInv, Shape, DeleteShape
        <4> QED
          BY <2>1, <3>1, <4>1, <1>15 DEF Flagged
      <3>2. CASE ~(op.k \in {"goto", "delete"} /\ op.step = "refs2")
        BY <2>1, <3>2 DEF Flagged
      <3> QED
        BY <3>1, <3>2
    <2> QED
      BY <2>1, ExactKept DEF IInv
  <1>18. Contents'
    <2>1. \A id \in Ids : Listed(id) => \A c \in Clusters :
             ReadIn(file, snap_l1'[id], SizeOf(id), c) = saved[id][c]
      BY <1>4 DEF IInv, Contents
    <2> QED
      BY <1>1, <2>1 DEF IInv, Contents
  <1> QED
    BY <1>4, <1>12, <1>13, <1>16, <1>17, <1>18

\* The table and the size of a pass.
LEMMA PassFacts ==
    ASSUME IInv, InRefs
    PROVE  /\ op.on \in {"active", "snapshot"} /\ op.k # "idle" /\ op.id \in Ids
           /\ op.on = "active" => Table = l1 /\ Size = l1_size
           /\ op.on = "snapshot" =>
                /\ Table = op.tab /\ Size = SizeOf(op.id) /\ Listed(op.id)
                /\ op.k = "delete" /\ op.step = "refs"
           /\ op.k = "delete" /\ op.step = "refs" => op.on = "snapshot"
           /\ Size \in 0..L1Max /\ op.i \in Nat /\ op.i \in 0..(L1Max + 1)
           /\ op.i <= Size + 1
  <1>1. op \in Operation /\ l1_size \in 0..L1Max
    BY DEF IInv, Types
  <1>2. /\ op.on \in {"active", "snapshot"} /\ op.k # "idle" /\ op.id \in Ids
    BY <1>1 DEF IInv, Shape, CreateShape, GotoShape, DeleteShape, Operation,
                InRefs, Idle
  <1>3. /\ op.on = "snapshot" => /\ Listed(op.id) /\ op.k = "delete"
                                 /\ op.step = "refs"
        /\ op.k = "delete" /\ op.step = "refs" => op.on = "snapshot"
    BY <1>1, <1>2 DEF IInv, Shape, CreateShape, GotoShape, DeleteShape, Operation,
                InRefs
  <1>4. /\ op.on = "active" => Table = l1 /\ Size = l1_size
        /\ op.on = "snapshot" => Table = op.tab /\ Size = SizeOf(op.id)
    BY DEF Table, Size
  <1>5. Size \in 0..L1Max
    BY <1>1, <1>2, <1>3, <1>4, Sizes DEF IInv
  <1>6. op.i \in 0..(L1Max + 1) /\ op.i \in Nat
    BY <1>1, L1Assumption DEF Operation
  <1>7. op.i <= Size + 1
    BY DEF IInv, Shape
  <1> QED
    BY <1>2, <1>3, <1>4, <1>5, <1>6, <1>7

LEMMA WriteL1Keeps ==
    ASSUME IInv, WriteL1
    PROVE  IInv'
  <1>1. /\ InRefs /\ op.i = Size
        /\ op' = [op EXCEPT !.i = op.i + 1]
        /\ disk_l1' = IF op.modified /\ op.on = "active"
                      THEN Overlay(l1, l1_size, disk_l1) ELSE disk_l1
        /\ snap_l1' = IF op.modified /\ op.on = "snapshot"
                      THEN [snap_l1 EXCEPT ![op.id] = op.tab] ELSE snap_l1
        /\ drift' = IF op.modified /\ op.on = "active"
                    THEN l1_size # disk_l1_size ELSE drift
        /\ UNCHANGED <<file, l1, l1_size, rc, snaps, disk_l1_size, disk_rc,
                       disk_snaps, disk_nb, image, saved, leaky>>
    BY DEF WriteL1, memVars
  <1>2. /\ op.on \in {"active", "snapshot"} /\ op.k # "idle" /\ op.id \in Ids
        /\ op.on = "active" => Table = l1 /\ Size = l1_size
        /\ op.on = "snapshot" =>
             /\ Table = op.tab /\ Size = SizeOf(op.id) /\ Listed(op.id)
             /\ op.k = "delete" /\ op.step = "refs"
        /\ Size \in 0..L1Max /\ op.i \in Nat
    BY <1>1, PassFacts
  <1>3. op \in Operation /\ op.i + 1 \in 0..(L1Max + 1)
    BY <1>1, <1>2, L1Assumption DEF IInv, Types
  <1>4. /\ op'.step = op.step /\ op'.k = op.k /\ op'.id = op.id
        /\ op'.on = op.on /\ op'.addend = op.addend /\ op'.i = op.i + 1
        /\ op'.tab = op.tab /\ op'.modified = op.modified
        /\ op' \in Operation
    BY <1>1, <1>3 DEF Operation
  <1>5. Overlay(l1, l1_size, disk_l1) \in L1Tables
    BY DEF IInv, Types, Overlay, L1Tables
  <1>6. /\ drift' \in BOOLEAN /\ disk_l1' \in L1Tables
        /\ snap_l1' \in [Ids -> L1Tables]
    BY <1>1, <1>3, <1>5 DEF IInv, Types, Operation
  <1>7. Types'
    BY <1>1, <1>4, <1>6 DEF IInv, Types
  <1>8. /\ \A o : Listed(o)' <=> Listed(o)
        /\ \A o : SizeOf(o)' = SizeOf(o)
        /\ Distinct'
    BY <1>1, ListFrame DEF IInv
  <1>9. op.i \notin Used(Table, Size)
    BY <1>1, <1>2, L1Assumption DEF Used
  <1>10. op.k # "delete" => snap_l1' = snap_l1
    BY <1>1, <1>2
  <1>11. op.on = "snapshot" =>
            \A i \in L1Index : /\ op.tab[i].host = snap_l1[op.id][i].host
                               /\ i < SizeOf(op.id) => Unflagged(op.tab[i])
    BY DEF IInv, Shape
  <1>12. ASSUME NEW id \in Ids, Listed(id)
         PROVE  Same(file, snap_l1[id], file, snap_l1'[id], SizeOf(id))
    <2>1. id \in Owners /\ id # NoId
      BY <1>12, Constants DEF Owners
    <2>2. Tree(file, snap_l1[id], SizeOf(id))
      BY <2>1 DEF IInv, Trees, TableOf, EntriesOf
    <2>3. CASE snap_l1'[id] = snap_l1[id]
      BY <2>2, <2>3, SameRefl
    <2>4. CASE snap_l1'[id] # snap_l1[id]
      <3>1. op.on = "snapshot" /\ id = op.id /\ snap_l1'[id] = op.tab
        BY <1>1, <2>4 DEF IInv, Types
      <3> QED
        BY <1>11, <2>2, <3>1 DEF Same, Tree, Sound
    <2> QED
      BY <2>3, <2>4
  <1>13. /\ Trees' /\ Counts' /\ Exclusive' /\ Exact' /\ Contents'
         /\ \A h : Holders(h)' = Holders(h)
    BY <1>1, <1>4, <1>9, <1>10, <1>12, SkipKeeps
  <1>14. Size' = Size /\ InRefs'
    BY <1>1, <1>4, <1>8 DEF Size, InRefs
  <1>15. op.i + 1 <= Size + 1 /\ ~(op.i + 1 <= Size)
    BY <1>1, <1>2, L1Assumption
  <1>16. Shape'
    <2>1. op'.i <= Size' + 1
      BY <1>4, <1>14, <1>15
    <2>2. op'.on = "snapshot" =>
            \A i \in L1Index : /\ op'.tab[i].host = snap_l1'[op'.id][i].host
                               /\ i < SizeOf(op.id) => Unflagged(op'.tab[i])
      <3>1. op.on = "snapshot" => snap_l1'[op.id] \in {op.tab, snap_l1[op.id]}
        BY <1>1, <1>2 DEF IInv, Types
      <3> QED
        BY <1>4, <1>11, <3>1
    <2> QED
      BY <1>1, <1>2, <1>4, <1>8, <2>1, <2>2
         DEF IInv, Shape, CreateShape, GotoShape, DeleteShape, InRefs
  <1>17. SameSize'
    BY <1>1 DEF IInv, SameSize
  <1>18. op.modified /\ op.on = "active" => Equal'
    BY <1>1 DEF Equal, Overlay
  <1>19. ~(op.modified /\ op.on = "active") =>
            (Equal' <=> Equal) /\ drift' = drift /\ disk_l1' = disk_l1
    BY <1>1 DEF Equal
  <1>20. ASSUME op.k = "create", op.step = "refs", ~(leaky' /\ drift'),
                NEW i \in L1Index, i < l1_size
         PROVE  /\ disk_l1'[i].host = l1[i].host
                /\ Unflagged(disk_l1'[i])
                /\ disk_l1'[i].host # 0 /\ disk_l1'[i].copied =>
                     Holders(l1[i].host) \subseteq {NoId, op.id}
    <2>1. CASE op.modified /\ op.on = "active"
      <3>1. disk_l1'[i] = l1[i]
        BY <1>20, <1>1, <2>1, <1>18 DEF Equal
      <3>2. Tree(file, l1, l1_size)
        BY DEF IInv, Trees, Owners, TableOf, EntriesOf
      <3>3. Unflagged(l1[i])
        BY <3>2, <1>20 DEF Tree, Sound
      <3>4. First = 0 /\ Last = L1Max
        BY <1>20 DEF First, Last
      <3>5. l1[i].host # 0 => i \in Used(l1, l1_size) /\ First <= i /\ i < Last
        BY <1>20, <3>4, Constants DEF Used
      <3>6. l1[i].host # 0 => Own(l1[i])
        BY <3>5 DEF IInv, Exclusive
      <3> QED
        BY <3>1, <3>3, <3>6 DEF Own
    <2>2. CASE ~(op.modified /\ op.on = "active")
      <3>1. drift' = drift /\ disk_l1' = disk_l1 /\ leaky' = leaky
        BY <1>1, <1>19, <2>2
      <3> QED
        BY <1>20, <3>1 DEF IInv, Synced
    <2> QED
      BY <2>1, <2>2
  <1>21. Synced'
    <2>1. ASSUME op.k \in {"create", "delete"}, ~(leaky' /\ drift')
          PROVE  Equal'
      BY <2>1, <1>1, <1>18, <1>19 DEF IInv, Synced
    <2>2. ASSUME op.k = "goto", op.step = "refs2"
          PROVE  Equal'
      <3>1. op.on = "active"
        BY <2>2 DEF IInv, Shape, GotoShape
      <3> QED
        BY <2>2, <3>1, <1>18, <1>19 DEF IInv, Synced
    <2>3. ASSUME op.k = "create", op.step = "refs", ~(leaky' /\ drift')
          PROVE  \A i \in L1Index : i < l1_size =>
                    /\ disk_l1'[i].host = l1[i].host
                    /\ Unflagged(disk_l1'[i])
                    /\ disk_l1'[i].host # 0 /\ disk_l1'[i].copied =>
                          Holders(l1[i].host) \subseteq {NoId, op.id}
      BY <2>3, <1>20
    <2> QED
      BY <1>1, <1>2, <1>4, <1>13, <2>1, <2>2, <2>3 DEF Synced
  <1>22. Written'
    BY <1>1, <1>4, <1>13, <1>14 DEF IInv, Written, InRefs
  <1>23. Listing'
    <2>1. op.step # "count" /\ op.step # "list"
      BY <1>1 DEF InRefs
    <2> QED
      BY <1>1, <1>4, <2>1 DEF IInv, Listing
  <1> QED
    BY <1>7, <1>8, <1>13, <1>16, <1>17, <1>21, <1>22, <1>23 DEF IInv
-----------------------------------------------------------------------------
(* UpdateTable.                                                            *)

LEMMA UpdateSkips ==
    ASSUME IInv, UpdateTable, Table[op.i].host = 0
    PROVE  IInv'
  <1>1. /\ InRefs /\ op.i < Size
        /\ op' = [op EXCEPT !.i = op.i + 1]
        /\ UNCHANGED <<rc, file, l1, l1_size, snaps, disk_l1, disk_l1_size,
                       disk_rc, disk_snaps, disk_nb, snap_l1, image, saved,
                       drift, leaky>>
    BY DEF UpdateTable, diskVars, history
  <1>2. /\ op.on \in {"active", "snapshot"} /\ op.k # "idle" /\ op.id \in Ids
        /\ op.on = "active" => Table = l1 /\ Size = l1_size
        /\ Size \in 0..L1Max /\ op.i \in Nat
    BY <1>1, PassFacts
  <1>3. op \in Operation /\ op.i + 1 \in 0..(L1Max + 1)
    BY <1>1, <1>2, L1Assumption DEF IInv, Types
  <1>4. /\ op'.step = op.step /\ op'.k = op.k /\ op'.id = op.id
        /\ op'.on = op.on /\ op'.addend = op.addend /\ op'.i = op.i + 1
        /\ op'.tab = op.tab /\ op'.modified = op.modified
        /\ op' \in Operation
    BY <1>1, <1>3 DEF Operation
  <1>5. Types'
    BY <1>1, <1>4 DEF IInv, Types
  <1>6. /\ \A o : Listed(o)' <=> Listed(o)
        /\ \A o : SizeOf(o)' = SizeOf(o)
        /\ Distinct'
    BY <1>1, ListFrame DEF IInv
  <1>7. op.i \notin Used(Table, Size)
    BY DEF Used
  <1>8. ASSUME NEW id \in Ids, Listed(id)
        PROVE  Same(file, snap_l1[id], file, snap_l1'[id], SizeOf(id))
    <2>1. id \in Owners /\ id # NoId
      BY <1>8, Constants DEF Owners
    <2>2. Tree(file, snap_l1[id], SizeOf(id))
      BY <2>1 DEF IInv, Trees, TableOf, EntriesOf
    <2> QED
      BY <1>1, <2>2, SameRefl
  <1>9. /\ Trees' /\ Counts' /\ Exclusive' /\ Exact' /\ Contents'
        /\ \A h : Holders(h)' = Holders(h)
    BY <1>1, <1>4, <1>7, <1>8, SkipKeeps
  <1>10. Size' = Size /\ (InRefs' <=> InRefs)
    BY <1>1, <1>4, <1>6 DEF Size, InRefs
  <1>11. op.i + 1 <= Size + 1 /\ op.i + 1 <= Size /\ op.i <= Size
    BY <1>1, <1>2, L1Assumption
  <1>12. Shape'
    <2>1. op'.i <= Size' + 1
      BY <1>4, <1>10, <1>11
    <2> QED
      BY <1>1, <1>2, <1>4, <1>6, <2>1
         DEF IInv, Shape, CreateShape, GotoShape, DeleteShape, InRefs
  <1>13. SameSize'
    BY <1>1 DEF IInv, SameSize
  <1>14. Synced'
    <2>1. Equal' <=> Equal
      BY <1>1 DEF Equal
    <2>2. op'.i <= Size' /\ op.i <= Size
      BY <1>4, <1>10, <1>11
    <2> QED
      BY <1>1, <1>4, <1>9, <1>10, <2>1, <2>2 DEF IInv, Synced
  <1>15. Written'
    BY <1>1, <1>4, <1>9, <1>10 DEF IInv, Written
  <1>16. Listing'
    BY <1>1, <1>4 DEF IInv, Listing
  <1> QED
    BY <1>5, <1>6, <1>9, <1>12, <1>13, <1>14, <1>15, <1>16 DEF IInv

\* The tree whose entries the pass goes over.
PassOwner == IF op.on = "active" THEN NoId ELSE op.id

LEMMA PassOwnerFacts ==
    ASSUME IInv, InRefs
    PROVE  /\ PassOwner \in Owners /\ EntriesOf(PassOwner) = Size
           /\ op.on = "active" => TableOf(PassOwner) = Table
           /\ \A i \in L1Index : TableOf(PassOwner)[i].host = Table[i].host
           /\ Used(TableOf(PassOwner), Size) = Used(Table, Size)
           /\ Tree(file, TableOf(PassOwner), Size)
           /\ Table \in L1Tables
           /\ \A i \in L1Index : i < Size => Unflagged(Table[i])
  <1>1. /\ op.on \in {"active", "snapshot"} /\ op.id \in Ids /\ op.id # NoId
        /\ op.on = "active" => Table = l1 /\ Size = l1_size
        /\ op.on = "snapshot" => Table = op.tab /\ Size = SizeOf(op.id) /\ Listed(op.id)
    BY PassFacts, Constants
  <1>2. PassOwner \in Owners /\ EntriesOf(PassOwner) = Size
    BY <1>1 DEF PassOwner, Owners, EntriesOf
  <1>3. op.on = "active" => TableOf(PassOwner) = Table
    BY <1>1 DEF PassOwner, TableOf
  <1>4. op.on = "snapshot" => TableOf(PassOwner) = snap_l1[op.id]
    BY <1>1 DEF PassOwner, TableOf
  <1>5. op.on = "snapshot" =>
           \A i \in L1Index : /\ op.tab[i].host = snap_l1[op.id][i].host
                              /\ i < SizeOf(op.id) => Unflagged(op.tab[i])
    BY DEF IInv, Shape
  <1>6. \A i \in L1Index : TableOf(PassOwner)[i].host = Table[i].host
    BY <1>1, <1>3, <1>4, <1>5
  <1>7. Used(TableOf(PassOwner), Size) = Used(Table, Size)
    BY <1>6 DEF Used
  <1>8. Tree(file, TableOf(PassOwner), Size)
    BY <1>2 DEF IInv, Trees
  <1>9. Table \in L1Tables
    BY <1>1 DEF IInv, Types, Operation
  <1>10. \A i \in L1Index : i < Size => Unflagged(Table[i])
    BY <1>1, <1>3, <1>5, <1>8 DEF Tree, Sound
  <1> QED
    BY <1>2, <1>3, <1>6, <1>7, <1>8, <1>9, <1>10

\* At most one entry of an L2 table refers to a cluster.
LEMMA EntryCount ==
    ASSUME NEW t, NEW h,
           \A j, j2 \in L2Index : t[j].host = h /\ t[j2].host = h => j = j2
    PROVE  Cardinality({j \in L2Index : t[j].host = h})
             = IF \E j \in L2Index : t[j].host = h THEN 1 ELSE 0
  <1> DEFINE J == {j \in L2Index : t[j].host = h}
  <1>1. CASE \E j \in L2Index : t[j].host = h
    <2>1. PICK j \in L2Index : t[j].host = h
      BY <1>1
    <2>2. J = {j}
      BY <2>1
    <2>3. Cardinality(J) = 1
      BY <2>2, FS_Singleton
    <2> QED
      BY <1>1, <2>3
  <1>2. CASE ~\E j \in L2Index : t[j].host = h
    <2>1. J = {}
      BY <1>2
    <2> QED
      BY <1>2, <2>1, FS_EmptySet
  <1> QED
    BY <1>1, <1>2

\* The refcounts after one entry.
LEMMA CountFacts ==
    ASSUME IInv, InRefs, op.i < Size, Table[op.i].host # 0,
           NEW e, e = Table[op.i], NEW count,
           count = CountTable(file[e.host], e.host)
    PROVE  /\ op.i \in L1Index /\ op.i \in Used(Table, Size)
           /\ e \in Entries /\ e.host \in Host
           /\ file[e.host] \in L2Tables
           /\ \A j \in L2Index : Unflagged(file[e.host][j])
           /\ count = [h \in Host |-> count[h]]
           /\ \A h \in Host : count[h] = IF Covers(file, e, h)
                                         THEN rc[h] + op.addend ELSE rc[h]
           /\ op.addend \in {-1, 0, 1}
  <1>1. /\ Size \in 0..L1Max /\ op.i \in Nat
    BY PassFacts
  <1>2. op.i \in L1Index
    BY <1>1, L1Assumption DEF L1Index
  <1>3. op.i \in Used(Table, Size)
    BY <1>2 DEF Used
  <1>4. e \in Entries
    BY <1>2, PassOwnerFacts DEF L1Tables
  <1>5. e.host \in Host
    BY <1>4, HAssumption DEF Entries, Host
  <1>6. /\ file[e.host] \in L2Tables
        /\ \A j \in L2Index : Unflagged(file[e.host][j])
    <2>1. /\ Sound(file, TableOf(PassOwner), Size)
          /\ op.i \in Used(TableOf(PassOwner), Size)
          /\ TableOf(PassOwner)[op.i].host = e.host
      BY <1>2, <1>3, PassOwnerFacts DEF Tree
    <2> QED
      BY <2>1 DEF Sound
  <1>7. \A j, j2 \in L2Index : \A h \in Host :
            file[e.host][j].host = h /\ file[e.host][j2].host = h => j = j2
    <2>1. /\ Injective(file, TableOf(PassOwner), Size)
          /\ op.i \in Used(TableOf(PassOwner), Size)
          /\ TableOf(PassOwner)[op.i].host = e.host
      BY <1>2, <1>3, PassOwnerFacts DEF Tree
    <2>2. \A h \in Host : h # 0
      BY HAssumption DEF Host
    <2> QED
      BY <2>1, <2>2 DEF Injective
  <1>8. \A j \in L2Index : file[e.host][j].host # e.host
    <2>1. /\ Apart(file, TableOf(PassOwner), Size, TableOf(PassOwner), Size)
          /\ op.i \in Used(TableOf(PassOwner), Size)
          /\ TableOf(PassOwner)[op.i].host = e.host
      BY <1>2, <1>3, PassOwnerFacts DEF IInv, Trees
    <2> QED
      BY <2>1 DEF Apart
  <1>9. op.addend \in {-1, 0, 1} /\ rc \in [Host -> Nat]
    <2>1. IInv
      OBVIOUS
    <2>2. op \in Operation /\ rc \in [Host -> Nat]
      BY ONLY <2>1 DEF IInv, Types
    <2> QED
      BY ONLY <2>2 DEF Operation
  <1>10. count = [h \in Host |-> count[h]]
    <2>1. PICK t, at : count = CountTable(t, at)
      OBVIOUS
    <2> QED
      BY ONLY <2>1 DEF CountTable, CountData
  <1>11. ASSUME NEW h \in Host
         PROVE  count[h] = IF Covers(file, e, h) THEN rc[h] + op.addend ELSE rc[h]
    <2>1. PICK n : n = Cardinality({j \in L2Index : file[e.host][j].host = h})
      OBVIOUS
    <2>2. n = IF \E j \in L2Index : file[e.host][j].host = h THEN 1 ELSE 0
      <3>1. h \in Host
        OBVIOUS
      <3>2. PICK t : t = file[e.host]
        OBVIOUS
      <3>3. \A j, j2 \in L2Index : t[j].host = h /\ t[j2].host = h => j = j2
        BY ONLY <1>7, <3>1, <3>2
      <3>4. Cardinality({j \in L2Index : t[j].host = h})
              = IF \E j \in L2Index : t[j].host = h THEN 1 ELSE 0
        BY ONLY <3>3, EntryCount
      <3> QED
        BY ONLY <2>1, <3>2, <3>4
    <2>3. CountData(file[e.host])[h] = rc[h] + op.addend * n
      BY <2>1 DEF CountData
    <2>4. count[h] = IF h = e.host THEN CountData(file[e.host])[h] + op.addend
                     ELSE CountData(file[e.host])[h]
      BY <1>5 DEF CountTable, CountData
    <2>5. rc[h] \in Int /\ op.addend \in Int
      BY <1>9
    <2>6. CASE h = e.host
      <3>1. n = 0 /\ Covers(file, e, h)
        BY <2>2, <2>6, <1>8 DEF Covers
      <3> QED
        BY <2>3, <2>4, <2>5, <2>6, <3>1
    <2>7. CASE h # e.host /\ Covers(file, e, h)
      <3>1. n = 1
        BY <2>2, <2>7 DEF Covers
      <3> QED
        BY <2>3, <2>4, <2>5, <2>7, <3>1
    <2>8. CASE h # e.host /\ ~Covers(file, e, h)
      <3>1. n = 0
        BY <2>2, <2>8 DEF Covers
      <3> QED
        BY <2>3, <2>4, <2>5, <2>8, <3>1
    <2> QED
      BY <2>6, <2>7, <2>8 DEF Covers
  <1> QED
    BY <1>2, <1>3, <1>4, <1>5, <1>6, <1>9, <1>10, <1>11

\* The entry that is updated, and the refcounts after it.
Entry == Table[op.i]
Counted == CountTable(file[Entry.host], Entry.host)

LEMMA ReflagFacts ==
    ASSUME NEW e, NEW count
    PROVE  /\ Reflag(e, count).host = e.host
           /\ Unflagged(e) => Unflagged(Reflag(e, count))
           /\ e \in Entries => Reflag(e, count) \in Entries
           /\ e.host # 0 => (Reflag(e, count).copied <=> count[e.host] = 1)
  <1>1. CASE e.host = 0
    BY <1>1 DEF Reflag
  <1>2. CASE e.host # 0
    <2>1. Reflag(e, count) = [host |-> e.host, copied |-> (count[e.host] = 1)]
      BY <1>2 DEF Reflag, Flag
    <2>2. /\ Reflag(e, count).host = e.host
          /\ Reflag(e, count).copied = (count[e.host] = 1)
      BY <2>1
    <2>3. e \in Entries => Reflag(e, count) \in Entries
      BY <2>1 DEF Entries
    <2>4. Reflag(e, count).copied <=> count[e.host] = 1
      BY <2>2
    <2> QED
      BY <1>2, <2>2, <2>3, <2>4 DEF Unflagged
  <1> QED
    BY <1>1, <1>2

LEMMA UpdateFacts ==
    ASSUME IInv, UpdateTable, Table[op.i].host # 0
    PROVE  /\ InRefs /\ op.i < Size /\ Entry.host # 0
           /\ UNCHANGED <<l1_size, snaps, disk_l1, disk_l1_size, disk_rc,
                          disk_snaps, disk_nb, snap_l1, image, saved, drift, leaky>>
           /\ rc' = Counted
           /\ file' = [file EXCEPT ![Entry.host] =
                         [j \in L2Index |-> Reflag(file[Entry.host][j], Counted)]]
           /\ l1' = IF op.on = "active"
                    THEN [l1 EXCEPT ![op.i] = Reflag(Entry, Counted)] ELSE l1
           /\ op' = [op EXCEPT !.i = op.i + 1,
                               !.tab = [op.tab EXCEPT ![op.i] = Reflag(Entry, Counted)],
                               !.modified = op.modified \/ Reflag(Entry, Counted) # Entry]
  BY DEF UpdateTable, diskVars, history, Entry, Counted

LEMMA UpdateOp ==
    ASSUME IInv, UpdateTable, Table[op.i].host # 0
    PROVE  /\ op'.step = op.step /\ op'.k = op.k /\ op'.id = op.id
           /\ op'.on = op.on /\ op'.addend = op.addend /\ op'.i = op.i + 1
           /\ op'.tab = [op.tab EXCEPT ![op.i] = Reflag(Entry, Counted)]
           /\ op'.modified = (op.modified \/ Reflag(Entry, Counted) # Entry)
           /\ op' \in Operation
           /\ op.i \in L1Index /\ op.i + 1 <= Size /\ op.i <= Size /\ op.i \in Nat
  <1>1. op \in Operation
    BY DEF IInv, Types
  <1>2. /\ Entry \in Entries /\ op.i \in L1Index
    BY CountFacts, UpdateFacts DEF Entry
  <1>3. /\ Size \in 0..L1Max /\ op.i \in Nat /\ op.i < Size
    BY UpdateFacts, PassFacts
  <1>4. op.i + 1 <= Size /\ op.i + 1 \in 0..(L1Max + 1) /\ op.i <= Size
    BY <1>3, L1Assumption
  <1>5. Reflag(Entry, Counted) \in Entries
    BY <1>2, ReflagFacts
  <1>6. op.tab \in L1Tables
    BY <1>1 DEF Operation
  <1>7. [op.tab EXCEPT ![op.i] = Reflag(Entry, Counted)] \in L1Tables
    BY <1>2, <1>5, <1>6 DEF L1Tables
  <1>8. (op.modified \/ Reflag(Entry, Counted) # Entry) \in BOOLEAN
    OBVIOUS
  <1>9. PICK m, tb : /\ m = (op.modified \/ Reflag(Entry, Counted) # Entry)
                     /\ tb = [op.tab EXCEPT ![op.i] = Reflag(Entry, Counted)]
    OBVIOUS
  <1>10. op' = [op EXCEPT !.i = op.i + 1, !.tab = tb, !.modified = m]
    BY <1>9, UpdateFacts
  <1>11. m \in BOOLEAN /\ tb \in L1Tables
    BY <1>7, <1>8, <1>9
  <1>12. /\ op'.step = op.step /\ op'.k = op.k /\ op'.id = op.id
         /\ op'.on = op.on /\ op'.addend = op.addend /\ op'.i = op.i + 1
         /\ op'.tab = tb /\ op'.modified = m
         /\ op' \in Operation
    BY <1>1, <1>4, <1>10, <1>11 DEF Operation
  <1> QED
    BY <1>2, <1>3, <1>4, <1>9, <1>12

LEMMA UpdateSame ==
    ASSUME IInv, UpdateTable, Table[op.i].host # 0
    PROVE  \A o \in Owners :
               Same(file, TableOf(o), file', TableOf(o)', EntriesOf(o))
  <1>1. /\ InRefs /\ op.i < Size
        /\ snap_l1' = snap_l1
        /\ file' = [file EXCEPT ![Entry.host] =
                      [j \in L2Index |-> Reflag(file[Entry.host][j], Counted)]]
        /\ l1' = IF op.on = "active"
                 THEN [l1 EXCEPT ![op.i] = Reflag(Entry, Counted)] ELSE l1
    BY UpdateFacts
  <1>2. /\ Entry.host \in Host /\ op.i \in L1Index /\ Entry \in Entries
        /\ file[Entry.host] \in L2Tables
        /\ \A j \in L2Index : Unflagged(file[Entry.host][j])
        /\ op.i \in Used(Table, Size)
    BY <1>1, CountFacts DEF Entry
  <1>3. file \in [Host -> Content] /\ l1 \in L1Tables
    BY DEF IInv, Types
  <1>4. \A h : h # Entry.host => file'[h] = file[h]
    BY <1>1, <1>3
  <1>5. /\ file'[Entry.host] \in L2Tables
        /\ \A j \in L2Index : /\ file'[Entry.host][j].host = file[Entry.host][j].host
                              /\ Unflagged(file'[Entry.host][j])
    <2>1. file'[Entry.host] = [j \in L2Index |-> Reflag(file[Entry.host][j], Counted)]
      BY <1>1, <1>2, <1>3
    <2>2. \A j \in L2Index : file[Entry.host][j] \in Entries
      BY <1>2 DEF L2Tables
    <2> QED
      BY <1>2, <2>1, <2>2, ReflagFacts DEF L2Tables
  <1>6. \A i \in L1Index : i < l1_size =>
           l1'[i].host = l1[i].host /\ Unflagged(l1'[i])
    <2>1. Tree(file, l1, l1_size)
      BY DEF IInv, Trees, Owners, TableOf, EntriesOf
    <2>2. \A i \in L1Index : i < l1_size => Unflagged(l1[i])
      BY <2>1 DEF Tree, Sound
    <2>3. CASE op.on = "active"
      <3>1. Table = l1 /\ Entry = l1[op.i]
        BY <2>3 DEF Table, Entry
      <3>2. l1' = [l1 EXCEPT ![op.i] = Reflag(l1[op.i], Counted)]
        BY <1>1, <2>3, <3>1
      <3>3. \A i \in L1Index : l1'[i] = l1[i] \/ l1'[i] = Reflag(l1[i], Counted)
        BY <1>2, <1>3, <3>2 DEF L1Tables
      <3> QED
        BY <2>2, <3>3, ReflagFacts
    <2>4. CASE op.on # "active"
      BY <1>1, <2>2, <2>4
    <2> QED
      BY <2>3, <2>4
  <1>7. ASSUME NEW o \in Owners
        PROVE  Same(file, TableOf(o), file', TableOf(o)', EntriesOf(o))
    <2> DEFINE t == TableOf(o)
               n == EntriesOf(o)
    <2>1. Tree(file, t, n)
      BY DEF IInv, Trees
    <2>2. Apart(file, TableOf(PassOwner), Size, t, n)
      BY <1>1, PassOwnerFacts DEF IInv, Trees
    <2>3. \A i \in L1Index : i < n => TableOf(o)'[i].host = t[i].host
                                        /\ Unflagged(TableOf(o)'[i])
      <3>1. CASE o = NoId
        BY <3>1, <1>6 DEF TableOf, EntriesOf
      <3>2. CASE o # NoId
        <4>1. TableOf(o)' = t
          BY <1>1, <3>2 DEF TableOf
        <4> QED
          BY <2>1, <4>1 DEF Tree, Sound
      <3> QED
        BY <3>1, <3>2
    <2>4. \A i \in Used(t, n), j \in L2Index : file[t[i].host][j].host # Entry.host
      <3>1. op.i \in Used(TableOf(PassOwner), Size)
            /\ TableOf(PassOwner)[op.i].host = Entry.host
        BY <1>1, <1>2, PassOwnerFacts DEF Entry
      <3> QED
        BY <2>2, <3>1 DEF Apart
    <2>5. \A i \in Used(t, n) : /\ file[t[i].host] \in L2Tables
                                /\ \A j \in L2Index : Unflagged(file[t[i].host][j])
      BY <2>1 DEF Tree, Sound
    <2>6. ASSUME NEW i \in Used(t, n)
          PROVE  /\ file'[t[i].host] \in L2Tables
                 /\ \A j \in L2Index :
                      /\ file'[t[i].host][j].host = file[t[i].host][j].host
                      /\ Unflagged(file'[t[i].host][j])
                      /\ file[t[i].host][j].host # 0 =>
                            file'[file[t[i].host][j].host] = file[file[t[i].host][j].host]
      <3>1. \A j \in L2Index : file'[file[t[i].host][j].host] = file[file[t[i].host][j].host]
        BY <2>4, <1>4
      <3>2. CASE t[i].host = Entry.host
        BY <1>5, <3>1, <3>2
      <3>3. CASE t[i].host # Entry.host
        BY <1>4, <2>5, <3>1, <3>3
      <3> QED
        BY <3>2, <3>3
    <2> HIDE DEF t, n
    <2>7. Same(file, t, file', TableOf(o)', n)
      BY <2>3, <2>6 DEF Same
    <2> QED
      BY <2>7 DEF t, n
  <1> QED
    BY <1>7

\* The tree that gains or loses references.
Token == IF op.k = "goto" THEN NoId ELSE op.id

LEMMA UpdateHold ==
    ASSUME IInv, UpdateTable, Table[op.i].host # 0, NEW tok, tok = Token
    PROVE  /\ tok \in Ids \cup {NoId}
           /\ \A o \in Ids \cup {NoId} : o # tok \/ op.addend = 0 => Hold(o)' = Hold(o)
           /\ op.addend = 1 => \A h \in Host :
                 /\ h \in Hold(tok)' <=> h \in Hold(tok) \/ Covers(file, Entry, h)
                 /\ Covers(file, Entry, h) => h \notin Hold(tok)
           /\ op.addend = -1 => \A h \in Host :
                 /\ h \in Hold(tok) <=> h \in Hold(tok)' \/ Covers(file, Entry, h)
                 /\ Covers(file, Entry, h) => h \notin Hold(tok)'
  <1>1. /\ InRefs /\ op.i < Size /\ Entry.host # 0
        /\ UNCHANGED <<l1_size, snaps, snap_l1>>
    BY UpdateFacts
  <1>2. /\ op'.step = op.step /\ op'.k = op.k /\ op'.id = op.id
        /\ op'.on = op.on /\ op'.addend = op.addend /\ op'.i = op.i + 1
    BY UpdateOp
  <1>3. /\ \A o : Listed(o)' <=> Listed(o)
        /\ \A o : SizeOf(o)' = SizeOf(o)
    BY <1>1, ListFrame
  <1>4. /\ \A lo, hi : Part(file', l1', l1_size, lo, hi)
                         = Part(file, l1, l1_size, lo, hi)
        /\ \A id \in Ids : Listed(id) =>
             \A lo, hi : Part(file', snap_l1'[id], SizeOf(id), lo, hi)
                           = Part(file, snap_l1[id], SizeOf(id), lo, hi)
    BY <1>1, UpdateSame, TreesSame
  <1>5. /\ op.on \in {"active", "snapshot"} /\ op.k # "idle" /\ op.id \in Ids
        /\ op.id # NoId /\ op \in Operation
        /\ op.on = "active" => Table = l1 /\ Size = l1_size
        /\ op.on = "snapshot" =>
             /\ Table = op.tab /\ Size = SizeOf(op.id) /\ Listed(op.id)
             /\ op.k = "delete" /\ op.step = "refs"
        /\ op.k = "delete" /\ op.step = "refs" => op.on = "snapshot"
        /\ Size \in 0..L1Max
    BY <1>1, PassFacts, Constants DEF IInv, Types
  <1>6. op.i \in L1Index
    BY UpdateOp
  <1>7. \A h : Covers(file, TableOf(PassOwner)[op.i], h) <=> Covers(file, Entry, h)
    BY <1>1, <1>6, PassOwnerFacts DEF Covers, Entry
  <1>8. ASSUME NEW h \in Host
        PROVE  LET t == TableOf(PassOwner) IN
               /\ h \in Part(file, t, Size, 0, op.i + 1)
                    <=> h \in Part(file, t, Size, 0, op.i) \/ Covers(file, Entry, h)
               /\ h \in Part(file, t, Size, op.i, L1Max)
                    <=> h \in Part(file, t, Size, op.i + 1, L1Max)
                          \/ Covers(file, Entry, h)
               /\ Covers(file, Entry, h) =>
                    /\ h \notin Part(file, t, Size, 0, op.i)
                    /\ h \notin Part(file, t, Size, op.i + 1, L1Max)
    <2>1. /\ Tree(file, TableOf(PassOwner), Size)
          /\ Apart(file, TableOf(PassOwner), Size, TableOf(PassOwner), Size)
          /\ TableOf(PassOwner)[op.i].host # 0
      BY <1>1, <1>6, PassOwnerFacts DEF IInv, Trees, Entry
    <2> QED
      BY <1>1, <1>5, <1>6, <1>7, <2>1, PartStep
  <1>9. tok \in Ids \cup {NoId}
    BY <1>5 DEF Token
  <1>10. ASSUME NEW o \in Ids, o # op.id
         PROVE  Hold(o)' = Hold(o)
    <2>1. HeldByNew(o)' = HeldByNew(o)
      BY <1>2, <1>10 DEF HeldByNew
    <2>2. Listed(o) => HeldByOld(o)' = HeldByOld(o)
      BY <1>2, <1>3, <1>4, <1>10 DEF HeldByOld
    <2> QED
      BY <1>3, <2>1, <2>2, Constants DEF Hold
  <1>11. op.k # "goto" => Hold(NoId)' = Hold(NoId)
    BY <1>1, <1>2, <1>4 DEF Hold, First, Last
  <1>12. CASE op.k = "create"
    <2>1. /\ op.step = "refs" /\ op.addend = 1 /\ op.on = "active" /\ ~Listed(op.id)
      BY <1>1, <1>12 DEF IInv, Shape, CreateShape, InRefs
    <2>2. /\ tok = op.id /\ PassOwner = NoId /\ TableOf(NoId) = l1 /\ Size = l1_size
      BY <1>5, <1>12, <2>1 DEF Token, PassOwner, TableOf
    <2>3. Hold(tok) = Part(file, l1, l1_size, 0, op.i)
      BY <1>5, <1>12, <2>1, <2>2 DEF Hold, HeldByNew
    <2>4. Hold(tok)' = Part(file, l1, l1_size, 0, op.i + 1)
      BY <1>1, <1>2, <1>3, <1>4, <1>5, <1>12, <2>1, <2>2 DEF Hold, HeldByNew
    <2>6. \A o \in Ids \cup {NoId} : o # tok => Hold(o)' = Hold(o)
      BY <1>10, <1>11, <1>12, <2>2
    <2>7. \A h \in Host :
            /\ h \in Hold(tok)' <=> h \in Hold(tok) \/ Covers(file, Entry, h)
            /\ Covers(file, Entry, h) => h \notin Hold(tok)
      BY <1>8, <2>2, <2>3, <2>4
    <2> QED
      BY <1>9, <2>1, <2>6, <2>7
  <1>13. CASE op.k = "goto"
    <2>1. /\ op.on = "active" /\ Listed(op.id)
          /\ \/ op.step = "refs" /\ op.addend = -1
             \/ op.step = "refs2" /\ op.addend = 1
      BY <1>1, <1>13 DEF IInv, Shape, GotoShape, InRefs
    <2>2. /\ tok = NoId /\ PassOwner = NoId /\ TableOf(NoId) = l1 /\ Size = l1_size
      BY <1>5, <1>13, <2>1 DEF Token, PassOwner, TableOf
    <2>3. ASSUME NEW o, o = op.id
          PROVE  Hold(o)' = Hold(o)
      BY <1>2, <1>3, <1>4, <1>5, <1>13, <2>1, <2>3 DEF Hold, HeldByOld
    <2>4. \A o \in Ids \cup {NoId} : o # tok => Hold(o)' = Hold(o)
      BY <1>10, <2>2, <2>3
    <2>6. CASE op.step = "refs"
      <3>1. /\ Hold(tok) = Part(file, l1, l1_size, op.i, L1Max)
            /\ Hold(tok)' = Part(file, l1, l1_size, op.i + 1, L1Max)
        BY <1>1, <1>2, <1>4, <1>13, <2>2, <2>6 DEF Hold, First, Last
      <3>2. op.addend = -1
        BY <2>1, <2>6
      <3>3. \A h \in Host :
              /\ h \in Hold(tok) <=> h \in Hold(tok)' \/ Covers(file, Entry, h)
              /\ Covers(file, Entry, h) => h \notin Hold(tok)'
        BY <1>8, <2>2, <3>1
      <3> QED
        BY <1>9, <2>4, <3>2, <3>3
    <2>7. CASE op.step = "refs2"
      <3>1. /\ Hold(tok) = Part(file, l1, l1_size, 0, op.i)
            /\ Hold(tok)' = Part(file, l1, l1_size, 0, op.i + 1)
        BY <1>1, <1>2, <1>4, <1>13, <2>2, <2>7 DEF Hold, First, Last
      <3>2. op.addend = 1
        BY <2>1, <2>7
      <3>3. \A h \in Host :
              /\ h \in Hold(tok)' <=> h \in Hold(tok) \/ Covers(file, Entry, h)
              /\ Covers(file, Entry, h) => h \notin Hold(tok)
        BY <1>8, <2>2, <3>1
      <3> QED
        BY <1>9, <2>4, <3>2, <3>3
    <2> QED
      BY <2>1, <2>6, <2>7
  <1>14. CASE op.k = "delete"
    <2>1. /\ tok = op.id
      BY <1>14 DEF Token
    <2>2. /\ Listed(op.id)
          /\ \/ op.step = "refs" /\ op.addend = -1 /\ op.on = "snapshot"
             \/ op.step = "refs2" /\ op.addend = 0
      BY <1>1, <1>14 DEF IInv, Shape, DeleteShape, InRefs
    <2>3. \A o \in Ids \cup {NoId} : o # tok => Hold(o)' = Hold(o)
      BY <1>10, <1>11, <1>14, <2>1
    <2>5. CASE op.step = "refs"
      <3>1. PassOwner = op.id /\ TableOf(op.id) = snap_l1[op.id] /\ Size = SizeOf(op.id)
        BY <1>5, <1>14, <2>5 DEF PassOwner, TableOf
      <3>2. /\ Hold(tok) = Part(file, snap_l1[op.id], SizeOf(op.id), op.i, L1Max)
            /\ Hold(tok)' = Part(file, snap_l1[op.id], SizeOf(op.id), op.i + 1, L1Max)
        BY <1>1, <1>2, <1>3, <1>4, <1>5, <1>14, <2>1, <2>2, <2>5 DEF Hold, HeldByOld
      <3>3. op.addend = -1
        BY <2>2, <2>5
      <3>4. \A h \in Host :
              /\ h \in Hold(tok) <=> h \in Hold(tok)' \/ Covers(file, Entry, h)
              /\ Covers(file, Entry, h) => h \notin Hold(tok)'
        BY <1>8, <2>1, <3>1, <3>2
      <3> QED
        BY <1>9, <2>3, <3>3, <3>4
    <2>6. CASE op.step = "refs2"
      <3>1. Hold(tok) = {} /\ Hold(tok)' = {}
        BY <1>2, <1>3, <1>5, <1>14, <2>1, <2>2, <2>6 DEF Hold, HeldByOld
      <3>2. op.addend = 0
        BY <2>2, <2>6
      <3> QED
        BY <1>9, <2>1, <2>3, <3>1, <3>2
    <2> QED
      BY <2>2, <2>5, <2>6
  <1>15. op.k \in {"create", "goto", "delete"}
    BY <1>5 DEF Operation
  <1> QED
    BY <1>12, <1>13, <1>14, <1>15

LEMMA UpdateCounts ==
    ASSUME IInv, UpdateTable, Table[op.i].host # 0, NEW tok, tok = Token
    PROVE  /\ rc' \in [Host -> Nat]
           /\ Counts'
           /\ \A h \in Host : ~Covers(file, Entry, h) =>
                 Holders(h)' = Holders(h) /\ rc'[h] = rc[h]
           /\ op.addend \in {-1, 0, 1}
           /\ op.addend # 1 => \A h \in Host : Holders(h)' \subseteq Holders(h)
           /\ \A h \in Host : Holders(h)' \ {tok} = Holders(h) \ {tok}
  <1>1. /\ op.addend \in {-1, 0, 1} /\ rc' = Counted /\ leaky' = leaky
        /\ Counted = [h \in Host |-> Counted[h]]
        /\ \A h \in Host : Counted[h] = IF Covers(file, Entry, h)
                                        THEN rc[h] + op.addend ELSE rc[h]
    BY UpdateFacts, CountFacts DEF Entry, Counted
  <1>2. ASSUME NEW h \in Host
        PROVE  /\ rc'[h] \in Nat
               /\ Cardinality(Holders(h)') <= rc'[h]
               /\ ~leaky => Cardinality(Holders(h)') = rc'[h]
               /\ ~Covers(file, Entry, h) => Holders(h)' = Holders(h) /\ rc'[h] = rc[h]
               /\ op.addend # 1 => Holders(h)' \subseteq Holders(h)
               /\ Holders(h)' \ {tok} = Holders(h) \ {tok}
    <2>1. /\ IsFiniteSet(Holders(h)) /\ rc[h] \in Nat
          /\ Cardinality(Holders(h)) <= rc[h]
          /\ ~leaky => Cardinality(Holders(h)) = rc[h]
      BY HoldersFinite DEF IInv, Types, Counts
    <2>2. Cardinality(Holders(h)) \in Nat
      BY <2>1, FS_CardinalityType
    <2>3. /\ tok \in Ids \cup {NoId}
          /\ \A o \in Ids \cup {NoId} : o # tok \/ op.addend = 0 => Hold(o)' = Hold(o)
          /\ op.addend = 1 =>
               /\ h \in Hold(tok)' <=> h \in Hold(tok) \/ Covers(file, Entry, h)
               /\ Covers(file, Entry, h) => h \notin Hold(tok)
          /\ op.addend = -1 =>
               /\ h \in Hold(tok) <=> h \in Hold(tok)' \/ Covers(file, Entry, h)
               /\ Covers(file, Entry, h) => h \notin Hold(tok)'
      BY UpdateHold
    <2>4. \A o : o \in Holders(h)' <=> o \in Ids \cup {NoId} /\ h \in Hold(o)'
      BY DEF Holders
    <2>5. \A o : o \in Holders(h) <=> o \in Ids \cup {NoId} /\ h \in Hold(o)
      BY DEF Holders
    <2>6. Holders(h)' \ {tok} = Holders(h) \ {tok}
      BY <2>3, <2>4, <2>5
    <2>7. CASE op.addend = 0 \/ ~Covers(file, Entry, h)
      <3>1. Holders(h)' = Holders(h)
        <4>1. ASSUME NEW o \in Ids \cup {NoId}
              PROVE  h \in Hold(o)' <=> h \in Hold(o)
          <5>1. CASE o # tok \/ op.addend = 0
            BY <2>3, <5>1
          <5>2. CASE o = tok /\ op.addend # 0
            BY <1>1, <2>3, <2>7, <5>2
          <5> QED
            BY <5>1, <5>2
        <4> QED
          BY <2>4, <2>5, <4>1
      <3>2. rc'[h] = rc[h]
        BY <1>1, <2>1, <2>7
      <3> QED
        BY <2>1, <2>6, <3>1, <3>2
    <2>8. CASE op.addend = 1 /\ Covers(file, Entry, h)
      <3>1. Holders(h)' = Holders(h) \cup {tok} /\ tok \notin Holders(h)
        BY <2>3, <2>4, <2>5, <2>8
      <3>2. rc'[h] = rc[h] + 1
        BY <1>1, <2>8
      <3>3. Cardinality(Holders(h)') = Cardinality(Holders(h)) + 1
        BY <2>1, <3>1, FS_AddElement
      <3> QED
        BY <2>1, <2>2, <2>6, <2>8, <3>2, <3>3
    <2>9. CASE op.addend = -1 /\ Covers(file, Entry, h)
      <3>1. Holders(h)' = Holders(h) \ {tok} /\ tok \in Holders(h)
        BY <2>3, <2>4, <2>5, <2>9
      <3>2. rc'[h] = rc[h] - 1
        BY <1>1, <2>1, <2>9
      <3>3. Cardinality(Holders(h)') = Cardinality(Holders(h)) - 1
        BY <2>1, <3>1, FS_RemoveElement
      <3>4. Cardinality(Holders(h)) # 0
        BY <2>1, <3>1, FS_EmptySet
      <3> QED
        BY <2>1, <2>2, <2>6, <2>9, <3>1, <3>2, <3>3, <3>4
    <2> QED
      BY <1>1, <2>7, <2>8, <2>9
  <1>3. rc' \in [Host -> Nat]
    BY <1>1, <1>2
  <1>4. Counts'
    BY <1>1, <1>2 DEF Counts
  <1> QED
    BY <1>1, <1>2, <1>3, <1>4

\* What the active tree reaches in its counted part, it holds.
LEMMA ActiveHolds == Types /\ Trees =>
    \A i \in Used(l1, l1_size) : First <= i /\ i < Last =>
        /\ l1[i].host \in Host /\ NoId \in Holders(l1[i].host)
        /\ file[l1[i].host] \in L2Tables
        /\ \A j \in L2Index : file[l1[i].host][j].host # 0 =>
              /\ file[l1[i].host][j].host \in Host
              /\ NoId \in Holders(file[l1[i].host][j].host)
  <1> SUFFICES ASSUME Types, Trees, NEW i \in Used(l1, l1_size), First <= i, i < Last
               PROVE  /\ l1[i].host \in Host /\ NoId \in Holders(l1[i].host)
                      /\ file[l1[i].host] \in L2Tables
                      /\ \A j \in L2Index : file[l1[i].host][j].host # 0 =>
                            /\ file[l1[i].host][j].host \in Host
                            /\ NoId \in Holders(file[l1[i].host][j].host)
    OBVIOUS
  <1>1. i \in L1Index /\ l1[i].host # 0 /\ l1[i] \in Entries
    BY DEF Used, Types, L1Tables
  <1>2. l1[i].host \in Host
    BY <1>1, HAssumption DEF Entries, Host
  <1>3. Tree(file, l1, l1_size)
    BY DEF Trees, Owners, TableOf, EntriesOf
  <1>4. file[l1[i].host] \in L2Tables
    BY <1>3 DEF Tree, Sound
  <1>5. \A j \in L2Index : file[l1[i].host][j] \in Entries
    BY <1>4 DEF L2Tables
  <1>6. \A j \in L2Index : file[l1[i].host][j].host # 0 => file[l1[i].host][j].host \in Host
    BY <1>5, HAssumption DEF Entries, Host
  <1>7. \A h \in Host : Covers(file, l1[i], h) => NoId \in Holders(h)
    BY DEF Holders, Hold, Part
  <1> QED
    BY <1>2, <1>4, <1>6, <1>7 DEF Covers

LEMMA ActiveHoldsNext ==
    ASSUME Types', Trees'
    PROVE  \A i \in Used(l1', l1_size') : First' <= i /\ i < Last' =>
             /\ l1'[i].host \in Host /\ NoId \in Holders(l1[i].host)'
             /\ file'[l1'[i].host] \in L2Tables
             /\ \A j \in L2Index : file'[l1'[i].host][j].host # 0 =>
                  /\ file'[l1'[i].host][j].host \in Host
                  /\ NoId \in Holders(file[l1[i].host][j].host)'
  <1>1. (Types /\ Trees =>
           \A i \in Used(l1, l1_size) : First <= i /\ i < Last =>
               /\ l1[i].host \in Host /\ NoId \in Holders(l1[i].host)
               /\ file[l1[i].host] \in L2Tables
               /\ \A j \in L2Index : file[l1[i].host][j].host # 0 =>
                     /\ file[l1[i].host][j].host \in Host
                     /\ NoId \in Holders(file[l1[i].host][j].host))'
    BY ActiveHolds, PTL
  <1>2. Used(l1, l1_size)' = Used(l1', l1_size')
    BY DEF Used
  <1> QED
    BY <1>1, <1>2

\* Where the count is one, the active tree is alone.
LEMMA Alone ==
    ASSUME NEW S, IsFiniteSet(S), NoId \in S, Cardinality(S) <= 1
    PROVE  S = {NoId}
  <1>1. Cardinality(S) \in Nat
    BY FS_CardinalityType
  <1>2. Cardinality(S) # 0
    BY FS_EmptySet
  <1>3. Cardinality(S) = 1
    BY <1>1, <1>2
  <1>4. \E x : S = {x}
    BY <1>3, FS_Singleton
  <1> QED
    BY <1>4

LEMMA UpdateFlags ==
    ASSUME IInv, UpdateTable, Table[op.i].host # 0, Types', Distinct', Trees'
    PROVE  Exclusive' /\ Exact'
  <1>0. PICK tok : tok = Token
    OBVIOUS
  <1>1. /\ InRefs /\ op.i < Size /\ Entry.host # 0
        /\ UNCHANGED <<l1_size, snaps, snap_l1, leaky>>
        /\ rc' = Counted
        /\ file' = [file EXCEPT ![Entry.host] =
                      [j \in L2Index |-> Reflag(file[Entry.host][j], Counted)]]
        /\ l1' = IF op.on = "active"
                 THEN [l1 EXCEPT ![op.i] = Reflag(Entry, Counted)] ELSE l1
    BY UpdateFacts
  <1>2. /\ op'.step = op.step /\ op'.k = op.k /\ op'.id = op.id
        /\ op'.on = op.on /\ op'.i = op.i + 1 /\ op.i \in L1Index /\ op.i \in Nat
    BY UpdateOp
  <1>3. /\ Counts'
        /\ \A h \in Host : ~Covers(file, Entry, h) =>
              Holders(h)' = Holders(h) /\ rc'[h] = rc[h]
        /\ op.addend # 1 => \A h \in Host : Holders(h)' \subseteq Holders(h)
    BY <1>0, UpdateCounts
  <1>4. Used(l1', l1_size) = Used(l1, l1_size)
    BY <1>1, UpdateSame, TreesSame
  <1>5. /\ op.on \in {"active", "snapshot"} /\ op.k # "idle"
        /\ op.on = "active" => Table = l1 /\ Size = l1_size
        /\ op.on = "snapshot" => op.k = "delete" /\ op.step = "refs"
        /\ op.k = "delete" /\ op.step = "refs" => op.on = "snapshot"
        /\ op \in Operation
    BY <1>1, PassFacts DEF IInv, Types
  <1>6. /\ Entry.host \in Host /\ file \in [Host -> Content] /\ l1 \in L1Tables
    BY <1>1, CountFacts DEF IInv, Types, Entry
  <1>7. ASSUME NEW h \in Host, rc'[h] = 1, NoId \in Holders(h)'
        PROVE  Holders(h)' \subseteq {NoId}
    <2>1. IsFiniteSet(Holders(h)') /\ Cardinality(Holders(h)') <= 1
      BY <1>3, <1>7, HoldersFiniteNext DEF Counts
    <2> QED
      BY <1>7, <2>1, Alone
  <1>8. /\ \A h : h # Entry.host => file'[h] = file[h]
        /\ \A j \in L2Index : file'[Entry.host][j] = Reflag(file[Entry.host][j], rc')
    BY <1>1, <1>6
  <1>9. \A j \in L2Index :
           /\ file'[Entry.host][j].host = file[Entry.host][j].host
           /\ file'[Entry.host][j].host # 0 =>
                (file'[Entry.host][j].copied <=> rc'[file'[Entry.host][j].host] = 1)
    BY <1>8, ReflagFacts
  <1>10. \A i \in Used(l1, l1_size) : First' <= i /\ i < Last' =>
             /\ l1'[i].host \in Host /\ NoId \in Holders(l1[i].host)'
             /\ file'[l1'[i].host] \in L2Tables
             /\ \A j \in L2Index : file'[l1'[i].host][j].host # 0 =>
                  /\ file'[l1'[i].host][j].host \in Host
                  /\ NoId \in Holders(file[l1[i].host][j].host)'
    BY <1>1, <1>4, ActiveHoldsNext
  <1>11. CASE op.on = "active"
    <2>1. Table = l1 /\ Size = l1_size /\ Entry = l1[op.i]
      BY <1>5, <1>11 DEF Entry
    <2>2. /\ l1'[op.i] = Reflag(l1[op.i], rc')
          /\ \A i \in L1Index : i # op.i => l1'[i] = l1[i]
      BY <1>1, <1>2, <1>6, <1>11, <2>1 DEF L1Tables
    <2>3. /\ l1'[op.i].host = Entry.host
          /\ l1'[op.i].copied <=> rc'[l1'[op.i].host] = 1
      BY <1>1, <2>1, <2>2, ReflagFacts
    <2>4. op.i \in Used(l1, l1_size)
      BY <1>1, <1>2, <2>1 DEF Used
    <2>5. Tree(file, l1, l1_size) /\ Apart(file, l1, l1_size, l1, l1_size)
      BY DEF IInv, Trees, Owners, TableOf, EntriesOf
    <2>6. ASSUME NEW i \in Used(l1, l1_size), i # op.i
          PROVE  /\ l1'[i] = l1[i] /\ l1[i].host # Entry.host
                 /\ file'[l1[i].host] = file[l1[i].host]
                 /\ ~Covers(file, Entry, l1[i].host)
                 /\ \A j \in L2Index : file[l1[i].host][j].host # 0 =>
                       ~Covers(file, Entry, file[l1[i].host][j].host)
      <3>1. l1'[i] = l1[i]
        BY <2>2, <2>6 DEF Used
      <3>2. l1[i].host # Entry.host
        BY <2>1, <2>4, <2>5, <2>6 DEF Tree, Injective
      <3>3. file'[l1[i].host] = file[l1[i].host]
        BY <1>8, <3>2
      <3>4. \A j \in L2Index : file[Entry.host][j].host # l1[i].host
        BY <2>1, <2>4, <2>5 DEF Apart
      <3>5. \A j \in L2Index : file[l1[i].host][j].host # Entry.host
        BY <2>1, <2>4, <2>5 DEF Apart
      <3>6. \A j, j2 \in L2Index : file[l1[i].host][j].host # 0 =>
               file[Entry.host][j2].host # file[l1[i].host][j].host
        BY <2>1, <2>4, <2>5, <2>6 DEF Tree, Injective
      <3> QED
        BY <3>1, <3>2, <3>3, <3>4, <3>5, <3>6 DEF Covers
    <2>7. ASSUME NEW i \in Used(l1, l1_size), i # op.i
          PROVE  /\ First' <= i /\ i < Last' => First <= i /\ i < Last
                 /\ i < Flagged' => i < Flagged
      <3>1. i \in Int
        BY L1Assumption DEF Used, L1Index
      <3>2. (i < op.i + 1 => i < op.i) /\ (op.i + 1 <= i => op.i <= i)
        BY <1>2, <2>7, <3>1
      <3> QED
        BY <1>2, <3>2 DEF First, Last, Flagged
    <2>8. ASSUME NEW i \in Used(l1, l1_size), First' <= i, i < Last'
          PROVE  /\ Own(l1[i])'
                 /\ \A j \in L2Index : file'[l1'[i].host][j].host # 0 =>
                       Own(file[l1[i].host][j])'
      <3>1. CASE i = op.i
        <4>1. Own(l1[i])'
          BY <1>7, <1>10, <2>3, <2>8, <3>1 DEF Own
        <4>2. ASSUME NEW j \in L2Index, file'[l1'[i].host][j].host # 0
              PROVE  Own(file[l1[i].host][j])'
          <5>1. file'[l1'[i].host][j].copied <=> rc'[file'[l1'[i].host][j].host] = 1
            BY <1>9, <2>3, <3>1, <4>2
          <5>2. /\ file'[l1'[i].host][j].host \in Host
                /\ NoId \in Holders(file[l1[i].host][j].host)'
            BY <1>10, <2>8, <4>2
          <5> QED
            BY <1>7, <5>1, <5>2 DEF Own
        <4> QED
          BY <4>1, <4>2
      <3>2. CASE i # op.i
        <4>1. /\ l1'[i] = l1[i] /\ file'[l1[i].host] = file[l1[i].host]
              /\ ~Covers(file, Entry, l1[i].host)
              /\ \A j \in L2Index : file[l1[i].host][j].host # 0 =>
                    ~Covers(file, Entry, file[l1[i].host][j].host)
              /\ First <= i /\ i < Last
          BY <2>6, <2>7, <2>8, <3>2
        <4>2. /\ l1[i].host \in Host
              /\ \A j \in L2Index : file[l1[i].host][j].host # 0 =>
                    file[l1[i].host][j].host \in Host
          BY <1>10, <2>8, <4>1
        <4>3. /\ Own(l1[i])
              /\ \A j \in L2Index : file[l1[i].host][j].host # 0 =>
                    Own(file[l1[i].host][j])
          BY <4>1 DEF IInv, Exclusive
        <4> QED
          BY <1>3, <4>1, <4>2, <4>3 DEF Own
      <3> QED
        BY <3>1, <3>2
    <2>9. Exclusive'
      BY <1>1, <1>4, <2>8 DEF Exclusive
    <2>10. ASSUME ~leaky, NEW i \in Used(l1, l1_size), i < Flagged'
           PROVE  /\ l1'[i].copied <=> rc'[l1'[i].host] = 1
                  /\ \A j \in L2Index : file'[l1'[i].host][j].host # 0 =>
                        (file'[l1'[i].host][j].copied
                           <=> rc'[file'[l1'[i].host][j].host] = 1)
      <3>1. CASE i = op.i
        BY <1>9, <2>3, <3>1
      <3>2. CASE i # op.i
        <4>1. /\ l1'[i] = l1[i] /\ file'[l1[i].host] = file[l1[i].host]
              /\ ~Covers(file, Entry, l1[i].host)
              /\ \A j \in L2Index : file[l1[i].host][j].host # 0 =>
                    ~Covers(file, Entry, file[l1[i].host][j].host)
              /\ i < Flagged
          BY <2>6, <2>7, <2>10, <3>2
        <4>2. l1[i].host \in Host
          <5>1. l1[i] \in Entries /\ l1[i].host # 0
            BY <1>6 DEF Used, L1Tables
          <5> QED
            BY <5>1, HAssumption DEF Entries, Host
        <4>3. \A j \in L2Index : file[l1[i].host][j].host # 0 =>
                    file[l1[i].host][j].host \in Host
          <5>1. file[l1[i].host] \in L2Tables
            BY <2>5 DEF Tree, Sound
          <5>2. \A j \in L2Index : file[l1[i].host][j] \in Entries
            BY <5>1 DEF L2Tables
          <5> QED
            BY <5>2, HAssumption DEF Entries, Host
        <4>4. /\ l1[i].copied <=> rc[l1[i].host] = 1
              /\ \A j \in L2Index : file[l1[i].host][j].host # 0 =>
                    (file[l1[i].host][j].copied
                       <=> rc[file[l1[i].host][j].host] = 1)
          BY <2>10, <4>1 DEF IInv, Exact
        <4> QED
          BY <1>3, <4>1, <4>2, <4>3, <4>4
      <3> QED
        BY <3>1, <3>2
    <2>11. Exact'
      BY <1>1, <1>4, <2>10 DEF Exact
    <2> QED
      BY <2>9, <2>11
  <1>12. CASE op.on = "snapshot"
    <2>1. op.k = "delete" /\ op.step = "refs" /\ op.addend = -1 /\ l1' = l1
      BY <1>1, <1>5, <1>12 DEF IInv, Shape, DeleteShape
    <2>2. Flagged' = 0 /\ First = 0 /\ Last = L1Max /\ First' = 0 /\ Last' = L1Max
      BY <1>2, <2>1 DEF Flagged, First, Last
    <2>3. Exact'
      <3>1. \A i \in L1Index : ~(i < 0)
        BY Constants
      <3> QED
        BY <2>2, <3>1 DEF Exact, Used
    <2>4. \A h \in Host : Holders(h)' \subseteq Holders(h)
      BY <1>3, <2>1
    <2>5. ASSUME NEW i \in Used(l1, l1_size), First' <= i, i < Last'
          PROVE  /\ Own(l1[i])'
                 /\ \A j \in L2Index : file'[l1'[i].host][j].host # 0 =>
                       Own(file[l1[i].host][j])'
      <3>1. /\ l1[i].host \in Host
            /\ \A j \in L2Index : file'[l1[i].host][j].host # 0 =>
                  /\ file'[l1[i].host][j].host \in Host
                  /\ NoId \in Holders(file[l1[i].host][j].host)'
        BY <1>10, <2>1, <2>5
      <3>2. /\ Own(l1[i])
            /\ \A j \in L2Index : file[l1[i].host][j].host # 0 =>
                  Own(file[l1[i].host][j])
        BY <2>2, <2>5 DEF IInv, Exclusive
      <3>3. Own(l1[i])'
        BY <2>1, <2>4, <3>1, <3>2 DEF Own
      <3>4. ASSUME NEW j \in L2Index, file'[l1'[i].host][j].host # 0
            PROVE  Own(file[l1[i].host][j])'
        <4>1. /\ file'[l1[i].host][j].host \in Host
              /\ NoId \in Holders(file[l1[i].host][j].host)'
          BY <2>1, <3>1, <3>4
        <4>2. CASE l1[i].host = Entry.host
          <5>1. file'[l1[i].host][j].copied <=> rc'[file'[l1[i].host][j].host] = 1
            BY <1>9, <2>1, <3>4, <4>2
          <5> QED
            BY <1>7, <2>1, <4>1, <5>1 DEF Own
        <4>3. CASE l1[i].host # Entry.host
          <5>1. file'[l1[i].host] = file[l1[i].host]
            BY <1>8, <4>3
          <5> QED
            BY <2>1, <2>4, <3>2, <3>4, <4>1, <5>1 DEF Own
        <4> QED
          BY <4>2, <4>3
      <3> QED
        BY <3>3, <3>4
    <2>6. Exclusive'
      BY <1>1, <1>4, <2>5 DEF Exclusive
    <2> QED
      BY <2>3, <2>6
  <1> QED
    BY <1>5, <1>11, <1>12

LEMMA UpdateKeeps ==
    ASSUME IInv, UpdateTable
    PROVE  IInv'
  <1>0. CASE Table[op.i].host = 0
    BY <1>0, UpdateSkips
  <1>a. CASE Table[op.i].host # 0
    <2>0. PICK tok : tok = Token
      OBVIOUS
    <2>1. /\ InRefs /\ op.i < Size /\ Entry.host # 0
          /\ UNCHANGED <<l1_size, snaps, disk_l1, disk_l1_size, disk_rc,
                         disk_snaps, disk_nb, snap_l1, image, saved, drift, leaky>>
          /\ file' = [file EXCEPT ![Entry.host] =
                        [j \in L2Index |-> Reflag(file[Entry.host][j], Counted)]]
          /\ l1' = IF op.on = "active"
                   THEN [l1 EXCEPT ![op.i] = Reflag(Entry, Counted)] ELSE l1
      BY <1>a, UpdateFacts
    <2>2. /\ op'.step = op.step /\ op'.k = op.k /\ op'.id = op.id
          /\ op'.on = op.on /\ op'.addend = op.addend /\ op'.i = op.i + 1
          /\ op'.tab = [op.tab EXCEPT ![op.i] = Reflag(Entry, Counted)]
          /\ op'.modified = (op.modified \/ Reflag(Entry, Counted) # Entry)
          /\ op' \in Operation
          /\ op.i \in L1Index /\ op.i + 1 <= Size /\ op.i <= Size /\ op.i \in Nat
      BY <1>a, UpdateOp
    <2>3. /\ rc' \in [Host -> Nat] /\ Counts'
          /\ \A h \in Host : Holders(h)' \ {tok} = Holders(h) \ {tok}
      BY <1>a, <2>0, UpdateCounts
    <2>4. /\ Entry \in Entries /\ Entry.host \in Host
          /\ file[Entry.host] \in L2Tables
      BY <2>1, CountFacts DEF Entry
    <2>5. file \in [Host -> Content] /\ l1 \in L1Tables /\ op \in Operation
      BY DEF IInv, Types
    <2>6. \A o \in Owners : Same(file, TableOf(o), file', TableOf(o)', EntriesOf(o))
      BY <1>a, UpdateSame
    <2>7. /\ Trees'
          /\ \A c \in Clusters : ReadIn(file', l1', l1_size, c)
                                   = ReadIn(file, l1, l1_size, c)
          /\ \A id \in Ids : Listed(id) =>
               \A c \in Clusters : ReadIn(file', snap_l1'[id], SizeOf(id), c)
                                     = ReadIn(file, snap_l1[id], SizeOf(id), c)
      BY <2>1, <2>6, TreesSame
    <2>8. Reflag(Entry, Counted) \in Entries
      BY <2>4, ReflagFacts
    <2>9. l1' \in L1Tables
      BY <2>1, <2>2, <2>5, <2>8 DEF L1Tables
    <2>10. file' \in [Host -> Content]
      <3>1. \A j \in L2Index : Reflag(file[Entry.host][j], Counted) \in Entries
        BY <2>4, ReflagFacts DEF L2Tables
      <3>2. [j \in L2Index |-> Reflag(file[Entry.host][j], Counted)] \in L2Tables
        BY <3>1 DEF L2Tables
      <3> QED
        BY <2>1, <2>4, <2>5, <3>2 DEF Content
    <2>11. Types'
      BY <2>1, <2>2, <2>3, <2>9, <2>10 DEF IInv, Types
    <2>12. /\ \A o : Listed(o)' <=> Listed(o)
           /\ \A o : SizeOf(o)' = SizeOf(o)
           /\ Distinct'
      BY <2>1, ListFrame DEF IInv
    <2>13. Exclusive' /\ Exact'
      BY <1>a, <2>7, <2>11, <2>12, UpdateFlags
    <2>14. Size' = Size /\ (InRefs' <=> InRefs) /\ Size \in Nat
      <3>1. Size \in 0..L1Max
        BY <2>1, PassFacts
      <3> QED
        BY <2>1, <2>2, <2>12, <3>1, L1Assumption DEF Size, InRefs
    <2>15. op.on = "active" => Table = l1 /\ Entry = l1[op.i]
      BY DEF Table, Entry
    <2>16. op.on # "active" => Table = op.tab /\ Entry = op.tab[op.i]
      BY DEF Table, Entry
    <2>17. \A i \in L1Index : l1'[i].host = l1[i].host
      <3>1. \A i \in L1Index : l1'[i] = l1[i] \/ l1'[i] = Reflag(l1[i], Counted)
        BY <2>1, <2>2, <2>5, <2>15 DEF L1Tables
      <3> QED
        BY <3>1, ReflagFacts
    <2>18. Shape'
      <3>1. op.i + 1 <= Size + 1
        BY <2>2, <2>14
      <3>2. op'.i <= Size' + 1
        BY <2>2, <2>14, <3>1
      <3>3. op.on = "snapshot" =>
              \A i \in L1Index : /\ op'.tab[i].host = snap_l1[op.id][i].host
                                 /\ i < SizeOf(op.id) => Unflagged(op'.tab[i])
        <4>1. op.on = "snapshot" =>
                \A i \in L1Index : /\ op.tab[i].host = snap_l1[op.id][i].host
                                   /\ i < SizeOf(op.id) => Unflagged(op.tab[i])
          BY DEF IInv, Shape
        <4>2. op.tab \in L1Tables
          BY <2>5 DEF Operation
        <4>3. op.on = "snapshot" => \A i \in L1Index :
                 op'.tab[i] = op.tab[i] \/ op'.tab[i] = Reflag(op.tab[i], Counted)
          BY <2>2, <2>16, <4>2 DEF L1Tables
        <4> QED
          BY <4>1, <4>3, ReflagFacts
      <3>4. op.k # "idle"
        BY <2>1, PassFacts
      <3> QED
        BY <2>1, <2>2, <2>12, <3>2, <3>3, <3>4
           DEF IInv, Shape, CreateShape, GotoShape, DeleteShape, InRefs
    <2>19. SameSize'
      BY <2>1 DEF IInv, SameSize
    <2>20. ~(op.on = "active" /\ op'.modified) => (Equal' <=> Equal)
      <3>1. op.on = "active" /\ ~op'.modified => l1' = l1
        BY <2>1, <2>2, <2>5, <2>15 DEF L1Tables
      <3>2. l1' = l1 => (Equal' <=> Equal)
        BY <2>1 DEF Equal
      <3> QED
        BY <2>1, <3>1, <3>2
    <2>21. ~op'.modified => ~op.modified
      BY <2>2
    <2>22. ASSUME op.k = "create", op.step = "refs", ~(leaky /\ drift),
                  NEW i \in L1Index, i < l1_size
           PROVE  /\ disk_l1[i].host = l1'[i].host
                  /\ Unflagged(disk_l1[i])
                  /\ disk_l1[i].host # 0 /\ disk_l1[i].copied =>
                        Holders(l1[i].host)' \subseteq {NoId, op.id}
      <3>1. /\ disk_l1[i].host = l1[i].host
            /\ Unflagged(disk_l1[i])
            /\ disk_l1[i].host # 0 /\ disk_l1[i].copied =>
                 Holders(l1[i].host) \subseteq {NoId, op.id}
        BY <2>22 DEF IInv, Synced
      <3>2. tok = op.id
        BY <2>0, <2>22 DEF Token
      <3>3. l1[i] \in Entries
        BY <2>5 DEF L1Tables
      <3>4. l1[i].host # 0 => l1[i].host \in Host
        BY <3>3, HAssumption DEF Entries, Host
      <3>5. \A h \in Host : Holders(h) \subseteq {NoId, op.id} =>
                 Holders(h)' \subseteq {NoId, op.id}
        BY <2>3, <3>2
      <3>6. l1'[i].host = l1[i].host
        BY <2>17
      <3> QED
        BY <3>1, <3>4, <3>5, <3>6
    <2>23. Synced'
      <3>1. op'.i <= Size' /\ op.i <= Size /\ InRefs'
        BY <2>1, <2>2, <2>14
      <3>2. ASSUME op.k \in {"create", "delete"}, ~(leaky /\ drift),
                   ~(op.on = "active" /\ op'.modified)
            PROVE  Equal'
        BY <3>2, <2>1, <2>20, <2>21 DEF IInv, Synced
      <3>3. ASSUME op.k = "goto", op.step = "refs2", ~op'.modified
            PROVE  Equal'
        BY <3>3, <2>20, <2>21 DEF IInv, Synced
      <3>4. op.k # "idle"
        BY <2>1, PassFacts
      <3> QED
        BY <2>1, <2>2, <2>22, <3>1, <3>2, <3>3, <3>4 DEF Synced
    <2>24. Written'
      <3>1. op.k = "create" => tok = op.id
        BY <2>0 DEF Token
      <3>2. op.k = "create" => op.step = "refs"
        BY <2>1 DEF IInv, Shape, CreateShape, InRefs
      <3>3. op.k # "idle"
        BY <2>1, PassFacts
      <3>4. op.k = "create" => \A h \in Host : Cardinality(Holders(h)' \ {op.id}) <= disk_rc[h]
        <4>1. op.k = "create" => \A h \in Host : Cardinality(Holders(h) \ {op.id}) <= disk_rc[h]
          BY <3>2 DEF IInv, Written
        <4> QED
          BY <2>3, <3>1, <4>1
      <3> QED
        BY <2>1, <2>2, <2>14, <3>2, <3>3, <3>4 DEF Written
    <2>25. Listing'
      BY <2>1, <2>2 DEF IInv, Listing
    <2>26. Contents'
      <3>1. op.k # "goto" =>
              \A c \in Clusters : ReadIn(file', l1', l1_size, c) = image[c]
        BY <2>7 DEF IInv, Contents
      <3>2. \A id \in Ids : Listed(id) => \A c \in Clusters :
               ReadIn(file', snap_l1'[id], SizeOf(id), c) = saved[id][c]
        BY <2>7 DEF IInv, Contents
      <3>3. op.k = "create" => saved[op.id] = image
        BY DEF IInv, Contents
      <3>4. op.k = "goto" /\ op.step = "refs2" =>
              \A i \in L1Index : i < l1_size => l1'[i].host = snap_l1[op.id][i].host
        BY <2>17 DEF IInv, Contents
      <3> QED
        BY <2>1, <2>2, <2>12, <3>1, <3>2, <3>3, <3>4 DEF Contents
    <2> QED
      BY <2>3, <2>7, <2>11, <2>12, <2>13, <2>18, <2>19, <2>23, <2>24, <2>25, <2>26
         DEF IInv
  <1> QED
    BY <1>0, <1>a

-----------------------------------------------------------------------------
(* Copies of trees, and other lists.                                       *)

\* Table u of m entries over g is a copy of table t of n entries over f: it
\* may be longer, and its flags may differ.
Copies(f, t, n, g, u, m) ==
    /\ Used(u, m) = Used(t, n)
    /\ \A i \in L1Index : i < m => Unflagged(u[i])
    /\ \A i \in Used(t, n) :
          /\ u[i].host = t[i].host
          /\ g[t[i].host] \in L2Tables
          /\ \A j \in L2Index :
                /\ g[t[i].host][j].host = f[t[i].host][j].host
                /\ Unflagged(g[t[i].host][j])
                /\ f[t[i].host][j].host # 0 =>
                      g[f[t[i].host][j].host] = f[f[t[i].host][j].host]

LEMMA CopyTree ==
    ASSUME NEW f, NEW t, NEW n \in 0..L1Max, NEW g, NEW u, NEW m \in 0..L1Max,
           Tree(f, t, n), Copies(f, t, n, g, u, m)
    PROVE  /\ Tree(g, u, m)
           /\ \A lo, hi : Part(g, u, m, lo, hi) = Part(f, t, n, lo, hi)
           /\ \A c \in Clusters : ReadIn(g, u, m, c) = ReadIn(f, t, n, c)
  <1>1. Used(u, m) = Used(t, n)
    BY DEF Copies
  <1>2. \A i \in Used(t, n) : /\ i \in L1Index
                              /\ u[i].host = t[i].host /\ t[i].host # 0
    BY DEF Copies, Used
  <1>3. Sound(g, u, m)
    BY <1>1, <1>2 DEF Copies, Sound
  <1>4. Injective(g, u, m)
    BY <1>1, <1>2 DEF Copies, Tree, Injective
  <1>5. \A i \in Used(t, n) : \A h : Covers(g, u[i], h) <=> Covers(f, t[i], h)
    BY <1>2 DEF Copies, Covers
  <1>6. \A lo, hi : Part(g, u, m, lo, hi) = Part(f, t, n, lo, hi)
    BY <1>1, <1>5 DEF Part
  <1>7. ASSUME NEW c \in Clusters
        PROVE  ReadIn(g, u, m, c) = ReadIn(f, t, n, c)
    <2>1. /\ c[1] \in L1Index /\ c[2] \in L2Index
          /\ c[1] >= n <=> ~(c[1] < n)
          /\ c[1] >= m <=> ~(c[1] < m)
      BY L1Assumption DEF Clusters, L1Index
    <2>2. CASE c[1] \notin Used(t, n)
      <3>1. c[1] >= n \/ t[c[1]].host = 0
        BY <2>1, <2>2 DEF Used
      <3>2. c[1] >= m \/ u[c[1]].host = 0
        BY <2>1, <2>2, <1>1 DEF Used
      <3> QED
        BY <3>1, <3>2 DEF ReadIn
    <2>3. CASE c[1] \in Used(t, n)
      <3>1. /\ ~(c[1] >= n \/ t[c[1]].host = 0)
            /\ ~(c[1] >= m \/ u[c[1]].host = 0)
        BY <2>1, <2>3, <1>1 DEF Used
      <3>2. /\ u[c[1]].host = t[c[1]].host
            /\ f[t[c[1]].host] \in L2Tables /\ g[t[c[1]].host] \in L2Tables
            /\ g[t[c[1]].host][c[2]].host = f[t[c[1]].host][c[2]].host
            /\ f[t[c[1]].host][c[2]].host # 0 =>
                 g[f[t[c[1]].host][c[2]].host] = f[f[t[c[1]].host][c[2]].host]
        BY <2>1, <2>3 DEF Copies, Tree, Sound
      <3> QED
        BY <3>1, <3>2 DEF ReadIn
    <2> QED
      BY <2>2, <2>3
  <1> QED
    BY <1>3, <1>4, <1>6, <1>7 DEF Tree

LEMMA CopyApart ==
    ASSUME NEW f, NEW g, NEW t, NEW n, NEW u, NEW m,
           NEW t2, NEW n2, NEW u2, NEW m2,
           Copies(f, t, n, g, u, m), Copies(f, t2, n2, g, u2, m2),
           Apart(f, t, n, t2, n2)
    PROVE  Apart(g, u, m, u2, m2)
  <1>1. Used(u, m) = Used(t, n) /\ Used(u2, m2) = Used(t2, n2)
    BY DEF Copies
  <1>2. /\ \A i \in Used(t, n) : u[i].host = t[i].host
        /\ \A i \in Used(t2, n2) : u2[i].host = t2[i].host
    BY DEF Copies
  <1>3. \A i \in Used(t2, n2), j \in L2Index :
           g[t2[i].host][j].host = f[t2[i].host][j].host
    BY DEF Copies
  <1> QED
    BY <1>1, <1>2, <1>3 DEF Apart

\* Every tree after the step is a copy of one before it.
LEMMA TreesCopied ==
    ASSUME IInv, Types', Distinct',
           \A o \in Owners' : \E p \in Owners :
               Copies(file, TableOf(p), EntriesOf(p),
                      file', TableOf(o)', EntriesOf(o)')
    PROVE  Trees'
  <1>1. \A p \in Owners : EntriesOf(p) \in 0..L1Max
    BY Sizes DEF IInv, Types, Owners, EntriesOf
  <1>2. \A o \in Owners' : EntriesOf(o)' \in 0..L1Max
    <2>1. \A id : Has(snaps', id) => SizeIn(snaps', id) \in 0..L1Max
      BY ListNamesNext, ListFacts DEF Types
    <2> QED
      BY <2>1, ListNamesNext DEF Types, Owners, EntriesOf
  <1>3. ASSUME NEW o \in Owners'
        PROVE  Tree(file', TableOf(o)', EntriesOf(o)')
    <2>1. PICK p \in Owners : Copies(file, TableOf(p), EntriesOf(p),
                                     file', TableOf(o)', EntriesOf(o)')
      OBVIOUS
    <2>2. Tree(file, TableOf(p), EntriesOf(p))
      BY DEF IInv, Trees
    <2> QED
      BY <1>1, <1>2, <2>1, <2>2, CopyTree
  <1>4. ASSUME NEW o \in Owners', NEW o2 \in Owners'
        PROVE  Apart(file', TableOf(o)', EntriesOf(o)', TableOf(o2)', EntriesOf(o2)')
    <2>1. PICK p \in Owners : Copies(file, TableOf(p), EntriesOf(p),
                                     file', TableOf(o)', EntriesOf(o)')
      OBVIOUS
    <2>2. PICK p2 \in Owners : Copies(file, TableOf(p2), EntriesOf(p2),
                                      file', TableOf(o2)', EntriesOf(o2)')
      OBVIOUS
    <2>3. Apart(file, TableOf(p), EntriesOf(p), TableOf(p2), EntriesOf(p2))
      BY DEF IInv, Trees
    <2> QED
      BY <2>1, <2>2, <2>3, CopyApart
  <1> QED
    BY <1>3, <1>4 DEF Trees

LEMMA CopyRefl ==
    ASSUME NEW f, NEW t, NEW n, Tree(f, t, n)
    PROVE  Copies(f, t, n, f, t, n)
  BY DEF Copies, Tree, Sound

\* A table that has the same first n entries but for flags.
LEMMA CopyTable ==
    ASSUME NEW f, NEW t, NEW u, NEW n, Tree(f, t, n),
           \A i \in L1Index : i < n => u[i].host = t[i].host /\ Unflagged(u[i])
    PROVE  Copies(f, t, n, f, u, n)
  BY DEF Copies, Tree, Sound, Used

\* A list with the snapshots of another one.
LEMMA ListWithin ==
    ASSUME NEW s \in Seq(Snapshot), NEW s2 \in Seq(Snapshot), DistinctIn(s),
           DistinctIn(s2),
           \A k \in DOMAIN s : \E k2 \in DOMAIN s2 : s[k] = s2[k2]
    PROVE  \A id : Has(s, id) => Has(s2, id) /\ SizeIn(s, id) = SizeIn(s2, id)
  <1> SUFFICES ASSUME NEW id, Has(s, id)
               PROVE  Has(s2, id) /\ SizeIn(s, id) = SizeIn(s2, id)
    OBVIOUS
  <1>1. PICK k \in DOMAIN s : s[k].id = id
    BY DEF Has
  <1>2. PICK k2 \in DOMAIN s2 : s[k] = s2[k2]
    OBVIOUS
  <1>3. SizeIn(s, s[k].id) = s[k].size
    BY ListFacts
  <1>4. SizeIn(s2, s2[k2].id) = s2[k2].size /\ Has(s2, s2[k2].id)
    BY ListFacts
  <1> QED
    BY <1>1, <1>2, <1>3, <1>4

LEMMA ListAppend ==
    ASSUME NEW s \in Seq(Snapshot), DistinctIn(s), NEW e \in Snapshot,
           ~Has(s, e.id)
    PROVE  /\ Append(s, e) \in Seq(Snapshot) /\ DistinctIn(Append(s, e))
           /\ \A id : Has(Append(s, e), id) <=> Has(s, id) \/ id = e.id
           /\ \A id : Has(s, id) => SizeIn(Append(s, e), id) = SizeIn(s, id)
           /\ SizeIn(Append(s, e), e.id) = e.size
           /\ Len(Append(s, e)) = Len(s) + 1
           /\ Append(s, e)[Len(s) + 1] = e
           /\ \A k \in 1..Len(s) : Append(s, e)[k] = s[k]
  <1> DEFINE a == Append(s, e)
  <1>1. /\ a \in Seq(Snapshot) /\ Len(a) = Len(s) + 1 /\ Len(s) \in Nat
        /\ DOMAIN a = 1..(Len(s) + 1) /\ DOMAIN s = 1..Len(s)
        /\ a[Len(s) + 1] = e /\ \A k \in 1..Len(s) : a[k] = s[k]
    BY AppendProperties
  <1> HIDE DEF a
  <1>2. \A k \in DOMAIN a : k = Len(s) + 1 \/ k \in DOMAIN s
    BY <1>1
  <1>3. \A k \in DOMAIN s : k \in DOMAIN a /\ a[k] = s[k] /\ s[k].id # e.id
    BY <1>1 DEF Has
  <1>4. Len(s) + 1 \in DOMAIN a
    BY <1>1
  <1>5. DistinctIn(a)
    BY <1>1, <1>2, <1>3 DEF DistinctIn
  <1>6. \A id : Has(a, id) <=> Has(s, id) \/ id = e.id
    BY <1>1, <1>2, <1>3, <1>4 DEF Has
  <1>7. \A id : Has(s, id) => SizeIn(s, id) = SizeIn(a, id)
    BY <1>1, <1>3, <1>5, ListWithin
  <1>8. SizeIn(a, e.id) = e.size
    BY <1>1, <1>4, <1>5, ListFacts
  <1> QED
    BY <1>1, <1>5, <1>6, <1>7, <1>8 DEF a
-----------------------------------------------------------------------------
(* The L1 table of a new snapshot.                                         *)

LEMMA SaveKeeps ==
    ASSUME IInv, SaveL1
    PROVE  IInv'
  <1> DEFINE id == op.id
             copy == Overlay(l1, l1_size, EmptyL1)
  <1>1. /\ op.step = "save_l1"
        /\ snap_l1' = [snap_l1 EXCEPT ![op.id] = Overlay(l1, l1_size, EmptyL1)]
        /\ snaps' = Append(snaps, [id |-> op.id, size |-> l1_size])
        /\ op' = [op EXCEPT !.step = "list"]
        /\ UNCHANGED <<file, l1, l1_size, rc, disk_l1, disk_l1_size, disk_rc,
                       disk_snaps, disk_nb, image, saved, drift, leaky>>
    BY DEF SaveL1, NewSnapshot, history
  <1>2. op \in Operation /\ l1 \in L1Tables /\ l1_size \in 0..L1Max
        /\ snap_l1 \in [Ids -> L1Tables] /\ snaps \in Seq(Snapshot)
    BY DEF IInv, Types
  <1>3. /\ op.k = "create" /\ op.id \in Ids /\ op.id # NoId /\ op.on = "active"
        /\ op.addend = 1 /\ ~Listed(op.id) /\ op.i = l1_size + 1
    BY <1>1, <1>2, Constants
       DEF IInv, Shape, CreateShape, GotoShape, DeleteShape, Idle, Operation
  <1>4. /\ op'.k = op.k /\ op'.id = op.id /\ op'.step = "list" /\ op'.on = op.on
        /\ op'.addend = op.addend /\ op'.i = op.i /\ op'.tab = op.tab
        /\ op'.modified = op.modified /\ op' \in Operation
    BY <1>1, <1>2 DEF Operation
  <1>5. [id |-> op.id, size |-> l1_size] \in Snapshot
    BY <1>2, <1>3 DEF Snapshot
  <1>6. /\ snaps' \in Seq(Snapshot) /\ DistinctIn(snaps')
        /\ \A o : Has(snaps', o) <=> Has(snaps, o) \/ o = op.id
        /\ \A o : Has(snaps, o) => SizeIn(snaps', o) = SizeIn(snaps, o)
        /\ SizeIn(snaps', op.id) = l1_size
        /\ Len(snaps') = Len(snaps) + 1
        /\ snaps'[Len(snaps) + 1] = [id |-> op.id, size |-> l1_size]
        /\ \A k \in 1..Len(snaps) : snaps'[k] = snaps[k]
    <2>1. DistinctIn(snaps) /\ ~Has(snaps, op.id)
      BY <1>3, ListNames DEF IInv
    <2>2. PICK e \in Snapshot : e = [id |-> op.id, size |-> l1_size]
      BY <1>5
    <2>3. e.id = op.id /\ e.size = l1_size
      BY <2>2
    <2> QED
      BY <1>1, <1>2, <2>1, <2>2, <2>3, ListAppend
  <1>7. /\ \A o : Listed(o)' <=> Listed(o) \/ o = op.id
        /\ \A o : Listed(o) => SizeOf(o)' = SizeOf(o)
        /\ \A o : o = op.id => SizeOf(o)' = l1_size
        /\ Distinct'
    BY <1>6, ListNames, ListNamesNext
  <1>8. copy \in L1Tables /\ snap_l1' \in [Ids -> L1Tables]
    BY <1>1, <1>2, <1>3, Constants DEF Overlay, L1Tables
  <1>9. Types'
    BY <1>1, <1>4, <1>6, <1>8 DEF IInv, Types
  <1>10. /\ snap_l1'[op.id] = copy
         /\ \A o \in Ids : o # op.id => snap_l1'[o] = snap_l1[o]
    BY <1>1, <1>2, <1>3
  <1>11. Tree(file, l1, l1_size)
    BY DEF IInv, Trees, Owners, TableOf, EntriesOf
  <1>12. Copies(file, l1, l1_size, file, copy, l1_size)
    <2>1. \A i \in L1Index : i < l1_size => copy[i] = l1[i]
      BY DEF Overlay
    <2>2. \A i \in L1Index : i < l1_size => Unflagged(l1[i])
      BY <1>11 DEF Tree, Sound
    <2> HIDE DEF copy
    <2>3. \A i \in L1Index : i < l1_size => copy[i].host = l1[i].host /\ Unflagged(copy[i])
      BY <2>1, <2>2
    <2> QED
      BY <1>11, <2>3, CopyTable
  <1> HIDE DEF copy
  <1>13. /\ \A lo, hi : Part(file, copy, l1_size, lo, hi) = Part(file, l1, l1_size, lo, hi)
         /\ \A c \in Clusters : ReadIn(file, copy, l1_size, c) = ReadIn(file, l1, l1_size, c)
    BY <1>2, <1>11, <1>12, CopyTree
  <1>14. Trees'
    <2>1. ASSUME NEW o \in Owners'
          PROVE  \E p \in Owners :
                   Copies(file, TableOf(p), EntriesOf(p),
                          file', TableOf(o)', EntriesOf(o)')
      <3>1. NoId \in Owners /\ TableOf(NoId) = l1 /\ EntriesOf(NoId) = l1_size
        BY DEF Owners, TableOf, EntriesOf
      <3>2. o = NoId \/ (o \in Ids /\ o # NoId /\ (Listed(o) \/ o = op.id))
        BY <1>7, Constants DEF Owners
      <3>3. CASE o = NoId
        <4>1. TableOf(o)' = l1 /\ EntriesOf(o)' = l1_size
          BY <1>1, <3>3 DEF TableOf, EntriesOf
        <4> QED
          BY <1>1, <1>11, <3>1, <4>1, CopyRefl
      <3>4. CASE o = op.id
        <4>1. TableOf(o)' = copy /\ EntriesOf(o)' = l1_size
          BY <1>3, <1>7, <1>10, <3>4 DEF TableOf, EntriesOf
        <4> QED
          BY <1>1, <1>12, <3>1, <4>1
      <3>5. CASE o # NoId /\ o # op.id
        <4>1. o \in Ids /\ Listed(o) /\ o \in Owners
          BY <3>2, <3>5 DEF Owners
        <4>2. TableOf(o)' = TableOf(o) /\ EntriesOf(o)' = EntriesOf(o)
          BY <1>7, <1>10, <3>5, <4>1 DEF TableOf, EntriesOf
        <4>3. Tree(file, TableOf(o), EntriesOf(o))
          BY <4>1 DEF IInv, Trees
        <4> QED
          BY <1>1, <4>1, <4>2, <4>3, CopyRefl
      <3> QED
        BY <3>3, <3>4, <3>5
    <2> QED
      BY <1>7, <1>9, <2>1, TreesCopied
  <1>15. /\ First = 0 /\ Last = L1Max /\ Flagged = L1Max
         /\ First' = 0 /\ Last' = L1Max /\ Flagged' = L1Max
    BY <1>3, <1>4 DEF First, Last, Flagged
  <1>16. \A o \in Ids \cup {NoId} : Hold(o)' = Hold(o)
    <2>1. Hold(NoId)' = Hold(NoId)
      BY <1>1, <1>15 DEF Hold
    <2>2. ASSUME NEW o, o = op.id
          PROVE  Hold(o)' = Hold(o)
      <3>1. Hold(o) = Part(file, l1, l1_size, 0, l1_size + 1)
        BY <1>3, <2>2 DEF Hold, HeldByNew
      <3>2. Part(file, l1, l1_size, 0, l1_size + 1) = Part(file, l1, l1_size, 0, L1Max)
        <4>1. l1_size + 1 \in Nat /\ l1_size + 1 >= l1_size
          BY <1>2, L1Assumption
        <4> QED
          BY <1>2, <4>1, PartEnds
      <3>3. Hold(o)' = Part(file, copy, l1_size, 0, L1Max)
        BY <1>1, <1>3, <1>4, <1>7, <1>10, <2>2 DEF Hold, HeldByOld
      <3> QED
        BY <1>13, <3>1, <3>2, <3>3
    <2>3. ASSUME NEW o \in Ids, o # op.id
          PROVE  Hold(o)' = Hold(o)
      <3>1. HeldByNew(o)' = HeldByNew(o)
        BY <1>4, <2>3 DEF HeldByNew
      <3>2. Listed(o) => HeldByOld(o)' = HeldByOld(o)
        BY <1>1, <1>3, <1>4, <1>7, <1>10, <2>3 DEF HeldByOld
      <3> QED
        BY <1>7, <2>3, <3>1, <3>2, Constants DEF Hold
    <2> QED
      BY <2>1, <2>2, <2>3
  <1>17. \A h : Holders(h)' = Holders(h)
    BY <1>16, HoldersKept
  <1>18. Counts' /\ Exclusive' /\ Exact'
    BY <1>1, <1>15, <1>17, CountsKept, ExclusiveKept, ExactKept DEF IInv
  <1>19. Shape'
    BY <1>1, <1>3, <1>4, <1>7 DEF Shape, CreateShape, GotoShape, DeleteShape, InRefs
  <1>20. SameSize'
    BY <1>1 DEF IInv, SameSize
  <1>21. Synced'
    <2>1. ~(leaky /\ drift) => Equal
      BY <1>1, <1>3 DEF IInv, Synced, InRefs
    <2>2. Equal' <=> Equal
      BY <1>1 DEF Equal
    <2> QED
      BY <1>1, <1>3, <1>4, <2>1, <2>2 DEF Synced
  <1>22. Written'
    BY <1>1, <1>3, <1>4 DEF IInv, Written
  <1>23. Listing'
    <2>1. /\ disk_nb <= Len(snaps) /\ disk_nb <= Len(disk_snaps)
          /\ \A k \in 1..disk_nb : disk_snaps[k] = snaps[k]
      BY <1>3 DEF IInv, Listing
    <2>2. disk_nb \in Nat /\ Len(snaps) \in Nat
      BY <1>2 DEF IInv, Types
    <2>3. \A k \in 1..disk_nb : k \in 1..Len(snaps)
      BY <2>1, <2>2
    <2>4. /\ disk_nb <= Len(snaps') /\ disk_nb < Len(snaps')
          /\ \A k \in 1..disk_nb : disk_snaps[k] = snaps'[k]
      BY <1>6, <2>1, <2>2, <2>3
    <2>5. snaps'[Len(snaps')].id = op.id
      BY <1>6
    <2> QED
      BY <1>1, <1>3, <1>4, <2>1, <2>4, <2>5 DEF Listing
  <1>24. Contents'
    <2>1. \A c \in Clusters : ReadIn(file, l1, l1_size, c) = image[c]
      BY <1>3 DEF IInv, Contents
    <2>2. saved[op.id] = image
      BY <1>3 DEF IInv, Contents
    <2>3. ASSUME NEW o \in Ids, Listed(o)', NEW c \in Clusters
          PROVE  ReadIn(file, snap_l1'[o], SizeOf(o)', c) = saved[o][c]
      <3>1. CASE o = op.id
        BY <1>7, <1>10, <1>13, <2>1, <2>2, <3>1
      <3>2. CASE o # op.id
        <4>1. Listed(o) /\ SizeOf(o)' = SizeOf(o) /\ snap_l1'[o] = snap_l1[o]
          BY <1>7, <1>10, <2>3, <3>2
        <4> QED
          BY <4>1 DEF IInv, Contents
      <3> QED
        BY <3>1, <3>2
    <2> QED
      BY <1>1, <1>3, <1>4, <2>1, <2>2, <2>3 DEF Contents
  <1> QED
    BY <1>7, <1>9, <1>14, <1>18, <1>19, <1>20, <1>21, <1>22, <1>23, <1>24 DEF IInv
-----------------------------------------------------------------------------
(* Going to a snapshot: its L1 table.                                      *)

LEMMA LoadKeeps ==
    ASSUME IInv, LoadL1
    PROVE  IInv'
  <1> DEFINE id == op.id
             n == SizeOf(op.id)
  <1>1. /\ op.step = "load_l1" /\ SizeOf(op.id) <= l1_size
        /\ l1_size' = SizeOf(op.id)
        /\ l1' = Overlay(snap_l1[op.id], SizeOf(op.id), l1)
        /\ disk_l1' = Overlay(snap_l1[op.id], SizeOf(op.id), disk_l1)
        /\ op' = Pass("goto", op.id, "refs2", "active", 1, EmptyL1)
        /\ drift' = (SizeOf(op.id) # disk_l1_size)
        /\ UNCHANGED <<file, rc, snaps, disk_l1_size, disk_rc, disk_snaps,
                       disk_nb, snap_l1, image, saved, leaky>>
    BY DEF LoadL1, LoadedL1
  <1>2. /\ op \in Operation /\ l1 \in L1Tables /\ disk_l1 \in L1Tables
        /\ snap_l1 \in [Ids -> L1Tables] /\ l1_size \in 0..L1Max
    BY DEF IInv, Types
  <1>3. op.k = "goto" /\ op.id \in Ids /\ op.id # NoId /\ Listed(op.id)
    BY <1>1, <1>2, Constants
       DEF IInv, Shape, CreateShape, GotoShape, DeleteShape, Idle, Operation
  <1>4. /\ op'.k = "goto" /\ op'.id = op.id /\ op'.step = "refs2"
        /\ op'.on = "active" /\ op'.addend = 1 /\ op'.i = 0
        /\ op'.tab = EmptyL1 /\ op'.modified = FALSE
    BY <1>1 DEF Pass
  <1>5. op' \in Operation
    BY <1>1, <1>3, PassType, Constants
  <1>6. SizeOf(op.id) \in 0..L1Max
    BY <1>3, Sizes DEF IInv
  <1>7. l1' \in L1Tables /\ disk_l1' \in L1Tables
    BY <1>1, <1>2, <1>3 DEF Overlay, L1Tables
  <1>8. drift' \in BOOLEAN
    BY <1>1
  <1>9. Types'
    BY <1>1, <1>5, <1>6, <1>7, <1>8 DEF IInv, Types
  <1>10. /\ \A o : Listed(o)' <=> Listed(o)
         /\ \A o : SizeOf(o)' = SizeOf(o)
         /\ Distinct'
    BY <1>1, ListFrame DEF IInv
  <1>11. \A i \in L1Index : i < SizeOf(op.id) =>
             l1'[i] = snap_l1[op.id][i] /\ disk_l1'[i] = snap_l1[op.id][i]
    BY <1>1 DEF Overlay
  <1>12. Tree(file, snap_l1[op.id], SizeOf(op.id))
    BY <1>3 DEF IInv, Trees, Owners, TableOf, EntriesOf
  <1>13. Copies(file, snap_l1[op.id], SizeOf(op.id), file, l1', SizeOf(op.id))
    <2>1. \A i \in L1Index : i < SizeOf(op.id) => Unflagged(snap_l1[op.id][i])
      BY <1>12 DEF Tree, Sound
    <2>2. \A i \in L1Index : i < SizeOf(op.id) =>
             l1'[i].host = snap_l1[op.id][i].host /\ Unflagged(l1'[i])
      BY <1>11, <2>1
    <2> QED
      BY <1>12, <2>2, CopyTable
  <1>14. Trees'
    <2>1. ASSUME NEW o \in Owners'
          PROVE  \E p \in Owners :
                   Copies(file, TableOf(p), EntriesOf(p),
                          file', TableOf(o)', EntriesOf(o)')
      <3>1. CASE o = NoId
        <4>1. TableOf(o)' = l1' /\ EntriesOf(o)' = SizeOf(op.id)
          BY <1>1, <3>1 DEF TableOf, EntriesOf
        <4>2. op.id \in Owners /\ TableOf(op.id) = snap_l1[op.id]
              /\ EntriesOf(op.id) = SizeOf(op.id)
          BY <1>3 DEF Owners, TableOf, EntriesOf
        <4> QED
          BY <1>1, <1>13, <4>1, <4>2
      <3>2. CASE o # NoId
        <4>1. o \in Owners
          BY <1>10, <3>2 DEF Owners
        <4>2. TableOf(o)' = TableOf(o) /\ EntriesOf(o)' = EntriesOf(o)
          BY <1>1, <1>10, <3>2 DEF TableOf, EntriesOf
        <4>3. Tree(file, TableOf(o), EntriesOf(o))
          BY <4>1 DEF IInv, Trees
        <4> QED
          BY <1>1, <4>1, <4>2, <4>3, CopyRefl
      <3> QED
        BY <3>1, <3>2
    <2> QED
      BY <1>9, <1>10, <2>1, TreesCopied
  <1>15. \A o \in Ids \cup {NoId} : Hold(o)' = Hold(o)
    <2>1. Hold(NoId) = Part(file, l1, l1_size, 0, 0)
      BY <1>1, <1>3 DEF Hold, First, Last
    <2>2. Hold(NoId)' = Part(file, l1', l1_size', 0, 0)
      BY <1>1, <1>4 DEF Hold, First, Last
    <2>3. Hold(NoId)' = Hold(NoId)
      BY <2>1, <2>2 , <1>1, <1>2, <1>6, PartEnds
    <2>4. ASSUME NEW o \in Ids
          PROVE  Hold(o)' = Hold(o)
      <3>1. HeldByNew(o)' = {} /\ HeldByNew(o) = {}
        BY <1>3, <1>4 DEF HeldByNew
      <3>2. HeldByOld(o)' = HeldByOld(o)
        BY <1>1, <1>3, <1>4, <1>10 DEF HeldByOld
      <3> QED
        BY <1>10, <3>1, <3>2, Constants DEF Hold
    <2> QED
      BY <2>3, <2>4
  <1>16. \A h : Holders(h)' = Holders(h)
    BY <1>15, HoldersKept
  <1>17. Counts'
    BY <1>1, <1>16, CountsKept DEF IInv
  <1>18. Last' = 0 /\ Flagged' = 0 /\ \A i \in L1Index : ~(i < 0)
    BY <1>4, Constants DEF Last, Flagged
  <1>19. Exclusive' /\ Exact'
    BY <1>18 DEF Exclusive, Exact, Used
  <1>20. Shape'
    <2>1. Size' = SizeOf(op.id)
      BY <1>1, <1>4 DEF Size
    <2>2. 0 <= SizeOf(op.id) + 1
      BY <1>6, L1Assumption
    <2>3. op'.i <= Size' + 1
      BY <1>4, <2>1, <2>2
    <2> QED
      BY <1>1, <1>3, <1>4, <1>10, <2>3 DEF Shape, CreateShape, GotoShape, DeleteShape
  <1>21. SameSize'
    BY <1>1 DEF SameSize
  <1>22. Equal'
    BY <1>1, <1>11 DEF Equal
  <1>23. Synced'
    BY <1>4, <1>22 DEF Synced
  <1>24. Written'
    BY <1>4 DEF Written
  <1>25. Listing'
    BY <1>1, <1>3, <1>4 DEF IInv, Listing
  <1>26. Contents'
    <2>1. \A i \in L1Index : i < l1_size' => l1'[i].host = snap_l1'[op'.id][i].host
      BY <1>1, <1>4, <1>11
    <2>2. \A o \in Ids : Listed(o)' => \A c \in Clusters :
              ReadIn(file', snap_l1'[o], SizeOf(o)', c) = saved'[o][c]
      BY <1>1, <1>10 DEF IInv, Contents
    <2> QED
      BY <1>4, <2>1, <2>2 DEF Contents
  <1> QED
    BY <1>9, <1>10, <1>14, <1>17, <1>19, <1>20, <1>21, <1>23, <1>24, <1>25, <1>26
       DEF IInv

-----------------------------------------------------------------------------
(* The size of a grown L1 table.  That the recursion of NewL1Size has a    *)
(* solution is shown with the sizes that it goes through, its orbit; that  *)
(* it ends, with the last size for which it would not.                     *)

LEMMA LeastNatural ==
    ASSUME NEW T \in SUBSET Nat, T # {}
    PROVE  \E n \in T : \A k \in T : n <= k
  <1>1. IsWellFoundedOn(OpToRel(<, Nat), Nat)
    BY NatLessThanWellFounded
  <1>2. PICK n \in T : \A k \in T : ~(<<k, n>> \in OpToRel(<, Nat))
    BY <1>1, WFMin
  <1>3. \A k \in T : ~(k < n)
    BY <1>2 DEF OpToRel
  <1> QED
    BY <1>3

Larger(n) == (n * 3 + 1) \div 2
Closed == {S \in SUBSET Nat : \A x \in S : Larger(x) \in S}
Orbit(n) == {m \in Nat : \A S \in Closed : n \in S => m \in S}
Enough(n, min) == {k \in Orbit(n) : k >= min}
FirstEnough(n, min) ==
    CHOOSE k \in Enough(n, min) : \A k2 \in Enough(n, min) : k <= k2
Grows(min, f) == f = [n \in Nat |-> IF n >= min THEN n ELSE f[Larger(n)]]

LEMMA LargerFacts ==
    \A n \in Nat : /\ Larger(n) \in Nat /\ n <= Larger(n)
                   /\ n # 0 => n < Larger(n) /\ Larger(n) # 0
  BY DEF Larger

LEMMA OrbitFacts ==
    ASSUME NEW n \in Nat
    PROVE  /\ n \in Orbit(n)
           /\ \A m \in Orbit(n) : m \in Nat /\ n <= m
           /\ Orbit(n) = {n} \cup Orbit(Larger(n))
  <1>1. n \in Orbit(n) /\ \A m \in Orbit(n) : m \in Nat
    BY DEF Orbit
  <1>2. {x \in Nat : n <= x} \in Closed
    <2>1. \A x \in Nat : n <= x => Larger(x) \in Nat /\ n <= Larger(x)
      <3>1. \A x \in Nat : x <= Larger(x) /\ Larger(x) \in Nat
        BY LargerFacts
      <3>2. \A x, y \in Nat : n <= x /\ x <= y => n <= y
        OBVIOUS
      <3> QED
        BY <3>1, <3>2
    <2> QED
      BY <2>1 DEF Closed
  <1>3. \A m \in Orbit(n) : n <= m
    <2>1. n \in {x \in Nat : n <= x}
      OBVIOUS
    <2> QED
      BY <1>2, <2>1 DEF Orbit
  <1>4. Larger(n) \in Nat
    BY LargerFacts
  <1>5. \A S \in Closed : n \in S => Larger(n) \in S
    BY DEF Closed
  <1>6. {n} \cup Orbit(Larger(n)) \subseteq Orbit(n)
    BY <1>1, <1>5 DEF Orbit
  <1>7. {n} \cup Orbit(Larger(n)) \in Closed
    <2>1. Larger(n) \in Orbit(Larger(n))
      BY <1>4 DEF Orbit
    <2>2. ASSUME NEW x \in Orbit(Larger(n))
          PROVE  Larger(x) \in Orbit(Larger(n))
      <3>1. x \in Nat /\ Larger(x) \in Nat
        BY LargerFacts DEF Orbit
      <3>2. \A S \in Closed : x \in S => Larger(x) \in S
        BY DEF Closed
      <3> QED
        BY <3>1, <3>2 DEF Orbit
    <2>3. {n} \cup Orbit(Larger(n)) \in SUBSET Nat
      BY DEF Orbit
    <2> QED
      BY <2>1, <2>2, <2>3 DEF Closed
  <1>8. Orbit(n) \subseteq {n} \cup Orbit(Larger(n))
    BY <1>7 DEF Orbit
  <1> QED
    BY <1>1, <1>3, <1>6, <1>8

LEMMA GrowsExists ==
    ASSUME NEW min \in Nat
    PROVE  \E f : Grows(min, f)
  <1> DEFINE f == [n \in Nat |-> FirstEnough(n, min)]
  <1>1. ASSUME NEW n \in Nat, n >= min
        PROVE  FirstEnough(n, min) = n
    <2>1. n \in Enough(n, min) /\ \A k \in Enough(n, min) : k \in Nat /\ n <= k
      BY <1>1, OrbitFacts DEF Enough
    <2>2. \A k \in Enough(n, min) :
             (\A k2 \in Enough(n, min) : k <= k2) <=> k = n
      BY <2>1
    <2> QED
      BY <2>1, <2>2 DEF FirstEnough
  <1>2. ASSUME NEW n \in Nat, ~(n >= min)
        PROVE  FirstEnough(n, min) = FirstEnough(Larger(n), min)
    <2>1. Enough(n, min) = Enough(Larger(n), min)
      BY <1>2, OrbitFacts DEF Enough
    <2> QED
      BY <2>1 DEF FirstEnough
  <1>3. \A n \in Nat : FirstEnough(n, min) =
           IF n >= min THEN n ELSE FirstEnough(Larger(n), min)
    BY <1>1, <1>2
  <1>4. \A n \in Nat : f[Larger(n)] = FirstEnough(Larger(n), min)
    BY LargerFacts
  <1>5. Grows(min, f)
    BY <1>3, <1>4 DEF Grows
  <1> QED
    BY <1>5

LEMMA GrowsEnough ==
    ASSUME NEW min \in Nat, NEW f, Grows(min, f), NEW n \in Nat \ {0}
    PROVE  f[n] \in Nat /\ f[n] >= min
  <1> DEFINE Good(m) == f[m] \in Nat /\ f[m] >= min
             Bad == {d \in Nat : \E m \in Nat \ {0} : m <= min /\ d = min - m /\ ~Good(m)}
  <1>1. \A m \in Nat : f[m] = IF m >= min THEN m ELSE f[Larger(m)]
    BY DEF Grows
  <1>2. \A m \in Nat : m >= min => Good(m)
    BY <1>1
  <1>3. Bad = {}
    <2> SUFFICES ASSUME Bad # {} PROVE FALSE
      OBVIOUS
    <2>1. PICK d \in Bad : \A k \in Bad : d <= k
      <3>1. Bad \in SUBSET Nat
        OBVIOUS
      <3> HIDE DEF Bad
      <3> QED
        BY <3>1, LeastNatural
    <2>2. PICK m \in Nat \ {0} : m <= min /\ d = min - m /\ ~Good(m)
      BY <2>1
    <2>3. ~(m >= min)
      BY <1>2, <2>2
    <2>4. f[m] = f[Larger(m)]
      BY <1>1, <2>3
    <2>5. Larger(m) \in Nat \ {0} /\ m < Larger(m)
      BY LargerFacts
    <2>6. ~Good(Larger(m))
      BY <2>2, <2>4
    <2>7. ~(Larger(m) >= min)
      BY <1>2, <2>5, <2>6
    <2>8. PICK y : y = Larger(m)
      OBVIOUS
    <2>9. y \in Nat \ {0} /\ m < y /\ ~(y >= min) /\ ~Good(y)
      BY <2>5, <2>6, <2>7, <2>8
    <2> HIDE DEF Good
    <2>10. min - y \in Nat /\ y <= min /\ min - y < d
      BY <2>2, <2>9
    <2>11. min - y \in Bad
      BY <2>9, <2>10
    <2>12. d \in Nat /\ d <= min - y
      BY <2>1, <2>11
    <2> QED
      BY <2>10, <2>12
  <1>4. CASE n >= min
    BY <1>2, <1>4
  <1>5. CASE ~(n >= min)
    <2>1. n <= min /\ min - n \in Nat
      BY <1>5
    <2>2. min - n \notin Bad
      BY <1>3
    <2> QED
      BY <2>1, <2>2
  <1> QED
    BY <1>4, <1>5

LEMMA GrownSize ==
    ASSUME Types, NEW min \in Nat
    PROVE  NewL1Size(min) \in Nat /\ NewL1Size(min) >= min
  <1> DEFINE f == CHOOSE g : g = [n \in Nat |-> IF n >= min THEN n
                                                ELSE g[(n * 3 + 1) \div 2]]
  <1>1. \E g : g = [n \in Nat |-> IF n >= min THEN n ELSE g[(n * 3 + 1) \div 2]]
    BY GrowsExists DEF Grows, Larger
  <1>2. f = [n \in Nat |-> IF n >= min THEN n ELSE f[(n * 3 + 1) \div 2]]
    BY <1>1
  <1>3. Grows(min, f)
    BY <1>2 DEF Grows, Larger
  <1>4. (IF l1_size = 0 THEN 1 ELSE l1_size) \in Nat \ {0}
    BY L1Assumption DEF Types
  <1>5. NewL1Size(min) = f[IF l1_size = 0 THEN 1 ELSE l1_size]
    BY DEF NewL1Size
  <1> HIDE DEF f
  <1> QED
    BY <1>3, <1>4, <1>5, GrowsEnough

\* A longer table with nothing in the new entries.
LEMMA GrownCopies ==
    ASSUME NEW f, NEW t, NEW n \in 0..L1Max, NEW m \in 0..L1Max, n <= m,
           Tree(f, t, n)
    PROVE  Copies(f, t, n, f, Overlay(t, n, EmptyL1), m)
  <1> DEFINE u == Overlay(t, n, EmptyL1)
  <1>1. \A i \in L1Index : /\ i < n => u[i] = t[i]
                           /\ ~(i < n) => u[i] = EmptyL1[i]
    BY DEF Overlay
  <1>2. \A i \in L1Index : i < n => i < m
    BY L1Assumption DEF L1Index
  <1>3. \A i \in L1Index : Unflagged(EmptyL1[i]) /\ EmptyL1[i].host = 0
    BY Constants
  <1> HIDE DEF u
  <1>4. Used(u, m) = Used(t, n)
    BY <1>1, <1>2, <1>3 DEF Used
  <1>5. \A i \in L1Index : Unflagged(u[i])
    BY <1>1, <1>3 DEF Tree, Sound
  <1>6. Copies(f, t, n, f, u, m)
    BY <1>1, <1>4, <1>5 DEF Copies, Tree, Sound, Used
  <1> QED
    BY <1>6 DEF u

LEMMA GrowKeeps ==
    ASSUME IInv, GrowL1
    PROVE  IInv'
  <1>1. /\ op.step = "load_l1" /\ SizeOf(op.id) > l1_size
        /\ NewL1Size(SizeOf(op.id)) <= L1Max
        /\ l1' = Overlay(l1, l1_size, EmptyL1)
        /\ disk_l1' = Overlay(l1, l1_size, EmptyL1)
        /\ l1_size' = NewL1Size(SizeOf(op.id))
        /\ disk_l1_size' = NewL1Size(SizeOf(op.id))
        /\ drift' = FALSE
        /\ UNCHANGED <<file, rc, snaps, disk_rc, disk_snaps, disk_nb, snap_l1,
                       op, image, saved, leaky>>
    BY DEF GrowL1, GrownL1
  <1>2. /\ op \in Operation /\ l1 \in L1Tables /\ l1_size \in 0..L1Max
    BY DEF IInv, Types
  <1>3. op.k = "goto" /\ op.id \in Ids /\ op.id # NoId /\ Listed(op.id)
    BY <1>1, <1>2, Constants
       DEF IInv, Shape, CreateShape, GotoShape, DeleteShape, Idle, Operation
  <1>4. SizeOf(op.id) \in 0..L1Max /\ SizeOf(op.id) \in Nat
    BY <1>3, Sizes, L1Assumption DEF IInv
  <1>5. l1_size' \in 0..L1Max /\ l1_size <= l1_size'
    <2>1. PICK n : n = NewL1Size(SizeOf(op.id))
      OBVIOUS
    <2>2. n \in Nat /\ n >= SizeOf(op.id)
      BY <1>4, <2>1, GrownSize DEF IInv
    <2>3. n \in 0..L1Max /\ l1_size <= n
      BY <1>1, <1>2, <1>4, <2>1, <2>2, L1Assumption
    <2> QED
      BY <1>1, <2>1, <2>3
  <1>6. Overlay(l1, l1_size, EmptyL1) \in L1Tables
    BY <1>2, Constants DEF Overlay, L1Tables
  <1>7. Types'
    BY <1>1, <1>5, <1>6 DEF IInv, Types
  <1>8. /\ \A o : Listed(o)' <=> Listed(o)
        /\ \A o : SizeOf(o)' = SizeOf(o)
        /\ Distinct'
    BY <1>1, ListFrame DEF IInv
  <1>9. Trees'
    <2>1. ASSUME NEW o \in Owners'
          PROVE  \E p \in Owners :
                   Copies(file, TableOf(p), EntriesOf(p),
                          file', TableOf(o)', EntriesOf(o)')
      <3>0. o \in Owners
        BY <1>8 DEF Owners
      <3>1. Tree(file, TableOf(o), EntriesOf(o))
        BY <3>0 DEF IInv, Trees
      <3>2. CASE o = NoId
        <4>1. /\ TableOf(o) = l1 /\ EntriesOf(o) = l1_size
              /\ TableOf(o)' = Overlay(l1, l1_size, EmptyL1)
              /\ EntriesOf(o)' = l1_size'
          BY <1>1, <3>2 DEF TableOf, EntriesOf
        <4>2. Copies(file, l1, l1_size, file, Overlay(l1, l1_size, EmptyL1), l1_size')
          BY <1>2, <1>5, <3>1, <4>1, GrownCopies
        <4> QED
          BY <1>1, <3>0, <4>1, <4>2
      <3>3. CASE o # NoId
        <4>1. TableOf(o)' = TableOf(o) /\ EntriesOf(o)' = EntriesOf(o)
          BY <1>1, <1>8, <3>3 DEF TableOf, EntriesOf
        <4> QED
          BY <1>1, <3>0, <3>1, <4>1, CopyRefl
      <3> QED
        BY <3>2, <3>3
    <2> QED
      BY <1>7, <1>8, <2>1, TreesCopied
  <1>10. \A o \in Ids \cup {NoId} : Hold(o)' = Hold(o)
    <2>1. Hold(NoId) = Part(file, l1, l1_size, 0, 0)
      BY <1>1, <1>3 DEF Hold, First, Last
    <2>2. Hold(NoId)' = Part(file, l1', l1_size', 0, 0)
      BY <1>1, <1>3 DEF Hold, First, Last
    <2>3. Hold(NoId)' = Hold(NoId)
      BY <2>1, <2>2, <1>2, <1>5, PartEnds
    <2>4. ASSUME NEW o \in Ids
          PROVE  Hold(o)' = Hold(o)
      <3>1. HeldByNew(o)' = {} /\ HeldByNew(o) = {}
        BY <1>1, <1>3 DEF HeldByNew
      <3>2. HeldByOld(o)' = HeldByOld(o)
        BY <1>1, <1>8 DEF HeldByOld
      <3> QED
        BY <1>8, <3>1, <3>2, Constants DEF Hold
    <2> QED
      BY <2>3, <2>4
  <1>11. \A h : Holders(h)' = Holders(h)
    BY <1>10, HoldersKept
  <1>12. Counts'
    BY <1>1, <1>11, CountsKept DEF IInv
  <1>13. Last' = 0 /\ Flagged' = 0 /\ \A i \in L1Index : ~(i < 0)
    BY <1>1, <1>3, Constants DEF Last, Flagged
  <1>14. Exclusive' /\ Exact'
    BY <1>13 DEF Exclusive, Exact, Used
  <1>15. Shape'
    <2>1. op.on = "active"
      BY <1>3 DEF IInv, Shape, GotoShape
    <2> QED
      BY <1>1, <1>3, <1>8, <2>1
         DEF IInv, Shape, CreateShape, GotoShape, DeleteShape, InRefs
  <1>16. SameSize'
    BY <1>1 DEF SameSize
  <1>17. Synced'
    BY <1>1, <1>3 DEF Synced
  <1>18. Written'
    BY <1>1, <1>3 DEF Written
  <1>19. Listing'
    BY <1>1, <1>3 DEF IInv, Listing
  <1>20. Contents'
    <2>2. \A o \in Ids : Listed(o)' => \A c \in Clusters :
              ReadIn(file', snap_l1'[o], SizeOf(o)', c) = saved'[o][c]
      BY <1>1, <1>8 DEF IInv, Contents
    <2> QED
      BY <1>1, <1>3, <2>2 DEF Contents
  <1> QED
    BY <1>7, <1>8, <1>9, <1>12, <1>14, <1>15, <1>16, <1>17, <1>18, <1>19, <1>20
       DEF IInv
-----------------------------------------------------------------------------
(* A deleted snapshot leaves the list.                                     *)

Without(s, n) == SubSeq(s, 1, n - 1) \o SubSeq(s, n + 1, Len(s))

LEMMA WithoutFacts ==
    ASSUME NEW s \in Seq(Snapshot), NEW L, L = Len(s), NEW n \in 1..L
    PROVE  /\ Without(s, n) \in Seq(Snapshot) /\ Len(Without(s, n)) = L - 1
           /\ \A k \in 1..(L - 1) :
                 Without(s, n)[k] = IF k < n THEN s[k] ELSE s[k + 1]
  <1>1. L \in Nat /\ \A k \in 1..L : s[k] \in Snapshot
    OBVIOUS
  <1>2. PICK a : a = SubSeq(s, 1, n - 1)
    OBVIOUS
  <1>3. PICK b : b = SubSeq(s, n + 1, L)
    OBVIOUS
  <1>4. Without(s, n) = a \o b
    BY <1>2, <1>3 DEF Without
  <1>5. /\ 1 \in Int /\ n - 1 \in Int /\ n + 1 \in Int /\ L \in Int
        /\ \A k \in 1..(n - 1) : k \in 1..L
        /\ \A k \in (n + 1)..L : k \in 1..L
    BY <1>1
  <1>6. /\ a \in Seq(Snapshot) /\ Len(a) = IF 1 <= n - 1 THEN (n - 1) - 1 + 1 ELSE 0
        /\ \A k \in 1..((n - 1) - 1 + 1) : a[k] = s[1 + k - 1]
    BY <1>1, <1>2, <1>5, SubSeqProperties
  <1>7. /\ b \in Seq(Snapshot) /\ Len(b) = IF n + 1 <= L THEN L - (n + 1) + 1 ELSE 0
        /\ \A k \in 1..(L - (n + 1) + 1) : b[k] = s[(n + 1) + k - 1]
    BY <1>1, <1>3, <1>5, SubSeqProperties
  <1>8. /\ (a \o b) \in Seq(Snapshot) /\ Len(a \o b) = Len(a) + Len(b)
        /\ \A k \in 1..(Len(a) + Len(b)) :
              (a \o b)[k] = IF k <= Len(a) THEN a[k] ELSE b[k - Len(a)]
    BY <1>6, <1>7, ConcatProperties
  <1>9. PICK r : r = a \o b
    OBVIOUS
  <1>10. PICK la, lb : la = Len(a) /\ lb = Len(b)
    OBVIOUS
  <1>11. la = n - 1 /\ lb = L - n /\ la + lb = L - 1
    <2>1. la = IF 1 <= n - 1 THEN (n - 1) - 1 + 1 ELSE 0
      BY <1>6, <1>10
    <2>2. lb = IF n + 1 <= L THEN L - (n + 1) + 1 ELSE 0
      BY <1>7, <1>10
    <2>3. n \in Int /\ L \in Int /\ 1 <= n /\ n <= L
      BY <1>1
    <2>4. la = n - 1
      BY <2>1, <2>3
    <2>5. lb = L - n
      BY <2>2, <2>3
    <2> QED
      BY <2>3, <2>4, <2>5
  <1>12. \A k \in 1..(L - 1) : r[k] = IF k <= la THEN a[k] ELSE b[k - la]
    BY <1>8, <1>9, <1>10, <1>11
  <1>13. ASSUME NEW k \in 1..(L - 1)
         PROVE  r[k] = IF k < n THEN s[k] ELSE s[k + 1]
    <2>1. CASE k < n
      <3>1. k <= la /\ k \in 1..((n - 1) - 1 + 1) /\ 1 + k - 1 = k
        BY <1>1, <1>11, <2>1
      <3> QED
        BY <1>6, <1>12, <2>1, <3>1
    <2>2. CASE ~(k < n)
      <3>1. PICK m : m = k - la
        OBVIOUS
      <3>2. ~(k <= la) /\ m \in 1..(L - (n + 1) + 1) /\ (n + 1) + m - 1 = k + 1
        BY <1>1, <1>11, <2>2, <3>1
      <3>3. r[k] = b[m]
        BY <1>12, <3>1, <3>2
      <3> QED
        BY <1>7, <2>2, <3>2, <3>3
    <2> QED
      BY <2>1, <2>2
  <1> QED
    BY <1>4, <1>8, <1>9, <1>10, <1>11, <1>13

LEMMA ListRemove ==
    ASSUME NEW s \in Seq(Snapshot), DistinctIn(s), NEW n \in DOMAIN s,
           NEW r, r = Without(s, n)
    PROVE  /\ r \in Seq(Snapshot) /\ DistinctIn(r)
           /\ \A id : Has(r, id) <=> Has(s, id) /\ id # s[n].id
           /\ \A id : Has(r, id) => SizeIn(r, id) = SizeIn(s, id)
  <1>0. PICK L : L = Len(s)
    OBVIOUS
  <1>1. L \in Nat /\ n \in 1..L /\ DOMAIN s = 1..L
    BY <1>0
  <1>4. /\ r \in Seq(Snapshot) /\ DOMAIN r = 1..(L - 1)
        /\ \A k \in 1..(L - 1) : r[k] = IF k < n THEN s[k] ELSE s[k + 1]
    <2>1. /\ r \in Seq(Snapshot) /\ Len(r) = L - 1
          /\ \A k \in 1..(L - 1) : r[k] = IF k < n THEN s[k] ELSE s[k + 1]
      BY <1>0, <1>1, WithoutFacts
    <2>2. DOMAIN r = 1..Len(r)
      BY <2>1
    <2> QED
      BY <2>1, <2>2
  <1> DEFINE At(k) == IF k < n THEN k ELSE k + 1
  <1>5. \A k \in 1..(L - 1) : r[k] = s[At(k)] /\ At(k) \in 1..L /\ At(k) # n
    <2>1. \A k \in 1..(L - 1) : At(k) \in 1..L /\ At(k) # n
      BY <1>1
    <2> QED
      BY <1>4, <2>1
  <1>6. \A k, k2 \in 1..(L - 1) : At(k) = At(k2) => k = k2
    BY <1>1
  <1>7. \A m \in 1..L : m # n => \E k \in 1..(L - 1) : At(k) = m
    <2> SUFFICES ASSUME NEW m \in 1..L, m # n
                 PROVE  \E k \in 1..(L - 1) : At(k) = m
      OBVIOUS
    <2>1. CASE m < n
      <3>1. m \in 1..(L - 1) /\ At(m) = m
        BY <1>1, <2>1
      <3> QED
        BY <3>1
    <2>2. CASE ~(m < n)
      <3>1. m - 1 \in 1..(L - 1) /\ At(m - 1) = m
        BY <1>1, <2>2
      <3> QED
        BY <3>1
    <2> QED
      BY <2>1, <2>2
  <1> HIDE DEF At
  <1>8. DistinctIn(r)
    <2>1. \A k, k2 \in 1..L : s[k].id = s[k2].id => k = k2
      BY <1>1 DEF DistinctIn
    <2> QED
      BY <1>4, <1>5, <1>6, <2>1 DEF DistinctIn
  <1>9. \A id : Has(r, id) <=> Has(s, id) /\ id # s[n].id
    <2>1. ASSUME NEW id, Has(r, id)
          PROVE  Has(s, id) /\ id # s[n].id
      <3>1. PICK k \in 1..(L - 1) : r[k].id = id
        BY <1>4, <2>1 DEF Has
      <3> QED
        BY <1>1, <1>5, <3>1 DEF Has, DistinctIn
    <2>2. ASSUME NEW id, Has(s, id), id # s[n].id
          PROVE  Has(r, id)
      <3>1. PICK m \in 1..L : s[m].id = id
        BY <1>1, <2>2 DEF Has
      <3>2. PICK k \in 1..(L - 1) : At(k) = m
        BY <1>7, <2>2, <3>1
      <3> QED
        BY <1>4, <1>5, <3>1, <3>2 DEF Has
    <2> QED
      BY <2>1, <2>2
  <1>10. \A k \in DOMAIN r : \E k2 \in DOMAIN s : r[k] = s[k2]
    BY <1>1, <1>4, <1>5
  <1>11. \A id : Has(r, id) => SizeIn(r, id) = SizeIn(s, id)
    <2>1. r \in Seq(Snapshot)
      BY <1>4
    <2> QED
      BY <2>1, <1>8, <1>10, ListWithin
  <1> QED
    BY <1>4, <1>8, <1>9, <1>11

LEMMA DropKeeps ==
    ASSUME IInv, Drop
    PROVE  IInv'
  <1>1. /\ op.step = "drop"
        /\ snaps' = Without(snaps, find_snapshot_by_id(op.id))
        /\ op' = [op EXCEPT !.step = "list"]
        /\ UNCHANGED <<file, l1, l1_size, rc, disk_l1, disk_l1_size, disk_rc,
                       disk_snaps, disk_nb, snap_l1, image, saved, drift, leaky>>
    BY DEF Drop, diskVars, history, Without
  <1>2. op \in Operation /\ snaps \in Seq(Snapshot)
    BY DEF IInv, Types
  <1>3. /\ op.k = "delete" /\ op.id \in Ids /\ op.id # NoId /\ op.on = "active"
        /\ Listed(op.id)
    BY <1>1, <1>2, Constants
       DEF IInv, Shape, CreateShape, GotoShape, DeleteShape, Idle, Operation
  <1>4. /\ op'.k = op.k /\ op'.id = op.id /\ op'.step = "list" /\ op'.on = op.on
        /\ op'.addend = op.addend /\ op'.i = op.i /\ op'.tab = op.tab
        /\ op'.modified = op.modified /\ op' \in Operation
    BY <1>1, <1>2 DEF Operation
  <1>5. PICK n \in DOMAIN snaps :
          /\ snaps[n].id = op.id
          /\ snaps' = Without(snaps, n)
    <2>1. /\ find_snapshot_by_id(op.id) \in DOMAIN snaps
          /\ snaps[find_snapshot_by_id(op.id)].id = op.id
      BY <1>3 DEF Listed, find_snapshot_by_id
    <2> QED
      BY <1>1, <2>1
  <1>6. /\ snaps' \in Seq(Snapshot) /\ DistinctIn(snaps')
        /\ \A o : Has(snaps', o) <=> Has(snaps, o) /\ o # op.id
        /\ \A o : Has(snaps', o) => SizeIn(snaps', o) = SizeIn(snaps, o)
    <2>1. DistinctIn(snaps)
      BY ListNames DEF IInv
    <2> QED
      BY <1>2, <1>5, <2>1, ListRemove
  <1>7. /\ \A o : Listed(o)' <=> Listed(o) /\ o # op.id
        /\ \A o : Listed(o)' => SizeOf(o)' = SizeOf(o)
        /\ Distinct'
    BY <1>6, ListNames, ListNamesNext
  <1>8. Types'
    BY <1>1, <1>4, <1>6 DEF IInv, Types
  <1>9. Trees'
    <2>1. ASSUME NEW o \in Owners'
          PROVE  \E p \in Owners :
                   Copies(file, TableOf(p), EntriesOf(p),
                          file', TableOf(o)', EntriesOf(o)')
      <3>1. o \in Owners
        BY <1>7 DEF Owners
      <3>2. TableOf(o)' = TableOf(o) /\ EntriesOf(o)' = EntriesOf(o)
        BY <1>1, <1>7 DEF Owners, TableOf, EntriesOf
      <3>3. Tree(file, TableOf(o), EntriesOf(o))
        BY <3>1 DEF IInv, Trees
      <3> QED
        BY <1>1, <3>1, <3>2, <3>3, CopyRefl
    <2> QED
      BY <1>7, <1>8, <2>1, TreesCopied
  <1>10. /\ First = 0 /\ Last = L1Max /\ Flagged = L1Max
         /\ First' = 0 /\ Last' = L1Max /\ Flagged' = L1Max
    BY <1>1, <1>3, <1>4 DEF First, Last, Flagged
  <1>11. \A o \in Ids \cup {NoId} : Hold(o)' = Hold(o)
    <2>1. Hold(NoId)' = Hold(NoId)
      BY <1>1, <1>10 DEF Hold
    <2>2. ASSUME NEW o, o = op.id
          PROVE  Hold(o)' = Hold(o)
      <3>1. Hold(o) = {}
        BY <1>1, <1>3, <2>2 DEF Hold, HeldByOld
      <3>2. Hold(o)' = {}
        BY <1>3, <1>4, <1>7, <2>2 DEF Hold, HeldByNew
      <3> QED
        BY <3>1, <3>2
    <2>3. ASSUME NEW o \in Ids, o # op.id
          PROVE  Hold(o)' = Hold(o)
      <3>1. HeldByNew(o)' = {} /\ HeldByNew(o) = {}
        BY <1>3, <1>4 DEF HeldByNew
      <3>2. Listed(o) => HeldByOld(o)' = HeldByOld(o)
        BY <1>1, <1>4, <1>7, <2>3 DEF HeldByOld
      <3> QED
        BY <1>7, <2>3, <3>1, <3>2, Constants DEF Hold
    <2> QED
      BY <2>1, <2>2, <2>3
  <1>12. \A h : Holders(h)' = Holders(h)
    BY <1>11, HoldersKept
  <1>13. Counts' /\ Exclusive' /\ Exact'
    BY <1>1, <1>10, <1>12, CountsKept, ExclusiveKept, ExactKept DEF IInv
  <1>14. Shape'
    BY <1>1, <1>3, <1>4, <1>7 DEF Shape, CreateShape, GotoShape, DeleteShape, InRefs
  <1>15. SameSize'
    BY <1>1 DEF IInv, SameSize
  <1>16. Synced'
    <2>1. ~(leaky /\ drift) => Equal
      BY <1>1, <1>3 DEF IInv, Synced, InRefs
    <2>2. Equal' <=> Equal
      BY <1>1 DEF Equal
    <2> QED
      BY <1>1, <1>3, <1>4, <2>1, <2>2 DEF Synced
  <1>17. Written'
    BY <1>1, <1>3, <1>4 DEF IInv, Written, InRefs
  <1>18. Listing'
    BY <1>3, <1>4 DEF Listing
  <1>19. Contents'
    <2>1. \A c \in Clusters : ReadIn(file, l1, l1_size, c) = image[c]
      BY <1>3 DEF IInv, Contents
    <2>2. \A o \in Ids : Listed(o)' => \A c \in Clusters :
              ReadIn(file', snap_l1'[o], SizeOf(o)', c) = saved'[o][c]
      BY <1>1, <1>7 DEF IInv, Contents
    <2> QED
      BY <1>1, <1>3, <1>4, <2>1, <2>2 DEF Contents
  <1> QED
    BY <1>7, <1>8, <1>9, <1>13, <1>14, <1>15, <1>16, <1>17, <1>18, <1>19 DEF IInv

-----------------------------------------------------------------------------
(* The image is opened again.                                              *)

\* What the file has of the active L1 table between operations and while a
\* snapshot is made.
LEMMA FileTable ==
    ASSUME IInv, op.k \in {"idle", "create"}, ~drift
    PROVE  /\ disk_l1_size = l1_size /\ First = 0 /\ Last = L1Max /\ Flagged = L1Max
           /\ op.k = "idle" => Equal
           /\ \A i \in L1Index : i < l1_size =>
                /\ disk_l1[i].host = l1[i].host
                /\ Unflagged(disk_l1[i])
                /\ disk_l1[i].host # 0 /\ disk_l1[i].copied =>
                      Holders(l1[i].host) \subseteq {NoId, op.id}
  <1>1. disk_l1_size = l1_size
    BY DEF IInv, SameSize
  <1>2. First = 0 /\ Last = L1Max /\ Flagged = L1Max
    BY DEF First, Last, Flagged
  <1>3. op.k = "idle" => Equal
    BY DEF IInv, Synced, Shape, Idle, InRefs
  <1>4. CASE op.k = "create" /\ op.step = "refs"
    BY <1>1, <1>2, <1>4 DEF IInv, Synced
  <1>5. CASE ~(op.k = "create" /\ op.step = "refs")
    <2>1. ~InRefs
      BY <1>5 DEF IInv, Shape, CreateShape, Idle, InRefs
    <2>2. Equal
      BY <2>1 DEF IInv, Synced
    <2>3. Tree(file, l1, l1_size)
      BY DEF IInv, Trees, Owners, TableOf, EntriesOf
    <2>4. ASSUME NEW i \in L1Index, i < l1_size
          PROVE  /\ disk_l1[i].host = l1[i].host
                 /\ Unflagged(disk_l1[i])
                 /\ disk_l1[i].host # 0 /\ disk_l1[i].copied =>
                      Holders(l1[i].host) \subseteq {NoId, op.id}
      <3>1. disk_l1[i] = l1[i]
        BY <2>2, <2>4 DEF Equal
      <3>2. Unflagged(l1[i])
        BY <2>3, <2>4 DEF Tree, Sound
      <3>3. l1[i].host # 0 => i \in Used(l1, l1_size) /\ First <= i /\ i < Last
        BY <1>2, <2>4, Constants DEF Used
      <3>4. l1[i].host # 0 => Own(l1[i])
        BY <3>3 DEF IInv, Exclusive
      <3> QED
        BY <3>1, <3>2, <3>4 DEF Own
    <2> QED
      BY <1>1, <1>2, <1>3, <2>4
  <1> QED
    BY <1>4, <1>5

\* The list of the file is the first part of the list in memory.
LEMMA FileList ==
    ASSUME IInv, op.k \in {"idle", "create"},
           NEW s, s = SubSeq(disk_snaps, 1, disk_nb)
    PROVE  /\ s \in Seq(Snapshot) /\ Len(s) = disk_nb /\ DistinctIn(s)
           /\ \A k \in 1..disk_nb : s[k] = disk_snaps[k] /\ s[k] = snaps[k]
           /\ \A o : Has(s, o) => Has(snaps, o) /\ SizeIn(s, o) = SizeIn(snaps, o)
           /\ op.k = "create" => ~Has(s, op.id)
           /\ op.k = "idle" /\ ~leaky => s = snaps
  <1>1. /\ snaps \in Seq(Snapshot) /\ disk_snaps \in Seq(Snapshot) /\ disk_nb \in Nat
        /\ DistinctIn(snaps)
    BY ListNames DEF IInv, Types
  <1>2. /\ disk_nb <= Len(snaps) /\ disk_nb <= Len(disk_snaps)
        /\ \A k \in 1..disk_nb : disk_snaps[k] = snaps[k]
        /\ ~leaky /\ op.k # "create" => disk_nb = Len(snaps)
        /\ op.k = "create" /\ op.step \in {"list", "count"} =>
              snaps[Len(snaps)].id = op.id /\ disk_nb < Len(snaps)
    BY DEF IInv, Listing
  <1>3. /\ s \in Seq(Snapshot) /\ Len(s) = disk_nb
        /\ \A k \in 1..disk_nb : s[k] = disk_snaps[k]
    <2>1. \A k \in 1..disk_nb : disk_snaps[k] \in Snapshot
      <3>1. \A k \in 1..disk_nb : k \in 1..Len(disk_snaps)
        BY <1>1, <1>2
      <3> QED
        BY <1>1, <3>1
    <2>2. 1 \in Int /\ disk_nb \in Int
      BY <1>1
    <2>3. /\ s \in Seq(Snapshot)
          /\ Len(s) = IF 1 <= disk_nb THEN disk_nb - 1 + 1 ELSE 0
          /\ \A k \in 1..(disk_nb - 1 + 1) : s[k] = disk_snaps[1 + k - 1]
      BY <2>1, <2>2, SubSeqProperties
    <2>4. disk_nb - 1 + 1 = disk_nb /\ \A k \in 1..disk_nb : 1 + k - 1 = k
      BY <1>1
    <2>5. Len(s) = disk_nb
      BY <1>1, <2>3
    <2> QED
      BY <2>3, <2>4, <2>5
  <1>4. DOMAIN s = 1..disk_nb /\ DOMAIN snaps = 1..Len(snaps) /\ Len(snaps) \in Nat
    BY <1>1, <1>3
  <1>5. \A k \in 1..disk_nb : k \in 1..Len(snaps)
    <2>1. PICK L : L = Len(snaps)
      OBVIOUS
    <2>2. L \in Nat /\ disk_nb \in Nat /\ disk_nb <= L
      BY <1>1, <1>2, <1>4, <2>1
    <2>3. \A k \in 1..disk_nb : k \in 1..L
      BY <2>2
    <2> QED
      BY <2>1, <2>3
  <1>6. \A k \in 1..disk_nb : s[k] = snaps[k]
    BY <1>2, <1>3
  <1>7. DistinctIn(s)
    BY <1>1, <1>4, <1>5, <1>6 DEF DistinctIn
  <1>8. \A k \in DOMAIN s : \E k2 \in DOMAIN snaps : s[k] = snaps[k2]
    BY <1>4, <1>5, <1>6
  <1>9. \A o : Has(s, o) => Has(snaps, o) /\ SizeIn(s, o) = SizeIn(snaps, o)
    <2>1. s \in Seq(Snapshot)
      BY <1>3
    <2> QED
      BY <1>1, <1>7, <1>8, <2>1, ListWithin
  <1>10. op.k = "create" => ~Has(s, op.id)
    <2> SUFFICES ASSUME op.k = "create", Has(s, op.id) PROVE FALSE
      OBVIOUS
    <2>1. Listed(op.id)
      BY <1>9, ListNames
    <2>2. op.step \in {"list", "count"}
      BY <2>1 DEF IInv, Shape, CreateShape
    <2>3. snaps[Len(snaps)].id = op.id /\ disk_nb < Len(snaps)
      BY <1>2, <2>2
    <2>4. PICK k \in 1..disk_nb : s[k].id = op.id
      BY <1>4 DEF Has
    <2>5. snaps[k].id = op.id /\ k \in DOMAIN snaps
      BY <1>4, <1>5, <1>6, <2>4
    <2>6. Len(snaps) \in DOMAIN snaps /\ k # Len(snaps)
      <3>1. PICK L : L = Len(snaps)
        OBVIOUS
      <3>2. L \in Nat /\ disk_nb \in Nat /\ disk_nb < L /\ DOMAIN snaps = 1..L
        BY <1>1, <1>4, <2>3, <3>1
      <3>3. L \in 1..L /\ k # L
        BY <2>4, <3>2
      <3> QED
        BY <3>1, <3>2, <3>3
    <2> QED
      BY <1>1, <2>3, <2>5, <2>6 DEF DistinctIn
  <1>11. op.k = "idle" /\ ~leaky => s = snaps
    <2> SUFFICES ASSUME op.k = "idle", ~leaky PROVE s = snaps
      OBVIOUS
    <2>1. Len(snaps) = disk_nb
      BY <1>2
    <2>2. s \in Seq(Snapshot) /\ Len(s) = Len(snaps) /\ \A k \in 1..Len(s) : s[k] = snaps[k]
      BY <1>3, <1>6, <2>1
    <2> QED
      BY <1>1, <2>2, SeqEqual
  <1> QED
    BY <1>3, <1>6, <1>7, <1>9, <1>10, <1>11

LEMMA ReopenKeeps ==
    ASSUME Supported, IInv, Reopen
    PROVE  IInv'
  <1>1. /\ op.k \in {"idle", "create"} /\ ~drift
        /\ l1' = Overlay(disk_l1, disk_l1_size, EmptyL1)
        /\ l1_size' = disk_l1_size
        /\ rc' = disk_rc
        /\ snaps' = SubSeq(disk_snaps, 1, disk_nb)
        /\ op' = Idle
        /\ leaky' = (leaky \/ op.k # "idle")
        /\ drift' = FALSE
        /\ UNCHANGED <<file, disk_l1, disk_l1_size, disk_rc, disk_snaps, disk_nb,
                       snap_l1, image, saved>>
    BY DEF Reopen, Supported, diskVars
  <1>2. /\ disk_l1_size = l1_size /\ First = 0 /\ Last = L1Max /\ Flagged = L1Max
        /\ op.k = "idle" => Equal
        /\ \A i \in L1Index : i < l1_size =>
             /\ disk_l1[i].host = l1[i].host
             /\ Unflagged(disk_l1[i])
             /\ disk_l1[i].host # 0 /\ disk_l1[i].copied =>
                   Holders(l1[i].host) \subseteq {NoId, op.id}
    BY <1>1, FileTable
  <1>3. l1_size' = l1_size /\ \A i \in L1Index : i < l1_size => l1'[i] = disk_l1[i]
    BY <1>1, <1>2 DEF Overlay
  <1>4. /\ snaps' \in Seq(Snapshot) /\ Len(snaps') = disk_nb /\ DistinctIn(snaps')
        /\ \A k \in 1..disk_nb : snaps'[k] = disk_snaps[k]
        /\ \A o : Has(snaps', o) => Has(snaps, o) /\ SizeIn(snaps', o) = SizeIn(snaps, o)
        /\ op.k = "create" => ~Has(snaps', op.id)
        /\ op.k = "idle" /\ ~leaky => snaps' = snaps
    BY <1>1, FileList
  <1>5. /\ \A o : Listed(o)' => Listed(o) /\ SizeOf(o)' = SizeOf(o)
        /\ \A o : op.k = "create" /\ o = op.id => ~Listed(o)'
        /\ op.k = "idle" /\ ~leaky => \A o : Listed(o)' <=> Listed(o)
        /\ Distinct'
    BY <1>4, ListNames, ListNamesNext
  <1>6. /\ op'.k = "idle" /\ op'.id = NoId /\ op'.step = "idle" /\ op'.on = "active"
        /\ op'.modified = FALSE /\ op' \in Operation
    BY <1>1, Constants DEF Idle
  <1>7. l1' \in L1Tables
    BY <1>1, Constants DEF IInv, Types, Overlay, L1Tables
  <1>8. leaky' \in BOOLEAN /\ drift' \in BOOLEAN
    BY <1>1
  <1>9. Types'
    BY <1>1, <1>4, <1>6, <1>7, <1>8 DEF IInv, Types
  <1>10. Tree(file, l1, l1_size) /\ l1_size \in 0..L1Max
    BY DEF IInv, Types, Trees, Owners, TableOf, EntriesOf
  <1>11. Copies(file, l1, l1_size, file, l1', l1_size)
    <2>1. \A i \in L1Index : i < l1_size => l1'[i].host = l1[i].host /\ Unflagged(l1'[i])
      BY <1>2, <1>3
    <2> QED
      BY <1>10, <2>1, CopyTable
  <1>12. /\ Used(l1', l1_size) = Used(l1, l1_size)
         /\ \A lo, hi : Part(file, l1', l1_size, lo, hi) = Part(file, l1, l1_size, lo, hi)
         /\ \A c \in Clusters : ReadIn(file, l1', l1_size, c) = ReadIn(file, l1, l1_size, c)
    BY <1>10, <1>11, CopyTree DEF Copies
  <1>13. Trees'
    <2>1. ASSUME NEW o \in Owners'
          PROVE  \E p \in Owners :
                   Copies(file, TableOf(p), EntriesOf(p),
                          file', TableOf(o)', EntriesOf(o)')
      <3>0. o \in Owners
        BY <1>5 DEF Owners
      <3>1. CASE o = NoId
        <4>1. /\ TableOf(o) = l1 /\ EntriesOf(o) = l1_size
              /\ TableOf(o)' = l1' /\ EntriesOf(o)' = l1_size
          BY <1>3, <3>1 DEF TableOf, EntriesOf
        <4> QED
          BY <1>1, <1>11, <3>0, <4>1
      <3>2. CASE o # NoId
        <4>1. TableOf(o)' = TableOf(o) /\ EntriesOf(o)' = EntriesOf(o)
          BY <1>1, <1>5, <3>2 DEF Owners, TableOf, EntriesOf
        <4>2. Tree(file, TableOf(o), EntriesOf(o))
          BY <3>0 DEF IInv, Trees
        <4> QED
          BY <1>1, <3>0, <4>1, <4>2, CopyRefl
      <3> QED
        BY <3>1, <3>2
    <2> QED
      BY <1>5, <1>9, <2>1, TreesCopied
  <1>14. Shape'
    BY <1>1, <1>6 DEF Shape, CreateShape, GotoShape, DeleteShape, InRefs
  <1>15. AllHeld'
    BY <1>6, <1>14, HoldQuietNext DEF Quiet
  <1>16. /\ First' = 0 /\ Last' = L1Max /\ Flagged' = L1Max
         /\ Hold(NoId)' = Part(file, l1', l1_size, 0, L1Max)
         /\ \A id \in Ids : Hold(id)' =
              IF Listed(id)' THEN Part(file, snap_l1[id], SizeOf(id)', 0, L1Max)
              ELSE {}
    BY <1>1, <1>3, <1>15 DEF AllHeld
  <1>17. Hold(NoId)' = Hold(NoId)
    BY <1>2, <1>12, <1>16 DEF Hold
  <1>18. \A id \in Ids : Listed(id) => Hold(id) = Part(file, snap_l1[id], SizeOf(id), 0, L1Max)
    BY <1>1, Constants DEF Hold, HeldByOld
  <1>19. \A o \in Ids \cup {NoId} : /\ Hold(o)' \subseteq Hold(o)
                                    /\ op.k = "create" /\ o = op.id => Hold(o)' = {}
    <2>1. op.k = "create" => op.id \in Ids /\ op.id # NoId
      BY Constants DEF IInv, Shape, CreateShape
    <2> QED
      BY <1>5, <1>16, <1>17, <1>18, <2>1
  <1>20. /\ \A h : Holders(h)' \subseteq Holders(h)
         /\ op.k = "create" => \A h : Holders(h)' \subseteq Holders(h) \ {op.id}
    <2>1. \A h : Holders(h)' \subseteq Holders(h)
      BY <1>19, HoldersShrink
    <2>2. ASSUME NEW o, o = op.id, op.k = "create"
          PROVE  \A h : o \notin Holders(h)'
      BY <1>19, <2>2 DEF Holders
    <2> QED
      BY <2>1, <2>2
  <1>21. op.k = "idle" /\ ~leaky => \A h : Holders(h)' = Holders(h)
    <2> SUFFICES ASSUME op.k = "idle", ~leaky PROVE \A h : Holders(h)' = Holders(h)
      OBVIOUS
    <2>1. \A id \in Ids : Hold(id)' = Hold(id)
      BY <1>5, <1>16, HoldIdle
    <2> QED
      BY <1>17, <2>1, HoldersKept
  <1>22. op.k = "idle" => rc' = rc
    BY <1>1 DEF IInv, Written
  <1>23. Counts'
    <2> SUFFICES ASSUME NEW h \in Host
                 PROVE  /\ Cardinality(Holders(h)') <= rc'[h]
                        /\ ~leaky' => Cardinality(Holders(h)') = rc'[h]
      BY DEF Counts
    <2>1. IsFiniteSet(Holders(h)) /\ IsFiniteSet(Holders(h) \ {op.id})
      <3>1. IsFiniteSet(Holders(h))
        BY HoldersFinite DEF IInv
      <3> QED
        BY <3>1, FS_Subset
    <2>2. CASE op.k = "create"
      <3>1. Cardinality(Holders(h) \ {op.id}) <= disk_rc[h]
        <4>1. CASE op.step = "refs"
          BY <2>2, <4>1 DEF IInv, Written
        <4>2. CASE op.step # "refs"
          <5>1. disk_rc = rc /\ Cardinality(Holders(h)) <= rc[h] /\ rc[h] \in Nat
            BY <2>2, <4>2 DEF IInv, Written, Counts, Types
          <5>2. Cardinality(Holders(h) \ {op.id}) <= Cardinality(Holders(h))
            BY <2>1, FS_Subset
          <5>3. Cardinality(Holders(h)) \in Nat /\ Cardinality(Holders(h) \ {op.id}) \in Nat
            BY <2>1, FS_CardinalityType
          <5> QED
            BY <5>1, <5>2, <5>3
        <4> QED
          BY <4>1, <4>2
      <3>2. /\ IsFiniteSet(Holders(h)')
            /\ Cardinality(Holders(h)') <= Cardinality(Holders(h) \ {op.id})
        BY <1>20, <2>1, <2>2, FS_Subset
      <3>3. /\ Cardinality(Holders(h)') \in Nat
            /\ Cardinality(Holders(h) \ {op.id}) \in Nat /\ disk_rc[h] \in Nat
        BY <2>1, <3>2, FS_CardinalityType DEF IInv, Types
      <3>4. Cardinality(Holders(h)') <= disk_rc[h]
        BY <3>1, <3>2, <3>3
      <3> QED
        BY <1>1, <2>2, <3>4
    <2>3. CASE op.k = "idle"
      <3>1. /\ Cardinality(Holders(h)) <= rc[h] /\ rc[h] \in Nat
            /\ ~leaky => Cardinality(Holders(h)) = rc[h]
        BY DEF IInv, Counts, Types
      <3>2. /\ IsFiniteSet(Holders(h)')
            /\ Cardinality(Holders(h)') <= Cardinality(Holders(h))
        BY <1>20, <2>1, FS_Subset
      <3>3. /\ Cardinality(Holders(h)') \in Nat /\ Cardinality(Holders(h)) \in Nat
        BY <2>1, <3>2, FS_CardinalityType
      <3>4. Cardinality(Holders(h)') <= rc[h]
        BY <3>1, <3>2, <3>3
      <3>5. ~leaky => Cardinality(Holders(h)') = rc[h]
        BY <1>21, <2>3, <3>1
      <3> QED
        BY <1>1, <1>22, <2>3, <3>4, <3>5
    <2> QED
      BY <1>1, <2>2, <2>3
  <1>24. Exclusive'
    <2>1. ASSUME NEW i \in Used(l1, l1_size)
          PROVE  /\ Own(l1[i])'
                 /\ \A j \in L2Index : file[l1'[i].host][j].host # 0 =>
                       Own(file[l1[i].host][j])'
      <3>1. i \in L1Index /\ i < l1_size /\ l1[i].host # 0
        BY DEF Used
      <3>2. /\ l1'[i] = disk_l1[i] /\ disk_l1[i].host = l1[i].host
            /\ disk_l1[i].copied => Holders(l1[i].host) \subseteq {NoId, op.id}
        BY <1>2, <1>3, <3>1
      <3>3. First <= i /\ i < Last
        BY <1>2, <3>1, Constants
      <3>4. \A h : Holders(h) \subseteq {NoId, op.id} => Holders(h)' \subseteq {NoId}
        <4>1. op.k = "idle" => op.id = NoId
          BY DEF IInv, Shape, Idle
        <4> QED
          BY <1>1, <1>20, <4>1
      <3>5. Own(l1[i])'
        BY <3>2, <3>4 DEF Own
      <3>6. \A j \in L2Index : file[l1[i].host][j].host # 0 => Own(file[l1[i].host][j])
        BY <3>3 DEF IInv, Exclusive
      <3>7. \A j \in L2Index : file[l1'[i].host][j].host # 0 => Own(file[l1[i].host][j])'
        BY <1>1, <1>20, <3>2, <3>6 DEF Own
      <3> QED
        BY <3>5, <3>7
    <2> QED
      BY <1>1, <1>3, <1>12, <2>1 DEF Exclusive
  <1>25. Exact'
    <2> SUFFICES ASSUME ~leaky'
                 PROVE  \A i \in Used(l1', l1_size') :
                          /\ l1'[i].copied <=> rc'[l1'[i].host] = 1
                          /\ \A j \in L2Index :
                               file'[l1'[i].host][j].host # 0 =>
                                 (file'[l1'[i].host][j].copied
                                    <=> rc'[file'[l1'[i].host][j].host] = 1)
      BY <1>3 DEF Exact, Used
    <2>1. ~leaky /\ op.k = "idle"
      BY <1>1
    <2>2. \A i \in Used(l1, l1_size) : l1'[i] = l1[i] /\ i < Flagged
      BY <1>2, <1>3, <2>1, Constants DEF Used, Equal
    <2> QED
      BY <1>1, <1>3, <1>12, <1>22, <2>1, <2>2 DEF IInv, Exact
  <1>26. SameSize'
    BY <1>1 DEF SameSize
  <1>27. Synced'
    <2>1. Equal'
      BY <1>1, <1>2, <1>3 DEF Equal
    <2> QED
      BY <1>6, <2>1 DEF Synced
  <1>28. Written'
    BY <1>1, <1>6 DEF Written
  <1>29. Listing'
    <2>1. disk_nb \in Nat /\ disk_nb <= disk_nb /\ disk_nb <= Len(disk_snaps)
      BY <1>1 DEF IInv, Types, Listing
    <2> QED
      BY <1>1, <1>4, <1>6, <2>1 DEF Listing
  <1>30. Contents'
    <2>1. \A c \in Clusters : ReadIn(file, l1', l1_size, c) = image[c]
      BY <1>1, <1>12 DEF IInv, Contents
    <2>2. \A o \in Ids : Listed(o)' => \A c \in Clusters :
              ReadIn(file', snap_l1'[o], SizeOf(o)', c) = saved'[o][c]
      BY <1>1, <1>5 DEF IInv, Contents
    <2> QED
      BY <1>1, <1>3, <1>6, <2>1, <2>2 DEF Contents
  <1> QED
    BY <1>5, <1>9, <1>13, <1>14, <1>23, <1>24, <1>25, <1>26, <1>27, <1>28, <1>29, <1>30
       DEF IInv

-----------------------------------------------------------------------------
(* A write of the guest.  It changes the active tree alone, in two steps:  *)
(* the L2 table becomes the image's own, then the data cluster is written. *)

\* The active tree t of n entries over f, with refcounts c, next to the
\* snapshots: N[h] of them hold cluster h, their tables are in T and their
\* data clusters in D.
Reaches(f, t, n, h) == \E k \in Used(t, n) : Covers(f, t[k], h)
One(b) == IF b THEN 1 ELSE 0
ActiveCounts(f, t, n, c, N, leak) ==
    \A h \in Host : /\ N[h] + One(Reaches(f, t, n, h)) <= c[h]
                    /\ ~leak => N[h] + One(Reaches(f, t, n, h)) = c[h]
ActiveFlags(f, t, n, N) ==
    \A k \in Used(t, n) :
        /\ t[k].copied => N[t[k].host] = 0
        /\ \A j \in L2Index :
              f[t[k].host][j].host # 0 /\ f[t[k].host][j].copied =>
                  N[f[t[k].host][j].host] = 0
ActiveExact(f, t, n, c) ==
    \A k \in Used(t, n) :
        /\ t[k].copied <=> c[t[k].host] = 1
        /\ \A j \in L2Index : f[t[k].host][j].host # 0 =>
              (f[t[k].host][j].copied <=> c[f[t[k].host][j].host] = 1)
ActiveApart(f, t, n, T, D) ==
    \A k \in Used(t, n) : /\ t[k].host \notin D
                          /\ \A j \in L2Index : f[t[k].host][j].host \notin T
ActiveTypes(f, t, n, c) ==
    /\ f \in [Host -> Content] /\ t \in L1Tables /\ n \in 0..L1Max
    /\ c \in [Host -> Nat]
Active(f, t, n, c, N, T, D, leak) ==
    /\ ActiveTypes(f, t, n, c)
    /\ Tree(f, t, n) /\ Apart(f, t, n, t, n)
    /\ ActiveApart(f, t, n, T, D)
    /\ ActiveCounts(f, t, n, c, N, leak)
    /\ ActiveFlags(f, t, n, N)
    /\ ~leak => ActiveExact(f, t, n, c)

Others(N, T, D) ==
    /\ N \in [Host -> Nat] /\ T \subseteq Host
    /\ \A h \in Host : N[h] = 0 => h \notin T /\ h \notin D

LEMMA ActiveHosts ==
    ASSUME NEW f, NEW t, NEW n, NEW c, ActiveTypes(f, t, n, c), Tree(f, t, n)
    PROVE  \A k \in Used(t, n) :
             /\ k \in L1Index /\ k < n /\ t[k] \in Entries
             /\ t[k].host \in Host /\ t[k].host # 0
             /\ f[t[k].host] \in L2Tables
             /\ \A j \in L2Index :
                  /\ f[t[k].host][j] \in Entries
                  /\ Unflagged(f[t[k].host][j])
                  /\ f[t[k].host][j].host # 0 => f[t[k].host][j].host \in Host
  <1>1. \A x \in Entries : x.host # 0 => x.host \in Host
    BY HAssumption DEF Entries, Host
  <1>2. \A k \in Used(t, n) : k \in L1Index /\ k < n /\ t[k].host # 0 /\ t[k] \in Entries
    BY DEF Used, ActiveTypes, L1Tables
  <1>3. \A k \in Used(t, n) : /\ f[t[k].host] \in L2Tables
                              /\ \A j \in L2Index : Unflagged(f[t[k].host][j])
    BY DEF Tree, Sound
  <1>4. \A k \in Used(t, n) : \A j \in L2Index : f[t[k].host][j] \in Entries
    BY <1>3 DEF L2Tables
  <1> QED
    BY <1>1, <1>2, <1>3, <1>4

LEMMA LowestFreeFacts ==
    ASSUME NEW c, Free(c) # {}
    PROVE  LowestFree(c) \in Host /\ c[LowestFree(c)] = 0
  <1>1. Free(c) \in SUBSET Nat
    BY HAssumption DEF Free, Host
  <1>2. \E h \in Free(c) : \A k \in Free(c) : h <= k
    BY <1>1, LeastNatural
  <1>3. LowestFree(c) \in Free(c)
    BY <1>2 DEF LowestFree, Min
  <1> QED
    BY <1>3 DEF Free

\* A cluster that is free, or would be without entry i, is in no snapshot,
\* and in the active tree at most the table of entry i.
LEMMA FreeApart ==
    ASSUME NEW f, NEW t, NEW n, NEW c, NEW N, NEW T, NEW D, NEW leak,
           Active(f, t, n, c, N, T, D, leak), Others(N, T, D),
           NEW at \in Host, NEW i,
           c[at] = 0 \/ (i \in Used(t, n) /\ t[i].host = at /\ c[at] = 1)
    PROVE  /\ N[at] = 0 /\ at \notin T /\ at \notin D
           /\ \A k \in Used(t, n) :
                /\ k # i \/ c[at] = 0 => t[k].host # at
                /\ \A j \in L2Index : f[t[k].host][j].host # at
  <1>1. N[at] \in Nat /\ c[at] \in Nat /\ N[at] + One(Reaches(f, t, n, at)) <= c[at]
    BY DEF Active, ActiveTypes, ActiveCounts, Others
  <1>2. CASE c[at] = 0
    <2>1. N[at] = 0 /\ ~Reaches(f, t, n, at)
      BY <1>1, <1>2 DEF One
    <2> QED
      BY <2>1 DEF Others, Reaches, Covers
  <1>3. CASE i \in Used(t, n) /\ t[i].host = at /\ c[at] = 1
    <2>1. Reaches(f, t, n, at)
      BY <1>3 DEF Reaches, Covers
    <2>2. N[at] = 0
      BY <1>1, <1>3, <2>1 DEF One
    <2>3. \A k \in Used(t, n) : k # i => t[k].host # at
      BY <1>3 DEF Active, Tree, Injective
    <2>4. \A k \in Used(t, n) : \A j \in L2Index : f[t[k].host][j].host # at
      BY <1>3 DEF Active, Apart
    <2> QED
      BY <1>3, <2>2, <2>3, <2>4 DEF Others
  <1> QED
    BY <1>2, <1>3

\* get_cluster_table: the table of entry i, shared or missing, is copied to a
\* free cluster.
TableMoved(f, t, n, c, i, m, e, freed, at, tab, g, u, d) ==
    /\ e = IF i < n THEN t[i] ELSE None
    /\ ~e.copied
    /\ freed = IF e.host = 0 THEN c ELSE [c EXCEPT ![e.host] = c[e.host] - 1]
    /\ freed[at] = 0
    /\ tab = IF e.host = 0 THEN EmptyL2 ELSE f[e.host]
    /\ g = [f EXCEPT ![at] = tab]
    /\ u[i] = [host |-> at, copied |-> TRUE]
    /\ \A k \in L1Index : k # i => /\ k < n => u[k] = t[k]
                                   /\ ~(k < n) /\ k < m => u[k] = None
    /\ d = [freed EXCEPT ![at] = 1]

TableMoves(f, t, n, c, N, T, D, leak, i, m, e, freed, at, tab, g, u, d) ==
    /\ Active(f, t, n, c, N, T, D, leak) /\ Others(N, T, D)
    /\ i \in L1Index /\ m \in 0..L1Max /\ n <= m /\ i < m
    /\ at \in Host /\ u \in L1Tables
    /\ TableMoved(f, t, n, c, i, m, e, freed, at, tab, g, u, d)

LEMMA TableStep ==
    ASSUME NEW f, NEW t, NEW n, NEW c, NEW N, NEW T, NEW D, NEW leak,
           NEW i, NEW m, NEW e, NEW freed, NEW at, NEW tab, NEW g, NEW u, NEW d,
           TableMoves(f, t, n, c, N, T, D, leak, i, m, e, freed, at, tab, g, u, d)
    PROVE  /\ Active(g, u, m, d, N, T, D, leak)
           /\ N[at] = 0 /\ g[at] = tab /\ i \in Used(u, m)
           /\ \A h \in Host : h # at => g[h] = f[h]
           /\ \A x \in Clusters : ReadIn(g, u, m, x) = ReadIn(f, t, n, x)
  <1>0. /\ Active(f, t, n, c, N, T, D, leak) /\ Others(N, T, D)
        /\ i \in L1Index /\ m \in 0..L1Max /\ n <= m /\ i < m
        /\ at \in Host /\ u \in L1Tables
        /\ TableMoved(f, t, n, c, i, m, e, freed, at, tab, g, u, d)
    BY DEF TableMoves
  <1> USE <1>0 DEF TableMoved
  <1>1. /\ ActiveTypes(f, t, n, c) /\ Tree(f, t, n) /\ Apart(f, t, n, t, n)
        /\ f \in [Host -> Content] /\ t \in L1Tables /\ n \in 0..L1Max
        /\ c \in [Host -> Nat]
    BY DEF Active, ActiveTypes
  <1>2. \A k \in Used(t, n) :
             /\ k \in L1Index /\ k < n
             /\ t[k].host \in Host /\ t[k].host # 0
             /\ f[t[k].host] \in L2Tables
             /\ \A j \in L2Index :
                  /\ Unflagged(f[t[k].host][j])
                  /\ f[t[k].host][j].host # 0 => f[t[k].host][j].host \in Host
    BY <1>1, ActiveHosts
  <1>3. /\ i \in Used(t, n) => e = t[i] /\ e.host # 0
        /\ i \notin Used(t, n) => e.host = 0
    <2>1. None.host = 0
      BY DEF None
    <2> QED
      BY <2>1 DEF Used
  <1>4. i \in Used(t, n) => e.host \in Host /\ c[e.host] \in Nat /\ c[e.host] # 0
    <2>1. ASSUME i \in Used(t, n)
          PROVE  e.host \in Host /\ c[e.host] \in Nat /\ c[e.host] # 0
      <3>1. e.host \in Host /\ Reaches(f, t, n, e.host)
        BY <1>2, <1>3, <2>1 DEF Reaches, Covers
      <3>2. /\ N[e.host] \in Nat /\ c[e.host] \in Nat
            /\ N[e.host] + One(Reaches(f, t, n, e.host)) <= c[e.host]
        BY <1>1, <3>1 DEF Active, ActiveCounts, Others
      <3> QED
        BY <3>1, <3>2 DEF One
    <2> QED
      BY <2>1
  <1>5. /\ freed \in [Host -> Nat]
        /\ \A h \in Host : freed[h] = IF h = e.host THEN c[h] - 1 ELSE c[h]
    <2>1. CASE i \in Used(t, n)
      <3>1. freed = [c EXCEPT ![e.host] = c[e.host] - 1] /\ c[e.host] - 1 \in Nat
        BY <1>3, <1>4, <2>1
      <3> QED
        BY <1>1, <1>4, <2>1, <3>1
    <2>2. CASE i \notin Used(t, n)
      <3>1. freed = c /\ \A h \in Host : h # e.host
        BY <1>3, <2>2, HAssumption DEF Host
      <3> QED
        BY <1>1, <3>1
    <2> QED
      BY <2>1, <2>2
  <1>6. c[at] = 0 \/ (i \in Used(t, n) /\ t[i].host = at /\ c[at] = 1)
    <2>1. CASE at = e.host
      <3>1. at # 0 /\ c[at] \in Nat /\ freed[at] = c[at] - 1
        BY <1>1, <1>5, <2>1, HAssumption DEF Host
      <3> QED
        BY <1>3, <2>1, <3>1
    <2>2. CASE at # e.host
      BY <1>5, <2>2
    <2> QED
      BY <2>1, <2>2
  <1>7. /\ N[at] = 0 /\ at \notin T /\ at \notin D
        /\ \A k \in Used(t, n) :
             /\ k # i => t[k].host # at
             /\ \A j \in L2Index : f[t[k].host][j].host # at
    BY <1>6, FreeApart
  <1>8. /\ \A h : h # at => g[h] = f[h]
        /\ g[at] = tab
    BY <1>1
  <1>9. u[i].host = at /\ u[i].copied = TRUE
    OBVIOUS
  <1>10. Used(u, m) = Used(t, n) \cup {i}
    <2>1. at # 0
      BY HAssumption DEF Host
    <2>2. \A k \in L1Index : k < n => k < m
      BY <1>1, L1Assumption DEF L1Index
    <2>3. None.host = 0
      BY DEF None
    <2>4. ASSUME NEW k \in Used(u, m), k # i
          PROVE  k \in Used(t, n)
      BY <2>3, <2>4 DEF Used
    <2>5. ASSUME NEW k \in Used(t, n), k # i
          PROVE  k \in Used(u, m)
      BY <2>2, <2>5 DEF Used
    <2>6. i \in Used(u, m)
      BY <1>9, <2>1 DEF Used
    <2> QED
      BY <2>4, <2>5, <2>6
  <1>11. ASSUME NEW k \in Used(t, n), k # i
         PROVE  u[k] = t[k] /\ t[k].host # at /\ g[u[k].host] = f[t[k].host]
    BY <1>2, <1>7, <1>8, <1>11
  <1>12. /\ tab \in L2Tables
         /\ \A j \in L2Index : Unflagged(tab[j])
         /\ i \in Used(t, n) => tab = f[t[i].host]
         /\ i \notin Used(t, n) => \A j \in L2Index : tab[j].host = 0
    <2>1. CASE i \in Used(t, n)
      BY <1>2, <1>3, <2>1
    <2>2. CASE i \notin Used(t, n)
      BY <1>3, <2>2, Constants
    <2> QED
      BY <2>1, <2>2
  <1>13. \A k \in Used(t, n) : g[u[k].host] = f[t[k].host]
    BY <1>8, <1>9, <1>11, <1>12
  <1> HIDE DEF TableMoved
  <1>14. ASSUME NEW k \in Used(u, m), NEW j \in L2Index, g[u[k].host][j].host # 0
         PROVE  /\ k \in Used(t, n) /\ g[u[k].host][j] = f[t[k].host][j]
    BY <1>8, <1>9, <1>10, <1>12, <1>13, <1>14
  <1>15. ActiveTypes(g, u, m, d)
    <2>1. tab \in Content
      BY <1>12 DEF Content
    <2>2. g \in [Host -> Content] /\ d \in [Host -> Nat]
      BY <1>1, <1>5, <2>1 DEF TableMoved
    <2> QED
      BY <2>2 DEF ActiveTypes
  <1>16. Tree(g, u, m)
    <2>1. Sound(g, u, m)
      <3>1. ASSUME NEW k \in L1Index, k < m
            PROVE  Unflagged(u[k])
        <4>1. CASE k = i
          <5>1. at # 0
            BY HAssumption DEF Host
          <5> QED
            BY <1>9, <4>1, <5>1 DEF Unflagged
        <4>2. CASE k # i /\ k < n
          <5>1. Unflagged(t[k])
            BY <1>1, <4>2 DEF Tree, Sound
          <5> QED
            BY <4>2, <5>1 DEF TableMoved
        <4>3. CASE k # i /\ ~(k < n)
          <5>1. u[k] = None
            BY <3>1, <4>3 DEF TableMoved
          <5> QED
            BY <5>1 DEF None, Unflagged
        <4> QED
          BY <4>1, <4>2, <4>3
      <3>2. ASSUME NEW k \in Used(u, m)
            PROVE  /\ g[u[k].host] \in L2Tables
                   /\ \A j \in L2Index : Unflagged(g[u[k].host][j])
        <4>1. CASE k = i
          BY <1>8, <1>9, <1>12, <4>1
        <4>2. CASE k # i
          BY <1>2, <1>10, <1>13, <4>2
        <4> QED
          BY <4>1, <4>2
      <3> QED
        BY <3>1, <3>2 DEF Sound
    <2>2. ASSUME NEW k \in Used(u, m), NEW k2 \in Used(u, m), u[k].host = u[k2].host
          PROVE  k = k2
      <3>1. CASE k = i \/ k2 = i
        BY <1>9, <1>10, <1>11, <2>2, <3>1
      <3>2. CASE k # i /\ k2 # i
        <4>1. k \in Used(t, n) /\ k2 \in Used(t, n) /\ t[k].host = t[k2].host
          BY <1>10, <1>11, <2>2, <3>2
        <4> QED
          BY <1>1, <4>1 DEF Tree, Injective
      <3> QED
        BY <3>1, <3>2
    <2>3. ASSUME NEW k \in Used(u, m), NEW k2 \in Used(u, m),
                 NEW j \in L2Index, NEW j2 \in L2Index,
                 g[u[k].host][j].host # 0,
                 g[u[k].host][j].host = g[u[k2].host][j2].host
          PROVE  k = k2 /\ j = j2
      <3>1. /\ k \in Used(t, n) /\ g[u[k].host][j] = f[t[k].host][j]
            /\ k2 \in Used(t, n) /\ g[u[k2].host][j2] = f[t[k2].host][j2]
        BY <1>14, <2>3
      <3>2. /\ f[t[k].host][j].host # 0
            /\ f[t[k].host][j].host = f[t[k2].host][j2].host
        BY <2>3, <3>1
      <3>3. Injective(f, t, n)
        BY <1>1 DEF Tree
      <3> QED
        BY <3>1, <3>2, <3>3 DEF Injective
    <2> QED
      BY <2>1, <2>2, <2>3 DEF Tree, Injective
  <1>17. Apart(g, u, m, u, m)
    <2> SUFFICES ASSUME NEW k \in Used(u, m), NEW k2 \in Used(u, m), NEW j \in L2Index
                 PROVE  g[u[k2].host][j].host # u[k].host
      BY DEF Apart
    <2>1. u[k].host # 0
      BY DEF Used
    <2>2. CASE g[u[k2].host][j].host = 0
      BY <2>1, <2>2
    <2>3. CASE g[u[k2].host][j].host # 0
      <3>1. k2 \in Used(t, n) /\ g[u[k2].host][j] = f[t[k2].host][j]
        BY <1>14, <2>3
      <3>2. CASE k = i
        BY <1>7, <1>9, <3>1, <3>2
      <3>3. CASE k # i
        <4>1. k \in Used(t, n) /\ u[k] = t[k]
          BY <1>10, <1>11, <3>3
        <4> QED
          BY <1>1, <3>1, <4>1 DEF Apart
      <3> QED
        BY <3>2, <3>3
    <2> QED
      BY <2>2, <2>3
  <1>18. ActiveApart(g, u, m, T, D)
    <2>1. 0 \notin T
      BY HAssumption DEF Others, Host
    <2>2. ActiveApart(f, t, n, T, D)
      BY DEF Active
    <2>3. ASSUME NEW k \in Used(u, m)
          PROVE  u[k].host \notin D
      BY <1>7, <1>9, <1>10, <1>11, <2>2 DEF ActiveApart
    <2>4. ASSUME NEW k \in Used(u, m), NEW j \in L2Index
          PROVE  g[u[k].host][j].host \notin T
      BY <1>14, <2>1, <2>2 DEF ActiveApart
    <2> QED
      BY <2>3, <2>4 DEF ActiveApart
  <1>19. ASSUME NEW k \in Used(t, n)
         PROVE  /\ k # i => t[k].host # e.host
                /\ \A j \in L2Index : f[t[k].host][j].host # 0 =>
                      f[t[k].host][j].host # e.host
    <2>1. CASE i \in Used(t, n)
      BY <1>1, <1>3, <2>1 DEF Tree, Injective, Apart
    <2>2. CASE i \notin Used(t, n)
      BY <1>2, <1>3, <2>2
    <2> QED
      BY <2>1, <2>2
  <1>20. ASSUME NEW h \in Host
         PROVE  Reaches(g, u, m, h) <=> h = at \/ (h # e.host /\ Reaches(f, t, n, h))
    <2>0. h # 0
      BY HAssumption DEF Host
    <2>1. ASSUME Reaches(g, u, m, h), h # at
          PROVE  h # e.host /\ Reaches(f, t, n, h)
      <3>1. PICK k \in Used(u, m) : Covers(g, u[k], h)
        BY <2>1 DEF Reaches
      <3>2. CASE u[k].host = h
        <4>1. k # i
          BY <1>9, <2>1, <3>2
        <4>2. k \in Used(t, n) /\ t[k].host = h
          BY <1>10, <1>11, <3>2, <4>1
        <4> QED
          BY <1>19, <4>1, <4>2 DEF Reaches, Covers
      <3>3. CASE u[k].host # h
        <4>1. PICK j \in L2Index : g[u[k].host][j].host = h
          BY <3>1, <3>3 DEF Covers
        <4>2. k \in Used(t, n) /\ f[t[k].host][j].host = h
          BY <1>14, <2>0, <4>1
        <4> QED
          BY <1>19, <2>0, <4>2 DEF Reaches, Covers
      <3> QED
        BY <3>2, <3>3
    <2>2. ASSUME h # e.host, Reaches(f, t, n, h)
          PROVE  Reaches(g, u, m, h)
      <3>1. PICK k \in Used(t, n) : Covers(f, t[k], h)
        BY <2>2 DEF Reaches
      <3>2. k \in Used(u, m) /\ g[u[k].host] = f[t[k].host]
        BY <1>10, <1>13
      <3>3. t[k].host = h => u[k].host = h
        BY <1>3, <1>11, <2>2
      <3> QED
        BY <3>1, <3>2, <3>3 DEF Reaches, Covers
    <2>3. Reaches(g, u, m, at)
      BY <1>9, <1>10 DEF Reaches, Covers
    <2> QED
      BY <2>1, <2>2, <2>3
  <1>21. \A h \in Host : d[h] = IF h = at THEN 1 ELSE IF h = e.host THEN c[h] - 1 ELSE c[h]
    BY <1>5 DEF TableMoved
  <1>22. ActiveCounts(g, u, m, d, N, leak)
    <2> SUFFICES ASSUME NEW h \in Host
                 PROVE  /\ N[h] + One(Reaches(g, u, m, h)) <= d[h]
                        /\ ~leak => N[h] + One(Reaches(g, u, m, h)) = d[h]
      BY DEF ActiveCounts
    <2>1. /\ N[h] \in Nat /\ c[h] \in Nat
          /\ N[h] + One(Reaches(f, t, n, h)) <= c[h]
          /\ ~leak => N[h] + One(Reaches(f, t, n, h)) = c[h]
      BY <1>1 DEF Active, ActiveCounts, Others
    <2>2. CASE h = at
      <3>1. N[h] = 0 /\ d[h] = 1 /\ One(Reaches(g, u, m, h)) = 1
        BY <1>7, <1>20, <1>21, <2>2 DEF One
      <3> QED
        BY <3>1
    <2>3. CASE h # at /\ h = e.host
      <3>1. Reaches(f, t, n, h) /\ ~Reaches(g, u, m, h)
        <4>1. i \in Used(t, n) /\ t[i].host = h
          BY <1>3, <2>3, HAssumption DEF Host
        <4> QED
          BY <1>20, <2>3, <4>1 DEF Reaches, Covers
      <3>2. d[h] = c[h] - 1
        BY <1>21, <2>3
      <3> QED
        BY <2>1, <3>1, <3>2 DEF One
    <2>4. CASE h # at /\ h # e.host
      <3>1. (Reaches(g, u, m, h) <=> Reaches(f, t, n, h)) /\ d[h] = c[h]
        BY <1>20, <1>21, <2>4
      <3> QED
        BY <2>1, <3>1 DEF One
    <2> QED
      BY <2>2, <2>3, <2>4
  <1>23. ActiveFlags(g, u, m, N)
    <2>1. ActiveFlags(f, t, n, N)
      BY DEF Active
    <2>2. ASSUME NEW k \in Used(u, m), u[k].copied
          PROVE  N[u[k].host] = 0
      BY <1>7, <1>9, <1>10, <1>11, <2>1, <2>2 DEF ActiveFlags
    <2>3. ASSUME NEW k \in Used(u, m), NEW j \in L2Index,
                 g[u[k].host][j].host # 0, g[u[k].host][j].copied
          PROVE  N[g[u[k].host][j].host] = 0
      <3>1. k \in Used(t, n) /\ g[u[k].host][j] = f[t[k].host][j]
        BY <1>14, <2>3
      <3>2. f[t[k].host][j].host # 0 /\ f[t[k].host][j].copied
        BY <2>3, <3>1
      <3>3. N[f[t[k].host][j].host] = 0
        BY <2>1, <3>1, <3>2 DEF ActiveFlags
      <3> QED
        BY <3>1, <3>3
    <2> QED
      BY <2>2, <2>3 DEF ActiveFlags
  <1>24. ~leak => ActiveExact(g, u, m, d)
    <2> SUFFICES ASSUME ~leak PROVE ActiveExact(g, u, m, d)
      OBVIOUS
    <2>1. ActiveExact(f, t, n, c)
      BY DEF Active
    <2>2. ASSUME NEW k \in Used(u, m)
          PROVE  u[k].copied <=> d[u[k].host] = 1
      <3>1. CASE k = i
        BY <1>9, <1>21, <3>1
      <3>2. CASE k # i
        <4>1. k \in Used(t, n) /\ u[k] = t[k] /\ t[k].host # at
          BY <1>10, <1>11, <3>2
        <4>2. d[t[k].host] = c[t[k].host]
          BY <1>2, <1>19, <1>21, <3>2, <4>1
        <4> QED
          BY <2>1, <4>1, <4>2 DEF ActiveExact
      <3> QED
        BY <3>1, <3>2
    <2>3. ASSUME NEW k \in Used(u, m), NEW j \in L2Index, g[u[k].host][j].host # 0
          PROVE  g[u[k].host][j].copied <=> d[g[u[k].host][j].host] = 1
      <3>1. k \in Used(t, n) /\ g[u[k].host][j] = f[t[k].host][j]
        BY <1>14, <2>3
      <3>2. /\ f[t[k].host][j].host \in Host /\ f[t[k].host][j].host # at
            /\ f[t[k].host][j].host # e.host
        BY <1>2, <1>7, <1>19, <2>3, <3>1
      <3>3. d[f[t[k].host][j].host] = c[f[t[k].host][j].host]
        BY <1>21, <3>2
      <3>4. f[t[k].host][j].copied <=> c[f[t[k].host][j].host] = 1
        BY <2>1, <2>3, <3>1 DEF ActiveExact
      <3> QED
        BY <3>1, <3>3, <3>4
    <2> QED
      BY <2>2, <2>3 DEF ActiveExact
  <1>25. ASSUME NEW x \in Clusters
         PROVE  ReadIn(g, u, m, x) = ReadIn(f, t, n, x)
    <2>1. /\ x[1] \in L1Index /\ x[2] \in L2Index
          /\ x[1] >= n <=> ~(x[1] < n)
          /\ x[1] >= m <=> ~(x[1] < m)
      BY <1>1, L1Assumption DEF Clusters, L1Index
    <2>2. /\ x[1] \in Used(t, n) <=> ~(x[1] >= n \/ t[x[1]].host = 0)
          /\ x[1] \in Used(u, m) <=> ~(x[1] >= m \/ u[x[1]].host = 0)
      BY <2>1 DEF Used
    <2>3. CASE x[1] \in Used(t, n)
      <3>1. /\ x[1] \in Used(u, m) /\ g[u[x[1]].host] = f[t[x[1]].host]
            /\ f[t[x[1]].host] \in L2Tables
            /\ f[t[x[1]].host][x[2]].host # at
        BY <1>2, <1>7, <1>10, <1>13, <2>1, <2>3
      <3>2. g[f[t[x[1]].host][x[2]].host] = f[f[t[x[1]].host][x[2]].host]
        BY <1>8, <3>1
      <3> QED
        BY <2>2, <2>3, <3>1, <3>2 DEF ReadIn
    <2>4. CASE x[1] \notin Used(t, n) /\ x[1] = i
      <3>1. /\ x[1] \in Used(u, m) /\ g[u[x[1]].host] = tab /\ tab \in L2Tables
            /\ tab[x[2]].host = 0
        BY <1>8, <1>9, <1>10, <1>12, <2>1, <2>4
      <3>2. ReadIn(g, u, m, x) = Blank
        BY <2>2, <3>1 DEF ReadIn
      <3>3. ReadIn(f, t, n, x) = Blank
        BY <2>2, <2>4 DEF ReadIn
      <3> QED
        BY <3>2, <3>3
    <2>5. CASE x[1] \notin Used(t, n) /\ x[1] # i
      <3>1. x[1] \notin Used(u, m)
        BY <1>10, <2>5
      <3> QED
        BY <2>2, <2>5, <3>1 DEF ReadIn
    <2> QED
      BY <2>3, <2>4, <2>5
  <1> QED
    BY <1>7, <1>8, <1>10, <1>15, <1>16, <1>17, <1>18, <1>22, <1>23, <1>24, <1>25
       DEF Active

\* A data cluster of the image's own is written in place.
WrittenInPlace(f, t, i, j, v, old, g) ==
    old = f[t[i].host][j] /\ old.copied /\ g = [f EXCEPT ![old.host] = v]

LEMMA InPlaceStep ==
    ASSUME NEW f, NEW t, NEW n, NEW c, NEW N, NEW T, NEW D, NEW leak,
           Active(f, t, n, c, N, T, D, leak), Others(N, T, D),
           NEW i \in Used(t, n), NEW j \in L2Index, NEW v \in Values,
           NEW old, NEW g, WrittenInPlace(f, t, i, j, v, old, g)
    PROVE  /\ Active(g, t, n, c, N, T, D, leak)
           /\ old.host \in Host /\ N[old.host] = 0
           /\ \A h \in Host : h # old.host => g[h] = f[h]
           /\ \A x \in Clusters : ReadIn(g, t, n, x) =
                IF x = <<i, j>> THEN v ELSE ReadIn(f, t, n, x)
  <1> USE DEF WrittenInPlace
  <1>1. /\ ActiveTypes(f, t, n, c) /\ Tree(f, t, n) /\ Apart(f, t, n, t, n)
        /\ f \in [Host -> Content] /\ n \in 0..L1Max
    BY DEF Active, ActiveTypes
  <1>2. \A k \in Used(t, n) :
             /\ k \in L1Index
             /\ f[t[k].host] \in L2Tables
             /\ \A j2 \in L2Index :
                  /\ Unflagged(f[t[k].host][j2])
                  /\ f[t[k].host][j2].host # 0 => f[t[k].host][j2].host \in Host
    BY <1>1, ActiveHosts
  <1>3. old.host # 0
    BY <1>2 DEF Unflagged
  <1>4. old.host \in Host /\ N[old.host] = 0
    BY <1>2, <1>3 DEF Active, ActiveFlags
  <1>5. g[old.host] = v /\ \A h : h # old.host => g[h] = f[h]
    BY <1>1, <1>4
  <1>6. \A k \in Used(t, n) : g[t[k].host] = f[t[k].host]
    <2>1. \A k \in Used(t, n) : t[k].host # old.host
      BY <1>1 DEF Apart
    <2> QED
      BY <1>5, <2>1
  <1>7. ActiveTypes(g, t, n, c)
    <2>1. g \in [Host -> Content]
      BY <1>1, <1>4 DEF Content
    <2> QED
      BY <1>1, <2>1 DEF ActiveTypes
  <1> HIDE DEF WrittenInPlace
  <1>8. Tree(g, t, n)
    BY <1>1, <1>6 DEF Tree, Sound, Injective
  <1>9. Apart(g, t, n, t, n)
    BY <1>1, <1>6 DEF Apart
  <1>10. ActiveApart(g, t, n, T, D)
    BY <1>6 DEF Active, ActiveApart
  <1>11. \A h : Reaches(g, t, n, h) <=> Reaches(f, t, n, h)
    BY <1>6 DEF Reaches, Covers
  <1>12. ActiveCounts(g, t, n, c, N, leak)
    BY <1>11 DEF Active, ActiveCounts, One
  <1>13. ActiveFlags(g, t, n, N)
    BY <1>6 DEF Active, ActiveFlags
  <1>14. ~leak => ActiveExact(g, t, n, c)
    BY <1>6 DEF Active, ActiveExact
  <1>15. ASSUME NEW x \in Clusters
         PROVE  ReadIn(g, t, n, x) = IF x = <<i, j>> THEN v ELSE ReadIn(f, t, n, x)
    <2>1. /\ x[1] \in L1Index /\ x[2] \in L2Index
          /\ x = <<x[1], x[2]>>
          /\ x[1] >= n <=> ~(x[1] < n)
      BY <1>1, L1Assumption DEF Clusters, L1Index
    <2>2. x[1] \in Used(t, n) <=> ~(x[1] >= n \/ t[x[1]].host = 0)
      BY <2>1 DEF Used
    <2>3. CASE x[1] \notin Used(t, n)
      <3>1. x # <<i, j>>
        BY <2>3
      <3> QED
        BY <2>2, <2>3, <3>1 DEF ReadIn
    <2>4. CASE x[1] \in Used(t, n) /\ x = <<i, j>>
      <3>1. x[1] = i /\ x[2] = j
        BY <2>4
      <3>2. /\ g[t[i].host] = f[t[i].host] /\ f[t[i].host] \in L2Tables
            /\ f[t[i].host][j].host = old.host
        BY <1>2, <1>6 DEF WrittenInPlace
      <3> QED
        BY <1>3, <1>5, <2>2, <2>4, <3>1, <3>2 DEF ReadIn
    <2>5. CASE x[1] \in Used(t, n) /\ x # <<i, j>>
      <3>1. ~(x[1] = i /\ x[2] = j)
        BY <2>1, <2>5
      <3>2. g[t[x[1]].host] = f[t[x[1]].host]
        BY <1>6, <2>5
      <3>3. f[t[x[1]].host][x[2]].host # 0 => f[t[x[1]].host][x[2]].host # old.host
        BY <1>1, <2>1, <2>5, <3>1 DEF Tree, Injective, WrittenInPlace
      <3>4. f[t[x[1]].host][x[2]].host # 0 =>
              g[f[t[x[1]].host][x[2]].host] = f[f[t[x[1]].host][x[2]].host]
        BY <1>5, <3>3
      <3> QED
        BY <2>5, <3>2, <3>4 DEF ReadIn
    <2> QED
      BY <2>3, <2>4, <2>5
  <1> QED
    BY <1>4, <1>5, <1>7, <1>8, <1>9, <1>10, <1>12, <1>13, <1>14, <1>15 DEF Active

\* The data go to a free cluster, which replaces the one mapped before.
Replaced(f, t, c, i, j, v, old, new, tab, g, d) ==
    /\ old = f[t[i].host][j]
    /\ c[new] = 0
    /\ tab = [f[t[i].host] EXCEPT ![j] = [host |-> new, copied |-> TRUE]]
    /\ g = [f EXCEPT ![t[i].host] = tab, ![new] = v]
    /\ d = [h \in Host |-> IF h = new THEN 1
                           ELSE IF h = old.host THEN c[h] - 1 ELSE c[h]]

DataMoved(f, t, n, c, N, T, D, leak, i, j, v, old, new, tab, g, d) ==
    /\ Active(f, t, n, c, N, T, D, leak) /\ Others(N, T, D)
    /\ i \in Used(t, n) /\ t[i].copied /\ j \in L2Index
    /\ new \in Host /\ v \in Values
    /\ Replaced(f, t, c, i, j, v, old, new, tab, g, d)
DataWritten(f, t, n, N, T, D, leak, i, j, v, new, g, d) ==
    /\ Active(g, t, n, d, N, T, D, leak)
    /\ N[t[i].host] = 0 /\ N[new] = 0
    /\ \A h \in Host : h # new /\ h # t[i].host => g[h] = f[h]
    /\ \A x \in Clusters : ReadIn(g, t, n, x) =
          IF x = <<i, j>> THEN v ELSE ReadIn(f, t, n, x)

LEMMA NewStep ==
    ASSUME NEW f, NEW t, NEW n, NEW c, NEW N, NEW T, NEW D, NEW leak,
           NEW i, NEW j, NEW v, NEW old, NEW new, NEW tab, NEW g, NEW d,
           DataMoved(f, t, n, c, N, T, D, leak, i, j, v, old, new, tab, g, d)
    PROVE  DataWritten(f, t, n, N, T, D, leak, i, j, v, new, g, d)
  <1>h. /\ Active(f, t, n, c, N, T, D, leak) /\ Others(N, T, D)
        /\ i \in Used(t, n) /\ t[i].copied /\ j \in L2Index
        /\ new \in Host /\ v \in Values
        /\ Replaced(f, t, c, i, j, v, old, new, tab, g, d)
    BY DEF DataMoved
  <1> USE <1>h
  <1>0. old = f[t[i].host][j] /\ c[new] = 0
    BY DEF Replaced
  <1>1. /\ ActiveTypes(f, t, n, c) /\ Tree(f, t, n) /\ Apart(f, t, n, t, n)
        /\ f \in [Host -> Content] /\ n \in 0..L1Max /\ c \in [Host -> Nat]
    BY DEF Active, ActiveTypes
  <1>2. \A k \in Used(t, n) :
             /\ k \in L1Index /\ t[k].host \in Host /\ t[k].host # 0
             /\ f[t[k].host] \in L2Tables
             /\ \A j2 \in L2Index :
                  /\ f[t[k].host][j2] \in Entries
                  /\ Unflagged(f[t[k].host][j2])
                  /\ f[t[k].host][j2].host # 0 => f[t[k].host][j2].host \in Host
    BY <1>1, ActiveHosts
  <1>3. /\ N[new] = 0 /\ new \notin T /\ new \notin D
        /\ \A k \in Used(t, n) :
             /\ t[k].host # new
             /\ \A j2 \in L2Index : f[t[k].host][j2].host # new
    BY <1>0, FreeApart
  <1>4. N[t[i].host] = 0
    BY DEF Active, ActiveFlags
  <1>5. /\ g[t[i].host] = tab /\ g[new] = v
        /\ \A h \in Host : h # new /\ h # t[i].host => g[h] = f[h]
    <2>1. PICK a : a = t[i].host
      OBVIOUS
    <2>2. a \in Host /\ a # new
      BY <1>2, <1>3, <2>1
    <2>3. g = [[f EXCEPT ![a] = tab] EXCEPT ![new] = v]
      BY <2>1 DEF Replaced
    <2>4. g[a] = tab /\ g[new] = v /\ \A h \in Host : h # new /\ h # a => g[h] = f[h]
      BY <1>1, <2>2, <2>3
    <2> QED
      BY <2>1, <2>4
  <1>6. new # 0
    BY HAssumption DEF Host
  <1> DEFINE fresh == [host |-> new, copied |-> TRUE]
  <1>7. /\ fresh.host = new /\ fresh.copied = TRUE /\ fresh \in Entries
        /\ Unflagged(fresh)
    BY <1>6, HAssumption DEF Entries, Host, Unflagged
  <1>8. /\ tab \in L2Tables /\ tab[j] = fresh
        /\ \A j2 \in L2Index : j2 # j => tab[j2] = f[t[i].host][j2]
    <2>1. f[t[i].host] \in L2Tables
      BY <1>2
    <2> QED
      BY <1>7, <2>1 DEF L2Tables, Replaced
  <1> HIDE DEF fresh
  <1>9. /\ \A k \in Used(t, n) : k # i => g[t[k].host] = f[t[k].host]
        /\ \A k \in Used(t, n) : g[t[k].host] \in L2Tables
    <2>1. \A k \in Used(t, n) : k # i => t[k].host # t[i].host
      BY <1>1 DEF Tree, Injective
    <2> QED
      BY <1>2, <1>3, <1>5, <1>8, <2>1
  <1>10. /\ g[t[i].host][j] = fresh
         /\ \A k \in Used(t, n), j2 \in L2Index : ~(k = i /\ j2 = j) =>
               g[t[k].host][j2] = f[t[k].host][j2]
    <2>1. g[t[i].host][j] = fresh
      BY <1>5, <1>8
    <2>2. \A j2 \in L2Index : j2 # j => g[t[i].host][j2] = f[t[i].host][j2]
      BY <1>5, <1>8
    <2>3. \A k \in Used(t, n), j2 \in L2Index : k # i =>
             g[t[k].host][j2] = f[t[k].host][j2]
      BY <1>9
    <2> QED
      BY <2>1, <2>2, <2>3
  <1>11. old.host # 0 => old.host \in Host /\ old.host # new /\ c[old.host] # 0
    <2>1. ASSUME old.host # 0
          PROVE  old.host \in Host /\ old.host # new /\ c[old.host] # 0
      <3>1. old.host \in Host /\ old.host # new /\ Reaches(f, t, n, old.host)
        BY <1>0, <1>2, <1>3, <2>1 DEF Reaches, Covers
      <3>2. /\ N[old.host] \in Nat /\ c[old.host] \in Nat
            /\ N[old.host] + One(Reaches(f, t, n, old.host)) <= c[old.host]
        BY <1>1, <3>1 DEF Active, ActiveCounts, Others
      <3> QED
        BY <3>1, <3>2 DEF One
    <2> QED
      BY <2>1
  <1>12. \A k \in Used(t, n) :
            /\ t[k].host # old.host
            /\ \A j2 \in L2Index : ~(k = i /\ j2 = j) /\ f[t[k].host][j2].host # 0 =>
                  f[t[k].host][j2].host # old.host
    <2>1. \A k \in Used(t, n) : t[k].host # old.host
      BY <1>0, <1>1 DEF Apart
    <2>2. Injective(f, t, n)
      BY <1>1 DEF Tree
    <2>3. \A k \in Used(t, n), j2 \in L2Index :
              ~(k = i /\ j2 = j) /\ f[t[k].host][j2].host # 0 =>
                  f[t[k].host][j2].host # old.host
      BY <1>0, <2>2 DEF Injective
    <2> QED
      BY <2>1, <2>3
  <1>13. ActiveTypes(g, t, n, d)
    <2>1. tab \in Content /\ v \in Content
      BY <1>8 DEF Content
    <2>2. g \in [Host -> Content]
      BY <1>1, <1>2, <2>1 DEF Replaced
    <2>3. \A h \in Host : h = old.host => c[h] # 0
      BY <1>11, HAssumption DEF Host
    <2>4. \A h \in Host : c[h] \in Nat
      BY <1>1
    <2>5. \A h \in Host : (IF h = new THEN 1
                           ELSE IF h = old.host THEN c[h] - 1 ELSE c[h]) \in Nat
      BY <2>3, <2>4
    <2>6. d \in [Host -> Nat]
      BY <2>5 DEF Replaced
    <2> QED
      BY <1>1, <2>2, <2>6 DEF ActiveTypes
  <1>14. Sound(g, t, n)
    <2>1. \A k \in Used(t, n), j2 \in L2Index : Unflagged(g[t[k].host][j2])
      BY <1>2, <1>7, <1>10
    <2> QED
      BY <1>1, <1>9, <2>1 DEF Tree, Sound
  <1>15. Injective(g, t, n)
    <2>1. ASSUME NEW k \in Used(t, n), NEW k2 \in Used(t, n),
                 NEW j1 \in L2Index, NEW j2 \in L2Index,
                 g[t[k].host][j1].host # 0,
                 g[t[k].host][j1].host = g[t[k2].host][j2].host
          PROVE  k = k2 /\ j1 = j2
      <3>1. CASE k = i /\ j1 = j
        <4>1. g[t[k2].host][j2].host = new
          BY ONLY <1>7, <1>10, <2>1, <3>1
        <4>2. k2 = i /\ j2 = j
          BY ONLY <1>3, <1>10, <2>1, <4>1
        <4> QED
          BY <3>1, <4>2
      <3>2. CASE k2 = i /\ j2 = j
        <4>1. g[t[k].host][j1].host = new
          BY <1>7, <1>10, <2>1, <3>2
        <4>2. k = i /\ j1 = j
          BY ONLY <1>3, <1>10, <2>1, <4>1
        <4> QED
          BY <3>2, <4>2
      <3>3. CASE ~(k = i /\ j1 = j) /\ ~(k2 = i /\ j2 = j)
        <4>1. /\ f[t[k].host][j1].host # 0
              /\ f[t[k].host][j1].host = f[t[k2].host][j2].host
          BY <1>10, <2>1, <3>3
        <4>2. Injective(f, t, n)
          BY <1>1 DEF Tree
        <4> QED
          BY <4>1, <4>2 DEF Injective
      <3> QED
        BY <3>1, <3>2, <3>3
    <2>2. Injective(f, t, n)
      BY <1>1 DEF Tree
    <2>3. \A k, k2 \in Used(t, n) : t[k].host = t[k2].host => k = k2
      BY ONLY <2>2 DEF Injective
    <2>4. \A k, k2 \in Used(t, n), j1, j2 \in L2Index :
             /\ g[t[k].host][j1].host # 0
             /\ g[t[k].host][j1].host = g[t[k2].host][j2].host
             => k = k2 /\ j1 = j2
      BY ONLY <2>1
    <2> QED
      BY <2>3, <2>4, Zenon DEF Injective
  <1>16. Apart(g, t, n, t, n)
    <2> SUFFICES ASSUME NEW k \in Used(t, n), NEW k2 \in Used(t, n),
                        NEW j2 \in L2Index
                 PROVE  g[t[k2].host][j2].host # t[k].host
      BY DEF Apart
    <2>1. CASE k2 = i /\ j2 = j
      <3>1. g[t[k2].host][j2].host = new
        BY <1>7, <1>10, <2>1
      <3> QED
        BY <1>3, <3>1
    <2>2. CASE ~(k2 = i /\ j2 = j)
      <3>1. g[t[k2].host][j2] = f[t[k2].host][j2]
        BY <1>10, <2>2
      <3>2. f[t[k2].host][j2].host # t[k].host
        BY <1>1 DEF Apart
      <3> QED
        BY <3>1, <3>2
    <2> QED
      BY <2>1, <2>2
  <1>17. ActiveApart(g, t, n, T, D)
    BY <1>3, <1>7, <1>10 DEF Active, ActiveApart
  <1>18. ASSUME NEW h \in Host
         PROVE  Reaches(g, t, n, h) <=> h = new \/ (h # old.host /\ Reaches(f, t, n, h))
    <2>0. h # 0
      BY HAssumption DEF Host
    <2>1. ASSUME Reaches(g, t, n, h), h # new
          PROVE  h # old.host /\ Reaches(f, t, n, h)
      <3>1. PICK k \in Used(t, n) : Covers(g, t[k], h)
        BY <2>1 DEF Reaches
      <3>2. CASE t[k].host = h
        BY <1>12, <3>2 DEF Reaches, Covers
      <3>3. CASE t[k].host # h
        <4>1. PICK j2 \in L2Index : g[t[k].host][j2].host = h
          BY <3>1, <3>3 DEF Covers
        <4>2. ~(k = i /\ j2 = j)
          BY <1>7, <1>10, <2>1, <4>1
        <4>3. f[t[k].host][j2].host = h
          BY <1>10, <4>1, <4>2
        <4> QED
          BY <1>12, <2>0, <4>2, <4>3 DEF Reaches, Covers
      <3> QED
        BY <3>2, <3>3
    <2>2. ASSUME h # old.host, Reaches(f, t, n, h)
          PROVE  Reaches(g, t, n, h)
      <3>1. PICK k \in Used(t, n) : Covers(f, t[k], h)
        BY <2>2 DEF Reaches
      <3>2. CASE t[k].host = h
        BY <3>2 DEF Reaches, Covers
      <3>3. CASE t[k].host # h
        <4>1. PICK j2 \in L2Index : f[t[k].host][j2].host = h
          BY <3>1, <3>3 DEF Covers
        <4>2. ~(k = i /\ j2 = j)
          BY <1>0, <2>2, <4>1
        <4> QED
          BY <1>10, <4>1, <4>2 DEF Reaches, Covers
      <3> QED
        BY <3>2, <3>3
    <2>3. Reaches(g, t, n, new)
      BY <1>7, <1>10 DEF Reaches, Covers
    <2> QED
      BY <2>1, <2>2, <2>3
  <1>19. \A h \in Host : d[h] = IF h = new THEN 1 ELSE IF h = old.host THEN c[h] - 1 ELSE c[h]
    BY DEF Replaced
  <1>20. ActiveCounts(g, t, n, d, N, leak)
    <2> SUFFICES ASSUME NEW h \in Host
                 PROVE  /\ N[h] + One(Reaches(g, t, n, h)) <= d[h]
                        /\ ~leak => N[h] + One(Reaches(g, t, n, h)) = d[h]
      BY DEF ActiveCounts
    <2>1. /\ N[h] \in Nat /\ c[h] \in Nat
          /\ N[h] + One(Reaches(f, t, n, h)) <= c[h]
          /\ ~leak => N[h] + One(Reaches(f, t, n, h)) = c[h]
      BY <1>1 DEF Active, ActiveCounts, Others
    <2>2. CASE h = new
      <3>1. N[h] = 0 /\ d[h] = 1 /\ One(Reaches(g, t, n, h)) = 1
        BY <1>3, <1>18, <1>19, <2>2 DEF One
      <3> QED
        BY <3>1
    <2>3. CASE h # new /\ h = old.host
      <3>1. Reaches(f, t, n, h) /\ ~Reaches(g, t, n, h)
        BY <1>0, <1>18, <2>3 DEF Reaches, Covers
      <3>2. d[h] = c[h] - 1
        BY <1>19, <2>3
      <3> QED
        BY <2>1, <3>1, <3>2 DEF One
    <2>4. CASE h # new /\ h # old.host
      <3>1. (Reaches(g, t, n, h) <=> Reaches(f, t, n, h)) /\ d[h] = c[h]
        BY <1>18, <1>19, <2>4
      <3> QED
        BY <2>1, <3>1 DEF One
    <2> QED
      BY <2>2, <2>3, <2>4
  <1>21. ActiveFlags(g, t, n, N)
    <2>1. ActiveFlags(f, t, n, N)
      BY DEF Active
    <2>2. ASSUME NEW k \in Used(t, n), NEW j2 \in L2Index,
                 g[t[k].host][j2].host # 0, g[t[k].host][j2].copied
          PROVE  N[g[t[k].host][j2].host] = 0
      <3>1. CASE k = i /\ j2 = j
        BY <1>3, <1>7, <1>10, <3>1
      <3>2. CASE ~(k = i /\ j2 = j)
        <4>1. g[t[k].host][j2] = f[t[k].host][j2]
          BY <1>10, <3>2
        <4>2. f[t[k].host][j2].host # 0 /\ f[t[k].host][j2].copied
          BY <2>2, <4>1
        <4>3. N[f[t[k].host][j2].host] = 0
          BY <2>1, <4>2 DEF ActiveFlags
        <4> QED
          BY <4>1, <4>3
      <3> QED
        BY <3>1, <3>2
    <2> QED
      BY <2>1, <2>2 DEF ActiveFlags
  <1>22. ~leak => ActiveExact(g, t, n, d)
    <2> SUFFICES ASSUME ~leak PROVE ActiveExact(g, t, n, d)
      OBVIOUS
    <2>1. ActiveExact(f, t, n, c)
      BY DEF Active
    <2>2. ASSUME NEW k \in Used(t, n)
          PROVE  t[k].copied <=> d[t[k].host] = 1
      <3>1. d[t[k].host] = c[t[k].host]
        BY <1>2, <1>3, <1>12, <1>19
      <3> QED
        BY <2>1, <3>1 DEF ActiveExact
    <2>3. ASSUME NEW k \in Used(t, n), NEW j2 \in L2Index, g[t[k].host][j2].host # 0
          PROVE  g[t[k].host][j2].copied <=> d[g[t[k].host][j2].host] = 1
      <3>1. CASE k = i /\ j2 = j
        <4>1. g[t[k].host][j2].host = new /\ g[t[k].host][j2].copied = TRUE
          BY <1>7, <1>10, <3>1
        <4>2. d[new] = 1
          BY <1>19
        <4> QED
          BY <4>1, <4>2
      <3>2. CASE ~(k = i /\ j2 = j)
        <4>1. g[t[k].host][j2] = f[t[k].host][j2]
          BY <1>10, <3>2
        <4>2. f[t[k].host][j2].host # 0
          BY <2>3, <4>1
        <4>3. /\ f[t[k].host][j2].host \in Host /\ f[t[k].host][j2].host # new
              /\ f[t[k].host][j2].host # old.host
          BY <1>2, <1>3, <1>12, <3>2, <4>2
        <4>4. d[f[t[k].host][j2].host] = c[f[t[k].host][j2].host]
          BY <1>19, <4>3
        <4>5. f[t[k].host][j2].copied <=> c[f[t[k].host][j2].host] = 1
          BY <2>1, <4>2 DEF ActiveExact
        <4> QED
          BY <4>1, <4>4, <4>5
      <3> QED
        BY <3>1, <3>2
    <2> QED
      BY <2>2, <2>3 DEF ActiveExact
  <1>23. ASSUME NEW x \in Clusters
         PROVE  ReadIn(g, t, n, x) = IF x = <<i, j>> THEN v ELSE ReadIn(f, t, n, x)
    <2>1. /\ x[1] \in L1Index /\ x[2] \in L2Index
          /\ x = <<x[1], x[2]>>
          /\ x[1] >= n <=> ~(x[1] < n)
      BY <1>1, L1Assumption DEF Clusters, L1Index
    <2>2. x[1] \in Used(t, n) <=> ~(x[1] >= n \/ t[x[1]].host = 0)
      BY <2>1 DEF Used
    <2>3. CASE x[1] \notin Used(t, n)
      <3>1. x # <<i, j>>
        BY <2>3
      <3> QED
        BY <2>2, <2>3, <3>1 DEF ReadIn
    <2>4. CASE x[1] \in Used(t, n) /\ x = <<i, j>>
      <3>1. x[1] = i /\ x[2] = j
        BY <2>4
      <3>2. g[t[i].host] \in L2Tables /\ g[t[i].host][j].host = new
        BY <1>7, <1>9, <1>10
      <3>3. /\ ~(x[1] >= n \/ t[x[1]].host = 0)
            /\ g[t[x[1]].host] \in L2Tables /\ g[t[x[1]].host][x[2]].host = new
        BY <2>2, <2>4, <3>1, <3>2
      <3>4. ReadIn(g, t, n, x) = g[new]
        BY <1>6, <3>3 DEF ReadIn
      <3> QED
        BY <1>5, <2>4, <3>4
    <2>5. CASE x[1] \in Used(t, n) /\ x # <<i, j>>
      <3>1. ~(x[1] = i /\ x[2] = j)
        BY <2>1, <2>5
      <3>2. /\ g[t[x[1]].host][x[2]] = f[t[x[1]].host][x[2]]
            /\ g[t[x[1]].host] \in L2Tables /\ f[t[x[1]].host] \in L2Tables
        BY <1>2, <1>9, <1>10, <2>1, <2>5, <3>1
      <3>3. /\ f[t[x[1]].host][x[2]].host # new
            /\ f[t[x[1]].host][x[2]].host # t[i].host
        BY <1>1, <1>3, <2>1, <2>5 DEF Apart
      <3>4. f[t[x[1]].host][x[2]].host # 0 =>
              g[f[t[x[1]].host][x[2]].host] = f[f[t[x[1]].host][x[2]].host]
        BY <1>2, <1>5, <2>1, <2>5, <3>3
      <3> QED
        BY <2>5, <3>2, <3>4 DEF ReadIn
    <2> QED
      BY <2>3, <2>4, <2>5
  <1> QED
    BY <1>2, <1>3, <1>4, <1>5, <1>13, <1>14, <1>15, <1>16, <1>17, <1>20, <1>21, <1>22,
       <1>23 DEF Active, Tree, DataWritten

\* Taking one cluster of two free ones leaves a free one.
LEMMA FreeLeft ==
    ASSUME NEW c, Cardinality(Free(c)) >= 2, NEW a, NEW d,
           \A h \in Host : h # a /\ c[h] = 0 => d[h] = 0
    PROVE  Free(c) # {} /\ Free(d) # {}
  <1>1. IsFiniteSet(Free(c))
    <2>1. IsFiniteSet(Host)
      BY HAssumption, FS_Interval DEF Host
    <2>2. Free(c) \subseteq Host
      BY DEF Free
    <2> QED
      BY <2>1, <2>2, FS_Subset
  <1>2. Cardinality({}) = 0 /\ Cardinality({a}) = 1
    BY FS_EmptySet, FS_Singleton
  <1>3. Free(c) # {} /\ Free(c) # {a}
    BY <1>2
  <1>4. PICK h \in Free(c) : h # a
    BY <1>3
  <1> QED
    BY <1>3, <1>4 DEF Free

\* get_cluster_table: afterwards the table of entry i is the image's own.
TableOwned(f, t, n, c, i, m, e, freed, at, tab, g, d, x, u) ==
    /\ e = IF i < n THEN t[i] ELSE None
    /\ freed = IF e.host = 0 THEN c ELSE [c EXCEPT ![e.host] = c[e.host] - 1]
    /\ at = IF e.copied THEN e.host ELSE LowestFree(freed)
    /\ tab = IF e.copied THEN f[e.host]
             ELSE IF e.host = 0 THEN EmptyL2 ELSE f[e.host]
    /\ g = [f EXCEPT ![at] = tab]
    /\ d = IF e.copied THEN c ELSE [freed EXCEPT ![at] = 1]
    /\ i < n => x = t
    /\ \A k \in L1Index : /\ k < n => x[k] = t[k]
                          /\ ~(k < n) /\ k < m => x[k] = None
    /\ u = [x EXCEPT ![i] = [host |-> at, copied |-> TRUE]]

OwnsTable(f, t, n, c, N, T, D, leak, i, m, e, freed, at, tab, g, d, x, u) ==
    /\ Active(f, t, n, c, N, T, D, leak) /\ Others(N, T, D)
    /\ Cardinality(Free(c)) >= 2
    /\ i \in L1Index /\ m \in 0..L1Max /\ n <= m /\ i < m /\ (i < n => m = n)
    /\ x \in L1Tables
    /\ TableOwned(f, t, n, c, i, m, e, freed, at, tab, g, d, x, u)
TableReady(f, t, n, c, N, T, D, leak, i, m, e, at, tab, g, d, u) ==
    /\ Active(g, u, m, d, N, T, D, leak)
    /\ at \in Host /\ N[at] = 0 /\ g[at] = tab
    /\ i \in Used(u, m) /\ u[i].host = at /\ u[i].copied
    /\ Free(d) # {}
    /\ e.copied => u = t
    /\ \A h \in Host : h # at => g[h] = f[h]
    /\ \A y \in Clusters : ReadIn(g, u, m, y) = ReadIn(f, t, n, y)

LEMMA OwnTable ==
    ASSUME NEW f, NEW t, NEW n, NEW c, NEW N, NEW T, NEW D, NEW leak,
           NEW i, NEW m, NEW e, NEW freed, NEW at, NEW tab, NEW g, NEW d, NEW x, NEW u,
           OwnsTable(f, t, n, c, N, T, D, leak, i, m, e, freed, at, tab, g, d, x, u)
    PROVE  TableReady(f, t, n, c, N, T, D, leak, i, m, e, at, tab, g, d, u)
  <1>h. /\ Active(f, t, n, c, N, T, D, leak) /\ Others(N, T, D)
        /\ Cardinality(Free(c)) >= 2
        /\ i \in L1Index /\ m \in 0..L1Max /\ n <= m /\ i < m /\ (i < n => m = n)
        /\ x \in L1Tables
    BY DEF OwnsTable
  <1>e. e = IF i < n THEN t[i] ELSE None
    BY DEF OwnsTable, TableOwned
  <1>f. freed = IF e.host = 0 THEN c ELSE [c EXCEPT ![e.host] = c[e.host] - 1]
    BY DEF OwnsTable, TableOwned
  <1>a. /\ at = IF e.copied THEN e.host ELSE LowestFree(freed)
        /\ tab = IF e.copied THEN f[e.host]
                 ELSE IF e.host = 0 THEN EmptyL2 ELSE f[e.host]
        /\ d = IF e.copied THEN c ELSE [freed EXCEPT ![at] = 1]
    BY DEF OwnsTable, TableOwned
  <1>g. g = [f EXCEPT ![at] = tab]
    BY DEF OwnsTable, TableOwned
  <1>x. /\ i < n => x = t
        /\ \A k \in L1Index : /\ k < n => x[k] = t[k]
                              /\ ~(k < n) /\ k < m => x[k] = None
    BY DEF OwnsTable, TableOwned
  <1>u. u = [x EXCEPT ![i] = [host |-> at, copied |-> TRUE]]
    BY DEF OwnsTable, TableOwned
  <1>1. /\ ActiveTypes(f, t, n, c) /\ Tree(f, t, n)
        /\ f \in [Host -> Content] /\ t \in L1Tables /\ n \in 0..L1Max
        /\ c \in [Host -> Nat]
    BY <1>h DEF Active, ActiveTypes
  <1>2. CASE e.copied
    <2>1. i < n /\ e = t[i]
      <3>1. ~None.copied
        BY DEF None
      <3> QED
        BY ONLY <1>2, <1>e, <3>1
    <2>2. e.host # 0
      <3>1. Unflagged(t[i])
        BY ONLY <1>1, <1>h, <2>1 DEF Tree, Sound
      <3> QED
        BY ONLY <1>2, <2>1, <3>1 DEF Unflagged
    <2>3. i \in Used(t, n)
      BY ONLY <1>h, <2>1, <2>2 DEF Used
    <2>4. e \in Entries /\ e.host \in Host
      <3>1. t[i] \in Entries
        BY ONLY <1>1, <1>h DEF L1Tables
      <3> QED
        BY ONLY <2>1, <2>2, <3>1, HAssumption DEF Entries, Host
    <2>5. at = e.host /\ tab = f[e.host] /\ d = c
      BY ONLY <1>2, <1>a
    <2>6. g = f
      BY ONLY <1>1, <1>g, <2>4, <2>5
    <2>7. e.copied = TRUE
      BY ONLY <1>2, <2>4 DEF Entries
    <2>8. e = [host |-> at, copied |-> TRUE]
      BY ONLY <2>4, <2>5, <2>7 DEF Entries
    <2>9. u = t /\ m = n
      BY ONLY <1>1, <1>h, <1>u, <1>x, <2>1, <2>8 DEF L1Tables
    <2>10. N[at] = 0
      BY ONLY <1>2, <1>h, <2>1, <2>3, <2>5 DEF Active, ActiveFlags
    <2>11. Free(d) # {}
      <3>1. \A h \in Host : h # at /\ c[h] = 0 => c[h] = 0
        OBVIOUS
      <3>2. Free(c) # {}
        BY ONLY <1>h, <3>1, FreeLeft
      <3> QED
        BY ONLY <2>5, <3>2
    <2> QED
      BY ONLY <1>h, <2>1, <2>3, <2>4, <2>5, <2>6, <2>7, <2>9, <2>10, <2>11 DEF TableReady
  <1>3. CASE ~e.copied
    <2>1. at = LowestFree(freed) /\ d = [freed EXCEPT ![at] = 1]
          /\ tab = IF e.host = 0 THEN EmptyL2 ELSE f[e.host]
      BY ONLY <1>3, <1>a
    <2>2. e.host \in Host => c[e.host] # 0
      <3> SUFFICES ASSUME e.host \in Host PROVE c[e.host] # 0
        OBVIOUS
      <3>0. e.host \in Host
        OBVIOUS
      <3>1. e.host # 0 /\ None.host = 0
        BY ONLY <3>0, HAssumption DEF Host, None
      <3>2. i \in Used(t, n) /\ e = t[i]
        BY ONLY <1>e, <1>h, <3>1 DEF Used
      <3>3. Reaches(f, t, n, e.host)
        BY ONLY <3>2 DEF Reaches, Covers
      <3>4. /\ N[e.host] \in Nat /\ c[e.host] \in Nat
            /\ N[e.host] + One(Reaches(f, t, n, e.host)) <= c[e.host]
        BY ONLY <1>1, <1>h, <3>0 DEF Active, ActiveCounts, Others
      <3> QED
        BY ONLY <3>3, <3>4 DEF One
    <2>6. DOMAIN freed = Host
      BY ONLY <1>1, <1>f
    <2>3. \A h \in Host : c[h] = 0 => freed[h] = 0
      BY ONLY <1>1, <1>f, <2>2
    <2>4. Free(freed) # {}
      BY ONLY <1>h, <2>3, FreeLeft
    <2>5. at \in Host /\ freed[at] = 0
      BY ONLY <2>1, <2>4, LowestFreeFacts
    <2>7. \A h \in Host : h # at /\ c[h] = 0 => d[h] = 0
      BY ONLY <2>1, <2>3, <2>6
    <2>8. Free(d) # {}
      BY ONLY <1>h, <2>7, FreeLeft
    <2>9. [host |-> at, copied |-> TRUE] \in Entries
      BY ONLY <2>5, HAssumption DEF Entries, Host
    <2>10. /\ u \in L1Tables /\ u[i] = [host |-> at, copied |-> TRUE]
           /\ \A k \in L1Index : k # i => u[k] = x[k]
      BY ONLY <1>h, <1>u, <2>9 DEF L1Tables
    <2>11. \A k \in L1Index : k # i => /\ k < n => u[k] = t[k]
                                       /\ ~(k < n) /\ k < m => u[k] = None
      BY ONLY <1>x, <2>10
    <2>12. TableMoved(f, t, n, c, i, m, e, freed, at, tab, g, u, d)
      BY ONLY <1>3, <1>e, <1>f, <1>g, <2>1, <2>5, <2>10, <2>11 DEF TableMoved
    <2>13. TableMoves(f, t, n, c, N, T, D, leak, i, m, e, freed, at, tab, g, u, d)
      BY ONLY <1>h, <2>5, <2>10, <2>12 DEF TableMoves
    <2>14. /\ Active(g, u, m, d, N, T, D, leak)
           /\ N[at] = 0 /\ g[at] = tab /\ i \in Used(u, m)
           /\ \A h \in Host : h # at => g[h] = f[h]
           /\ \A y \in Clusters : ReadIn(g, u, m, y) = ReadIn(f, t, n, y)
      BY ONLY <2>13, TableStep
    <2>15. u[i].host = at /\ u[i].copied
      BY ONLY <2>10
    <2> QED
      BY ONLY <1>3, <2>5, <2>8, <2>14, <2>15 DEF TableReady
  <1> QED
    BY <1>2, <1>3

\* The whole write: the table, then the data.
Stored(f, at, tab, d, j, v, old, new, tab2, f2, c2) ==
    /\ old = tab[j] /\ new = LowestFree(d)
    /\ tab2 = [tab EXCEPT ![j] = [host |-> new, copied |-> TRUE]]
    /\ f2 = IF old.copied THEN [f EXCEPT ![at] = tab, ![old.host] = v]
            ELSE [f EXCEPT ![at] = tab2, ![new] = v]
    /\ c2 = IF old.copied THEN d
            ELSE [h \in Host |-> IF h = new THEN 1
                                 ELSE IF h = old.host THEN d[h] - 1 ELSE d[h]]

LEMMA WriteTree ==
    ASSUME NEW f, NEW t, NEW n, NEW c, NEW N, NEW T, NEW D, NEW leak,
           NEW i, NEW m, NEW e, NEW freed, NEW at, NEW tab, NEW g, NEW d, NEW x, NEW u,
           OwnsTable(f, t, n, c, N, T, D, leak, i, m, e, freed, at, tab, g, d, x, u),
           NEW j \in L2Index, NEW v \in Values, NEW old, NEW new, NEW tab2,
           NEW f2, NEW c2, Stored(f, at, tab, d, j, v, old, new, tab2, f2, c2)
    PROVE  /\ Active(f2, u, m, c2, N, T, D, leak)
           /\ e.copied => u = t
           /\ \A h \in Host : N[h] # 0 => f2[h] = f[h]
           /\ \A y \in Clusters : ReadIn(f2, u, m, y) =
                IF y = <<i, j>> THEN v ELSE ReadIn(f, t, n, y)
  <1>1. /\ Active(g, u, m, d, N, T, D, leak)
        /\ at \in Host /\ N[at] = 0 /\ g[at] = tab
        /\ i \in Used(u, m) /\ u[i].host = at /\ u[i].copied
        /\ Free(d) # {}
        /\ e.copied => u = t
        /\ \A h \in Host : h # at => g[h] = f[h]
        /\ \A y \in Clusters : ReadIn(g, u, m, y) = ReadIn(f, t, n, y)
    <2>1. TableReady(f, t, n, c, N, T, D, leak, i, m, e, at, tab, g, d, u)
      BY OwnTable
    <2> QED
      BY <2>1 DEF TableReady
  <1>6. Others(N, T, D)
    BY DEF OwnsTable
  <1>2. g = [f EXCEPT ![at] = tab] /\ DOMAIN f = Host
    BY DEF OwnsTable, TableOwned, Active, ActiveTypes
  <1>3. old = g[u[i].host][j]
    BY <1>1 DEF Stored
  <1>4. CASE old.copied
    <2>1. f2 = [f EXCEPT ![at] = tab, ![old.host] = v] /\ c2 = d
      BY <1>4 DEF Stored
    <2>2. f2 = [g EXCEPT ![old.host] = v]
      BY <1>2, <2>1
    <2>3. WrittenInPlace(g, u, i, j, v, old, f2)
      BY <1>3, <1>4, <2>2 DEF WrittenInPlace
    <2>4. /\ Active(f2, u, m, d, N, T, D, leak)
          /\ old.host \in Host /\ N[old.host] = 0
          /\ \A h \in Host : h # old.host => f2[h] = g[h]
          /\ \A y \in Clusters : ReadIn(f2, u, m, y) =
               IF y = <<i, j>> THEN v ELSE ReadIn(g, u, m, y)
      BY <1>1, <1>6, <2>3, InPlaceStep
    <2> QED
      BY <1>1, <2>1, <2>4
  <1>5. CASE ~old.copied
    <2>1. /\ new = LowestFree(d)
          /\ tab2 = [tab EXCEPT ![j] = [host |-> new, copied |-> TRUE]]
          /\ f2 = [f EXCEPT ![at] = tab2, ![new] = v]
          /\ c2 = [h \in Host |-> IF h = new THEN 1
                                  ELSE IF h = old.host THEN d[h] - 1 ELSE d[h]]
      BY <1>5 DEF Stored
    <2>2. new \in Host /\ d[new] = 0
      BY <1>1, <2>1, LowestFreeFacts
    <2>3. f2 = [g EXCEPT ![u[i].host] = tab2, ![new] = v]
      BY <1>1, <1>2, <2>1
    <2>4. Replaced(g, u, d, i, j, v, old, new, tab2, f2, c2)
      <3>1. tab2 = [g[u[i].host] EXCEPT ![j] = [host |-> new, copied |-> TRUE]]
        BY <1>1, <2>1
      <3> QED
        BY <1>3, <2>1, <2>2, <2>3, <3>1 DEF Replaced
    <2>5. /\ Active(f2, u, m, c2, N, T, D, leak)
          /\ N[u[i].host] = 0 /\ N[new] = 0
          /\ \A h \in Host : h # new /\ h # u[i].host => f2[h] = g[h]
          /\ \A y \in Clusters : ReadIn(f2, u, m, y) =
               IF y = <<i, j>> THEN v ELSE ReadIn(g, u, m, y)
      <3>1. DataMoved(g, u, m, d, N, T, D, leak, i, j, v, old, new, tab2, f2, c2)
        BY <1>1, <1>6, <2>2, <2>4 DEF DataMoved
      <3>2. DataWritten(g, u, m, N, T, D, leak, i, j, v, new, f2, c2)
        BY <3>1, NewStep
      <3> QED
        BY <3>2 DEF DataWritten
    <2> QED
      BY <1>1, <2>5
  <1> QED
    BY <1>4, <1>5

-----------------------------------------------------------------------------
(* The active tree between operations, and the snapshots next to it.       *)

Held(h) == Cardinality(Holders(h) \ {NoId})
SnapTables ==
    {h \in Host : \E id \in Ids : /\ Listed(id)
                                  /\ \E k \in Used(snap_l1[id], SizeOf(id)) :
                                        snap_l1[id][k].host = h}
SnapData ==
    {h \in Host : \E id \in Ids :
        /\ Listed(id)
        /\ \E k \in Used(snap_l1[id], SizeOf(id)), j \in L2Index :
              file[snap_l1[id][k].host][j].host = h}

LEMMA HeldFacts == Types /\ Distinct /\ op.k = "idle" =>
    \A h \in Host :
        /\ Held(h) \in Nat
        /\ Held(h) = 0 <=> Holders(h) \subseteq {NoId}
        /\ Cardinality(Holders(h)) = Held(h) + One(Reaches(file, l1, l1_size, h))
  <1> SUFFICES ASSUME Types, Distinct, op.k = "idle", NEW h \in Host
               PROVE  /\ Held(h) \in Nat
                      /\ Held(h) = 0 <=> Holders(h) \subseteq {NoId}
                      /\ Cardinality(Holders(h))
                           = Held(h) + One(Reaches(file, l1, l1_size, h))
    OBVIOUS
  <1>1. PICK S : S = Holders(h)
    OBVIOUS
  <1>2. IsFiniteSet(S)
    BY <1>1, HoldersFinite
  <1>3. IsFiniteSet(S \ {NoId})
    BY <1>2, FS_Subset
  <1>4. NoId \in S <=> Reaches(file, l1, l1_size, h)
    <2>1. Hold(NoId) = Part(file, l1, l1_size, 0, L1Max)
      BY HoldIdle
    <2>2. \A k \in Used(l1, l1_size) : 0 <= k /\ k < L1Max
      BY Constants DEF Used
    <2>3. h \in Part(file, l1, l1_size, 0, L1Max) <=> Reaches(file, l1, l1_size, h)
      BY <2>2 DEF Part, Reaches
    <2> QED
      BY <1>1, <2>1, <2>3 DEF Holders
  <1>5. Cardinality(S \ {NoId}) \in Nat /\ Cardinality(S) \in Nat
    BY <1>2, <1>3, FS_CardinalityType
  <1>6. Cardinality(S \ {NoId}) = 0 <=> S \ {NoId} = {}
    BY <1>3, FS_EmptySet
  <1>7. Cardinality(S) = Cardinality(S \ {NoId}) + One(NoId \in S)
    <2>1. CASE NoId \in S
      <3>1. Cardinality(S \ {NoId}) = Cardinality(S) - 1
        BY <1>2, <2>1, FS_RemoveElement
      <3> QED
        BY <1>5, <2>1, <3>1 DEF One
    <2>2. CASE NoId \notin S
      <3>1. S \ {NoId} = S
        BY <2>2
      <3>2. One(NoId \in S) = 0
        BY <2>2 DEF One
      <3>3. Cardinality(S \ {NoId}) = Cardinality(S)
        BY <3>1
      <3>4. PICK x : x = Cardinality(S)
        OBVIOUS
      <3>5. x \in Nat /\ x = x + 0
        BY <1>5, <3>4
      <3> QED
        BY <3>2, <3>3, <3>4, <3>5
    <2> QED
      BY <2>1, <2>2
  <1>8. One(NoId \in S) = One(Reaches(file, l1, l1_size, h))
    BY <1>4 DEF One
  <1> QED
    BY <1>1, <1>5, <1>6, <1>7, <1>8 DEF Held

LEMMA HeldFactsNext ==
    ASSUME Types', Distinct', op'.k = "idle"
    PROVE  \A h \in Host :
             /\ Held(h)' \in Nat
             /\ Held(h)' = 0 <=> Holders(h)' \subseteq {NoId}
             /\ Cardinality(Holders(h)')
                  = Held(h)' + One(Reaches(file', l1', l1_size', h))
  <1>1. (Types /\ Distinct /\ op.k = "idle" =>
          \A h \in Host :
            /\ Held(h) \in Nat
            /\ Held(h) = 0 <=> Holders(h) \subseteq {NoId}
            /\ Cardinality(Holders(h))
                 = Held(h) + One(Reaches(file, l1, l1_size, h)))'
    BY HeldFacts, PTL
  <1>2. \A h : One(Reaches(file, l1, l1_size, h))' = One(Reaches(file', l1', l1_size', h))
    BY DEF One, Reaches, Used, Covers
  <1> QED
    BY <1>1, <1>2

\* What the snapshots hold.
LEMMA SnapHosts ==
    ASSUME IInv, op.k = "idle", NEW id \in Ids, Listed(id),
           NEW k \in Used(snap_l1[id], SizeOf(id))
    PROVE  /\ SizeOf(id) \in 0..L1Max
           /\ snap_l1[id][k].host \in SnapTables
           /\ Held(snap_l1[id][k].host) # 0
           /\ file[snap_l1[id][k].host] \in L2Tables
           /\ \A j \in L2Index :
                /\ Unflagged(file[snap_l1[id][k].host][j])
                /\ file[snap_l1[id][k].host][j].host # 0 =>
                     /\ file[snap_l1[id][k].host][j].host \in SnapData
                     /\ Held(file[snap_l1[id][k].host][j].host) # 0
  <1>0. id \in Ids /\ Listed(id)
    OBVIOUS
  <1>1. SizeOf(id) \in 0..L1Max
    BY Sizes DEF IInv
  <1>2. PICK t, n : t = snap_l1[id] /\ n = SizeOf(id)
    OBVIOUS
  <1>3. id \in Owners /\ id # NoId /\ TableOf(id) = t /\ EntriesOf(id) = n
    BY <1>2, Constants DEF Owners, TableOf, EntriesOf
  <1>4. Tree(file, t, n) /\ t \in L1Tables /\ n \in 0..L1Max
    <2>1. Tree(file, t, n)
      BY <1>3 DEF IInv, Trees
    <2>2. snap_l1 \in [Ids -> L1Tables]
      BY DEF IInv, Types
    <2> QED
      BY <1>1, <1>2, <2>1, <2>2
  <1>5. ActiveTypes(file, t, n, rc)
    BY <1>4 DEF IInv, Types, ActiveTypes
  <1>6. k \in Used(t, n)
    BY <1>2
  <1>7. /\ k \in L1Index /\ t[k].host \in Host
        /\ file[t[k].host] \in L2Tables
        /\ \A j \in L2Index :
             /\ Unflagged(file[t[k].host][j])
             /\ file[t[k].host][j].host # 0 => file[t[k].host][j].host \in Host
    BY <1>4, <1>5, <1>6, ActiveHosts
  <1>8. Hold(id) = Part(file, t, n, 0, L1Max)
    BY <1>2, HoldIdle
  <1>9. ASSUME NEW h \in Host, Covers(file, t[k], h)
        PROVE  Held(h) # 0
    <2>1. 0 <= k /\ k < L1Max
      BY <1>7, Constants
    <2>2. h \in Hold(id)
      BY <1>6, <1>8, <1>9, <2>1 DEF Part
    <2>3. id \in Holders(h)
      BY <2>2 DEF Holders
    <2>4. ~(Holders(h) \subseteq {NoId})
      BY <1>3, <2>3
    <2> QED
      BY <2>4, HeldFacts DEF IInv
  <1>10. t[k].host \in SnapTables /\ Held(t[k].host) # 0
    <2>1. Covers(file, t[k], t[k].host)
      BY ONLY DEF Covers
    <2>2. t[k].host \in SnapTables
      BY ONLY <1>0, <1>2, <1>6, <1>7 DEF SnapTables
    <2> QED
      BY ONLY <1>7, <1>9, <2>1, <2>2
  <1>11. ASSUME NEW j \in L2Index, file[t[k].host][j].host # 0
         PROVE  /\ file[t[k].host][j].host \in SnapData
                /\ Held(file[t[k].host][j].host) # 0
    <2>1. file[t[k].host][j].host \in Host
      BY <1>7, <1>11
    <2>2. Covers(file, t[k], file[t[k].host][j].host)
      BY DEF Covers
    <2>3. file[t[k].host][j].host \in SnapData
      BY ONLY <1>0, <1>2, <1>6, <1>11, <2>1, Zenon DEF SnapData
    <2> QED
      BY ONLY <1>9, <2>1, <2>2, <2>3
  <1> QED
    BY <1>1, <1>2, <1>7, <1>10, <1>11

LEMMA WriteStart ==
    ASSUME IInv, op.k = "idle", NEW N, N = [h \in Host |-> Held(h)],
           NEW T, T = SnapTables, NEW D, D = SnapData
    PROVE  /\ Active(file, l1, l1_size, rc, N, T, D, leaky)
           /\ Others(N, T, D)
  <1>1. \A h \in Host :
          /\ N[h] = Held(h) /\ N[h] \in Nat
          /\ N[h] = 0 <=> Holders(h) \subseteq {NoId}
          /\ Cardinality(Holders(h)) = N[h] + One(Reaches(file, l1, l1_size, h))
    BY HeldFacts DEF IInv
  <1>2. Others(N, T, D)
    <2>1. N \in [Host -> Nat] /\ T \subseteq Host
      BY <1>1 DEF SnapTables
    <2>2. ASSUME NEW h \in Host, N[h] = 0
          PROVE  h \notin T /\ h \notin D
      <3>0. h # 0
        BY HAssumption DEF Host
      <3>1. ASSUME h \in T PROVE FALSE
        <4>1. PICK id \in Ids : /\ Listed(id)
                                /\ \E k \in Used(snap_l1[id], SizeOf(id)) :
                                      snap_l1[id][k].host = h
          BY <3>1 DEF SnapTables
        <4>2. PICK k \in Used(snap_l1[id], SizeOf(id)) : snap_l1[id][k].host = h
          BY <4>1
        <4>3. Held(snap_l1[id][k].host) # 0
          BY <4>1, SnapHosts
        <4> QED
          BY <1>1, <2>2, <4>2, <4>3
      <3>2. ASSUME h \in D PROVE FALSE
        <4>1. PICK id \in Ids :
                /\ Listed(id)
                /\ \E k \in Used(snap_l1[id], SizeOf(id)), j \in L2Index :
                      file[snap_l1[id][k].host][j].host = h
          BY <3>2 DEF SnapData
        <4>2. PICK k \in Used(snap_l1[id], SizeOf(id)), j \in L2Index :
                file[snap_l1[id][k].host][j].host = h
          BY <4>1
        <4>3. Held(file[snap_l1[id][k].host][j].host) # 0
          BY <3>0, <4>1, <4>2, SnapHosts
        <4> QED
          BY <1>1, <2>2, <4>2, <4>3
      <3> QED
        BY <3>1, <3>2
    <2> QED
      BY <2>1, <2>2 DEF Others
  <1>3. ActiveTypes(file, l1, l1_size, rc)
    BY DEF IInv, Types, ActiveTypes
  <1>4. /\ NoId \in Owners /\ TableOf(NoId) = l1 /\ EntriesOf(NoId) = l1_size
        /\ Tree(file, l1, l1_size) /\ Apart(file, l1, l1_size, l1, l1_size)
    <2>1. NoId \in Owners /\ TableOf(NoId) = l1 /\ EntriesOf(NoId) = l1_size
      BY DEF Owners, TableOf, EntriesOf
    <2> QED
      BY <2>1 DEF IInv, Trees
  <1>5. \A k \in Used(l1, l1_size) :
          /\ l1[k].host \in Host
          /\ \A j \in L2Index : file[l1[k].host][j].host # 0 =>
                file[l1[k].host][j].host \in Host
    BY <1>3, <1>4, ActiveHosts
  <1>6. ActiveApart(file, l1, l1_size, T, D)
    <2> SUFFICES ASSUME NEW k \in Used(l1, l1_size)
                 PROVE  /\ l1[k].host \notin D
                        /\ \A j \in L2Index : file[l1[k].host][j].host \notin T
      BY DEF ActiveApart
    <2>1. ASSUME NEW id \in Ids, Listed(id)
          PROVE  /\ Apart(file, l1, l1_size, snap_l1[id], SizeOf(id))
                 /\ Apart(file, snap_l1[id], SizeOf(id), l1, l1_size)
      <3>1. id \in Owners /\ TableOf(id) = snap_l1[id] /\ EntriesOf(id) = SizeOf(id)
        BY <2>1, Constants DEF Owners, TableOf, EntriesOf
      <3> QED
        BY <1>4, <3>1 DEF IInv, Trees
    <2>2. l1[k].host \notin D
      BY <2>1 DEF SnapData, Apart
    <2>3. \A j \in L2Index : file[l1[k].host][j].host \notin T
      BY <2>1 DEF SnapTables, Apart
    <2> QED
      BY <2>2, <2>3
  <1>7. ActiveCounts(file, l1, l1_size, rc, N, leaky)
    BY <1>1 DEF IInv, Counts, ActiveCounts
  <1>8. /\ First = 0 /\ Last = L1Max /\ Flagged = L1Max
        /\ \A k \in Used(l1, l1_size) : First <= k /\ k < Last /\ k < Flagged
    <2>1. First = 0 /\ Last = L1Max /\ Flagged = L1Max
      BY HoldIdle
    <2> QED
      BY <2>1, Constants DEF Used
  <1>9. ActiveFlags(file, l1, l1_size, N)
    <2>1. ASSUME NEW k \in Used(l1, l1_size)
          PROVE  /\ Own(l1[k])
                 /\ \A j \in L2Index : file[l1[k].host][j].host # 0 =>
                                         Own(file[l1[k].host][j])
      BY <1>8 DEF IInv, Exclusive
    <2>2. ASSUME NEW k \in Used(l1, l1_size), l1[k].copied
          PROVE  N[l1[k].host] = 0
      BY <1>1, <1>5, <2>1, <2>2 DEF Own
    <2>3. ASSUME NEW k \in Used(l1, l1_size), NEW j \in L2Index,
                 file[l1[k].host][j].host # 0, file[l1[k].host][j].copied
          PROVE  N[file[l1[k].host][j].host] = 0
      <3>1. Own(file[l1[k].host][j]) /\ file[l1[k].host][j].host \in Host
        BY <1>5, <2>1, <2>3
      <3>2. Holders(file[l1[k].host][j].host) \subseteq {NoId}
        BY <2>3, <3>1 DEF Own
      <3> QED
        BY <1>1, <3>1, <3>2
    <2> QED
      BY <2>2, <2>3 DEF ActiveFlags
  <1>10. ~leaky => ActiveExact(file, l1, l1_size, rc)
    BY <1>8 DEF IInv, Exact, ActiveExact
  <1> QED
    BY <1>2, <1>3, <1>4, <1>6, <1>7, <1>9, <1>10 DEF Active

\* A write keeps every cluster that a snapshot holds, so each snapshot keeps
\* its tree, and the holders other than the active tree are the same.
LEMMA WriteEnd ==
    ASSUME IInv, op.k = "idle", Types',
           UNCHANGED <<op, snaps, snap_l1, leaky>>,
           NEW N, N = [h \in Host |-> Held(h)],
           NEW T, T = SnapTables, NEW D, D = SnapData,
           Active(file', l1', l1_size', rc', N, T, D, leaky),
           \A h \in Host : N[h] # 0 => file'[h] = file[h]
    PROVE  /\ Distinct' /\ Trees' /\ Counts' /\ Exclusive' /\ Exact'
           /\ \A id : Listed(id)' <=> Listed(id)
           /\ \A id : SizeOf(id)' = SizeOf(id)
           /\ \A id \in Ids : Listed(id) => \A c \in Clusters :
                ReadIn(file', snap_l1'[id], SizeOf(id)', c)
                  = ReadIn(file, snap_l1[id], SizeOf(id), c)
  <1>1. /\ \A id : Listed(id)' <=> Listed(id)
        /\ \A id : SizeOf(id)' = SizeOf(id)
        /\ Distinct'
    BY ListFrame DEF IInv
  <1>2. PICK f, t, n, c : f = file' /\ t = l1' /\ n = l1_size' /\ c = rc'
    OBVIOUS
  <1>3. Active(f, t, n, c, N, T, D, leaky)
    BY <1>2
  <1>4. \A h \in Host : N[h] # 0 => f[h] = file[h]
    BY <1>2
  <1>5. ASSUME NEW id \in Ids, Listed(id)
        PROVE  /\ Tree(file, snap_l1[id], SizeOf(id)) /\ SizeOf(id) \in 0..L1Max
               /\ Same(file, snap_l1[id], f, snap_l1[id], SizeOf(id))
    <2>1. SizeOf(id) \in 0..L1Max
      BY <1>5, Sizes DEF IInv
    <2>2. Tree(file, snap_l1[id], SizeOf(id))
      <3>1. id \in Owners /\ TableOf(id) = snap_l1[id] /\ EntriesOf(id) = SizeOf(id)
        BY <1>5, Constants DEF Owners, TableOf, EntriesOf
      <3> QED
        BY <3>1 DEF IInv, Trees
    <2>3. ASSUME NEW k \in Used(snap_l1[id], SizeOf(id))
          PROVE  /\ f[snap_l1[id][k].host] = file[snap_l1[id][k].host]
                 /\ f[snap_l1[id][k].host] \in L2Tables
                 /\ \A j \in L2Index :
                      /\ Unflagged(f[snap_l1[id][k].host][j])
                      /\ file[snap_l1[id][k].host][j].host # 0 =>
                           f[file[snap_l1[id][k].host][j].host]
                             = file[file[snap_l1[id][k].host][j].host]
      <3>1. /\ snap_l1[id][k].host \in SnapTables
            /\ Held(snap_l1[id][k].host) # 0
            /\ file[snap_l1[id][k].host] \in L2Tables
            /\ \A j \in L2Index :
                 /\ Unflagged(file[snap_l1[id][k].host][j])
                 /\ file[snap_l1[id][k].host][j].host # 0 =>
                      /\ file[snap_l1[id][k].host][j].host \in SnapData
                      /\ Held(file[snap_l1[id][k].host][j].host) # 0
        BY <1>5, SnapHosts
      <3>2. \A h : h \in SnapTables \/ h \in SnapData => h \in Host
        BY DEF SnapTables, SnapData
      <3>3. \A h \in Host : Held(h) # 0 => f[h] = file[h]
        BY <1>4
      <3>4. f[snap_l1[id][k].host] = file[snap_l1[id][k].host]
        BY <3>1, <3>2, <3>3
      <3> QED
        BY <3>1, <3>2, <3>3, <3>4
    <2>4. \A k \in L1Index : k < SizeOf(id) => Unflagged(snap_l1[id][k])
      BY <2>2 DEF Tree, Sound
    <2> QED
      BY <2>1, <2>2, <2>3, <2>4 DEF Same
  <1>6. ASSUME NEW id \in Ids, Listed(id)
        PROVE  /\ Tree(f, snap_l1[id], SizeOf(id))
               /\ \A lo, hi : Part(f, snap_l1[id], SizeOf(id), lo, hi)
                                = Part(file, snap_l1[id], SizeOf(id), lo, hi)
               /\ \A x \in Clusters : ReadIn(f, snap_l1[id], SizeOf(id), x)
                                        = ReadIn(file, snap_l1[id], SizeOf(id), x)
    BY <1>5, <1>6, SameTree
  <1>7. \A o : /\ o \in Owners' <=> o \in Owners
               /\ o \in Owners /\ o # NoId => /\ o \in Ids /\ Listed(o)
                                 /\ TableOf(o)' = snap_l1[o] /\ EntriesOf(o)' = SizeOf(o)
                                 /\ TableOf(o) = snap_l1[o] /\ EntriesOf(o) = SizeOf(o)
    BY <1>1, Constants DEF Owners, TableOf, EntriesOf
  <1>8. TableOf(NoId)' = t /\ EntriesOf(NoId)' = n
    BY <1>2 DEF TableOf, EntriesOf
  <1>9. /\ Tree(f, t, n) /\ Apart(f, t, n, t, n) /\ ActiveApart(f, t, n, T, D)
        /\ ActiveTypes(f, t, n, c)
    BY <1>3 DEF Active
  <1>10. ASSUME NEW o \in Owners'
         PROVE  Tree(f, TableOf(o)', EntriesOf(o)')
    BY <1>6, <1>7, <1>8, <1>9
  <1>11. ASSUME NEW o \in Owners', NEW o2 \in Owners'
         PROVE  Apart(f, TableOf(o)', EntriesOf(o)', TableOf(o2)', EntriesOf(o2)')
    <2>1. CASE o = NoId /\ o2 = NoId
      BY <1>8, <1>9, <2>1
    <2>2. CASE o = NoId /\ o2 # NoId
      <3>1. o2 \in Ids /\ Listed(o2) /\ TableOf(o2)' = snap_l1[o2] /\ EntriesOf(o2)' = SizeOf(o2)
        BY <1>7, <2>2
      <3>2. ASSUME NEW k \in Used(t, n), NEW k2 \in Used(snap_l1[o2], SizeOf(o2)),
                   NEW j \in L2Index
            PROVE  f[snap_l1[o2][k2].host][j].host # t[k].host
        <4>1. f[snap_l1[o2][k2].host][j].host = file[snap_l1[o2][k2].host][j].host
          BY <1>5, <3>1 DEF Same
        <4>2. file[snap_l1[o2][k2].host][j].host # 0 =>
                file[snap_l1[o2][k2].host][j].host \in D
          BY <3>1, SnapHosts
        <4>3. t[k].host # 0 /\ t[k].host \notin D
          BY <1>9 DEF ActiveApart, Used
        <4> QED
          BY <4>1, <4>2, <4>3
      <3>3. Apart(f, t, n, snap_l1[o2], SizeOf(o2))
        BY <3>2 DEF Apart
      <3> QED
        BY <1>8, <2>2, <3>1, <3>3
    <2>3. CASE o # NoId /\ o2 = NoId
      <3>1. o \in Ids /\ Listed(o) /\ TableOf(o)' = snap_l1[o] /\ EntriesOf(o)' = SizeOf(o)
        BY <1>7, <2>3
      <3>2. ASSUME NEW k \in Used(snap_l1[o], SizeOf(o)), NEW k2 \in Used(t, n),
                   NEW j \in L2Index
            PROVE  f[t[k2].host][j].host # snap_l1[o][k].host
        <4>1. snap_l1[o][k].host \in T
          BY <3>1, SnapHosts
        <4>2. f[t[k2].host][j].host \notin T
          BY <1>9 DEF ActiveApart
        <4> QED
          BY <4>1, <4>2
      <3>3. Apart(f, snap_l1[o], SizeOf(o), t, n)
        BY <3>2 DEF Apart
      <3> QED
        BY <1>8, <2>3, <3>1, <3>3
    <2>4. CASE o # NoId /\ o2 # NoId
      <3>1. /\ o \in Ids /\ Listed(o) /\ TableOf(o)' = snap_l1[o] /\ EntriesOf(o)' = SizeOf(o)
            /\ o2 \in Ids /\ Listed(o2) /\ TableOf(o2)' = snap_l1[o2] /\ EntriesOf(o2)' = SizeOf(o2)
        BY <1>7, <2>4
      <3>2. Apart(file, snap_l1[o], SizeOf(o), snap_l1[o2], SizeOf(o2))
        <4>1. o \in Owners /\ o2 \in Owners
          BY <1>7
        <4>2. Apart(file, TableOf(o), EntriesOf(o), TableOf(o2), EntriesOf(o2))
          BY <4>1 DEF IInv, Trees
        <4> QED
          BY <1>7, <2>4, <4>1, <4>2
      <3>3. Apart(f, snap_l1[o], SizeOf(o), snap_l1[o2], SizeOf(o2))
        BY <1>5, <3>1, <3>2, SameApart
      <3> QED
        BY <3>1, <3>3
    <2> QED
      BY <2>1, <2>2, <2>3, <2>4
  <1>12. Trees'
    BY <1>2, <1>10, <1>11 DEF Trees
  <1>13. \A h : Holders(h)' \ {NoId} = Holders(h) \ {NoId}
    <2>1. \A o \in Ids : Hold(o)' = Hold(o)
      <3> SUFFICES ASSUME NEW o \in Ids PROVE Hold(o)' = Hold(o)
        OBVIOUS
      <3>1. Hold(o) = IF Listed(o) THEN Part(file, snap_l1[o], SizeOf(o), 0, L1Max) ELSE {}
        BY HoldIdle
      <3>2. Hold(o)' = IF Listed(o) THEN Part(f, snap_l1[o], SizeOf(o), 0, L1Max) ELSE {}
        <4>1. op'.k = "idle" /\ o # NoId
          BY Constants
        <4> QED
          BY <1>1, <1>2, <4>1 DEF Hold, HeldByOld, HeldByNew
      <3> QED
        BY <1>6, <3>1, <3>2
    <2> QED
      BY <2>1 DEF Holders
  <1>14. \A h : Held(h)' = Held(h)
    BY <1>13 DEF Held
  <1>15. \A h \in Host :
           /\ N[h] = Held(h)'
           /\ N[h] = 0 <=> Holders(h)' \subseteq {NoId}
           /\ Cardinality(Holders(h)') = N[h] + One(Reaches(f, t, n, h))
    BY <1>1, <1>2, <1>14, HeldFactsNext
  <1>16. Counts'
    <2>1. ASSUME NEW h \in Host
          PROVE  /\ Cardinality(Holders(h)') <= c[h]
                 /\ ~leaky => Cardinality(Holders(h)') = c[h]
      BY <1>3, <1>15 DEF Active, ActiveCounts
    <2> QED
      BY <1>2, <2>1 DEF Counts
  <1>17. \A k \in Used(t, n) :
           /\ t[k].host \in Host
           /\ \A j \in L2Index : f[t[k].host][j].host # 0 => f[t[k].host][j].host \in Host
    BY <1>9, ActiveHosts
  <1>18. Exclusive'
    <2>1. ActiveFlags(f, t, n, N)
      BY <1>3 DEF Active
    <2>2. ASSUME NEW e, e.host \in Host, e.copied => N[e.host] = 0
          PROVE  Own(e)'
      BY <1>15, <2>2 DEF Own
    <2>3. ASSUME NEW k \in Used(t, n)
          PROVE  /\ \A e : e = t[k] => Own(e)'
                 /\ \A j \in L2Index : \A e :
                       e = f[t[k].host][j] /\ e.host # 0 => Own(e)'
      BY <1>17, <2>1, <2>2 DEF ActiveFlags
    <2> QED
      BY <1>2, <2>3 DEF Exclusive
  <1>19. Exact'
    <2>1. ~leaky => ActiveExact(f, t, n, c)
      BY <1>3 DEF Active
    <2> QED
      BY <1>2, <2>1 DEF Exact, ActiveExact
  <1> QED
    BY <1>1, <1>2, <1>6, <1>12, <1>16, <1>18, <1>19

-----------------------------------------------------------------------------
(* The guest's write keeps the invariant: GrowL1 of a write behind the     *)
(* end of the L1 table, the L2 table, and the data cluster, in one step.   *)

LEMMA WriteKeeps ==
    ASSUME IInv, NEW i \in L1Index, NEW j \in L2Index, NEW v \in Values,
           Write(i, j, v)
    PROVE  IInv'
  <1> DEFINE big == i >= l1_size
             E == IF big THEN None ELSE l1[i]
             L2 == ClusterTable(E)
  <1>1. /\ op.k = "idle" /\ Cardinality(Free(rc)) >= 2
        /\ i < l1_size \/ NewL1Size(i + 1) <= L1Max
        /\ disk_l1_size' = IF i >= l1_size THEN l1_size' ELSE disk_l1_size
        /\ disk_rc' = rc'
        /\ image' = [image EXCEPT ![<<i, j>>] = v]
        /\ drift' = (drift /\ i < l1_size)
        /\ UNCHANGED <<snaps, disk_snaps, disk_nb, snap_l1, op, saved, leaky>>
    BY DEF Write
  <1>2. /\ l1_size' = (IF big THEN NewL1Size(i + 1) ELSE l1_size)
        /\ l1' = [(IF big THEN GrownL1 ELSE l1) EXCEPT
                    ![i] = [host |-> L2.at, copied |-> TRUE]]
        /\ disk_l1' = L1Written(E, l1')
        /\ file' = IF L2.table[j].copied
                   THEN [file EXCEPT ![L2.at] = L2.table, ![L2.table[j].host] = v]
                   ELSE [file EXCEPT
                          ![L2.at] = [L2.table EXCEPT
                             ![j] = [host |-> LowestFree(L2.count), copied |-> TRUE]],
                          ![LowestFree(L2.count)] = v]
        /\ rc' = IF L2.table[j].copied THEN L2.count
                 ELSE [h \in Host |->
                         IF h = LowestFree(L2.count) THEN 1
                         ELSE IF h = L2.table[j].host THEN L2.count[h] - 1
                         ELSE L2.count[h]]
    BY DEF Write, InPlace
  <1>3. PICK e, at, tab, d : e = E /\ at = L2.at /\ tab = L2.table /\ d = L2.count
    OBVIOUS
  <1>4. PICK freed : freed = IF e.host = 0 THEN rc
                             ELSE [rc EXCEPT ![e.host] = rc[e.host] - 1]
    OBVIOUS
  <1>5. /\ at = IF e.copied THEN e.host ELSE LowestFree(freed)
        /\ tab = IF e.copied THEN file[e.host]
                 ELSE IF e.host = 0 THEN EmptyL2 ELSE file[e.host]
        /\ d = IF e.copied THEN rc ELSE [freed EXCEPT ![at] = 1]
    <2>1. L2 = ClusterTable(e)
      BY <1>3
    <2>2. CASE e.copied
      <3>1. L2 = [at |-> e.host, table |-> file[e.host], count |-> rc]
        BY <2>1, <2>2 DEF ClusterTable
      <3> QED
        BY <1>3, <2>2, <3>1
    <2>3. CASE ~e.copied
      <3>1. L2 = [at |-> LowestFree(freed), table |-> OldL2(e),
                  count |-> [freed EXCEPT ![LowestFree(freed)] = 1]]
        BY <1>4, <2>1, <2>3 DEF ClusterTable
      <3>2. at = L2.at /\ tab = L2.table /\ d = L2.count
        BY <1>3
      <3> HIDE DEF L2, E, big
      <3>3. /\ at = LowestFree(freed) /\ tab = OldL2(e)
            /\ d = [freed EXCEPT ![LowestFree(freed)] = 1]
        BY <3>1, <3>2
      <3>4. d = [freed EXCEPT ![at] = 1]
        BY <3>3
      <3> QED
        BY <2>3, <3>3, <3>4 DEF OldL2
    <2> QED
      BY <2>2, <2>3
  <1> HIDE DEF L2
  <1>6. PICK x : x = IF big THEN GrownL1 ELSE l1
    OBVIOUS
  <1>7. PICK u, m, f2, c2 : u = l1' /\ m = l1_size' /\ f2 = file' /\ c2 = rc'
    OBVIOUS
  <1>8. PICK old, new, tab2, g :
          /\ old = tab[j] /\ new = LowestFree(d)
          /\ tab2 = [tab EXCEPT ![j] = [host |-> new, copied |-> TRUE]]
          /\ g = [file EXCEPT ![at] = tab]
    OBVIOUS
  <1>9. PICK N, T, D : N = [h \in Host |-> Held(h)] /\ T = SnapTables /\ D = SnapData
    OBVIOUS
  <1>10. Active(file, l1, l1_size, rc, N, T, D, leaky) /\ Others(N, T, D)
    BY <1>1, <1>9, WriteStart
  <1>11. /\ i \in Nat /\ i < L1Max /\ l1_size \in 0..L1Max /\ l1 \in L1Tables
         /\ big <=> ~(i < l1_size)
    BY Constants DEF IInv, Types
  <1>12. /\ m \in 0..L1Max /\ l1_size <= m /\ i < m /\ (i < l1_size => m = l1_size)
    <2>1. CASE big
      <3>1. i + 1 \in Nat
        BY <1>11
      <3>2. NewL1Size(i + 1) \in Nat /\ NewL1Size(i + 1) >= i + 1
        BY <3>1, GrownSize DEF IInv
      <3>3. m = NewL1Size(i + 1) /\ m <= L1Max
        BY <1>1, <1>2, <1>7, <1>11, <2>1
      <3>4. m \in Nat /\ m >= i + 1
        BY <3>2, <3>3
      <3> HIDE DEF big
      <3> QED
        BY <1>11, <2>1, <3>3, <3>4, Constants DEF big
    <2>2. CASE ~big
      BY <1>2, <1>7, <1>11, <2>2
    <2> QED
      BY <2>1, <2>2
  <1>13. /\ x \in L1Tables /\ (i < l1_size => x = l1)
         /\ \A k \in L1Index : /\ k < l1_size => x[k] = l1[k]
                               /\ ~(k < l1_size) /\ k < m => x[k] = None
    <2>1. CASE big
      <3>1. x = [k \in L1Index |-> IF k < l1_size THEN l1[k] ELSE EmptyL1[k]]
        BY <1>6, <2>1 DEF GrownL1, Overlay
      <3>2. \A k \in L1Index : EmptyL1[k] = None
        BY DEF EmptyL1
      <3> QED
        BY <1>11, <2>1, <3>1, <3>2, Constants DEF L1Tables
    <2>2. CASE ~big
      <3>1. m = l1_size /\ x = l1
        BY <1>6, <1>11, <1>12, <2>2
      <3> QED
        BY <1>11, <3>1
    <2> QED
      BY <2>1, <2>2
  <1>14. e = IF i < l1_size THEN l1[i] ELSE None
    BY <1>3, <1>11
  <1>15. TableOwned(file, l1, l1_size, rc, i, m, e, freed, at, tab, g, d, x, u)
    <2>1. u = [x EXCEPT ![i] = [host |-> at, copied |-> TRUE]]
      BY <1>2, <1>3, <1>6, <1>7
    <2> QED
      BY <1>4, <1>5, <1>8, <1>13, <1>14, <2>1 DEF TableOwned
  <1>16. OwnsTable(file, l1, l1_size, rc, N, T, D, leaky, i, m, e, freed, at, tab,
                   g, d, x, u)
    BY <1>1, <1>10, <1>12, <1>13, <1>15 DEF OwnsTable
  <1>17. Stored(file, at, tab, d, j, v, old, new, tab2, f2, c2)
    <2>1. f2 = IF old.copied THEN [file EXCEPT ![at] = tab, ![old.host] = v]
               ELSE [file EXCEPT ![at] = tab2, ![new] = v]
      BY <1>2, <1>3, <1>7, <1>8
    <2>2. c2 = IF old.copied THEN d
               ELSE [h \in Host |-> IF h = new THEN 1
                                    ELSE IF h = old.host THEN d[h] - 1 ELSE d[h]]
      BY <1>2, <1>3, <1>7, <1>8
    <2> QED
      BY <1>8, <2>1, <2>2 DEF Stored
  <1>18. /\ Active(f2, u, m, c2, N, T, D, leaky)
         /\ e.copied => u = l1
         /\ \A h \in Host : N[h] # 0 => f2[h] = file[h]
         /\ \A y \in Clusters : ReadIn(f2, u, m, y) =
              IF y = <<i, j>> THEN v ELSE ReadIn(file, l1, l1_size, y)
    BY <1>16, <1>17, WriteTree
  <1>19. /\ disk_l1' = IF e.copied THEN disk_l1 ELSE u
         /\ e.copied => i < l1_size
    <2>1. disk_l1' = IF e.copied THEN disk_l1 ELSE u
      BY <1>2, <1>3, <1>7 DEF L1Written
    <2>2. ~None.copied
      BY DEF None
    <2> QED
      BY <1>14, <2>1, <2>2
  <1> HIDE DEF big, E
  <1>20. Types'
    <2>1. /\ file' \in [Host -> Content] /\ l1' \in L1Tables /\ l1_size' \in 0..L1Max
          /\ rc' \in [Host -> Nat] /\ u \in L1Tables
      BY <1>7, <1>18 DEF Active, ActiveTypes
    <2>2. disk_l1' \in L1Tables
      BY <1>19, <2>1 DEF IInv, Types
    <2>3. disk_l1_size' \in 0..L1Max
      BY <1>1, <2>1 DEF IInv, Types
    <2>4. image' \in [Clusters -> Values \cup {Blank}]
      <3>1. image \in [Clusters -> Values \cup {Blank}] /\ v \in Values \cup {Blank}
        BY DEF IInv, Types
      <3> QED
        BY <1>1, <3>1
    <2>5. drift' \in BOOLEAN
      BY <1>1, Zenon
    <2> QED
      BY <1>1, <2>1, <2>2, <2>3, <2>4, <2>5 DEF IInv, Types
  <1>21. /\ Distinct' /\ Trees' /\ Counts' /\ Exclusive' /\ Exact'
         /\ \A id : Listed(id)' <=> Listed(id)
         /\ \A id : SizeOf(id)' = SizeOf(id)
         /\ \A id \in Ids : Listed(id) => \A c \in Clusters :
              ReadIn(file', snap_l1'[id], SizeOf(id)', c)
                = ReadIn(file, snap_l1[id], SizeOf(id), c)
    <2>1. Active(file', l1', l1_size', rc', N, T, D, leaky)
      BY <1>7, <1>18
    <2>2. \A h \in Host : N[h] # 0 => file'[h] = file[h]
      BY <1>7, <1>18
    <2> QED
      BY <1>1, <1>9, <1>20, <2>1, <2>2, WriteEnd
  <1>22. op = Idle /\ op' = Idle
    BY <1>1 DEF IInv, Shape
  <1>23. op'.k = "idle" /\ op'.step = "idle" /\ op'.on = "active"
    BY <1>22 DEF Idle
  <1>24. Shape'
    BY <1>22, <1>23 DEF Shape, CreateShape, GotoShape, DeleteShape, InRefs
  <1>25. SameSize'
    <2>1. CASE i < l1_size
      <3>1. disk_l1_size' = disk_l1_size /\ l1_size' = l1_size /\ drift' => drift
        BY <1>1, <1>7, <1>11, <1>12, <2>1
      <3>2. ~drift' => ~drift
        BY <1>1, <2>1, Zenon
      <3> QED
        BY <1>1, <1>7, <1>11, <1>12, <2>1, <3>2 DEF IInv, SameSize, big
    <2>2. CASE ~(i < l1_size)
      <3>1. i >= l1_size
        BY <1>11, <2>2 DEF big
      <3> QED
        BY <1>1, <3>1 DEF SameSize
    <2> QED
      BY <2>1, <2>2
  <1>26. Synced'
    <2>1. CASE e.copied
      <3>1. /\ l1' = l1 /\ l1_size' = l1_size /\ disk_l1' = disk_l1
        BY <1>7, <1>12, <1>18, <1>19, <2>1
      <3>2. leaky' /\ drift' <=> leaky /\ drift
        BY <1>1, <1>19, <2>1, Zenon
      <3>3. ~(leaky /\ drift) => Equal
        BY <1>22, <1>1 DEF IInv, Synced, InRefs, Idle
      <3>4. Equal' <=> Equal
        BY <3>1 DEF Equal
      <3> QED
        BY <1>23, <3>2, <3>3, <3>4 DEF Synced
    <2>2. CASE ~e.copied
      <3>1. disk_l1' = l1'
        BY <1>7, <1>19, <2>2
      <3>2. Equal'
        BY <3>1 DEF Equal
      <3> QED
        BY <1>23, <3>2 DEF Synced
    <2> QED
      BY <2>1, <2>2
  <1>27. Written'
    BY <1>1, <1>23 DEF Written
  <1>28. Listing'
    BY <1>1, <1>23 DEF IInv, Listing
  <1>29. Contents'
    <2>1. ASSUME NEW c \in Clusters
          PROVE  ReadIn(file', l1', l1_size', c) = image'[c]
      <3>1. ReadIn(f2, u, m, c) = IF c = <<i, j>> THEN v ELSE ReadIn(file, l1, l1_size, c)
        BY <1>18
      <3>2. ReadIn(file, l1, l1_size, c) = image[c]
        BY <1>1 DEF IInv, Contents
      <3>3. image'[c] = IF c = <<i, j>> THEN v ELSE image[c]
        BY <1>1 DEF IInv, Types
      <3> QED
        BY <1>7, <3>1, <3>2, <3>3
    <2>2. \A id \in Ids : Listed(id)' => \A c \in Clusters :
              ReadIn(file', snap_l1'[id], SizeOf(id)', c) = saved'[id][c]
      BY <1>1, <1>21 DEF IInv, Contents
    <2> QED
      BY <1>23, <2>1, <2>2 DEF Contents
  <1> QED
    BY <1>20, <1>21, <1>24, <1>25, <1>26, <1>27, <1>28, <1>29 DEF IInv

-----------------------------------------------------------------------------
(* The invariant.                                                          *)

LEMMA StutterKeeps ==
    ASSUME IInv, UNCHANGED vars
    PROVE  IInv'
  <1>1. UNCHANGED <<file, l1, l1_size, rc, snaps, disk_l1, disk_l1_size, disk_rc,
                    disk_snaps, disk_nb, snap_l1, op, image, saved, drift, leaky>>
    BY DEF vars, memVars, diskVars, history
  <1>2. /\ \A id : Listed(id)' <=> Listed(id)
        /\ \A id : SizeOf(id)' = SizeOf(id)
        /\ Distinct'
    BY <1>1, ListFrame DEF IInv
  <1>3. Types'
    BY <1>1 DEF IInv, Types
  <1>4. Size' = Size /\ (InRefs' <=> InRefs)
    <2>1. \A o : o = op.id => SizeOf(o)' = SizeOf(o)
      BY <1>2
    <2>2. SizeOf(op.id)' = SizeOf(op.id)
      BY <1>1 DEF SizeOf, find_snapshot_by_id
    <2> QED
      BY <1>1, <2>2 DEF Size, InRefs
  <1>5. Shape'
    <2>1. (Listed(op.id)' <=> Listed(op.id)) /\ SizeOf(op.id)' = SizeOf(op.id)
      BY <1>1 DEF Listed, SizeOf, find_snapshot_by_id
    <2> QED
      BY <1>1, <1>4, <2>1 DEF IInv, Shape, CreateShape, GotoShape, DeleteShape
  <1>6. Trees'
    BY <1>1, TreesKept DEF IInv
  <1>7. First' = First /\ Last' = Last /\ Flagged' = Flagged
    BY <1>1 DEF First, Last, Flagged
  <1>8. \A o \in Ids \cup {NoId} : Hold(o)' = Hold(o)
    <2> SUFFICES ASSUME NEW o \in Ids \cup {NoId} PROVE Hold(o)' = Hold(o)
      OBVIOUS
    <2>1. HeldByNew(o)' = HeldByNew(o)
      BY <1>1 DEF HeldByNew
    <2>2. HeldByOld(o)' = HeldByOld(o)
      BY <1>1, <1>2 DEF HeldByOld
    <2> QED
      BY <1>1, <1>2, <1>7, <2>1, <2>2 DEF Hold
  <1>9. \A h : Holders(h)' = Holders(h)
    BY <1>8, HoldersKept
  <1>10. Counts' /\ Exclusive' /\ Exact'
    BY <1>1, <1>7, <1>9, CountsKept, ExclusiveKept, ExactKept DEF IInv
  <1>11. SameSize' /\ Listing'
    BY <1>1 DEF IInv, SameSize, Listing
  <1>12. Synced'
    <2>1. Equal' <=> Equal
      BY <1>1 DEF Equal
    <2>2. \A i \in L1Index : Holders(l1[i].host)' = Holders(l1[i].host)
      BY <1>1, <1>9
    <2> QED
      BY <1>1, <1>4, <2>1, <2>2 DEF IInv, Synced
  <1>13. Written'
    BY <1>1, <1>4, <1>9 DEF IInv, Written
  <1>14. Contents'
    BY <1>1, <1>2 DEF IInv, Contents
  <1> QED
    BY <1>2, <1>3, <1>5, <1>6, <1>10, <1>11, <1>12, <1>13, <1>14 DEF IInv

LEMMA InitHolds ==
    ASSUME Init
    PROVE  IInv
  <1>1. /\ file = [h \in Host |-> Blank]
        /\ l1 = EmptyL1 /\ disk_l1 = EmptyL1
        /\ l1_size = DiskTables /\ disk_l1_size = DiskTables
        /\ rc = [h \in Host |-> 0] /\ disk_rc = [h \in Host |-> 0]
        /\ snaps = <<>> /\ disk_snaps = <<>> /\ disk_nb = 0
        /\ snap_l1 = [id \in Ids |-> EmptyL1]
        /\ op = Idle
        /\ image = [c \in Clusters |-> Blank]
        /\ drift = FALSE /\ leaky = FALSE
        /\ saved = [id \in Ids |-> [c \in Clusters |-> Blank]]
    BY DEF Init
  <1>2. Types
    <2>1. DiskTables \in 0..L1Max
      BY L1Assumption
    <2>2. Blank \in Content /\ Blank \in Values \cup {Blank}
      BY DEF Content
    <2>3. <<>> \in Seq(Snapshot)
      OBVIOUS
    <2> QED
      BY <1>1, <2>1, <2>2, <2>3, Constants DEF Types
  <1>3. \A id : ~Listed(id)
    BY <1>1 DEF Listed
  <1>4. Distinct
    BY <1>1 DEF Distinct
  <1>5. /\ op.k = "idle" /\ op.step = "idle" /\ op.on = "active"
    BY <1>1 DEF Idle
  <1>6. Shape
    BY <1>1, <1>5 DEF Shape, CreateShape, GotoShape, DeleteShape, InRefs
  <1>7. Used(l1, l1_size) = {}
    BY <1>1, Constants DEF Used
  <1>8. Owners = {NoId} /\ TableOf(NoId) = l1 /\ EntriesOf(NoId) = l1_size
    BY <1>3 DEF Owners, TableOf, EntriesOf
  <1>9. Trees
    <2>1. Tree(file, l1, l1_size)
      BY <1>1, <1>7, Constants DEF Tree, Sound, Injective
    <2>2. Apart(file, l1, l1_size, l1, l1_size)
      BY <1>7 DEF Apart
    <2> QED
      BY <1>8, <2>1, <2>2 DEF Trees
  <1>10. \A h : Holders(h) = {}
    <2>1. Part(file, l1, l1_size, 0, L1Max) = {}
      BY <1>7 DEF Part
    <2>2. \A o \in Ids \cup {NoId} : Hold(o) = {}
      BY <1>3, <1>5, <2>1, HoldIdle
    <2> QED
      BY <2>2 DEF Holders
  <1>11. Counts
    <2>1. Cardinality({}) = 0
      BY FS_EmptySet
    <2>2. \A h \in Host : rc[h] = 0 /\ Cardinality(Holders(h)) = 0
      BY <1>1, <1>10, <2>1
    <2>3. \A h \in Host : /\ Cardinality(Holders(h)) <= rc[h]
                          /\ Cardinality(Holders(h)) = rc[h]
      BY <2>2
    <2> QED
      BY <2>3 DEF Counts
  <1>12. Exclusive /\ Exact
    BY <1>7 DEF Exclusive, Exact
  <1>13. SameSize
    BY <1>1 DEF SameSize
  <1>14. Synced
    BY <1>1, <1>5 DEF Synced, Equal
  <1>15. Written
    BY <1>1, <1>5 DEF Written
  <1>16. Listing
    <2>1. Len(<<>>) = 0 /\ 1..0 = {}
      OBVIOUS
    <2>2. disk_nb <= Len(snaps) /\ disk_nb <= Len(disk_snaps) /\ disk_nb = Len(snaps)
      BY <1>1, <2>1
    <2>3. \A k \in 1..disk_nb : disk_snaps[k] = snaps[k]
      BY <1>1, <2>1
    <2> QED
      BY <1>5, <2>2, <2>3 DEF Listing
  <1>17. Contents
    <2>1. ASSUME NEW c \in Clusters
          PROVE  ReadIn(file, l1, l1_size, c) = image[c]
      <3>1. c[1] \in L1Index
        BY DEF Clusters
      <3>2. l1[c[1]].host = 0
        BY <1>1, <3>1, Constants
      <3> QED
        BY <1>1, <3>2 DEF ReadIn
    <2> QED
      BY <1>3, <1>5, <2>1 DEF Contents
  <1> QED
    BY <1>2, <1>4, <1>6, <1>9, <1>11, <1>12, <1>13, <1>14, <1>15, <1>16, <1>17
       DEF IInv

LEMMA NextKeeps ==
    ASSUME Supported, IInv, [Next]_vars
    PROVE  IInv'
  <1>1. CASE UNCHANGED vars
    BY <1>1, StutterKeeps
  <1>2. CASE Reopen
    BY <1>2, ReopenKeeps
  <1>3. CASE \E i \in L1Index, j \in L2Index, v \in Values : Write(i, j, v)
    BY <1>3, WriteKeeps
  <1>4. CASE \E id \in Ids :
               SnapshotCreate(id) \/ SnapshotGoto(id) \/ SnapshotDelete(id)
    BY <1>4, CreateKeeps, GotoKeeps, DeleteKeeps
  <1>5. CASE UpdateTable
    BY <1>5, UpdateKeeps
  <1>6. CASE WriteL1
    BY <1>6, WriteL1Keeps
  <1>7. CASE WriteRefcounts
    BY <1>7, RefcountsKeeps
  <1>8. CASE RefsFail
    BY <1>8, RefsFailKeeps
  <1>9. CASE SaveL1
    BY <1>9, SaveKeeps
  <1>10. CASE GrowL1
    BY <1>10, GrowKeeps
  <1>11. CASE LoadL1
    BY <1>11, LoadKeeps
  <1>12. CASE Drop
    BY <1>12, DropKeeps
  <1>13. CASE WriteList
    BY <1>13, ListKeeps
  <1>14. CASE WriteCount
    BY <1>14, CountKeeps
  <1>15. CASE SnapshotFail
    BY <1>15, SnapshotFailKeeps
  <1> QED
    BY <1>1, <1>2, <1>3, <1>4, <1>5, <1>6, <1>7, <1>8, <1>9, <1>10, <1>11, <1>12,
       <1>13, <1>14, <1>15 DEF Next

LEMMA Invariant ==
    ASSUME Supported
    PROVE  Spec => []IInv
  <1>1. Init => IInv
    BY InitHolds
  <1>2. IInv /\ [Next]_vars => IInv'
    BY NextKeeps
  <1> QED
    BY <1>1, <1>2, PTL DEF Spec
-----------------------------------------------------------------------------
(* What the invariant says of the reads.                                   *)

LEMMA GuestReads == IInv => GuestIntact
  <1> SUFFICES ASSUME IInv PROVE GuestIntact
    OBVIOUS
  <1>1. \A c \in Clusters : Read(l1, l1_size, c) = ReadIn(file, l1, l1_size, c)
    BY DEF Read, ReadIn
  <1> QED
    BY <1>1 DEF IInv, Contents, GuestIntact

LEMMA SnapshotReads == IInv => SnapshotsIntact
  <1> SUFFICES ASSUME IInv, NEW k \in DOMAIN snaps, NEW c \in Clusters
               PROVE  Read(snap_l1[snaps[k].id], snaps[k].size, c)
                        = saved[snaps[k].id][c]
    BY DEF SnapshotsIntact
  <1>1. PICK id : id = snaps[k].id
    OBVIOUS
  <1>2. id \in Ids /\ Listed(id) /\ SizeOf(id) = snaps[k].size
    <2>1. snaps \in Seq(Snapshot) /\ DistinctIn(snaps)
      BY ListNames DEF IInv, Types
    <2> QED
      BY <1>1, <2>1, ListFacts, ListNames
  <1>3. ReadIn(file, snap_l1[id], SizeOf(id), c) = saved[id][c]
    BY <1>2 DEF IInv, Contents
  <1>4. Read(snap_l1[id], SizeOf(id), c) = ReadIn(file, snap_l1[id], SizeOf(id), c)
    BY DEF Read, ReadIn
  <1> QED
    BY <1>1, <1>2, <1>3, <1>4

-----------------------------------------------------------------------------
(* The references that qcow2_check_refcounts counts are the trees that     *)
(* hold a cluster: each of them reaches it once.                           *)

TableAt(list, k) == IF k = 0 THEN disk_l1 ELSE snap_l1[list[k].id]
SizeAt(n, list, k) == IF k = 0 THEN n ELSE list[k].size
HostAt(list, ki) == TableAt(list, ki[1])[ki[2]].host
UsedAt(n, list) == {ki \in (0..Len(list)) \X L1Index :
                      ki[2] < SizeAt(n, list, ki[1]) /\ HostAt(list, ki) # 0}
TableRefs(n, list, h) == {ki \in UsedAt(n, list) : HostAt(list, ki) = h}
DataRefs(n, list, h) ==
    {kij \in UsedAt(n, list) \X L2Index :
        /\ file[HostAt(list, kij[1])] \in L2Tables
        /\ file[HostAt(list, kij[1])][kij[2]].host = h}

LEMMA ReferencesParts ==
    ASSUME NEW n, NEW list, NEW h
    PROVE  References(n, list, h) = Cardinality(TableRefs(n, list, h))
                                      + Cardinality(DataRefs(n, list, h))
  BY DEF References, TableRefs, DataRefs, UsedAt, HostAt, SizeAt, TableAt

LEMMA OneToOne ==
    ASSUME NEW A, NEW S, IsFiniteSet(S), NEW w \in [A -> S],
           \A a, b \in A : w[a] = w[b] => a = b,
           \A s \in S : \E a \in A : w[a] = s
    PROVE  Cardinality(A) = Cardinality(S)
  <1>1. w \in Bijection(A, S)
    BY Fun_IsBij
  <1>2. ExistsBijection(A, S)
    BY <1>1, Fun_ExistsBij
  <1>3. ExistsBijection(S, A)
    BY <1>2, Fun_ExistsBijSymmetric
  <1> QED
    BY <1>3, FS_Bijection

\* The trees of a list, and those that hold h: in a table, or as data.
OwnersIn(list) == {NoId} \cup {id \in Ids : Has(list, id)}
OwnerAt(list, k) == IF k = 0 THEN NoId ELSE list[k].id
TableHolders(list, h) ==
    {o \in OwnersIn(list) :
        \E i \in Used(TableOf(o), EntriesOf(o)) : TableOf(o)[i].host = h}
DataHolders(list, h) ==
    {o \in OwnersIn(list) :
        \E i \in Used(TableOf(o), EntriesOf(o)), j \in L2Index :
           file[TableOf(o)[i].host][j].host = h}
InFile(list) ==
    /\ list \in Seq(Snapshot) /\ DistinctIn(list)
    /\ \A o : Has(list, o) => Has(snaps, o) /\ SizeIn(list, o) = SizeIn(snaps, o)
    /\ \A i \in L1Index : i < l1_size => disk_l1[i].host = l1[i].host

LEMMA OwnerFacts ==
    ASSUME IInv, NEW list, InFile(list)
    PROVE  /\ OwnersIn(list) \subseteq Owners
           /\ Len(list) \in Nat /\ DOMAIN list = 1..Len(list)
           /\ \A k \in 0..Len(list) :
                /\ OwnerAt(list, k) \in OwnersIn(list)
                /\ SizeAt(l1_size, list, k) = EntriesOf(OwnerAt(list, k))
                /\ \A i \in L1Index : i < SizeAt(l1_size, list, k) =>
                      HostAt(list, <<k, i>>) = TableOf(OwnerAt(list, k))[i].host
           /\ \A k, k2 \in 0..Len(list) : OwnerAt(list, k) = OwnerAt(list, k2) => k = k2
           /\ \A o \in OwnersIn(list) : \E k \in 0..Len(list) : OwnerAt(list, k) = o
  <1>1. /\ list \in Seq(Snapshot) /\ DistinctIn(list)
        /\ \A o : Has(list, o) => Has(snaps, o) /\ SizeIn(list, o) = SizeIn(snaps, o)
        /\ \A i \in L1Index : i < l1_size => disk_l1[i].host = l1[i].host
    BY DEF InFile
  <1>2. Len(list) \in Nat /\ DOMAIN list = 1..Len(list)
    BY <1>1
  <1>3. /\ \A k \in DOMAIN list : /\ list[k].id \in Ids /\ Has(list, list[k].id)
                                  /\ SizeIn(list, list[k].id) = list[k].size
    BY <1>1, ListFacts
  <1>4. OwnersIn(list) \subseteq Owners
    BY <1>1, ListNames DEF OwnersIn, Owners
  <1>5. NoId \notin Ids
    BY Constants
  <1>6. PICK L : L = Len(list)
    OBVIOUS
  <1>7. \A k \in 0..L : k # 0 => k \in DOMAIN list
    BY <1>2, <1>6
  <1>8. ASSUME NEW k \in 0..L
        PROVE  /\ OwnerAt(list, k) \in OwnersIn(list)
               /\ SizeAt(l1_size, list, k) = EntriesOf(OwnerAt(list, k))
               /\ \A i \in L1Index : i < SizeAt(l1_size, list, k) =>
                     HostAt(list, <<k, i>>) = TableOf(OwnerAt(list, k))[i].host
    <2>1. CASE k = 0
      <3>1. /\ OwnerAt(list, k) = NoId /\ SizeAt(l1_size, list, k) = l1_size
            /\ TableAt(list, k) = disk_l1
        BY <2>1 DEF OwnerAt, SizeAt, TableAt
      <3>2. EntriesOf(NoId) = l1_size /\ TableOf(NoId) = l1 /\ NoId \in OwnersIn(list)
        BY DEF EntriesOf, TableOf, OwnersIn
      <3>3. \A i \in L1Index : HostAt(list, <<k, i>>) = disk_l1[i].host
        BY <3>1 DEF HostAt
      <3> QED
        BY <1>1, <3>1, <3>2, <3>3
    <2>2. CASE k # 0
      <3>1. k \in DOMAIN list
        BY <1>7, <2>2
      <3>2. PICK id : id = list[k].id
        OBVIOUS
      <3>3. /\ id \in Ids /\ Has(list, id) /\ SizeIn(list, id) = list[k].size
        BY <1>3, <3>1, <3>2
      <3>4. /\ OwnerAt(list, k) = id /\ SizeAt(l1_size, list, k) = list[k].size
            /\ TableAt(list, k) = snap_l1[id]
        BY <2>2, <3>2 DEF OwnerAt, SizeAt, TableAt
      <3>5. EntriesOf(id) = SizeIn(snaps, id) /\ TableOf(id) = snap_l1[id]
        BY <1>5, <3>3, ListNames DEF EntriesOf, TableOf
      <3>6. SizeIn(list, id) = SizeIn(snaps, id)
        BY <1>1, <3>3
      <3>7. \A i \in L1Index : HostAt(list, <<k, i>>) = snap_l1[id][i].host
        BY <3>4 DEF HostAt
      <3> QED
        BY <3>3, <3>4, <3>5, <3>6, <3>7 DEF OwnersIn
    <2> QED
      BY <2>1, <2>2
  <1>9. ASSUME NEW k \in 0..L, NEW k2 \in 0..L, OwnerAt(list, k) = OwnerAt(list, k2)
        PROVE  k = k2
    <2>1. CASE k = 0 /\ k2 = 0
      BY <2>1
    <2>2. CASE k # 0 /\ k2 # 0
      <3>1. k \in DOMAIN list /\ k2 \in DOMAIN list /\ list[k].id = list[k2].id
        BY <1>7, <1>9, <2>2 DEF OwnerAt
      <3> QED
        BY <1>1, <3>1 DEF DistinctIn
    <2>3. CASE k = 0 /\ k2 # 0
      <3>1. list[k2].id \in Ids /\ list[k2].id = NoId
        BY <1>3, <1>7, <1>9, <2>3 DEF OwnerAt
      <3> QED
        BY <1>5, <3>1
    <2>4. CASE k # 0 /\ k2 = 0
      <3>1. list[k].id \in Ids /\ list[k].id = NoId
        BY <1>3, <1>7, <1>9, <2>4 DEF OwnerAt
      <3> QED
        BY <1>5, <3>1
    <2> QED
      BY <2>1, <2>2, <2>3, <2>4
  <1>10. ASSUME NEW o \in OwnersIn(list)
         PROVE  \E k \in 0..L : OwnerAt(list, k) = o
    <2>1. CASE o = NoId
      <3>1. 0 \in 0..L
        BY <1>2, <1>6
      <3> QED
        BY <2>1, <3>1 DEF OwnerAt
    <2>2. CASE o # NoId
      <3>1. PICK k \in DOMAIN list : list[k].id = o
        BY <2>2 DEF OwnersIn, Has
      <3>2. k \in 0..L /\ k # 0
        BY <1>2, <1>6
      <3> QED
        BY <3>1, <3>2 DEF OwnerAt
    <2> QED
      BY <2>1, <2>2
  <1> QED
    BY <1>2, <1>4, <1>6, <1>8, <1>9, <1>10

LEMMA UsedFacts ==
    ASSUME IInv, NEW list, InFile(list)
    PROVE  /\ \A ki \in UsedAt(l1_size, list) :
                /\ ki = <<ki[1], ki[2]>> /\ ki[1] \in 0..Len(list) /\ ki[2] \in L1Index
                /\ OwnerAt(list, ki[1]) \in OwnersIn(list)
                /\ ki[2] \in Used(TableOf(OwnerAt(list, ki[1])),
                                  EntriesOf(OwnerAt(list, ki[1])))
                /\ HostAt(list, ki) = TableOf(OwnerAt(list, ki[1]))[ki[2]].host
           /\ \A o \in OwnersIn(list) : \A i \in Used(TableOf(o), EntriesOf(o)) :
                \E k \in 0..Len(list) :
                   /\ OwnerAt(list, k) = o /\ <<k, i>> \in UsedAt(l1_size, list)
                   /\ HostAt(list, <<k, i>>) = TableOf(o)[i].host
  <1>1. /\ \A k \in 0..Len(list) :
             /\ OwnerAt(list, k) \in OwnersIn(list)
             /\ SizeAt(l1_size, list, k) = EntriesOf(OwnerAt(list, k))
             /\ \A i \in L1Index : i < SizeAt(l1_size, list, k) =>
                   HostAt(list, <<k, i>>) = TableOf(OwnerAt(list, k))[i].host
        /\ \A o \in OwnersIn(list) : \E k \in 0..Len(list) : OwnerAt(list, k) = o
    BY OwnerFacts
  <1>2. ASSUME NEW ki \in UsedAt(l1_size, list)
        PROVE  /\ ki = <<ki[1], ki[2]>> /\ ki[1] \in 0..Len(list) /\ ki[2] \in L1Index
               /\ OwnerAt(list, ki[1]) \in OwnersIn(list)
               /\ ki[2] \in Used(TableOf(OwnerAt(list, ki[1])),
                                 EntriesOf(OwnerAt(list, ki[1])))
               /\ HostAt(list, ki) = TableOf(OwnerAt(list, ki[1]))[ki[2]].host
    <2>1. /\ ki \in (0..Len(list)) \X L1Index
          /\ ki[2] < SizeAt(l1_size, list, ki[1]) /\ HostAt(list, ki) # 0
      BY DEF UsedAt
    <2>2. ki = <<ki[1], ki[2]>> /\ ki[1] \in 0..Len(list) /\ ki[2] \in L1Index
      BY <2>1
    <2>3. HostAt(list, ki) = TableOf(OwnerAt(list, ki[1]))[ki[2]].host
      <3>1. HostAt(list, <<ki[1], ki[2]>>) = TableOf(OwnerAt(list, ki[1]))[ki[2]].host
        BY <1>1, <2>1, <2>2
      <3> QED
        BY <2>2, <3>1
    <2>4. ki[2] < EntriesOf(OwnerAt(list, ki[1]))
      BY <1>1, <2>1, <2>2
    <2> QED
      BY <1>1, <2>1, <2>2, <2>3, <2>4 DEF Used
  <1>3. ASSUME NEW o \in OwnersIn(list), NEW i \in Used(TableOf(o), EntriesOf(o))
        PROVE  \E k \in 0..Len(list) :
                   /\ OwnerAt(list, k) = o /\ <<k, i>> \in UsedAt(l1_size, list)
                   /\ HostAt(list, <<k, i>>) = TableOf(o)[i].host
    <2>1. PICK k \in 0..Len(list) : OwnerAt(list, k) = o
      BY <1>1
    <2>2. i \in L1Index /\ i < EntriesOf(o) /\ TableOf(o)[i].host # 0
      BY DEF Used
    <2>3. SizeAt(l1_size, list, k) = EntriesOf(o)
      BY <1>1, <2>1
    <2>4. HostAt(list, <<k, i>>) = TableOf(o)[i].host
      BY <1>1, <2>1, <2>2, <2>3
    <2>5. <<k, i>> \in UsedAt(l1_size, list)
      BY <2>2, <2>3, <2>4 DEF UsedAt
    <2> QED
      BY <2>1, <2>4, <2>5
  <1> QED
    BY <1>2, <1>3

LEMMA TableCount ==
    ASSUME IInv, NEW list, InFile(list), NEW h, IsFiniteSet(TableHolders(list, h))
    PROVE  Cardinality(TableRefs(l1_size, list, h)) = Cardinality(TableHolders(list, h))
  <1>1. PICK A, S : A = TableRefs(l1_size, list, h) /\ S = TableHolders(list, h)
    OBVIOUS
  <1>2. PICK w : w = [ki \in A |-> OwnerAt(list, ki[1])]
    OBVIOUS
  <1>3. ASSUME NEW ki \in A
        PROVE  /\ ki \in UsedAt(l1_size, list) /\ HostAt(list, ki) = h
               /\ ki = <<ki[1], ki[2]>> /\ ki[1] \in 0..Len(list)
               /\ OwnerAt(list, ki[1]) \in OwnersIn(list)
               /\ ki[2] \in Used(TableOf(OwnerAt(list, ki[1])),
                                 EntriesOf(OwnerAt(list, ki[1])))
               /\ TableOf(OwnerAt(list, ki[1]))[ki[2]].host = h
    <2>1. ki \in UsedAt(l1_size, list) /\ HostAt(list, ki) = h
      BY <1>1 DEF TableRefs
    <2> QED
      BY <2>1, UsedFacts
  <1>4. w \in [A -> S]
    <2>1. ASSUME NEW ki \in A PROVE OwnerAt(list, ki[1]) \in S
      BY <1>1, <1>3 DEF TableHolders
    <2> QED
      BY <1>2, <2>1
  <1>5. ASSUME NEW a \in A, NEW b \in A, w[a] = w[b]
        PROVE  a = b
    <2>1. OwnerAt(list, a[1]) = OwnerAt(list, b[1])
      BY <1>2, <1>5
    <2>2. a[1] = b[1]
      BY <1>3, <2>1, OwnerFacts
    <2>3. PICK o : o = OwnerAt(list, a[1])
      OBVIOUS
    <2>4. /\ a[2] \in Used(TableOf(o), EntriesOf(o)) /\ TableOf(o)[a[2]].host = h
          /\ b[2] \in Used(TableOf(o), EntriesOf(o)) /\ TableOf(o)[b[2]].host = h
      BY <1>3, <2>1, <2>3
    <2>5. Tree(file, TableOf(o), EntriesOf(o))
      <3>1. o \in Owners
        BY <1>3, <2>3, OwnerFacts
      <3> QED
        BY <3>1 DEF IInv, Trees
    <2>6. a[2] = b[2]
      BY <2>4, <2>5 DEF Tree, Injective
    <2> QED
      BY <1>3, <2>2, <2>6
  <1>6. ASSUME NEW o \in S
        PROVE  \E a \in A : w[a] = o
    <2>1. o \in OwnersIn(list)
      BY <1>1 DEF TableHolders
    <2>2. PICK i \in Used(TableOf(o), EntriesOf(o)) : TableOf(o)[i].host = h
      BY <1>1 DEF TableHolders
    <2>3. PICK k \in 0..Len(list) :
             /\ OwnerAt(list, k) = o /\ <<k, i>> \in UsedAt(l1_size, list)
             /\ HostAt(list, <<k, i>>) = TableOf(o)[i].host
      BY <2>1, UsedFacts
    <2>4. <<k, i>> \in A
      BY <1>1, <2>2, <2>3 DEF TableRefs
    <2>5. w[<<k, i>>] = OwnerAt(list, k)
      BY <1>2, <2>4
    <2> QED
      BY <2>3, <2>4, <2>5
  <1> QED
    BY <1>1, <1>4, <1>5, <1>6, OneToOne

LEMMA DataCount ==
    ASSUME IInv, NEW list, InFile(list), NEW h \in Host,
           IsFiniteSet(DataHolders(list, h))
    PROVE  Cardinality(DataRefs(l1_size, list, h)) = Cardinality(DataHolders(list, h))
  <1>0. h # 0
    BY HAssumption DEF Host
  <1>1. PICK A, S : A = DataRefs(l1_size, list, h) /\ S = DataHolders(list, h)
    OBVIOUS
  <1>2. PICK w : w = [kij \in A |-> OwnerAt(list, kij[1][1])]
    OBVIOUS
  <1>3. ASSUME NEW x \in A
        PROVE  /\ x = <<x[1], x[2]>> /\ x[2] \in L2Index
               /\ x[1] = <<x[1][1], x[1][2]>> /\ x[1][1] \in 0..Len(list)
               /\ OwnerAt(list, x[1][1]) \in OwnersIn(list)
               /\ x[1][2] \in Used(TableOf(OwnerAt(list, x[1][1])),
                                   EntriesOf(OwnerAt(list, x[1][1])))
               /\ file[TableOf(OwnerAt(list, x[1][1]))[x[1][2]].host][x[2]].host = h
    <2>1. /\ x \in UsedAt(l1_size, list) \X L2Index
          /\ file[HostAt(list, x[1])][x[2]].host = h
      BY <1>1 DEF DataRefs
    <2>2. x = <<x[1], x[2]>> /\ x[2] \in L2Index /\ x[1] \in UsedAt(l1_size, list)
      BY <2>1
    <2>3. PICK y : y = x[1]
      OBVIOUS
    <2>4. /\ y = <<y[1], y[2]>> /\ y[1] \in 0..Len(list)
          /\ OwnerAt(list, y[1]) \in OwnersIn(list)
          /\ y[2] \in Used(TableOf(OwnerAt(list, y[1])), EntriesOf(OwnerAt(list, y[1])))
          /\ HostAt(list, y) = TableOf(OwnerAt(list, y[1]))[y[2]].host
      BY <2>2, <2>3, UsedFacts
    <2>5. file[TableOf(OwnerAt(list, y[1]))[y[2]].host][x[2]].host = h
      BY <2>1, <2>3, <2>4
    <2> QED
      BY <2>2, <2>3, <2>4, <2>5
  <1>4. w \in [A -> S]
    <2>1. ASSUME NEW x \in A PROVE OwnerAt(list, x[1][1]) \in S
      BY <1>1, <1>3 DEF DataHolders
    <2> QED
      BY <1>2, <2>1
  <1>5. ASSUME NEW a \in A, NEW b \in A, w[a] = w[b]
        PROVE  a = b
    <2>1. OwnerAt(list, a[1][1]) = OwnerAt(list, b[1][1])
      BY <1>2, <1>5
    <2>2. a[1][1] = b[1][1]
      BY <1>3, <2>1, OwnerFacts
    <2>3. PICK o : o = OwnerAt(list, a[1][1])
      OBVIOUS
    <2>4. PICK i, i2, j, j2 : i = a[1][2] /\ i2 = b[1][2] /\ j = a[2] /\ j2 = b[2]
      OBVIOUS
    <2>5. /\ i \in Used(TableOf(o), EntriesOf(o)) /\ j \in L2Index
          /\ i2 \in Used(TableOf(o), EntriesOf(o)) /\ j2 \in L2Index
          /\ file[TableOf(o)[i].host][j].host = h
          /\ file[TableOf(o)[i2].host][j2].host = h
      BY <1>3, <2>1, <2>3, <2>4
    <2>6. Injective(file, TableOf(o), EntriesOf(o))
      <3>1. o \in Owners
        BY <1>3, <2>3, OwnerFacts
      <3> QED
        BY <3>1 DEF IInv, Trees, Tree
    <2>7. i = i2 /\ j = j2
      BY <1>0, <2>5, <2>6 DEF Injective
    <2>8. a[1] = b[1]
      <3>1. a[1] = <<a[1][1], a[1][2]>> /\ b[1] = <<b[1][1], b[1][2]>>
        BY <1>3
      <3>2. a[1][2] = b[1][2]
        BY <2>4, <2>7
      <3> QED
        BY ONLY <2>2, <3>1, <3>2
    <2>9. a = <<a[1], a[2]>> /\ b = <<b[1], b[2]>> /\ a[2] = b[2]
      BY <1>3, <2>4, <2>7
    <2> QED
      BY ONLY <2>8, <2>9
  <1>6. ASSUME NEW o \in S
        PROVE  \E a \in A : w[a] = o
    <2>1. o \in OwnersIn(list)
      BY <1>1 DEF DataHolders
    <2>2. PICK i \in Used(TableOf(o), EntriesOf(o)), j \in L2Index :
             file[TableOf(o)[i].host][j].host = h
      BY <1>1 DEF DataHolders
    <2>3. PICK k \in 0..Len(list) :
             /\ OwnerAt(list, k) = o /\ <<k, i>> \in UsedAt(l1_size, list)
             /\ HostAt(list, <<k, i>>) = TableOf(o)[i].host
      BY <2>1, UsedFacts
    <2>4. PICK y : y = <<k, i>>
      OBVIOUS
    <2>5. file[TableOf(o)[i].host] \in L2Tables
      <3>1. o \in Owners
        BY <2>1, OwnerFacts
      <3> QED
        BY <3>1 DEF IInv, Trees, Tree, Sound
    <2>6. <<y, j>> \in A
      <3>1. <<y, j>> \in UsedAt(l1_size, list) \X L2Index
        BY <2>3, <2>4
      <3>2. file[HostAt(list, y)] \in L2Tables /\ file[HostAt(list, y)][j].host = h
        BY <2>2, <2>3, <2>4, <2>5
      <3> QED
        BY <1>1, <3>1, <3>2 DEF DataRefs
    <2>7. w[<<y, j>>] = OwnerAt(list, k)
      BY <1>2, <2>4, <2>6
    <2> QED
      BY <2>3, <2>6, <2>7
  <1> QED
    BY <1>1, <1>4, <1>5, <1>6, OneToOne

\* Counted by a check of the image are the trees of the list that hold h.
LEMMA ReferencesHeld ==
    ASSUME IInv, op.k \in {"idle", "create"}, NEW list, InFile(list), NEW h \in Host,
           NEW S, S = {o \in OwnersIn(list) : o \in Holders(h)}
    PROVE  /\ References(l1_size, list, h) = Cardinality(S)
           /\ IsFiniteSet(Holders(h)) /\ S \subseteq Holders(h)
  <1>1. IsFiniteSet(Holders(h)) /\ S \subseteq Holders(h)
    BY HoldersFinite DEF IInv
  <1>2. PICK B, C : B = TableHolders(list, h) /\ C = DataHolders(list, h)
    OBVIOUS
  <1>3. OwnersIn(list) \subseteq Owners
    BY OwnerFacts
  <1>4. ASSUME NEW o \in OwnersIn(list)
        PROVE  o \in Holders(h) <=> o \in B \/ o \in C
    <2>1. o \in Owners
      BY <1>3
    <2>2. o \in Ids \cup {NoId}
      BY DEF OwnersIn
    <2>3. Hold(o) = Part(file, TableOf(o), EntriesOf(o), 0, L1Max)
      <3>1. CASE o = NoId
        BY <3>1 DEF Hold, First, Last, TableOf, EntriesOf
      <3>2. CASE o # NoId
        BY <2>1, <3>2 DEF Hold, HeldByOld, TableOf, EntriesOf, Owners
      <3> QED
        BY <3>1, <3>2
    <2>4. \A k \in Used(TableOf(o), EntriesOf(o)) : 0 <= k /\ k < L1Max
      BY Constants DEF Used
    <2>5. o \in Holders(h) <=>
            \E k \in Used(TableOf(o), EntriesOf(o)) : Covers(file, TableOf(o)[k], h)
      BY <2>2, <2>3, <2>4 DEF Holders, Part
    <2> QED
      BY <1>2, <2>5 DEF Covers, TableHolders, DataHolders
  <1>5. S = B \cup C
    <2>1. B \subseteq OwnersIn(list) /\ C \subseteq OwnersIn(list)
      BY <1>2 DEF TableHolders, DataHolders
    <2> QED
      BY <1>4, <2>1
  <1>6. B \cap C = {}
    <2> SUFFICES ASSUME NEW o \in B, o \in C PROVE FALSE
      OBVIOUS
    <2>1. o \in Owners
      BY <1>2, <1>3 DEF TableHolders
    <2>2. Apart(file, TableOf(o), EntriesOf(o), TableOf(o), EntriesOf(o))
      BY <2>1 DEF IInv, Trees
    <2> QED
      BY <1>2, <2>2 DEF Apart, TableHolders, DataHolders
  <1>7. IsFiniteSet(B) /\ IsFiniteSet(C)
    BY <1>1, <1>5, FS_Subset
  <1>8. References(l1_size, list, h) = Cardinality(B) + Cardinality(C)
    BY <1>2, <1>7, ReferencesParts, TableCount, DataCount
  <1>9. Cardinality(S) = Cardinality(B) + Cardinality(C)
    <2>1. Cardinality(B \cup C) = Cardinality(B) + Cardinality(C) - Cardinality(B \cap C)
      BY <1>7, FS_Union
    <2>2. Cardinality(B \cap C) = 0 /\ Cardinality(B) \in Nat /\ Cardinality(C) \in Nat
      BY <1>6, <1>7, FS_EmptySet, FS_CardinalityType
    <2>3. PICK x, y : x = Cardinality(B) /\ y = Cardinality(C)
      OBVIOUS
    <2>4. x \in Nat /\ y \in Nat /\ x + y - 0 = x + y
      BY <2>2, <2>3
    <2>5. Cardinality(S) = Cardinality(B \cup C)
      BY <1>5
    <2> QED
      BY ONLY <2>1, <2>2, <2>3, <2>4, <2>5
  <1> QED
    BY <1>1, <1>8, <1>9
-----------------------------------------------------------------------------
(* What the invariant says of the refcounts.                               *)

LEMMA CheckFindsNothing == IInv => CheckClean
  <1> SUFFICES ASSUME IInv, op.k = "idle", ~leaky
               PROVE  /\ \A h \in Host : rc[h] = References(l1_size, snaps, h)
                      /\ \A i \in L1Index : i < l1_size /\ disk_l1[i].host # 0 =>
                           /\ disk_l1[i].copied <=> rc[disk_l1[i].host] = 1
                           /\ \A j \in L2Index :
                                file[disk_l1[i].host][j].host # 0 =>
                                  (file[disk_l1[i].host][j].copied
                                     <=> rc[file[disk_l1[i].host][j].host] = 1)
    BY DEF CheckClean
  <1>1. Equal
    BY DEF IInv, Synced, Shape, Idle, InRefs
  <1>2. InFile(snaps)
    BY <1>1, ListNames DEF IInv, Types, InFile, Equal
  <1>3. ASSUME NEW h \in Host
        PROVE  rc[h] = References(l1_size, snaps, h)
    <2>1. PICK S : S = {o \in OwnersIn(snaps) : o \in Holders(h)}
      OBVIOUS
    <2>2. References(l1_size, snaps, h) = Cardinality(S)
      BY <1>2, <2>1, ReferencesHeld
    <2>3. S = Holders(h)
      <3>1. \A o \in Ids : Hold(o) # {} => Has(snaps, o)
        BY HoldIdle, ListNames
      <3> QED
        BY <2>1, <3>1 DEF Holders, OwnersIn
    <2>4. Cardinality(Holders(h)) = rc[h]
      BY DEF IInv, Counts
    <2> QED
      BY <2>2, <2>3, <2>4
  <1>4. ASSUME NEW i \in L1Index, i < l1_size, disk_l1[i].host # 0
        PROVE  /\ disk_l1[i].copied <=> rc[disk_l1[i].host] = 1
               /\ \A j \in L2Index :
                    file[disk_l1[i].host][j].host # 0 =>
                      (file[disk_l1[i].host][j].copied
                         <=> rc[file[disk_l1[i].host][j].host] = 1)
    <2>1. disk_l1[i] = l1[i]
      BY <1>1, <1>4 DEF Equal
    <2>2. i \in Used(l1, l1_size) /\ i < Flagged
      <3>1. Flagged = L1Max /\ i < L1Max
        BY HoldIdle, Constants
      <3> QED
        BY <1>4, <2>1, <3>1 DEF Used
    <2>3. /\ l1[i].copied <=> rc[l1[i].host] = 1
          /\ \A j \in L2Index :
               file[l1[i].host][j].host # 0 =>
                 (file[l1[i].host][j].copied <=> rc[file[l1[i].host][j].host] = 1)
      BY <2>2 DEF IInv, Exact
    <2> QED
      BY <2>1, <2>3
  <1> QED
    BY <1>3, <1>4

LEMMA FileCounts == IInv => NeverUndercounted
  <1> SUFFICES ASSUME IInv, op.k \in {"idle", "create"}, ~drift, NEW h \in Host
               PROVE  References(disk_l1_size, SubSeq(disk_snaps, 1, disk_nb), h)
                        <= disk_rc[h]
    BY DEF NeverUndercounted
  <1>1. PICK s : s = SubSeq(disk_snaps, 1, disk_nb)
    OBVIOUS
  <1>2. /\ s \in Seq(Snapshot) /\ DistinctIn(s)
        /\ \A o : Has(s, o) => Has(snaps, o) /\ SizeIn(s, o) = SizeIn(snaps, o)
        /\ op.k = "create" => ~Has(s, op.id)
    BY <1>1, FileList
  <1>3. /\ disk_l1_size = l1_size
        /\ \A i \in L1Index : i < l1_size => disk_l1[i].host = l1[i].host
    BY FileTable
  <1>4. InFile(s)
    BY <1>2, <1>3 DEF InFile
  <1>5. PICK S, P : S = {o \in OwnersIn(s) : o \in Holders(h)} /\ P = Holders(h)
    OBVIOUS
  <1>6. /\ References(disk_l1_size, s, h) = Cardinality(S)
        /\ IsFiniteSet(P) /\ S \subseteq P
    BY <1>3, <1>4, <1>5, ReferencesHeld
  <1>7. disk_rc[h] \in Nat /\ rc[h] \in Nat /\ Cardinality(P) <= rc[h]
    BY <1>5 DEF IInv, Types, Counts
  <1>8. Cardinality(S) <= disk_rc[h]
    <2>1. CASE op.k = "create" /\ op.step = "refs"
      <3>1. PICK Q : Q = P \ {op.id}
        OBVIOUS
      <3>2. op.id # NoId
        BY <2>1, Constants DEF IInv, Shape, CreateShape
      <3>3. S \subseteq Q
        BY <1>2, <1>5, <2>1, <3>1, <3>2 DEF OwnersIn
      <3>4. IsFiniteSet(Q)
        BY <1>6, <3>1, FS_Subset
      <3>5. Cardinality(S) <= Cardinality(Q) /\ IsFiniteSet(S)
        BY <3>3, <3>4, FS_Subset
      <3>6. Cardinality(Q) <= disk_rc[h]
        BY <1>5, <2>1, <3>1 DEF IInv, Written
      <3>7. PICK x, y : x = Cardinality(S) /\ y = Cardinality(Q)
        OBVIOUS
      <3>8. x \in Nat /\ y \in Nat /\ x <= y /\ y <= disk_rc[h]
        BY <3>4, <3>5, <3>6, <3>7, FS_CardinalityType
      <3> QED
        BY <1>7, <3>7, <3>8
    <2>2. CASE ~(op.k = "create" /\ op.step = "refs")
      <3>1. disk_rc = rc
        BY <2>2 DEF IInv, Written
      <3>2. Cardinality(S) <= Cardinality(P) /\ IsFiniteSet(S)
        BY <1>6, FS_Subset
      <3>3. PICK x, y : x = Cardinality(S) /\ y = Cardinality(P)
        OBVIOUS
      <3>4. x \in Nat /\ y \in Nat /\ x <= y /\ y <= disk_rc[h]
        BY <1>6, <1>7, <3>1, <3>2, <3>3, FS_CardinalityType
      <3> QED
        BY <1>7, <3>3, <3>4
    <2> QED
      BY <2>1, <2>2
  <1> QED
    BY <1>1, <1>6, <1>8
-----------------------------------------------------------------------------
(* Theorems.                                                               *)

(* Between operations the guest reads what it wrote, or what it had written *)
(* when the snapshot it went back to was made: for every number and size of *)
(* tables, clusters and snapshots, with any number of writes, creations,    *)
(* reversions and deletions, where creations may fail at any write to the   *)
(* file and QEMU may die in the middle of them.                             *)
THEOREM GuestCorrect ==
    ASSUME Supported
    PROVE  Spec => []GuestIntact
  BY Invariant, GuestReads, PTL

(* Every snapshot of the list, at every step of whatever operation runs,    *)
(* reads as the disk did when qcow2_snapshot_create was called for it.      *)
THEOREM SnapshotsCorrect ==
    ASSUME Supported
    PROVE  Spec => []SnapshotsIntact
  BY Invariant, SnapshotReads, PTL

(* Between operations, when no creation has failed, qcow2_check_refcounts   *)
(* finds nothing: each refcount is the number of references, and a COPIED   *)
(* flag of the active tables is set if and only if the refcount is 1.       *)
THEOREM CheckCorrect ==
    ASSUME Supported
    PROVE  Spec => []CheckClean
  BY Invariant, CheckFindsNothing, PTL

(* Between operations and at every write of qcow2_snapshot_create the       *)
(* refcounts in the file are no lower than the references that opening it   *)
(* again would find.                                                        *)
THEOREM UndercountCorrect ==
    ASSUME Supported
    PROVE  Spec => []NeverUndercounted
  BY Invariant, FileCounts, PTL

-----------------------------------------------------------------------------
(* The operation that runs is one that is used, and the bound is kept.     *)

Bounded == ops \in 0..MaxOps /\ op.k \in {"idle"} \cup Ops

LEMMA BoundedKeeps ==
    ASSUME IInv, Bounded, [Next]_vars
    PROVE  Bounded'
  <1>1. op \in Operation /\ ops \in 0..MaxOps /\ op.k \in {"idle"} \cup Ops
    BY DEF IInv, Types, Bounded
  <1>2. Idle.k = "idle"
    BY DEF Idle
  <1>3. ASSUME ops' = ops, op' = Idle \/ op'.k = op.k
        PROVE  Bounded'
    BY <1>1, <1>2, <1>3 DEF Bounded
  <1>4. ASSUME ops < MaxOps, ops' = ops + 1, op'.k = op.k \/ op'.k \in Ops
        PROVE  Bounded'
    <2>1. PICK n \in 0..MaxOps : n = ops
      BY <1>1
    <2>2. n + 1 \in 0..MaxOps
      BY <1>4, <2>1, MaxOpsAssumption
    <2> QED
      BY <1>1, <1>4, <2>1, <2>2 DEF Bounded
  <1>5. CASE UNCHANGED vars \/ GrowL1
    BY <1>3, <1>5 DEF vars, GrowL1
  <1>6. CASE Reopen \/ RefsFail \/ SnapshotFail \/ WriteCount
    BY <1>3, <1>6 DEF Reopen, RefsFail, SnapshotFail, WriteCount
  <1>7. CASE \E i \in L1Index, j \in L2Index, v \in Values : Write(i, j, v)
    BY <1>4, <1>7 DEF Write
  <1>8. ASSUME NEW id \in Ids,
               SnapshotCreate(id) \/ SnapshotGoto(id) \/ SnapshotDelete(id)
        PROVE  Bounded'
    <2>1. \A k, step, on, addend, tab : Pass(k, id, step, on, addend, tab).k = k
      BY DEF Pass
    <2>2. ops < MaxOps /\ ops' = ops + 1 /\ op'.k \in Ops
      BY <1>8, <2>1
         DEF SnapshotCreate, SnapshotGoto, SnapshotDelete, Start, ReferencesFirst
    <2> QED
      BY <1>4, <2>2
  <1>9. CASE UpdateTable
    <2>1. ops' = ops
      BY <1>9 DEF UpdateTable
    <2>2. op'.k = op.k
      <3>1. CASE Table[op.i].host = 0
        BY <1>1, <1>9, <3>1 DEF UpdateTable, Operation
      <3>2. CASE Table[op.i].host # 0
        BY <1>9, <3>2, UpdateOp
      <3> QED
        BY <3>1, <3>2
    <2> QED
      BY <1>3, <2>1, <2>2
  <1>10. CASE WriteL1 \/ SaveL1 \/ Drop \/ WriteList
    <2>1. ops' = ops
      BY <1>10 DEF WriteL1, SaveL1, Drop, WriteList
    <2>2. op'.k = op.k
      <3>1. CASE WriteL1
        BY <1>1, <3>1 DEF WriteL1, Operation
      <3>2. CASE SaveL1
        BY <1>1, <3>2 DEF SaveL1, Operation
      <3>3. CASE Drop
        BY <1>1, <3>3 DEF Drop, Operation
      <3>4. CASE WriteList
        BY <1>1, <3>4 DEF WriteList, Operation
      <3> QED
        BY <1>10, <3>1, <3>2, <3>3, <3>4
    <2> QED
      BY <1>3, <2>1, <2>2
  <1>11. CASE LoadL1
    <2>1. ops' = ops /\ op.step = "load_l1"
          /\ op' = Pass("goto", op.id, "refs2", "active", 1, EmptyL1)
      BY <1>11 DEF LoadL1
    <2>2. op'.k = "goto"
      BY <2>1 DEF Pass
    <2>3. op.k = "goto"
      BY <1>1, <2>1 DEF IInv, Shape, CreateShape, DeleteShape, Idle, Operation
    <2> QED
      BY <1>3, <2>1, <2>2, <2>3
  <1>12. CASE WriteRefcounts
    <2>1. ops' = ops /\ InRefs /\ op' = AfterRefs
      BY <1>12 DEF WriteRefcounts
    <2>2. \/ op.k = "create"
          \/ op.k = "goto" /\ op.step \in {"refs", "refs2"}
          \/ op.k = "delete" /\ op.step \in {"refs", "refs2"}
      BY <1>1, <2>1 DEF IInv, Shape, InRefs, Idle, Operation
    <2>3. \A s : [op EXCEPT !.step = s].k = op.k
      BY <1>1 DEF Operation
    <2>4. Pass("delete", op.id, "refs2", "active", 0, EmptyL1).k = "delete"
      BY DEF Pass
    <2>5. op' = Idle \/ op'.k = op.k
      BY <2>1, <2>2, <2>3, <2>4 DEF AfterRefs
    <2> QED
      BY <1>3, <2>1, <2>5
  <1> QED
    BY <1>5, <1>6, <1>7, <1>8, <1>9, <1>10, <1>11, <1>12 DEF Next

LEMMA BoundedHolds ==
    ASSUME Supported
    PROVE  Spec => []Bounded
  <1>1. Init => Bounded
    BY MaxOpsAssumption DEF Init, Bounded, Idle
  <1>2. IInv /\ Bounded /\ [Next]_vars => Bounded'
    BY BoundedKeeps
  <1> QED
    BY <1>1, <1>2, Invariant, PTL DEF Spec

LEMMA TypesHold == IInv /\ Bounded => TypeOK
  <1> SUFFICES ASSUME IInv, Bounded PROVE TypeOK
    OBVIOUS
  <1>1. \A h \in Host : file[h] \in Values \cup {Blank} \cup L2Tables
    BY DEF IInv, Types, Content
  <1>2. /\ op.id \in Ids \cup {NoId} /\ op.i \in 0..(L1Max + 1) /\ op.tab \in L1Tables
        /\ op.modified \in BOOLEAN
        /\ op.step \in {"idle", "refs", "refs2", "save_l1", "load_l1", "drop",
                        "list", "count"}
    BY DEF IInv, Types, Operation
  <1> QED
    BY <1>1, <1>2 DEF IInv, Types, Snapshot, Bounded, TypeOK

(* The types of the image in memory and in the file, of the running         *)
(* operation and of the history: in particular an L1 table never outgrows   *)
(* its bound, and a refcount is never lowered below zero.                   *)
THEOREM TypeCorrect ==
    ASSUME Supported
    PROVE  Spec => []TypeOK
  BY Invariant, BoundedHolds, TypesHold, PTL
=============================================================================
