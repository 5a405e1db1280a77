-------------------------- MODULE Qcow2WriteProofs --------------------------
(***************************************************************************)
(* The write path of qcow2, for every number of requests, disk size and    *)
(* cluster size, with every failure and cancellation: types, allocations   *)
(* that never overlap, refcounts that never fall short, the clusters of    *)
(* the snapshot, and the abort() that is not reached.                      *)
(*                                                                         *)
(* The scan over cluster_allocs is a recursive function; what it leaves is *)
(* established by induction on the index, as the least index at which it   *)
(* would fail (LeastNatural).  The refcounts are compared with the number  *)
(* of users of a cluster by cardinalities of the sets of those users.      *)
(***************************************************************************)
EXTENDS Qcow2Write, TLAPS, FiniteSetTheorems, SequenceTheorems,
        WellFoundedInduction

-----------------------------------------------------------------------------
(* The inductive invariant.                                                *)

\* What is left of a request lies on the disk.
PartsFit == \A r \in Reqs : part[r].sector_num + part[r].nb_sectors <= G * CS

\* An allocation in flight covers guest clusters that exist, with clusters of
\* the image file.
AllocsFit ==
    \A r \in Reqs : Allocating(r) =>
        /\ meta[r].offset \div CS + meta[r].nb_clusters <= G
        /\ NewClusters(meta[r]) \subseteq Host

\* The COPIED flag is a flag of clusters that exist.
CopiedMapped == \A g \in Guest : l2[g].copied => l2[g].host # 0

\* The scan over cluster_allocs sees every allocation in flight.
Listed == \A r \in Reqs : Allocating(r) => r \in ToSet(cluster_allocs)

\* The host clusters the data write of a request goes to.
Touched(r) ==
    {h \in Host : \E o \in Offsets :
        (h - meta[r].cluster_offset) * CS + o \in
            (part[r].sector_num % CS) ..
                ((part[r].sector_num % CS) + part[r].n - 1)}

\* Nothing that may be written is part of the snapshot.
SnapshotApart ==
    /\ \A g \in Guest : l2[g].copied => l2[g].host \notin snapshot
    /\ \A r \in Reqs : Allocating(r) => NewClusters(meta[r]) \cap snapshot = {}
    /\ \A r \in Reqs : st[r] = "hd" => Touched(r) \cap snapshot = {}

QcowInv == TypeOK /\ PartsFit /\ AllocsFit /\ CopiedMapped /\ Listed
              /\ AllocationsDisjoint /\ RefcountSafe /\ SnapshotApart

-----------------------------------------------------------------------------
(* Arithmetic.                                                             *)

LEMMA Constants == G \in Nat \ {0} /\ CS \in Nat \ {0} /\ H \in Nat /\ H >= G
  BY GAssumption, CSAssumption, HAssumption

LEMMA DivBounds ==
    ASSUME NEW a \in Nat
    PROVE  /\ a \div CS \in Nat /\ a % CS \in Offsets
           /\ a = CS * (a \div CS) + (a % CS)
  BY Constants DEF Offsets

LEMMA DivUnique ==
    ASSUME NEW q \in Nat, NEW o \in Offsets
    PROVE  /\ (CS * q + o) \div CS = q /\ (CS * q + o) % CS = o
           /\ (q * CS + o) \div CS = q /\ (q * CS + o) % CS = o
  BY Constants DEF Offsets

LEMMA DivAdd ==
    ASSUME NEW a \in Nat, NEW n \in Nat
    PROVE  (a + n * CS) \div CS = a \div CS + n
  BY Constants

LEMMA DivMonotonic ==
    ASSUME NEW a \in Nat, NEW b \in Nat, a <= b
    PROVE  a \div CS <= b \div CS
  BY Constants

LEMMA DivSum ==
    ASSUME NEW a \in Nat, NEW b \in Nat
    PROVE  a \div CS + b \div CS <= (a + b) \div CS
  BY Constants

LEMMA TimesMonotonic ==
    ASSUME NEW a \in Nat, NEW b \in Nat, a <= b
    PROVE  a * CS \in Nat /\ b * CS \in Nat /\ a * CS <= b * CS
  BY Constants

LEMMA GuestOfSector ==
    ASSUME NEW s \in GuestSectors
    PROVE  s \in Nat /\ s \div CS \in Guest /\ s % CS \in Offsets
  <1>1. G * CS \in Nat /\ s \in Nat /\ s + 1 <= G * CS
    BY Constants DEF GuestSectors
  <1>2. s \div CS \in Nat /\ s % CS \in Offsets /\ s = CS * (s \div CS) + (s % CS)
    BY <1>1, DivBounds
  <1>3. s \div CS < G
    <2>1. SUFFICES ASSUME G <= s \div CS
                   PROVE  FALSE
      BY <1>2, Constants
    <2>2. G * CS <= (s \div CS) * CS
      BY <1>2, <2>1, Constants, TimesMonotonic
    <2> QED
      BY <1>1, <1>2, <2>2, Constants DEF Offsets
  <1> QED
    BY <1>1, <1>2, <1>3, Constants DEF Guest

\* The clusters that n sectors from offset o of a cluster on touch.
LEMMA ClustersFit ==
    ASSUME NEW s \in Nat, NEW n \in Nat \ {0}, s + n <= G * CS
    PROVE  LET e == (s % CS) + n IN
           /\ e \in Nat \ {0} /\ e <= G * CS
           /\ Clusters(e) \in Nat \ {0}
           /\ s \div CS + Clusters(e) <= G
           /\ e <= Clusters(e) * CS
  <1> DEFINE e == (s % CS) + n
             f == s \div CS
  <1>1. f \in Nat /\ (s % CS) \in Offsets /\ s = CS * f + (s % CS)
    BY DivBounds
  <1>2. e \in Nat \ {0} /\ CS * f + e <= G * CS /\ e + CS - 1 \in Nat
    BY <1>1, Constants DEF Offsets
  <1>3. e <= G * CS
    BY <1>1, <1>2, Constants
  <1> HIDE DEF e, f
  <1>4. Clusters(e) = (e + CS - 1) \div CS
    BY DEF Clusters
  <1>5. /\ (e + CS - 1) \div CS \in Nat
        /\ e + CS - 1 = CS * ((e + CS - 1) \div CS) + ((e + CS - 1) % CS)
        /\ (e + CS - 1) % CS \in 0 .. (CS - 1)
    BY <1>2, DivBounds DEF Offsets
  <1> DEFINE c == (e + CS - 1) \div CS
  <1> HIDE DEF c
  <1>6. c \in Nat /\ e <= CS * c /\ CS * c <= e + CS - 1
    BY <1>2, <1>5, Constants DEF c
  <1>7. c # 0
    BY <1>2, <1>6, Constants
  <1>8. f + c <= G
    <2>1. SUFFICES ASSUME G + 1 <= f + c
                   PROVE  FALSE
      BY <1>1, <1>6, Constants
    <2>2. (G + 1) * CS <= (f + c) * CS
      BY <1>1, <1>6, <2>1, Constants, TimesMonotonic
    <2>3. (G + 1) * CS = G * CS + CS /\ (f + c) * CS = CS * f + CS * c
      BY <1>1, <1>6, Constants
    <2>4. G * CS \in Nat /\ CS * f \in Nat /\ CS * c \in Nat
      BY <1>1, <1>6, Constants
    <2> QED
      BY <1>2, <1>6, <2>2, <2>3, <2>4, Constants
  <1>9. e <= c * CS
    BY <1>6, Constants
  <1> QED
    BY <1>1, <1>2, <1>3, <1>4, <1>6, <1>7, <1>8, <1>9 DEF c, e, f

LEMMA LeastNatural ==
    ASSUME NEW T \in SUBSET Nat, T # {}
    PROVE  \E n \in T : \A k \in T : n <= k
  <1>1. IsWellFoundedOn(OpToRel(<, Nat), Nat)
    BY NatLessThanWellFounded
  <1>2. PICK n \in T : \A k \in T : ~(<<k, n>> \in OpToRel(<, Nat))
    BY <1>1, WFMin
  <1>3. \A k \in T : ~(k < n)
    BY <1>2 DEF OpToRel
  <1> QED
    BY <1>3

-----------------------------------------------------------------------------
(* Where the running request has got to.                                   *)

LEMMA PositionFacts ==
    ASSUME TypeOK, PartsFit, More
    PROVE  /\ Running \in Reqs /\ todo \in Seq(Reqs \cup {NoReq}) /\ todo # <<>>
           /\ Position.sector_num \in GuestSectors
           /\ Position.nb_sectors \in Nat \ {0}
           /\ Position.sector_num + Position.nb_sectors <= G * CS
           /\ Index \in Offsets /\ First \in Guest
           /\ End \in Nat \ {0} /\ End <= G * CS /\ End = Index + Position.nb_sectors
           /\ Clusters(End) \in Nat \ {0} /\ First + Clusters(End) <= G
           /\ End <= Clusters(End) * CS
  <1>1. todo \in Seq(Reqs \cup {NoReq}) /\ todo # <<>> /\ Running # NoReq
    BY DEF More, TypeOK
  <1>2. Running \in Reqs
    <2>1. Head(todo) \in Reqs \cup {NoReq}
      BY <1>1, HeadTailProperties
    <2> QED
      BY <1>1, <2>1 DEF Running
  <1>3. PICK p \in [sector_num : 0..(G * CS), nb_sectors : 0..(G * CS), n : 0..(G * CS)] :
              p = part[Running] /\ p.n <= p.nb_sectors
                 /\ p.sector_num + p.nb_sectors <= G * CS
    BY <1>2 DEF TypeOK, PartsFit
  <1>4. /\ Position.sector_num = p.sector_num + p.n
        /\ Position.nb_sectors = p.nb_sectors - p.n
    BY <1>3 DEF Position
  <1>5. /\ p.sector_num \in Nat /\ p.nb_sectors \in Nat /\ p.n \in Nat
        /\ G * CS \in Nat
    BY <1>3, Constants
  <1>6. Position.nb_sectors > 0
    BY DEF More
  <1> DEFINE s == Position.sector_num
             n == Position.nb_sectors
  <1>7. s \in Nat /\ n \in Nat \ {0} /\ s + n <= G * CS
    BY <1>3, <1>4, <1>5, <1>6
  <1>8. Index = s % CS /\ First = s \div CS /\ End = (s % CS) + n
    BY DEF Index, First, End
  <1> HIDE DEF s, n
  <1>9. /\ (s % CS) + n \in Nat \ {0} /\ (s % CS) + n <= G * CS
        /\ Clusters((s % CS) + n) \in Nat \ {0}
        /\ s \div CS + Clusters((s % CS) + n) <= G
        /\ (s % CS) + n <= Clusters((s % CS) + n) * CS
    BY <1>7, ClustersFit
  <1>10. s \in GuestSectors
    BY <1>5, <1>7 DEF GuestSectors
  <1>11. s \div CS \in Guest /\ s % CS \in Offsets
    BY <1>10, GuestOfSector
  <1> QED
    BY <1>1, <1>2, <1>7, <1>8, <1>9, <1>10, <1>11 DEF s, n

\* The longest stretch that passes a test, as a set of clusters that pass.
LEMMA LongestStretch ==
    ASSUME NEW max \in Nat, NEW P \in SUBSET (0 .. max)
    PROVE  \E n \in 0 .. max : (\A i \in 0 .. (n - 1) : i \in P) /\ (n = max \/ n \notin P)
  <1> DEFINE T == {n \in 0 .. max : n = max \/ n \notin P}
  <1>1. T \in SUBSET Nat /\ max \in T
    OBVIOUS
  <1>2. PICK n \in T : \A k \in T : n <= k
    BY <1>1, LeastNatural
  <1>3. ASSUME NEW i \in 0 .. (n - 1)
        PROVE  i \in P
    <2>1. i \in 0 .. max /\ i < n /\ n \in Nat /\ i \in Nat
      BY <1>2
    <2>2. i \notin T
      BY <1>2, <2>1
    <2> QED
      BY <2>1, <2>2
  <1> QED
    BY <1>2, <1>3

\* count_contiguous_clusters: COPIED clusters in a row, at least one.
LEMMA OwnedCorrect ==
    ASSUME TypeOK, PartsFit, More, l2[First].copied
    PROVE  /\ OwnedClusters \in 1 .. Clusters(End)
           /\ \A i \in 0 .. (OwnedClusters - 1) : First + i \in Guest /\ InPlace(First, i)
  <1> DEFINE max == Clusters(End)
             P == {i \in 0 .. max : InPlace(First, i)}
  <1>1. max \in Nat \ {0} /\ First \in Guest /\ First + max <= G
    BY PositionFacts
  <1>2. OwnedClusters = CHOOSE n \in 0 .. max : /\ \A i \in 0 .. (n - 1) : InPlace(First, i)
                                                /\ n = max \/ ~InPlace(First, n)
    BY DEF OwnedClusters, Stretch
  <1> HIDE DEF max
  <1>3. \E n \in 0 .. max : (\A i \in 0 .. (n - 1) : i \in P) /\ (n = max \/ n \notin P)
    <2>1. max \in Nat /\ P \in SUBSET (0 .. max)
      BY <1>1
    <2> HIDE DEF P
    <2> QED
      BY <2>1, LongestStretch
  <1>4. \E n \in 0 .. max : /\ \A i \in 0 .. (n - 1) : InPlace(First, i)
                            /\ n = max \/ ~InPlace(First, n)
    BY <1>3
  <1>5. /\ OwnedClusters \in 0 .. max
        /\ \A i \in 0 .. (OwnedClusters - 1) : InPlace(First, i)
        /\ OwnedClusters = max \/ ~InPlace(First, OwnedClusters)
    BY <1>2, <1>4
  <1>6. InPlace(First, 0)
    <2>1. First + 0 = First
      BY <1>1, Constants DEF Guest
    <2>2. \A e \in Entries : e.copied => e = [host |-> e.host + 0, copied |-> TRUE]
      BY Constants DEF Entries
    <2>3. l2[First] \in Entries
      BY <1>1 DEF TypeOK
    <2> QED
      BY <2>1, <2>2, <2>3 DEF InPlace
  <1>7. OwnedClusters # 0
    BY <1>1, <1>5, <1>6
  <1>8. \A i \in 0 .. (OwnedClusters - 1) : First + i \in Guest
    BY <1>1, <1>5, Constants DEF Guest
  <1> QED
    BY <1>1, <1>5, <1>7, <1>8 DEF max

\* count_contiguous_free_clusters and the loop around it.
LEMMA ReplaceableCorrect ==
    ASSUME TypeOK, PartsFit, More, ~l2[First].copied
    PROVE  /\ ReplaceableClusters \in 1 .. Clusters(End)
           /\ \A i \in 0 .. (ReplaceableClusters - 1) :
                 First + i \in Guest /\ Replaceable(First, i)
  <1> DEFINE max == Clusters(End)
             P == {i \in 0 .. max : Replaceable(First, i)}
             m == ReplaceableClusters
  <1>1. max \in Nat \ {0} /\ First \in Guest /\ First + max <= G
    BY PositionFacts
  <1>2. m = CHOOSE n \in 0 .. max : /\ \A i \in 0 .. (n - 1) : Replaceable(First, i)
                                    /\ n = max \/ ~Replaceable(First, n)
    BY DEF Stretch, ReplaceableClusters
  <1> HIDE DEF max, m
  <1>3. \E n \in 0 .. max : (\A i \in 0 .. (n - 1) : i \in P) /\ (n = max \/ n \notin P)
    <2>1. max \in Nat /\ P \in SUBSET (0 .. max)
      BY <1>1
    <2> HIDE DEF P
    <2> QED
      BY <2>1, LongestStretch
  <1>4. \E n \in 0 .. max : /\ \A i \in 0 .. (n - 1) : Replaceable(First, i)
                            /\ n = max \/ ~Replaceable(First, n)
    BY <1>3
  <1>5. /\ m \in 0 .. max
        /\ \A i \in 0 .. (m - 1) : Replaceable(First, i)
        /\ m = max \/ ~Replaceable(First, m)
    BY <1>2, <1>4
  <1>6. Replaceable(First, 0)
    <2>1. First + 0 = First
      BY <1>1, Constants DEF Guest
    <2>2. \A e \in Entries : ~e.copied => e = [host |-> e.host + 0, copied |-> FALSE]
      BY Constants DEF Entries
    <2>3. l2[First] \in Entries
      BY <1>1 DEF TypeOK
    <2> QED
      BY <2>1, <2>2, <2>3 DEF Replaceable
  <1>7. m # 0
    BY <1>1, <1>5, <1>6
  <1>8. \A i \in 0 .. (m - 1) : First + i \in Guest
    BY <1>1, <1>5, Constants DEF Guest
  <1> QED
    BY <1>1, <1>5, <1>7, <1>8 DEF max, m

-----------------------------------------------------------------------------
(* The scan over the allocations in flight.                                *)

\* What the scan carries from one allocation to the next.
Left == {b \in [nb : Nat, dep : Reqs \cup {NoReq}] : b.dep = NoReq => b.nb >= 1}

\* A function defined by recursion on an index exists.  F gives the step.
LEMMA RecursionExists ==
    ASSUME NEW n \in Nat, NEW x \in Left, NEW F \in [1 .. n -> [Left -> Left]]
    PROVE  \E g \in [0 .. n -> Left] :
              g = [i \in 0 .. n |-> IF i = 0 THEN x ELSE F[i][g[i - 1]]]
  <1> DEFINE Good(m) == \E g \in [0 .. m -> Left] :
                 \A i \in 0 .. m : g[i] = IF i = 0 THEN x ELSE F[i][g[i - 1]]
             B == {m \in 0 .. n : ~Good(m)}
  <1>1. SUFFICES B = {}
    <2>1. Good(n)
      <3> HIDE DEF Good
      <3>1. n \in 0 .. n
        OBVIOUS
      <3> QED
        BY <1>1, <3>1
    <2>2. PICK g \in [0 .. n -> Left] :
                 \A i \in 0 .. n : g[i] = IF i = 0 THEN x ELSE F[i][g[i - 1]]
      BY <2>1
    <2>3. g = [i \in 0 .. n |-> IF i = 0 THEN x ELSE F[i][g[i - 1]]]
      BY <2>2
    <2> QED
      BY <2>3
  <1>2. SUFFICES ASSUME B # {}
                 PROVE  FALSE
    OBVIOUS
  <1>3. PICK m \in B : \A k \in B : m <= k
    <2>1. B \in SUBSET Nat
      OBVIOUS
    <2> HIDE DEF B
    <2> QED
      BY <1>2, <2>1, LeastNatural
  <1>4. m # 0
    <2>1. Good(0)
      <3> DEFINE g == [i \in 0 .. 0 |-> x]
      <3>1. g \in [0 .. 0 -> Left] /\ \A i \in 0 .. 0 : g[i] = x /\ i = 0
        OBVIOUS
      <3>2. \A i \in 0 .. 0 : g[i] = IF i = 0 THEN x ELSE F[i][g[i - 1]]
        BY <3>1
      <3> HIDE DEF g
      <3> QED
        BY <3>1, <3>2, Zenon
    <2>2. ~Good(m)
      BY <1>3
    <2> HIDE DEF Good
    <2> QED
      BY <2>1, <2>2
  <1>5. m - 1 \in 0 .. n /\ m \in 1 .. n /\ Good(m - 1)
    <2>1. m - 1 \in 0 .. n /\ m \in 1 .. n /\ ~(m <= m - 1)
      BY <1>3, <1>4
    <2> QED
      BY <1>3, <2>1
  <1>6. PICK g \in [0 .. (m - 1) -> Left] :
              \A i \in 0 .. (m - 1) : g[i] = IF i = 0 THEN x ELSE F[i][g[i - 1]]
    BY <1>5
  <1> DEFINE h == [i \in 0 .. m |-> IF i = m THEN F[m][g[m - 1]] ELSE g[i]]
  <1>7. h \in [0 .. m -> Left]
    <2>1. g[m - 1] \in Left /\ F[m] \in [Left -> Left]
      BY <1>5, <1>6
    <2>2. \A i \in 0 .. m : i # m => i \in 0 .. (m - 1)
      BY <1>5
    <2> QED
      BY <1>6, <2>1, <2>2
  <1>8. ASSUME NEW i \in 0 .. m
        PROVE  h[i] = IF i = 0 THEN x ELSE F[i][h[i - 1]]
    <2>1. CASE i = m
      <3>1. i # 0 /\ i - 1 \in 0 .. m /\ i - 1 # m
        BY <1>5, <2>1
      <3>2. h[i - 1] = g[m - 1] /\ h[i] = F[m][g[m - 1]]
        BY <2>1, <3>1
      <3> QED
        BY <2>1, <3>1, <3>2
    <2>2. CASE i # m
      <3>1. i \in 0 .. (m - 1) /\ (i # 0 => i - 1 \in 0 .. m /\ i - 1 # m)
        BY <1>5, <2>2
      <3>2. h[i] = g[i] /\ (i # 0 => h[i - 1] = g[i - 1])
        BY <2>2, <3>1
      <3> QED
        BY <1>6, <3>1, <3>2
    <2> QED
      BY <2>1, <2>2
  <1>9. Good(m)
    <2> HIDE DEF h
    <2> QED
      BY <1>7, <1>8
  <1> QED
    BY <1>3, <1>9

\* The nb clusters from offset off on keep clear of the allocation of r.
Clear(off, nb, r) ==
    \/ off \div CS + nb <= meta[r].offset \div CS
    \/ meta[r].offset \div CS + meta[r].nb_clusters <= off \div CS

\* One round: although the offsets compared are those of sectors, what is left
\* is clear of the allocation in clusters.
LEMMA NarrowedCorrect ==
    ASSUME TypeOK, NEW off \in Nat, NEW b \in Left, NEW r \in Reqs,
           NEW d, d = Narrowed(off, b, r)
    PROVE  /\ d \in Left /\ d.nb <= b.nb
           /\ d.dep = NoReq => b.dep = NoReq /\ d.nb >= 1 /\ Clear(off, d.nb, r)
           /\ d.dep \in {b.dep, r}
  <1> DEFINE oo == meta[r].offset
             on == meta[r].nb_clusters
             apart == off + b.nb * CS < oo \/ off > oo + on * CS
             left == IF off < oo THEN (oo - off) \div CS ELSE 0
  <1>1. oo \in Nat /\ on \in Nat /\ r # NoReq
    BY NoReqAssumption, Constants DEF TypeOK, Metas, GuestSectors
  <1>2. d = IF b.dep # NoReq \/ apart THEN b
            ELSE [nb |-> left, dep |-> IF left = 0 THEN r ELSE NoReq]
    BY DEF Narrowed
  <1>3. b.nb \in Nat /\ b.dep \in Reqs \cup {NoReq} /\ (b.dep = NoReq => b.nb >= 1)
    BY DEF Left
  <1>4. Clear(off, d.nb, r) <=> off \div CS + d.nb <= oo \div CS \/ oo \div CS + on <= off \div CS
    BY DEF Clear
  <1>5. CASE b.dep # NoReq
    BY <1>2, <1>3, <1>5
  <1>6. CASE b.dep = NoReq /\ apart
    <2>1. d = b
      BY <1>2, <1>6
    <2>2. /\ (off + b.nb * CS) \div CS = off \div CS + b.nb
          /\ (oo + on * CS) \div CS = oo \div CS + on
      BY <1>1, <1>3, DivAdd
    <2>3. off + b.nb * CS \in Nat /\ oo + on * CS \in Nat
      BY <1>1, <1>3, Constants
    <2>4. off + b.nb * CS < oo => (off + b.nb * CS) \div CS <= oo \div CS
      BY <1>1, <2>3, DivMonotonic
    <2>5. off > oo + on * CS => (oo + on * CS) \div CS <= off \div CS
      BY <1>1, <2>3, DivMonotonic
    <2> QED
      BY <1>3, <1>4, <1>6, <2>1, <2>2, <2>4, <2>5
  <1>7. CASE b.dep = NoReq /\ ~apart
    <2>1. d = [nb |-> left, dep |-> IF left = 0 THEN r ELSE NoReq]
      BY <1>2, <1>7
    <2>2. CASE off < oo
      <3>1. oo - off \in Nat /\ off + (oo - off) = oo
        BY <1>1, <2>2
      <3>2. left = (oo - off) \div CS /\ left \in Nat
        BY <2>2, <3>1, DivBounds
      <3>3. off \div CS + left <= oo \div CS
        BY <3>1, <3>2, DivSum
      <3>4. left <= b.nb
        <4>1. b.nb * CS \in Nat /\ oo - off <= b.nb * CS
          BY <1>1, <1>3, <1>7, <2>2, Constants
        <4>2. (oo - off) \div CS <= (b.nb * CS) \div CS
          BY <3>1, <4>1, DivMonotonic
        <4>3. (b.nb * CS) \div CS = b.nb
          BY <1>3, DivUnique, Constants DEF Offsets
        <4> QED
          BY <3>2, <4>2, <4>3
      <3> HIDE DEF left
      <3>5. /\ d.nb = left /\ d.dep = (IF left = 0 THEN r ELSE NoReq)
            /\ d \in Left
        BY <1>1, <2>1, <3>2 DEF Left
      <3> QED
        BY <1>1, <1>4, <1>7, <3>2, <3>3, <3>4, <3>5
    <2>3. CASE ~(off < oo)
      <3>1. left = 0
        BY <2>3
      <3> HIDE DEF left
      <3>2. d.nb = 0 /\ d.dep = r /\ d \in Left
        BY <1>1, <2>1, <3>1 DEF Left
      <3> QED
        BY <1>1, <1>3, <3>2
    <2> QED
      BY <2>2, <2>3
  <1> QED
    BY <1>5, <1>6, <1>7

\* The whole scan: what is left is clear of every allocation in flight, and
\* there is something left unless the request has to wait.
LEMMA ConflictsCorrect ==
    ASSUME TypeOK, NEW off \in Nat, NEW nb \in Nat \ {0},
           NEW c, c = Conflicts(off, nb)
    PROVE  /\ c \in Left /\ c.nb <= nb
           /\ c.dep = NoReq => \A r \in ToSet(cluster_allocs) : Clear(off, c.nb, r)
           /\ c.dep \in ToSet(cluster_allocs) \cup {NoReq}
  <1> DEFINE N == Len(cluster_allocs)
             x == [nb |-> nb, dep |-> NoReq]
             F == [i \in 1 .. N |-> [b \in Left |-> Narrowed(off, b, cluster_allocs[i])]]
  <1>1. N \in Nat /\ \A i \in 1 .. N : cluster_allocs[i] \in Reqs
    BY LenProperties, ElementOfSeq DEF TypeOK
  <1>2. x \in Left
    BY DEF Left
  <1>3. F \in [1 .. N -> [Left -> Left]]
    <2>1. \A i \in 1 .. N, b \in Left : Narrowed(off, b, cluster_allocs[i]) \in Left
      BY <1>1, NarrowedCorrect
    <2> QED
      BY <2>1
  <1>4. \E s : s = [i \in 0 .. N |-> IF i = 0 THEN x
                                     ELSE Narrowed(off, s[i - 1], cluster_allocs[i])]
    <2>1. PICK g \in [0 .. N -> Left] :
                 g = [i \in 0 .. N |-> IF i = 0 THEN x ELSE F[i][g[i - 1]]]
      <3>1. N \in Nat
        BY <1>1
      <3> HIDE DEF N, x, F
      <3> QED
        BY <1>2, <1>3, <3>1, RecursionExists
    <2>2. \A i \in 0 .. N : i # 0 => i \in 1 .. N /\ i - 1 \in 0 .. N
      BY <1>1
    <2>3. \A i \in 1 .. N : g[i - 1] \in Left => F[i][g[i - 1]] = Narrowed(off, g[i - 1], cluster_allocs[i])
      OBVIOUS
    <2>4. \A i \in 0 .. N : i # 0 => g[i - 1] \in Left /\ i \in 1 .. N
      BY <2>1, <2>2
    <2> HIDE DEF N, x, F
    <2>5. g = [i \in 0 .. N |-> IF i = 0 THEN x ELSE Narrowed(off, g[i - 1], cluster_allocs[i])]
      BY <2>1, <2>3, <2>4
    <2> QED
      BY <2>5
  <1>5. PICK s : /\ s = [i \in 0 .. N |-> IF i = 0 THEN x
                                          ELSE Narrowed(off, s[i - 1], cluster_allocs[i])]
                 /\ c = s[N]
    <2> DEFINE Scan == CHOOSE s : s = [i \in 0 .. N |-> IF i = 0 THEN x
                                     ELSE Narrowed(off, s[i - 1], cluster_allocs[i])]
    <2>1. c = Scan[N]
      BY DEF Conflicts
    <2> HIDE DEF N, x
    <2>2. Scan = [i \in 0 .. N |-> IF i = 0 THEN x
                                     ELSE Narrowed(off, Scan[i - 1], cluster_allocs[i])]
      BY <1>4
    <2> HIDE DEF Scan
    <2> QED
      BY <2>1, <2>2
  <1> HIDE DEF N, F
  <1> DEFINE P(i) == /\ s[i] \in Left /\ s[i].nb <= nb
                     /\ s[i].dep = NoReq =>
                           \A j \in 1 .. i : Clear(off, s[i].nb, cluster_allocs[j])
                     /\ s[i].dep \in ToSet(cluster_allocs) \cup {NoReq}
             B == {i \in 0 .. N : ~P(i)}
  <1>6. P(0)
    <2>1. s[0] = x
      BY <1>1, <1>5
    <2> QED
      BY <1>2, <2>1
  <1>7. ASSUME NEW i \in 1 .. N, P(i - 1)
        PROVE  P(i)
    <2> DEFINE b == s[i - 1]
               d == s[i]
               r == cluster_allocs[i]
    <2>1. i \in 0 .. N /\ i # 0
      BY <1>1
    <2>2. d = Narrowed(off, b, r)
      BY <1>5, <2>1
    <2>3. r \in Reqs /\ r \in ToSet(cluster_allocs)
      BY <1>1 DEF ToSet, N, TypeOK
    <2>4. b \in Left /\ b.nb <= nb
      BY <1>7
    <2> HIDE DEF d, b, r
    <2>5. /\ d \in Left /\ d.nb <= b.nb
          /\ d.dep = NoReq => b.dep = NoReq /\ d.nb >= 1 /\ Clear(off, d.nb, r)
          /\ d.dep \in {b.dep, r}
      <3>1. r \in Reqs /\ b \in Left
        BY <2>3, <2>4
      <3> QED
        BY <2>2, <3>1, NarrowedCorrect
    <2>6. d.nb \in Nat /\ b.nb \in Nat
      BY <2>4, <2>5 DEF Left
    <2>7. ASSUME NEW q \in Reqs, Clear(off, b.nb, q)
          PROVE  Clear(off, d.nb, q)
      <3>1. off \div CS \in Nat /\ meta[q].offset \div CS \in Int
        <4>1. meta[q].offset \in Nat
          BY Constants DEF TypeOK, Metas, GuestSectors
        <4> QED
          BY <4>1, DivBounds
      <3> QED
        BY <2>5, <2>6, <2>7, <3>1 DEF Clear
    <2>8. ASSUME d.dep = NoReq, NEW j \in 1 .. i
          PROVE  Clear(off, d.nb, cluster_allocs[j])
      <3>1. CASE j = i
        BY <2>5, <2>8, <3>1 DEF r
      <3>2. CASE j # i
        <4>1. j \in 1 .. (i - 1) /\ j \in 1 .. N
          BY <1>1, <3>2
        <4>2. cluster_allocs[j] \in Reqs
          BY <1>1, <4>1
        <4>3. Clear(off, b.nb, cluster_allocs[j])
          BY <1>7, <2>5, <2>8, <4>1 DEF b
        <4> QED
          BY <2>7, <4>2, <4>3
      <3> QED
        BY <3>1, <3>2
    <2>9. d.nb <= nb
      BY <2>4, <2>5, <2>6
    <2>10. d.dep \in ToSet(cluster_allocs) \cup {NoReq}
      BY <1>7, <2>3, <2>5 DEF b
    <2> QED
      BY <2>5, <2>8, <2>9, <2>10 DEF d
  <1>8. P(N)
    <2>1. SUFFICES ASSUME B # {}
                   PROVE  FALSE
      BY <1>1
    <2>2. PICK i \in B : \A k \in B : i <= k
      <3>1. B \in SUBSET Nat
        OBVIOUS
      <3> HIDE DEF B
      <3> QED
        BY <2>1, <3>1, LeastNatural
    <2>3. i \in 0 .. N /\ ~P(i)
      BY <2>2
    <2>4. i # 0
      <3> HIDE DEF P
      <3> QED
        BY <1>6, <2>3
    <2>5. i \in 1 .. N /\ i - 1 \in 0 .. N /\ i - 1 < i
      BY <1>1, <2>3, <2>4
    <2>6. P(i - 1)
      <3> HIDE DEF P
      <3> QED
        BY <2>2, <2>5
    <2> HIDE DEF P
    <2> QED
      BY <1>7, <2>3, <2>5, <2>6
  <1>9. \A r \in ToSet(cluster_allocs) : \E j \in 1 .. N : r = cluster_allocs[j]
    BY DEF ToSet, N, TypeOK
  <1> QED
    BY <1>5, <1>8, <1>9

\* The room for a new allocation: inside the disk, clear of every allocation in
\* flight, and never empty unless the request has to wait for one.
LEMMA RoomCorrect ==
    ASSUME TypeOK, PartsFit, CopiedMapped, Listed, More, ~l2[First].copied
    PROVE  /\ Room \in Left /\ Room.nb \in Nat /\ Room.nb <= Clusters(End)
           /\ First + Room.nb <= G /\ Room.nb <= G
           /\ Room.dep = NoReq => Room.nb >= 1
           /\ Room.dep = NoReq => \A r \in Reqs : Allocating(r) =>
                                     Clear(Position.sector_num, Room.nb, r)
           /\ Room.dep \in ToSet(cluster_allocs) \cup {NoReq}
           /\ Room.dep \in Reqs \cup {NoReq}
           /\ \A i \in 0 .. (Room.nb - 1) : First + i \in Guest /\ ~l2[First + i].copied
  <1> DEFINE m == ReplaceableClusters
             c == Room
             s == Position.sector_num
  <1>1. m \in 1 .. Clusters(End) /\ \A i \in 0 .. (m - 1) : First + i \in Guest /\ Replaceable(First, i)
    BY ReplaceableCorrect
  <1>2. s \in Nat /\ First \in Nat /\ Clusters(End) \in Nat /\ First + Clusters(End) <= G
    BY PositionFacts, Constants DEF GuestSectors, Guest
  <1>3. c = Conflicts(s, m) /\ m \in Nat \ {0}
    BY <1>1, <1>2 DEF Room
  <1> HIDE DEF m, c, s
  <1>4. /\ c \in Left /\ c.nb <= m
        /\ c.dep = NoReq => \A r \in ToSet(cluster_allocs) : Clear(s, c.nb, r)
        /\ c.dep \in ToSet(cluster_allocs) \cup {NoReq}
    BY <1>2, <1>3, ConflictsCorrect
  <1>5. c.nb \in Nat /\ (c.dep = NoReq => c.nb >= 1) /\ c.dep \in Reqs \cup {NoReq}
    BY <1>4 DEF Left
  <1>6. c.nb <= Clusters(End) /\ First + c.nb <= G /\ c.nb <= G
    BY <1>1, <1>2, <1>3, <1>4, <1>5, Constants
  <1>7. c.dep = NoReq => \A r \in Reqs : Allocating(r) => Clear(s, c.nb, r)
    BY <1>4 DEF Listed
  <1>8. ASSUME NEW i \in 0 .. (c.nb - 1)
        PROVE  First + i \in Guest /\ ~l2[First + i].copied
    <2>1. i \in 0 .. (m - 1)
      BY <1>3, <1>4, <1>5
    <2>2. First + i \in Guest /\ Replaceable(First, i)
      BY <1>1, <2>1
    <2> QED
      BY <2>2 DEF Replaceable, CopiedMapped
  <1> QED
    BY <1>4, <1>5, <1>6, <1>7, <1>8 DEF c, s

-----------------------------------------------------------------------------
(* The types, action by action.                                            *)

Parts == [sector_num : 0 .. (G * CS), nb_sectors : 0 .. (G * CS), n : 0 .. (G * CS)]
States == {"new", "hd", "written", "broken", "wait", "run", "done"}

\* The conjuncts of TypeOK that an action seldom touches, and the others.
TableTypes == /\ l2 \in [Guest -> Entries] /\ rc \in [Host -> 0 .. 2]
              /\ free_cluster_index \in 1 .. (H + 1)
              /\ cluster_allocs \in Seq(Reqs)
RequestTypes == /\ st \in [Reqs -> States] /\ part \in [Reqs -> Parts]
                /\ \A r \in Reqs : part[r].n <= part[r].nb_sectors
                /\ meta \in [Reqs -> Metas] /\ dependents \in [Reqs -> Seq(Reqs)]
                /\ failed \in [Reqs -> BOOLEAN]
                /\ todo \in Seq(Reqs \cup {NoReq})
ContentTypes == /\ disk \in [Host -> [Offsets -> Contents]]
                /\ snapshot \in SUBSET Host
                /\ supersedes \in [Reqs -> [GuestSectors -> SUBSET Contents]]
                /\ allowed \in [GuestSectors -> SUBSET Contents]

LEMMA Types == TypeOK <=> TableTypes /\ RequestTypes /\ ContentTypes
  BY DEF TypeOK, TableTypes, RequestTypes, ContentTypes, Parts, States

LEMMA TypesNext == TypeOK' <=> TableTypes' /\ RequestTypes' /\ ContentTypes'
  BY DEF TypeOK, TableTypes, RequestTypes, ContentTypes, Parts, States, Metas,
         Entries, Guest, Host, Offsets, GuestSectors, Contents, Garbage

LEMMA ConsInSeq ==
    ASSUME NEW S, NEW x \in S, NEW q \in Seq(S)
    PROVE  <<x>> \o q \in Seq(S)
  OBVIOUS

LEMMA ToSetCons ==
    ASSUME NEW S, NEW x \in S, NEW q \in Seq(S)
    PROVE  ToSet(<<x>> \o q) = ToSet(q) \cup {x}
  <1> DEFINE p == <<x>> \o q
  <1>1. /\ DOMAIN q = 1 .. Len(q) /\ DOMAIN p = 1 .. (Len(q) + 1) /\ Len(q) \in Nat
        /\ p[1] = x /\ \A i \in 1 .. Len(q) : p[i + 1] = q[i]
    OBVIOUS
  <1> HIDE DEF p
  <1>2. \A i \in 1 .. (Len(q) + 1) : i = 1 \/ (i - 1 \in 1 .. Len(q) /\ p[i] = q[i - 1])
    BY <1>1
  <1>3. 1 \in 1 .. (Len(q) + 1) /\ \A i \in 1 .. Len(q) : i + 1 \in 1 .. (Len(q) + 1)
    BY <1>1
  <1>4. ToSet(p) = ToSet(q) \cup {x}
    BY <1>1, <1>2, <1>3 DEF ToSet
  <1> QED
    BY <1>4 DEF p

LEMMA TailInSeq ==
    ASSUME NEW S, NEW q \in Seq(S), q # <<>>
    PROVE  Tail(q) \in Seq(S)
  BY HeadTailProperties

LEMMA AioWritevTypes ==
    ASSUME TypeOK, PartsFit, NEW r \in Reqs, NEW s \in GuestSectors,
           NEW k \in 1 .. MaxSectors, AioWritev(r, s, k)
    PROVE  TypeOK' /\ PartsFit'
  <1>1. G * CS \in Nat /\ s \in Nat /\ k \in Nat /\ s + k <= G * CS
    BY Constants, MaxSectorsAssumption DEF GuestSectors, AioWritev
  <1> DEFINE p == [sector_num |-> s, nb_sectors |-> k, n |-> 0]
  <1>2. p \in Parts /\ p.n <= p.nb_sectors /\ p.sector_num + p.nb_sectors <= G * CS
    BY <1>1 DEF Parts
  <1>3. part' = [part EXCEPT ![r] = p]
    BY DEF AioWritev
  <1> HIDE DEF p
  <1>4. /\ part' \in [Reqs -> Parts]
        /\ \A q \in Reqs : part'[q].n <= part'[q].nb_sectors
        /\ \A q \in Reqs : part'[q].sector_num + part'[q].nb_sectors <= G * CS
    BY <1>2, <1>3, Types DEF RequestTypes, PartsFit
  <1>5. st' \in [Reqs -> States]
    BY Types DEF AioWritev, RequestTypes, States
  <1>6. todo' \in Seq(Reqs \cup {NoReq})
    BY Types, ConsInSeq DEF AioWritev, RequestTypes
  <1>7. supersedes' \in [Reqs -> [GuestSectors -> SUBSET Contents]]
    <2>1. \A x \in GuestSectors : Settled(x) \in SUBSET Contents
      BY Types DEF Settled, ContentTypes
    <2> DEFINE f == [x \in GuestSectors |-> IF x \in s..(s + k - 1) THEN Settled(x) ELSE {}]
    <2>2. f \in [GuestSectors -> SUBSET Contents]
      BY <2>1
    <2>3. supersedes' = [supersedes EXCEPT ![r] = f]
      BY DEF AioWritev
    <2> HIDE DEF f
    <2> QED
      BY <2>2, <2>3, Types DEF ContentTypes
  <1>8. allowed' \in [GuestSectors -> SUBSET Contents]
    BY Types DEF AioWritev, ContentTypes, Contents
  <1>9. TableTypes'
    BY Types DEF AioWritev, TableTypes, tableVars, Guest, Entries, Host
  <1>10. RequestTypes'
    BY <1>4, <1>5, <1>6, Types DEF AioWritev, RequestTypes, Parts, States, Metas, GuestSectors, Offsets
  <1>11. ContentTypes'
    BY <1>7, <1>8, Types DEF AioWritev, ContentTypes, Host, Offsets, Contents, GuestSectors, Garbage
  <1> QED
    BY <1>4, <1>9, <1>10, <1>11, TypesNext DEF PartsFit

LEMMA DoneTypes ==
    ASSUME TypeOK, PartsFit, todo # <<>>, Running \in Reqs, NEW ok, Done(ok),
           meta' \in [Reqs -> Metas]
    PROVE  RequestTypes' /\ ContentTypes' /\ PartsFit'
  <1>1. st' \in [Reqs -> States]
    BY Types DEF Done, RequestTypes, States
  <1>2. todo' \in Seq(Reqs \cup {NoReq})
    <2>1. Tail(todo) \in Seq(Reqs \cup {NoReq})
      BY Types, TailInSeq DEF RequestTypes
    <2>2. <<NoReq>> \o Tail(todo) \in Seq(Reqs \cup {NoReq})
      BY <2>1, ConsInSeq
    <2>3. <<>> \in Seq(Reqs \cup {NoReq})
      BY EmptySeq
    <2> QED
      BY <2>2, <2>3 DEF Done
  <1>3. allowed' \in [GuestSectors -> SUBSET Contents]
    <2>1. CASE ok
      <3>1. allowed' = [x \in GuestSectors |-> allowed[x] \ supersedes[Running][x]]
        BY <2>1 DEF Done
      <3> QED
        BY <3>1, Types DEF ContentTypes
    <2>2. CASE ~ok
      BY <2>2, Types DEF Done, ContentTypes
    <2> QED
      BY <2>1, <2>2
  <1>4. RequestTypes'
    <2>1. failed' \in [Reqs -> BOOLEAN]
      BY Types, Zenon DEF Done, RequestTypes
    <2>2. part' = part /\ dependents' = dependents
      BY DEF Done
    <2> QED
      BY <1>1, <1>2, <2>1, <2>2, Types DEF RequestTypes, Parts, States, Metas, GuestSectors, Offsets
  <1>5. ContentTypes'
    BY <1>3, Types DEF Done, ContentTypes, Host, Offsets, Contents, GuestSectors, Garbage
  <1>6. PartsFit'
    BY DEF Done, PartsFit
  <1> QED
    BY <1>4, <1>5, <1>6

LEMMA RunningRequest ==
    ASSUME TypeOK, todo # <<>>, Running # NoReq
    PROVE  Running \in Reqs
  <1>1. todo \in Seq(Reqs \cup {NoReq})
    BY DEF TypeOK
  <1>2. Head(todo) \in Reqs \cup {NoReq}
    BY <1>1, HeadTailProperties
  <1> QED
    BY <1>2 DEF Running

LEMMA FinishTypes ==
    ASSUME TypeOK, PartsFit, Finish
    PROVE  TypeOK' /\ PartsFit'
  <1>1. todo # <<>> /\ Running \in Reqs /\ Done(~failed[Running])
    BY RunningRequest, Zenon DEF Finish
  <1>2. meta' \in [Reqs -> Metas] /\ TableTypes'
    BY Types DEF Finish, RequestTypes, TableTypes, tableVars, Guest, Entries, Host
  <1>3. RequestTypes' /\ ContentTypes' /\ PartsFit'
    BY <1>1, <1>2, DoneTypes, Zenon
  <1> QED
    BY <1>2, <1>3, TypesNext

LEMMA CallbackReturnsTypes ==
    ASSUME TypeOK, PartsFit, CallbackReturns
    PROVE  TypeOK' /\ PartsFit'
  <1>1. todo' \in Seq(Reqs \cup {NoReq})
    BY Types, TailInSeq DEF CallbackReturns, RequestTypes
  <1>2. TableTypes'
    BY Types DEF CallbackReturns, TableTypes, tableVars, Guest, Entries, Host
  <1>3. RequestTypes'
    BY <1>1, Types DEF CallbackReturns, RequestTypes, reqVars, Parts, States, Metas, GuestSectors, Offsets
  <1>4. ContentTypes'
    BY Types DEF CallbackReturns, ContentTypes, history, Host, Offsets, Contents, GuestSectors, Garbage
  <1>5. PartsFit'
    BY DEF CallbackReturns, PartsFit, reqVars
  <1> QED
    BY <1>2, <1>3, <1>4, <1>5, TypesNext

\* The sectors of the next part of the request: at least one, and no more than
\* are left.
LEMMA AvailableCorrect ==
    ASSUME TypeOK, PartsFit, More, NEW nb \in Nat \ {0}
    PROVE  /\ Available(nb) \in 0 .. (G * CS) /\ Available(nb) <= End
           /\ Available(nb) <= nb * CS /\ Available(nb) > Index
           /\ Available(nb) - Index \in 1 .. Position.nb_sectors
           /\ Available(nb) - Index \in 0 .. (G * CS)
  <1>1. /\ Position.nb_sectors \in Nat \ {0}
        /\ Index \in Offsets /\ End \in Nat \ {0} /\ End <= G * CS
        /\ End = Index + Position.nb_sectors
    BY PositionFacts
  <1>2. nb * CS \in Nat /\ G * CS \in Nat /\ CS <= nb * CS
    BY Constants
  <1>3. Index \in Nat /\ Index < CS /\ CS \in Nat
    BY <1>1, Constants DEF Offsets
  <1> QED
    BY <1>1, <1>2, <1>3 DEF Available

LEMMA SubmitDataTypes ==
    ASSUME TypeOK, PartsFit, More, NEW nb \in Nat \ {0}, SubmitData(nb),
           meta' \in [Reqs -> Metas], UNCHANGED <<dependents, failed>>
    PROVE  RequestTypes' /\ PartsFit'
  <1> DEFINE p == [sector_num |-> Position.sector_num,
                   nb_sectors |-> Position.nb_sectors, n |-> Available(nb) - Index]
  <1>1. /\ Running \in Reqs /\ todo \in Seq(Reqs \cup {NoReq}) /\ todo # <<>>
        /\ Position.sector_num \in GuestSectors
        /\ Position.nb_sectors \in Nat \ {0}
        /\ Position.sector_num + Position.nb_sectors <= G * CS
    BY PositionFacts
  <1>2. Available(nb) - Index \in 1 .. Position.nb_sectors /\ Available(nb) - Index \in 0 .. (G * CS)
    BY AvailableCorrect
  <1>3. p \in Parts /\ p.n <= p.nb_sectors /\ p.sector_num + p.nb_sectors <= G * CS
    BY <1>1, <1>2, Constants DEF Parts, GuestSectors
  <1>4. part' = [part EXCEPT ![Running] = p]
    BY DEF SubmitData, Part
  <1> HIDE DEF p
  <1>5. /\ part' \in [Reqs -> Parts]
        /\ \A q \in Reqs : part'[q].n <= part'[q].nb_sectors
        /\ \A q \in Reqs : part'[q].sector_num + part'[q].nb_sectors <= G * CS
    BY <1>3, <1>4, Types DEF RequestTypes, PartsFit
  <1>6. st' \in [Reqs -> States]
    BY Types DEF SubmitData, RequestTypes, States
  <1>7. todo' \in Seq(Reqs \cup {NoReq})
    BY <1>1, TailInSeq DEF SubmitData
  <1>8. failed' \in [Reqs -> BOOLEAN]
    BY Types, Zenon DEF RequestTypes
  <1>9. RequestTypes'
    BY <1>5, <1>6, <1>7, <1>8, Types DEF RequestTypes, Parts, States, Metas, GuestSectors, Offsets
  <1> QED
    BY <1>5, <1>9 DEF PartsFit

LEMMA UseOwnedTypes ==
    ASSUME TypeOK, PartsFit, More, UseOwned
    PROVE  /\ meta' \in [Reqs -> Metas] /\ TableTypes'
           /\ \A q \in Reqs : q # Running => meta'[q] = meta[q]
           /\ meta'[Running].nb_clusters = 0
           /\ meta'[Running].cluster_offset = l2[First].host
  <1>1. Running \in Reqs /\ First \in Guest /\ Clusters(End) \in Nat
    BY PositionFacts
  <1>2. OwnedClusters \in Nat \ {0}
    BY <1>1, OwnedCorrect DEF UseOwned
  <1>3. Available(OwnedClusters) \in 0 .. (G * CS)
    BY <1>2, AvailableCorrect
  <1>4. l2[First].host \in 0 .. H
    <2>1. l2[First] \in Entries
      BY <1>1 DEF TypeOK
    <2> QED
      BY <2>1 DEF Entries
  <1>5. PICK m \in Metas : m = meta[Running]
    BY <1>1 DEF TypeOK
  <1> DEFINE w == [offset |-> m.offset, cluster_offset |-> l2[First].host,
                   n_start |-> m.n_start, nb_available |-> Available(OwnedClusters),
                   nb_clusters |-> 0, depends_on |-> NoReq]
  <1>6. w \in Metas /\ w.nb_clusters = 0 /\ w.cluster_offset = l2[First].host
    BY <1>3, <1>4, Constants DEF Metas
  <1>7. meta' = [meta EXCEPT ![Running] = w]
    BY <1>5 DEF UseOwned
  <1> HIDE DEF w
  <1>8. meta \in [Reqs -> Metas]
    BY DEF TypeOK
  <1>9. TableTypes'
    BY Types DEF UseOwned, TableTypes, tableVars, Guest, Entries, Host
  <1> QED
    BY <1>1, <1>6, <1>7, <1>8, <1>9

LEMMA WriteInPlaceTypes ==
    ASSUME TypeOK, PartsFit, WriteInPlace
    PROVE  TypeOK' /\ PartsFit'
  <1>1. More /\ UseOwned /\ SubmitData(OwnedClusters) /\ UNCHANGED <<dependents, failed>>
    BY DEF WriteInPlace
  <1>2. meta' \in [Reqs -> Metas] /\ TableTypes'
    BY <1>1, UseOwnedTypes
  <1>3. OwnedClusters \in Nat \ {0}
    BY <1>1, OwnedCorrect, PositionFacts DEF UseOwned
  <1>4. RequestTypes' /\ PartsFit'
    BY <1>1, <1>2, <1>3, SubmitDataTypes
  <1>5. ContentTypes'
    BY Types DEF WriteInPlace, ContentTypes, history, Host, Offsets, Contents, GuestSectors, Garbage
  <1> QED
    BY <1>2, <1>4, <1>5, TypesNext

LEMMA WaitForAllocationTypes ==
    ASSUME TypeOK, PartsFit, CopiedMapped, Listed, WaitForAllocation
    PROVE  TypeOK' /\ PartsFit'
  <1>1. More /\ ~l2[First].copied /\ Room.dep # NoReq
    BY DEF WaitForAllocation
  <1>2. /\ Running \in Reqs /\ todo \in Seq(Reqs \cup {NoReq}) /\ todo # <<>>
        /\ Position.sector_num \in GuestSectors
        /\ Position.nb_sectors \in Nat \ {0}
        /\ Position.sector_num + Position.nb_sectors <= G * CS
    BY <1>1, PositionFacts
  <1>3. Room.dep \in Reqs
    BY <1>1, RoomCorrect
  <1> DEFINE p == [sector_num |-> Position.sector_num,
                   nb_sectors |-> Position.nb_sectors, n |-> 0]
  <1>4. p \in Parts /\ p.n <= p.nb_sectors /\ p.sector_num + p.nb_sectors <= G * CS
    BY <1>2, Constants DEF Parts, GuestSectors
  <1>5. part' = [part EXCEPT ![Running] = p]
    BY DEF WaitForAllocation, Part
  <1> HIDE DEF p
  <1>6. /\ part' \in [Reqs -> Parts]
        /\ \A q \in Reqs : part'[q].n <= part'[q].nb_sectors
        /\ \A q \in Reqs : part'[q].sector_num + part'[q].nb_sectors <= G * CS
    BY <1>4, <1>5, Types DEF RequestTypes, PartsFit
  <1>7. st' \in [Reqs -> States]
    BY Types DEF WaitForAllocation, RequestTypes, States
  <1>8. todo' \in Seq(Reqs \cup {NoReq})
    BY <1>2, TailInSeq DEF WaitForAllocation
  <1>9. failed' \in [Reqs -> BOOLEAN]
    BY Types, Zenon DEF RequestTypes, WaitForAllocation
  <1>10. dependents' \in [Reqs -> Seq(Reqs)]
    <2>1. dependents[Room.dep] \in Seq(Reqs) /\ dependents \in [Reqs -> Seq(Reqs)]
      BY <1>3 DEF TypeOK
    <2>2. <<Running>> \o dependents[Room.dep] \in Seq(Reqs)
      BY <1>2, <2>1, ConsInSeq
    <2> QED
      BY <1>3, <2>1, <2>2 DEF WaitForAllocation
  <1>11. meta' \in [Reqs -> Metas]
    <2>1. PICK m \in Metas : m = meta[Running]
      BY <1>2 DEF TypeOK
    <2>2. [m EXCEPT !.nb_clusters = 0, !.depends_on = Room.dep] \in Metas
      <3>1. 0 \in 0 .. G /\ Room.dep \in Reqs \cup {NoReq}
        BY <1>3, Constants
      <3> DEFINE m1 == [m EXCEPT !.nb_clusters = 0]
      <3>2. m1 \in Metas
        BY <3>1 DEF Metas
      <3>3. [m EXCEPT !.nb_clusters = 0, !.depends_on = Room.dep] =
               [m1 EXCEPT !.depends_on = Room.dep]
        OBVIOUS
      <3> HIDE DEF m1
      <3>4. [m1 EXCEPT !.depends_on = Room.dep] \in Metas
        BY <3>1, <3>2 DEF Metas
      <3> QED
        BY <3>3, <3>4
    <2>3. meta \in [Reqs -> Metas]
      BY DEF TypeOK
    <2> QED
      BY <1>2, <2>1, <2>2, <2>3 DEF WaitForAllocation
  <1>12. RequestTypes'
    BY <1>6, <1>7, <1>8, <1>9, <1>10, <1>11, Types DEF RequestTypes, Parts, States, Metas, GuestSectors, Offsets
  <1>13. TableTypes'
    BY Types DEF WaitForAllocation, TableTypes, tableVars, Guest, Entries, Host
  <1>14. ContentTypes'
    BY Types DEF WaitForAllocation, ContentTypes, history, Host, Offsets, Contents, GuestSectors, Garbage
  <1> QED
    BY <1>6, <1>12, <1>13, <1>14, TypesNext DEF PartsFit

\* alloc_clusters_noref and update_refcount: free clusters only.
LEMMA AllocClustersTypes ==
    ASSUME TypeOK, NEW h \in Host, NEW nb \in Nat \ {0}, AllocClusters(h, nb)
    PROVE  /\ rc' \in [Host -> 0 .. 2] /\ free_cluster_index' \in 1 .. (H + 1)
           /\ h .. (h + nb - 1) \subseteq Host
           /\ \A x \in h .. (h + nb - 1) : rc[x] = 0 /\ rc'[x] = 1
           /\ \A x \in Host : rc[x] <= rc'[x]
  <1>1. h + nb - 1 <= H /\ \A i \in 0 .. (nb - 1) : rc[h + i] = 0
    BY DEF AllocClusters, FirstFreeRun, FreeRun
  <1>2. h .. (h + nb - 1) \subseteq Host
    BY <1>1, Constants DEF Host
  <1>3. ASSUME NEW x \in h .. (h + nb - 1)
        PROVE  rc[x] = 0
    <2>1. x - h \in 0 .. (nb - 1) /\ h + (x - h) = x
      BY DEF Host
    <2> QED
      BY <1>1, <2>1
  <1>4. rc' \in [Host -> 0 .. 2] /\ \A x \in Host : rc[x] <= rc'[x]
    <2>1. \A x \in Host : rc[x] \in 0 .. 2
      BY DEF TypeOK
    <2>2. rc' = [x \in Host |-> IF x \in h..(h + nb - 1) THEN 1 ELSE rc[x]]
      BY DEF AllocClusters
    <2> QED
      BY <1>3, <2>1, <2>2
  <1>5. free_cluster_index' \in 1 .. (H + 1)
    BY <1>1, Constants DEF AllocClusters, Host
  <1> QED
    BY <1>2, <1>3, <1>4, <1>5 DEF AllocClusters

LEMMA AllocateNewTypes ==
    ASSUME TypeOK, PartsFit, CopiedMapped, Listed, More, AllocateNew
    PROVE  /\ meta' \in [Reqs -> Metas] /\ TableTypes'
           /\ \A q \in Reqs : q # Running => meta'[q] = meta[q]
           /\ \A x \in Host : rc[x] <= rc'[x]
           /\ ToSet(cluster_allocs') = ToSet(cluster_allocs) \cup {Running}
           /\ \E h \in Host : /\ AllocClusters(h, Room.nb)
                              /\ meta'[Running].cluster_offset = h
                              /\ meta'[Running].nb_clusters = Room.nb
                              /\ meta'[Running].offset = Position.sector_num
                              /\ meta'[Running].n_start = Index
                              /\ meta'[Running].nb_available = Available(Room.nb)
  <1>1. Running \in Reqs /\ Position.sector_num \in GuestSectors /\ Index \in Offsets
    BY PositionFacts
  <1>2. Room.nb \in Nat \ {0} /\ Room.nb <= G
    BY RoomCorrect DEF AllocateNew
  <1>3. Available(Room.nb) \in 0 .. (G * CS)
    BY <1>2, AvailableCorrect
  <1>4. PICK h \in Host :
          /\ AllocClusters(h, Room.nb)
          /\ meta' = [meta EXCEPT ![Running] =
                [offset |-> Position.sector_num, cluster_offset |-> h,
                 n_start |-> Index, nb_available |-> Available(Room.nb),
                 nb_clusters |-> Room.nb, depends_on |-> @.depends_on]]
    BY DEF AllocateNew
  <1>5. PICK m \in Metas : m = meta[Running]
    BY <1>1 DEF TypeOK
  <1> DEFINE w == [offset |-> Position.sector_num, cluster_offset |-> h,
                   n_start |-> Index, nb_available |-> Available(Room.nb),
                   nb_clusters |-> Room.nb, depends_on |-> m.depends_on]
  <1>6. w \in Metas
    BY <1>1, <1>2, <1>3, Constants DEF Metas, Host
  <1>7. /\ w.offset = Position.sector_num /\ w.cluster_offset = h /\ w.n_start = Index
        /\ w.nb_available = Available(Room.nb) /\ w.nb_clusters = Room.nb
    OBVIOUS
  <1>8. meta' = [meta EXCEPT ![Running] = w]
    BY <1>4, <1>5
  <1> HIDE DEF w
  <1>9. meta \in [Reqs -> Metas] /\ cluster_allocs \in Seq(Reqs)
    BY DEF TypeOK
  <1>10. /\ meta' \in [Reqs -> Metas]
         /\ \A q \in Reqs : q # Running => meta'[q] = meta[q]
         /\ meta'[Running] = w
    BY <1>1, <1>6, <1>8, <1>9
  <1>11. /\ rc' \in [Host -> 0 .. 2] /\ free_cluster_index' \in 1 .. (H + 1)
         /\ \A x \in Host : rc[x] <= rc'[x]
    BY <1>2, <1>4, AllocClustersTypes
  <1>12. /\ cluster_allocs' \in Seq(Reqs)
         /\ ToSet(cluster_allocs') = ToSet(cluster_allocs) \cup {Running}
    BY <1>1, <1>9, ConsInSeq, ToSetCons DEF AllocateNew
  <1>13. l2' \in [Guest -> Entries]
    BY Types DEF AllocateNew, TableTypes
  <1>14. TableTypes'
    BY <1>11, <1>12, <1>13 DEF TableTypes, Guest, Entries, Host
  <1> QED
    BY <1>4, <1>7, <1>10, <1>11, <1>12, <1>14

LEMMA WriteAllocatingTypes ==
    ASSUME TypeOK, PartsFit, CopiedMapped, Listed, WriteAllocating
    PROVE  TypeOK' /\ PartsFit'
  <1>1. More /\ AllocateNew /\ SubmitData(Room.nb) /\ UNCHANGED <<dependents, failed>>
    BY DEF WriteAllocating
  <1>2. meta' \in [Reqs -> Metas] /\ TableTypes'
    BY <1>1, AllocateNewTypes
  <1>3. Room.nb \in Nat \ {0}
    BY <1>1, RoomCorrect DEF AllocateNew
  <1>4. RequestTypes' /\ PartsFit'
    BY <1>1, <1>2, <1>3, SubmitDataTypes
  <1>5. ContentTypes'
    BY Types DEF WriteAllocating, ContentTypes, history, Host, Offsets, Contents, GuestSectors, Garbage
  <1> QED
    BY <1>2, <1>4, <1>5, TypesNext

LEMMA AllocFailsTypes ==
    ASSUME TypeOK, PartsFit, CopiedMapped, Listed, AllocFails
    PROVE  TypeOK' /\ PartsFit' /\ \A x \in Host : rc[x] <= rc'[x]
  <1>1. More /\ ~l2[First].copied /\ Room.dep = NoReq /\ Done(FALSE)
    BY DEF AllocFails
  <1>2. Running \in Reqs /\ todo # <<>>
    BY <1>1, PositionFacts
  <1>3. Room.nb \in Nat \ {0}
    BY <1>1, RoomCorrect
  <1>4. PICK h \in Host : AllocClusters(h, Room.nb)
    BY DEF AllocFails
  <1>5. /\ rc' \in [Host -> 0 .. 2] /\ free_cluster_index' \in 1 .. (H + 1)
        /\ \A x \in Host : rc[x] <= rc'[x]
    BY <1>3, <1>4, AllocClustersTypes
  <1>6. cluster_allocs' \in Seq(Reqs)
    BY <1>2, ConsInSeq DEF AllocFails, TypeOK
  <1>7. l2' \in [Guest -> Entries] /\ meta' \in [Reqs -> Metas]
    BY DEF AllocFails, TypeOK
  <1>8. TableTypes'
    BY <1>5, <1>6, <1>7 DEF TableTypes, Guest, Entries, Host
  <1>9. RequestTypes' /\ ContentTypes' /\ PartsFit'
    BY <1>1, <1>2, <1>7, DoneTypes
  <1> QED
    BY <1>5, <1>8, <1>9, TypesNext

LEMMA SubmitFailsTypes ==
    ASSUME TypeOK, PartsFit, CopiedMapped, Listed, SubmitFails
    PROVE  TypeOK' /\ PartsFit' /\ \A x \in Host : rc[x] <= rc'[x]
  <1>1. More /\ Done(TRUE) /\ (UseOwned \/ AllocateNew)
    BY DEF SubmitFails
  <1>2. Running \in Reqs /\ todo # <<>>
    BY <1>1, PositionFacts
  <1>3. \A x \in Host : rc[x] \in 0 .. 2
    BY DEF TypeOK
  <1>4. meta' \in [Reqs -> Metas] /\ TableTypes' /\ \A x \in Host : rc[x] <= rc'[x]
    <2>1. CASE UseOwned
      <3>1. rc' = rc
        BY <2>1 DEF UseOwned, tableVars
      <3> QED
        BY <1>1, <1>3, <2>1, <3>1, UseOwnedTypes
    <2>2. CASE AllocateNew
      BY <1>1, <2>2, AllocateNewTypes
    <2> QED
      BY <1>1, <2>1, <2>2
  <1>5. RequestTypes' /\ ContentTypes' /\ PartsFit'
    BY <1>1, <1>2, <1>4, DoneTypes
  <1> QED
    BY <1>4, <1>5, TypesNext

LEMMA WrittenTypes ==
    ASSUME TypeOK, NEW r \in Reqs, NEW k, Written(r, k)
    PROVE  disk' \in [Host -> [Offsets -> Contents]]
  <1>1. r \in Contents /\ \A h \in Host : \A o \in Offsets : disk[h][o] \in Contents
    BY DEF TypeOK, Contents
  <1> QED
    BY <1>1 DEF Written

LEMMA HdTypes ==
    ASSUME TypeOK, PartsFit, NEW r \in Reqs, HdWrite(r) \/ HdFail(r)
    PROVE  TypeOK' /\ PartsFit'
  <1>1. disk' \in [Host -> [Offsets -> Contents]]
    BY WrittenTypes DEF HdWrite, HdFail
  <1>2. st' \in [Reqs -> States]
    BY Types DEF HdWrite, HdFail, RequestTypes, States
  <1>3. UNCHANGED <<tableVars, cluster_allocs, part, meta, dependents, failed,
                    todo, snapshot, history>>
    BY DEF HdWrite, HdFail
  <1>4. TableTypes'
    BY <1>3, Types DEF TableTypes, tableVars, Guest, Entries, Host
  <1>5. RequestTypes'
    BY <1>2, <1>3, Types DEF RequestTypes, Parts, States, Metas, GuestSectors, Offsets
  <1>6. ContentTypes'
    BY <1>1, <1>3, Types DEF ContentTypes, history, Host, Offsets, Contents, GuestSectors, Garbage
  <1>7. PartsFit'
    BY <1>3 DEF PartsFit
  <1> QED
    BY <1>4, <1>5, <1>6, <1>7, TypesNext

LEMMA AioCancelTypes ==
    ASSUME TypeOK, PartsFit, NEW r \in Reqs, AioCancel(r)
    PROVE  TypeOK' /\ PartsFit'
  <1>2. st' \in [Reqs -> States]
    BY Types DEF AioCancel, RequestTypes, States
  <1>3. UNCHANGED <<tableVars, disk, cluster_allocs, part, meta, dependents, failed,
                    todo, snapshot, history>>
    BY DEF AioCancel
  <1>4. TableTypes'
    BY <1>3, Types DEF TableTypes, tableVars, Guest, Entries, Host
  <1>5. RequestTypes'
    BY <1>2, <1>3, Types DEF RequestTypes, Parts, States, Metas, GuestSectors, Offsets
  <1>6. ContentTypes'
    BY <1>3, Types DEF ContentTypes, history, Host, Offsets, Contents, GuestSectors, Garbage
  <1>7. PartsFit'
    BY <1>3 DEF PartsFit
  <1> QED
    BY <1>4, <1>5, <1>6, <1>7, TypesNext

\* A list without one of its elements.
LEMMA RemoveAtCorrect ==
    ASSUME NEW S, NEW s \in Seq(S), NEW k \in 1..Len(s)
    PROVE  /\ RemoveAt(s, k) \in Seq(S) /\ Len(RemoveAt(s, k)) = Len(s) - 1
           /\ \A i \in 1..(Len(s) - 1) :
                 RemoveAt(s, k)[i] = IF i < k THEN s[i] ELSE s[i + 1]
  <1> DEFINE q == RemoveAt(s, k)
             n == Len(s)
             l == SubSeq(s, 1, k - 1)
             r == SubSeq(s, k + 1, n)
  <1>1. n \in Nat /\ n > 0 /\ DOMAIN s = 1..n /\ \A i \in 1..n : s[i] \in S
    BY LenProperties, ElementOfSeq
  <1>2. /\ l \in Seq(S) /\ Len(l) = k - 1 /\ \A i \in 1..(k - 1) : l[i] = s[i]
        /\ r \in Seq(S) /\ Len(r) = n - k
        /\ \A i \in 1..(n - k) : r[i] = s[k + i]
    <2>1. \A i \in 1..(k - 1) : s[i] \in S
      BY <1>1
    <2>2. \A i \in (k + 1)..n : s[i] \in S
      BY <1>1
    <2>3. /\ l \in Seq(S) /\ Len(l) = IF 1 <= k - 1 THEN (k - 1) - 1 + 1 ELSE 0
          /\ \A i \in 1..((k - 1) - 1 + 1) : l[i] = s[1 + i - 1]
      <3>1. 1 \in Int /\ k - 1 \in Int
        BY <1>1
      <3> QED
        BY <2>1, <3>1, SubSeqProperties
    <2>4. /\ r \in Seq(S) /\ Len(r) = IF k + 1 <= n THEN n - (k + 1) + 1 ELSE 0
          /\ \A i \in 1..(n - (k + 1) + 1) : r[i] = s[(k + 1) + i - 1]
      BY <1>1, <2>2, SubSeqProperties
    <2> HIDE DEF l, r
    <2>5. Len(l) = k - 1 /\ Len(r) = n - k
      <3>1. n \in Int /\ k \in Int /\ 1 <= k /\ k <= n
        BY <1>1
      <3>2. Len(l) = k - 1
        <4>1. CASE 1 <= k - 1
          BY <2>3, <3>1, <4>1
        <4>2. CASE k = 1
          BY <2>3, <4>2
        <4> QED
          BY <3>1, <4>1, <4>2
      <3>3. Len(r) = n - k
        <4>1. CASE k + 1 <= n
          BY <2>4, <3>1, <4>1
        <4>2. CASE k = n
          BY <2>4, <3>1, <4>2
        <4> QED
          BY <3>1, <4>1, <4>2
      <3> QED
        BY <3>2, <3>3
    <2>6. ASSUME NEW i \in 1..(k - 1)
          PROVE  l[i] = s[i]
      <3>1. i \in 1..((k - 1) - 1 + 1) /\ 1 + i - 1 = i
        BY <1>1
      <3> QED
        BY <2>3, <3>1
    <2>7. ASSUME NEW i \in 1..(n - k)
          PROVE  r[i] = s[k + i]
      <3>1. i \in 1..(n - (k + 1) + 1) /\ (k + 1) + i - 1 = k + i
        BY <1>1
      <3> QED
        BY <2>4, <3>1
    <2> QED
      BY <2>3, <2>4, <2>5, <2>6, <2>7
  <1>3. q = l \o r
    BY DEF RemoveAt
  <1> HIDE DEF l, r, n, q
  <1>4. /\ q \in Seq(S) /\ Len(q) = n - 1 /\ DOMAIN q = 1..(n - 1)
        /\ \A i \in 1..(n - 1) : q[i] = IF i < k THEN s[i] ELSE s[i + 1]
    <2>1. /\ q \in Seq(S) /\ Len(q) = (k - 1) + (n - k)
          /\ \A i \in 1..((k - 1) + (n - k)) :
                q[i] = IF i <= k - 1 THEN l[i] ELSE r[i - (k - 1)]
      <3>1. /\ q \in Seq(S) /\ Len(q) = Len(l) + Len(r)
            /\ \A i \in 1..(Len(l) + Len(r)) :
                  q[i] = IF i <= Len(l) THEN l[i] ELSE r[i - Len(l)]
        BY <1>2, <1>3, ConcatProperties
      <3> QED
        BY <1>2, <3>1
    <2>2. (k - 1) + (n - k) = n - 1 /\ k \in 1..n
      BY <1>1 DEF n
    <2>3. \A i \in 1..(n - 1) : q[i] = IF i < k THEN s[i] ELSE s[i + 1]
      <3>1. SUFFICES ASSUME NEW i \in 1..(n - 1)
                     PROVE  q[i] = IF i < k THEN s[i] ELSE s[i + 1]
        OBVIOUS
      <3>2. CASE i < k
        BY <1>1, <1>2, <2>1, <2>2, <3>2
      <3>3. CASE ~(i < k)
        <4>1. i - (k - 1) \in 1..(n - k) /\ k + (i - (k - 1)) = i + 1
          BY <1>1, <2>2, <3>3
        <4> QED
          BY <1>1, <1>2, <2>1, <2>2, <3>3, <4>1
      <3> QED
        BY <3>2, <3>3
    <2> QED
      BY <2>1, <2>2, <2>3, LenProperties
  <1> QED
    BY <1>4 DEF q, n

\* Elements and positions of a list.
LEMMA ToSetIs ==
    ASSUME NEW S, NEW s \in Seq(S)
    PROVE  /\ Len(s) \in Nat /\ DOMAIN s = 1..Len(s)
           /\ \A x : x \in ToSet(s) <=> \E i \in 1..Len(s) : x = s[i]
  <1>1. Len(s) \in Nat /\ DOMAIN s = 1..Len(s)
    BY LenProperties
  <1> QED
    BY <1>1 DEF ToSet

\* QLIST_REMOVE: the other elements stay.
LEMMA RemoveFirstCorrect ==
    ASSUME NEW s \in Seq(Reqs), NEW r
    PROVE  /\ RemoveFirst(s, r) \in Seq(Reqs)
           /\ ToSet(RemoveFirst(s, r)) \subseteq ToSet(s)
           /\ ToSet(s) \ {r} \subseteq ToSet(RemoveFirst(s, r))
           /\ (\A i, j \in DOMAIN s : s[i] = s[j] => i = j) =>
                 /\ r \notin ToSet(RemoveFirst(s, r))
                 /\ \A i, j \in DOMAIN RemoveFirst(s, r) :
                       RemoveFirst(s, r)[i] = RemoveFirst(s, r)[j] => i = j
  <1> DEFINE q == RemoveFirst(s, r)
  <1>1. /\ Len(s) \in Nat /\ DOMAIN s = 1..Len(s)
        /\ \A x : x \in ToSet(s) <=> \E i \in 1..Len(s) : x = s[i]
    BY ToSetIs
  <1>2. CASE ~\E i \in 1..Len(s) : s[i] = r
    <2>1. q = s
      BY <1>2 DEF RemoveFirst
    <2>2. r \notin ToSet(s)
      BY <1>1, <1>2
    <2> HIDE DEF q
    <2>3. /\ q \in Seq(Reqs) /\ ToSet(q) \subseteq ToSet(s) /\ ToSet(s) \ {r} \subseteq ToSet(q)
          /\ r \notin ToSet(q) /\ DOMAIN q = DOMAIN s /\ \A i, j \in DOMAIN s : q[i] = s[i]
      BY <2>1, <2>2
    <2> QED
      BY <2>1, <2>2, <2>3 DEF q
  <1>3. CASE \E i \in 1..Len(s) : s[i] = r
    <2> DEFINE I == {i \in 1..Len(s) : s[i] = r}
               k == Min(I)
    <2>1. I # {} /\ I \in SUBSET Nat
      BY <1>1, <1>3
    <2>2. q = RemoveAt(s, k)
      BY <1>3, <2>1 DEF RemoveFirst, SelectInSeq
    <2>3. k \in I
      <3>1. \E x \in I : \A y \in I : x <= y
        <4> HIDE DEF I
        <4> QED
          BY <2>1, LeastNatural
      <3> HIDE DEF I
      <3> QED
        BY <3>1 DEF Min
    <2>4. k \in 1..Len(s) /\ s[k] = r
      BY <2>3
    <2> HIDE DEF q, I, k
    <2>5. /\ q \in Seq(Reqs) /\ Len(q) = Len(s) - 1
          /\ \A i \in 1..(Len(s) - 1) : q[i] = IF i < k THEN s[i] ELSE s[i + 1]
      BY <2>2, <2>4, RemoveAtCorrect
    <2> DEFINE at(i) == IF i < k THEN i ELSE i + 1
               n == Len(s)
    <2>6. \A i \in 1..(n - 1) : at(i) \in 1..n /\ at(i) # k /\ q[i] = s[at(i)]
      BY <1>1, <2>4, <2>5
    <2>7. /\ DOMAIN q = 1..(n - 1)
          /\ \A x : x \in ToSet(q) <=> \E i \in 1..(n - 1) : x = q[i]
      BY <2>5, ToSetIs
    <2>8. \A i \in 1..n : i # k => \E j \in 1..(n - 1) : at(j) = i
      <3>1. SUFFICES ASSUME NEW i \in 1..n, i # k
                     PROVE  \E j \in 1..(n - 1) : at(j) = i
        OBVIOUS
      <3>2. CASE i < k
        <4>1. i \in 1..(n - 1) /\ at(i) = i
          BY <1>1, <2>4, <3>2
        <4> QED
          BY <4>1
      <3>3. CASE ~(i < k)
        <4>1. i - 1 \in 1..(n - 1) /\ at(i - 1) = i
          BY <1>1, <2>4, <3>1, <3>3
        <4> QED
          BY <4>1
      <3> QED
        BY <3>2, <3>3
    <2>9. \A i, j \in 1..(n - 1) : at(i) = at(j) => i = j
      BY <1>1, <2>4
    <2> HIDE DEF at, n
    <2>10. ToSet(q) \subseteq ToSet(s)
      BY <1>1, <2>6, <2>7 DEF n
    <2>11. ToSet(s) \ {r} \subseteq ToSet(q)
      <3>1. SUFFICES ASSUME NEW x \in ToSet(s), x # r
                     PROVE  x \in ToSet(q)
        OBVIOUS
      <3>2. PICK i \in 1..n : x = s[i]
        BY <1>1, <3>1 DEF n
      <3>3. i # k
        BY <2>4, <3>1, <3>2
      <3>4. PICK j \in 1..(n - 1) : at(j) = i
        BY <2>8, <3>3
      <3> QED
        BY <2>6, <2>7, <3>2, <3>4
    <2>12. ASSUME \A i, j \in DOMAIN s : s[i] = s[j] => i = j
           PROVE  r \notin ToSet(q) /\ \A i, j \in DOMAIN q : q[i] = q[j] => i = j
      <3>1. \A i, j \in 1..n : s[i] = s[j] => i = j
        BY <1>1, <2>12 DEF n
      <3>2. ASSUME r \in ToSet(q)
            PROVE  FALSE
        <4>1. PICK i \in 1..(n - 1) : q[i] = r
          BY <2>7, <3>2
        <4> QED
          BY <2>4, <2>6, <3>1, <4>1 DEF n
      <3>3. ASSUME NEW i \in 1..(n - 1), NEW j \in 1..(n - 1), q[i] = q[j]
            PROVE  i = j
        <4>1. at(i) = at(j)
          BY <2>6, <3>1, <3>3
        <4> QED
          BY <2>9, <4>1
      <3> QED
        BY <2>7, <3>2, <3>3
    <2> QED
      BY <2>5, <2>10, <2>11, <2>12 DEF q
  <1> QED
    BY <1>2, <1>3

-----------------------------------------------------------------------------
(* Users of a cluster.                                                     *)

Mapped(h) == {g \in Guest : l2[g].host = h}
Takers(h) == {r \in Reqs : Allocating(r) /\ h \in NewClusters(meta[r])}

LEMMA UsersIs ==
    ASSUME NEW h
    PROVE  /\ Users(h) = Cardinality(Mapped(h)) + Cardinality(Takers(h))
                            + Cardinality({h} \cap snapshot)
           /\ IsFiniteSet(Mapped(h)) /\ Cardinality(Mapped(h)) \in Nat
           /\ IsFiniteSet(Takers(h)) /\ Cardinality(Takers(h)) \in Nat
           /\ Cardinality({h} \cap snapshot) \in {0, 1}
           /\ (h \in snapshot => Cardinality({h} \cap snapshot) = 1)
           /\ (h \notin snapshot => Cardinality({h} \cap snapshot) = 0)
  <1>1. Users(h) = Cardinality(Mapped(h)) + Cardinality(Takers(h))
                      + Cardinality({h} \cap snapshot)
    BY DEF Users, Mapped, Takers
  <1>2. IsFiniteSet(Guest)
    BY FS_Interval, Constants DEF Guest
  <1>3. IsFiniteSet(Mapped(h))
    BY <1>2, FS_Subset DEF Mapped
  <1>4. IsFiniteSet(Takers(h))
    BY ReqsAssumption, FS_Subset DEF Takers
  <1>5. h \in snapshot => {h} \cap snapshot = {h}
    OBVIOUS
  <1>6. h \notin snapshot => {h} \cap snapshot = {}
    OBVIOUS
  <1>7. Cardinality({h}) = 1 /\ Cardinality({}) = 0
    BY FS_Singleton, FS_EmptySet
  <1>8. /\ (h \in snapshot => Cardinality({h} \cap snapshot) = 1)
        /\ (h \notin snapshot => Cardinality({h} \cap snapshot) = 0)
    BY <1>5, <1>6, <1>7
  <1> QED
    BY <1>1, <1>3, <1>4, <1>8, FS_CardinalityType

\* A cluster that is counted as free has no user, and one that is mapped is
\* counted.
LEMMA FreeIsUnused ==
    ASSUME TypeOK, RefcountSafe, NEW h \in Host
    PROVE  /\ rc[h] \in 0 .. 2
           /\ rc[h] = 0 => Mapped(h) = {} /\ Takers(h) = {} /\ h \notin snapshot
           /\ Mapped(h) # {} => rc[h] >= 1
  <1>1. rc[h] \in 0 .. 2 /\ Users(h) <= rc[h]
    BY DEF TypeOK, RefcountSafe
  <1>2. /\ Users(h) = Cardinality(Mapped(h)) + Cardinality(Takers(h))
                            + Cardinality({h} \cap snapshot)
        /\ IsFiniteSet(Mapped(h)) /\ Cardinality(Mapped(h)) \in Nat
        /\ IsFiniteSet(Takers(h)) /\ Cardinality(Takers(h)) \in Nat
        /\ Cardinality({h} \cap snapshot) \in {0, 1}
        /\ (h \in snapshot => Cardinality({h} \cap snapshot) = 1)
    BY UsersIs
  <1>3. Cardinality(Mapped(h)) = 0 => Mapped(h) = {}
    BY <1>2, FS_EmptySet
  <1>4. Cardinality(Takers(h)) = 0 => Takers(h) = {}
    BY <1>2, FS_EmptySet
  <1> QED
    BY <1>1, <1>2, <1>3, <1>4

-----------------------------------------------------------------------------
(* qcow2_alloc_cluster_link_l2.                                            *)

LEMMA SectorOfCluster ==
    ASSUME NEW g \in Guest, NEW o \in Offsets
    PROVE  /\ g * CS + o \in GuestSectors
           /\ (g * CS + o) \div CS = g /\ (g * CS + o) % CS = o
  <1>1. g \in Nat /\ g + 1 <= G /\ o \in Nat /\ o < CS
    BY Constants DEF Guest, Offsets
  <1>2. (g + 1) * CS <= G * CS /\ (g + 1) * CS \in Nat /\ G * CS \in Nat
    BY <1>1, Constants, TimesMonotonic
  <1>3. (g + 1) * CS = g * CS + CS /\ g * CS \in Nat
    BY <1>1, Constants
  <1>4. g * CS + o \in GuestSectors
    BY <1>1, <1>2, <1>3, Constants DEF GuestSectors
  <1> QED
    BY <1>1, <1>4, DivUnique

LEMMA GuestReadType ==
    ASSUME TypeOK, NEW s \in GuestSectors
    PROVE  GuestRead(s) \in Contents
  <1>1. s \div CS \in Guest /\ s % CS \in Offsets
    BY GuestOfSector
  <1>2. PICK e \in Entries : e = l2[s \div CS]
    BY <1>1 DEF TypeOK
  <1>3. e.host \in Nat /\ (e.host # 0 => e.host \in Host)
    BY <1>2, Constants DEF Entries, Host
  <1>4. e.host # 0 => disk[e.host][s % CS] \in Contents
    BY <1>1, <1>3 DEF TypeOK
  <1> QED
    BY <1>2, <1>4 DEF GuestRead, Contents

\* Where an allocation in flight lies.
LEMMA AllocationFacts ==
    ASSUME TypeOK, AllocsFit, NEW r \in Reqs, Allocating(r)
    PROVE  LET m == meta[r] IN
           /\ m \in Metas /\ m.offset \in Nat /\ m.offset \div CS \in Nat
           /\ m.nb_clusters \in Nat \ {0} /\ m.cluster_offset \in Nat
           /\ m.n_start \in Offsets /\ m.nb_available \in Nat
           /\ m.offset \div CS + m.nb_clusters <= G
           /\ NewClusters(m) \subseteq Host
           /\ \A i \in 0 .. (m.nb_clusters - 1) :
                 m.offset \div CS + i \in Guest /\ m.cluster_offset + i \in Host
  <1> DEFINE m == meta[r]
  <1>1. m \in Metas
    BY DEF TypeOK
  <1>2. m.nb_clusters # 0 /\ m.offset \div CS + m.nb_clusters <= G /\ NewClusters(m) \subseteq Host
    BY DEF Allocating, AllocsFit
  <1> HIDE DEF m
  <1>3. /\ m.offset \in Nat /\ m.nb_clusters \in Nat \ {0} /\ m.cluster_offset \in Nat
        /\ m.n_start \in Offsets /\ m.nb_available \in Nat
    BY <1>1, <1>2, Constants DEF Metas, GuestSectors
  <1>4. m.offset \div CS \in Nat
    BY <1>3, DivBounds
  <1>5. ASSUME NEW i \in 0 .. (m.nb_clusters - 1)
        PROVE  m.offset \div CS + i \in Guest /\ m.cluster_offset + i \in Host
    <2>1. m.offset \div CS + i \in Guest
      BY <1>2, <1>3, <1>4, Constants DEF Guest
    <2>2. m.cluster_offset + i \in NewClusters(m)
      BY <1>3 DEF NewClusters
    <2> QED
      BY <1>2, <2>1, <2>2
  <1> QED
    BY <1>1, <1>2, <1>3, <1>4, <1>5 DEF m

LEMMA SetL2EntriesTypes ==
    ASSUME TypeOK, AllocsFit, NEW r \in Reqs, Allocating(r), SetL2Entries(meta[r])
    PROVE  disk' \in [Host -> [Offsets -> Contents]] /\ l2' \in [Guest -> Entries]
  <1> DEFINE m == meta[r]
             g == m.offset \div CS
  <1>1. /\ m.offset \in Nat /\ g \in Nat
        /\ m.nb_clusters \in Nat \ {0} /\ m.cluster_offset \in Nat
        /\ \A i \in 0 .. (m.nb_clusters - 1) : g + i \in Guest /\ m.cluster_offset + i \in Host
    BY AllocationFacts
  <1>2. disk' = [h \in Host |-> IF h \in NewClusters(m)
                                THEN CopySectors(m, h - m.cluster_offset) ELSE disk[h]]
    BY DEF SetL2Entries
  <1>3. l2' = [x \in Guest |-> IF x \in g..(g + m.nb_clusters - 1)
                 THEN [host |-> m.cluster_offset + x - g, copied |-> TRUE] ELSE l2[x]]
    BY DEF SetL2Entries
  <1> HIDE DEF m
  <1>4. ASSUME NEW i \in 0 .. (m.nb_clusters - 1)
        PROVE  CopySectors(m, i) \in [Offsets -> Contents]
    <2>1. g + i \in Guest /\ m.cluster_offset + i \in Host
      BY <1>1
    <2>2. \A o \in Offsets : disk[m.cluster_offset + i][o] \in Contents
      BY <2>1 DEF TypeOK
    <2>3. \A o \in Offsets : GuestRead((g + i) * CS + o) \in Contents
      BY <2>1, SectorOfCluster, GuestReadType
    <2> QED
      BY <2>2, <2>3 DEF CopySectors
  <1>5. ASSUME NEW h \in NewClusters(m)
        PROVE  h - m.cluster_offset \in 0 .. (m.nb_clusters - 1)
    BY <1>1 DEF NewClusters
  <1>6. disk' \in [Host -> [Offsets -> Contents]]
    <2>1. \A h \in Host : disk[h] \in [Offsets -> Contents]
      BY DEF TypeOK
    <2>2. \A h \in NewClusters(m) : CopySectors(m, h - m.cluster_offset) \in [Offsets -> Contents]
      BY <1>4, <1>5
    <2> QED
      BY <1>2, <2>1, <2>2
  <1>7. ASSUME NEW x \in g..(g + m.nb_clusters - 1)
        PROVE  [host |-> m.cluster_offset + x - g, copied |-> TRUE] \in Entries
    <2>1. x - g \in 0 .. (m.nb_clusters - 1) /\ m.cluster_offset + x - g = m.cluster_offset + (x - g)
      BY <1>1
    <2>2. m.cluster_offset + x - g \in Host
      BY <1>1, <2>1
    <2> QED
      BY <2>2, Constants DEF Entries, Host
  <1>8. l2' \in [Guest -> Entries]
    <2>1. \A x \in Guest : l2[x] \in Entries
      BY DEF TypeOK
    <2> HIDE DEF g
    <2> QED
      BY <1>3, <1>7, <2>1
  <1> QED
    BY <1>6, <1>8

\* The clusters that are replaced were mapped, so that they are counted.
LEMMA ReplacedFacts ==
    ASSUME TypeOK, AllocsFit, RefcountSafe, NEW r \in Reqs, Allocating(r),
           NEW h \in Replaced(meta[r])
    PROVE  /\ h \in Host /\ rc[h] \in 1 .. 2
           /\ \E x \in Covered(r) : x \in Mapped(h)
  <1>1. PICK i \in 0 .. (meta[r].nb_clusters - 1) :
              h = l2[meta[r].offset \div CS + i].host /\ h # 0
    BY DEF Replaced
  <1> DEFINE x == meta[r].offset \div CS + i
  <1>2. x \in Guest /\ x \in Covered(r)
    <2>1. meta[r].offset \div CS \in Nat /\ meta[r].nb_clusters \in Nat /\ x \in Guest
      BY AllocationFacts
    <2> QED
      BY <2>1 DEF Covered
  <1> HIDE DEF x
  <1>3. x \in Mapped(h)
    BY <1>1, <1>2 DEF Mapped, x
  <1>4. h \in Host
    <2>1. PICK e \in Entries : e = l2[x]
      BY <1>2 DEF TypeOK
    <2> QED
      BY <1>1, <2>1, Constants DEF Entries, Host, x
  <1> QED
    BY <1>2, <1>3, <1>4, FreeIsUnused

LEMMA FreeOldClustersTypes ==
    ASSUME TypeOK, AllocsFit, RefcountSafe, NEW r \in Reqs, Allocating(r),
           FreeOldClusters(meta[r])
    PROVE  rc' \in [Host -> 0 .. 2] /\ free_cluster_index' \in 1 .. (H + 1)
  <1>1. \A h \in Host : rc[h] \in 0 .. 2
    BY DEF TypeOK
  <1>2. \A h \in Replaced(meta[r]) : h \in Host /\ rc[h] \in 1 .. 2
    BY ReplacedFacts
  <1>3. rc' \in [Host -> 0 .. 2]
    BY <1>1, <1>2 DEF FreeOldClusters
  <1> DEFINE T == {free_cluster_index} \cup {h \in Replaced(meta[r]) : rc[h] = 1}
  <1>4. T \in SUBSET (1 .. (H + 1)) /\ T # {}
    BY <1>2, Constants DEF TypeOK, Host
  <1>5. free_cluster_index' = Min(T)
    BY DEF FreeOldClusters, IndexAfterFree
  <1> HIDE DEF T
  <1>6. T \in SUBSET Nat
    BY <1>4, Constants
  <1>7. \E x \in T : \A y \in T : x <= y
    BY <1>4, <1>6, LeastNatural
  <1>8. Min(T) \in T
    BY <1>7 DEF Min
  <1> QED
    BY <1>3, <1>4, <1>5, <1>8

\* What a completed data write does to the tables, and to the requests.
LEMMA WriteCbTables ==
    ASSUME NEW r \in Reqs, WriteCb(r)
    PROVE  \/ UNCHANGED <<disk, tableVars>>
           \/ /\ Allocating(r) /\ SetL2Entries(meta[r])
              /\ FreeOldClusters(meta[r]) \/ UNCHANGED <<rc, free_cluster_index>>
  BY DEF WriteCb, Allocating, Link, LinkFails

LEMMA WriteCbRequests ==
    ASSUME TypeOK, NEW r \in Reqs, WriteCb(r)
    PROVE  /\ todo' \in Seq(Reqs) /\ todo' = dependents[r] \o <<r>> /\ r \in ToSet(todo')
           /\ ToSet(todo') = ToSet(dependents[r]) \cup {r}
           /\ st' = [q \in Reqs |-> IF q \in ToSet(todo') THEN "run" ELSE st[q]]
           /\ st'[r] = "run"
           /\ \A q \in Reqs : st'[q] # "run" => st'[q] = st[q]
           /\ dependents' = [dependents EXCEPT ![r] = <<>>]
           /\ cluster_allocs' \in Seq(Reqs)
           /\ ToSet(cluster_allocs) \ {r} \subseteq ToSet(cluster_allocs')
           /\ UNCHANGED <<part, meta, snapshot, history>>
  <1>1. RunDependentRequests(r) /\ UNCHANGED <<part, meta, snapshot, history>>
    BY DEF WriteCb
  <1>2. dependents[r] \in Seq(Reqs) /\ cluster_allocs \in Seq(Reqs)
    BY DEF TypeOK
  <1>3. todo' = dependents[r] \o <<r>>
    BY <1>1 DEF RunDependentRequests, RestartDependents
  <1>4. todo' \in Seq(Reqs) /\ ToSet(todo') = ToSet(dependents[r]) \cup {r}
    <2> DEFINE d == dependents[r]
               p == d \o <<r>>
    <2>1. d \in Seq(Reqs) /\ <<r>> \in Seq(Reqs)
      BY <1>2
    <2> HIDE DEF d
    <2>2. p \in Seq(Reqs) /\ Len(p) = Len(d) + 1 /\ Len(d) \in Nat
          /\ \A i \in 1 .. (Len(d) + 1) : p[i] = IF i <= Len(d) THEN d[i] ELSE r
      BY <2>1
    <2> HIDE DEF p
    <2>3. /\ \A x : x \in ToSet(d) <=> \E i \in 1..Len(d) : x = d[i]
          /\ \A x : x \in ToSet(p) <=> \E i \in 1..(Len(d) + 1) : x = p[i]
      BY <2>1, <2>2, ToSetIs
    <2>4. ToSet(p) \subseteq ToSet(d) \cup {r}
      BY <2>2, <2>3
    <2>5. ToSet(d) \subseteq ToSet(p)
      <3>1. \A i \in 1..Len(d) : i \in 1..(Len(d) + 1) /\ p[i] = d[i]
        BY <2>2
      <3> QED
        BY <2>3, <3>1
    <2>6. r \in ToSet(p)
      <3>1. Len(d) + 1 \in 1..(Len(d) + 1) /\ p[Len(d) + 1] = r
        BY <2>2
      <3> QED
        BY <2>3, <3>1
    <2> QED
      BY <1>3, <2>2, <2>4, <2>5, <2>6 DEF d, p
  <1>5. st' = [q \in Reqs |-> IF q \in ToSet(todo') THEN "run" ELSE st[q]]
    BY <1>1 DEF RunDependentRequests
  <1>6. /\ cluster_allocs' \in Seq(Reqs)
        /\ ToSet(cluster_allocs) \ {r} \subseteq ToSet(cluster_allocs')
    <2>1. cluster_allocs' \in {cluster_allocs, RemoveFirst(cluster_allocs, r)}
      BY <1>1 DEF RunDependentRequests, OffTheList
    <2> QED
      BY <1>2, <2>1, RemoveFirstCorrect
  <1>7. dependents' = [dependents EXCEPT ![r] = <<>>]
    BY <1>1 DEF RunDependentRequests
  <1> QED
    BY <1>1, <1>3, <1>4, <1>5, <1>6, <1>7

LEMMA WriteCbTypes ==
    ASSUME TypeOK, PartsFit, AllocsFit, RefcountSafe, NEW r \in Reqs, WriteCb(r)
    PROVE  TypeOK' /\ PartsFit'
  <1>1. /\ todo' \in Seq(Reqs)
        /\ st' = [q \in Reqs |-> IF q \in ToSet(todo') THEN "run" ELSE st[q]]
        /\ dependents' = [dependents EXCEPT ![r] = <<>>]
        /\ cluster_allocs' \in Seq(Reqs)
        /\ UNCHANGED <<part, meta, snapshot, history>>
    BY WriteCbRequests
  <1>2. todo' \in Seq(Reqs \cup {NoReq})
    BY <1>1
  <1>3. st' \in [Reqs -> States]
    BY <1>1, Types DEF RequestTypes, States
  <1>4. dependents' \in [Reqs -> Seq(Reqs)]
    <2>1. <<>> \in Seq(Reqs)
      BY EmptySeq
    <2> QED
      BY <1>1, <2>1, Types DEF RequestTypes
  <1>5. failed' \in [Reqs -> BOOLEAN]
    <2>1. failed' = failed \/ failed' = [failed EXCEPT ![r] = TRUE]
      BY DEF WriteCb
    <2>2. failed \in [Reqs -> BOOLEAN]
      BY DEF TypeOK
    <2> QED
      BY <2>1, <2>2
  <1>6. /\ disk' \in [Host -> [Offsets -> Contents]] /\ l2' \in [Guest -> Entries]
        /\ rc' \in [Host -> 0 .. 2] /\ free_cluster_index' \in 1 .. (H + 1)
    <2>1. CASE UNCHANGED <<disk, tableVars>>
      BY <2>1 DEF TypeOK, tableVars
    <2>2. CASE /\ Allocating(r) /\ SetL2Entries(meta[r])
               /\ FreeOldClusters(meta[r]) \/ UNCHANGED <<rc, free_cluster_index>>
      <3>1. CASE FreeOldClusters(meta[r])
        BY <2>2, <3>1, SetL2EntriesTypes, FreeOldClustersTypes
      <3>2. CASE UNCHANGED <<rc, free_cluster_index>>
        <4>1. rc' \in [Host -> 0 .. 2] /\ free_cluster_index' \in 1 .. (H + 1)
          BY <3>2 DEF TypeOK
        <4> QED
          BY <2>2, <4>1, SetL2EntriesTypes
      <3> QED
        BY <2>2, <3>1, <3>2
    <2> QED
      BY <2>1, <2>2, WriteCbTables
  <1>7. TableTypes'
    BY <1>1, <1>6 DEF TableTypes, Guest, Entries, Host
  <1>8. RequestTypes'
    BY <1>1, <1>2, <1>3, <1>4, <1>5, Types DEF RequestTypes, Parts, States, Metas, GuestSectors, Offsets
  <1>9. ContentTypes'
    BY <1>1, <1>6, Types DEF ContentTypes, history, Host, Offsets, Contents, GuestSectors, Garbage
  <1>10. PartsFit'
    BY <1>1 DEF PartsFit
  <1> QED
    BY <1>7, <1>8, <1>9, <1>10, TypesNext

-----------------------------------------------------------------------------
(* Steps that start no allocation and link none.                           *)

\* Requests that allocate after the step did so before.
NoNewAllocation ==
    \A r \in Reqs : Allocating(r)' =>
        Allocating(r) /\ meta'[r] = meta[r] /\ r \in ToSet(cluster_allocs')

\* The properties of QcowInv that are about the tables and the allocations.
TableInv == AllocsFit /\ CopiedMapped /\ Listed /\ AllocationsDisjoint /\ RefcountSafe

LEMMA TableInvKept ==
    ASSUME TypeOK, TableInv, TypeOK', NoNewAllocation, UNCHANGED <<l2, snapshot>>,
           \A h \in Host : rc[h] <= rc'[h]
    PROVE  TableInv'
  <1>1. AllocsFit'
    BY DEF TableInv, NoNewAllocation, AllocsFit, NewClusters, Host
  <1>2. CopiedMapped' /\ Listed'
    BY DEF TableInv, NoNewAllocation, CopiedMapped, Listed, Guest
  <1>3. AllocationsDisjoint'
    <2>1. \A r \in Reqs : meta'[r] = meta[r] => Covered(r)' = Covered(r)
      BY DEF Covered
    <2> QED
      BY <2>1 DEF TableInv, NoNewAllocation, AllocationsDisjoint
  <1>4. RefcountSafe'
    <2>1. SUFFICES ASSUME NEW h \in Host
                   PROVE  Users(h)' <= rc'[h]
      BY DEF RefcountSafe, Host
    <2>2. Mapped(h)' = Mapped(h) /\ ({h} \cap snapshot)' = {h} \cap snapshot
      BY DEF Mapped, Guest
    <2>3. Takers(h)' \subseteq Takers(h)
      BY DEF Takers, NoNewAllocation, NewClusters
    <2>4. /\ Users(h) = Cardinality(Mapped(h)) + Cardinality(Takers(h))
                            + Cardinality({h} \cap snapshot)
          /\ Cardinality(Mapped(h)) \in Nat
          /\ IsFiniteSet(Takers(h)) /\ Cardinality(Takers(h)) \in Nat
          /\ Cardinality({h} \cap snapshot) \in {0, 1}
      BY UsersIs
    <2>5. Users(h)' = Cardinality(Mapped(h)') + Cardinality(Takers(h)')
                          + Cardinality({h} \cap snapshot')
      BY DEF Users, Mapped, Takers
    <2>6. Cardinality(Takers(h)') \in Nat /\ Cardinality(Takers(h)') <= Cardinality(Takers(h))
      BY <2>3, <2>4, FS_Subset, FS_CardinalityType
    <2>7. Users(h) <= rc[h] /\ rc[h] \in 0 .. 2 /\ rc'[h] \in 0 .. 2 /\ rc[h] <= rc'[h]
      BY DEF TableInv, RefcountSafe, TypeOK, Host
    <2> QED
      BY <2>2, <2>4, <2>5, <2>6, <2>7
  <1> QED
    BY <1>1, <1>2, <1>3, <1>4 DEF TableInv

LEMMA SnapshotApartKept ==
    ASSUME NoNewAllocation, UNCHANGED <<l2, snapshot>>, SnapshotApart,
           \A r \in Reqs : st'[r] = "hd" =>
               st[r] = "hd" /\ meta'[r] = meta[r] /\ part'[r] = part[r]
    PROVE  SnapshotApart'
  <1>1. \A g \in Guest : l2'[g].copied => l2'[g].host \notin snapshot'
    BY DEF SnapshotApart
  <1>2. \A r \in Reqs : Allocating(r)' => NewClusters(meta'[r]) \cap snapshot' = {}
    BY DEF SnapshotApart, NoNewAllocation
  <1>3. \A r \in Reqs : st'[r] = "hd" => Touched(r)' \cap snapshot' = {}
    <2>1. \A r \in Reqs : meta'[r] = meta[r] /\ part'[r] = part[r] => Touched(r)' = Touched(r)
      BY DEF Touched, Host, Offsets
    <2> QED
      BY <2>1 DEF SnapshotApart
  <1> QED
    BY <1>1, <1>2, <1>3 DEF SnapshotApart, Guest, NewClusters

LEMMA QuietSteps ==
    ASSUME QcowInv, TypeOK', NoNewAllocation, UNCHANGED <<l2, snapshot>>,
           \A h \in Host : rc[h] <= rc'[h],
           \A r \in Reqs : st'[r] = "hd" =>
               st[r] = "hd" /\ meta'[r] = meta[r] /\ part'[r] = part[r]
    PROVE  TableInv' /\ SnapshotApart'
  BY TableInvKept, SnapshotApartKept DEF QcowInv, TableInv

LEMMA SameRefcounts ==
    ASSUME TypeOK, UNCHANGED rc
    PROVE  \A h \in Host : rc[h] <= rc'[h]
  <1>1. \A h \in Host : rc[h] \in 0 .. 2
    BY DEF TypeOK
  <1> QED
    BY <1>1

\* A request that is not, or no longer, writing.
LEMMA AioWritevInv ==
    ASSUME QcowInv, TypeOK', NEW r \in Reqs, NEW s \in GuestSectors,
           NEW k \in 1 .. MaxSectors, AioWritev(r, s, k)
    PROVE  TableInv' /\ SnapshotApart'
  <1>1. UNCHANGED <<l2, rc, snapshot, meta, cluster_allocs>>
    BY DEF AioWritev, tableVars
  <1>2. \A q \in Reqs : st'[q] = "run" \/ (st'[q] = st[q] /\ part'[q] = part[q])
    BY DEF AioWritev, QcowInv, TypeOK
  <1>3. NoNewAllocation
    BY <1>1, <1>2 DEF NoNewAllocation, Allocating, QcowInv, Listed
  <1>4. \A h \in Host : rc[h] <= rc'[h]
    BY <1>1, SameRefcounts DEF QcowInv
  <1> QED
    BY <1>1, <1>2, <1>3, <1>4, QuietSteps

LEMMA DoneInv ==
    ASSUME QcowInv, TypeOK', NEW ok, Done(ok), Running \in Reqs, UNCHANGED <<l2, snapshot>>,
           \A h \in Host : rc[h] <= rc'[h],
           \A q \in Reqs : q # Running => meta'[q] = meta[q],
           ToSet(cluster_allocs) \subseteq ToSet(cluster_allocs')
    PROVE  TableInv' /\ SnapshotApart'
  <1>1. /\ \A q \in Reqs : q # Running => st'[q] = st[q] /\ part'[q] = part[q]
        /\ st'[Running] = "done"
    BY DEF Done, QcowInv, TypeOK
  <1>2. NoNewAllocation
    BY <1>1 DEF NoNewAllocation, Allocating, QcowInv, Listed
  <1> QED
    BY <1>1, <1>2, QuietSteps

LEMMA FinishInv ==
    ASSUME QcowInv, TypeOK', Finish
    PROVE  TableInv' /\ SnapshotApart'
  <1>1. Running \in Reqs
    BY RunningRequest DEF Finish, QcowInv
  <1>2. UNCHANGED <<l2, rc, snapshot, meta, cluster_allocs>>
    BY DEF Finish, Done, tableVars
  <1>3. \A h \in Host : rc[h] <= rc'[h]
    BY <1>2, SameRefcounts DEF QcowInv
  <1>4. \A q \in Reqs : q # Running => meta'[q] = meta[q]
    BY <1>2
  <1>5. ToSet(cluster_allocs) \subseteq ToSet(cluster_allocs')
    BY <1>2
  <1>6. Done(~failed[Running])
    BY Zenon DEF Finish
  <1> HIDE DEF Done
  <1>7. UNCHANGED <<l2, snapshot>>
    BY <1>2
  <1> QED
    BY <1>1, <1>3, <1>4, <1>5, <1>6, <1>7, DoneInv, Zenon

LEMMA CallbackReturnsInv ==
    ASSUME QcowInv, TypeOK', CallbackReturns
    PROVE  TableInv' /\ SnapshotApart'
  <1>1. UNCHANGED <<l2, rc, snapshot, meta, cluster_allocs, st, part>>
    BY DEF CallbackReturns, tableVars, reqVars
  <1>2. NoNewAllocation
    BY <1>1 DEF NoNewAllocation, Allocating, QcowInv, Listed
  <1>3. \A h \in Host : rc[h] <= rc'[h]
    BY <1>1, SameRefcounts DEF QcowInv
  <1> QED
    BY <1>1, <1>2, <1>3, QuietSteps

LEMMA WaitForAllocationInv ==
    ASSUME QcowInv, TypeOK', WaitForAllocation
    PROVE  TableInv' /\ SnapshotApart'
  <1>1. UNCHANGED <<l2, rc, snapshot, cluster_allocs>>
    BY DEF WaitForAllocation, tableVars
  <1>2. Running \in Reqs
    BY RunningRequest DEF WaitForAllocation, More, QcowInv
  <1>3. /\ \A q \in Reqs : q # Running => st'[q] = st[q] /\ part'[q] = part[q] /\ meta'[q] = meta[q]
        /\ st'[Running] = "wait"
    BY <1>2 DEF WaitForAllocation, Part, QcowInv, TypeOK
  <1>4. NoNewAllocation
    BY <1>1, <1>3 DEF NoNewAllocation, Allocating, QcowInv, Listed
  <1>5. \A h \in Host : rc[h] <= rc'[h]
    BY <1>1, SameRefcounts DEF QcowInv
  <1> QED
    BY <1>1, <1>3, <1>4, <1>5, QuietSteps

LEMMA AllocFailsInv ==
    ASSUME QcowInv, TypeOK', AllocFails
    PROVE  TableInv' /\ SnapshotApart'
  <1>1. UNCHANGED <<l2, snapshot, meta>> /\ Done(FALSE) /\ More
    BY DEF AllocFails, Done
  <1>2. Running \in Reqs
    BY <1>1, RunningRequest DEF More, QcowInv
  <1>3. \A h \in Host : rc[h] <= rc'[h]
    BY AllocFailsTypes DEF QcowInv
  <1>4. ToSet(cluster_allocs) \subseteq ToSet(cluster_allocs')
    BY <1>2, ToSetCons DEF AllocFails, QcowInv, TypeOK
  <1>5. \A q \in Reqs : q # Running => meta'[q] = meta[q]
    BY <1>1
  <1> QED
    BY <1>1, <1>2, <1>3, <1>4, <1>5, DoneInv

LEMMA SubmitFailsInv ==
    ASSUME QcowInv, TypeOK', SubmitFails
    PROVE  TableInv' /\ SnapshotApart'
  <1>1. Done(TRUE) /\ More /\ (UseOwned \/ AllocateNew)
    BY DEF SubmitFails
  <1>2. UNCHANGED <<l2, snapshot>>
    BY <1>1 DEF Done, UseOwned, AllocateNew, tableVars
  <1>3. Running \in Reqs
    BY <1>1, RunningRequest DEF More, QcowInv
  <1>4. \A h \in Host : rc[h] <= rc'[h]
    BY SubmitFailsTypes DEF QcowInv
  <1>5. /\ ToSet(cluster_allocs) \subseteq ToSet(cluster_allocs')
        /\ \A q \in Reqs : q # Running => meta'[q] = meta[q]
    <2>1. CASE UseOwned
      <3>1. cluster_allocs' = cluster_allocs
        BY <2>1 DEF UseOwned
      <3> QED
        BY <1>1, <2>1, <3>1, UseOwnedTypes DEF QcowInv
    <2>2. CASE AllocateNew
      BY <1>1, <2>2, AllocateNewTypes DEF QcowInv
    <2> QED
      BY <1>1, <2>1, <2>2
  <1> QED
    BY <1>1, <1>2, <1>3, <1>4, <1>5, DoneInv

LEMMA HdInv ==
    ASSUME QcowInv, TypeOK', NEW r \in Reqs, HdWrite(r) \/ HdFail(r)
    PROVE  TableInv' /\ SnapshotApart'
  <1>1. UNCHANGED <<l2, rc, snapshot, meta, cluster_allocs, part>>
    BY DEF HdWrite, HdFail, tableVars
  <1>2. /\ \A q \in Reqs : q # r => st'[q] = st[q]
        /\ st'[r] \in {"written", "broken"} /\ st[r] = "hd"
    BY DEF HdWrite, HdFail, QcowInv, TypeOK
  <1>3. NoNewAllocation
    BY <1>1, <1>2 DEF NoNewAllocation, Allocating, QcowInv, Listed
  <1>4. \A h \in Host : rc[h] <= rc'[h]
    BY <1>1, SameRefcounts DEF QcowInv
  <1> QED
    BY <1>1, <1>2, <1>3, <1>4, QuietSteps

LEMMA AioCancelInv ==
    ASSUME QcowInv, TypeOK', NEW r \in Reqs, AioCancel(r)
    PROVE  TableInv' /\ SnapshotApart'
  <1>1. UNCHANGED <<l2, rc, snapshot, meta, cluster_allocs, part>>
    BY DEF AioCancel, tableVars
  <1>2. (\A q \in Reqs : q # r => st'[q] = st[q]) /\ st'[r] = "done"
    BY DEF AioCancel, QcowInv, TypeOK
  <1>3. NoNewAllocation
    BY <1>1, <1>2 DEF NoNewAllocation, Allocating, QcowInv, Listed
  <1>4. \A h \in Host : rc[h] <= rc'[h]
    BY <1>1, SameRefcounts DEF QcowInv
  <1> QED
    BY <1>1, <1>2, <1>3, <1>4, QuietSteps

-----------------------------------------------------------------------------
(* Steps that submit data.                                                 *)

\* Sectors i .. i + n - 1 counted from cluster h0 lie in nb clusters from h0 on.
LEMMA SectorsInClusters ==
    ASSUME NEW d \in Int, NEW o \in Offsets, NEW nb \in Nat, NEW e \in Nat, e <= nb * CS,
           d * CS + o >= 0, d * CS + o < e
    PROVE  d \in 0 .. (nb - 1)
  <1>1. o \in Nat /\ o < CS /\ CS \in Nat \ {0}
    BY Constants DEF Offsets
  <1>2. d >= 0
    <2>1. SUFFICES ASSUME d <= -1
                   PROVE  FALSE
      OBVIOUS
    <2>2. d * CS <= (-1) * CS
      BY <1>1, <2>1
    <2> QED
      BY <1>1, <2>2
  <1>3. d < nb
    <2>1. SUFFICES ASSUME nb <= d
                   PROVE  FALSE
      OBVIOUS
    <2>2. nb * CS <= d * CS
      BY <1>1, <1>2, <2>1, TimesMonotonic
    <2> QED
      BY <1>1, <2>2
  <1> QED
    BY <1>2, <1>3

LEMMA SubmitDataFacts ==
    ASSUME TypeOK, PartsFit, More, NEW nb \in Nat \ {0}, SubmitData(nb), TypeOK',
           NEW R, R = Running
    PROVE  /\ \A q \in Reqs : q # Running => st'[q] = st[q] /\ part'[q] = part[q]
           /\ st'[Running] = "hd" /\ Running \in Reqs
           /\ part'[Running] = [sector_num |-> Position.sector_num,
                                nb_sectors |-> Position.nb_sectors,
                                n |-> Available(nb) - Index]
           /\ \A h \in Touched(R)' :
                 h \in Host /\ h - meta'[R].cluster_offset \in 0 .. (nb - 1)
  <1>1. Running \in Reqs /\ Index \in Offsets /\ Index = Position.sector_num % CS
    BY PositionFacts DEF Index
  <1>2. /\ \A q \in Reqs : q # Running => st'[q] = st[q] /\ part'[q] = part[q]
        /\ st'[Running] = "hd"
        /\ part'[Running] = [sector_num |-> Position.sector_num,
                                nb_sectors |-> Position.nb_sectors,
                                n |-> Available(nb) - Index]
    BY <1>1 DEF SubmitData, Part, TypeOK
  <1>3. Available(nb) \in Nat /\ Available(nb) <= nb * CS
    BY AvailableCorrect, Constants
  <1>4. ASSUME NEW h \in Touched(R)'
        PROVE  h \in Host /\ h - meta'[R].cluster_offset \in 0 .. (nb - 1)
    <2> DEFINE h0 == meta'[R].cluster_offset
    <2>1. h0 \in Int
      <3>1. meta'[Running] \in Metas
        BY <1>1 DEF TypeOK, Metas, GuestSectors, Offsets
      <3> QED
        BY <3>1 DEF Metas
    <2>2. h \in Host /\ \E o \in Offsets : (h - h0) * CS + o \in Index .. (Index + (Available(nb) - Index) - 1)
      <3>1. /\ part'[Running].sector_num = Position.sector_num
            /\ part'[Running].n = Available(nb) - Index
        BY <1>2
      <3>3. Touched(R)' =
             {x \in Host : \E o \in Offsets :
                (x - h0) * CS + o \in (part'[R].sector_num % CS) ..
                   ((part'[R].sector_num % CS) + part'[R].n - 1)}
        BY DEF Touched, Host, Offsets
      <3> HIDE DEF h0
      <3> QED
        BY <1>1, <3>1, <3>3
    <2>3. PICK o \in Offsets : (h - h0) * CS + o \in Index .. (Index + (Available(nb) - Index) - 1)
      BY <2>2
    <2>4. h - h0 \in Int /\ Index \in Nat
      BY <1>1, <2>1, <2>2, Constants DEF Host, Offsets
    <2>5. (h - h0) * CS + o >= 0 /\ (h - h0) * CS + o < Available(nb)
      BY <1>3, <2>3, <2>4, Constants DEF Offsets
    <2> HIDE DEF h0
    <2>6. h - h0 \in 0 .. (nb - 1)
      BY <1>3, <2>4, <2>5, SectorsInClusters
    <2> QED
      BY <2>2, <2>6 DEF h0
  <1> QED
    BY <1>1, <1>2, <1>4

LEMMA WriteInPlaceInv ==
    ASSUME QcowInv, TypeOK', WriteInPlace
    PROVE  TableInv' /\ SnapshotApart'
  <1>1. More /\ UseOwned /\ SubmitData(OwnedClusters) /\ l2[First].copied
    BY DEF WriteInPlace, UseOwned
  <1>2. UNCHANGED <<l2, rc, snapshot, cluster_allocs>>
    BY DEF WriteInPlace, UseOwned, tableVars
  <1>3. /\ OwnedClusters \in Nat \ {0}
        /\ \A i \in 0 .. (OwnedClusters - 1) : First + i \in Guest /\ InPlace(First, i)
    BY <1>1, OwnedCorrect, PositionFacts DEF QcowInv
  <1> PICK R : R = Running
    OBVIOUS
  <1>4. /\ \A q \in Reqs : q # Running => st'[q] = st[q] /\ part'[q] = part[q]
        /\ st'[Running] = "hd" /\ Running \in Reqs
        /\ \A h \in Touched(R)' :
                 h \in Host /\ h - meta'[R].cluster_offset \in 0 .. (OwnedClusters - 1)
    BY <1>1, <1>3, SubmitDataFacts DEF QcowInv
  <1>5. /\ \A q \in Reqs : q # Running => meta'[q] = meta[q]
        /\ meta'[Running].nb_clusters = 0
        /\ meta'[Running].cluster_offset = l2[First].host
    BY <1>1, UseOwnedTypes DEF QcowInv
  <1>6. NoNewAllocation
    BY <1>2, <1>4, <1>5 DEF NoNewAllocation, Allocating, QcowInv, Listed
  <1>7. \A h \in Host : rc[h] <= rc'[h]
    BY <1>2, SameRefcounts DEF QcowInv
  <1>8. TableInv'
    BY <1>2, <1>6, <1>7, TableInvKept DEF QcowInv, TableInv
  <1>9. Touched(R)' \cap snapshot' = {}
    <2>1. SUFFICES ASSUME NEW h \in Touched(R)'
                   PROVE  h \notin snapshot'
      OBVIOUS
    <2>2. h \in Host /\ h - l2[First].host \in 0 .. (OwnedClusters - 1)
      BY <1>4, <1>5
    <2> DEFINE i == h - l2[First].host
    <2>3. First + i \in Guest /\ InPlace(First, i) /\ i \in 0 .. (OwnedClusters - 1)
      BY <1>3, <2>2
    <2>4. l2[First].host \in Int
      <3>1. First \in Guest
        BY <1>1, PositionFacts DEF QcowInv
      <3>2. l2[First] \in Entries
        BY <3>1 DEF QcowInv, TypeOK
      <3> QED
        BY <3>2 DEF Entries
    <2>5. l2[First].host + i = h
      BY <2>2, <2>4 DEF Host
    <2> HIDE DEF i
    <2>6. l2[First + i].copied /\ l2[First + i].host = h
      BY <2>3, <2>5 DEF InPlace
    <2>7. h \notin snapshot
      BY <2>3, <2>6 DEF QcowInv, SnapshotApart
    <2> QED
      BY <1>2, <2>7
  <1>10. \A r \in Reqs : st'[r] = "hd" => Touched(r)' \cap snapshot' = {}
    <2>1. \A r \in Reqs : meta'[r] = meta[r] /\ part'[r] = part[r] => Touched(r)' = Touched(r)
      BY DEF Touched, Host, Offsets
    <2>2. \A r \in Reqs : r # Running /\ st'[r] = "hd" =>
             Touched(r)' = Touched(r) /\ Touched(r) \cap snapshot = {}
      BY <1>4, <1>5, <2>1 DEF QcowInv, SnapshotApart
    <2> QED
      BY <1>2, <1>9, <2>2
  <1>11. \A g \in Guest : l2'[g].copied => l2'[g].host \notin snapshot'
    BY <1>2 DEF QcowInv, SnapshotApart
  <1>12. \A r \in Reqs : Allocating(r)' => NewClusters(meta'[r]) \cap snapshot' = {}
    BY <1>2, <1>6 DEF QcowInv, SnapshotApart, NoNewAllocation
  <1> QED
    BY <1>8, <1>10, <1>11, <1>12 DEF SnapshotApart, Guest, NewClusters

LEMMA SmallerSets ==
    ASSUME NEW S, IsFiniteSet(S), NEW T
    PROVE  /\ Cardinality(S) \in Nat
           /\ T \subseteq S => Cardinality(T) \in Nat /\ Cardinality(T) <= Cardinality(S)
           /\ \A x \in S : T \subseteq S \ {x} =>
                 Cardinality(T) \in Nat /\ Cardinality(T) <= Cardinality(S) - 1
           /\ \A y : T \subseteq S \cup {y} =>
                 Cardinality(T) \in Nat /\ Cardinality(T) <= Cardinality(S) + 1
           /\ \A y : \A x \in S : T \subseteq (S \ {x}) \cup {y} =>
                 Cardinality(T) \in Nat /\ Cardinality(T) <= Cardinality(S)
  <1>1. Cardinality(S) \in Nat
    BY FS_CardinalityType
  <1>2. \A U : IsFiniteSet(U) /\ T \subseteq U =>
           Cardinality(T) \in Nat /\ Cardinality(U) \in Nat /\ Cardinality(T) <= Cardinality(U)
    BY FS_Subset, FS_CardinalityType
  <1>3. ASSUME NEW x \in S
        PROVE  IsFiniteSet(S \ {x}) /\ Cardinality(S \ {x}) = Cardinality(S) - 1
    BY FS_RemoveElement
  <1>4. ASSUME NEW U, IsFiniteSet(U), NEW y
        PROVE  /\ IsFiniteSet(U \cup {y}) /\ Cardinality(U) \in Nat
               /\ Cardinality(U \cup {y}) <= Cardinality(U) + 1
    <2>1. /\ IsFiniteSet(U \cup {y}) /\ Cardinality(U) \in Nat
          /\ (y \in U => Cardinality(U \cup {y}) = Cardinality(U))
          /\ (y \notin U => Cardinality(U \cup {y}) = Cardinality(U) + 1)
      BY <1>4, FS_AddElement, FS_CardinalityType
    <2> QED
      BY <2>1
  <1>5. T \subseteq S => Cardinality(T) \in Nat /\ Cardinality(T) <= Cardinality(S)
    BY <1>2
  <1>6. ASSUME NEW x \in S, T \subseteq S \ {x}
        PROVE  Cardinality(T) \in Nat /\ Cardinality(T) <= Cardinality(S) - 1
    BY <1>2, <1>3, <1>6
  <1>7. ASSUME NEW y, T \subseteq S \cup {y}
        PROVE  Cardinality(T) \in Nat /\ Cardinality(T) <= Cardinality(S) + 1
    <2>1. IsFiniteSet(S \cup {y}) /\ Cardinality(S \cup {y}) <= Cardinality(S) + 1
      BY <1>4
    <2>2. Cardinality(T) \in Nat /\ Cardinality(S \cup {y}) \in Nat /\ Cardinality(T) <= Cardinality(S \cup {y})
      BY <1>2, <1>7, <2>1
    <2> QED
      BY <1>1, <2>1, <2>2
  <1>8. ASSUME NEW y, NEW x \in S, T \subseteq (S \ {x}) \cup {y}
        PROVE  Cardinality(T) \in Nat /\ Cardinality(T) <= Cardinality(S)
    <2> DEFINE U == S \ {x}
    <2>1. IsFiniteSet(U) /\ Cardinality(U) = Cardinality(S) - 1
      BY <1>3
    <2>2. T \subseteq U \cup {y}
      BY <1>8
    <2> HIDE DEF U
    <2>3. IsFiniteSet(U \cup {y}) /\ Cardinality(U) \in Nat /\ Cardinality(U \cup {y}) <= Cardinality(U) + 1
      BY <1>4, <2>1
    <2>4. Cardinality(T) \in Nat /\ Cardinality(U \cup {y}) \in Nat /\ Cardinality(T) <= Cardinality(U \cup {y})
      BY <1>2, <2>2, <2>3
    <2> QED
      BY <1>1, <2>1, <2>3, <2>4
  <1> QED
    BY <1>1, <1>5, <1>6, <1>7, <1>8

LEMMA UsersNext ==
    ASSUME NEW h
    PROVE  Users(h)' = Cardinality(Mapped(h)') + Cardinality(Takers(h)')
                          + Cardinality({h} \cap snapshot')
  BY DEF Users, Mapped, Takers

LEMMA WriteAllocatingInv ==
    ASSUME QcowInv, TypeOK', WriteAllocating
    PROVE  TableInv' /\ SnapshotApart'
  <1>1. /\ TypeOK /\ PartsFit /\ CopiedMapped /\ Listed /\ AllocsFit /\ AllocationsDisjoint
        /\ RefcountSafe /\ SnapshotApart
    BY DEF QcowInv
  <1>2. /\ More /\ AllocateNew /\ SubmitData(Room.nb) /\ ~l2[First].copied /\ Room.dep = NoReq
        /\ UNCHANGED <<l2, snapshot>>
    BY DEF WriteAllocating, AllocateNew
  <1>3. /\ Room.nb \in Nat \ {0} /\ First + Room.nb <= G
        /\ \A r \in Reqs : Allocating(r) => Clear(Position.sector_num, Room.nb, r)
    BY <1>1, <1>2, RoomCorrect
  <1>4. First = Position.sector_num \div CS /\ First \in Nat
    BY <1>1, <1>2, PositionFacts DEF First, Guest
  <1>5. PICK R : R = Running
    OBVIOUS
  <1>6. PICK nb : nb = Room.nb
    OBVIOUS
  <1>7. PICK f : f = First
    OBVIOUS
  <1>8. /\ \A q \in Reqs : q # R => st'[q] = st[q] /\ part'[q] = part[q]
        /\ st'[R] = "hd" /\ R \in Reqs
        /\ \A h \in Touched(R)' : h \in Host /\ h - meta'[R].cluster_offset \in 0 .. (nb - 1)
    BY <1>1, <1>2, <1>3, <1>5, <1>6, SubmitDataFacts
  <1>9. /\ \A q \in Reqs : q # R => meta'[q] = meta[q]
        /\ ToSet(cluster_allocs') = ToSet(cluster_allocs) \cup {R}
    BY <1>1, <1>2, <1>5, AllocateNewTypes
  <1>10. PICK h0 \in Host : /\ AllocClusters(h0, nb) /\ meta'[R].cluster_offset = h0
                            /\ meta'[R].nb_clusters = nb
                            /\ meta'[R].offset = Position.sector_num
    BY <1>1, <1>2, <1>5, <1>6, AllocateNewTypes
  <1>11. /\ nb \in Nat \ {0} /\ f \in Nat /\ f + nb <= G
         /\ meta'[R].offset \div CS = f
    BY <1>3, <1>4, <1>6, <1>7, <1>10
  <1> DEFINE New == h0 .. (h0 + nb - 1)
  <1>12. New \subseteq Host /\ (\A x \in New : rc[x] = 0 /\ rc'[x] = 1) /\ \A x \in Host : rc[x] <= rc'[x]
    BY <1>1, <1>10, <1>11, AllocClustersTypes
  <1>13. NewClusters(meta'[R]) = New
    BY <1>10 DEF NewClusters
  <1>14. ASSUME NEW q \in Reqs, Allocating(q)', q # R
         PROVE  Allocating(q) /\ meta'[q] = meta[q]
    BY <1>8, <1>9, <1>14 DEF Allocating
  <1> HIDE DEF New
  <1>15. AllocsFit'
    <2>1. ASSUME NEW q \in Reqs, Allocating(q)'
          PROVE  meta'[q].offset \div CS + meta'[q].nb_clusters <= G /\ NewClusters(meta'[q]) \subseteq Host
      <3>1. CASE q = R
        BY <1>10, <1>11, <1>12, <1>13, <3>1
      <3>2. CASE q # R
        BY <1>1, <1>14, <2>1, <3>2 DEF AllocsFit
      <3> QED
        BY <3>1, <3>2
    <2> QED
      BY <2>1 DEF AllocsFit, Host, NewClusters
  <1>16. CopiedMapped' /\ Listed'
    BY <1>1, <1>2, <1>9, <1>14 DEF CopiedMapped, Listed, Guest
  <1>17. ASSUME NEW q \in Reqs, q # R, Allocating(q)'
         PROVE  Covered(R)' \cap Covered(q)' = {}
    <2>1. Allocating(q) /\ meta'[q] = meta[q]
      BY <1>14, <1>17
    <2>2. Clear(Position.sector_num, Room.nb, q)
      BY <1>3, <2>1
    <2>3. PICK b \in Nat : b = meta[q].offset \div CS
      BY <1>1, <2>1, AllocationFacts
    <2>4. PICK c \in Nat : c = meta[q].nb_clusters
      BY <1>1, <2>1, AllocationFacts
    <2>5. f + nb <= b \/ b + c <= f
      BY <1>4, <1>6, <1>7, <2>2, <2>3, <2>4 DEF Clear
    <2>6. Covered(R)' = f .. (f + nb - 1) /\ Covered(q)' = b .. (b + c - 1)
      BY <1>10, <1>11, <2>1, <2>3, <2>4 DEF Covered
    <2> QED
      BY <1>11, <2>5, <2>6
  <1>18. AllocationsDisjoint'
    <2>1. ASSUME NEW q \in Reqs, NEW p \in Reqs, p # q, Allocating(p)', Allocating(q)'
          PROVE  Covered(p)' \cap Covered(q)' = {}
      <3>1. CASE p = R
        BY <1>17, <2>1, <3>1
      <3>2. CASE q = R
        BY <1>17, <2>1, <3>2
      <3>3. CASE p # R /\ q # R
        <4>1. Covered(p)' = Covered(p) /\ Covered(q)' = Covered(q)
          BY <1>14, <2>1, <3>3 DEF Covered
        <4> QED
          BY <1>1, <1>14, <2>1, <3>3, <4>1 DEF AllocationsDisjoint
      <3> QED
        BY <3>1, <3>2, <3>3
    <2> QED
      BY <2>1 DEF AllocationsDisjoint
  <1>19. RefcountSafe'
    <2>1. SUFFICES ASSUME NEW x \in Host
                   PROVE  Users(x)' <= rc'[x]
      BY DEF RefcountSafe, Host
    <2>2. Mapped(x)' = Mapped(x) /\ snapshot' = snapshot
      BY <1>2 DEF Mapped, Guest
    <2>3. Users(x)' = Cardinality(Mapped(x)') + Cardinality(Takers(x)') + Cardinality({x} \cap snapshot')
      BY UsersNext
    <2>4. CASE x \in New
      <3>1. Mapped(x) = {} /\ Takers(x) = {} /\ x \notin snapshot
        BY <1>1, <1>12, <2>4, FreeIsUnused
      <3>2. Takers(x)' \subseteq {R}
        BY <1>14, <3>1 DEF Takers
      <3>3. Cardinality(Takers(x)') \in Nat /\ Cardinality(Takers(x)') <= 1
        <4>1. IsFiniteSet({R}) /\ Cardinality({R}) = 1
          BY FS_Singleton
        <4>2. Cardinality(Takers(x)') \in Nat /\ Cardinality(Takers(x)') <= Cardinality({R})
          BY <3>2, <4>1, SmallerSets
        <4> QED
          BY <4>1, <4>2
      <3>4. Cardinality(Mapped(x)') = 0 /\ Cardinality({x} \cap snapshot') = 0
        BY <2>2, <3>1, FS_EmptySet
      <3> QED
        BY <1>12, <2>3, <2>4, <3>3, <3>4
    <2>5. CASE x \notin New
      <3>1. Takers(x)' \subseteq Takers(x)
        BY <1>13, <1>14, <2>5 DEF Takers
      <3>2. /\ Users(x) = Cardinality(Mapped(x)) + Cardinality(Takers(x))
                            + Cardinality({x} \cap snapshot)
            /\ Cardinality(Mapped(x)) \in Nat
            /\ IsFiniteSet(Takers(x)) /\ Cardinality(Takers(x)) \in Nat
            /\ Cardinality({x} \cap snapshot) \in {0, 1}
        BY UsersIs
      <3>3. Cardinality(Takers(x)') \in Nat /\ Cardinality(Takers(x)') <= Cardinality(Takers(x))
        BY <3>1, <3>2, SmallerSets
      <3>4. Users(x) <= rc[x] /\ rc[x] \in 0 .. 2 /\ rc'[x] \in 0 .. 2 /\ rc[x] <= rc'[x]
        BY <1>1, <1>12 DEF RefcountSafe, TypeOK, Host
      <3> QED
        BY <2>2, <2>3, <3>2, <3>3, <3>4
    <2> QED
      BY <2>4, <2>5
  <1>20. New \cap snapshot = {}
    BY <1>1, <1>12, FreeIsUnused
  <1>21. \A g \in Guest : l2'[g].copied => l2'[g].host \notin snapshot'
    BY <1>1, <1>2 DEF SnapshotApart
  <1>22. \A r \in Reqs : Allocating(r)' => NewClusters(meta'[r]) \cap snapshot' = {}
    BY <1>1, <1>2, <1>13, <1>14, <1>20 DEF SnapshotApart
  <1>23. Touched(R)' \subseteq New
    <2>1. ASSUME NEW h \in Touched(R)'
          PROVE  h \in New
      <3>1. h \in Host /\ h - h0 \in 0 .. (nb - 1)
        BY <1>8, <1>10
      <3> QED
        BY <1>11, <3>1 DEF New, Host
    <2> QED
      BY <2>1
  <1>24. \A r \in Reqs : st'[r] = "hd" => Touched(r)' \cap snapshot' = {}
    <2>1. \A r \in Reqs : meta'[r] = meta[r] /\ part'[r] = part[r] => Touched(r)' = Touched(r)
      BY DEF Touched, Host, Offsets
    <2>2. \A r \in Reqs : r # R /\ st'[r] = "hd" =>
             Touched(r)' = Touched(r) /\ Touched(r) \cap snapshot = {}
      BY <1>1, <1>8, <1>9, <2>1 DEF SnapshotApart
    <2> QED
      BY <1>2, <1>20, <1>23, <2>2
  <1>25. SnapshotApart'
    BY <1>21, <1>22, <1>24 DEF SnapshotApart, Guest, NewClusters
  <1> QED
    BY <1>15, <1>16, <1>18, <1>19, <1>25 DEF TableInv

-----------------------------------------------------------------------------
(* The completion of a data write, which links its allocation.             *)

\* Who maps a cluster when the allocation of r has been linked.
LEMMA MappedAfterLink ==
    ASSUME TypeOK, AllocsFit, NEW r \in Reqs, Allocating(r), SetL2Entries(meta[r]),
           NEW h \in Host
    PROVE  /\ h \notin NewClusters(meta[r]) => Mapped(h)' \subseteq Mapped(h) \ Covered(r)
           /\ \E y : Mapped(h)' \subseteq (Mapped(h) \ Covered(r)) \cup {y}
  <1> DEFINE m == meta[r]
             g == m.offset \div CS
  <1>1. /\ g \in Nat /\ m.nb_clusters \in Nat \ {0} /\ m.cluster_offset \in Nat
    BY AllocationFacts
  <1>2. l2' = [x \in Guest |-> IF x \in g..(g + m.nb_clusters - 1)
                 THEN [host |-> m.cluster_offset + x - g, copied |-> TRUE] ELSE l2[x]]
    BY DEF SetL2Entries
  <1>3. Covered(r) = g..(g + m.nb_clusters - 1) /\ NewClusters(m) = m.cluster_offset..(m.cluster_offset + m.nb_clusters - 1)
    BY DEF Covered, NewClusters
  <1> HIDE DEF m, g
  <1>4. ASSUME NEW x \in Mapped(h)'
        PROVE  x \in Mapped(h) \ Covered(r) \/ (x = g + h - m.cluster_offset /\ h \in NewClusters(m))
    <2>1. x \in Guest /\ l2'[x].host = h
      BY DEF Mapped, Guest
    <2>2. CASE x \in Covered(r)
      <3>1. l2'[x] = [host |-> m.cluster_offset + x - g, copied |-> TRUE]
        BY <1>2, <1>3, <2>1, <2>2
      <3>2. h = m.cluster_offset + x - g
        BY <2>1, <3>1
      <3>3. x \in Int /\ g <= x /\ x <= g + m.nb_clusters - 1
        BY <1>1, <1>3, <2>2
      <3>4. x = g + h - m.cluster_offset
        BY <1>1, <3>2, <3>3
      <3>5. /\ h \in Int /\ m.cluster_offset <= h
            /\ h <= m.cluster_offset + m.nb_clusters - 1
        BY <1>1, <3>2, <3>3
      <3>6. h \in NewClusters(m)
        BY <1>1, <1>3, <3>5
      <3> QED
        BY <3>4, <3>6
    <2>3. CASE x \notin Covered(r)
      BY <1>2, <1>3, <2>1, <2>3 DEF Mapped
    <2> QED
      BY <2>2, <2>3
  <1>5. h \notin NewClusters(m) => Mapped(h)' \subseteq Mapped(h) \ Covered(r)
    BY <1>4
  <1>6. Mapped(h)' \subseteq (Mapped(h) \ Covered(r)) \cup {g + h - m.cluster_offset}
    BY <1>4
  <1> QED
    BY <1>5, <1>6 DEF m

LEMMA WriteCbInv ==
    ASSUME QcowInv, TypeOK', NEW r \in Reqs, WriteCb(r)
    PROVE  TableInv' /\ SnapshotApart'
  <1>1. /\ TypeOK /\ PartsFit /\ CopiedMapped /\ Listed /\ AllocsFit /\ AllocationsDisjoint
        /\ RefcountSafe /\ SnapshotApart
    BY DEF QcowInv
  <1>2. /\ st'[r] = "run"
        /\ \A q \in Reqs : st'[q] # "run" => st'[q] = st[q]
        /\ ToSet(cluster_allocs) \ {r} \subseteq ToSet(cluster_allocs')
        /\ meta' = meta /\ part' = part /\ snapshot' = snapshot
    BY <1>1, WriteCbRequests
  <1>3. ASSUME NEW q \in Reqs, Allocating(q)'
        PROVE  q # r /\ Allocating(q) /\ meta'[q] = meta[q] /\ q \in ToSet(cluster_allocs')
    BY <1>1, <1>2, <1>3 DEF Allocating, Listed
  <1>4. NoNewAllocation
    BY <1>3 DEF NoNewAllocation
  <1>5. \A q \in Reqs : st'[q] = "hd" => st[q] = "hd" /\ meta'[q] = meta[q] /\ part'[q] = part[q]
    BY <1>2
  <1>6. CASE UNCHANGED <<disk, tableVars>>
    <2>1. UNCHANGED <<l2, rc, snapshot>>
      BY <1>2, <1>6 DEF tableVars
    <2>2. \A h \in Host : rc[h] <= rc'[h]
      BY <1>1, <2>1, SameRefcounts
    <2> QED
      BY <1>4, <1>5, <2>1, <2>2, QuietSteps
  <1>7. CASE /\ Allocating(r) /\ SetL2Entries(meta[r])
             /\ FreeOldClusters(meta[r]) \/ UNCHANGED <<rc, free_cluster_index>>
    <2> DEFINE m == meta[r]
               g == m.offset \div CS
    <2>1. /\ g \in Nat /\ m.nb_clusters \in Nat \ {0} /\ m.cluster_offset \in Nat
          /\ NewClusters(m) \subseteq Host
      BY <1>1, <1>7, AllocationFacts
    <2>2. l2' = [x \in Guest |-> IF x \in g..(g + m.nb_clusters - 1)
                 THEN [host |-> m.cluster_offset + x - g, copied |-> TRUE] ELSE l2[x]]
      BY <1>7 DEF SetL2Entries
    <2>3. \A x \in Guest : \/ l2'[x] = l2[x]
                           \/ l2'[x].host \in NewClusters(m) /\ l2'[x].host \in Host
      <3> HIDE DEF m, g
      <3>1. ASSUME NEW x \in Guest, x \in g..(g + m.nb_clusters - 1)
            PROVE  l2'[x].host \in NewClusters(m)
        <4>1. l2'[x].host = m.cluster_offset + x - g
          BY <2>2, <3>1
        <4> QED
          BY <2>1, <3>1, <4>1 DEF NewClusters
      <3> QED
        BY <2>1, <2>2, <3>1
    <2>4. AllocsFit'
      BY <1>1, <1>3 DEF AllocsFit, NewClusters, Host
    <2>5. CopiedMapped'
      <3>1. \A x \in Guest : l2'[x].copied => l2'[x].host # 0
        BY <1>1, <2>3 DEF CopiedMapped, Host
      <3> QED
        BY <3>1 DEF CopiedMapped, Guest
    <2>6. Listed'
      BY <1>3 DEF Listed
    <2>7. AllocationsDisjoint'
      <3>1. \A q \in Reqs : meta'[q] = meta[q] => Covered(q)' = Covered(q)
        BY DEF Covered
      <3> QED
        BY <1>1, <1>3, <3>1 DEF AllocationsDisjoint
    <2>8. RefcountSafe'
      <3>1. SUFFICES ASSUME NEW h \in Host
                     PROVE  Users(h)' <= rc'[h]
        BY DEF RefcountSafe, Host
      <3>2. /\ Users(h) = Cardinality(Mapped(h)) + Cardinality(Takers(h))
                            + Cardinality({h} \cap snapshot)
            /\ IsFiniteSet(Mapped(h)) /\ Cardinality(Mapped(h)) \in Nat
            /\ IsFiniteSet(Takers(h)) /\ Cardinality(Takers(h)) \in Nat
            /\ Cardinality({h} \cap snapshot) \in {0, 1}
        BY UsersIs
      <3>3. Users(h)' = Cardinality(Mapped(h)') + Cardinality(Takers(h)') + Cardinality({h} \cap snapshot)
        BY <1>2, UsersNext
      <3>4. Users(h) <= rc[h] /\ rc[h] \in 0 .. 2
        BY <1>1 DEF RefcountSafe, TypeOK
      <3>5. /\ h \notin NewClusters(m) => Mapped(h)' \subseteq Mapped(h) \ Covered(r)
            /\ \E y : Mapped(h)' \subseteq (Mapped(h) \ Covered(r)) \cup {y}
        BY <1>1, <1>7, MappedAfterLink
      <3>6. Takers(h)' \subseteq Takers(h) \ {r}
        BY <1>3 DEF Takers, NewClusters
      <3> DEFINE n == IF h \in NewClusters(m) THEN 1 ELSE 0
                 d == IF \E x \in Covered(r) : x \in Mapped(h) THEN 1 ELSE 0
      <3>7. Cardinality(Takers(h)') \in Nat /\ Cardinality(Takers(h)') <= Cardinality(Takers(h)) - n
        <4>1. CASE h \in NewClusters(m)
          <5>1. r \in Takers(h)
            BY <1>7, <4>1 DEF Takers
          <5> QED
            BY <3>2, <3>6, <4>1, <5>1, SmallerSets
        <4>2. CASE h \notin NewClusters(m)
          <5>1. Takers(h)' \subseteq Takers(h)
            BY <3>6
          <5>2. Cardinality(Takers(h)') \in Nat /\ Cardinality(Takers(h)') <= Cardinality(Takers(h))
            BY <3>2, <5>1, SmallerSets
          <5> QED
            BY <3>2, <4>2, <5>2
        <4> QED
          BY <4>1, <4>2
      <3>8. Cardinality(Mapped(h)') \in Nat /\ Cardinality(Mapped(h)') <= Cardinality(Mapped(h)) + n - d
        <4>1. CASE \E x \in Covered(r) : x \in Mapped(h)
          <5>1. PICK x \in Covered(r) : x \in Mapped(h)
            BY <4>1
          <5>2. d = 1
            BY <4>1
          <5>3. CASE h \in NewClusters(m)
            <6>1. PICK y : Mapped(h)' \subseteq (Mapped(h) \ Covered(r)) \cup {y}
              BY <3>5
            <6>2. Mapped(h)' \subseteq (Mapped(h) \ {x}) \cup {y}
              BY <5>1, <6>1
            <6>3. Cardinality(Mapped(h)') \in Nat /\ Cardinality(Mapped(h)') <= Cardinality(Mapped(h))
              BY <3>2, <5>1, <6>2, SmallerSets
            <6> QED
              BY <3>2, <5>2, <5>3, <6>3
          <5>4. CASE h \notin NewClusters(m)
            <6>1. Mapped(h)' \subseteq Mapped(h) \ {x}
              BY <3>5, <5>1, <5>4
            <6>2. Cardinality(Mapped(h)') \in Nat /\ Cardinality(Mapped(h)') <= Cardinality(Mapped(h)) - 1
              BY <3>2, <5>1, <6>1, SmallerSets
            <6> QED
              BY <3>2, <5>2, <5>4, <6>2
          <5> QED
            BY <5>3, <5>4
        <4>2. CASE ~\E x \in Covered(r) : x \in Mapped(h)
          <5>1. d = 0
            BY <4>2
          <5>2. CASE h \in NewClusters(m)
            <6>1. PICK y : Mapped(h)' \subseteq Mapped(h) \cup {y}
              BY <3>5
            <6>2. Cardinality(Mapped(h)') \in Nat /\ Cardinality(Mapped(h)') <= Cardinality(Mapped(h)) + 1
              BY <3>2, <6>1, SmallerSets
            <6> QED
              BY <3>2, <5>1, <5>2, <6>2
          <5>3. CASE h \notin NewClusters(m)
            <6>1. Mapped(h)' \subseteq Mapped(h)
              BY <3>5, <5>3
            <6>2. Cardinality(Mapped(h)') \in Nat /\ Cardinality(Mapped(h)') <= Cardinality(Mapped(h))
              BY <3>2, <6>1, SmallerSets
            <6> QED
              BY <3>2, <5>1, <5>3, <6>2
          <5> QED
            BY <5>2, <5>3
        <4> QED
          BY <4>1, <4>2
      <3>9. rc'[h] \in Int /\ rc'[h] >= rc[h] - d
        <4>1. CASE FreeOldClusters(meta[r])
          <5>1. rc'[h] = IF h \in Replaced(m) THEN rc[h] - 1 ELSE rc[h]
            BY <4>1 DEF FreeOldClusters
          <5>2. h \in Replaced(m) => \E x \in Covered(r) : x \in Mapped(h)
            BY <1>1, <1>7, ReplacedFacts
          <5> HIDE DEF m
          <5> QED
            BY <3>4, <5>1, <5>2
        <4>2. CASE UNCHANGED <<rc, free_cluster_index>>
          BY <3>4, <4>2
        <4> QED
          BY <1>7, <4>1, <4>2
      <3>10. n \in {0, 1} /\ d \in {0, 1}
        OBVIOUS
      <3> HIDE DEF n, d, m
      <3> QED
        BY <3>2, <3>3, <3>4, <3>7, <3>8, <3>9, <3>10
    <2>9. \A x \in Guest : l2'[x].copied => l2'[x].host \notin snapshot'
      <3>1. NewClusters(m) \cap snapshot = {}
        BY <1>1, <1>7 DEF SnapshotApart
      <3> QED
        BY <1>1, <1>2, <2>3, <3>1 DEF SnapshotApart
    <2>10. \A q \in Reqs : Allocating(q)' => NewClusters(meta'[q]) \cap snapshot' = {}
      BY <1>1, <1>2, <1>3 DEF SnapshotApart
    <2>11. \A q \in Reqs : st'[q] = "hd" => Touched(q)' \cap snapshot' = {}
      <3>1. \A q \in Reqs : meta'[q] = meta[q] /\ part'[q] = part[q] => Touched(q)' = Touched(q)
        BY DEF Touched, Host, Offsets
      <3> QED
        BY <1>1, <1>2, <1>5, <3>1 DEF SnapshotApart
    <2>12. SnapshotApart'
      BY <2>9, <2>10, <2>11 DEF SnapshotApart, Guest, NewClusters
    <2> QED
      BY <2>4, <2>5, <2>6, <2>7, <2>8, <2>12 DEF TableInv
  <1> QED
    BY <1>6, <1>7, WriteCbTables

-----------------------------------------------------------------------------
(* The theorems.                                                           *)

LEMMA InitTypes == Init => TypeOK /\ PartsFit /\ \A r \in Reqs : st[r] = "new"
  <1>1. SUFFICES ASSUME Init
                 PROVE  TypeOK /\ PartsFit /\ \A r \in Reqs : st[r] = "new"
    OBVIOUS
  <1>2. PICK shared \in SUBSET Guest, owned \in SUBSET Guest :
         /\ owned \cap shared = {}
         /\ l2 = [g \in Guest |->
                    IF g \in shared \cup owned
                    THEN [host |-> g + 1, copied |-> g \in owned]
                    ELSE Unallocated]
         /\ rc = [h \in Host |-> IF h - 1 \in shared THEN 2
                                 ELSE IF h - 1 \in owned THEN 1 ELSE 0]
         /\ snapshot = {g + 1 : g \in shared}
    BY <1>1 DEF Init
  <1>3. l2 \in [Guest -> Entries]
    <2>1. \A g \in Guest : g + 1 \in 0 .. H /\ 0 \in 0 .. H
      BY Constants DEF Guest
    <2>2. ASSUME NEW g \in Guest
          PROVE  [host |-> g + 1, copied |-> g \in owned] \in Entries
      <3>1. (g \in owned) \in BOOLEAN
        OBVIOUS
      <3> QED
        BY <2>1, <3>1 DEF Entries
    <2>3. \A g \in Guest : Unallocated \in Entries
      BY <2>1 DEF Unallocated, Entries
    <2> QED
      BY <1>2, <2>2, <2>3
  <1>4. rc \in [Host -> 0 .. 2]
    BY <1>2
  <1>5. snapshot \in SUBSET Host
    BY <1>2, Constants DEF Guest, Host
  <1>6. disk \in [Host -> [Offsets -> Contents]]
    <2>1. ASSUME NEW h \in Host, NEW o \in Offsets, h <= G
          PROVE  (h - 1) * CS + o \in Contents
      <3>1. h - 1 \in Guest
        BY <2>1, Constants DEF Host, Guest
      <3> QED
        BY <3>1, SectorOfCluster DEF Contents
    <2>2. Garbage \in Contents
      BY DEF Contents
    <2> QED
      BY <1>1, <2>1, <2>2 DEF Init
  <1>7. free_cluster_index \in 1 .. (H + 1) /\ cluster_allocs \in Seq(Reqs)
    BY <1>1, Constants, EmptySeq DEF Init
  <1>8. TableTypes
    BY <1>3, <1>4, <1>7 DEF TableTypes
  <1>9. part \in [Reqs -> Parts] /\ \A r \in Reqs : part[r].n = 0 /\ part[r].nb_sectors = 0 /\ part[r].sector_num = 0
    <2>1. 0 \in 0 .. (G * CS)
      BY Constants
    <2> QED
      BY <1>1, <2>1 DEF Init, Parts
  <1>10. meta \in [Reqs -> Metas]
    <2>1. 0 \in GuestSectors /\ 0 \in 0 .. H /\ 0 \in Offsets /\ 0 \in 0 .. (G * CS) /\ 0 \in 0 .. G
      BY Constants DEF GuestSectors, Offsets
    <2>2. NoMeta \in Metas
      BY <2>1 DEF NoMeta, Metas
    <2> QED
      BY <1>1, <2>2 DEF Init
  <1>11. RequestTypes
    <2>1. st \in [Reqs -> States] /\ failed \in [Reqs -> BOOLEAN]
      BY <1>1 DEF Init, States
    <2>2. dependents \in [Reqs -> Seq(Reqs)] /\ todo \in Seq(Reqs \cup {NoReq})
      BY <1>1, EmptySeq DEF Init
    <2>3. \A r \in Reqs : part[r].n <= part[r].nb_sectors
      BY <1>9
    <2> QED
      BY <1>9, <1>10, <2>1, <2>2, <2>3 DEF RequestTypes
  <1>12. ContentTypes
    BY <1>1, <1>5, <1>6 DEF Init, ContentTypes, Contents
  <1>13. PartsFit
    <2>1. 0 + 0 <= G * CS
      BY Constants
    <2> QED
      BY <1>9, <2>1 DEF PartsFit
  <1> QED
    BY <1>1, <1>8, <1>11, <1>12, <1>13, Types DEF Init

LEMMA InitInv == Init => QcowInv
  <1>1. SUFFICES ASSUME Init
                 PROVE  QcowInv
    OBVIOUS
  <1>2. TypeOK /\ PartsFit /\ \A r \in Reqs : st[r] = "new"
    BY <1>1, InitTypes
  <1>3. \A r \in Reqs : ~Allocating(r)
    BY <1>2 DEF Allocating
  <1>4. PICK shared \in SUBSET Guest, owned \in SUBSET Guest :
         /\ owned \cap shared = {}
         /\ l2 = [g \in Guest |->
                    IF g \in shared \cup owned
                    THEN [host |-> g + 1, copied |-> g \in owned]
                    ELSE Unallocated]
         /\ rc = [h \in Host |-> IF h - 1 \in shared THEN 2
                                 ELSE IF h - 1 \in owned THEN 1 ELSE 0]
         /\ snapshot = {g + 1 : g \in shared}
    BY <1>1 DEF Init
  <1>5. \A g \in Guest : /\ g \in Nat
                         /\ g \in shared \cup owned => l2[g].host = g + 1 /\ (l2[g].copied <=> g \in owned)
                         /\ g \notin shared \cup owned => l2[g].host = 0 /\ ~l2[g].copied
    <2>1. ASSUME NEW g \in Guest
          PROVE  /\ g \in Nat
                 /\ g \in shared \cup owned => l2[g].host = g + 1
                 /\ g \notin shared \cup owned => l2[g].host = 0
      BY <1>4, Constants DEF Guest, Unallocated
    <2>2. ASSUME NEW g \in Guest, g \in shared \cup owned
          PROVE  l2[g].copied <=> g \in owned
      <3>1. l2[g] = [host |-> g + 1, copied |-> g \in owned]
        BY <1>4, <2>2
      <3>2. CASE g \in owned
        <4>1. (g \in owned) = TRUE
          BY <3>2
        <4>2. l2[g] = [host |-> g + 1, copied |-> TRUE]
          BY <3>1, <4>1
        <4> QED
          BY <3>2, <4>2
      <3>3. CASE g \notin owned
        <4>1. (g \in owned) = FALSE
          BY <3>3
        <4>2. l2[g] = [host |-> g + 1, copied |-> FALSE]
          BY <3>1, <4>1
        <4> QED
          BY <3>3, <4>2
      <3> QED
        BY <3>2, <3>3
    <2>3. ASSUME NEW g \in Guest, g \notin shared \cup owned
          PROVE  ~l2[g].copied
      BY <1>4, <2>3 DEF Unallocated
    <2> QED
      BY <2>1, <2>2, <2>3
  <1>6. CopiedMapped /\ \A g \in Guest : l2[g].copied => l2[g].host \notin snapshot
    BY <1>4, <1>5 DEF CopiedMapped
  <1>7. SnapshotApart
    BY <1>2, <1>3, <1>6 DEF SnapshotApart
  <1>8. RefcountSafe
    <2>1. SUFFICES ASSUME NEW h \in Host
                   PROVE  Users(h) <= rc[h]
      BY DEF RefcountSafe
    <2>2. /\ Users(h) = Cardinality(Mapped(h)) + Cardinality(Takers(h))
                            + Cardinality({h} \cap snapshot)
          /\ IsFiniteSet(Mapped(h)) /\ Cardinality(Mapped(h)) \in Nat
          /\ (h \in snapshot => Cardinality({h} \cap snapshot) = 1)
          /\ (h \notin snapshot => Cardinality({h} \cap snapshot) = 0)
      BY UsersIs
    <2>3. h \in Nat /\ h >= 1
      BY Constants DEF Host
    <2>4. Takers(h) = {} /\ Cardinality(Takers(h)) = 0
      BY <1>3, FS_EmptySet DEF Takers
    <2>5. Mapped(h) \subseteq {h - 1} /\ (h - 1 \notin shared \cup owned => Mapped(h) = {})
      BY <1>5, <2>3 DEF Mapped
    <2>6. /\ Cardinality(Mapped(h)) <= 1
          /\ (h - 1 \notin shared \cup owned => Cardinality(Mapped(h)) = 0)
      <3>1. IsFiniteSet({h - 1}) /\ Cardinality({h - 1}) = 1
        BY FS_Singleton
      <3>2. Cardinality(Mapped(h)) <= Cardinality({h - 1})
        BY <2>5, <3>1, SmallerSets
      <3> QED
        BY <2>5, <3>1, <3>2, FS_EmptySet
    <2>7. h \in snapshot <=> h - 1 \in shared
      BY <1>4, <1>5, <2>3
    <2>8. rc[h] = IF h - 1 \in shared THEN 2 ELSE IF h - 1 \in owned THEN 1 ELSE 0
      BY <1>4
    <2> QED
      BY <2>2, <2>4, <2>6, <2>7, <2>8
  <1> QED
    BY <1>2, <1>3, <1>6, <1>7, <1>8 DEF QcowInv, AllocsFit, Listed, AllocationsDisjoint

LEMMA StepInv == QcowInv /\ [Next]_vars => QcowInv'
  <1>1. SUFFICES ASSUME QcowInv, [Next]_vars
                 PROVE  QcowInv'
    OBVIOUS
  <1>2. TypeOK /\ PartsFit /\ CopiedMapped /\ Listed /\ AllocsFit /\ RefcountSafe
    BY <1>1 DEF QcowInv
  <1>3. SUFFICES TypeOK' /\ PartsFit' /\ TableInv' /\ SnapshotApart'
    BY DEF QcowInv, TableInv
  <1>4. CASE Finish
    BY <1>1, <1>2, <1>4, FinishTypes, FinishInv
  <1>5. CASE CallbackReturns
    BY <1>1, <1>2, <1>5, CallbackReturnsTypes, CallbackReturnsInv
  <1>6. CASE WriteInPlace
    BY <1>1, <1>2, <1>6, WriteInPlaceTypes, WriteInPlaceInv
  <1>7. CASE WaitForAllocation
    BY <1>1, <1>2, <1>7, WaitForAllocationTypes, WaitForAllocationInv
  <1>8. CASE WriteAllocating
    BY <1>1, <1>2, <1>8, WriteAllocatingTypes, WriteAllocatingInv
  <1>9. CASE AllocFails
    BY <1>1, <1>2, <1>9, AllocFailsTypes, AllocFailsInv
  <1>10. CASE SubmitFails
    BY <1>1, <1>2, <1>10, SubmitFailsTypes, SubmitFailsInv
  <1>11. ASSUME NEW r \in Reqs, NEW s \in GuestSectors, NEW k \in 1 .. MaxSectors, AioWritev(r, s, k)
         PROVE  TypeOK' /\ PartsFit' /\ TableInv' /\ SnapshotApart'
    BY <1>1, <1>2, <1>11, AioWritevTypes, AioWritevInv
  <1>12. ASSUME NEW r \in Reqs, HdWrite(r) \/ HdFail(r)
         PROVE  TypeOK' /\ PartsFit' /\ TableInv' /\ SnapshotApart'
    BY <1>1, <1>2, <1>12, HdTypes, HdInv
  <1>13. ASSUME NEW r \in Reqs, WriteCb(r)
         PROVE  TypeOK' /\ PartsFit' /\ TableInv' /\ SnapshotApart'
    BY <1>1, <1>2, <1>13, WriteCbTypes, WriteCbInv
  <1>14. ASSUME NEW r \in Reqs, AioCancel(r)
         PROVE  TypeOK' /\ PartsFit' /\ TableInv' /\ SnapshotApart'
    BY <1>1, <1>2, <1>14, AioCancelTypes, AioCancelInv
  <1>15. CASE UNCHANGED vars
    <2>1. /\ UNCHANGED <<l2, rc, free_cluster_index, disk, cluster_allocs, st, part, meta>>
          /\ UNCHANGED <<dependents, failed, todo, snapshot, supersedes, allowed>>
      BY <1>15 DEF vars, tableVars, reqVars, history
    <2>2. TableTypes'
      BY <1>2, <2>1, Types DEF TableTypes, Guest, Entries, Host
    <2>3. RequestTypes'
      BY <1>2, <2>1, Types DEF RequestTypes, Parts, States, Metas, GuestSectors, Offsets
    <2>4. ContentTypes'
      BY <1>2, <2>1, Types DEF ContentTypes, Host, Offsets, Contents, GuestSectors, Garbage
    <2>5. TypeOK' /\ PartsFit'
      BY <1>2, <2>1, <2>2, <2>3, <2>4, TypesNext DEF PartsFit
    <2>6. NoNewAllocation
      BY <1>2, <2>1 DEF NoNewAllocation, Allocating, Listed
    <2>7. \A h \in Host : rc[h] <= rc'[h]
      BY <1>2, <2>1, SameRefcounts
    <2> QED
      BY <1>1, <2>1, <2>5, <2>6, <2>7, QuietSteps
  <1> QED
    BY <1>1, <1>4, <1>5, <1>6, <1>7, <1>8, <1>9, <1>10, <1>11, <1>12, <1>13, <1>14, <1>15
       DEF Next, Callback

LEMMA InvCorrect == Spec => []QcowInv
  BY InitInv, StepInv, PTL DEF Spec

(* Every variable of the write path keeps its type, and what is left of a   *)
(* request never reaches past its end, for any number of requests, any disk *)
(* and cluster size, and whatever fails or is cancelled.                    *)
THEOREM TypeCorrect == Spec => []TypeOK
  <1>1. QcowInv => TypeOK
    BY DEF QcowInv
  <1> QED
    BY <1>1, InvCorrect, PTL

(* No two requests in flight allocate the same guest cluster: the scan of   *)
(* qcow2_alloc_cluster_offset compares unaligned offsets, but what it leaves *)
(* is clear of every allocation in clusters.                                *)
THEOREM DisjointCorrect == Spec => []AllocationsDisjoint
  <1>1. QcowInv => AllocationsDisjoint
    BY DEF QcowInv
  <1> QED
    BY <1>1, InvCorrect, PTL

(* No cluster that is mapped, about to be mapped or part of the snapshot is  *)
(* counted as free or has more users than its refcount, whatever fails or is *)
(* cancelled: errors leak clusters and never free one that is in use.        *)
THEOREM RefcountCorrect == Spec => []RefcountSafe
  <1>1. QcowInv => RefcountSafe
    BY DEF QcowInv
  <1> QED
    BY <1>1, InvCorrect, PTL

(* qcow2_alloc_cluster_offset never reaches its abort(): a request that      *)
(* need not wait has room for at least one cluster.                          *)
THEOREM AbortUnreachable == Spec => []NeverAborts
  <1>1. QcowInv => NeverAborts
    BY RoomCorrect DEF QcowInv, NeverAborts
  <1> QED
    BY <1>1, InvCorrect, PTL

LEMMA SnapshotStep ==
    ASSUME QcowInv, [Next]_vars, NEW h \in snapshot
    PROVE  disk'[h] = disk[h]
  <1>1. TypeOK /\ AllocsFit /\ SnapshotApart /\ h \in Host
    BY DEF QcowInv, TypeOK
  <1>2. CASE UNCHANGED disk
    BY <1>2
  <1>3. ASSUME NEW r \in Reqs, st[r] = "hd", NEW k \in Nat, k <= part[r].n, Written(r, k)
        PROVE  disk'[h] = disk[h]
    <2> DEFINE i == part[r].sector_num % CS
               h0 == meta[r].cluster_offset
    <2>1. h \notin Touched(r)
      BY <1>1, <1>3 DEF SnapshotApart
    <2>2. i \in Int /\ part[r].n \in Int
      <3>1. PICK p \in Parts : p = part[r]
        BY <1>1, Types DEF RequestTypes
      <3>2. p.sector_num \in Nat /\ p.n \in Nat
        BY <3>1, Constants DEF Parts
      <3> QED
        BY <3>1, <3>2, DivBounds, Constants DEF Offsets
    <2>3. \A o \in Offsets : (h - h0) * CS + o \notin i .. (i + part[r].n - 1)
      BY <1>1, <2>1 DEF Touched
    <2>4. \A z : z \in i .. (i + k - 1) => z \in i .. (i + part[r].n - 1)
      <3> HIDE DEF i
      <3> QED
        BY <1>3, <2>2
    <2>5. disk' = [x \in Host |-> [o \in Offsets |->
                IF (x - h0) * CS + o \in i .. (i + k - 1) THEN r ELSE disk[x][o]]]
      BY <1>3 DEF Written
    <2> HIDE DEF i, h0
    <2>6. disk'[h] = [o \in Offsets |-> disk[h][o]]
      BY <1>1, <2>3, <2>4, <2>5
    <2>7. disk[h] \in [Offsets -> Contents]
      BY <1>1 DEF TypeOK
    <2> QED
      BY <2>6, <2>7
  <1>4. ASSUME NEW r \in Reqs, WriteCb(r)
        PROVE  disk'[h] = disk[h]
    <2>1. CASE Allocating(r) /\ SetL2Entries(meta[r])
      <3>1. h \notin NewClusters(meta[r])
        BY <1>1, <2>1 DEF SnapshotApart
      <3> QED
        BY <1>1, <2>1, <3>1 DEF SetL2Entries
    <2> QED
      BY <1>4, <2>1, WriteCbTables
  <1>5. ASSUME NEW r \in Reqs, HdWrite(r) \/ HdFail(r)
        PROVE  disk'[h] = disk[h]
    <2>1. part[r].n \in Nat /\ st[r] = "hd"
      <3>1. PICK p \in Parts : p = part[r]
        BY <1>1, Types DEF RequestTypes
      <3> QED
        BY <1>5, <3>1, Constants DEF Parts, HdWrite, HdFail
    <2>2. CASE HdWrite(r)
      <3>1. Written(r, part[r].n) /\ part[r].n <= part[r].n
        BY <2>1, <2>2 DEF HdWrite
      <3> QED
        BY <1>3, <2>1, <3>1
    <2>3. CASE HdFail(r)
      <3>1. PICK k \in 0 .. (part[r].n - 1) : Written(r, k)
        BY <2>3 DEF HdFail
      <3>2. k \in Nat /\ k <= part[r].n
        BY <2>1
      <3> QED
        BY <1>3, <2>1, <3>1, <3>2
    <2> QED
      BY <1>5, <2>2, <2>3
  <1>6. CASE Callback
    <2>1. UNCHANGED disk
      BY <1>6 DEF Callback, Finish, CallbackReturns, WriteInPlace, WaitForAllocation,
                  WriteAllocating, AllocFails, SubmitFails, Done
    <2> QED
      BY <1>2, <2>1
  <1>7. ASSUME NEW r \in Reqs, NEW s \in GuestSectors, NEW k \in 1 .. MaxSectors, AioWritev(r, s, k)
        PROVE  disk'[h] = disk[h]
    BY <1>7 DEF AioWritev
  <1>8. ASSUME NEW r \in Reqs, AioCancel(r)
        PROVE  disk'[h] = disk[h]
    BY <1>8 DEF AioCancel
  <1>9. CASE UNCHANGED vars
    BY <1>9 DEF vars
  <1> QED
    BY <1>4, <1>5, <1>6, <1>7, <1>8, <1>9 DEF Next

(* A cluster of the snapshot keeps its contents for ever: no write, whether  *)
(* in place or of new clusters, and no copy of copy_sectors reaches it.      *)
THEOREM SnapshotCorrect == Spec => SnapshotKept
  <1>1. QcowInv /\ [Next]_vars => [\A h \in snapshot : disk'[h] = disk[h]]_vars
    BY SnapshotStep
  <1> QED
    BY <1>1, InvCorrect, PTL DEF Spec, SnapshotKept
=============================================================================
