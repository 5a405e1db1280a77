-------------------------- MODULE MultiwriteProofs --------------------------
(***************************************************************************)
(* Theorems about Multiwrite, for any finite set of requests, any disk,    *)
(* any sizes of requests, any width of an int, any number of batches,      *)
(* every error policy and every way the driver can fail.                   *)
(*                                                                         *)
(* The argument has four parts.  Merging: by induction along the sorted    *)
(* requests (LeastNatural, MergingExists), every merged write carries for  *)
(* each of its sectors what some request sent for this very sector, and    *)
(* together they cover all requests (MergeCorrect), if no two of them lie  *)
(* further apart than an int (CompareFacts).  Counting: the writes the     *)
(* driver has are told apart by the place they had in the array, so        *)
(* num_requests is their number (CountInv).  Answering: the callbacks of a *)
(* batch that can still be called are pending, its qiovs are not freed,    *)
(* and no two such batches share a request (SafeInv).  Data: a sector of a *)
(* batch that can still succeed, and of which nothing was lost, is on the  *)
(* disk, in a write the driver has, or in one still to be submitted        *)
(* (DataInv).                                                              *)
(***************************************************************************)
EXTENDS Multiwrite, TLAPS, FiniteSetTheorems, SequenceTheorems,
        NaturalsInduction, WellFoundedInduction

\* A write as multiwrite_merge builds it, and as the loop submits it.
Segments == [sector : Nat, nb : Nat, own : SUBSET Reqs, qiov : Seq(Reqs \X Nat)]
Pieces == [sector : Nat, nb : Nat, own : SUBSET Reqs, qiov : Seq(Reqs \X Nat),
           opaque : Reqs, gen : Batch]
QiovStates == {"none", "allocated", "freed"}
Mcbs == [error : BOOLEAN, num_requests : Nat, callbacks : SUBSET Reqs,
         free_qiov : QiovStates, freed : BOOLEAN]

\* What a write may be called back with.
Results == {"none", "EIO", "ENOSPC"}

ShapeInv ==
    /\ on_error \in OnErrors /\ want \in [Reqs -> Wants]
    /\ status \in [Reqs -> {"new", "pending", "stopped", "ok", "error"}]
    /\ rq \in SUBSET Reqs /\ running \in BOOLEAN
    /\ reqs \in Seq(Pieces)
    /\ mcb \in [Batch -> Mcbs]
    /\ inflight \in SUBSET Pieces /\ IsFiniteSet(inflight)
    /\ disk \in [Sector -> (Reqs \X Nat) \cup {Old, Garbage}]
    /\ failures \in [Batch -> Nat]
    /\ refused \in [Batch -> BOOLEAN] /\ early \in [Batch -> SUBSET Results]
    /\ lost \in [Batch -> BOOLEAN]

\* The batches are used in order; the machine is stopped for a reason.
BatchInv ==
    /\ \E L \in 0 .. MaxBatches : {g \in Batch : Used(g)} = 1 .. L
    /\ \A g \in Batch : ~Used(g) => mcb[g] = NoMcb /\ failures[g] = 0
    /\ ~running => rq # {}

\* The writes of the driver.
Of(g) == {m \in inflight : m.gen = g}

\* The array the loop goes through belongs to the last batch, which is not
\* freed meanwhile; its elements differ in their opaque, also from those the
\* driver already has.  A qiov that is part of a request is part of one of the
\* batch.
QueueInv ==
    /\ \A m \in inflight : /\ Used(m.gen) /\ m.opaque \in mcb[m.gen].callbacks
                           /\ m.own \subseteq mcb[m.gen].callbacks
    /\ \A i \in 1 .. Len(reqs) :
          /\ reqs[i].gen = LastBatch /\ Used(LastBatch)
          /\ reqs[i].opaque \in mcb[LastBatch].callbacks
          /\ reqs[i].own \subseteq mcb[LastBatch].callbacks
          /\ \A j \in 1 .. Len(reqs) : i # j => reqs[i].opaque # reqs[j].opaque
          /\ \A m \in Of(LastBatch) : m.opaque # reqs[i].opaque
    /\ Submitting => ~mcb[LastBatch].freed

CountInv ==
    fault # "mcb" => \A g \in Batch :
        /\ mcb[g].num_requests = Cardinality(Of(g))
        /\ mcb[g].freed => mcb[g].num_requests = 0

\* A batch whose callbacks can still be called.
Callable(g) == Used(g) /\ ~mcb[g].freed /\ failures[g] = 0

Orderly == \A g \in Batch : early[g] = {} /\ failures[g] <= 1

SafeInv ==
    Orderly =>
        /\ fault \in {"none", "qiov"}
        /\ \A r \in rq : status[r] = "stopped"
        /\ \A g \in Batch : failures[g] = 1 => mcb[g].error
        /\ \A g \in Batch : Callable(g) =>
              /\ mcb[g].free_qiov # "freed"
              /\ \A r \in mcb[g].callbacks : status[r] = "pending"
        /\ \A g, h \in Batch : Callable(g) /\ Callable(h) /\ g # h =>
                                  mcb[g].callbacks \cap mcb[h].callbacks = {}
        /\ reqs # << >> => Callable(LastBatch)

\* Requests that merging treats well.
Separate == Disjoint /\ Comparable

\* What a sector may legally hold, and a write that writes only such contents.
Right(x) == {<<r, x>> : r \in {q \in Reqs : x \in Covers(q)}}
Span(m) == m.sector .. (m.sector + m.nb - 1)
Honest(m) == /\ Len(m.qiov) = m.nb
             /\ \A k \in 1 .. m.nb : m.qiov[k] \in Right(m.sector + k - 1)

OnDisk(r, x) == disk[x] = <<r, x>>

\* A sector that is still to be written for batch g.
Coming(g, x) ==
    \/ \E m \in Of(g) : x \in Span(m)
    \/ g = LastBatch /\ \E i \in 1 .. Len(reqs) : x \in Span(reqs[i])

DataInv ==
    Separate =>
        /\ \A m \in inflight : Honest(m)
        /\ \A i \in 1 .. Len(reqs) : Honest(reqs[i])
        /\ \A s \in Sector : disk[s] \in {Old} \cup Right(s)
        /\ fault = "none" => \A g \in Batch :
              Used(g) /\ ~mcb[g].freed /\ ~mcb[g].error /\ ~lost[g] =>
                  \A r \in mcb[g].callbacks : \A x \in Covers(r) :
                      OnDisk(r, x) \/ Coming(g, x)
        /\ SuccessIsOnDisk

MwInv == ShapeInv /\ BatchInv /\ QueueInv /\ CountInv /\ SafeInv /\ DataInv

-----------------------------------------------------------------------------
(* Merging.                                                                *)

LEMMA Constants ==
    /\ IsFiniteSet(Reqs) /\ NSectors \in Nat \ {0} /\ MaxNb \in Nat \ {0}
    /\ MaxNb <= NSectors /\ MaxBatches \in Nat /\ IntRange \in Nat \ {0}
  BY MultiwriteAssumption

LEMMA LeastNatural ==
    ASSUME NEW T \in SUBSET Nat, T # {}
    PROVE  \E n \in T : \A k \in T : n <= k
  <1>1. IsWellFoundedOn(OpToRel(<, Nat), Nat)
    BY NatLessThanWellFounded
  <1>2. PICK n \in T : \A k \in T : ~(<<k, n>> \in OpToRel(<, Nat))
    BY <1>1, WFMin
  <1>3. \A k \in T : ~(k < n)
    BY <1>2 DEF OpToRel
  <1> QED
    BY <1>3

\* What multiwrite_merge carries from one request to the next.
Arrays == {t \in Seq(Segments) : t # << >>}

\* The function of multiwrite_merge, which is defined by recursion on the index
\* in the sorted array, exists.  F gives the step.
LEMMA MergingExists ==
    ASSUME NEW n \in Nat, NEW x \in Arrays, NEW F \in [1 .. n -> [Arrays -> Arrays]]
    PROVE  \E g \in [1 .. n -> Arrays] :
              g = [i \in 1 .. n |-> IF i = 1 THEN x ELSE F[i][g[i - 1]]]
  <1> DEFINE Good(m) == \E g \in [1 .. m -> Arrays] :
                 \A i \in 1 .. m : g[i] = IF i = 1 THEN x ELSE F[i][g[i - 1]]
             B == {m \in 0 .. n : ~Good(m)}
  <1>1. SUFFICES B = {}
    <2>1. Good(n)
      <3> HIDE DEF Good
      <3> QED
        BY <1>1
    <2>2. PICK g \in [1 .. n -> Arrays] :
                 \A i \in 1 .. n : g[i] = IF i = 1 THEN x ELSE F[i][g[i - 1]]
      BY <2>1
    <2>3. g = [i \in 1 .. n |-> IF i = 1 THEN x ELSE F[i][g[i - 1]]]
      BY <2>2
    <2> QED
      BY <2>3
  <1>2. SUFFICES ASSUME B # {}
                 PROVE  FALSE
    OBVIOUS
  <1>3. PICK m \in B : \A k \in B : m <= k
    <2>1. B \in SUBSET Nat
      OBVIOUS
    <2> HIDE DEF B
    <2> QED
      BY <1>2, <2>1, LeastNatural
  <1>4. m # 0
    <2>1. Good(0)
      <3> DEFINE g == [i \in 1 .. 0 |-> x]
      <3>1. g \in [1 .. 0 -> Arrays] /\ \A i \in 1 .. 0 : FALSE
        OBVIOUS
      <3> HIDE DEF g
      <3> QED
        BY <3>1
    <2>2. ~Good(m)
      BY <1>3
    <2> HIDE DEF Good
    <2> QED
      BY <2>1, <2>2
  <1>5. m - 1 \in 0 .. n /\ m \in 1 .. n /\ Good(m - 1)
    <2>1. m - 1 \in 0 .. n /\ m \in 1 .. n /\ ~(m <= m - 1)
      BY <1>3, <1>4
    <2> QED
      BY <1>3, <2>1
  <1>6. PICK g \in [1 .. (m - 1) -> Arrays] :
              \A i \in 1 .. (m - 1) : g[i] = IF i = 1 THEN x ELSE F[i][g[i - 1]]
    BY <1>5
  <1> DEFINE h == [i \in 1 .. m |-> IF i # m THEN g[i]
                                    ELSE IF m = 1 THEN x ELSE F[m][g[m - 1]]]
  <1>7. h \in [1 .. m -> Arrays]
    <2>1. m # 1 => g[m - 1] \in Arrays /\ F[m] \in [Arrays -> Arrays]
      BY <1>5, <1>6
    <2>2. \A i \in 1 .. m : i # m => i \in 1 .. (m - 1)
      BY <1>5
    <2> QED
      BY <1>6, <2>1, <2>2
  <1>8. ASSUME NEW i \in 1 .. m
        PROVE  h[i] = IF i = 1 THEN x ELSE F[i][h[i - 1]]
    <2>1. i # 1 => i - 1 \in 1 .. m /\ i - 1 # m /\ h[i - 1] = g[i - 1]
      BY <1>5
    <2>2. CASE i = m
      BY <2>1, <2>2
    <2>3. CASE i # m
      <3>1. i \in 1 .. (m - 1) /\ h[i] = g[i]
        BY <1>5, <2>3
      <3> QED
        BY <1>6, <2>1, <3>1
    <2> QED
      BY <2>2, <2>3
  <1>9. Good(m)
    <2> HIDE DEF h
    <2> QED
      BY <1>7, <1>8
  <1> QED
    BY <1>3, <1>9

\* A request as the caller hands it in.
LEMMA RequestFacts ==
    ASSUME want \in [Reqs -> Wants], NEW r \in Reqs, NEW b, b = BlockRequest(r)
    PROVE  /\ b \in Segments /\ b.sector = want[r].sector /\ b.nb = want[r].nb
           /\ b.nb >= 1 /\ b.sector + b.nb <= NSectors /\ b.own = {r}
           /\ Honest(b) /\ Span(b) = Covers(r)
  <1>1. PICK w \in Wants : w = want[r]
    OBVIOUS
  <1>2. w.sector \in Nat /\ w.nb \in Nat /\ w.nb >= 1 /\ w.sector + w.nb <= NSectors
    BY Constants DEF Wants, Sector
  <1>3. b = [sector |-> w.sector, nb |-> w.nb, own |-> {r},
             qiov |-> [k \in 1 .. w.nb |-> <<r, w.sector + k - 1>>]]
    BY <1>1 DEF BlockRequest
  <1> DEFINE q == [k \in 1 .. w.nb |-> <<r, w.sector + k - 1>>]
  <1>4. \A k \in 1 .. w.nb : w.sector + k - 1 \in Nat
    BY <1>2
  <1>5. q \in [1 .. w.nb -> Reqs \X Nat]
    BY <1>4
  <1>6. q \in Seq(Reqs \X Nat) /\ Len(q) = w.nb
    BY <1>2, <1>5
  <1>7. Covers(r) = w.sector .. (w.sector + w.nb - 1)
    BY <1>1 DEF Covers
  <1>8. \A k \in 1 .. w.nb : q[k] \in Right(w.sector + k - 1)
    <2> TAKE k \in 1 .. w.nb
    <2>1. w.sector + k - 1 \in Covers(r)
      BY <1>2, <1>7
    <2> QED
      BY <2>1 DEF Right
  <1> HIDE DEF q
  <1>9. b.sector = w.sector /\ b.nb = w.nb /\ b.own = {r} /\ b.qiov = q /\ b \in Segments
    BY <1>2, <1>3, <1>6 DEF Segments, q
  <1> QED
    BY <1>1, <1>2, <1>6, <1>7, <1>8, <1>9 DEF Honest, Span

LEMMA TruncatedFacts ==
    ASSUME NEW S, NEW q \in Seq(S), NEW n \in Int
    PROVE  /\ Truncated(q, n) \in Seq(S)
           /\ n >= Len(q) => Truncated(q, n) = q
  <1> DEFINE k == IF n \in 0 .. Len(q) THEN n ELSE Len(q)
  <1>1. Len(q) \in Nat /\ \A i \in 1 .. Len(q) : q[i] \in S
    BY LenProperties, ElementOfSeq
  <1>2. k \in Int /\ k <= Len(q) /\ (n >= Len(q) => k = Len(q))
    BY <1>1
  <1>3. Truncated(q, n) = SubSeq(q, 1, k)
    BY DEF Truncated
  <1> HIDE DEF k
  <1>4. \A i \in 1 .. k : q[i] \in S
    BY <1>1, <1>2
  <1>5. SubSeq(q, 1, k) \in Seq(S)
    BY <1>2, <1>4, SubSeqProperties
  <1> QED
    BY <1>2, <1>3, <1>5, SubSeqFull

\* Two writes put together: what they carry stays with its sector when the
\* second begins where the first ends.
LEMMA MergeFacts ==
    ASSUME NEW a \in Segments, NEW b \in Segments, NEW c, c = Merge(a, b)
    PROVE  /\ c \in Segments /\ c.sector = a.sector /\ c.nb = a.nb + b.nb /\ c.own = {}
           /\ Honest(a) /\ Honest(b) /\ b.sector = a.sector + a.nb => Honest(c)
  <1>1. /\ a.sector \in Nat /\ a.nb \in Nat /\ a.qiov \in Seq(Reqs \X Nat)
        /\ b.sector \in Nat /\ b.nb \in Nat /\ b.qiov \in Seq(Reqs \X Nat)
    BY DEF Segments
  <1>a. PICK sa \in Nat, la \in Nat, sb \in Nat, lb \in Nat :
              sa = a.sector /\ la = a.nb /\ sb = b.sector /\ lb = b.nb
    BY <1>1
  <1> DEFINE t == Truncated(a.qiov, sb - sa)
  <1>2. t \in Seq(Reqs \X Nat) /\ (sb - sa >= Len(a.qiov) => t = a.qiov)
    <2>1. sb - sa \in Int
      OBVIOUS
    <2> QED
      BY <1>1, <2>1, TruncatedFacts
  <1>3. c = [sector |-> sa, nb |-> la + lb, own |-> {}, qiov |-> t \o b.qiov]
    BY <1>a DEF Merge
  <1> HIDE DEF t
  <1>4. /\ t \o b.qiov \in Seq(Reqs \X Nat)
        /\ Len(t \o b.qiov) = Len(t) + Len(b.qiov)
        /\ \A i \in 1 .. Len(t) + Len(b.qiov) : (t \o b.qiov)[i] =
                     IF i <= Len(t) THEN t[i] ELSE b.qiov[i - Len(t)]
    BY <1>1, <1>2, ConcatProperties
  <1>5. /\ c \in Segments /\ c.sector = sa /\ c.nb = la + lb /\ c.own = {}
        /\ c.qiov = t \o b.qiov
    <2>1. la + lb \in Nat
      OBVIOUS
    <2>2. /\ c.sector = sa /\ c.nb = la + lb /\ c.own = {} /\ c.qiov = t \o b.qiov
      BY <1>3
    <2>3. [sector |-> sa, nb |-> la + lb, own |-> {}, qiov |-> t \o b.qiov] \in Segments
      BY <1>4, <2>1 DEF Segments
    <2> QED
      BY <1>3, <2>2, <2>3
  <1>6. ASSUME Honest(a), Honest(b), sb = sa + la
        PROVE  Honest(c)
    <2>0. sb = sa + la
      BY <1>6
    <2>1. Len(a.qiov) = la /\ Len(b.qiov) = lb
      BY <1>a, <1>6 DEF Honest
    <2>2. t = a.qiov
      BY <1>2, <1>6, <2>1
    <2>3. Len(c.qiov) = c.nb
      BY <1>4, <1>5, <2>1, <2>2
    <2>4. ASSUME NEW k \in 1 .. (la + lb)
          PROVE  c.qiov[k] \in Right(sa + k - 1)
      <3>00. k \in Nat
        OBVIOUS
      <3>0. c.qiov[k] = IF k <= la THEN a.qiov[k] ELSE b.qiov[k - la]
        BY <1>4, <1>5, <2>1, <2>2
      <3>1. CASE k <= la
        <4>1. k \in 1 .. la
          BY <3>1
        <4>2. a.qiov[k] \in Right(sa + k - 1)
          BY <1>a, <1>6, <4>1 DEF Honest
        <4> QED
          BY <3>0, <3>1, <4>2
      <3>2. CASE k > la
        <4>1. PICK j \in 1 .. lb : j = k - la
          BY <3>2
        <4>2. sa + k - 1 = sb + j - 1 /\ ~(k <= la)
          BY <2>0, <3>2, <4>1, <3>00
        <4>3. b.qiov[j] \in Right(sb + j - 1)
          BY <1>a, <1>6 DEF Honest
        <4> QED
          BY <3>0, <4>1, <4>2, <4>3
      <3>3. k <= la \/ k > la
        BY <3>00
      <3> QED
        BY <3>1, <3>2, <3>3
    <2> QED
      BY <1>5, <2>3, <2>4 DEF Honest
  <1> QED
    BY <1>a, <1>5, <1>6

\* One round of multiwrite_merge: the request r joins the last write or becomes
\* one of its own.
Extended(t, r) ==
    LET b == BlockRequest(r) IN
    IF Mergeable(Last(t), b) THEN Append(Front(t), Merge(Last(t), b)) ELSE Append(t, b)

IsExtension(t, r, e) ==
    /\ e \in Seq(Segments) /\ e # << >> /\ Len(e) \in 1 .. (Len(t) + 1)
    /\ Len(t) \in Nat \ {0} /\ Last(t) \in Segments /\ Last(t) = t[Len(t)]
    /\ \/ /\ Mergeable(Last(t), BlockRequest(r)) /\ Len(e) = Len(t)
          /\ \A i \in 1 .. (Len(t) - 1) : e[i] = t[i]
          /\ e[Len(e)] = Merge(Last(t), BlockRequest(r))
       \/ /\ ~Mergeable(Last(t), BlockRequest(r)) /\ Len(e) = Len(t) + 1
          /\ \A i \in 1 .. Len(t) : e[i] = t[i]
          /\ e[Len(e)] = BlockRequest(r)

LEMMA ExtendedFacts ==
    ASSUME want \in [Reqs -> Wants], NEW t \in Seq(Segments), t # << >>, NEW r \in Reqs,
           NEW e, e = Extended(t, r)
    PROVE  IsExtension(t, r, e)
  <1>1. PICK b \in Segments : b = BlockRequest(r)
    BY RequestFacts
  <1>2. /\ Len(t) \in Nat \ {0} /\ \A i \in 1 .. Len(t) : t[i] \in Segments
    BY LenProperties, ElementOfSeq, EmptySeq
  <1>3. Last(t) = t[Len(t)] /\ Last(t) \in Segments
    BY <1>2 DEF Last
  <1>4. CASE Mergeable(Last(t), b)
    <2>1. PICK c \in Segments : c = Merge(Last(t), b)
      BY <1>1, <1>3, MergeFacts
    <2>2. PICK n \in Nat : n = Len(t) - 1
      BY <1>2
    <2>3. PICK f : f = Front(t)
      OBVIOUS
    <2>4. f = SubSeq(t, 1, n)
      BY <2>2, <2>3 DEF Front
    <2>5. \A i \in 1 .. n : t[i] \in Segments
      BY <1>2, <2>2
    <2>6. /\ f \in Seq(Segments) /\ Len(f) = n
          /\ \A i \in 1 .. n : f[i] = t[i]
      <3>1. /\ SubSeq(t, 1, n) \in Seq(Segments)
            /\ Len(SubSeq(t, 1, n)) = IF 1 <= n THEN n - 1 + 1 ELSE 0
            /\ \A i \in 1 .. (n - 1 + 1) : SubSeq(t, 1, n)[i] = t[1 + i - 1]
        BY <2>5, SubSeqProperties
      <3> QED
        BY <2>4, <3>1
    <2>7. e = Append(f, c)
      BY <1>1, <1>4, <2>1, <2>3 DEF Extended
    <2>8. /\ e \in Seq(Segments) /\ e # << >> /\ Len(e) = n + 1
          /\ \A i \in 1 .. n : e[i] = f[i]
          /\ e[n + 1] = c
      <3> HIDE <2>4, <2>3
      <3>1. /\ Append(f, c) \in Seq(Segments) /\ Append(f, c) # << >>
            /\ Len(Append(f, c)) = Len(f) + 1
            /\ \A i \in 1.. Len(f) : Append(f, c)[i] = f[i]
            /\ Append(f, c)[Len(f) + 1] = c
        BY <2>6, AppendProperties
      <3> QED
        BY <2>6, <2>7, <3>1
    <2> QED
      BY <1>1, <1>2, <1>3, <1>4, <2>1, <2>2, <2>6, <2>8 DEF IsExtension
  <1>5. CASE ~Mergeable(Last(t), b)
    <2>1. e = Append(t, b)
      BY <1>1, <1>5 DEF Extended
    <2>2. /\ e \in Seq(Segments) /\ e # << >> /\ Len(e) = Len(t) + 1
          /\ \A i \in 1 .. Len(t) : e[i] = t[i]
          /\ e[Len(t) + 1] = b
      BY <2>1, AppendProperties
    <2> QED
      BY <1>1, <1>2, <1>3, <1>5, <2>2 DEF IsExtension
  <1> QED
    BY <1>4, <1>5

Elements(s) == {s[j] : j \in 1 .. Len(s)}

\* What merging the first i requests of s has come to.
Merged(s, i, t) ==
    /\ t \in Seq(Segments) /\ t # << >> /\ Len(t) \in 1 .. i
    /\ \A k \in 1 .. Len(t) : t[k].own \subseteq Elements(s)
    /\ Separate =>
          /\ \A k \in 1 .. Len(t) : Honest(t[k])
          /\ t[Len(t)].sector + t[Len(t)].nb = want[s[i]].sector + want[s[i]].nb
          /\ \A j \in 1 .. i : \A x \in Covers(s[j]) : \E k \in 1 .. Len(t) : x \in Span(t[k])

LEMMA FirstMerged ==
    ASSUME want \in [Reqs -> Wants], NEW s \in Seq(Reqs), s # << >>
    PROVE  Merged(s, 1, <<BlockRequest(s[1])>>)
  <1>1. PICK r \in Reqs : r = s[1]
    BY EmptySeq, ElementOfSeq
  <1>2. PICK b : b = BlockRequest(r)
    OBVIOUS
  <1>3. /\ b \in Segments /\ b.sector = want[r].sector /\ b.nb = want[r].nb
        /\ Honest(b) /\ Span(b) = Covers(r) /\ b.own \subseteq Elements(s)
    <2>1. r \in Elements(s)
      BY <1>1, EmptySeq DEF Elements
    <2> QED
      BY <1>2, <2>1, RequestFacts
  <1>4. PICK t : t = <<b>>
    OBVIOUS
  <1>5. t \in Seq(Segments) /\ t # << >> /\ Len(t) = 1 /\ t[1] = b
    BY <1>3, <1>4
  <1> HIDE <1>2, <1>4
  <1>6. Merged(s, 1, t)
    BY <1>1, <1>3, <1>5 DEF Merged
  <1> QED
    BY <1>1, <1>2, <1>4, <1>6

\* Of two requests that do not overlap, the one sorted second begins behind
\* the end of the first.
LEMMA BehindTheFirst ==
    ASSUME want \in [Reqs -> Wants], Disjoint, NEW r \in Reqs, NEW q \in Reqs, r # q,
           want[r].sector <= want[q].sector
    PROVE  want[r].sector + want[r].nb <= want[q].sector
  <1>1. Covers(r) \cap Covers(q) = {}
    BY DEF Disjoint
  <1>2. PICK v \in Wants, w \in Wants : v = want[r] /\ w = want[q]
    OBVIOUS
  <1>3. PICK vs \in Nat, vn \in Nat, ws \in Nat, wn \in Nat :
              /\ v.sector = vs /\ v.nb = vn /\ w.sector = ws /\ w.nb = wn
              /\ wn >= 1
    BY Constants DEF Wants, Sector
  <1>4. Covers(r) = vs .. (vs + vn - 1) /\ Covers(q) = ws .. (ws + wn - 1)
    BY <1>2, <1>3 DEF Covers
  <1>5. ws \in Covers(q)
    BY <1>3, <1>4
  <1>6. ws \notin vs .. (vs + vn - 1)
    BY <1>1, <1>4, <1>5
  <1>7. vs <= ws
    BY <1>2, <1>3
  <1>8. vs + vn <= ws
    BY <1>6, <1>7
  <1> QED
    BY <1>2, <1>3, <1>8

LEMMA NextMerged ==
    ASSUME want \in [Reqs -> Wants], NEW s \in Seq(Reqs), NEW i \in 2 .. Len(s),
           s[i - 1] # s[i], Comparable => want[s[i - 1]].sector <= want[s[i]].sector,
           NEW t, Merged(s, i - 1, t), NEW e, e = Extended(t, s[i])
    PROVE  Merged(s, i, e)
  <1>1. Len(s) \in Nat /\ i \in Nat /\ i - 1 \in 1 .. Len(s) /\ i \in 1 .. Len(s)
    BY LenProperties
  <1>2. PICK r \in Reqs, q \in Reqs : r = s[i - 1] /\ q = s[i]
    BY <1>1, ElementOfSeq
  <1>3. t \in Seq(Segments) /\ t # << >> /\ Len(t) \in 1 .. (i - 1)
    BY DEF Merged
  <1>4. PICK b : b = BlockRequest(q)
    OBVIOUS
  <1>5. /\ b \in Segments /\ b.sector = want[q].sector /\ b.nb = want[q].nb
        /\ b.nb >= 1 /\ b.sector + b.nb <= NSectors /\ b.own = {q}
        /\ Honest(b) /\ Span(b) = Covers(q)
    BY <1>4, RequestFacts
  <1>6. PICK n \in Nat \ {0} : n = Len(t)
    BY <1>3, LenProperties
  <1>E. IsExtension(t, q, e)
    BY <1>2, <1>3, ExtendedFacts
  <1>7. PICK a \in Segments : a = t[n] /\ a = Last(t)
    BY <1>6, <1>E DEF IsExtension
  <1>8. /\ e \in Seq(Segments) /\ e # << >> /\ Len(e) \in 1 .. (n + 1)
        /\ \/ /\ Mergeable(a, b) /\ Len(e) = n
              /\ \A k \in 1 .. (n - 1) : e[k] = t[k]
              /\ e[n] = Merge(a, b)
           \/ /\ ~Mergeable(a, b) /\ Len(e) = n + 1
              /\ \A k \in 1 .. n : e[k] = t[k]
              /\ e[n + 1] = b
    BY <1>4, <1>6, <1>7, <1>E DEF IsExtension
  <1>9. Len(e) \in 1 .. i
    BY <1>1, <1>3, <1>6, <1>8
  <1>O. \A k \in 1 .. Len(e) : e[k].own \subseteq Elements(s)
    <2>1. \A k \in 1 .. n : t[k].own \subseteq Elements(s)
      BY <1>6 DEF Merged
    <2>2. b.own \subseteq Elements(s)
      BY <1>1, <1>2, <1>5 DEF Elements
    <2>3. PICK c : c = Merge(a, b)
      OBVIOUS
    <2>4. c.own = {}
      BY <1>5, <1>7, <2>3, MergeFacts
    <2>5. CASE Mergeable(a, b)
      <3>1. /\ Len(e) = n /\ e[n] = c /\ \A k \in 1 .. (n - 1) : e[k] = t[k]
        BY <1>8, <2>3, <2>5
      <3>2. \A k \in 1 .. n : k = n \/ (k \in 1 .. (n - 1) /\ k \in 1 .. n)
        BY <1>6
      <3> QED
        BY <2>1, <2>4, <3>1, <3>2
    <2>6. CASE ~Mergeable(a, b)
      <3>1. /\ Len(e) = n + 1 /\ e[n + 1] = b /\ \A k \in 1 .. n : e[k] = t[k]
        BY <1>8, <2>6
      <3>2. \A k \in 1 .. (n + 1) : k = n + 1 \/ k \in 1 .. n
        BY <1>6
      <3> QED
        BY <2>1, <2>2, <3>1, <3>2
    <2> QED
      BY <2>5, <2>6
  <1>10. ASSUME Separate
         PROVE  /\ \A k \in 1 .. Len(e) : Honest(e[k])
                /\ e[Len(e)].sector + e[Len(e)].nb = want[s[i]].sector + want[s[i]].nb
                /\ \A j \in 1 .. i : \A x \in Covers(s[j]) :
                      \E k \in 1 .. Len(e) : x \in Span(e[k])
    <2>1. /\ \A k \in 1 .. n : Honest(t[k])
          /\ a.sector + a.nb = want[r].sector + want[r].nb
          /\ \A j \in 1 .. (i - 1) : \A x \in Covers(s[j]) : \E k \in 1 .. n : x \in Span(t[k])
      BY <1>2, <1>6, <1>7, <1>10 DEF Merged
    <2>2. PICK sa \in Nat, la \in Nat, sb \in Nat, lb \in Nat :
                a.sector = sa /\ a.nb = la /\ b.sector = sb /\ b.nb = lb
      BY <1>5 DEF Segments
    <2>3. sa + la <= sb
      <3>1. Disjoint /\ Comparable
        BY <1>10 DEF Separate
      <3> QED
        BY <1>2, <1>5, <2>1, <2>2, <3>1, BehindTheFirst
    <2>4. \A j \in 1 .. i : j = i \/ j \in 1 .. (i - 1)
      BY <1>1
    <2>5. CASE Mergeable(a, b)
      <3>1. sb = sa + la
        BY <2>2, <2>3, <2>5 DEF Mergeable
      <3>2. PICK c : c = Merge(a, b)
        OBVIOUS
      <3>3. c \in Segments /\ c.sector = sa /\ c.nb = la + lb
        BY <1>5, <2>2, <3>2, MergeFacts
      <3>4. Honest(c)
        <4>1. n \in 1 .. n
          BY <1>6
        <4>2. Honest(a) /\ Honest(b) /\ b.sector = a.sector + a.nb
          BY <1>5, <1>7, <2>1, <2>2, <3>1, <4>1
        <4> QED
          BY <1>5, <3>2, <4>2, MergeFacts
      <3>5. /\ Len(e) = n /\ e[n] = c /\ \A k \in 1 .. (n - 1) : e[k] = t[k]
        BY <1>8, <2>5, <3>2
      <3>6. \A k \in 1 .. n : k = n \/ k \in 1 .. (n - 1)
        BY <1>6
      <3>7. Span(a) = sa .. (sa + la - 1) /\ Span(b) = sb .. (sb + lb - 1)
            /\ Span(c) = sa .. (sa + (la + lb) - 1)
        BY <2>2, <3>3 DEF Span
      <3>8. Span(a) \subseteq Span(c) /\ Span(b) \subseteq Span(c)
        BY <3>1, <3>7
      <3>9. ASSUME NEW j \in 1 .. i, NEW x \in Covers(s[j])
            PROVE  \E k \in 1 .. n : x \in Span(e[k])
        <4>0. n \in 1 .. n
          BY <1>6
        <4>1. CASE j = i
          BY <1>2, <1>5, <3>5, <3>8, <4>0, <4>1
        <4>2. CASE j \in 1 .. (i - 1)
          <5>1. PICK k \in 1 .. n : x \in Span(t[k])
            BY <2>1, <4>2
          <5>2. CASE k = n
            BY <1>7, <3>5, <3>8, <4>0, <5>1, <5>2
          <5>3. CASE k \in 1 .. (n - 1)
            BY <3>5, <5>1, <5>3
          <5> QED
            BY <3>6, <5>2, <5>3
        <4> QED
          BY <2>4, <4>1, <4>2
      <3>10. \A k \in 1 .. n : Honest(e[k])
        BY <2>1, <3>4, <3>5, <3>6
      <3>11. c.sector + c.nb = want[q].sector + want[q].nb
        BY <1>5, <2>2, <3>1, <3>3
      <3> QED
        BY <1>2, <3>5, <3>9, <3>10, <3>11
    <2>6. CASE ~Mergeable(a, b)
      <3>1. /\ Len(e) = n + 1 /\ e[n + 1] = b /\ \A k \in 1 .. n : e[k] = t[k]
        BY <1>8, <2>6
      <3>2. \A k \in 1 .. (n + 1) : k = n + 1 \/ k \in 1 .. n
        BY <1>6
      <3>3. n + 1 \in 1 .. (n + 1) /\ \A k \in 1 .. n : k \in 1 .. (n + 1)
        BY <1>6
      <3>4. \A k \in 1 .. (n + 1) : Honest(e[k])
        BY <1>5, <2>1, <3>1, <3>2
      <3>5. ASSUME NEW j \in 1 .. i, NEW x \in Covers(s[j])
            PROVE  \E k \in 1 .. (n + 1) : x \in Span(e[k])
        <4>1. CASE j = i
          BY <1>2, <1>5, <3>1, <3>3, <4>1
        <4>2. CASE j \in 1 .. (i - 1)
          <5>1. PICK k \in 1 .. n : x \in Span(t[k])
            BY <2>1, <4>2
          <5> QED
            BY <3>1, <3>3, <5>1
        <4> QED
          BY <2>4, <4>1, <4>2
      <3> QED
        BY <1>2, <1>5, <3>1, <3>4, <3>5
    <2> QED
      BY <2>5, <2>6
  <1> QED
    BY <1>8, <1>9, <1>10, <1>O DEF Merged

\* multiwrite_req_compare is right about differences that fit into an int.
LEMMA CompareFacts ==
    ASSUME want \in [Reqs -> Wants], Comparable, NEW r \in Reqs, NEW q \in Reqs,
           multiwrite_req_compare(r, q) <= 0
    PROVE  want[r].sector <= want[q].sector
  <1>1. PICK a \in Nat, b \in Nat : a = want[r].sector /\ b = want[q].sector
    BY Constants DEF Wants, Sector
  <1>2. PICK R \in Nat \ {0} : R = IntRange
    BY Constants
  <1>3. a - b < R /\ b - a < R
    BY <1>1, <1>2 DEF Comparable
  <1>4. ((a - b + R) % (2 * R)) - R <= 0
    BY <1>1, <1>2 DEF multiwrite_req_compare
  <1>5. PICK d \in Int, e \in Int : d = a - b + R /\ e = 2 * R
    OBVIOUS
  <1>6. d \in 0 .. (e - 1) /\ e > 0
    BY <1>3, <1>5
  <1>7. d % e = d
    BY <1>6
  <1> QED
    BY <1>1, <1>4, <1>5, <1>7

\* What qsort leaves: every request of the batch, once, by sector as far as
\* multiwrite_req_compare can tell.
LEMMA SortedFacts ==
    ASSUME want \in [Reqs -> Wants], NEW S \in SUBSET Reqs, S # {}, NEW s \in Sorted(S)
    PROVE  /\ s \in Seq(Reqs) /\ s # << >> /\ Len(s) \in Nat \ {0}
           /\ \A i \in 1 .. Len(s) : s[i] \in S
           /\ \A i, j \in 1 .. Len(s) : i # j => s[i] # s[j]
           /\ \A r \in S : \E i \in 1 .. Len(s) : s[i] = r
           /\ Comparable => \A i \in 1 .. (Len(s) - 1) :
                               want[s[i]].sector <= want[s[i + 1]].sector
  <1>1. IsFiniteSet(S)
    BY Constants, FS_Subset
  <1>2. PICK n \in Nat : n = Cardinality(S)
    BY <1>1, FS_CardinalityType
  <1>3. n # 0
    BY <1>1, <1>2, FS_EmptySet
  <1>4. s \in [1 .. n -> S] /\ \A i, j \in 1 .. n : i # j => s[i] # s[j]
    BY <1>2 DEF Sorted, SetToSeqs
  <1>5. s \in Seq(S) /\ Len(s) = n
    BY <1>4
  <1>6. s \in Seq(Reqs)
    BY <1>5, SeqMonotonic
  <1>7. s # << >>
    BY <1>3, <1>5, EmptySeq
  <1>8. s \in Injection(1 .. n, S)
    BY <1>4 DEF Injection, IsInjective
  <1>9. Cardinality(1 .. n) = n
    BY <1>3, FS_Interval
  <1>10. s \in Surjection(1 .. n, S)
    BY <1>1, <1>2, <1>8, <1>9, FS_Injection
  <1>11. \A r \in S : \E i \in 1 .. n : s[i] = r
    BY <1>10 DEF Surjection
  <1>12. ASSUME Comparable, NEW i \in 1 .. (Len(s) - 1)
         PROVE  want[s[i]].sector <= want[s[i + 1]].sector
    <2>1. i \in 1 .. n /\ i + 1 \in 1 .. n
      BY <1>2, <1>5
    <2>2. s[i] \in Reqs /\ s[i + 1] \in Reqs
      BY <1>4, <2>1
    <2>3. multiwrite_req_compare(s[i], s[i + 1]) <= 0
      BY DEF Sorted
    <2> QED
      BY <1>12, <2>2, <2>3, CompareFacts
  <1> QED
    BY <1>3, <1>4, <1>5, <1>6, <1>7, <1>11, <1>12

\* multiwrite_merge does this round by round.
LEMMA MergeRounds ==
    ASSUME want \in [Reqs -> Wants], NEW s \in Seq(Reqs), s # << >>
    PROVE  \E g : /\ g = [i \in 1 .. Len(s) |-> IF i = 1 THEN <<BlockRequest(s[1])>>
                                                ELSE Extended(g[i - 1], s[i])]
                  /\ multiwrite_merge(s) = g[Len(s)]
  <1> DEFINE N == Len(s)
             x == <<BlockRequest(s[1])>>
             F == [i \in 1 .. N |-> [t \in Arrays |-> Extended(t, s[i])]]
  <1>1. N \in Nat \ {0} /\ \A i \in 1 .. N : s[i] \in Reqs
    BY LenProperties, ElementOfSeq, EmptySeq
  <1>2. x \in Arrays
    <2>1. Merged(s, 1, x)
      BY FirstMerged
    <2> HIDE DEF x
    <2> QED
      BY <2>1 DEF Merged, Arrays
  <1>3. F \in [1 .. N -> [Arrays -> Arrays]]
    <2>1. ASSUME NEW i \in 1 .. N, NEW t \in Arrays
          PROVE  Extended(t, s[i]) \in Arrays
      <3>1. IsExtension(t, s[i], Extended(t, s[i]))
        BY <1>1, ExtendedFacts DEF Arrays
      <3> QED
        BY <3>1 DEF IsExtension, Arrays
    <2> HIDE DEF N
    <2> QED
      BY <2>1
  <1>4. PICK g \in [1 .. N -> Arrays] : g = [i \in 1 .. N |-> IF i = 1 THEN x ELSE F[i][g[i - 1]]]
    <2>1. N \in Nat
      BY <1>1
    <2> HIDE DEF N, x, F
    <2> QED
      BY <1>2, <1>3, <2>1, MergingExists
  <1>5. \A i \in 1 .. N : i # 1 => F[i][g[i - 1]] = Extended(g[i - 1], s[i])
    <2>1. \A i \in 1 .. N : i # 1 => i - 1 \in 1 .. N
      BY <1>1
    <2>2. \A i \in 1 .. N : i # 1 => g[i - 1] \in Arrays
      BY <1>4, <2>1
    <2> HIDE DEF N
    <2> QED
      BY <2>2
  <1> DEFINE Round(h, i) ==
               LET b == BlockRequest(s[i]) IN
               IF i = 1 THEN <<b>>
               ELSE LET before == h[i - 1]  a == Last(before) IN
                    IF Mergeable(a, b) THEN Append(Front(before), Merge(a, b))
                                       ELSE Append(before, b)
  <1>6. \A h, i : Round(h, i) = IF i = 1 THEN x ELSE Extended(h[i - 1], s[i])
    BY DEF Extended
  <1>7. \E h : h = [i \in 1 .. N |-> Round(h, i)]
    <2> HIDE DEF N, F, x, Round
    <2>1. g = [i \in 1 .. N |-> Round(g, i)]
      BY <1>4, <1>5, <1>6
    <2> QED
      BY <2>1
  <1> DEFINE Whole == CHOOSE h : h = [i \in 1 .. N |-> Round(h, i)]
  <1>8. multiwrite_merge(s) = Whole[N]
    BY DEF multiwrite_merge
  <1>9. Whole = [i \in 1 .. N |-> Round(Whole, i)]
    <2> HIDE DEF N, Round
    <2> QED
      BY <1>7
  <1>10. Whole = [i \in 1 .. N |-> IF i = 1 THEN x ELSE Extended(Whole[i - 1], s[i])]
    <2> HIDE DEF N, Round, Whole, x
    <2> QED
      BY <1>6, <1>9
  <1> HIDE DEF Whole
  <1> QED
    BY <1>8, <1>10

(***************************************************************************)
(* The array bdrv_aio_multiwrite submits: requests that do not overlap     *)
(* are merged into writes that carry, for each of their sectors, what a    *)
(* request sent for it, and that leave out no sector of any request.       *)
(***************************************************************************)
LEMMA MergeCorrect ==
    ASSUME want \in [Reqs -> Wants], NEW S \in SUBSET Reqs, S # {}, NEW s \in Sorted(S)
    PROVE  Merged(s, Len(s), multiwrite_merge(s))
  <1>1. /\ s \in Seq(Reqs) /\ s # << >> /\ Len(s) \in Nat \ {0}
        /\ \A i, j \in 1 .. Len(s) : i # j => s[i] # s[j]
        /\ Comparable => \A i \in 1 .. (Len(s) - 1) :
                            want[s[i]].sector <= want[s[i + 1]].sector
    BY SortedFacts
  <1>2. PICK N \in Nat \ {0} : N = Len(s)
    BY <1>1
  <1>3. PICK g : /\ g = [i \in 1 .. N |-> IF i = 1 THEN <<BlockRequest(s[1])>>
                                          ELSE Extended(g[i - 1], s[i])]
                 /\ multiwrite_merge(s) = g[N]
    BY <1>1, <1>2, MergeRounds
  <1> DEFINE B == {i \in 1 .. N : ~Merged(s, i, g[i])}
  <1>4. SUFFICES ASSUME B # {}
                 PROVE  FALSE
    <2>1. N \in 1 .. N
      BY <1>2
    <2> QED
      BY <1>2, <1>3, <2>1
  <1>5. PICK i \in B : \A k \in B : i <= k
    <2>1. B \in SUBSET Nat
      OBVIOUS
    <2> HIDE DEF B
    <2> QED
      BY <1>4, <2>1, LeastNatural
  <1>6. i \in 1 .. N /\ i \in Nat /\ ~Merged(s, i, g[i])
    BY <1>5
  <1>7. i # 1
    <2>1. 1 \in 1 .. N
      BY <1>2
    <2>2. g[1] = <<BlockRequest(s[1])>>
      BY <1>3, <2>1
    <2>3. Merged(s, 1, g[1])
      BY <1>1, <2>2, FirstMerged
    <2> QED
      BY <1>6, <2>3
  <1>8. PICK j \in 1 .. N : j = i - 1
    BY <1>6, <1>7
  <1>9. Merged(s, j, g[j])
    <2>1. ~(i <= j)
      BY <1>6, <1>8
    <2> QED
      BY <1>5, <2>1
  <1>10. g[i] = Extended(g[i - 1], s[i])
    BY <1>3, <1>6, <1>7
  <1>11. s[i - 1] # s[i] /\ (Comparable => want[s[i - 1]].sector <= want[s[i]].sector)
    <2>1. j # i /\ j \in 1 .. (Len(s) - 1) /\ j + 1 = i
      BY <1>2, <1>6, <1>8
    <2> QED
      BY <1>1, <1>2, <1>6, <1>8, <2>1
  <1>12. i \in 2 .. Len(s)
    BY <1>2, <1>6, <1>7
  <1>13. Merged(s, i - 1, g[i - 1])
    BY <1>8, <1>9
  <1>14. Merged(s, i, g[i])
    BY <1>1, <1>10, <1>11, <1>12, <1>13, NextMerged
  <1> QED
    BY <1>6, <1>14

-----------------------------------------------------------------------------
(* The effects of the steps.                                               *)

Base == ShapeInv /\ BatchInv /\ QueueInv /\ CountInv

LEMMA SameWant ==
    ASSUME want' = want
    PROVE  /\ Separate' = Separate
           /\ \A r \in Reqs : Covers(r)' = Covers(r)
           /\ \A x : Right(x)' = Right(x)
           /\ \A m : Honest(m)' = Honest(m)
  <1>1. \A r : Covers(r)' = Covers(r)
    BY DEF Covers
  <1>2. \A x : Right(x)' = Right(x)
    BY DEF Right, Covers
  <1>3. Separate' = Separate
    BY DEF Separate, Disjoint, Comparable, Covers
  <1>4. \A m : Honest(m)' = Honest(m)
    BY DEF Honest, Right, Covers
  <1> QED
    BY <1>1, <1>2, <1>3, <1>4

LEMMA LastBatchFacts ==
    ASSUME BatchInv
    PROVE  /\ LastBatch \in 0 .. MaxBatches
           /\ \A g \in Batch : Used(g) <=> g <= LastBatch
  <1>1. PICK L \in 0 .. MaxBatches : {g \in Batch : Used(g)} = 1 .. L
    BY DEF BatchInv
  <1>2. L \in Nat /\ L <= MaxBatches
    BY <1>1, Constants
  <1>3. Cardinality(1 .. L) = L
    BY <1>2, FS_Interval
  <1>4. LastBatch = L
    BY <1>1, <1>3 DEF LastBatch
  <1>5. \A g \in Batch : g \in 1 .. L <=> g <= L
    BY <1>2, Constants DEF Batch
  <1> QED
    BY <1>1, <1>4, <1>5

\* A step that calls nobody new keeps the batches.
LEMMA SameBatches ==
    ASSUME \A g \in Batch : mcb'[g].callbacks = mcb[g].callbacks
    PROVE  /\ LastBatch' = LastBatch
           /\ \A g \in Batch : Used(g)' <=> Used(g)
           /\ {g \in Batch : Used(g)}' = {g \in Batch : Used(g)}
  <1>1. \A g \in Batch : Used(g)' <=> Used(g)
    BY DEF Used
  <1>2. {g \in Batch : Used(g)}' = {g \in Batch : Used(g)}
    BY <1>1
  <1>3. LastBatch' = LastBatch
    BY <1>2 DEF LastBatch
  <1> QED
    BY <1>1, <1>2, <1>3

\* The fields of a MultiwriteCB.
LEMMA McbRecord ==
    ASSUME NEW e, NEW n, NEW C, NEW q, NEW f, NEW x, NEW y, NEW z, NEW v,
           v = [error |-> e, num_requests |-> n, callbacks |-> C, free_qiov |-> q, freed |-> f]
    PROVE  /\ v.error = e /\ v.num_requests = n /\ v.callbacks = C
           /\ v.free_qiov = q /\ v.freed = f
           /\ [v EXCEPT !.error = x] =
                 [error |-> x, num_requests |-> n, callbacks |-> C, free_qiov |-> q, freed |-> f]
           /\ [v EXCEPT !.num_requests = x] =
                 [error |-> e, num_requests |-> x, callbacks |-> C, free_qiov |-> q, freed |-> f]
           /\ [v EXCEPT !.free_qiov = x] =
                 [error |-> e, num_requests |-> n, callbacks |-> C, free_qiov |-> x, freed |-> f]
           /\ [v EXCEPT !.freed = x] =
                 [error |-> e, num_requests |-> n, callbacks |-> C, free_qiov |-> q, freed |-> x]
           /\ [v EXCEPT !.callbacks = x, !.free_qiov = y] =
                 [error |-> e, num_requests |-> n, callbacks |-> x, free_qiov |-> y, freed |-> f]
           /\ [v EXCEPT !.error = x, !.num_requests = y, !.freed = z] =
                 [error |-> x, num_requests |-> y, callbacks |-> C, free_qiov |-> q, freed |-> z]
  <1>1. v.error = e /\ v.num_requests = n /\ v.callbacks = C /\ v.free_qiov = q /\ v.freed = f
    OBVIOUS
  <1>2. /\ [v EXCEPT !.error = x] =
              [error |-> x, num_requests |-> n, callbacks |-> C, free_qiov |-> q, freed |-> f]
        /\ [v EXCEPT !.num_requests = x] =
              [error |-> e, num_requests |-> x, callbacks |-> C, free_qiov |-> q, freed |-> f]
    OBVIOUS
  <1>3. /\ [v EXCEPT !.free_qiov = x] =
              [error |-> e, num_requests |-> n, callbacks |-> C, free_qiov |-> x, freed |-> f]
        /\ [v EXCEPT !.freed = x] =
              [error |-> e, num_requests |-> n, callbacks |-> C, free_qiov |-> q, freed |-> x]
    OBVIOUS
  <1>4. ASSUME NEW w, w = [v EXCEPT !.callbacks = x, !.free_qiov = y]
        PROVE  w = [error |-> e, num_requests |-> n, callbacks |-> x, free_qiov |-> y, freed |-> f]
    BY <1>4
  <1>5. ASSUME NEW w, w = [v EXCEPT !.error = x, !.num_requests = y, !.freed = z]
        PROVE  w = [error |-> x, num_requests |-> y, callbacks |-> C, free_qiov |-> q, freed |-> z]
    BY <1>5
  <1> QED
    BY <1>1, <1>2, <1>3, <1>4, <1>5

\* The array handed to the loop.
LEMMA ArrayFacts ==
    ASSUME want \in [Reqs -> Wants], NEW S \in SUBSET Reqs, S # {}, NEW s \in Sorted(S),
           NEW g \in Batch, NEW a, a = Array(s, multiwrite_merge(s), g)
    PROVE  /\ a \in Seq(Pieces) /\ a # << >>
           /\ \A i \in 1 .. Len(a) : a[i].gen = g /\ a[i].opaque \in S /\ a[i].own \subseteq S
           /\ \A i, j \in 1 .. Len(a) : i # j => a[i].opaque # a[j].opaque
           /\ Separate =>
                 /\ \A i \in 1 .. Len(a) : Honest(a[i])
                 /\ \A r \in S : \A x \in Covers(r) : \E i \in 1 .. Len(a) : x \in Span(a[i])
  <1>1. PICK m : m = multiwrite_merge(s)
    OBVIOUS
  <1>2. Merged(s, Len(s), m)
    BY <1>1, MergeCorrect
  <1>3. /\ s \in Seq(Reqs) /\ Len(s) \in Nat \ {0}
        /\ \A i \in 1 .. Len(s) : s[i] \in S
        /\ \A i, j \in 1 .. Len(s) : i # j => s[i] # s[j]
        /\ \A r \in S : \E i \in 1 .. Len(s) : s[i] = r
    BY SortedFacts
  <1>4. m \in Seq(Segments) /\ Len(m) \in 1 .. Len(s)
    BY <1>2 DEF Merged
  <1>5. PICK n \in Nat \ {0} : n = Len(m) /\ n <= Len(s)
    BY <1>3, <1>4
  <1>6. \A i \in 1 .. n : i \in 1 .. Len(s) /\ m[i] \in Segments
    BY <1>3, <1>4, <1>5, ElementOfSeq
  <1>7. a = [i \in 1 .. n |->
               [sector |-> m[i].sector, nb |-> m[i].nb, own |-> m[i].own,
                qiov |-> m[i].qiov, opaque |-> s[i], gen |-> g]]
    BY <1>1, <1>5 DEF Array
  <1>8. ASSUME NEW i \in 1 .. n
        PROVE  /\ a[i] \in Pieces /\ a[i].gen = g /\ a[i].opaque = s[i] /\ a[i].own = m[i].own
               /\ a[i].sector = m[i].sector /\ a[i].nb = m[i].nb /\ a[i].qiov = m[i].qiov
    <2>1. PICK v \in Segments : v = m[i]
      BY <1>6
    <2>2. /\ v.sector \in Nat /\ v.nb \in Nat /\ v.own \in SUBSET Reqs
          /\ v.qiov \in Seq(Reqs \X Nat)
      BY DEF Segments
    <2>3. PICK r \in Reqs : r = s[i]
      BY <1>3, <1>6
    <2>4. a[i] = [sector |-> v.sector, nb |-> v.nb, own |-> v.own, qiov |-> v.qiov,
                  opaque |-> r, gen |-> g]
      BY <1>7, <2>1, <2>3
    <2>5. a[i] \in Pieces
      BY <2>2, <2>4 DEF Pieces
    <2> QED
      BY <2>1, <2>3, <2>4, <2>5
  <1>9. a \in [1 .. n -> Pieces]
    BY <1>7, <1>8
  <1>10. a \in Seq(Pieces) /\ Len(a) = n
    BY <1>9
  <1>11. a # << >>
    BY <1>5, <1>10, EmptySeq
  <1>12. \A i, j \in 1 .. n : i # j => a[i].opaque # a[j].opaque
    BY <1>3, <1>6, <1>8
  <1>13. \A i \in 1 .. n : a[i].gen = g /\ a[i].opaque \in S /\ a[i].own \subseteq S
    <2>1. Elements(s) \subseteq S
      BY <1>3 DEF Elements
    <2>2. \A i \in 1 .. n : m[i].own \subseteq Elements(s)
      BY <1>2, <1>5 DEF Merged
    <2> QED
      BY <1>3, <1>6, <1>8, <2>1, <2>2
  <1>14. ASSUME Separate
         PROVE  /\ \A i \in 1 .. n : Honest(a[i])
                /\ \A r \in S : \A x \in Covers(r) : \E i \in 1 .. n : x \in Span(a[i])
    <2>1. \A i \in 1 .. n : Honest(m[i])
      BY <1>2, <1>5, <1>14 DEF Merged
    <2>2. \A i \in 1 .. n : (Honest(a[i]) <=> Honest(m[i])) /\ Span(a[i]) = Span(m[i])
      BY <1>8 DEF Honest, Span
    <2>3. ASSUME NEW r \in S, NEW x \in Covers(r)
          PROVE  \E i \in 1 .. n : x \in Span(a[i])
      <3>1. PICK j \in 1 .. Len(s) : s[j] = r
        BY <1>3
      <3>2. PICK i \in 1 .. n : x \in Span(m[i])
        BY <1>2, <1>5, <1>14, <3>1 DEF Merged
      <3> QED
        BY <2>2, <3>2
    <2> QED
      BY <2>1, <2>2, <2>3
  <1> QED
    BY <1>10, <1>11, <1>12, <1>13, <1>14

\* What issuing a batch comes to.
Issued(S, g) ==
    /\ g \in Batch /\ ~Used(g) /\ LastBatch' = g
    /\ mcb' \in [Batch -> Mcbs]
    /\ mcb'[g].error = FALSE /\ mcb'[g].num_requests = 0
    /\ mcb'[g].callbacks = S /\ mcb'[g].freed = FALSE
    /\ mcb'[g].free_qiov # "freed"
    /\ \A h \in Batch : h # g => mcb'[h] = mcb[h]
    /\ \A h \in Batch : Used(h)' <=> Used(h) \/ h = g
    /\ {h \in Batch : Used(h)}' = 1 .. g
    /\ reqs' \in Seq(Pieces) /\ reqs' # << >>
    /\ \A i \in 1 .. Len(reqs') :
          reqs'[i].gen = g /\ reqs'[i].opaque \in S /\ reqs'[i].own \subseteq S
    /\ \A i, j \in 1 .. Len(reqs') : i # j => reqs'[i].opaque # reqs'[j].opaque
    /\ Separate =>
          /\ \A i \in 1 .. Len(reqs') : Honest(reqs'[i])
          /\ \A r \in S : \A x \in Covers(r) : \E i \in 1 .. Len(reqs') : x \in Span(reqs'[i])
    /\ status' = [r \in Reqs |-> IF r \in S THEN "pending" ELSE status[r]]
    /\ UNCHANGED <<on_error, want, inflight, disk, fault, failures, refused, early, lost>>

LEMMA IssueFacts ==
    ASSUME Base, NEW S \in SUBSET Reqs, S # {}, bdrv_aio_multiwrite(S)
    PROVE  Issued(S, LastBatch + 1)
  <1>1. /\ LastBatch \in 0 .. MaxBatches
        /\ \A g \in Batch : Used(g) <=> g <= LastBatch
    BY LastBatchFacts DEF Base
  <1>2. PICK L \in Nat : L = LastBatch
    BY <1>1
  <1>3. PICK g \in Nat : g = L + 1
    BY <1>2
  <1>4. g \in Batch /\ ~Used(g)
    <2>1. L < MaxBatches
      BY <1>2 DEF bdrv_aio_multiwrite
    <2>2. g \in Batch /\ ~(g <= L)
      BY <1>2, <1>3, <2>1, Constants DEF Batch
    <2> QED
      BY <1>1, <1>2, <2>2
  <1>5. mcb \in [Batch -> Mcbs] /\ want \in [Reqs -> Wants]
    BY DEF Base, ShapeInv
  <1>7. PICK s \in Sorted(S), q \in {"none", "allocated"} :
              /\ reqs' = Array(s, multiwrite_merge(s), g)
              /\ mcb' = [mcb EXCEPT ![g] = [NoMcb EXCEPT !.callbacks = S, !.free_qiov = q]]
    BY <1>2, <1>3 DEF bdrv_aio_multiwrite
  <1>8. /\ mcb'[g] = [error |-> FALSE, num_requests |-> 0, callbacks |-> S,
                      free_qiov |-> q, freed |-> FALSE]
        /\ \A h \in Batch : h # g => mcb'[h] = mcb[h]
    <2>1. PICK no, v : no = FALSE /\ v = NoMcb
      OBVIOUS
    <2>2. v = [error |-> no, num_requests |-> 0, callbacks |-> {},
               free_qiov |-> "none", freed |-> no]
      BY <2>1 DEF NoMcb
    <2>3. PICK w : w = [v EXCEPT !.callbacks = S, !.free_qiov = q]
      OBVIOUS
    <2>4. w = [error |-> no, num_requests |-> 0, callbacks |-> S, free_qiov |-> q, freed |-> no]
      BY ONLY <2>2, <2>3
    <2> QED
      BY <1>4, <1>5, <1>7, <2>1, <2>3, <2>4
  <1>9. /\ mcb'[g].error = FALSE /\ mcb'[g].num_requests = 0
        /\ mcb'[g].callbacks = S /\ mcb'[g].freed = FALSE /\ mcb'[g] \in Mcbs
        /\ mcb'[g].free_qiov # "freed"
    <2>1. PICK w : w = [error |-> FALSE, num_requests |-> 0, callbacks |-> S,
                        free_qiov |-> q, freed |-> FALSE]
      OBVIOUS
    <2>2. w \in Mcbs
      BY <2>1 DEF Mcbs, QiovStates
    <2>3. w.error = FALSE /\ w.freed = FALSE
      BY <2>1, McbRecord
    <2>4. w.num_requests = 0 /\ w.callbacks = S /\ w.free_qiov = q
      BY <2>1
    <2>5. mcb'[g] = w
      BY <1>8, <2>1
    <2> QED
      BY <1>7, <2>2, <2>3, <2>4, <2>5
  <1>10. mcb' \in [Batch -> Mcbs]
    BY <1>5, <1>7, <1>8, <1>9
  <1>11. \A h \in Batch : Used(h)' <=> Used(h) \/ h = g
    BY <1>8, <1>9 DEF Used
  <1>12. {h \in Batch : Used(h)}' = 1 .. g
    <2>1. \A h \in Batch : Used(h)' <=> h <= g
      BY <1>1, <1>2, <1>3, <1>11, Constants DEF Batch
    <2>2. \A h : h \in Batch /\ h <= g <=> h \in 1 .. g
      BY <1>3, <1>4, Constants DEF Batch
    <2> QED
      BY <2>1, <2>2
  <1>13. LastBatch' = g
    <2>1. Cardinality(1 .. g) = g
      BY <1>3, FS_Interval
    <2> QED
      BY <1>12, <2>1 DEF LastBatch
  <1>15. PICK a : a = reqs'
    OBVIOUS
  <1>16. /\ a \in Seq(Pieces) /\ a # << >>
         /\ \A i \in 1 .. Len(a) : a[i].gen = g /\ a[i].opaque \in S /\ a[i].own \subseteq S
         /\ \A i, j \in 1 .. Len(a) : i # j => a[i].opaque # a[j].opaque
         /\ Separate =>
               /\ \A i \in 1 .. Len(a) : Honest(a[i])
               /\ \A r \in S : \A x \in Covers(r) : \E i \in 1 .. Len(a) : x \in Span(a[i])
    BY <1>4, <1>5, <1>7, <1>15, ArrayFacts
  <1>17. /\ status' = [r \in Reqs |-> IF r \in S THEN "pending" ELSE status[r]]
         /\ UNCHANGED <<on_error, want, inflight, disk, fault, failures, refused, early, lost>>
    BY DEF bdrv_aio_multiwrite, history
  <1>18. Issued(S, g)
    BY <1>4, <1>8, <1>9, <1>10, <1>11, <1>12, <1>13, <1>15, <1>16, <1>17 DEF Issued
  <1> QED
    BY <1>2, <1>3, <1>18

LEMMA IssueBase ==
    ASSUME Base, Idle, NEW S \in SUBSET Reqs, S # {}, NEW g, Issued(S, g),
           rq' \in SUBSET Reqs, running' \in BOOLEAN, ~running' => rq' # {}
    PROVE  Base'
  <1>1. g \in Batch /\ g \in Nat /\ ~Used(g) /\ LastBatch' = g
    BY Constants DEF Issued, Batch
  <1>2. ShapeInv'
    <2>1. status' \in [Reqs -> {"new", "pending", "stopped", "ok", "error"}]
      BY DEF Base, ShapeInv, Issued
    <2> QED
      BY <2>1 DEF Base, ShapeInv, Issued
  <1>3. BatchInv'
    <2>1. g \in 0 .. MaxBatches
      BY <1>1, Constants DEF Batch
    <2>2. \A h \in Batch : ~Used(h)' => (mcb[h] = NoMcb /\ failures[h] = 0 /\ h # g)
      BY DEF Issued, Base, BatchInv
    <2>3. \A h \in Batch : ~Used(h)' => mcb'[h] = NoMcb /\ failures'[h] = 0
      BY <2>2 DEF Issued
    <2>4. \E L \in 0 .. MaxBatches : {h \in Batch : Used(h)}' = 1 .. L
      BY <2>1 DEF Issued
    <2> QED
      BY <2>3, <2>4 DEF BatchInv
  <1>4. \A m \in inflight : m.gen \in Batch /\ m.gen # g /\ Used(m.gen)
    BY <1>1 DEF Base, ShapeInv, QueueInv, Pieces
  <1>5. inflight' = inflight /\ fault' = fault /\ fault = "none"
    BY DEF Issued, Idle
  <1>6. QueueInv'
    <2>1. \A m \in inflight' : /\ Used(m.gen)' /\ m.opaque \in mcb'[m.gen].callbacks
                               /\ m.own \subseteq mcb'[m.gen].callbacks
      BY <1>4, <1>5 DEF Issued, Base, QueueInv
    <2>2. Of(g)' = {}
      BY <1>4, <1>5 DEF Of
    <2>3. Used(g)' /\ mcb'[g].callbacks = S /\ ~mcb'[g].freed
      BY <1>1 DEF Issued
    <2>4. \A i \in 1 .. Len(reqs') :
             /\ reqs'[i].gen = g /\ reqs'[i].opaque \in S /\ reqs'[i].own \subseteq S
             /\ \A j \in 1 .. Len(reqs') : i # j => reqs'[i].opaque # reqs'[j].opaque
      BY DEF Issued
    <2> QED
      BY <1>1, <2>1, <2>2, <2>3, <2>4 DEF QueueInv
  <1>7. CountInv'
    <2>1. \A h \in Batch : Of(h)' = Of(h)
      BY <1>5 DEF Of
    <2>2. Of(g) = {} /\ Cardinality({}) = 0
      BY <1>4, FS_EmptySet DEF Of
    <2>3. \A h \in Batch : /\ mcb'[h].num_requests = Cardinality(Of(h))
                           /\ mcb'[h].freed => mcb'[h].num_requests = 0
      BY <1>5, <2>2 DEF Issued, Base, CountInv
    <2> QED
      BY <2>1, <2>3 DEF CountInv
  <1> QED
    BY <1>2, <1>3, <1>6, <1>7 DEF Base

\* virtio_blk_rw_complete.
Completes(S, err) ==
    /\ status' \in [Reqs -> {"new", "pending", "stopped", "ok", "error"}]
    /\ rq' \in SUBSET Reqs /\ running' \in BOOLEAN
    /\ ~running' => rq' # {}
    /\ \A r \in Reqs \ S : status'[r] = status[r]
    /\ \/ rq' = rq \cup S /\ \A r \in S : status'[r] = "stopped"
       \/ rq' = rq /\ \A r \in S : status'[r] \in {"ok", "error"}
    /\ err # "none" /\ on_error # "ignore" => \A r \in S : status'[r] # "ok"

LEMMA CompleteFacts ==
    ASSUME ShapeInv, BatchInv, NEW S \in SUBSET Reqs, S # {}, NEW err \in Results,
           virtio_blk_rw_complete(S, err)
    PROVE  Completes(S, err)
  <1>2. rq \in SUBSET Reqs /\ running \in BOOLEAN /\ (~running => rq # {})
    BY DEF ShapeInv, BatchInv
  <1>3. status \in [Reqs -> {"new", "pending", "stopped", "ok", "error"}]
    BY DEF ShapeInv
  <1>4. CASE Kept(err)
    <2>1. /\ status' = [r \in Reqs |-> IF r \notin S THEN status[r] ELSE "stopped"]
          /\ rq' = rq \cup S
      BY <1>4 DEF virtio_blk_rw_complete
    <2>2. running' = FALSE
      BY <1>4, Zenon DEF virtio_blk_rw_complete
    <2>3. status' \in [Reqs -> {"new", "pending", "stopped", "ok", "error"}]
      BY <1>3, <2>1
    <2>4. (\A r \in Reqs \ S : status'[r] = status[r]) /\ \A r \in S : status'[r] = "stopped"
      BY <2>1
    <2>5. rq' \in SUBSET Reqs /\ rq' # {}
      BY <1>2, <2>1
    <2> QED
      BY <2>1, <2>2, <2>3, <2>4, <2>5 DEF Completes
  <1>5. CASE ~Kept(err)
    <2>1. /\ status' = [r \in Reqs |-> IF r \notin S THEN status[r]
                          ELSE IF err # "none" /\ on_error # "ignore" THEN "error" ELSE "ok"]
          /\ rq' = rq
      BY <1>5 DEF virtio_blk_rw_complete
    <2>2. running' \in BOOLEAN /\ (running' = running)
      BY <1>2, <1>5, Zenon DEF virtio_blk_rw_complete
    <2>3. status' \in [Reqs -> {"new", "pending", "stopped", "ok", "error"}]
      BY <1>3, <2>1
    <2>4. /\ \A r \in Reqs \ S : status'[r] = status[r]
          /\ \A r \in S : status'[r] = IF err # "none" /\ on_error # "ignore"
                                       THEN "error" ELSE "ok"
      BY <2>1
    <2>6. ~running' => rq' # {}
      BY <1>2, <2>1, <2>2
    <2> QED
      BY <1>2, <2>1, <2>2, <2>3, <2>4, <2>6 DEF Completes
  <1> QED
    BY <1>4, <1>5

\* multiwrite_cb's changes to mcb.
LEMMA QiovsFreedFacts ==
    ASSUME NEW g \in Batch, mcb[g] \in Mcbs, NEW err \in Results
    PROVE  /\ QiovsFreed(g, err) \in QiovStates
           /\ ~Answers(g, err) => QiovsFreed(g, err) = mcb[g].free_qiov
  <1>1. mcb[g].free_qiov \in QiovStates
    BY DEF Mcbs
  <1> QED
    BY <1>1 DEF QiovsFreed, QiovStates

LEMMA CalledBackIs ==
    ASSUME NEW g \in Batch, NEW v \in Mcbs, v = mcb[g], NEW err \in Results,
           NEW e2 \in BOOLEAN, NEW f2 \in BOOLEAN,
           e2 <=> v.error \/ err # "none", f2 <=> v.num_requests = 1
    PROVE  CalledBack(g, err) =
              [error |-> e2, num_requests |-> v.num_requests - 1, callbacks |-> v.callbacks,
               free_qiov |-> QiovsFreed(g, err), freed |-> f2]
  <1>1. PICK e \in BOOLEAN, n \in Nat, C \in SUBSET Reqs, q \in QiovStates, f \in BOOLEAN :
              v = [error |-> e, num_requests |-> n, callbacks |-> C,
                   free_qiov |-> q, freed |-> f]
    BY DEF Mcbs
  <1>3. v.num_requests = n /\ v.callbacks = C
    BY <1>1
  <1>4. PICK one \in BOOLEAN, bad \in BOOLEAN :
            one = (v.num_requests = 1) /\ bad = (v.error \/ err # "none")
    BY Zenon
  <1>5. one = f2 /\ bad = e2
    BY <1>4, Zenon
  <1>6. AfterCb(v, err) = [error |-> bad, num_requests |-> n - 1, callbacks |-> C,
                           free_qiov |-> q, freed |-> one]
    <2>1. AfterCb(v, err) = [v EXCEPT !.error = bad, !.num_requests = n - 1, !.freed = one]
      BY <1>3, <1>4 DEF AfterCb
    <2> QED
      BY ONLY <1>1, <2>1, McbRecord
  <1>7. PICK z : z = AfterCb(v, err)
    OBVIOUS
  <1>8. PICK x : x = QiovsFreed(g, err)
    OBVIOUS
  <1>9. CalledBack(g, err) = [z EXCEPT !.free_qiov = x]
    BY <1>7, <1>8 DEF CalledBack
  <1>10. z = [error |-> e2, num_requests |-> n - 1, callbacks |-> C,
              free_qiov |-> q, freed |-> f2]
    BY <1>5, <1>6, <1>7
  <1>11. CalledBack(g, err) = [error |-> e2, num_requests |-> n - 1, callbacks |-> C,
                               free_qiov |-> x, freed |-> f2]
    BY ONLY <1>9, <1>10
  <1> QED
    BY <1>3, <1>8, <1>11

\* The place the loop is at.
LEMMA SubmitHead ==
    ASSUME Base, Submitting
    PROVE  /\ LastBatch \in Batch /\ Used(LastBatch) /\ ~mcb[LastBatch].freed
           /\ mcb[LastBatch] \in Mcbs
           /\ Req \in Pieces /\ Req = reqs[1] /\ Req.gen = LastBatch
           /\ Req.opaque \in mcb[LastBatch].callbacks /\ Req.own \subseteq mcb[LastBatch].callbacks
           /\ Len(reqs) \in Nat \ {0} /\ Tail(reqs) \in Seq(Pieces)
           /\ Len(Tail(reqs)) = Len(reqs) - 1
           /\ \A i \in 1 .. Len(Tail(reqs)) : Tail(reqs)[i] = reqs[i + 1] /\ i + 1 \in 1 .. Len(reqs)
           /\ mcb[LastBatch].num_requests = Cardinality(Of(LastBatch))
  <1>1. reqs \in Seq(Pieces) /\ reqs # << >> /\ fault = "none"
    BY DEF Base, ShapeInv, Submitting
  <1>2. Len(reqs) \in Nat \ {0} /\ 1 \in 1 .. Len(reqs)
    BY <1>1, EmptySeq
  <1>3. /\ Tail(reqs) \in Seq(Pieces) /\ Len(Tail(reqs)) = Len(reqs) - 1
        /\ \A i \in 1 .. Len(Tail(reqs)) : Tail(reqs)[i] = reqs[i + 1]
    BY <1>1, HeadTailProperties
  <1>4. \A i \in 1 .. Len(Tail(reqs)) : i + 1 \in 1 .. Len(reqs)
    BY <1>2, <1>3
  <1>5. Req = reqs[1] /\ Req \in Pieces
    BY <1>1, <1>2, ElementOfSeq DEF Req
  <1>6. /\ Req.gen = LastBatch /\ Used(LastBatch)
        /\ Req.opaque \in mcb[LastBatch].callbacks /\ ~mcb[LastBatch].freed
        /\ Req.own \subseteq mcb[LastBatch].callbacks
    BY <1>2, <1>5 DEF Base, QueueInv
  <1>7. LastBatch \in Batch
    BY <1>5, <1>6 DEF Pieces
  <1>8. mcb[LastBatch] \in Mcbs /\ mcb[LastBatch].num_requests = Cardinality(Of(LastBatch))
    BY <1>1, <1>7 DEF Base, ShapeInv, CountInv
  <1> QED
    BY <1>2, <1>3, <1>4, <1>5, <1>6, <1>7, <1>8

LEMMA KeepsBatches ==
    ASSUME BatchInv, \A g \in Batch : mcb'[g].callbacks = mcb[g].callbacks,
           \A g \in Batch : ~Used(g) => mcb'[g] = mcb[g] /\ failures'[g] = failures[g],
           ~running' => rq' # {}
    PROVE  BatchInv'
  <1>1. /\ \A g \in Batch : Used(g)' <=> Used(g)
        /\ {g \in Batch : Used(g)}' = {g \in Batch : Used(g)}
    BY SameBatches
  <1>2. \E L \in 0 .. MaxBatches : {g \in Batch : Used(g)}' = 1 .. L
    BY <1>1 DEF BatchInv
  <1>3. \A g \in Batch : ~Used(g)' => mcb'[g] = NoMcb /\ failures'[g] = 0
    BY <1>1 DEF BatchInv
  <1> QED
    BY <1>2, <1>3 DEF BatchInv

LEMMA TailQueue ==
    ASSUME Base, Submitting, reqs' = Tail(reqs), inflight' \in SUBSET (inflight \cup {Req}),
           \A g \in Batch : mcb'[g].callbacks = mcb[g].callbacks,
           fault' = "none" => ~mcb'[LastBatch].freed
    PROVE  QueueInv'
  <1>1. /\ LastBatch \in Batch /\ Used(LastBatch)
        /\ Req \in Pieces /\ Req = reqs[1] /\ Req.gen = LastBatch
        /\ Req.opaque \in mcb[LastBatch].callbacks /\ Req.own \subseteq mcb[LastBatch].callbacks
        /\ Len(reqs) \in Nat \ {0} /\ Len(Tail(reqs)) = Len(reqs) - 1
        /\ \A i \in 1 .. Len(Tail(reqs)) : Tail(reqs)[i] = reqs[i + 1] /\ i + 1 \in 1 .. Len(reqs)
    BY SubmitHead
  <1>2. LastBatch' = LastBatch /\ \A g \in Batch : Used(g)' <=> Used(g)
    BY SameBatches
  <1>3. QueueInv
    BY DEF Base
  <1>4. \A m \in inflight : m.gen \in Batch
    BY DEF Base, ShapeInv, Pieces
  <1>5. \A m \in inflight' : /\ Used(m.gen)' /\ m.opaque \in mcb'[m.gen].callbacks
                             /\ m.own \subseteq mcb'[m.gen].callbacks
    BY <1>1, <1>2, <1>3, <1>4 DEF QueueInv
  <1>6. ASSUME NEW i \in 1 .. Len(reqs')
        PROVE  /\ reqs'[i].gen = LastBatch /\ reqs'[i].opaque \in mcb'[LastBatch].callbacks
               /\ reqs'[i].own \subseteq mcb'[LastBatch].callbacks
               /\ \A j \in 1 .. Len(reqs') : i # j => reqs'[i].opaque # reqs'[j].opaque
               /\ \A m \in Of(LastBatch)' : m.opaque # reqs'[i].opaque
    <2>1. PICK k \in 1 .. Len(reqs) : k = i + 1 /\ reqs'[i] = reqs[k] /\ k # 1
      BY <1>1
    <2>2. /\ reqs[k].gen = LastBatch /\ reqs[k].opaque \in mcb[LastBatch].callbacks
          /\ reqs[k].own \subseteq mcb[LastBatch].callbacks
          /\ \A j \in 1 .. Len(reqs) : k # j => reqs[k].opaque # reqs[j].opaque
          /\ \A m \in Of(LastBatch) : m.opaque # reqs[k].opaque
      BY <1>3 DEF QueueInv
    <2>3. \A j \in 1 .. Len(reqs') : i # j =>
               reqs'[j] = reqs[j + 1] /\ j + 1 \in 1 .. Len(reqs) /\ j + 1 # k
      BY <1>1, <2>1
    <2>4. \A j \in 1 .. Len(reqs') : i # j => reqs'[i].opaque # reqs'[j].opaque
      BY <2>1, <2>2, <2>3
    <2>5. 1 \in 1 .. Len(reqs)
      BY <1>1
    <2>6. Req.opaque # reqs[k].opaque
      BY <1>1, <2>1, <2>2, <2>5
    <2>7. \A m \in Of(LastBatch)' : m \in Of(LastBatch) \/ m = Req
      BY <1>2 DEF Of
    <2> QED
      BY <1>1, <2>1, <2>2, <2>4, <2>6, <2>7
  <1>7. \A i \in 1 .. Len(reqs') : Used(LastBatch)'
    BY <1>1, <1>2
  <1>8. Submitting' => ~mcb'[LastBatch].freed
    BY DEF Submitting
  <1> QED
    BY <1>2, <1>5, <1>6, <1>7, <1>8 DEF QueueInv, Of

LEMMA EmptyQueue ==
    ASSUME Base, reqs' = << >>, inflight' \in SUBSET inflight,
           \A g \in Batch : mcb'[g].callbacks = mcb[g].callbacks
    PROVE  QueueInv'
  <1>1. LastBatch' = LastBatch /\ \A g \in Batch : Used(g)' <=> Used(g)
    BY SameBatches
  <1>2. \A m \in inflight : m.gen \in Batch
    BY DEF Base, ShapeInv, Pieces
  <1>3. \A m \in inflight' : /\ Used(m.gen)' /\ m.opaque \in mcb'[m.gen].callbacks
                             /\ m.own \subseteq mcb'[m.gen].callbacks
    BY <1>1, <1>2 DEF Base, QueueInv
  <1>4. Len(reqs') = 0 /\ ~Submitting'
    BY DEF Submitting
  <1>5. \A i \in 1 .. Len(reqs') : FALSE
    BY <1>4
  <1> QED
    BY <1>3, <1>4, <1>5 DEF QueueInv

LEMMA OfFinite ==
    ASSUME ShapeInv, NEW g
    PROVE  IsFiniteSet(Of(g)) /\ Cardinality(Of(g)) \in Nat
  <1>1. Of(g) \in SUBSET inflight
    BY DEF Of
  <1> QED
    BY <1>1, FS_Subset, FS_CardinalityType DEF ShapeInv

\* The driver takes a write.
Accepted(g) ==
    /\ g = LastBatch /\ g \in Batch /\ Used(g) /\ fault' = "none"
    /\ Req \in Pieces /\ Req.gen = g /\ Req.opaque \in mcb[g].callbacks
    /\ reqs' = Tail(reqs) /\ inflight' = inflight \cup {Req} /\ Req \notin inflight
    /\ mcb' \in [Batch -> Mcbs]
    /\ \A h \in Batch : h # g => mcb'[h] = mcb[h]
    /\ (mcb'[g].error <=> mcb[g].error) /\ mcb'[g].callbacks = mcb[g].callbacks
    /\ ~mcb'[g].freed /\ ~mcb[g].freed /\ mcb'[g].num_requests = mcb[g].num_requests + 1
    /\ mcb'[g].free_qiov = mcb[g].free_qiov
    /\ UNCHANGED <<on_error, want, status, rq, running, disk, failures, refused, early, lost>>

LEMMA AcceptedFacts ==
    ASSUME Base, SubmitAccepted
    PROVE  Accepted(LastBatch)
  <1>1. Submitting
    BY DEF SubmitAccepted
  <1>2. /\ LastBatch \in Batch /\ Used(LastBatch) /\ ~mcb[LastBatch].freed
        /\ mcb[LastBatch] \in Mcbs
        /\ Req \in Pieces /\ Req = reqs[1] /\ Req.gen = LastBatch
        /\ Req.opaque \in mcb[LastBatch].callbacks
        /\ Len(reqs) \in Nat \ {0}
    BY <1>1, SubmitHead
  <1>3. PICK g \in Batch : g = LastBatch
    BY <1>2
  <1>4. /\ mcb' = [mcb EXCEPT ![g].num_requests = @ + 1]
        /\ reqs' = Tail(reqs) /\ inflight' = inflight \cup {Req}
        /\ fault' = IF mcb[g].freed THEN "mcb" ELSE "none"
        /\ UNCHANGED <<on_error, want, status, rq, running, disk, failures, refused, early, lost>>
    BY <1>3 DEF SubmitAccepted, Counted, reqVars, history
  <1>5. PICK v \in Mcbs : v = mcb[g]
    BY <1>2, <1>3
  <1>6. mcb \in [Batch -> Mcbs]
    BY DEF Base, ShapeInv
  <1>7. mcb'[g] = [v EXCEPT !.num_requests = @ + 1] /\ \A h \in Batch : h # g => mcb'[h] = mcb[h]
    BY <1>4, <1>5, <1>6
  <1>8. PICK e \in BOOLEAN, n \in Nat, C \in SUBSET Reqs, q \in QiovStates, f \in BOOLEAN :
              v = [error |-> e, num_requests |-> n, callbacks |-> C,
                   free_qiov |-> q, freed |-> f]
    BY DEF Mcbs
  <1>a. v.error = e /\ v.num_requests = n /\ v.callbacks = C /\ v.free_qiov = q /\ v.freed = f
    BY ONLY <1>8, McbRecord
  <1>b. PICK w : w = mcb'[g]
    OBVIOUS
  <1>9. w = [error |-> e, num_requests |-> n + 1, callbacks |-> C,
             free_qiov |-> q, freed |-> f]
    BY <1>7, <1>8, <1>b
  <1>10. w.error = e /\ w.num_requests = n + 1 /\ w.callbacks = C /\ w.free_qiov = q
         /\ w.freed = f
    BY ONLY <1>9, McbRecord
  <1>12. w \in Mcbs
    BY <1>9 DEF Mcbs
  <1>13. mcb' \in [Batch -> Mcbs]
    BY <1>4, <1>6, <1>7, <1>b, <1>12
  <1>14. Req \notin inflight
    <2>1. 1 \in 1 .. Len(reqs)
      BY <1>2
    <2> QED
      BY <1>2, <2>1 DEF Base, QueueInv, Of
  <1>15. (mcb'[g].error <=> mcb[g].error) /\ ~mcb'[g].freed /\ ~mcb[g].freed
    BY <1>2, <1>3, <1>5, <1>a, <1>b, <1>10, Zenon
  <1>16. /\ mcb'[g].num_requests = mcb[g].num_requests + 1
         /\ mcb'[g].callbacks = mcb[g].callbacks /\ mcb'[g].free_qiov = mcb[g].free_qiov
    BY <1>5, <1>a, <1>b, <1>10
  <1> QED
    BY <1>2, <1>3, <1>4, <1>7, <1>13, <1>14, <1>15, <1>16 DEF Accepted

LEMMA AcceptedBase ==
    ASSUME Base, Submitting, NEW g, Accepted(g)
    PROVE  Base'
  <1>1. /\ g = LastBatch /\ g \in Batch /\ Used(g) /\ fault' = "none"
        /\ Req \in Pieces /\ Req.gen = g
        /\ reqs' = Tail(reqs) /\ inflight' = inflight \cup {Req} /\ Req \notin inflight
        /\ \A h \in Batch : h # g => mcb'[h] = mcb[h]
        /\ mcb'[g].callbacks = mcb[g].callbacks
        /\ ~mcb'[g].freed /\ ~mcb[g].freed /\ mcb'[g].num_requests = mcb[g].num_requests + 1
    BY DEF Accepted
  <1>2. \A h \in Batch : mcb'[h].callbacks = mcb[h].callbacks
    BY <1>1
  <1>3. ShapeInv'
    <2>1. Tail(reqs) \in Seq(Pieces)
      BY SubmitHead
    <2>2. inflight' \in SUBSET Pieces /\ IsFiniteSet(inflight')
      BY <1>1, FS_AddElement DEF Base, ShapeInv
    <2> QED
      BY <2>1, <2>2 DEF Accepted, Base, ShapeInv
  <1>4. BatchInv'
    <2>1. BatchInv /\ \A h \in Batch : ~Used(h) => mcb'[h] = mcb[h] /\ failures'[h] = failures[h]
      BY <1>1 DEF Accepted, Base
    <2>2. ~running' => rq' # {}
      BY DEF Accepted, Base, BatchInv
    <2> QED
      BY <1>2, <2>1, <2>2, KeepsBatches
  <1>5. QueueInv'
    BY <1>1, <1>2, TailQueue
  <1>6. CountInv'
    <2>1. Of(g)' = Of(g) \cup {Req} /\ Req \notin Of(g)
      BY <1>1 DEF Of
    <2>2. \A h \in Batch : h # g => Of(h)' = Of(h)
      BY <1>1 DEF Of
    <2>3. ShapeInv /\ CountInv /\ fault = "none"
      BY DEF Base, Submitting
    <2>4. IsFiniteSet(Of(g)) /\ Cardinality(Of(g)) \in Nat
      BY <2>3, OfFinite
    <2>5. Cardinality(Of(g) \cup {Req}) = Cardinality(Of(g)) + 1
      BY <2>1, <2>4, FS_AddElement
    <2>6. \A h \in Batch : /\ mcb[h].num_requests = Cardinality(Of(h))
                           /\ mcb[h].freed => mcb[h].num_requests = 0
      BY <2>3 DEF CountInv
    <2>7. \A h \in Batch : /\ mcb'[h].num_requests = Cardinality(Of(h)')
                           /\ mcb'[h].freed => mcb'[h].num_requests = 0
      BY <1>1, <2>1, <2>2, <2>5, <2>6
    <2> QED
      BY <2>7 DEF CountInv
  <1> QED
    BY <1>3, <1>4, <1>5, <1>6 DEF Base

\* bdrv_aio_writev returns NULL.
Refused(g) ==
    /\ g = LastBatch /\ g \in Batch /\ Used(g) /\ ~mcb[g].freed /\ reqs' = << >>
    /\ Req.opaque \in mcb[g].callbacks
    /\ mcb' \in [Batch -> Mcbs]
    /\ \A h \in Batch : h # g => mcb'[h] = mcb[h]
    /\ mcb'[g].callbacks = mcb[g].callbacks
    /\ mcb'[g].num_requests = mcb[g].num_requests
    /\ \/ /\ mcb[g].num_requests = 0 /\ mcb'[g].freed
          /\ Completes({Req.opaque}, "EIO") /\ fault' = Misused({Req.opaque})
          /\ (mcb'[g].error <=> mcb[g].error)
       \/ /\ mcb[g].num_requests # 0 /\ mcb'[g].error /\ ~mcb'[g].freed
          /\ UNCHANGED <<status, rq, running, fault>>
    /\ mcb'[g].free_qiov = mcb[g].free_qiov
    /\ refused' \in [Batch -> BOOLEAN]
    /\ UNCHANGED <<on_error, want, inflight, disk, failures, early, lost>>

LEMMA RefusedFacts ==
    ASSUME Base, SubmitRefused
    PROVE  Refused(LastBatch)
  <1>1. Submitting
    BY DEF SubmitRefused
  <1>2. /\ LastBatch \in Batch /\ Used(LastBatch) /\ ~mcb[LastBatch].freed
        /\ mcb[LastBatch] \in Mcbs /\ Req.opaque \in mcb[LastBatch].callbacks
    BY <1>1, SubmitHead
  <1>3. PICK g \in Batch : g = LastBatch
    BY <1>2
  <1>4. PICK v \in Mcbs : v = mcb[g]
    BY <1>2, <1>3
  <1>5. PICK e \in BOOLEAN, n \in Nat, C \in SUBSET Reqs, q \in QiovStates, f \in BOOLEAN :
              v = [error |-> e, num_requests |-> n, callbacks |-> C,
                   free_qiov |-> q, freed |-> f]
    BY DEF Mcbs
  <1>6. v.error = e /\ v.freed = f
    BY ONLY <1>5, McbRecord
  <1>7. v.num_requests = n /\ v.callbacks = C /\ v.free_qiov = q
    BY ONLY <1>5, McbRecord
  <1>8. mcb \in [Batch -> Mcbs] /\ ShapeInv /\ BatchInv
    BY DEF Base, ShapeInv
  <1>9. refused' \in [Batch -> BOOLEAN]
    <2>1. refused \in [Batch -> BOOLEAN]
      BY DEF Base, ShapeInv
    <2>2. refused' = [refused EXCEPT ![LastBatch] = TRUE]
      BY DEF SubmitRefused
    <2> QED
      BY <2>1, <2>2
  <1>10. reqs' = << >> /\ UNCHANGED <<on_error, want, inflight, disk, failures, early, lost>>
    BY DEF SubmitRefused
  <1>11. CASE n = 0
    <2>1. /\ virtio_blk_rw_complete({Req.opaque}, "EIO")
          /\ fault' = Misused({Req.opaque})
          /\ mcb' = [mcb EXCEPT ![g].freed = TRUE]
      BY <1>3, <1>4, <1>7, <1>11 DEF SubmitRefused
    <2>2. mcb'[g] = [v EXCEPT !.freed = TRUE] /\ \A h \in Batch : h # g => mcb'[h] = mcb[h]
      BY <1>4, <1>8, <2>1
    <2>3. PICK w : w = mcb'[g]
      OBVIOUS
    <2>4. w = [error |-> e, num_requests |-> n, callbacks |-> C,
               free_qiov |-> q, freed |-> TRUE]
      BY <1>5, <2>2, <2>3
    <2>5. w.error = e /\ w.freed = TRUE
      BY ONLY <2>4, McbRecord
    <2>6. w.num_requests = n /\ w.callbacks = C /\ w.free_qiov = q /\ w \in Mcbs
      BY <2>4 DEF Mcbs
    <2>7. mcb' \in [Batch -> Mcbs]
      BY <1>8, <2>1, <2>2, <2>3, <2>6
    <2>8. Completes({Req.opaque}, "EIO")
      <3>1. {Req.opaque} \in SUBSET Reqs /\ {Req.opaque} # {} /\ "EIO" \in Results
        BY <1>2, <1>3, <1>4, <1>7 DEF Results
      <3> QED
        BY <1>8, <2>1, <3>1, CompleteFacts
    <2>9. mcb'[g].freed /\ (mcb'[g].error <=> mcb[g].error)
      BY <1>4, <1>6, <2>3, <2>5, Zenon
    <2> QED
      BY <1>2, <1>3, <1>4, <1>7, <1>9, <1>10, <1>11, <2>1, <2>2, <2>3, <2>6, <2>7, <2>8, <2>9
      DEF Refused
  <1>12. CASE n # 0
    <2>1. /\ mcb' = [mcb EXCEPT ![g].error = TRUE]
          /\ UNCHANGED <<status, rq, running, fault>>
      BY <1>3, <1>4, <1>7, <1>12 DEF SubmitRefused
    <2>2. mcb'[g] = [v EXCEPT !.error = TRUE] /\ \A h \in Batch : h # g => mcb'[h] = mcb[h]
      BY <1>4, <1>8, <2>1
    <2>3. PICK w : w = mcb'[g]
      OBVIOUS
    <2>4. w = [error |-> TRUE, num_requests |-> n, callbacks |-> C,
               free_qiov |-> q, freed |-> f]
      BY <1>5, <2>2, <2>3
    <2>5. w.error = TRUE /\ w.freed = f
      BY ONLY <2>4, McbRecord
    <2>6. w.num_requests = n /\ w.callbacks = C /\ w.free_qiov = q /\ w \in Mcbs
      BY <2>4 DEF Mcbs
    <2>7. mcb' \in [Batch -> Mcbs]
      BY <1>8, <2>1, <2>2, <2>3, <2>6
    <2>8. mcb'[g].error /\ ~mcb'[g].freed
      BY <1>2, <1>3, <1>4, <1>6, <2>3, <2>5, Zenon
    <2> QED
      BY <1>2, <1>3, <1>4, <1>7, <1>9, <1>10, <1>12, <2>1, <2>2, <2>3, <2>6, <2>7, <2>8
      DEF Refused
  <1> QED
    BY <1>11, <1>12

LEMMA RefusedBase ==
    ASSUME Base, Submitting, NEW g, Refused(g)
    PROVE  Base'
  <1>1. /\ g \in Batch /\ Used(g) /\ ~mcb[g].freed /\ reqs' = << >> /\ inflight' = inflight
        /\ \A h \in Batch : h # g => mcb'[h] = mcb[h]
        /\ mcb'[g].callbacks = mcb[g].callbacks
        /\ mcb'[g].num_requests = mcb[g].num_requests
        /\ mcb[g].num_requests = 0 \/ ~mcb'[g].freed
    BY DEF Refused
  <1>2. \A h \in Batch : mcb'[h].callbacks = mcb[h].callbacks
    BY <1>1
  <1>3. /\ status' \in [Reqs -> {"new", "pending", "stopped", "ok", "error"}]
        /\ rq' \in SUBSET Reqs /\ running' \in BOOLEAN
        /\ ~running' => rq' # {}
    <2>1. CASE Completes({Req.opaque}, "EIO")
      BY <2>1 DEF Completes
    <2>2. CASE UNCHANGED <<status, rq, running, fault>>
      BY <2>2 DEF Base, ShapeInv, BatchInv
    <2> QED
      BY <2>1, <2>2 DEF Refused
  <1>4. ShapeInv'
    <2>1. << >> \in Seq(Pieces)
      BY EmptySeq
    <2> QED
      BY <1>3, <2>1 DEF Refused, Base, ShapeInv
  <1>5. BatchInv'
    <2>1. BatchInv /\ \A h \in Batch : ~Used(h) => mcb'[h] = mcb[h] /\ failures'[h] = failures[h]
      BY <1>1 DEF Refused, Base
    <2> QED
      BY <1>2, <1>3, <2>1, KeepsBatches
  <1>6. QueueInv'
    BY <1>1, <1>2, EmptyQueue
  <1>7. CountInv'
    <2>1. \A h \in Batch : Of(h)' = Of(h)
      BY <1>1 DEF Of
    <2>2. \A h \in Batch : /\ mcb[h].num_requests = Cardinality(Of(h))
                           /\ mcb[h].freed => mcb[h].num_requests = 0
      BY DEF Base, CountInv, Submitting
    <2>3. \A h \in Batch : /\ mcb'[h].num_requests = Cardinality(Of(h)')
                           /\ mcb'[h].freed => mcb'[h].num_requests = 0
      BY <1>1, <2>1, <2>2
    <2> QED
      BY <2>3 DEF CountInv
  <1> QED
    BY <1>4, <1>5, <1>6, <1>7 DEF Base

\* It calls back before it returns.
Early(g, err) ==
    /\ g = LastBatch /\ g \in Batch /\ Used(g) /\ reqs' = Tail(reqs)
    /\ mcb' \in [Batch -> Mcbs]
    /\ \A h \in Batch : h # g => mcb'[h] = mcb[h]
    /\ mcb'[g].callbacks = mcb[g].callbacks
    /\ mcb'[g].num_requests = mcb[g].num_requests
    /\ fault' # "mcb" => ~mcb'[g].freed
    /\ IF err = "none" THEN lost'[g] ELSE mcb'[g].error
    /\ IF Answers(g, err) THEN Completes(mcb[g].callbacks, err)
       ELSE UNCHANGED <<status, rq, running>>
    /\ failures' \in [Batch -> Nat] /\ \A h \in Batch : h # g => failures'[h] = failures[h]
    /\ early' \in [Batch -> SUBSET Results] /\ early'[g] # {}
    /\ lost' \in [Batch -> BOOLEAN] /\ \A h \in Batch : lost[h] => lost'[h]
    /\ UNCHANGED <<on_error, want, inflight, disk, refused>>

LEMMA EarlyFacts ==
    ASSUME Base, Submitting, NEW err \in Results, CalledBackEarly(LastBatch, err),
           IF err = "none"
           THEN failures' = failures /\ lost' = [lost EXCEPT ![LastBatch] = TRUE]
           ELSE failures' = [failures EXCEPT ![LastBatch] = @ + 1] /\ lost' = lost,
           UNCHANGED <<on_error, want, inflight, disk, refused>>
    PROVE  Early(LastBatch, err)
  <1>2. /\ LastBatch \in Batch /\ Used(LastBatch) /\ mcb[LastBatch] \in Mcbs
    BY SubmitHead
  <1>3. PICK g \in Batch : g = LastBatch
    BY <1>2
  <1>4. PICK v \in Mcbs : v = mcb[g]
    BY <1>2, <1>3
  <1>6. PICK n \in Nat, C \in SUBSET Reqs : v.num_requests = n /\ v.callbacks = C
    BY DEF Mcbs
  <1>7. mcb \in [Batch -> Mcbs] /\ ShapeInv /\ BatchInv
    BY DEF Base, ShapeInv
  <1>8. /\ mcb' = [mcb EXCEPT ![g] = [CalledBack(g, err) EXCEPT !.num_requests = @ + 1]]
        /\ multiwrite_user_cb(g, err)
        /\ fault' = IF LastOne(g) THEN "mcb" ELSE UserCbFault(g, err)
        /\ early' = [early EXCEPT ![g] = @ \cup {err}]
        /\ reqs' = Tail(reqs)
    BY <1>3 DEF CalledBackEarly
  <1>9. PICK w, z, q : w = mcb'[g] /\ z = CalledBack(g, err) /\ q = QiovsFreed(g, err)
    OBVIOUS
  <1>10. PICK e2 \in BOOLEAN, f2 \in BOOLEAN :
            (e2 <=> v.error \/ err # "none") /\ (f2 <=> v.num_requests = 1)
    BY Zenon
  <1>11. z = [error |-> e2, num_requests |-> n - 1, callbacks |-> C,
              free_qiov |-> q, freed |-> f2]
    BY <1>4, <1>6, <1>9, <1>10, CalledBackIs
  <1>12. w = [z EXCEPT !.num_requests = z.num_requests + 1]
    BY <1>7, <1>8, <1>9
  <1>13. w = [error |-> e2, num_requests |-> n, callbacks |-> C,
              free_qiov |-> q, freed |-> f2]
    <2>1. z.num_requests = n - 1 /\ (n - 1) + 1 = n
      BY <1>11
    <2>2. w = [z EXCEPT !.num_requests = n]
      BY <1>12, <2>1
    <2> QED
      BY ONLY <1>11, <2>2
  <1>14. /\ w.error = e2 /\ w.num_requests = n /\ w.callbacks = C /\ w.free_qiov = q
         /\ w.freed = f2
    BY ONLY <1>13, McbRecord
  <1>15. w \in Mcbs
    <2>1. q \in QiovStates
      BY <1>4, <1>9, QiovsFreedFacts
    <2> QED
      BY <1>13, <2>1 DEF Mcbs
  <1>16. (err # "none" => mcb'[g].error) /\ (mcb'[g].freed => n = 1)
    BY <1>6, <1>9, <1>10, <1>14
  <1>17. fault' # "mcb" => n # 1
    BY <1>4, <1>6, <1>8 DEF LastOne
  <1>18. mcb' \in [Batch -> Mcbs] /\ \A h \in Batch : h # g => mcb'[h] = mcb[h]
    BY <1>7, <1>8, <1>9, <1>15
  <1>19. IF Answers(g, err) THEN Completes(mcb[g].callbacks, err)
         ELSE UNCHANGED <<status, rq, running>>
    <2>1. mcb[g].callbacks \in SUBSET Reqs /\ mcb[g].callbacks # {}
      BY <1>2, <1>3, <1>4, <1>6 DEF Used
    <2>2. CASE Answers(g, err)
      BY <1>7, <1>8, <2>1, <2>2, CompleteFacts DEF multiwrite_user_cb
    <2>3. CASE ~Answers(g, err)
      BY <1>8, <2>3 DEF multiwrite_user_cb
    <2> QED
      BY <2>2, <2>3
  <1>20. /\ failures' \in [Batch -> Nat] /\ \A h \in Batch : h # g => failures'[h] = failures[h]
    BY <1>3, <1>7 DEF ShapeInv
  <1>21. early' \in [Batch -> SUBSET Results] /\ early'[g] # {}
    BY <1>7, <1>8 DEF ShapeInv
  <1>22. /\ lost' \in [Batch -> BOOLEAN] /\ \A h \in Batch : lost[h] => lost'[h]
         /\ err = "none" => lost'[g]
    <2>1. lost \in [Batch -> BOOLEAN]
      BY <1>7 DEF ShapeInv
    <2> QED
      BY <1>3, <2>1
  <1>23. mcb'[g].callbacks = mcb[g].callbacks /\ mcb'[g].num_requests = mcb[g].num_requests
    BY <1>4, <1>6, <1>9, <1>14
  <1> QED
    BY <1>2, <1>3, <1>8, <1>16, <1>17, <1>18, <1>19, <1>20, <1>21, <1>22, <1>23 DEF Early

LEMMA EarlyBase ==
    ASSUME Base, Submitting, NEW g, NEW err, Early(g, err)
    PROVE  Base'
  <1>1. /\ g = LastBatch /\ g \in Batch /\ Used(g) /\ reqs' = Tail(reqs) /\ inflight' = inflight
        /\ \A h \in Batch : h # g => mcb'[h] = mcb[h]
        /\ mcb'[g].callbacks = mcb[g].callbacks
        /\ mcb'[g].num_requests = mcb[g].num_requests
        /\ fault' # "mcb" => ~mcb'[g].freed
        /\ \A h \in Batch : h # g => failures'[h] = failures[h]
    BY DEF Early
  <1>2. \A h \in Batch : mcb'[h].callbacks = mcb[h].callbacks
    BY <1>1
  <1>a. /\ status' \in [Reqs -> {"new", "pending", "stopped", "ok", "error"}]
        /\ rq' \in SUBSET Reqs /\ running' \in BOOLEAN
        /\ ~running' => rq' # {}
    <2>1. CASE Completes(mcb[g].callbacks, err)
      BY <2>1 DEF Completes
    <2>2. CASE UNCHANGED <<status, rq, running>>
      BY <2>2 DEF Base, ShapeInv, BatchInv
    <2> QED
      BY <2>1, <2>2 DEF Early
  <1>3. ShapeInv'
    <2>1. Tail(reqs) \in Seq(Pieces)
      BY SubmitHead
    <2> QED
      BY <1>a, <2>1 DEF Early, Base, ShapeInv
  <1>4. BatchInv'
    <2>1. BatchInv /\ \A h \in Batch : ~Used(h) => mcb'[h] = mcb[h] /\ failures'[h] = failures[h]
      BY <1>1 DEF Base
    <2> QED
      BY <1>2, <1>a, <2>1, KeepsBatches
  <1>5. QueueInv'
    BY <1>1, <1>2, TailQueue
  <1>6. CountInv'
    <2>1. \A h \in Batch : Of(h)' = Of(h)
      BY <1>1 DEF Of
    <2>2. \A h \in Batch : /\ mcb[h].num_requests = Cardinality(Of(h))
                           /\ mcb[h].freed => mcb[h].num_requests = 0
      BY DEF Base, CountInv, Submitting
    <2>3. fault' # "mcb" =>
             \A h \in Batch : /\ mcb'[h].num_requests = Cardinality(Of(h)')
                              /\ mcb'[h].freed => mcb'[h].num_requests = 0
      BY <1>1, <2>1, <2>2
    <2> QED
      BY <2>3 DEF CountInv
  <1> QED
    BY <1>3, <1>4, <1>5, <1>6 DEF Base

\* The completion of a write with err: WriteDone, WriteFails and WriteLost.
Ended(m, err) ==
    /\ Idle /\ inflight' = inflight \ {m} /\ multiwrite_cb(m.gen, err)
    /\ failures' = IF err # "none" THEN [failures EXCEPT ![m.gen] = @ + 1] ELSE failures
    /\ lost' = lost \/ lost' = [lost EXCEPT ![m.gen] = TRUE]
    /\ \E n \in 0 .. m.nb : disk' = Written(m, n) /\ (err = "none" /\ ~lost'[m.gen] => n = m.nb)
    /\ UNCHANGED <<on_error, want, reqs, refused, early>>

LEMMA CompletionEnds ==
    ASSUME Base, NEW m \in inflight, WriteDone(m) \/ WriteFails(m) \/ WriteLost(m)
    PROVE  \E err \in Results : Ended(m, err)
  <1>1. m.nb \in Nat /\ m.nb \in 0 .. m.nb /\ \A n \in 0 .. (m.nb - 1) : n \in 0 .. m.nb
    BY DEF Base, ShapeInv, Pieces
  <1>2. CASE WriteDone(m)
    <2>1. /\ Idle /\ inflight' = inflight \ {m} /\ multiwrite_cb(m.gen, "none")
          /\ disk' = Written(m, m.nb)
          /\ UNCHANGED <<on_error, want, reqs, refused, early, failures, lost>>
      BY <1>2 DEF WriteDone, history
    <2>2. Ended(m, "none")
      BY <1>1, <2>1 DEF Ended
    <2> QED
      BY <2>2 DEF Results
  <1>3. CASE WriteFails(m)
    <2>1. /\ Idle /\ inflight' = inflight \ {m}
          /\ failures' = [failures EXCEPT ![m.gen] = @ + 1]
          /\ UNCHANGED <<on_error, want, reqs, refused, early, lost>>
      BY <1>3 DEF WriteFails
    <2>2. PICK err \in Errors : multiwrite_cb(m.gen, err)
      BY <1>3 DEF WriteFails
    <2>3. PICK n \in 0 .. (m.nb - 1) : disk' = Written(m, n)
      BY <1>3 DEF WriteFails
    <2>4. err \in Results /\ err # "none"
      BY DEF Errors, Results
    <2>5. Ended(m, err)
      BY <1>1, <2>1, <2>2, <2>3, <2>4 DEF Ended
    <2> QED
      BY <2>4, <2>5
  <1>4. CASE WriteLost(m)
    <2>1. /\ Idle /\ inflight' = inflight \ {m} /\ multiwrite_cb(m.gen, "none")
          /\ lost' = [lost EXCEPT ![m.gen] = TRUE]
          /\ UNCHANGED <<on_error, want, reqs, refused, early, failures>>
      BY <1>4 DEF WriteLost
    <2>2. PICK n \in 0 .. (m.nb - 1) : disk' = Written(m, n)
      BY <1>4 DEF WriteLost
    <2>3. lost'[m.gen]
      BY <2>1 DEF Base, ShapeInv, Pieces
    <2>4. Ended(m, "none")
      BY <1>1, <2>1, <2>2, <2>3 DEF Ended
    <2> QED
      BY <2>4 DEF Results
  <1> QED
    BY <1>2, <1>3, <1>4

Completed(m, err) ==
    /\ m \in inflight /\ m.gen \in Batch /\ Used(m.gen) /\ ~mcb[m.gen].freed
    /\ fault = "none" /\ reqs = << >> /\ reqs' = << >> /\ inflight' = inflight \ {m}
    /\ mcb' \in [Batch -> Mcbs]
    /\ \A h \in Batch : h # m.gen => mcb'[h] = mcb[h]
    /\ mcb'[m.gen].callbacks = mcb[m.gen].callbacks
    /\ mcb'[m.gen].error <=> mcb[m.gen].error \/ err # "none"
    /\ mcb'[m.gen].freed <=> mcb[m.gen].num_requests = 1
    /\ mcb[m.gen].num_requests \in Nat \ {0}
    /\ mcb'[m.gen].num_requests = mcb[m.gen].num_requests - 1
    /\ ~Answers(m.gen, err) => mcb'[m.gen].free_qiov = mcb[m.gen].free_qiov
    /\ IF Answers(m.gen, err) THEN Completes(mcb[m.gen].callbacks, err)
       ELSE UNCHANGED <<status, rq, running>>
    /\ fault' = UserCbFault(m.gen, err)
    /\ failures' = IF err # "none" THEN [failures EXCEPT ![m.gen] = @ + 1] ELSE failures
    /\ \E n \in 0 .. m.nb : disk' = Written(m, n) /\ (err = "none" /\ ~lost'[m.gen] => n = m.nb)
    /\ lost' \in [Batch -> BOOLEAN] /\ \A h \in Batch : lost[h] => lost'[h]
    /\ UNCHANGED <<on_error, want, refused, early>>

LEMMA CompletedFacts ==
    ASSUME Base, NEW m \in inflight, NEW err \in Results, Ended(m, err)
    PROVE  Completed(m, err)
  <1>1. /\ Idle /\ inflight' = inflight \ {m} /\ multiwrite_cb(m.gen, err)
        /\ UNCHANGED <<on_error, want, reqs, refused, early>>
        /\ failures' = IF err # "none" THEN [failures EXCEPT ![m.gen] = @ + 1] ELSE failures
        /\ lost' = lost \/ lost' = [lost EXCEPT ![m.gen] = TRUE]
    BY DEF Ended
  <1>2. PICK g \in Batch : g = m.gen
    BY DEF Base, ShapeInv, Pieces
  <1>4. \E n \in 0 .. m.nb : disk' = Written(m, n) /\ (err = "none" /\ ~lost'[m.gen] => n = m.nb)
    BY DEF Ended
  <1>5. ShapeInv /\ BatchInv /\ mcb \in [Batch -> Mcbs] /\ fault = "none" /\ reqs = << >>
    BY <1>1 DEF Base, ShapeInv, Idle
  <1>6. /\ mcb[g].num_requests = Cardinality(Of(g))
        /\ mcb[g].freed => mcb[g].num_requests = 0
        /\ Used(g)
    BY <1>2, <1>5 DEF Base, CountInv, QueueInv
  <1>7. mcb[g].num_requests \in Nat \ {0}
    <2>1. m \in Of(g)
      BY <1>2 DEF Of
    <2>2. IsFiniteSet(Of(g)) /\ Cardinality(Of(g)) \in Nat
      BY <1>5, OfFinite
    <2> QED
      BY <1>6, <2>1, <2>2, FS_EmptySet
  <1>8. ~mcb[g].freed
    BY <1>6, <1>7
  <1>9. /\ mcb' = [mcb EXCEPT ![g] = CalledBack(g, err)] /\ multiwrite_user_cb(g, err)
        /\ fault' = UserCbFault(g, err)
    BY <1>1, <1>2, <1>8 DEF multiwrite_cb
  <1>10. PICK v \in Mcbs : v = mcb[g]
    BY <1>5
  <1>11. PICK w, q : w = mcb'[g] /\ w = CalledBack(g, err) /\ q = QiovsFreed(g, err)
    BY <1>5, <1>9
  <1>12. PICK n \in Nat \ {0}, C \in SUBSET Reqs : v.num_requests = n /\ v.callbacks = C
    BY <1>7, <1>10 DEF Mcbs
  <1>13. PICK e2 \in BOOLEAN, f2 \in BOOLEAN :
            (e2 <=> v.error \/ err # "none") /\ (f2 <=> v.num_requests = 1)
    BY Zenon
  <1>14. w = [error |-> e2, num_requests |-> n - 1, callbacks |-> C,
              free_qiov |-> q, freed |-> f2]
    BY <1>10, <1>11, <1>12, <1>13, CalledBackIs
  <1>15. /\ w.error = e2 /\ w.num_requests = n - 1 /\ w.callbacks = C /\ w.free_qiov = q
         /\ w.freed = f2
    BY ONLY <1>14, McbRecord
  <1>16. q \in QiovStates /\ (~Answers(g, err) => q = mcb[g].free_qiov)
    BY <1>10, <1>11, QiovsFreedFacts
  <1>17. w \in Mcbs
    <2>1. n - 1 \in Nat
      BY <1>12
    <2> QED
      BY <1>14, <1>16, <2>1 DEF Mcbs
  <1>18. mcb' \in [Batch -> Mcbs] /\ \A h \in Batch : h # g => mcb'[h] = mcb[h]
    BY <1>5, <1>9, <1>11, <1>17
  <1>19. IF Answers(g, err) THEN Completes(mcb[g].callbacks, err)
         ELSE UNCHANGED <<status, rq, running>>
    <2>1. mcb[g].callbacks \in SUBSET Reqs /\ mcb[g].callbacks # {}
      BY <1>5, <1>6 DEF Used, Mcbs
    <2>2. CASE Answers(g, err)
      BY <1>5, <1>9, <2>1, <2>2, CompleteFacts DEF multiwrite_user_cb
    <2>3. CASE ~Answers(g, err)
      BY <1>9, <2>3 DEF multiwrite_user_cb
    <2> QED
      BY <2>2, <2>3
  <1>20. /\ (mcb'[g].error <=> mcb[g].error \/ err # "none")
         /\ (mcb'[g].freed <=> mcb[g].num_requests = 1)
    BY <1>10, <1>11, <1>13, <1>15
  <1>21. /\ mcb'[g].callbacks = mcb[g].callbacks
         /\ mcb'[g].num_requests = mcb[g].num_requests - 1
         /\ (~Answers(g, err) => mcb'[g].free_qiov = mcb[g].free_qiov)
    BY <1>10, <1>11, <1>12, <1>15, <1>16
  <1>22. lost' \in [Batch -> BOOLEAN] /\ \A h \in Batch : lost[h] => lost'[h]
    <2>1. lost \in [Batch -> BOOLEAN]
      BY <1>5 DEF ShapeInv
    <2> QED
      BY <1>1, <1>2, <2>1
  <1> QED
    BY <1>1, <1>2, <1>4, <1>5, <1>6, <1>7, <1>8, <1>9, <1>18, <1>19, <1>20, <1>21, <1>22
    DEF Completed

LEMMA CompletedBase ==
    ASSUME Base, NEW m, NEW err \in Results, Completed(m, err)
    PROVE  Base'
  <1>1. PICK g \in Batch : g = m.gen
    BY DEF Completed
  <1>2. /\ m \in inflight /\ Used(g) /\ reqs' = << >> /\ inflight' = inflight \ {m}
        /\ \A h \in Batch : h # g => mcb'[h] = mcb[h]
        /\ mcb'[g].callbacks = mcb[g].callbacks
        /\ mcb'[g].freed <=> mcb[g].num_requests = 1
        /\ mcb[g].num_requests \in Nat \ {0}
        /\ mcb'[g].num_requests = mcb[g].num_requests - 1
        /\ fault = "none"
    BY <1>1 DEF Completed
  <1>3. \A h \in Batch : mcb'[h].callbacks = mcb[h].callbacks
    BY <1>2
  <1>4. /\ status' \in [Reqs -> {"new", "pending", "stopped", "ok", "error"}]
        /\ rq' \in SUBSET Reqs /\ running' \in BOOLEAN
        /\ ~running' => rq' # {}
    <2>1. CASE Completes(mcb[m.gen].callbacks, err)
      BY <2>1 DEF Completes
    <2>2. CASE UNCHANGED <<status, rq, running>>
      BY <2>2 DEF Base, ShapeInv, BatchInv
    <2> QED
      BY <2>1, <2>2 DEF Completed
  <1>5. failures' \in [Batch -> Nat] /\ \A h \in Batch : h # g => failures'[h] = failures[h]
    <2>1. failures \in [Batch -> Nat]
      BY DEF Base, ShapeInv
    <2>2. failures' = IF err # "none" THEN [failures EXCEPT ![g] = @ + 1] ELSE failures
      BY <1>1 DEF Completed
    <2> QED
      BY <2>1, <2>2
  <1>6. disk' \in [Sector -> (Reqs \X Nat) \cup {Old, Garbage}]
    <2>1. PICK n \in 0 .. m.nb : disk' = Written(m, n)
      BY DEF Completed
    <2>2. disk \in [Sector -> (Reqs \X Nat) \cup {Old, Garbage}] /\ m \in Pieces
      BY <1>2 DEF Base, ShapeInv
    <2>3. m.sector \in Nat /\ m.qiov \in Seq(Reqs \X Nat)
      BY <2>2 DEF Pieces
    <2>4. n \in Nat
      BY <2>2 DEF Pieces
    <2>5. ASSUME NEW s \in Sector, s \in m.sector .. (m.sector + n - 1),
                 s - m.sector < Len(m.qiov)
          PROVE  m.qiov[s - m.sector + 1] \in Reqs \X Nat
      <3>1. PICK sm \in Nat : sm = m.sector
        BY <2>3
      <3>2. Len(m.qiov) \in Nat
        BY <2>3, LenProperties
      <3>3. s \in sm .. (sm + n - 1) /\ s - sm < Len(m.qiov)
        BY <2>5, <3>1
      <3>4. s - sm + 1 \in 1 .. Len(m.qiov)
        BY <2>4, <3>2, <3>3
      <3> QED
        BY <2>3, <3>1, <3>4, ElementOfSeq
    <2> QED
      BY <2>1, <2>2, <2>5 DEF Written
  <1>7. ShapeInv'
    <2>1. << >> \in Seq(Pieces)
      BY EmptySeq
    <2>2. inflight' \in SUBSET Pieces /\ IsFiniteSet(inflight')
      BY <1>2, FS_RemoveElement DEF Base, ShapeInv
    <2> QED
      BY <1>4, <1>5, <1>6, <2>1, <2>2 DEF Completed, Base, ShapeInv
  <1>8. BatchInv'
    <2>1. BatchInv /\ \A h \in Batch : ~Used(h) => mcb'[h] = mcb[h] /\ failures'[h] = failures[h]
      BY <1>2, <1>5 DEF Base
    <2> QED
      BY <1>3, <1>4, <2>1, KeepsBatches
  <1>9. QueueInv'
    BY <1>2, <1>3, EmptyQueue
  <1>10. CountInv'
    <2>1. Of(g)' = Of(g) \ {m} /\ m \in Of(g)
      BY <1>1, <1>2 DEF Of
    <2>2. \A h \in Batch : h # g => Of(h)' = Of(h)
      BY <1>1, <1>2 DEF Of
    <2>3. ShapeInv /\ CountInv
      BY DEF Base
    <2>4. IsFiniteSet(Of(g)) /\ Cardinality(Of(g)) \in Nat
      BY <2>3, OfFinite
    <2>5. Cardinality(Of(g) \ {m}) = Cardinality(Of(g)) - 1
      BY <2>1, <2>4, FS_RemoveElement
    <2>6. \A h \in Batch : /\ mcb[h].num_requests = Cardinality(Of(h))
                           /\ mcb[h].freed => mcb[h].num_requests = 0
      BY <1>2, <2>3 DEF CountInv
    <2>7. \A h \in Batch : /\ mcb'[h].num_requests = Cardinality(Of(h)')
                           /\ mcb'[h].freed => mcb'[h].num_requests = 0
      <3> TAKE h \in Batch
      <3>1. CASE h # g
        BY <1>2, <2>2, <2>6, <3>1
      <3>2. CASE h = g
        <4>1. mcb'[g].num_requests = Cardinality(Of(g)')
          BY <1>2, <2>1, <2>5, <2>6
        <4>2. mcb'[g].freed => mcb'[g].num_requests = 0
          BY <1>2
        <4> QED
          BY <3>2, <4>1, <4>2
      <3> QED
        BY <3>1, <3>2
    <2> QED
      BY <2>7 DEF CountInv
  <1> QED
    BY <1>7, <1>8, <1>9, <1>10 DEF Base

-----------------------------------------------------------------------------
(* Requests are not touched after they were answered.                      *)

LEMMA IssueSafe ==
    ASSUME Base, SafeInv, Idle, NEW S \in SUBSET Reqs, NEW g, Issued(S, g),
           \A r \in S : status[r] # "pending",
           \A r \in rq' : r \in rq \ S
    PROVE  SafeInv'
  <1>1. SUFFICES ASSUME Orderly'
                 PROVE  /\ fault' \in {"none", "qiov"}
                        /\ \A r \in rq' : status'[r] = "stopped"
                        /\ \A h \in Batch : failures'[h] = 1 => mcb'[h].error
                        /\ \A h \in Batch : Callable(h)' =>
                              /\ mcb'[h].free_qiov # "freed"
                              /\ \A r \in mcb'[h].callbacks : status'[r] = "pending"
                        /\ \A h, k \in Batch : Callable(h)' /\ Callable(k)' /\ h # k =>
                              mcb'[h].callbacks \cap mcb'[k].callbacks = {}
                        /\ reqs' # << >> => Callable(LastBatch)'
    BY DEF SafeInv
  <1>2. Orderly
    BY <1>1 DEF Orderly, Issued
  <1>3. /\ \A r \in rq : status[r] = "stopped"
        /\ \A h \in Batch : failures[h] = 1 => mcb[h].error
        /\ \A h \in Batch : Callable(h) =>
              /\ mcb[h].free_qiov # "freed"
              /\ \A r \in mcb[h].callbacks : status[r] = "pending"
        /\ \A h, k \in Batch : Callable(h) /\ Callable(k) /\ h # k =>
                                  mcb[h].callbacks \cap mcb[k].callbacks = {}
    BY <1>2 DEF SafeInv
  <1>4. /\ g \in Batch /\ ~Used(g) /\ LastBatch' = g
        /\ mcb'[g].callbacks = S /\ mcb'[g].freed = FALSE /\ mcb'[g].free_qiov # "freed"
        /\ \A h \in Batch : h # g => mcb'[h] = mcb[h]
        /\ \A h \in Batch : Used(h)' <=> Used(h) \/ h = g
        /\ fault' = "none" /\ failures' = failures
        /\ status' = [r \in Reqs |-> IF r \in S THEN "pending" ELSE status[r]]
    BY DEF Issued, Idle
  <1>5. failures[g] = 0
    BY <1>4 DEF Base, BatchInv
  <1>6. \A h \in Batch : h # g => (Callable(h)' <=> Callable(h))
    BY <1>4 DEF Callable
  <1>7. Callable(g)'
    BY <1>4, <1>5 DEF Callable
  <1>8. \A h \in Batch : mcb[h].callbacks \in SUBSET Reqs
    BY DEF Base, ShapeInv, Mcbs
  <1>9. \A h \in Batch : Callable(h) => mcb[h].callbacks \cap S = {}
    BY <1>3
  <1>10. \A h \in Batch : Callable(h)' => /\ mcb'[h].free_qiov # "freed"
                                          /\ \A r \in mcb'[h].callbacks : status'[r] = "pending"
    BY <1>3, <1>4, <1>6, <1>8
  <1>11. \A h, k \in Batch : Callable(h)' /\ Callable(k)' /\ h # k =>
                              mcb'[h].callbacks \cap mcb'[k].callbacks = {}
    BY <1>3, <1>4, <1>6, <1>9
  <1>12. \A r \in rq' : status'[r] = "stopped"
    <2>1. rq \in SUBSET Reqs
      BY DEF Base, ShapeInv
    <2> QED
      BY <1>3, <1>4, <2>1
  <1>13. \A h \in Batch : failures'[h] = 1 => mcb'[h].error
    BY <1>3, <1>4, <1>5
  <1> QED
    BY <1>3, <1>4, <1>7, <1>10, <1>11, <1>12, <1>13

\* A step that frees, fails and calls nobody.
LEMMA QuietSafe ==
    ASSUME Base, SafeInv, NEW g \in Batch,
           UNCHANGED <<status, rq, failures, early>>, fault = "none", fault' = "none",
           \A h \in Batch : h # g => mcb'[h] = mcb[h],
           mcb'[g].callbacks = mcb[g].callbacks, mcb[g].error => mcb'[g].error,
           mcb'[g].free_qiov = mcb[g].free_qiov,
           ~mcb'[g].freed => ~mcb[g].freed,
           reqs' # << >> => reqs # << >> /\ ~mcb'[LastBatch].freed
    PROVE  SafeInv'
  <1>1. SUFFICES ASSUME Orderly'
                 PROVE  /\ fault' \in {"none", "qiov"}
                        /\ \A r \in rq' : status'[r] = "stopped"
                        /\ \A h \in Batch : failures'[h] = 1 => mcb'[h].error
                        /\ \A h \in Batch : Callable(h)' =>
                              /\ mcb'[h].free_qiov # "freed"
                              /\ \A r \in mcb'[h].callbacks : status'[r] = "pending"
                        /\ \A h, k \in Batch : Callable(h)' /\ Callable(k)' /\ h # k =>
                              mcb'[h].callbacks \cap mcb'[k].callbacks = {}
                        /\ reqs' # << >> => Callable(LastBatch)'
    BY DEF SafeInv
  <1>2. Orderly
    BY <1>1 DEF Orderly
  <1>3. /\ \A r \in rq : status[r] = "stopped"
        /\ \A h \in Batch : failures[h] = 1 => mcb[h].error
        /\ \A h \in Batch : Callable(h) =>
              /\ mcb[h].free_qiov # "freed"
              /\ \A r \in mcb[h].callbacks : status[r] = "pending"
        /\ \A h, k \in Batch : Callable(h) /\ Callable(k) /\ h # k =>
                                  mcb[h].callbacks \cap mcb[k].callbacks = {}
        /\ reqs # << >> => Callable(LastBatch)
    BY <1>2 DEF SafeInv
  <1>4. \A h \in Batch : mcb'[h].callbacks = mcb[h].callbacks
    OBVIOUS
  <1>5. LastBatch' = LastBatch /\ \A h \in Batch : Used(h)' <=> Used(h)
    BY <1>4, SameBatches
  <1>6. \A h \in Batch : Callable(h)' => Callable(h)
    BY <1>5 DEF Callable
  <1>7. \A h \in Batch : failures'[h] = 1 => mcb'[h].error
    BY <1>3
  <1>8. ASSUME reqs' # << >>
        PROVE  Callable(LastBatch)'
    <2>1. Callable(LastBatch)
      BY <1>3, <1>8
    <2>2. PICK L \in Batch : L = LastBatch
      BY <1>8, SubmitHead DEF Submitting
    <2>3. ~mcb'[L].freed /\ Used(L)'
      BY <1>5, <1>8, <2>1, <2>2 DEF Callable
    <2> QED
      BY <1>5, <2>1, <2>2, <2>3 DEF Callable
  <1> QED
    BY <1>3, <1>4, <1>6, <1>7, <1>8

\* The callbacks of S are called, batch g has been freed or has failed.
LEMMA AnswerSafe ==
    ASSUME Base, SafeInv, NEW g \in Batch, NEW S \in SUBSET Reqs, NEW err, Completes(S, err),
           Orderly' => Orderly /\ Callable(g) /\ ~Callable(g)' /\ S \subseteq mcb[g].callbacks,
           Misused(S) = "none" /\ mcb[g].free_qiov # "freed" => fault' = "none",
           reqs' = << >>,
           \A h \in Batch : h # g => mcb'[h] = mcb[h] /\ failures'[h] = failures[h],
           mcb'[g].callbacks = mcb[g].callbacks,
           failures'[g] = 1 => mcb'[g].error
    PROVE  SafeInv'
  <1>1. SUFFICES ASSUME Orderly'
                 PROVE  /\ fault' \in {"none", "qiov"}
                        /\ \A r \in rq' : status'[r] = "stopped"
                        /\ \A h \in Batch : failures'[h] = 1 => mcb'[h].error
                        /\ \A h \in Batch : Callable(h)' =>
                              /\ mcb'[h].free_qiov # "freed"
                              /\ \A r \in mcb'[h].callbacks : status'[r] = "pending"
                        /\ \A h, k \in Batch : Callable(h)' /\ Callable(k)' /\ h # k =>
                              mcb'[h].callbacks \cap mcb'[k].callbacks = {}
    BY DEF SafeInv
  <1>2. Orderly /\ Callable(g) /\ ~Callable(g)' /\ S \subseteq mcb[g].callbacks
    BY <1>1
  <1>3. /\ \A r \in rq : status[r] = "stopped"
        /\ \A h \in Batch : failures[h] = 1 => mcb[h].error
        /\ \A h \in Batch : Callable(h) =>
              /\ mcb[h].free_qiov # "freed"
              /\ \A r \in mcb[h].callbacks : status[r] = "pending"
        /\ \A h, k \in Batch : Callable(h) /\ Callable(k) /\ h # k =>
                                  mcb[h].callbacks \cap mcb[k].callbacks = {}
    BY <1>2 DEF SafeInv
  <1>4. \A h \in Batch : mcb'[h].callbacks = mcb[h].callbacks
    OBVIOUS
  <1>5. \A h \in Batch : Used(h)' <=> Used(h)
    BY <1>4, SameBatches
  <1>6. \A h \in Batch : Callable(h)' => Callable(h) /\ h # g
    BY <1>2, <1>5 DEF Callable
  <1>7. \A r \in S : status[r] = "pending"
    BY <1>2, <1>3
  <1>8. fault' = "none"
    <2>1. Misused(S) = "none"
      BY <1>7 DEF Misused, Freed
    <2> QED
      BY <1>2, <1>3, <2>1
  <1>9. \A h \in Batch : mcb[h].callbacks \in SUBSET Reqs
    BY DEF Base, ShapeInv, Mcbs
  <1>10. ASSUME NEW h \in Batch, Callable(h)', NEW r \in mcb'[h].callbacks
         PROVE  mcb'[h].free_qiov # "freed" /\ status'[r] = "pending"
    <2>1. Callable(h) /\ h # g /\ r \in mcb[h].callbacks
      BY <1>4, <1>6, <1>10
    <2>2. r \in Reqs \ S /\ status[r] = "pending"
      BY <1>2, <1>3, <1>9, <2>1
    <2>3. mcb'[h].free_qiov # "freed"
      BY <1>3, <2>1
    <2> QED
      BY <2>2, <2>3 DEF Completes
  <1>11. \A r \in rq' : status'[r] = "stopped"
    <2>1. rq \in SUBSET Reqs /\ \A r \in rq : r \notin S
      BY <1>3, <1>7 DEF Base, ShapeInv
    <2>2. \A r \in rq : status'[r] = "stopped"
      BY <1>3, <2>1 DEF Completes
    <2> QED
      BY <2>2 DEF Completes
  <1>12. \A h \in Batch : failures'[h] = 1 => mcb'[h].error
    BY <1>3
  <1>13. \A h \in Batch : Callable(h)' => mcb'[h].free_qiov # "freed"
    BY <1>3, <1>6
  <1> QED
    BY <1>3, <1>4, <1>6, <1>8, <1>10, <1>11, <1>12, <1>13

LEMMA AcceptedSafe ==
    ASSUME Base, SafeInv, Submitting, NEW g, Accepted(g)
    PROVE  SafeInv'
  <1>1. /\ g = LastBatch /\ g \in Batch /\ fault = "none" /\ fault' = "none"
        /\ UNCHANGED <<status, rq, failures, early>>
        /\ \A h \in Batch : h # g => mcb'[h] = mcb[h]
        /\ mcb'[g].callbacks = mcb[g].callbacks /\ (mcb[g].error => mcb'[g].error)
        /\ mcb'[g].free_qiov = mcb[g].free_qiov
        /\ ~mcb'[g].freed /\ ~mcb[g].freed /\ reqs # << >>
    BY DEF Accepted, Submitting
  <1> QED
    BY <1>1, QuietSafe

LEMMA RefusedSafe ==
    ASSUME Base, SafeInv, Submitting, NEW g, Refused(g)
    PROVE  SafeInv'
  <1>1. /\ g = LastBatch /\ g \in Batch /\ reqs' = << >> /\ ~mcb[g].freed
        /\ Req.opaque \in mcb[g].callbacks
        /\ \A h \in Batch : h # g => mcb'[h] = mcb[h]
        /\ mcb'[g].callbacks = mcb[g].callbacks
        /\ mcb'[g].free_qiov = mcb[g].free_qiov /\ fault = "none"
        /\ UNCHANGED <<failures, early>>
    BY DEF Refused, Submitting
  <1>2. CASE mcb[g].num_requests # 0
    <2>1. mcb'[g].error /\ UNCHANGED <<status, rq, fault>>
      BY <1>2 DEF Refused
    <2> QED
      BY <1>1, <2>1, QuietSafe
  <1>3. CASE mcb[g].num_requests = 0
    <2>1. /\ mcb'[g].freed /\ Completes({Req.opaque}, "EIO")
          /\ fault' = Misused({Req.opaque})
          /\ (mcb'[g].error <=> mcb[g].error)
      BY <1>3 DEF Refused
    <2>2. Orderly' => Orderly
      BY <1>1 DEF Orderly
    <2>3. Orderly => Callable(g)
      BY <1>1 DEF SafeInv, Submitting
    <2>4. ~Callable(g)'
      BY <2>1 DEF Callable
    <2>5. {Req.opaque} \in SUBSET Reqs /\ {Req.opaque} \subseteq mcb[g].callbacks
      BY <1>1 DEF Base, ShapeInv, Mcbs
    <2>6. Orderly' => (failures'[g] = 1 => mcb'[g].error)
      BY <1>1, <2>2, <2>3 DEF Callable
    <2>7. CASE Orderly'
      BY <1>1, <2>1, <2>2, <2>3, <2>4, <2>5, <2>6, <2>7, AnswerSafe
    <2>8. CASE ~Orderly'
      BY <2>8 DEF SafeInv
    <2> QED
      BY <2>7, <2>8
  <1> QED
    BY <1>2, <1>3

LEMMA CompletedSafe ==
    ASSUME Base, SafeInv, NEW m, NEW err \in Results, Completed(m, err)
    PROVE  SafeInv'
  <1>1. PICK g \in Batch : g = m.gen
    BY DEF Completed
  <1>2. /\ Used(g) /\ ~mcb[g].freed /\ reqs' = << >>
        /\ \A h \in Batch : h # g => mcb'[h] = mcb[h]
        /\ mcb'[g].callbacks = mcb[g].callbacks
        /\ (mcb'[g].error <=> mcb[g].error \/ err # "none")
        /\ (mcb'[g].freed <=> mcb[g].num_requests = 1)
        /\ fault = "none" /\ fault' = UserCbFault(g, err)
        /\ UNCHANGED early
    BY <1>1 DEF Completed
  <1>3. failures \in [Batch -> Nat]
        /\ failures' = IF err # "none" THEN [failures EXCEPT ![g] = @ + 1] ELSE failures
    BY <1>1 DEF Completed, Base, ShapeInv
  <1>4. CASE ~Orderly'
    BY <1>4 DEF SafeInv
  <1>5. CASE Orderly'
    <2>1. Orderly
      BY <1>2, <1>3, <1>5 DEF Orderly
    <2>2. failures[g] \in {0, 1} /\ (failures[g] = 1 => mcb[g].error)
      BY <1>3, <2>1 DEF Orderly, SafeInv
    <2>3. CASE ~Answers(g, err)
      <3>1. err = "none" /\ UNCHANGED <<status, rq>> /\ mcb'[g].free_qiov = mcb[g].free_qiov
        BY <1>1, <2>3 DEF Completed, Answers
      <3>2. fault' = "none"
        BY <1>2, <2>3 DEF UserCbFault
      <3> QED
        BY <1>2, <1>3, <3>1, <3>2, QuietSafe
    <2>4. CASE Answers(g, err)
      <3>1. Completes(mcb[g].callbacks, err)
        BY <1>1, <2>4 DEF Completed
      <3>a. Misused(mcb[g].callbacks) = "none" /\ mcb[g].free_qiov # "freed" => fault' = "none"
        BY <1>2 DEF UserCbFault
      <3>2. failures[g] = 0
        <4>1. CASE err # "none"
          <5>1. failures'[g] = failures[g] + 1 /\ failures'[g] <= 1
            BY <1>3, <1>5, <4>1 DEF Orderly
          <5> QED
            BY <2>2, <5>1
        <4>2. CASE err = "none"
          BY <2>2, <2>4, <4>2 DEF Answers
        <4> QED
          BY <4>1, <4>2
      <3>3. Callable(g)
        BY <1>2, <3>2 DEF Callable
      <3>4. ~Callable(g)'
        <4>1. CASE err # "none"
          BY <1>3, <3>2, <4>1 DEF Callable
        <4>2. CASE err = "none"
          BY <1>2, <2>4, <4>2 DEF Callable, Answers, LastOne
        <4> QED
          BY <4>1, <4>2
      <3>5. failures'[g] = 1 => mcb'[g].error
        BY <1>2, <1>3, <3>2
      <3>6. \A h \in Batch : h # g => failures'[h] = failures[h]
        BY <1>3
      <3>7. mcb[g].callbacks \in SUBSET Reqs
        BY DEF Base, ShapeInv, Mcbs
      <3> QED
        BY <1>2, <2>1, <3>1, <3>a, <3>3, <3>4, <3>5, <3>6, <3>7, AnswerSafe
    <2> QED
      BY <2>3, <2>4
  <1> QED
    BY <1>4, <1>5

-----------------------------------------------------------------------------
(* What is on the disk.                                                    *)

LEMMA CoversSectors ==
    ASSUME want \in [Reqs -> Wants], NEW r \in Reqs
    PROVE  Covers(r) \subseteq Sector
  <1>1. PICK w \in Wants : w = want[r]
    OBVIOUS
  <1>2. PICK a \in Nat, b \in Nat : w.sector = a /\ w.nb = b /\ a + b <= NSectors
    BY Constants DEF Wants, Sector
  <1>3. Covers(r) = a .. (a + b - 1)
    BY <1>1, <1>2 DEF Covers
  <1> QED
    BY <1>2, <1>3, Constants DEF Sector

LEMMA RightUnique ==
    ASSUME Separate, NEW r \in Reqs, NEW x \in Covers(r), NEW v \in Right(x)
    PROVE  v = <<r, x>>
  <1>1. PICK q \in Reqs : x \in Covers(q) /\ v = <<q, x>>
    BY DEF Right
  <1>2. q = r
    BY <1>1 DEF Separate, Disjoint
  <1> QED
    BY <1>1, <1>2

\* A write changes a sector only to what was sent for it.
LEMMA WrittenFacts ==
    ASSUME Base, NEW m \in Pieces, Honest(m), NEW n \in 0 .. m.nb,
           disk' = Written(m, n)
    PROVE  \A s \in Sector :
              /\ disk'[s] = disk[s] \/ disk'[s] \in Right(s)
              /\ n = m.nb /\ s \in Span(m) => disk'[s] \in Right(s)
  <1> TAKE s \in Sector
  <1>1. PICK sm \in Nat, lm \in Nat : sm = m.sector /\ lm = m.nb
    BY DEF Pieces
  <1>2. n \in Nat /\ n <= lm /\ s \in Nat
    BY <1>1, Constants DEF Sector
  <1>3. Len(m.qiov) = lm /\ \A k \in 1 .. lm : m.qiov[k] \in Right(sm + k - 1)
    BY <1>1 DEF Honest
  <1>4. disk'[s] = IF s \notin sm .. (sm + n - 1) THEN disk[s]
                   ELSE IF s - sm < Len(m.qiov) THEN m.qiov[s - sm + 1] ELSE Garbage
    BY <1>1 DEF Written
  <1>5. ASSUME s \in sm .. (sm + n - 1)
        PROVE  disk'[s] \in Right(s)
    <2>1. PICK k \in 1 .. lm : k = s - sm + 1
      BY <1>2, <1>5
    <2>2. s - sm < Len(m.qiov) /\ sm + k - 1 = s
      BY <1>2, <1>3, <1>5, <2>1
    <2>3. disk'[s] = m.qiov[k]
      BY <1>4, <1>5, <2>1, <2>2
    <2> QED
      BY <1>3, <2>2, <2>3
  <1>6. disk'[s] = disk[s] \/ disk'[s] \in Right(s)
    BY <1>4, <1>5
  <1>7. n = m.nb /\ s \in Span(m) => s \in sm .. (sm + n - 1)
    BY <1>1 DEF Span
  <1> QED
    BY <1>5, <1>6, <1>7

LEMMA IssueData ==
    ASSUME Base, DataInv, Idle, NEW S \in SUBSET Reqs, NEW g, Issued(S, g)
    PROVE  DataInv'
  <1>1. want' = want /\ inflight' = inflight /\ disk' = disk /\ fault = "none"
        /\ on_error' = on_error /\ reqs = << >> /\ lost' = lost
    BY DEF Issued, Idle
  <1>2. SUFFICES ASSUME Separate
                 PROVE  /\ \A m \in inflight' : Honest(m)'
                        /\ \A i \in 1 .. Len(reqs') : Honest(reqs'[i])
                        /\ \A s \in Sector : disk'[s] \in {Old} \cup Right(s)
                        /\ \A h \in Batch : Used(h)' /\ ~mcb'[h].freed /\ ~mcb'[h].error /\ ~lost'[h] =>
                              \A r \in mcb'[h].callbacks : \A x \in Covers(r) :
                                  OnDisk(r, x)' \/ Coming(h, x)'
                        /\ SuccessIsOnDisk'
    BY <1>1, SameWant DEF DataInv, Honest, Right, Covers
  <1>3. /\ \A m \in inflight : Honest(m)
        /\ \A s \in Sector : disk[s] \in {Old} \cup Right(s)
        /\ \A h \in Batch : Used(h) /\ ~mcb[h].freed /\ ~mcb[h].error /\ ~lost[h] =>
              \A r \in mcb[h].callbacks : \A x \in Covers(r) : OnDisk(r, x) \/ Coming(h, x)
        /\ SuccessIsOnDisk
    BY <1>1, <1>2 DEF DataInv
  <1>4. \A i \in 1 .. Len(reqs') : Honest(reqs'[i])
    BY <1>2 DEF Issued
  <1>5. ASSUME NEW h \in Batch, Used(h)', ~mcb'[h].freed, ~mcb'[h].error, ~lost'[h],
               NEW r \in mcb'[h].callbacks, NEW x \in Covers(r)
        PROVE  OnDisk(r, x)' \/ Coming(h, x)'
    <2>1. CASE h = g
      <3>1. r \in S
        BY <1>5, <2>1 DEF Issued
      <3>2. PICK i \in 1 .. Len(reqs') : x \in Span(reqs'[i])
        BY <1>2, <1>5, <3>1 DEF Issued
      <3>3. h = LastBatch'
        BY <2>1 DEF Issued
      <3> QED
        BY <3>2, <3>3 DEF Coming, Span
    <2>2. CASE h # g
      <3>1. /\ Used(h) /\ ~mcb[h].freed /\ ~mcb[h].error /\ ~lost[h]
            /\ r \in mcb[h].callbacks
        BY <1>1, <1>5, <2>2 DEF Issued
      <3>2. OnDisk(r, x) \/ Coming(h, x)
        BY <1>3, <1>5, <3>1
      <3>3. Len(reqs) = 0
        BY <1>1
      <3>4. \A i \in 1 .. Len(reqs) : FALSE
        BY <3>3
      <3> QED
        BY <1>1, <3>2, <3>4 DEF Coming, Of, OnDisk, Span
    <2> QED
      BY <2>1, <2>2
  <1>6. SuccessIsOnDisk'
    <2>1. \A r \in Reqs : status'[r] = "ok" => status[r] = "ok"
      BY DEF Issued
    <2>2. \A r \in Reqs : NotLost(r)' => NotLost(r)
      BY <1>1 DEF NotLost, Issued, Used
    <2> QED
      BY <1>1, <1>2, <1>3, <2>1, <2>2 DEF SuccessIsOnDisk, Separate, Covers
  <1>7. \A m \in inflight' : Honest(m)'
    BY <1>1, <1>3, SameWant
  <1> QED
    BY <1>1, <1>3, <1>4, <1>5, <1>6, <1>7

\* The steps of the loop, which write nothing.
LEMMA LoopData ==
    ASSUME Base, DataInv, Submitting, UNCHANGED <<want, disk, on_error>>,
           inflight' \in SUBSET (inflight \cup {Req}),
           \A i \in 1 .. Len(reqs') : \E j \in 1 .. Len(reqs) : reqs'[i] = reqs[j],
           on_error # "ignore" => \A r \in Reqs :
               status'[r] = "ok" /\ NotLost(r)' => status[r] = "ok" /\ NotLost(r),
           fault' = "none" => \A h \in Batch : Used(h)' /\ ~mcb'[h].freed /\ ~mcb'[h].error /\ ~lost'[h] =>
               /\ Used(h) /\ ~mcb[h].freed /\ ~mcb[h].error /\ ~lost[h]
               /\ mcb'[h].callbacks = mcb[h].callbacks
               /\ \A x : Coming(h, x) => Coming(h, x)'
    PROVE  DataInv'
  <1>1. /\ Req \in Pieces /\ Req = reqs[1] /\ Len(reqs) \in Nat \ {0}
    BY SubmitHead
  <1>2. SUFFICES ASSUME Separate
                 PROVE  /\ \A m \in inflight' : Honest(m)
                        /\ \A i \in 1 .. Len(reqs') : Honest(reqs'[i])
                        /\ \A s \in Sector : disk[s] \in {Old} \cup Right(s)
                        /\ fault' = "none" => \A h \in Batch :
                              Used(h)' /\ ~mcb'[h].freed /\ ~mcb'[h].error /\ ~lost'[h] =>
                                 \A r \in mcb'[h].callbacks : \A x \in Covers(r) :
                                     OnDisk(r, x) \/ Coming(h, x)'
                        /\ SuccessIsOnDisk'
    BY SameWant DEF DataInv, Honest, Right, Covers, OnDisk
  <1>3. /\ \A m \in inflight : Honest(m)
        /\ \A i \in 1 .. Len(reqs) : Honest(reqs[i])
        /\ \A s \in Sector : disk[s] \in {Old} \cup Right(s)
        /\ \A h \in Batch : Used(h) /\ ~mcb[h].freed /\ ~mcb[h].error /\ ~lost[h] =>
              \A r \in mcb[h].callbacks : \A x \in Covers(r) : OnDisk(r, x) \/ Coming(h, x)
        /\ SuccessIsOnDisk
    BY <1>2 DEF DataInv, Submitting
  <1>4. Honest(Req)
    BY <1>1, <1>3
  <1>5. \A m \in inflight' : Honest(m)
    BY <1>3, <1>4
  <1>6. \A i \in 1 .. Len(reqs') : Honest(reqs'[i])
    BY <1>3
  <1>7. fault' = "none" => \A h \in Batch : Used(h)' /\ ~mcb'[h].freed /\ ~mcb'[h].error /\ ~lost'[h] =>
            \A r \in mcb'[h].callbacks : \A x \in Covers(r) : OnDisk(r, x) \/ Coming(h, x)'
    BY <1>3
  <1>8. SuccessIsOnDisk'
    BY <1>2, <1>3 DEF SuccessIsOnDisk, Separate, Covers
  <1> QED
    BY <1>3, <1>5, <1>6, <1>7, <1>8

LEMMA AcceptedData ==
    ASSUME Base, DataInv, Submitting, NEW g, Accepted(g)
    PROVE  DataInv'
  <1>1. /\ g = LastBatch /\ g \in Batch /\ Req.gen = g
        /\ reqs' = Tail(reqs) /\ inflight' = inflight \cup {Req}
        /\ \A h \in Batch : h # g => mcb'[h] = mcb[h]
        /\ (mcb'[g].error <=> mcb[g].error) /\ mcb'[g].callbacks = mcb[g].callbacks
        /\ ~mcb'[g].freed /\ ~mcb[g].freed
        /\ UNCHANGED <<on_error, want, disk, status, lost>>
    BY DEF Accepted
  <1>2. /\ Req = reqs[1] /\ Len(reqs) \in Nat \ {0} /\ Len(Tail(reqs)) = Len(reqs) - 1
        /\ \A i \in 1 .. Len(Tail(reqs)) : Tail(reqs)[i] = reqs[i + 1] /\ i + 1 \in 1 .. Len(reqs)
    BY SubmitHead
  <1>3. \A h \in Batch : mcb'[h].callbacks = mcb[h].callbacks
    BY <1>1
  <1>4. LastBatch' = LastBatch /\ \A h \in Batch : Used(h)' <=> Used(h)
    BY <1>3, SameBatches
  <1>5. ASSUME NEW h \in Batch, NEW x, Coming(h, x)
        PROVE  Coming(h, x)'
    <2>1. CASE \E m \in Of(h) : x \in Span(m)
      BY <1>1, <2>1 DEF Coming, Of, Span
    <2>2. CASE h = LastBatch /\ \E i \in 1 .. Len(reqs) : x \in Span(reqs[i])
      <3>1. PICK i \in 1 .. Len(reqs) : x \in Span(reqs[i])
        BY <2>2
      <3>2. CASE i = 1
        <4>1. Req \in Of(h)'
          BY <1>1, <2>2 DEF Of
        <4> QED
          BY <1>2, <3>1, <3>2, <4>1 DEF Coming, Span
      <3>3. CASE i # 1
        <4>1. PICK j \in 1 .. Len(reqs') : j + 1 = i
          <5>1. i - 1 \in 1 .. Len(reqs') /\ (i - 1) + 1 = i
            BY <1>1, <1>2, <3>3
          <5> QED
            BY <5>1
        <4>2. reqs'[j] = reqs[i]
          BY <1>1, <1>2, <4>1
        <4>3. h = LastBatch'
          BY <1>4, <2>2
        <4> QED
          BY <3>1, <4>2, <4>3 DEF Coming, Span
      <3> QED
        BY <3>2, <3>3
    <2> QED
      BY <1>5, <2>1, <2>2 DEF Coming
  <1>6. \A h \in Batch : Used(h)' /\ ~mcb'[h].freed /\ ~mcb'[h].error /\ ~lost'[h] =>
               /\ Used(h) /\ ~mcb[h].freed /\ ~mcb[h].error /\ ~lost[h]
               /\ mcb'[h].callbacks = mcb[h].callbacks
               /\ \A x : Coming(h, x) => Coming(h, x)'
    BY <1>1, <1>3, <1>4, <1>5
  <1>7. \A i \in 1 .. Len(reqs') : \E j \in 1 .. Len(reqs) : reqs'[i] = reqs[j]
    BY <1>1, <1>2
  <1>8. \A r \in Reqs : NotLost(r)' => NotLost(r)
    BY <1>1, <1>3 DEF NotLost
  <1> QED
    BY <1>1, <1>6, <1>7, <1>8, LoopData

\* The other batches do not see that the array of the last one is cut.
LEMMA OthersComing ==
    ASSUME NEW h \in Batch, h # LastBatch, NEW x, Coming(h, x), inflight' = inflight
    PROVE  Coming(h, x)'
  <1>1. PICK m \in Of(h) : x \in Span(m)
    BY DEF Coming
  <1>2. m \in Of(h)'
    BY <1>1 DEF Of
  <1> QED
    BY <1>1, <1>2 DEF Coming, Span

LEMMA RefusedData ==
    ASSUME Base, DataInv, Submitting, NEW g, Refused(g)
    PROVE  DataInv'
  <1>1. /\ g = LastBatch /\ g \in Batch /\ reqs' = << >> /\ inflight' = inflight
        /\ \A h \in Batch : h # g => mcb'[h] = mcb[h]
        /\ mcb'[g].callbacks = mcb[g].callbacks /\ (mcb'[g].freed \/ mcb'[g].error)
        /\ UNCHANGED <<on_error, want, disk, lost>>
        /\ Req.opaque \in mcb[g].callbacks
    BY DEF Refused
  <1>2. \A h \in Batch : mcb'[h].callbacks = mcb[h].callbacks
    BY <1>1
  <1>3. \A h \in Batch : Used(h)' <=> Used(h)
    BY <1>2, SameBatches
  <1>4. \A h \in Batch : Used(h)' /\ ~mcb'[h].freed /\ ~mcb'[h].error /\ ~lost'[h] =>
               /\ Used(h) /\ ~mcb[h].freed /\ ~mcb[h].error /\ ~lost[h]
               /\ mcb'[h].callbacks = mcb[h].callbacks
               /\ \A x : Coming(h, x) => Coming(h, x)'
    BY <1>1, <1>3, OthersComing
  <1>5. Len(reqs') = 0
    BY <1>1
  <1>6. \A i \in 1 .. Len(reqs') : \E j \in 1 .. Len(reqs) : reqs'[i] = reqs[j]
    BY <1>5
  <1>7. on_error # "ignore" => \A r \in Reqs : status'[r] = "ok" => status[r] = "ok"
    <2>1. CASE Completes({Req.opaque}, "EIO")
      BY <2>1 DEF Completes
    <2>2. CASE UNCHANGED <<status, rq, running, fault>>
      BY <2>2
    <2> QED
      BY <2>1, <2>2 DEF Refused
  <1>8. \A r \in Reqs : NotLost(r)' => NotLost(r)
    BY <1>1, <1>2 DEF NotLost
  <1> QED
    BY <1>1, <1>4, <1>6, <1>7, <1>8, LoopData

LEMMA EarlyData ==
    ASSUME Base, DataInv, Submitting, NEW g, NEW err, Early(g, err)
    PROVE  DataInv'
  <1>1. /\ g = LastBatch /\ g \in Batch /\ reqs' = Tail(reqs) /\ inflight' = inflight
        /\ \A h \in Batch : h # g => mcb'[h] = mcb[h]
        /\ mcb'[g].callbacks = mcb[g].callbacks
        /\ IF err = "none" THEN lost'[g] ELSE mcb'[g].error
        /\ \A h \in Batch : lost[h] => lost'[h]
        /\ UNCHANGED <<on_error, want, disk>>
    BY DEF Early
  <1>2. \A h \in Batch : mcb'[h].callbacks = mcb[h].callbacks
    BY <1>1
  <1>3. \A h \in Batch : Used(h)' <=> Used(h)
    BY <1>2, SameBatches
  <1>4. \A h \in Batch : Used(h)' /\ ~mcb'[h].freed /\ ~mcb'[h].error /\ ~lost'[h] =>
               /\ Used(h) /\ ~mcb[h].freed /\ ~mcb[h].error /\ ~lost[h]
               /\ mcb'[h].callbacks = mcb[h].callbacks
               /\ \A x : Coming(h, x) => Coming(h, x)'
    BY <1>1, <1>3, OthersComing
  <1>5. \A i \in 1 .. Len(reqs') : \E j \in 1 .. Len(reqs) : reqs'[i] = reqs[j]
    BY <1>1, SubmitHead
  <1>6. ASSUME on_error # "ignore", NEW r \in Reqs, status'[r] = "ok", NotLost(r)'
        PROVE  status[r] = "ok" /\ NotLost(r)
    <2>1. NotLost(r)
      BY <1>1, <1>2, <1>6 DEF NotLost
    <2>2. CASE r \notin mcb[g].callbacks
      BY <1>6, <2>1, <2>2 DEF Early, Completes
    <2>3. CASE r \in mcb[g].callbacks
      <3>1. err # "none"
        BY <1>1, <1>6, <2>3 DEF NotLost
      <3> QED
        BY <1>6, <2>1, <2>3, <3>1 DEF Early, Answers, Completes
    <2> QED
      BY <2>2, <2>3
  <1> QED
    BY <1>1, <1>4, <1>5, <1>6, LoopData

LEMMA CompletedData ==
    ASSUME Base, DataInv, NEW m, NEW err \in Results, Completed(m, err)
    PROVE  DataInv'
  <1>1. PICK g \in Batch : g = m.gen
    BY DEF Completed
  <1>2. /\ m \in inflight /\ Used(g) /\ ~mcb[g].freed /\ fault = "none"
        /\ reqs = << >> /\ reqs' = << >> /\ inflight' = inflight \ {m}
        /\ \A h \in Batch : h # g => mcb'[h] = mcb[h]
        /\ mcb'[g].callbacks = mcb[g].callbacks
        /\ (mcb'[g].error <=> mcb[g].error \/ err # "none")
        /\ \A h \in Batch : lost[h] => lost'[h]
        /\ want' = want /\ on_error' = on_error
    BY <1>1 DEF Completed
  <1>3. PICK n \in 0 .. m.nb : disk' = Written(m, n) /\ (err = "none" /\ ~lost'[g] => n = m.nb)
    BY <1>1 DEF Completed
  <1>4. want \in [Reqs -> Wants] /\ m \in Pieces /\ \A h \in Batch : mcb[h].callbacks \in SUBSET Reqs
    BY <1>2 DEF Base, ShapeInv, Mcbs
  <1>5. \A h \in Batch : mcb'[h].callbacks = mcb[h].callbacks
    BY <1>2
  <1>6. LastBatch' = LastBatch /\ \A h \in Batch : Used(h)' <=> Used(h)
    BY <1>5, SameBatches
  <1>7. Len(reqs) = 0 /\ Len(reqs') = 0
    BY <1>2
  <1>8. (\A i \in 1 .. Len(reqs) : FALSE) /\ (\A i \in 1 .. Len(reqs') : FALSE)
    BY <1>7
  <1>9. SUFFICES ASSUME Separate
                 PROVE  /\ \A v \in inflight' : Honest(v)
                        /\ \A s \in Sector : disk'[s] \in {Old} \cup Right(s)
                        /\ \A h \in Batch :
                              Used(h)' /\ ~mcb'[h].freed /\ ~mcb'[h].error /\ ~lost'[h] =>
                                 \A r \in mcb'[h].callbacks : \A x \in Covers(r) :
                                     OnDisk(r, x)' \/ Coming(h, x)'
                        /\ SuccessIsOnDisk'
    <2>1. Separate' = Separate
      BY <1>2, SameWant
    <2>2. (\A v : Honest(v)' <=> Honest(v)) /\ \A s : Right(s)' = Right(s)
      BY <1>2, SameWant
    <2>3. \A r : Covers(r)' = Covers(r)
      BY <1>2 DEF Covers
    <2> QED
      BY <1>2, <1>8, <2>1, <2>2, <2>3 DEF DataInv
  <1>10. /\ \A v \in inflight : Honest(v)
         /\ \A s \in Sector : disk[s] \in {Old} \cup Right(s)
         /\ \A h \in Batch : Used(h) /\ ~mcb[h].freed /\ ~mcb[h].error /\ ~lost[h] =>
               \A r \in mcb[h].callbacks : \A x \in Covers(r) : OnDisk(r, x) \/ Coming(h, x)
         /\ SuccessIsOnDisk
    BY <1>2, <1>9 DEF DataInv
  <1>11. \A s \in Sector :
              /\ disk'[s] = disk[s] \/ disk'[s] \in Right(s)
              /\ n = m.nb /\ s \in Span(m) => disk'[s] \in Right(s)
    BY <1>2, <1>3, <1>4, <1>9, <1>10, WrittenFacts
  <1>12. \A s \in Sector : disk'[s] \in {Old} \cup Right(s)
    BY <1>10, <1>11
  <1>13. ASSUME NEW r \in Reqs, NEW x \in Covers(r), OnDisk(r, x)
         PROVE  disk'[x] = <<r, x>>
    <2>1. x \in Sector
      BY <1>4, CoversSectors
    <2>2. CASE disk'[x] = disk[x]
      BY <1>13, <2>2 DEF OnDisk
    <2>3. CASE disk'[x] \in Right(x)
      BY <1>9, <2>3, RightUnique
    <2> QED
      BY <1>11, <2>1, <2>2, <2>3
  <1>14. ASSUME NEW r \in Reqs, NEW x \in Covers(r), err = "none", ~lost'[g], x \in Span(m)
         PROVE  disk'[x] = <<r, x>>
    <2>1. x \in Sector
      BY <1>4, CoversSectors
    <2>2. disk'[x] \in Right(x)
      BY <1>3, <1>11, <1>14, <2>1
    <2> QED
      BY <1>9, <2>2, RightUnique
  <1>15. ASSUME NEW h \in Batch, Used(h)', ~mcb'[h].freed, ~mcb'[h].error, ~lost'[h],
                NEW r \in mcb'[h].callbacks, NEW x \in Covers(r)
         PROVE  OnDisk(r, x)' \/ Coming(h, x)'
    <2>1. /\ Used(h) /\ ~mcb[h].freed /\ ~mcb[h].error /\ r \in mcb[h].callbacks /\ r \in Reqs
          /\ (h = g => err = "none") /\ ~lost[h]
      BY <1>2, <1>4, <1>6, <1>15
    <2>2. OnDisk(r, x) \/ Coming(h, x)
      BY <1>10, <1>15, <2>1
    <2>3. CASE OnDisk(r, x)
      BY <1>13, <1>15, <2>1, <2>3 DEF OnDisk
    <2>4. CASE Coming(h, x)
      <3>1. PICK v \in Of(h) : x \in Span(v)
        BY <1>8, <2>4 DEF Coming
      <3>2. CASE v = m
        <4>1. h = g
          BY <1>1, <3>1, <3>2 DEF Of
        <4> QED
          BY <1>14, <1>15, <2>1, <3>1, <3>2, <4>1 DEF OnDisk
      <3>3. CASE v # m
        <4>1. v \in Of(h)'
          BY <1>2, <3>1, <3>3 DEF Of
        <4> QED
          BY <3>1, <4>1 DEF Coming, Span
      <3> QED
        BY <3>2, <3>3
    <2> QED
      BY <2>2, <2>3, <2>4
  <1>16. ASSUME on_error # "ignore", NEW r \in Reqs, status'[r] = "ok", NotLost(r)',
                NEW x \in Covers(r)
         PROVE  disk'[x] = <<r, x>>
    <2>0. NotLost(r)
      BY <1>2, <1>5, <1>16 DEF NotLost
    <2>1. CASE status[r] = "ok"
      <3>1. OnDisk(r, x)
        BY <1>9, <1>10, <1>16, <2>0, <2>1 DEF SuccessIsOnDisk, Separate, OnDisk
      <3> QED
        BY <1>13, <1>16, <3>1
    <2>2. CASE status[r] # "ok"
      <3>1. Answers(g, err) /\ Completes(mcb[g].callbacks, err)
        BY <1>1, <1>16, <2>2 DEF Completed
      <3>2. r \in mcb[g].callbacks /\ err = "none"
        BY <1>4, <1>16, <2>2, <3>1 DEF Completes
      <3>a. ~lost'[g] /\ ~lost[g]
        BY <1>2, <1>16, <3>2 DEF NotLost
      <3>3. mcb[g].num_requests = 1 /\ ~mcb[g].error
        BY <3>1, <3>2 DEF Answers, LastOne
      <3>4. Of(g) = {m}
        <4>1. ShapeInv /\ Cardinality(Of(g)) = 1
          BY <1>2, <3>3 DEF Base, CountInv
        <4>2. IsFiniteSet(Of(g))
          BY <4>1, OfFinite
        <4>3. m \in Of(g)
          BY <1>1, <1>2 DEF Of
        <4> QED
          BY <4>1, <4>2, <4>3, FS_Singleton
      <3>5. OnDisk(r, x) \/ Coming(g, x)
        BY <1>2, <1>10, <1>16, <3>2, <3>3, <3>a
      <3>6. CASE OnDisk(r, x)
        BY <1>13, <1>16, <3>6
      <3>7. CASE Coming(g, x)
        <4>1. x \in Span(m)
          BY <1>8, <3>4, <3>7 DEF Coming
        <4> QED
          BY <1>14, <1>16, <3>2, <3>a, <4>1
      <3> QED
        BY <3>5, <3>6, <3>7
    <2> QED
      BY <2>1, <2>2
  <1>17. SuccessIsOnDisk'
    BY <1>2, <1>9, <1>16 DEF SuccessIsOnDisk, Covers
  <1>18. \A v \in inflight' : Honest(v)
    BY <1>2, <1>10
  <1> QED
    BY <1>12, <1>15, <1>17, <1>18

-----------------------------------------------------------------------------
(* The theorems.                                                           *)

LEMMA InitMw ==
    ASSUME Init
    PROVE  MwInv
  <1>1. NoMcb \in Mcbs
    BY DEF NoMcb, Mcbs, QiovStates
  <1>2. ShapeInv
    <2>1. << >> \in Seq(Pieces) /\ IsFiniteSet({})
      BY EmptySeq, FS_EmptySet
    <2>2. mcb \in [Batch -> Mcbs] /\ failures \in [Batch -> Nat]
      BY <1>1 DEF Init
    <2>3. /\ refused \in [Batch -> BOOLEAN] /\ early \in [Batch -> SUBSET Results]
          /\ lost \in [Batch -> BOOLEAN]
      BY DEF Init
    <2>4. status \in [Reqs -> {"new", "pending", "stopped", "ok", "error"}]
          /\ disk \in [Sector -> (Reqs \X Nat) \cup {Old, Garbage}]
      BY DEF Init
    <2> QED
      BY <2>1, <2>2, <2>3, <2>4 DEF Init, ShapeInv
  <1>3. \A g \in Batch : mcb[g] = NoMcb /\ ~Used(g) /\ failures[g] = 0
    BY DEF Init, Used, NoMcb
  <1>4. BatchInv
    <2>1. 0 \in 0 .. MaxBatches
      BY Constants
    <2>2. {g \in Batch : Used(g)} = 1 .. 0
      BY <1>3
    <2> QED
      BY <1>3, <2>1, <2>2 DEF BatchInv, Init
  <1>5. inflight = {} /\ reqs = << >> /\ rq = {} /\ fault = "none"
    BY DEF Init
  <1>6. \A i \in 1 .. Len(reqs) : FALSE
    <2>1. Len(reqs) = 0
      BY <1>5
    <2> QED
      BY <2>1
  <1>7. QueueInv
    BY <1>5, <1>6 DEF QueueInv, Submitting
  <1>8. CountInv
    <2>1. \A g \in Batch : Of(g) = {}
      BY <1>5 DEF Of
    <2> QED
      BY <1>3, <2>1, FS_EmptySet DEF CountInv, NoMcb
  <1>9. SafeInv
    BY <1>3, <1>5 DEF SafeInv, Callable
  <1>10. DataInv
    <2>1. \A s \in Sector : disk[s] = Old
      BY DEF Init
    <2>2. \A r \in Reqs : status[r] # "ok"
      BY DEF Init
    <2> QED
      BY <1>3, <1>5, <1>6, <2>1, <2>2 DEF DataInv, SuccessIsOnDisk
  <1> QED
    BY <1>2, <1>4, <1>7, <1>8, <1>9, <1>10 DEF MwInv

\* The steps that change nothing, or only stop the program.
LEMMA StandMw ==
    ASSUME MwInv, UNCHANGED <<reqVars, reqs, mcb, inflight, disk, history>>,
           fault' = fault \/ (fault = "none" /\ fault' = "qiov")
    PROVE  MwInv'
  <1>0. UNCHANGED <<on_error, want, status, rq, running, reqs, mcb, inflight, disk,
                    failures, refused, early, lost>>
    BY DEF reqVars, history
  <1>a. fault' = "none" => fault = "none"
    OBVIOUS
  <1>b. fault' # "mcb" => fault # "mcb"
    OBVIOUS
  <1>c. fault \in {"none", "qiov"} => fault' \in {"none", "qiov"}
    OBVIOUS
  <1>1. /\ ShapeInv' /\ BatchInv' /\ QueueInv'
    <2>1. Submitting' => Submitting
      BY <1>0, <1>a DEF Submitting
    <2>2. LastBatch' = LastBatch /\ \A g \in Batch : Used(g)' <=> Used(g)
      BY <1>0, SameBatches
    <2>3. ShapeInv'
      BY <1>0 DEF MwInv, ShapeInv
    <2>4. BatchInv'
      BY <1>0 DEF MwInv, BatchInv, Used
    <2>5. QueueInv'
      <3>1. \A g : Of(g)' = Of(g)
        BY <1>0 DEF Of
      <3>2. \A m \in inflight : Used(m.gen)' <=> Used(m.gen)
        BY <1>0 DEF Used
      <3>3. Used(LastBatch)' <=> Used(LastBatch)
        BY <1>0, <2>2 DEF Used
      <3> QED
        BY <1>0, <2>1, <2>2, <3>1, <3>2, <3>3 DEF MwInv, QueueInv
    <2> QED
      BY <2>3, <2>4, <2>5
  <1>2. CountInv' /\ SafeInv'
    BY <1>0, <1>b, <1>c DEF MwInv, CountInv, SafeInv, Orderly, Callable, Used, LastBatch, Of
  <1>3. DataInv'
    <2>2. /\ Separate' = Separate /\ (\A r \in Reqs : Covers(r)' = Covers(r))
          /\ (\A x : Right(x)' = Right(x)) /\ \A m : Honest(m)' = Honest(m)
      BY <1>0, SameWant
    <2>3. /\ \A h \in Batch : Used(h)' <=> Used(h)
          /\ LastBatch' = LastBatch
      BY <1>0, SameBatches
    <2>4. \A h, x : Coming(h, x)' <=> Coming(h, x)
      BY <1>0, <2>3 DEF Coming, Of
    <2>5. SuccessIsOnDisk' <=> SuccessIsOnDisk
      BY <1>0 DEF SuccessIsOnDisk, NotLost, Disjoint, Comparable, Covers
    <2>6. \A h \in Batch : mcb[h].callbacks \in SUBSET Reqs
      BY DEF MwInv, ShapeInv, Mcbs
    <2>7. SUFFICES ASSUME Separate
                   PROVE  /\ \A m \in inflight : Honest(m)
                          /\ \A i \in 1 .. Len(reqs) : Honest(reqs[i])
                          /\ \A s \in Sector : disk[s] \in {Old} \cup Right(s)
                          /\ fault = "none" => \A g \in Batch :
                                Used(g) /\ ~mcb[g].freed /\ ~mcb[g].error /\ ~lost[g] =>
                                    \A r \in mcb[g].callbacks : \A x \in Covers(r) :
                                        disk[x] = <<r, x>> \/ Coming(g, x)
                          /\ SuccessIsOnDisk
      BY <1>0, <1>a, <2>2, <2>3, <2>4, <2>5, <2>6 DEF DataInv, OnDisk, Honest, Right, Covers
    <2> QED
      BY <2>7 DEF MwInv, DataInv, OnDisk
  <1> QED
    BY <1>1, <1>2, <1>3 DEF MwInv

LEMMA NextMw ==
    ASSUME MwInv, Next
    PROVE  MwInv'
  <1>0. Base /\ SafeInv /\ DataInv
    BY DEF MwInv, Base
  <1>1. SUFFICES Base' /\ SafeInv' /\ DataInv'
    BY DEF MwInv, Base
  <1>2. ASSUME NEW S \in SUBSET Reqs, virtio_blk_handle_output(S)
        PROVE  Base' /\ SafeInv' /\ DataInv'
    <2>1. /\ Idle /\ S # {} /\ (\A r \in S : status[r] = "new") /\ bdrv_aio_multiwrite(S)
          /\ rq' = rq /\ running' = running
      BY <1>2 DEF virtio_blk_handle_output
    <2>2. PICK g : Issued(S, g)
      BY <1>0, <2>1, IssueFacts
    <2>3. rq' \in SUBSET Reqs /\ running' \in BOOLEAN /\ (~running' => rq' # {})
      BY <1>0, <2>1 DEF Base, ShapeInv, BatchInv
    <2>4. Base'
      BY <1>0, <2>1, <2>2, <2>3, IssueBase
    <2>5. DataInv'
      BY <1>0, <2>1, <2>2, IssueData
    <2>6. SafeInv'
      <3>1. CASE Orderly'
        <4>1. Orderly
          BY <2>2, <3>1 DEF Orderly, Issued
        <4>2. \A r \in rq : status[r] = "stopped"
          BY <1>0, <4>1 DEF SafeInv
        <4>3. \A r \in rq' : r \in rq \ S
          BY <2>1, <4>2
        <4>4. \A r \in S : status[r] # "pending"
          BY <2>1
        <4> QED
          BY <1>0, <2>1, <2>2, <4>3, <4>4, IssueSafe
      <3>2. CASE ~Orderly'
        BY <3>2 DEF SafeInv
      <3> QED
        BY <3>1, <3>2
    <2> QED
      BY <2>4, <2>5, <2>6
  <1>3. CASE virtio_blk_dma_restart_bh
    <2>1. Idle /\ ~running /\ running' = TRUE /\ rq' = {} /\ bdrv_aio_multiwrite(rq)
      BY <1>3 DEF virtio_blk_dma_restart_bh
    <2>2. rq \in SUBSET Reqs /\ rq # {}
      BY <1>0, <2>1 DEF Base, ShapeInv, BatchInv
    <2>3. PICK g : Issued(rq, g)
      BY <1>0, <2>1, <2>2, IssueFacts
    <2>4. rq' \in SUBSET Reqs /\ running' \in BOOLEAN /\ (~running' => rq' # {})
      BY <2>1
    <2>5. Base'
      BY <1>0, <2>1, <2>2, <2>3, <2>4, IssueBase
    <2>6. DataInv'
      BY <1>0, <2>1, <2>2, <2>3, IssueData
    <2>7. SafeInv'
      <3>1. CASE Orderly'
        <4>1. Orderly
          BY <2>3, <3>1 DEF Orderly, Issued
        <4>2. \A r \in rq : status[r] # "pending"
          BY <1>0, <4>1 DEF SafeInv
        <4>3. \A r \in rq' : r \in rq \ rq
          BY <2>1
        <4> QED
          BY <1>0, <2>1, <2>2, <2>3, <4>2, <4>3, IssueSafe
      <3>2. CASE ~Orderly'
        BY <3>2 DEF SafeInv
      <3> QED
        BY <3>1, <3>2
    <2> QED
      BY <2>5, <2>6, <2>7
  <1>4. CASE SubmitAccepted
    <2>1. Submitting
      BY <1>4 DEF SubmitAccepted
    <2>2. PICK g : Accepted(g)
      BY <1>0, <1>4, AcceptedFacts
    <2> QED
      BY <1>0, <2>1, <2>2, AcceptedBase, AcceptedSafe, AcceptedData
  <1>5. CASE SubmitRefused
    <2>1. Submitting
      BY <1>5 DEF SubmitRefused
    <2>2. PICK g : Refused(g)
      BY <1>0, <1>5, RefusedFacts
    <2> QED
      BY <1>0, <2>1, <2>2, RefusedBase, RefusedSafe, RefusedData
  <1>6. CASE SubmitFailsEarly \/ SubmitSucceedsEarly
    <2>1. Submitting
      BY <1>6 DEF SubmitFailsEarly, SubmitSucceedsEarly
    <2>2. PICK g, err : Early(g, err)
      <3>1. CASE SubmitFailsEarly
        <4>1. PICK err \in Errors : CalledBackEarly(LastBatch, err)
          BY <3>1 DEF SubmitFailsEarly
        <4>2. err \in Results /\ err # "none"
          BY DEF Errors, Results
        <4>3. /\ failures' = [failures EXCEPT ![LastBatch] = @ + 1] /\ lost' = lost
              /\ UNCHANGED <<on_error, want, inflight, disk, refused>>
          BY <3>1 DEF SubmitFailsEarly
        <4>4. Early(LastBatch, err)
          BY <1>0, <2>1, <4>1, <4>2, <4>3, EarlyFacts
        <4> QED
          BY <4>4
      <3>2. CASE SubmitSucceedsEarly
        <4>1. /\ CalledBackEarly(LastBatch, "none") /\ "none" \in Results
              /\ failures' = failures /\ lost' = [lost EXCEPT ![LastBatch] = TRUE]
              /\ UNCHANGED <<on_error, want, inflight, disk, refused>>
          BY <3>2 DEF SubmitSucceedsEarly, Results
        <4>2. Early(LastBatch, "none")
          BY <1>0, <2>1, <4>1, EarlyFacts
        <4> QED
          BY <4>2
      <3> QED
        BY <1>6, <3>1, <3>2
    <2>3. SafeInv'
      BY <2>2 DEF Early, SafeInv, Orderly
    <2> QED
      BY <1>0, <2>1, <2>2, <2>3, EarlyBase, EarlyData
  <1>7. CASE Completion
    <2>1. PICK m \in inflight : WriteDone(m) \/ WriteFails(m) \/ WriteLost(m)
      BY <1>7 DEF Completion
    <2>2. PICK err \in Results : Completed(m, err)
      BY <1>0, <2>1, CompletionEnds, CompletedFacts
    <2> QED
      BY <1>0, <2>2, CompletedBase, CompletedSafe, CompletedData
  <1>8. CASE UseFreedQiov
    <2>1. /\ UNCHANGED <<reqVars, reqs, mcb, inflight, disk, history>>
          /\ fault = "none" /\ fault' = "qiov"
      BY <1>8 DEF UseFreedQiov, Idle, Submitting
    <2>2. MwInv'
      BY <2>1, StandMw
    <2> QED
      BY <2>2 DEF MwInv, Base
  <1> QED
    BY <1>2, <1>3, <1>4, <1>5, <1>6, <1>7, <1>8 DEF Next, Submit

LEMMA MwCorrect == Spec => []MwInv
  <1>1. Init => MwInv
    BY InitMw
  <1>2. MwInv /\ [Next]_vars => MwInv'
    BY NextMw, StandMw DEF vars
  <1> QED
    BY <1>1, <1>2, PTL DEF Spec

(***************************************************************************)
(* num_requests is the number of writes the driver has, whatever was       *)
(* refused, ended early or failed late: multiwrite_cb frees the            *)
(* MultiwriteCB with the last completion.                                  *)
(***************************************************************************)
THEOREM CountCorrect == Spec => []CountExact
  <1>1. MwInv => CountExact
    BY DEF MwInv, CountInv, CountExact, Of
  <1> QED
    BY <1>1, MwCorrect, PTL

(***************************************************************************)
(* With at most one failure in a batch, after the write was accepted, no   *)
(* freed request or MultiwriteCB is touched by a callback and no request   *)
(* is queued on s->rq twice, however batches and their late completions    *)
(* overlap; and a write in flight whose qiov has been freed belongs to a   *)
(* batch in which a write has failed.                                      *)
(***************************************************************************)
THEOREM ContainedCorrect == Spec => []OneFailureContained
  <1>1. ASSUME MwInv, Orderly
        PROVE  /\ fault \in {"none", "qiov"}
               /\ \A m \in inflight : Dangling(m) => failures[m.gen] = 1
    <2>1. fault \in {"none", "qiov"}
      BY <1>1 DEF MwInv, SafeInv
    <2>2. ASSUME NEW m \in inflight, Dangling(m), failures[m.gen] # 1
          PROVE  FALSE
      <3>1. m.gen \in Batch /\ ShapeInv
        BY <1>1 DEF MwInv, ShapeInv, Pieces
      <3>2. PICK g \in Batch : g = m.gen
        BY <3>1
      <3>3. m \in Of(g) /\ Used(g) /\ m.own \subseteq mcb[g].callbacks
        BY <1>1, <3>2 DEF MwInv, QueueInv, Of
      <3>4. failures[g] = 0
        <4>1. failures[g] \in Nat /\ failures[g] <= 1 /\ failures[g] # 1
          BY <1>1, <2>2, <3>1, <3>2 DEF ShapeInv, Orderly
        <4> QED
          BY <4>1
      <3>5. ~mcb[g].freed
        <4>1. /\ mcb[g].num_requests = Cardinality(Of(g))
              /\ mcb[g].freed => mcb[g].num_requests = 0
          BY <1>1, <2>1 DEF MwInv, CountInv
        <4>2. IsFiniteSet(Of(g))
          BY <3>1, OfFinite
        <4> QED
          BY <3>3, <4>1, <4>2, FS_EmptySet
      <3>6. /\ mcb[g].free_qiov # "freed"
            /\ \A r \in mcb[g].callbacks : status[r] = "pending"
        BY <1>1, <3>3, <3>4, <3>5 DEF MwInv, SafeInv, Callable
      <3> QED
        BY <2>2, <3>2, <3>3, <3>6 DEF Dangling, Freed
    <2> QED
      BY <2>1, <2>2
  <1>2. MwInv => OneFailureContained
    BY <1>1 DEF OneFailureContained, Orderly
  <1> QED
    BY <1>2, MwCorrect, PTL

(***************************************************************************)
(* Merging moves no data: a sector holds what it held or what the guest    *)
(* sent for it, for any requests that do not overlap and lie less than     *)
(* IntRange sectors apart, so that multiwrite_req_compare orders them.     *)
(***************************************************************************)
THEOREM MergeMovesNothing == Spec => []OnlyRequested
  <1>1. MwInv => OnlyRequested
    BY DEF MwInv, DataInv, Separate, OnlyRequested, Right
  <1> QED
    BY <1>1, MwCorrect, PTL

(***************************************************************************)
(* A write reported to the guest as done is on the disk, for any requests  *)
(* that do not overlap and can be compared and every policy but "ignore",  *)
(* unless the driver reported a success for data it had not written.       *)
(***************************************************************************)
THEOREM SuccessCorrect == Spec => []SuccessIsOnDisk
  <1>1. MwInv => SuccessIsOnDisk
    BY DEF MwInv, DataInv, Separate, SuccessIsOnDisk
  <1> QED
    BY <1>1, MwCorrect, PTL
=============================================================================
