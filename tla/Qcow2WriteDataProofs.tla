------------------------ MODULE Qcow2WriteDataProofs ------------------------
(***************************************************************************)
(* Proofs about what concurrent qcow2 writes do to the guest's data, on    *)
(* top of the invariant QcowInv of Qcow2WriteProofs.                       *)
(*                                                                         *)
(*   RunInv     the lists the code keeps by hand (todo, the dependents of  *)
(*              each request, cluster_allocs) name each request once and   *)
(*              agree with the requests' states;                           *)
(*   TargetInv  where a data write goes: a write in place to the cluster   *)
(*              that the L2 table maps, a write to new clusters to         *)
(*              clusters that nobody else refers to;                       *)
(*   LeakInv    the refcounts are exact, allocations in flight included,   *)
(*              as long as nothing has failed and nothing was abandoned;   *)
(*   DataInv    what the guest reads, relative to how far each request has *)
(*              got.                                                       *)
(*                                                                         *)
(* The first three hold whatever fails and whatever is cancelled.  Theorem *)
(* DataCorrect excludes the two behaviours of the code that break it: a    *)
(* dependent request that was cancelled is restarted after its release     *)
(* (qcow_aio_cancel leaves it on dependent_requests), and a data write     *)
(* that cannot be submitted is reported as a success.                      *)
(***************************************************************************)
EXTENDS Qcow2WriteProofs

-----------------------------------------------------------------------------
(* The bookkeeping of requests: todo, dependent_requests, cluster_allocs.  *)

Once(s) == \A i, j \in DOMAIN s : s[i] = s[j] /\ s[i] \in Reqs => i = j

\* The main thread is in the middle of exactly the requests that run, and of
\* each of them once.
Scheduled ==
    /\ \A r \in Reqs : st[r] = "run" <=> r \in ToSet(todo)
    /\ Once(todo)

\* A request is in one list of dependents, once, only while it waits or after
\* it has been cancelled there; and whoever has dependents is on
\* cluster_allocs.
DependentsSound ==
    /\ \A q \in Reqs : Once(dependents[q])
    /\ \A q, p \in Reqs : q # p =>
          ToSet(dependents[q]) \cap ToSet(dependents[p]) = {}
    /\ \A q \in Reqs : \A r \in ToSet(dependents[q]) :
          st[r] \in {"wait", "done"} /\ r \notin ToSet(cluster_allocs)
    /\ \A q \in Reqs : dependents[q] # <<>> => q \in ToSet(cluster_allocs)
    /\ \A r \in Reqs : st[r] = "wait" => \E q \in Reqs : r \in ToSet(dependents[q])

\* cluster_allocs lists a request once, and it is allocating or was abandoned.
ListSound ==
    /\ Once(cluster_allocs)
    /\ \A r \in ToSet(cluster_allocs) : Allocating(r) \/ st[r] = "done"

RunInv == Scheduled /\ DependentsSound /\ ListSound

LEMMA ToSetSubset ==
    ASSUME NEW S, NEW s \in Seq(S)
    PROVE  ToSet(s) \subseteq S
  <1>1. \A x : x \in ToSet(s) <=> \E i \in 1 .. Len(s) : x = s[i]
    BY ToSetIs
  <1>2. \A i \in 1 .. Len(s) : s[i] \in S
    BY ElementOfSeq
  <1> QED
    BY <1>1, <1>2, Zenon

LEMMA OnceCons ==
    ASSUME NEW S, NEW x \in S, NEW q \in Seq(S), Once(q),
           x \in Reqs => x \notin ToSet(q)
    PROVE  Once(<<x>> \o q)
  <1> DEFINE p == <<x>> \o q
  <1>1. /\ DOMAIN q = 1 .. Len(q) /\ DOMAIN p = 1 .. (Len(q) + 1) /\ Len(q) \in Nat
        /\ p[1] = x /\ \A i \in 1 .. Len(q) : p[i + 1] = q[i]
    OBVIOUS
  <1> HIDE DEF p
  <1>2. \A i \in 1 .. (Len(q) + 1) : i = 1 \/ (i - 1 \in 1 .. Len(q) /\ p[i] = q[i - 1])
    BY <1>1
  <1>3. \A i \in 1 .. Len(q) : q[i] \in ToSet(q)
    BY ToSetIs
  <1>4. SUFFICES ASSUME NEW i \in 1 .. (Len(q) + 1), NEW j \in 1 .. (Len(q) + 1),
                        p[i] = p[j], p[i] \in Reqs
                 PROVE  i = j
    BY <1>1 DEF Once, p
  <1>5. CASE i = 1 \/ j = 1
    BY <1>1, <1>2, <1>3, <1>4, <1>5
  <1>6. CASE i # 1 /\ j # 1
    <2>1. i - 1 = j - 1
      BY <1>1, <1>2, <1>4, <1>6 DEF Once
    <2> QED
      BY <1>1, <2>1
  <1> QED
    BY <1>5, <1>6

LEMMA OnceTail ==
    ASSUME NEW S, NEW q \in Seq(S), q # <<>>
    PROVE  /\ Tail(q) \in Seq(S) /\ Head(q) \in S
           /\ ToSet(q) = ToSet(Tail(q)) \cup {Head(q)}
           /\ Once(q) => Once(Tail(q)) /\ (Head(q) \in Reqs => Head(q) \notin ToSet(Tail(q)))
  <1> DEFINE p == Tail(q)
  <1>1. /\ Len(q) \in Nat \ {0} /\ DOMAIN q = 1 .. Len(q) /\ p \in Seq(S)
        /\ Head(q) = q[1] /\ Head(q) \in S
        /\ Len(p) = Len(q) - 1 /\ DOMAIN p = 1 .. (Len(q) - 1)
        /\ \A i \in 1 .. (Len(q) - 1) : p[i] = q[i + 1]
    BY HeadTailProperties, EmptySeq, LenProperties
  <1> HIDE DEF p
  <1>2. \A x : x \in ToSet(p) <=> \E i \in 1 .. (Len(q) - 1) : x = q[i + 1]
    <2>1. \A x : x \in ToSet(p) <=> \E i \in 1 .. (Len(q) - 1) : x = p[i]
      BY <1>1, ToSetIs
    <2>2. \A i \in 1 .. (Len(q) - 1) : p[i] = q[i + 1]
      BY <1>1
    <2> QED
      BY <2>1, <2>2, Zenon
  <1>3. \A x : x \in ToSet(q) <=> \E i \in 1 .. Len(q) : x = q[i]
    BY <1>1, ToSetIs
  <1>4. \A i \in 1 .. Len(q) : i = 1 \/ (i - 1 \in 1 .. (Len(q) - 1) /\ i = (i - 1) + 1)
    BY <1>1
  <1>5. ToSet(q) \subseteq ToSet(p) \cup {Head(q)}
    <2>1. SUFFICES ASSUME NEW i \in 1 .. Len(q)
                   PROVE  q[i] \in ToSet(p) \cup {Head(q)}
      BY <1>3
    <2>2. CASE i = 1
      BY <1>1, <2>2
    <2>3. CASE i # 1
      <3>1. i - 1 \in 1 .. (Len(q) - 1) /\ q[(i - 1) + 1] = q[i]
        BY <1>1, <2>3
      <3> QED
        BY <1>2, <3>1
    <2> QED
      BY <2>2, <2>3
  <1>6. ToSet(p) \cup {Head(q)} \subseteq ToSet(q)
    <2>1. \A i \in 1 .. (Len(q) - 1) : i + 1 \in 1 .. Len(q)
      BY <1>1
    <2>2. ToSet(p) \subseteq ToSet(q)
      BY <1>2, <1>3, <2>1
    <2> QED
      BY <1>1, <1>3, <2>2
  <1>7. ASSUME Once(q)
        PROVE  Once(p) /\ (Head(q) \in Reqs => Head(q) \notin ToSet(p))
    <2>1. \A i \in 1 .. (Len(q) - 1) : i + 1 \in 1 .. Len(q) /\ i + 1 # 1
      BY <1>1
    <2>2. Once(p)
      <3>1. SUFFICES ASSUME NEW i \in 1 .. (Len(q) - 1), NEW j \in 1 .. (Len(q) - 1),
                            p[i] = p[j], p[i] \in Reqs
                     PROVE  i = j
        BY <1>1 DEF Once
      <3>2. i + 1 = j + 1
        BY <1>1, <1>7, <2>1, <3>1 DEF Once
      <3> QED
        BY <1>1, <3>2
    <2>3. Head(q) \in Reqs => Head(q) \notin ToSet(p)
      BY <1>1, <1>2, <1>7, <2>1 DEF Once
    <2> QED
      BY <2>2, <2>3
  <1> QED
    BY <1>1, <1>5, <1>6, <1>7 DEF p

LEMMA OnceSnoc ==
    ASSUME NEW q \in Seq(Reqs), NEW r \in Reqs, Once(q), r \notin ToSet(q)
    PROVE  Once(q \o <<r>>)
  <1> DEFINE p == q \o <<r>>
  <1>1. /\ DOMAIN q = 1 .. Len(q) /\ DOMAIN p = 1 .. (Len(q) + 1) /\ Len(q) \in Nat
        /\ p[Len(q) + 1] = r /\ \A i \in 1 .. Len(q) : p[i] = q[i]
    OBVIOUS
  <1> HIDE DEF p
  <1>2. \A i \in 1 .. (Len(q) + 1) : i = Len(q) + 1 \/ i \in 1 .. Len(q)
    BY <1>1
  <1>3. \A i \in 1 .. Len(q) : q[i] \in ToSet(q)
    BY ToSetIs
  <1>4. SUFFICES ASSUME NEW i \in 1 .. (Len(q) + 1), NEW j \in 1 .. (Len(q) + 1),
                        p[i] = p[j], p[i] \in Reqs
                 PROVE  i = j
    BY <1>1 DEF Once, p
  <1>5. CASE i = Len(q) + 1 \/ j = Len(q) + 1
    BY <1>1, <1>2, <1>3, <1>4, <1>5
  <1>6. CASE i \in 1 .. Len(q) /\ j \in 1 .. Len(q)
    BY <1>1, <1>4, <1>6 DEF Once
  <1> QED
    BY <1>2, <1>5, <1>6

\* A request leaves the callback it was running in.
LEMMA RunningLeaves ==
    ASSUME TypeOK, Scheduled, todo # <<>>, Running \in Reqs, NEW R, R = Running,
           NEW v, v # "run", st' = [st EXCEPT ![R] = v],
           \/ todo' = Tail(todo)
           \/ todo' = IF Len(todo) = 1 THEN <<>> ELSE <<NoReq>> \o Tail(todo)
    PROVE  Scheduled' /\ st[R] = "run"
  <1> DEFINE S == Reqs \cup {NoReq}
             t == Tail(todo)
  <1>1. todo \in Seq(S) /\ st \in [Reqs -> States] /\ NoReq \in S /\ NoReq \notin Reqs
    BY Types, NoReqAssumption DEF RequestTypes
  <1>2. /\ t \in Seq(S) /\ ToSet(todo) = ToSet(t) \cup {R}
        /\ Once(t) /\ R \notin ToSet(t)
    BY <1>1, OnceTail DEF Scheduled, Running
  <1>3. todo' = t \/ todo' = <<NoReq>> \o t
    <2>1. Len(todo) = 1 => t = <<>>
      <3>1. Len(t) = Len(todo) - 1 /\ Len(todo) \in Nat
        BY <1>1, HeadTailProperties, LenProperties
      <3> HIDE DEF t, S
      <3>2. t = <<>> <=> Len(t) = 0
        BY <1>2, EmptySeq
      <3> QED
        BY <3>1, <3>2
    <2> QED
      BY <2>1
  <1> HIDE DEF t, S
  <1>4. Once(todo')
    <2>1. Once(<<NoReq>> \o t)
      BY <1>1, <1>2, OnceCons
    <2> QED
      BY <1>2, <1>3, <2>1
  <1>5. \A r \in Reqs : r \in ToSet(todo') <=> r \in ToSet(t)
    <2>1. ToSet(<<NoReq>> \o t) = ToSet(t) \cup {NoReq}
      BY <1>1, <1>2, ToSetCons
    <2>2. \A r \in Reqs : r \in ToSet(<<NoReq>> \o t) <=> r \in ToSet(t)
      BY <1>1, <2>1
    <2> QED
      BY <1>3, <2>2, Zenon
  <1>6. st[R] = "run"
    BY <1>2 DEF Scheduled
  <1>7. \A r \in Reqs : st'[r] = "run" <=> r \in ToSet(todo')
    BY <1>1, <1>2, <1>5 DEF Scheduled
  <1>8. Once(todo)'
    BY <1>4 DEF Once
  <1> QED
    BY <1>6, <1>7, <1>8 DEF Scheduled, ToSet

\* The lists when the request in front of todo leaves it and does not wait.
LEMMA ListsKept ==
    ASSUME TypeOK, RunInv, Running \in Reqs, NEW R, R = Running, st[R] = "run",
           NEW v \in {"hd", "done"}, st' = [st EXCEPT ![R] = v],
           \A q \in Reqs : q # R => meta'[q] = meta[q],
           UNCHANGED dependents,
           \/ UNCHANGED cluster_allocs
           \/ cluster_allocs' = <<R>> \o cluster_allocs /\ (Allocating(R)' \/ v = "done")
    PROVE  DependentsSound' /\ ListSound'
  <1>1. /\ cluster_allocs \in Seq(Reqs) /\ st \in [Reqs -> States]
        /\ \A r \in ToSet(cluster_allocs) : r \in Reqs
    BY Types, ToSetSubset DEF TableTypes, RequestTypes
  <1>2. R \notin ToSet(cluster_allocs)
    BY DEF RunInv, ListSound, Allocating
  <1>3. \A q \in Reqs : R \notin ToSet(dependents[q])
    BY DEF RunInv, DependentsSound
  <1>4. \A q \in Reqs : q # R => st'[q] = st[q] /\ (Allocating(q)' <=> Allocating(q))
    BY <1>1 DEF Allocating
  <1>5. st'[R] = v
    BY <1>1
  <1>6. /\ ToSet(cluster_allocs') \subseteq ToSet(cluster_allocs) \cup {R}
        /\ ToSet(cluster_allocs) \subseteq ToSet(cluster_allocs')
        /\ R \in ToSet(cluster_allocs') => Allocating(R)' \/ v = "done"
    <2>1. CASE UNCHANGED cluster_allocs
      BY <1>2, <2>1
    <2>2. CASE cluster_allocs' = <<R>> \o cluster_allocs /\ (Allocating(R)' \/ v = "done")
      <3>1. ToSet(<<R>> \o cluster_allocs) = ToSet(cluster_allocs) \cup {R}
        BY <1>1, ToSetCons
      <3> QED
        BY <2>2, <3>1
    <2> QED
      BY <2>1, <2>2
  <1>7. Once(cluster_allocs')
    BY <1>1, <1>2, OnceCons DEF RunInv, ListSound
  <1>8. ListSound'
    <2>1. \A r \in ToSet(cluster_allocs') : Allocating(r)' \/ st'[r] = "done"
      BY <1>1, <1>4, <1>5, <1>6 DEF RunInv, ListSound
    <2>2. Once(cluster_allocs)'
      BY <1>7 DEF Once
    <2> QED
      BY <2>1, <2>2 DEF ListSound, Allocating, ToSet
  <1>9. DependentsSound'
    <2>1. /\ \A q \in Reqs : Once(dependents'[q])
          /\ \A q, p \in Reqs : q # p =>
                ToSet(dependents'[q]) \cap ToSet(dependents'[p]) = {}
      BY DEF RunInv, DependentsSound
    <2>2. \A q \in Reqs : \A r \in ToSet(dependents'[q]) :
              st'[r] \in {"wait", "done"} /\ r \notin ToSet(cluster_allocs')
      <3>1. \A q \in Reqs : ToSet(dependents[q]) \subseteq Reqs
        <4>1. \A q \in Reqs : dependents[q] \in Seq(Reqs)
          BY Types DEF RequestTypes
        <4> QED
          BY <4>1, ToSetSubset
      <3> QED
        BY <1>3, <1>4, <1>6, <3>1 DEF RunInv, DependentsSound
    <2>3. \A q \in Reqs : dependents'[q] # <<>> => q \in ToSet(cluster_allocs')
      BY <1>6 DEF RunInv, DependentsSound
    <2>4. \A r \in Reqs : st'[r] = "wait" => \E q \in Reqs : r \in ToSet(dependents'[q])
      BY <1>4, <1>5 DEF RunInv, DependentsSound
    <2> QED
      BY <2>1, <2>2, <2>3, <2>4 DEF DependentsSound, Once, ToSet
  <1> QED
    BY <1>8, <1>9

LEMMA DoneRun ==
    ASSUME TypeOK, RunInv, todo # <<>>, Running \in Reqs, NEW ok, Done(ok),
           NEW R, R = Running,
           \A q \in Reqs : q # R => meta'[q] = meta[q],
           UNCHANGED cluster_allocs \/ cluster_allocs' = <<R>> \o cluster_allocs
    PROVE  RunInv'
  <1>1. /\ st' = [st EXCEPT ![R] = "done"] /\ UNCHANGED dependents
        /\ todo' = IF Len(todo) = 1 THEN <<>> ELSE <<NoReq>> \o Tail(todo)
    BY DEF Done
  <1>2. Scheduled' /\ st[R] = "run"
    BY <1>1, RunningLeaves DEF RunInv
  <1>3. DependentsSound' /\ ListSound'
    BY <1>1, <1>2, ListsKept
  <1> QED
    BY <1>2, <1>3 DEF RunInv

LEMMA FinishRun ==
    ASSUME QcowInv, RunInv, Finish
    PROVE  RunInv'
  <1>1. TypeOK /\ todo # <<>> /\ Running \in Reqs
    BY RunningRequest DEF QcowInv, Finish
  <1>2. Done(~failed[Running]) /\ UNCHANGED <<cluster_allocs, meta>>
    BY DEF Finish
  <1> QED
    BY <1>1, <1>2, DoneRun

LEMMA CallbackReturnsRun ==
    ASSUME QcowInv, RunInv, CallbackReturns
    PROVE  RunInv'
  <1>1. /\ todo \in Seq(Reqs \cup {NoReq}) /\ todo # <<>> /\ Head(todo) = NoReq
        /\ NoReq \notin Reqs /\ todo' = Tail(todo)
    BY Types, NoReqAssumption DEF QcowInv, RequestTypes, CallbackReturns, Running
  <1>2. ToSet(todo) = ToSet(todo') \cup {NoReq} /\ Once(todo')
    BY <1>1, OnceTail DEF RunInv, Scheduled
  <1>3. UNCHANGED <<st, dependents, meta, cluster_allocs>>
    BY DEF CallbackReturns, reqVars
  <1>4. Once(todo)'
    BY <1>2 DEF Once
  <1>5. Scheduled'
    BY <1>1, <1>2, <1>3, <1>4 DEF RunInv, Scheduled, ToSet
  <1>6. DependentsSound'
    BY <1>3 DEF RunInv, DependentsSound, Once, ToSet
  <1>7. ListSound'
    BY <1>3 DEF RunInv, ListSound, Allocating, Once, ToSet
  <1> QED
    BY <1>5, <1>6, <1>7 DEF RunInv

LEMMA SubmitRun ==
    ASSUME TypeOK, PartsFit, RunInv, More, NEW nb, SubmitData(nb),
           NEW R, R = Running,
           \A q \in Reqs : q # R => meta'[q] = meta[q], UNCHANGED dependents,
           \/ UNCHANGED cluster_allocs
           \/ cluster_allocs' = <<R>> \o cluster_allocs /\ meta'[R].nb_clusters # 0
    PROVE  RunInv'
  <1>1. Running \in Reqs /\ todo # <<>> /\ st \in [Reqs -> States]
    BY PositionFacts, Types DEF RequestTypes
  <1>2. st' = [st EXCEPT ![R] = "hd"] /\ todo' = Tail(todo)
    BY DEF SubmitData
  <1>3. Scheduled' /\ st[R] = "run"
    BY <1>1, <1>2, RunningLeaves DEF RunInv
  <1>4. st'[R] = "hd"
    BY <1>1, <1>2
  <1>5. meta'[R].nb_clusters # 0 => Allocating(R)'
    BY <1>4 DEF Allocating
  <1>6. DependentsSound' /\ ListSound'
    BY <1>1, <1>2, <1>3, <1>5, ListsKept
  <1> QED
    BY <1>3, <1>6 DEF RunInv

LEMMA WriteInPlaceRun ==
    ASSUME QcowInv, RunInv, WriteInPlace
    PROVE  RunInv'
  <1>1. /\ TypeOK /\ PartsFit /\ More /\ UseOwned /\ SubmitData(OwnedClusters)
        /\ UNCHANGED <<dependents, cluster_allocs>>
    BY DEF QcowInv, WriteInPlace, UseOwned
  <1>2. \A q \in Reqs : q # Running => meta'[q] = meta[q]
    BY <1>1, UseOwnedTypes
  <1>3. PICK R : R = Running
    OBVIOUS
  <1> QED
    BY <1>1, <1>2, <1>3, SubmitRun

LEMMA AllocateNewFacts ==
    ASSUME QcowInv, More, AllocateNew
    PROVE  /\ \A q \in Reqs : q # Running => meta'[q] = meta[q]
           /\ cluster_allocs' = <<Running>> \o cluster_allocs
           /\ meta'[Running].nb_clusters # 0
  <1>1. /\ \A q \in Reqs : q # Running => meta'[q] = meta[q]
        /\ meta'[Running].nb_clusters = Room.nb
    BY AllocateNewTypes DEF QcowInv
  <1>2. Room.nb \in Nat /\ Room.nb >= 1
    BY RoomCorrect DEF QcowInv, AllocateNew
  <1> QED
    BY <1>1, <1>2 DEF AllocateNew

LEMMA WriteAllocatingRun ==
    ASSUME QcowInv, RunInv, WriteAllocating
    PROVE  RunInv'
  <1>1. /\ TypeOK /\ PartsFit /\ More /\ AllocateNew /\ SubmitData(Room.nb)
        /\ UNCHANGED dependents
    BY DEF QcowInv, WriteAllocating
  <1>2. PICK R : R = Running
    OBVIOUS
  <1>3. /\ \A q \in Reqs : q # R => meta'[q] = meta[q]
        /\ cluster_allocs' = <<R>> \o cluster_allocs /\ meta'[R].nb_clusters # 0
    BY <1>1, <1>2, AllocateNewFacts
  <1> QED
    BY <1>1, <1>2, <1>3, SubmitRun

LEMMA FailsRun ==
    ASSUME QcowInv, RunInv, AllocFails \/ SubmitFails
    PROVE  RunInv'
  <1>1. TypeOK /\ PartsFit /\ More
    BY DEF QcowInv, AllocFails, SubmitFails
  <1>2. todo # <<>> /\ Running \in Reqs
    BY <1>1, PositionFacts
  <1>3. PICK R : R = Running
    OBVIOUS
  <1>4. CASE AllocFails
    <2>1. /\ Done(FALSE) /\ UNCHANGED meta
          /\ cluster_allocs' = <<R>> \o cluster_allocs
      BY <1>3, <1>4 DEF AllocFails
    <2> QED
      BY <1>1, <1>2, <1>3, <2>1, DoneRun
  <1>5. CASE SubmitFails /\ UseOwned
    <2>1. /\ Done(TRUE) /\ UNCHANGED cluster_allocs
          /\ \A q \in Reqs : q # R => meta'[q] = meta[q]
      BY <1>1, <1>3, <1>5, UseOwnedTypes DEF SubmitFails, UseOwned
    <2> QED
      BY <1>1, <1>2, <1>3, <2>1, DoneRun
  <1>6. CASE SubmitFails /\ AllocateNew
    <2>1. /\ Done(TRUE) /\ cluster_allocs' = <<R>> \o cluster_allocs
          /\ \A q \in Reqs : q # R => meta'[q] = meta[q]
      BY <1>1, <1>3, <1>6, AllocateNewFacts DEF SubmitFails
    <2> QED
      BY <1>1, <1>2, <1>3, <2>1, DoneRun
  <1> QED
    BY <1>4, <1>5, <1>6 DEF SubmitFails

LEMMA AioWritevRun ==
    ASSUME QcowInv, RunInv, NEW r \in Reqs, NEW s \in GuestSectors,
           NEW k \in 1 .. MaxSectors, AioWritev(r, s, k)
    PROVE  RunInv'
  <1>1. /\ todo \in Seq(Reqs \cup {NoReq}) /\ r \in Reqs \cup {NoReq}
        /\ st \in [Reqs -> States] /\ st[r] = "new"
        /\ todo' = <<r>> \o todo /\ st' = [st EXCEPT ![r] = "run"]
        /\ UNCHANGED <<cluster_allocs, dependents, meta>>
    BY Types DEF QcowInv, RequestTypes, AioWritev
  <1>2. r \notin ToSet(todo)
    BY <1>1 DEF RunInv, Scheduled
  <1>3. Once(todo')
    BY <1>1, <1>2, OnceCons DEF RunInv, Scheduled
  <1>4. ToSet(todo') = ToSet(todo) \cup {r}
    BY <1>1, ToSetCons
  <1>5. Scheduled'
    <2>1. Once(todo)'
      BY <1>3 DEF Once
    <2>2. \A q \in Reqs : st'[q] = "run" <=> q \in ToSet(todo')
      BY <1>1, <1>4 DEF RunInv, Scheduled
    <2> QED
      BY <2>1, <2>2 DEF Scheduled, ToSet
  <1>6. \A q \in Reqs : q # r => st'[q] = st[q]
    BY <1>1
  <1>7. DependentsSound'
    <2>1. \A q \in Reqs : \A x \in ToSet(dependents[q]) : x \in Reqs /\ x # r
      <3>1. \A q \in Reqs : dependents[q] \in Seq(Reqs)
        BY Types DEF QcowInv, RequestTypes
      <3> QED
        BY <1>1, <3>1, ToSetSubset DEF RunInv, DependentsSound
    <2>2. \A q \in Reqs : \A x \in ToSet(dependents[q]) :
             st'[x] \in {"wait", "done"} /\ x \notin ToSet(cluster_allocs)
      BY <1>6, <2>1 DEF RunInv, DependentsSound
    <2>3. \A q \in Reqs : st'[q] = "wait" => \E p \in Reqs : q \in ToSet(dependents[p])
      BY <1>1 DEF RunInv, DependentsSound
    <2> QED
      BY <1>1, <2>2, <2>3 DEF RunInv, DependentsSound
  <1>8. ListSound'
    <2>1. \A x \in ToSet(cluster_allocs) : x \in Reqs /\ x # r
      <3>1. cluster_allocs \in Seq(Reqs)
        BY Types DEF QcowInv, TableTypes, RequestTypes
      <3> QED
        BY <1>1, <3>1, ToSetSubset DEF RunInv, ListSound, Allocating
    <2>2. \A x \in ToSet(cluster_allocs) :
             st'[x] = st[x] /\ (Allocating(x)' <=> Allocating(x))
      BY <1>1, <1>6, <2>1 DEF Allocating
    <2> QED
      BY <1>1, <2>2 DEF RunInv, ListSound, Once, ToSet
  <1> QED
    BY <1>5, <1>7, <1>8 DEF RunInv

\* Steps that only move a request between the states of a data write, or
\* abandon it.
LEMMA MovedRun ==
    ASSUME TypeOK, RunInv, NEW r \in Reqs, st[r] \in {"hd", "written", "broken", "wait"},
           NEW v \in {"written", "broken", "done"},
           v # "done" => st[r] = "hd",
           st' = [st EXCEPT ![r] = v],
           UNCHANGED <<cluster_allocs, dependents, meta, todo>>
    PROVE  RunInv'
  <1>1. st \in [Reqs -> States] /\ cluster_allocs \in Seq(Reqs)
           /\ \A q \in Reqs : dependents[q] \in Seq(Reqs)
    BY Types DEF RequestTypes, TableTypes
  <1>2. st'[r] = v /\ \A q \in Reqs : q # r => st'[q] = st[q]
    BY <1>1
  <1>3. Scheduled'
    <2>1. \A q \in Reqs : st'[q] = "run" <=> st[q] = "run"
      BY <1>2
    <2> QED
      BY <2>1 DEF RunInv, Scheduled, Once, ToSet
  <1>4. DependentsSound'
    <2>1. \A q \in Reqs : \A x \in ToSet(dependents[q]) :
             st'[x] \in {"wait", "done"} /\ x \notin ToSet(cluster_allocs)
      <3>1. \A q \in Reqs : \A x \in ToSet(dependents[q]) : x \in Reqs
        BY <1>1, ToSetSubset
      <3> QED
        BY <1>2, <3>1 DEF RunInv, DependentsSound
    <2>2. \A q \in Reqs : st'[q] = "wait" => \E p \in Reqs : q \in ToSet(dependents[p])
      BY <1>2 DEF RunInv, DependentsSound
    <2> QED
      BY <2>1, <2>2 DEF RunInv, DependentsSound
  <1>5. ListSound'
    <2>1. \A x \in ToSet(cluster_allocs) : Allocating(x)' \/ st'[x] = "done"
      <3>1. \A x \in ToSet(cluster_allocs) : x \in Reqs
        BY <1>1, ToSetSubset
      <3> QED
        BY <1>2, <3>1 DEF RunInv, ListSound, Allocating
    <2> QED
      BY <2>1 DEF RunInv, ListSound, Once, ToSet
  <1> QED
    BY <1>3, <1>4, <1>5 DEF RunInv

LEMMA HdRun ==
    ASSUME QcowInv, RunInv, NEW r \in Reqs, HdWrite(r) \/ HdFail(r) \/ AioCancel(r)
    PROVE  RunInv'
  <1>1. TypeOK
    BY DEF QcowInv
  <1>2. /\ st[r] \in {"hd", "written", "broken", "wait"}
        /\ UNCHANGED <<cluster_allocs, dependents, meta, todo>>
        /\ \/ st' = [st EXCEPT ![r] = "written"] /\ st[r] = "hd"
           \/ st' = [st EXCEPT ![r] = "broken"] /\ st[r] = "hd"
           \/ st' = [st EXCEPT ![r] = "done"]
    BY DEF HdWrite, HdFail, AioCancel
  <1> QED
    BY <1>1, <1>2, MovedRun

LEMMA WaitForAllocationRun ==
    ASSUME QcowInv, RunInv, WaitForAllocation
    PROVE  RunInv'
  <1>1. TypeOK /\ PartsFit /\ CopiedMapped /\ Listed /\ More /\ ~l2[First].copied
           /\ Room.dep # NoReq
    BY DEF QcowInv, WaitForAllocation
  <1>2. PICK R, d : R = Running /\ d = Room.dep
    OBVIOUS
  <1>3. /\ R \in Reqs /\ todo # <<>> /\ st \in [Reqs -> States]
        /\ dependents \in [Reqs -> Seq(Reqs)] /\ meta \in [Reqs -> Metas]
        /\ cluster_allocs \in Seq(Reqs)
    BY <1>1, <1>2, PositionFacts, Types DEF RequestTypes, TableTypes
  <1>4. d \in ToSet(cluster_allocs) /\ d \in Reqs
    BY <1>1, <1>2, RoomCorrect
  <1>5. /\ st' = [st EXCEPT ![R] = "wait"] /\ todo' = Tail(todo)
        /\ dependents' = [dependents EXCEPT ![d] = <<R>> \o @]
        /\ meta' = [meta EXCEPT ![R] = [@ EXCEPT !.nb_clusters = 0, !.depends_on = d]]
        /\ UNCHANGED cluster_allocs
    BY <1>2 DEF WaitForAllocation
  <1>6. Scheduled' /\ st[R] = "run"
    BY <1>1, <1>2, <1>3, <1>5, RunningLeaves DEF RunInv
  <1>7. R \notin ToSet(cluster_allocs) /\ \A q \in Reqs : R \notin ToSet(dependents[q])
    BY <1>6 DEF RunInv, ListSound, DependentsSound, Allocating
  <1>8. /\ st'[R] = "wait" /\ \A q \in Reqs : q # R => st'[q] = st[q] /\ meta'[q] = meta[q]
        /\ \A q \in Reqs : q # d => dependents'[q] = dependents[q]
        /\ dependents'[d] = <<R>> \o dependents[d]
    BY <1>3, <1>4, <1>5
  <1>9. ListSound'
    <2>1. \A x \in ToSet(cluster_allocs) :
             st'[x] = st[x] /\ (Allocating(x)' <=> Allocating(x))
      <3>1. \A x \in ToSet(cluster_allocs) : x \in Reqs
        BY <1>3, ToSetSubset
      <3> QED
        BY <1>7, <1>8, <3>1 DEF Allocating
    <2> QED
      BY <1>5, <2>1 DEF RunInv, ListSound, Once, ToSet
  <1>10. ToSet(dependents'[d]) = ToSet(dependents[d]) \cup {R} /\ Once(dependents'[d])
    <2>1. dependents[d] \in Seq(Reqs)
      BY <1>3, <1>4
    <2> QED
      BY <1>3, <1>4, <1>7, <1>8, <2>1, ToSetCons, OnceCons DEF RunInv, DependentsSound
  <1>11. DependentsSound'
    <2>1. \A q \in Reqs : ToSet(dependents[q]) \subseteq Reqs
      <3>1. \A q \in Reqs : dependents[q] \in Seq(Reqs)
        BY <1>3
      <3> QED
        BY <3>1, ToSetSubset
    <2>2. \A q \in Reqs : Once(dependents'[q])
      BY <1>8, <1>10 DEF RunInv, DependentsSound
    <2>3. \A q, p \in Reqs : q # p =>
             ToSet(dependents'[q]) \cap ToSet(dependents'[p]) = {}
      <3>1. \A q \in Reqs : /\ ToSet(dependents[q]) \subseteq ToSet(dependents'[q])
                            /\ ToSet(dependents'[q]) \subseteq ToSet(dependents[q]) \cup {R}
                            /\ q # d => ToSet(dependents'[q]) = ToSet(dependents[q])
        BY <1>8, <1>10
      <3> QED
        BY <1>7, <3>1 DEF RunInv, DependentsSound
    <2>4. \A q \in Reqs : \A x \in ToSet(dependents'[q]) :
              st'[x] \in {"wait", "done"} /\ x \notin ToSet(cluster_allocs)
      <3>1. SUFFICES ASSUME NEW q \in Reqs, NEW x \in ToSet(dependents'[q])
                     PROVE  st'[x] \in {"wait", "done"} /\ x \notin ToSet(cluster_allocs)
        OBVIOUS
      <3>2. CASE x = R
        BY <1>7, <1>8, <3>2
      <3>3. CASE x # R
        <4>1. x \in ToSet(dependents[q]) /\ x \in Reqs
          BY <1>8, <1>10, <2>1, <3>1, <3>3
        <4> QED
          BY <1>8, <3>3, <4>1 DEF RunInv, DependentsSound
      <3> QED
        BY <3>2, <3>3
    <2>5. \A q \in Reqs : dependents'[q] # <<>> => q \in ToSet(cluster_allocs)
      BY <1>4, <1>8 DEF RunInv, DependentsSound
    <2>6. \A x \in Reqs : st'[x] = "wait" => \E q \in Reqs : x \in ToSet(dependents'[q])
      BY <1>4, <1>8, <1>10 DEF RunInv, DependentsSound
    <2> QED
      BY <1>5, <2>2, <2>3, <2>4, <2>5, <2>6 DEF DependentsSound
  <1> QED
    BY <1>6, <1>9, <1>11 DEF RunInv

LEMMA WriteCbRun ==
    ASSUME QcowInv, RunInv, NEW r \in Reqs, WriteCb(r)
    PROVE  RunInv'
  <1>1. /\ TypeOK /\ st[r] \in {"written", "broken"} /\ UNCHANGED meta
        /\ cluster_allocs' = OffTheList(r)
    BY DEF QcowInv, WriteCb, RunDependentRequests
  <1>2. /\ todo' = dependents[r] \o <<r>>
        /\ ToSet(todo') = ToSet(dependents[r]) \cup {r}
        /\ st' = [q \in Reqs |-> IF q \in ToSet(todo') THEN "run" ELSE st[q]]
        /\ dependents' = [dependents EXCEPT ![r] = <<>>]
    BY <1>1, WriteCbRequests
  <1>3. /\ st \in [Reqs -> States] /\ dependents \in [Reqs -> Seq(Reqs)]
        /\ cluster_allocs \in Seq(Reqs)
        /\ \A q \in Reqs : ToSet(dependents[q]) \subseteq Reqs
    <2>1. /\ st \in [Reqs -> States] /\ dependents \in [Reqs -> Seq(Reqs)]
          /\ cluster_allocs \in Seq(Reqs)
      BY <1>1, Types DEF RequestTypes, TableTypes
    <2>2. \A q \in Reqs : dependents[q] \in Seq(Reqs)
      BY <2>1
    <2> QED
      BY <2>1, <2>2, ToSetSubset
  <1>4. /\ \A q \in Reqs : q # r => dependents'[q] = dependents[q]
        /\ dependents'[r] = <<>> /\ ToSet(<<>>) = {} /\ Once(<<>>)
    BY <1>2, <1>3 DEF ToSet, Once
  <1>5. r \notin ToSet(dependents[r])
    BY <1>1 DEF RunInv, DependentsSound
  <1>6. todo = <<>> /\ \A q \in Reqs : st[q] # "run"
    <2>1. todo = <<>>
      BY DEF WriteCb
    <2> QED
      BY <1>4, <2>1 DEF RunInv, Scheduled
  <1>7. Scheduled'
    <2>1. dependents[r] \in Seq(Reqs) /\ Once(dependents[r])
      BY <1>3 DEF RunInv, DependentsSound
    <2>2. Once(todo')
      BY <1>2, <1>5, <2>1, OnceSnoc
    <2>3. \A q \in Reqs : st'[q] = "run" <=> q \in ToSet(todo')
      BY <1>2, <1>6
    <2> QED
      BY <2>2, <2>3 DEF Scheduled
  <1>8. /\ ToSet(cluster_allocs') = ToSet(cluster_allocs) \ {r}
        /\ Once(cluster_allocs') /\ ToSet(cluster_allocs) \subseteq Reqs
    <2>1. \A i, j \in DOMAIN cluster_allocs : cluster_allocs[i] = cluster_allocs[j] => i = j
      BY <1>3, ElementOfSeq, LenProperties DEF RunInv, ListSound, Once
    <2>2. CASE meta[r].nb_clusters # 0
      <3>1. cluster_allocs' = RemoveFirst(cluster_allocs, r)
        BY <1>1, <2>2 DEF OffTheList
      <3>2. /\ ToSet(RemoveFirst(cluster_allocs, r)) \subseteq ToSet(cluster_allocs)
            /\ ToSet(cluster_allocs) \ {r} \subseteq ToSet(RemoveFirst(cluster_allocs, r))
            /\ r \notin ToSet(RemoveFirst(cluster_allocs, r))
            /\ Once(RemoveFirst(cluster_allocs, r))
        BY <1>3, <2>1, RemoveFirstCorrect DEF Once
      <3>3. ToSet(RemoveFirst(cluster_allocs, r)) = ToSet(cluster_allocs) \ {r}
        BY <3>2
      <3> QED
        BY <1>3, <3>1, <3>2, <3>3, ToSetSubset
    <2>3. CASE meta[r].nb_clusters = 0
      <3>1. r \notin ToSet(cluster_allocs)
        BY <1>1, <2>3 DEF RunInv, ListSound, Allocating
      <3>2. cluster_allocs' = cluster_allocs
        BY <1>1, <2>3 DEF OffTheList
      <3> QED
        BY <1>3, <3>1, <3>2, ToSetSubset DEF RunInv, ListSound
    <2> QED
      BY <2>2, <2>3
  <1>9. \A q \in Reqs : q \notin ToSet(todo') => st'[q] = st[q]
    BY <1>2
  <1>10. ListSound'
    <2>1. \A x \in ToSet(cluster_allocs') : x \notin ToSet(todo') /\ x \in Reqs
      BY <1>2, <1>8 DEF RunInv, DependentsSound
    <2>2. \A x \in ToSet(cluster_allocs') : Allocating(x)' \/ st'[x] = "done"
      BY <1>1, <1>8, <1>9, <2>1 DEF RunInv, ListSound, Allocating
    <2> QED
      BY <1>8, <2>2 DEF ListSound
  <1>11. DependentsSound'
    <2>1. \A q \in Reqs : Once(dependents'[q])
      BY <1>4 DEF RunInv, DependentsSound
    <2>2. \A q, p \in Reqs : q # p =>
             ToSet(dependents'[q]) \cap ToSet(dependents'[p]) = {}
      BY <1>4 DEF RunInv, DependentsSound
    <2>3. \A q \in Reqs : \A x \in ToSet(dependents'[q]) :
              st'[x] \in {"wait", "done"} /\ x \notin ToSet(cluster_allocs')
      <3>1. SUFFICES ASSUME NEW q \in Reqs, NEW x \in ToSet(dependents'[q])
                     PROVE  st'[x] \in {"wait", "done"} /\ x \notin ToSet(cluster_allocs')
        OBVIOUS
      <3>2. q # r /\ x \in ToSet(dependents[q])
        BY <1>4, <3>1
      <3>3. /\ x \in Reqs /\ st[x] \in {"wait", "done"} /\ x \notin ToSet(cluster_allocs)
            /\ x \notin ToSet(dependents[r]) /\ x # r
        BY <1>1, <1>3, <3>2 DEF RunInv, DependentsSound
      <3> QED
        BY <1>2, <1>8, <1>9, <3>3
    <2>4. \A q \in Reqs : dependents'[q] # <<>> => q \in ToSet(cluster_allocs')
      BY <1>4, <1>8 DEF RunInv, DependentsSound
    <2>5. \A x \in Reqs : st'[x] = "wait" => \E q \in Reqs : x \in ToSet(dependents'[q])
      <3>1. SUFFICES ASSUME NEW x \in Reqs, st'[x] = "wait"
                     PROVE  \E q \in Reqs : x \in ToSet(dependents'[q])
        OBVIOUS
      <3>2. x \notin ToSet(todo') /\ st[x] = "wait"
        BY <1>2, <3>1
      <3>3. PICK q \in Reqs : x \in ToSet(dependents[q])
        BY <3>2 DEF RunInv, DependentsSound
      <3>4. q # r
        BY <1>2, <3>2, <3>3
      <3> QED
        BY <1>4, <3>3, <3>4
    <2> QED
      BY <2>1, <2>2, <2>3, <2>4, <2>5 DEF DependentsSound
  <1> QED
    BY <1>7, <1>10, <1>11 DEF RunInv

LEMMA RunStep == QcowInv /\ RunInv /\ [Next]_vars => RunInv'
  <1>1. SUFFICES ASSUME QcowInv, RunInv, [Next]_vars
                 PROVE  RunInv'
    OBVIOUS
  <1>2. CASE Callback
    BY <1>1, <1>2, FinishRun, CallbackReturnsRun, WriteInPlaceRun, WaitForAllocationRun,
       WriteAllocatingRun, FailsRun DEF Callback
  <1>3. ASSUME NEW r \in Reqs,
               \E s \in GuestSectors, k \in 1 .. MaxSectors : AioWritev(r, s, k)
        PROVE  RunInv'
    BY <1>1, <1>3, AioWritevRun
  <1>4. ASSUME NEW r \in Reqs, HdWrite(r) \/ HdFail(r) \/ WriteCb(r) \/ AioCancel(r)
        PROVE  RunInv'
    BY <1>1, <1>4, HdRun, WriteCbRun
  <1>5. CASE UNCHANGED vars
    <2>1. UNCHANGED <<st, meta, dependents, todo, cluster_allocs>>
      BY <1>5 DEF vars, reqVars
    <2>2. Scheduled'
      BY <1>1, <2>1 DEF RunInv, Scheduled, Once, ToSet
    <2>3. DependentsSound'
      BY <1>1, <2>1 DEF RunInv, DependentsSound, Once, ToSet
    <2>4. ListSound'
      BY <1>1, <2>1 DEF RunInv, ListSound, Allocating, Once, ToSet
    <2> QED
      BY <2>2, <2>3, <2>4 DEF RunInv
  <1> QED
    BY <1>1, <1>2, <1>3, <1>4, <1>5 DEF Next

LEMMA RunInit == Init => RunInv
  <1> SUFFICES ASSUME Init
               PROVE  RunInv
    OBVIOUS
  <1>1. /\ todo = <<>> /\ cluster_allocs = <<>>
        /\ \A r \in Reqs : st[r] = "new" /\ dependents[r] = <<>>
    BY DEF Init
  <1>2. ToSet(<<>>) = {} /\ Once(<<>>)
    BY DEF ToSet, Once
  <1> QED
    BY <1>1, <1>2 DEF RunInv, Scheduled, DependentsSound, ListSound

LEMMA RunCorrect == Spec => []RunInv
  <1>1. QcowInv /\ RunInv /\ [Next]_vars => RunInv'
    BY RunStep
  <1> QED
    BY <1>1, RunInit, InvCorrect, PTL DEF Spec

\* Nobody is abandoned on cluster_allocs when requests are not cancelled and
\* only the data write or the linking may fail.
ListAllocates == \A r \in ToSet(cluster_allocs) : Allocating(r)

LEMMA AllocatesStep ==
    ASSUME ~Cancels, "alloc" \notin Faults, "hd_submit" \notin Faults,
           QcowInv, RunInv, RunInv', ListAllocates, [Next]_vars
    PROVE  ListAllocates'
  <1>1. SUFFICES \A r \in ToSet(cluster_allocs') : st'[r] # "done"
    BY DEF RunInv, ListSound, ListAllocates, ToSet
  <1>2. /\ TypeOK /\ st \in [Reqs -> States] /\ cluster_allocs \in Seq(Reqs)
        /\ ToSet(cluster_allocs) \subseteq Reqs
    BY Types, ToSetSubset DEF QcowInv, RequestTypes, TableTypes
  <1>3. \A r \in ToSet(cluster_allocs) : st[r] \in {"hd", "written", "broken"}
    BY DEF ListAllocates, Allocating
  <1>4. CASE Finish
    <2>1. Running \in Reqs /\ Running \in ToSet(todo)
      BY <1>2, <1>4, RunningRequest, OnceTail, Types
      DEF Finish, Running, RequestTypes
    <2>2. st[Running] = "run"
      BY <2>1 DEF RunInv, Scheduled
    <2>3. UNCHANGED cluster_allocs /\ st' = [st EXCEPT ![Running] = "done"]
      BY <1>4 DEF Finish, Done
    <2> QED
      BY <1>2, <1>3, <2>1, <2>2, <2>3
  <1>5. CASE CallbackReturns \/ UNCHANGED vars
    BY <1>3, <1>5 DEF CallbackReturns, vars, reqVars
  <1>6. CASE WriteInPlace \/ WaitForAllocation
    <2>1. UNCHANGED cluster_allocs /\ \E v \in {"hd", "wait"} : st' = [st EXCEPT ![Running] = v]
      BY <1>6 DEF WriteInPlace, UseOwned, WaitForAllocation, SubmitData
    <2> QED
      BY <1>2, <1>3, <2>1
  <1>7. CASE WriteAllocating
    <2>1. More /\ AllocateNew /\ st' = [st EXCEPT ![Running] = "hd"]
      BY <1>7 DEF WriteAllocating, SubmitData
    <2>2. ToSet(cluster_allocs') = ToSet(cluster_allocs) \cup {Running} /\ Running \in Reqs
      BY <1>2, <2>1, AllocateNewTypes, PositionFacts DEF QcowInv
    <2> QED
      BY <1>2, <1>3, <2>1, <2>2
  <1>8. ASSUME NEW r \in Reqs, NEW s, NEW k, AioWritev(r, s, k)
        PROVE  \A q \in ToSet(cluster_allocs') : st'[q] # "done"
    BY <1>2, <1>3, <1>8 DEF AioWritev
  <1>9. ASSUME NEW r \in Reqs, HdWrite(r) \/ HdFail(r)
        PROVE  \A q \in ToSet(cluster_allocs') : st'[q] # "done"
    BY <1>2, <1>3, <1>9 DEF HdWrite, HdFail
  <1>10. ASSUME NEW r \in Reqs, WriteCb(r)
         PROVE  \A q \in ToSet(cluster_allocs') : st'[q] # "done"
    <2>1. ToSet(cluster_allocs') \subseteq ToSet(cluster_allocs)
      BY <1>2, <1>10, RemoveFirstCorrect DEF WriteCb, RunDependentRequests, OffTheList
    <2>2. \A q \in Reqs : st'[q] # "run" => st'[q] = st[q]
      BY <1>2, <1>10, WriteCbRequests
    <2> QED
      BY <1>2, <1>3, <2>1, <2>2
  <1> QED
    BY <1>4, <1>5, <1>6, <1>7, <1>8, <1>9, <1>10
    DEF Next, Callback, AllocFails, SubmitFails, AioCancel

LEMMA AllocatesCorrect ==
    ASSUME ~Cancels, "alloc" \notin Faults, "hd_submit" \notin Faults
    PROVE  Spec => []ListAllocates
  <1>1. Init => ListAllocates
    <2>1. Init => cluster_allocs = <<>>
      BY DEF Init
    <2>2. ToSet(<<>>) = {}
      BY DEF ToSet
    <2> QED
      BY <2>1, <2>2 DEF ListAllocates
  <1>2. QcowInv /\ RunInv /\ RunInv' /\ ListAllocates /\ [Next]_vars => ListAllocates'
    BY AllocatesStep
  <1> QED
    BY <1>1, <1>2, InvCorrect, RunCorrect, PTL DEF Spec

\* qcow2_alloc_cluster_offset and run_dependent_requests keep cluster_allocs
\* exact: it lists each write in flight that allocates clusters once, and
\* nothing else, for any number of requests whose data writes and linking may
\* fail.
THEOREM InFlightCorrect ==
    ASSUME ~Cancels, "alloc" \notin Faults, "hd_submit" \notin Faults
    PROVE  Spec => []InFlightExact
  <1>1. QcowInv /\ RunInv /\ ListAllocates => InFlightExact
    <2> SUFFICES ASSUME QcowInv, RunInv, ListAllocates
                 PROVE  InFlightExact
      OBVIOUS
    <2>1. cluster_allocs \in Seq(Reqs) /\ ToSet(cluster_allocs) \subseteq Reqs
      BY Types, ToSetSubset DEF QcowInv, RequestTypes, TableTypes
    <2>2. ToSet(cluster_allocs) = {r \in Reqs : Allocating(r)}
      BY <2>1 DEF ListAllocates, QcowInv, Listed
    <2>3. \A i \in DOMAIN cluster_allocs : cluster_allocs[i] \in Reqs
      BY <2>1, ElementOfSeq, LenProperties
    <2> QED
      BY <2>2, <2>3 DEF InFlightExact, RunInv, ListSound, Once
  <1> QED
    BY <1>1, InvCorrect, RunCorrect, AllocatesCorrect, PTL

\* Under the same conditions a dependent write is on the list of a write whose
\* allocation is in flight: run_dependent_requests will restart it.
THEOREM WaitersCorrect ==
    ASSUME ~Cancels, "alloc" \notin Faults, "hd_submit" \notin Faults
    PROVE  Spec => []WaitersHaveOwner
  <1>1. RunInv /\ ListAllocates => WaitersHaveOwner
    <2> SUFFICES ASSUME RunInv, ListAllocates, NEW r \in Reqs, st[r] = "wait"
                 PROVE  \E q \in Reqs : Allocating(q) /\ r \in ToSet(dependents[q])
      BY DEF WaitersHaveOwner
    <2>1. PICK q \in Reqs : r \in ToSet(dependents[q])
      BY DEF RunInv, DependentsSound
    <2>2. dependents[q] # <<>>
      BY <2>1 DEF ToSet
    <2>3. Allocating(q)
      BY <2>2 DEF RunInv, DependentsSound, ListAllocates
    <2> QED
      BY <2>1, <2>3
  <1> QED
    BY <1>1, RunCorrect, AllocatesCorrect, PTL

-----------------------------------------------------------------------------
(* Where data is written to.                                               *)

\* No host cluster serves two guest clusters.
OneMapping ==
    \A g, x \in Guest : l2[g].host = l2[x].host /\ l2[g].host # 0 => g = x

\* New clusters have no other user than the request that allocated them.
NewUnshared ==
    \A r \in Reqs : Allocating(r) => \A h \in NewClusters(meta[r]) : rc[h] = 1

\* What is being replaced is not written in place at the same time.
NewUncopied ==
    \A r \in Reqs : Allocating(r) => \A g \in Covered(r) : ~l2[g].copied

\* The sectors of the data write in flight.
Current(r) == part[r].sector_num .. (part[r].sector_num + part[r].n - 1)

\* A write in place goes where the L2 table says, until it has been done.
InPlaceTargets ==
    \A r \in Reqs : st[r] = "hd" /\ meta[r].nb_clusters = 0 =>
        \A x \in Current(r) :
            l2[x \div CS] = [host |-> meta[r].cluster_offset
                                        + (x \div CS) - (part[r].sector_num \div CS),
                             copied |-> TRUE]

\* l2meta and the request agree about the sectors that are written.
MetaFits ==
    \A r \in Reqs : Allocating(r) =>
        /\ meta[r].offset = part[r].sector_num
        /\ meta[r].n_start = part[r].sector_num % CS
        /\ meta[r].nb_available = meta[r].n_start + part[r].n
        /\ meta[r].nb_available <= meta[r].nb_clusters * CS

TargetInv == OneMapping /\ NewUnshared /\ NewUncopied /\ InPlaceTargets /\ MetaFits

\* Steps that neither submit data nor link clusters.
LEMMA TargetsKept ==
    ASSUME QcowInv, TargetInv, UNCHANGED l2,
           \A h \in Host : rc[h] # 0 => rc'[h] = rc[h],
           \A r \in Reqs : Allocating(r)' =>
               Allocating(r) /\ meta'[r] = meta[r] /\ part'[r] = part[r],
           \A r \in Reqs : st'[r] = "hd" =>
               st[r] = "hd" /\ meta'[r] = meta[r] /\ part'[r] = part[r]
    PROVE  TargetInv'
  <1>1. OneMapping'
    BY DEF TargetInv, OneMapping, Guest
  <1>2. NewUnshared'
    <2>1. SUFFICES ASSUME NEW r \in Reqs, Allocating(r)', NEW h \in NewClusters(meta'[r])
                   PROVE  rc'[h] = 1
      BY DEF NewUnshared
    <2>2. Allocating(r) /\ h \in NewClusters(meta[r])
      BY <2>1
    <2>3. rc[h] = 1 /\ h \in Host
      BY <2>2 DEF TargetInv, NewUnshared, QcowInv, AllocsFit
    <2> QED
      BY <2>3
  <1>3. NewUncopied'
    <2>1. \A r \in Reqs : meta'[r] = meta[r] => Covered(r)' = Covered(r)
      BY DEF Covered
    <2> QED
      BY <2>1 DEF TargetInv, NewUncopied
  <1>4. InPlaceTargets'
    BY DEF TargetInv, InPlaceTargets, Current
  <1>5. MetaFits'
    BY DEF TargetInv, MetaFits
  <1> QED
    BY <1>1, <1>2, <1>3, <1>4, <1>5 DEF TargetInv

LEMMA DoneTargets ==
    ASSUME QcowInv, TargetInv, NEW ok, Done(ok), Running \in Reqs, UNCHANGED l2,
           \A h \in Host : rc[h] # 0 => rc'[h] = rc[h],
           NEW R, R = Running, \A q \in Reqs : q # R => meta'[q] = meta[q]
    PROVE  TargetInv'
  <1>1. /\ \A q \in Reqs : q # R => st'[q] = st[q] /\ part'[q] = part[q]
        /\ st'[R] = "done"
    BY DEF Done, QcowInv, TypeOK
  <1>2. \A r \in Reqs : Allocating(r)' =>
               Allocating(r) /\ meta'[r] = meta[r] /\ part'[r] = part[r]
    BY <1>1 DEF Allocating
  <1>3. \A r \in Reqs : st'[r] = "hd" =>
               st[r] = "hd" /\ meta'[r] = meta[r] /\ part'[r] = part[r]
    BY <1>1
  <1> QED
    BY <1>2, <1>3, TargetsKept

\* Allocation only changes what is free.
LEMMA AllocChanges ==
    ASSUME QcowInv, NEW h \in Host, NEW nb \in Nat \ {0}, AllocClusters(h, nb)
    PROVE  \A x \in Host : rc[x] # 0 => rc'[x] = rc[x]
  <1>1. \A x \in h .. (h + nb - 1) : rc[x] = 0
    BY AllocClustersTypes DEF QcowInv
  <1>2. rc' = [x \in Host |-> IF x \in h .. (h + nb - 1) THEN 1 ELSE rc[x]]
    BY DEF AllocClusters
  <1> QED
    BY <1>1, <1>2

LEMMA AllocateNewChanges ==
    ASSUME QcowInv, More, AllocateNew
    PROVE  /\ \A x \in Host : rc[x] # 0 => rc'[x] = rc[x]
           /\ \A q \in Reqs : q # Running => meta'[q] = meta[q]
           /\ UNCHANGED l2
  <1>1. PICK h \in Host : AllocClusters(h, Room.nb)
    BY DEF AllocateNew
  <1>2. Room.nb \in Nat \ {0}
    BY RoomCorrect DEF QcowInv, AllocateNew
  <1> QED
    BY <1>1, <1>2, AllocChanges, AllocateNewFacts DEF AllocateNew

LEMMA QuietTargets ==
    ASSUME QcowInv, TargetInv,
           \/ Finish \/ CallbackReturns \/ WaitForAllocation \/ AllocFails \/ SubmitFails
           \/ UNCHANGED vars
    PROVE  TargetInv'
  <1> PICK R : R = Running
    OBVIOUS
  <1>1. CASE Finish
    <2>1. Running \in Reqs /\ Done(~failed[Running]) /\ UNCHANGED <<l2, rc, meta>>
      BY <1>1, RunningRequest DEF Finish, QcowInv, tableVars
    <2> QED
      BY <2>1, DoneTargets
  <1>2. CASE CallbackReturns \/ UNCHANGED vars
    <2>1. UNCHANGED <<l2, rc, meta, st, part>>
      BY <1>2 DEF CallbackReturns, vars, tableVars, reqVars
    <2> QED
      BY <2>1, TargetsKept DEF Allocating
  <1>3. CASE WaitForAllocation
    <2>1. UNCHANGED <<l2, rc>>
      BY <1>3 DEF WaitForAllocation, tableVars
    <2>2. Running \in Reqs
      BY <1>3, RunningRequest DEF WaitForAllocation, More, QcowInv
    <2>3. /\ \A q \in Reqs : q # Running => st'[q] = st[q] /\ part'[q] = part[q] /\ meta'[q] = meta[q]
          /\ st'[Running] = "wait"
      BY <1>3, <2>2 DEF WaitForAllocation, Part, QcowInv, TypeOK
    <2>4. \A r \in Reqs : Allocating(r)' =>
               Allocating(r) /\ meta'[r] = meta[r] /\ part'[r] = part[r]
      BY <2>3 DEF Allocating
    <2> QED
      BY <2>1, <2>3, <2>4, TargetsKept
  <1>4. CASE AllocFails
    <2>1. UNCHANGED <<l2, meta>> /\ Done(FALSE) /\ More
      BY <1>4 DEF AllocFails, Done
    <2>2. Running \in Reqs
      BY <2>1, RunningRequest DEF More, QcowInv
    <2>3. PICK h \in Host : AllocClusters(h, Room.nb)
      BY <1>4 DEF AllocFails
    <2>4. Room.nb \in Nat \ {0}
      BY <1>4, <2>1, RoomCorrect DEF QcowInv, AllocFails
    <2>5. \A x \in Host : rc[x] # 0 => rc'[x] = rc[x]
      BY <2>3, <2>4, AllocChanges
    <2> QED
      BY <2>1, <2>2, <2>5, DoneTargets
  <1>5. CASE SubmitFails
    <2>1. Done(TRUE) /\ More /\ (UseOwned \/ AllocateNew)
      BY <1>5 DEF SubmitFails
    <2>2. Running \in Reqs
      BY <2>1, RunningRequest DEF More, QcowInv
    <2>3. CASE UseOwned
      <3>1. UNCHANGED <<l2, rc>>
        BY <2>3 DEF UseOwned, tableVars
      <3>2. \A q \in Reqs : q # Running => meta'[q] = meta[q]
        BY <2>1, <2>3, UseOwnedTypes DEF QcowInv
      <3> QED
        BY <2>1, <2>2, <3>1, <3>2, DoneTargets
    <2>4. CASE AllocateNew
      BY <2>1, <2>2, <2>4, AllocateNewChanges, DoneTargets
    <2> QED
      BY <2>1, <2>3, <2>4
  <1> QED
    BY <1>1, <1>2, <1>3, <1>4, <1>5

LEMMA RequestTargets ==
    ASSUME QcowInv, TargetInv, NEW r \in Reqs,
           \/ HdWrite(r) \/ HdFail(r) \/ AioCancel(r)
           \/ \E s \in GuestSectors, k \in 1 .. MaxSectors : AioWritev(r, s, k)
    PROVE  TargetInv'
  <1>1. UNCHANGED <<l2, rc, meta>>
    BY DEF HdWrite, HdFail, AioCancel, AioWritev, tableVars
  <1>2. \A q \in Reqs : q # r => st'[q] = st[q] /\ part'[q] = part[q]
    BY DEF HdWrite, HdFail, AioCancel, AioWritev, QcowInv, TypeOK
  <1>3. \/ st'[r] \in {"written", "broken"} /\ st[r] = "hd" /\ part'[r] = part[r]
        \/ st'[r] \in {"done", "run"}
    BY DEF HdWrite, HdFail, AioCancel, AioWritev, QcowInv, TypeOK
  <1>4. \A q \in Reqs : Allocating(q)' =>
               Allocating(q) /\ meta'[q] = meta[q] /\ part'[q] = part[q]
    BY <1>1, <1>2, <1>3 DEF Allocating
  <1>5. \A q \in Reqs : st'[q] = "hd" =>
               st[q] = "hd" /\ meta'[q] = meta[q] /\ part'[q] = part[q]
    BY <1>1, <1>2, <1>3
  <1> QED
    BY <1>1, <1>4, <1>5, TargetsKept

\* The cluster that sector x, written from sector s on, falls into.
LEMMA SectorCluster ==
    ASSUME NEW s \in Nat, NEW x \in Nat, s <= x
    PROVE  /\ x \div CS - s \div CS \in Nat /\ x % CS \in Offsets
           /\ (x \div CS - s \div CS) * CS + (x % CS) = (s % CS) + (x - s)
           /\ \A nb \in Nat : (s % CS) + (x - s) < nb * CS =>
                 x \div CS - s \div CS \in 0 .. (nb - 1)
  <1>1. CS \in Nat \ {0}
    BY Constants
  <1>2. PICK a \in Nat : a = s \div CS
    BY DivBounds
  <1>3. PICK i \in Offsets : i = s % CS
    BY DivBounds
  <1>4. PICK b \in Nat : b = x \div CS
    BY DivBounds
  <1>5. PICK o \in Offsets : o = x % CS
    BY DivBounds
  <1>6. s = CS * a + i /\ x = CS * b + o /\ a <= b /\ i \in Nat /\ o \in Nat
    <2>1. s = CS * (s \div CS) + (s % CS) /\ x = CS * (x \div CS) + (x % CS)
      BY DivBounds
    <2>2. s \div CS <= x \div CS
      BY DivMonotonic
    <2>3. i \in Nat /\ o \in Nat
      BY <1>1 DEF Offsets
    <2> QED
      BY <1>2, <1>3, <1>4, <1>5, <2>1, <2>2, <2>3
  <1>7. (b - a) * CS = CS * b - CS * a /\ CS * a \in Nat /\ CS * b \in Nat
    BY <1>1, <1>6
  <1>8. b - a \in Nat /\ (b - a) * CS + o = i + (x - s)
    BY <1>6, <1>7
  <1>9. ASSUME NEW nb \in Nat, i + (x - s) < nb * CS
        PROVE  b - a \in 0 .. (nb - 1)
    <2>1. nb * CS \in Nat /\ b - a \in Int /\ (b - a) * CS + o >= 0 /\ (b - a) * CS + o < nb * CS
      BY <1>1, <1>6, <1>8, <1>9
    <2> QED
      BY <2>1, SectorsInClusters
  <1> QED
    <2>1. x % CS \in Offsets
      BY DivBounds
    <2> QED
      BY <1>2, <1>3, <1>4, <1>5, <1>8, <1>9, <2>1

LEMMA WriteInPlaceTargets ==
    ASSUME QcowInv, QcowInv', TargetInv, WriteInPlace
    PROVE  TargetInv'
  <1>1. TypeOK /\ PartsFit /\ TypeOK'
    BY DEF QcowInv
  <1>2. More /\ UseOwned /\ SubmitData(OwnedClusters) /\ l2[First].copied
    BY DEF WriteInPlace, UseOwned
  <1>3. UNCHANGED <<l2, rc>>
    BY DEF WriteInPlace, UseOwned, tableVars
  <1>4. PICK nb \in Nat \ {0} : nb = OwnedClusters
    BY <1>1, <1>2, OwnedCorrect, PositionFacts
  <1>5. \A i \in 0 .. (nb - 1) : First + i \in Guest /\ InPlace(First, i)
    BY <1>1, <1>2, <1>4, OwnedCorrect
  <1>6. PICK R : R = Running
    OBVIOUS
  <1>7. PICK s \in Nat : s = Position.sector_num
    BY <1>1, <1>2, PositionFacts DEF GuestSectors
  <1>8. PICK a \in Nat : a = Available(nb) /\ a <= nb * CS /\ a > Index
    BY <1>1, <1>2, AvailableCorrect, Constants
  <1>9. Index = s % CS /\ First = s \div CS /\ s % CS \in Nat /\ s \div CS \in Nat
    BY <1>7, DivBounds DEF Index, First, Offsets
  <1>10. /\ \A q \in Reqs : q # R => st'[q] = st[q] /\ part'[q] = part[q]
         /\ st'[R] = "hd" /\ R \in Reqs
         /\ part'[R].sector_num = s /\ part'[R].n = a - (s % CS)
    <2>1. SubmitData(nb)
      BY <1>2, <1>4
    <2>2. part'[Running] = [sector_num |-> Position.sector_num,
                            nb_sectors |-> Position.nb_sectors,
                            n |-> Available(nb) - Index]
      BY <1>1, <1>2, <1>6, <2>1, SubmitDataFacts
    <2>3. /\ \A q \in Reqs : q # Running => st'[q] = st[q] /\ part'[q] = part[q]
          /\ st'[Running] = "hd" /\ Running \in Reqs
      BY <1>1, <1>2, <1>6, <2>1, SubmitDataFacts
    <2> QED
      BY <1>6, <1>7, <1>8, <1>9, <2>2, <2>3
  <1>11. /\ \A q \in Reqs : q # R => meta'[q] = meta[q]
         /\ meta'[R].nb_clusters = 0
         /\ meta'[R].cluster_offset = l2[First].host
    BY <1>1, <1>2, <1>6, UseOwnedTypes
  <1>12. \A r \in Reqs : Allocating(r)' =>
               Allocating(r) /\ meta'[r] = meta[r] /\ part'[r] = part[r]
    BY <1>10, <1>11 DEF Allocating
  <1>13. ASSUME NEW x \in Current(R)'
         PROVE  l2'[x \div CS] = [host |-> meta'[R].cluster_offset
                                        + (x \div CS) - (part'[R].sector_num \div CS),
                                  copied |-> TRUE]
    <2>1. x \in s .. (s + (a - (s % CS)) - 1)
      BY <1>10, <1>13 DEF Current
    <2>2. x \in Nat /\ s <= x /\ (s % CS) + (x - s) < nb * CS
      BY <1>8, <1>9, <2>1, Constants
    <2>3. PICK i \in 0 .. (nb - 1) : i = x \div CS - s \div CS
      BY <2>2, SectorCluster
    <2>4. First + i = x \div CS
      BY <1>9, <2>2, <2>3, DivBounds
    <2>5. l2[x \div CS] = [host |-> l2[First].host + i, copied |-> TRUE]
      BY <1>5, <2>3, <2>4 DEF InPlace
    <2>6. l2[First].host \in Nat
      <3>1. First \in Guest /\ l2 \in [Guest -> Entries]
        BY <1>1, <1>2, PositionFacts DEF TypeOK
      <3>2. l2[First] \in Entries
        BY <3>1
      <3> QED
        BY <3>2, Constants DEF Entries
    <2>7. l2[First].host + i = l2[First].host + (x \div CS) - (s \div CS)
      BY <1>9, <2>2, <2>3, <2>6, DivBounds
    <2> QED
      BY <1>3, <1>10, <1>11, <2>5, <2>7
  <1>14. OneMapping'
    BY <1>3 DEF TargetInv, OneMapping, Guest
  <1>15. NewUnshared'
    BY <1>3, <1>12 DEF TargetInv, NewUnshared
  <1>16. NewUncopied'
    <2>1. \A r \in Reqs : meta'[r] = meta[r] => Covered(r)' = Covered(r)
      BY DEF Covered
    <2> QED
      BY <1>3, <1>12, <2>1 DEF TargetInv, NewUncopied
  <1>17. MetaFits'
    BY <1>12 DEF TargetInv, MetaFits
  <1>18. InPlaceTargets'
    <2>1. ASSUME NEW q \in Reqs, q # R, st'[q] = "hd", meta'[q].nb_clusters = 0, NEW x \in Current(q)'
          PROVE  l2'[x \div CS] = [host |-> meta'[q].cluster_offset
                                        + (x \div CS) - (part'[q].sector_num \div CS),
                                  copied |-> TRUE]
      <3>1. st[q] = "hd" /\ meta'[q] = meta[q] /\ part'[q] = part[q]
        BY <1>10, <1>11, <2>1
      <3>2. x \in Current(q)
        BY <2>1, <3>1 DEF Current
      <3> QED
        BY <1>3, <2>1, <3>1, <3>2 DEF TargetInv, InPlaceTargets
    <2> QED
      BY <1>13, <2>1 DEF InPlaceTargets
  <1> QED
    BY <1>14, <1>15, <1>16, <1>17, <1>18 DEF TargetInv

LEMMA WriteAllocatingTargets ==
    ASSUME QcowInv, QcowInv', TargetInv, WriteAllocating
    PROVE  TargetInv'
  <1>1. TypeOK /\ PartsFit /\ CopiedMapped /\ Listed /\ TypeOK'
    BY DEF QcowInv
  <1>2. More /\ AllocateNew /\ SubmitData(Room.nb) /\ ~l2[First].copied /\ Room.dep = NoReq
    BY DEF WriteAllocating, AllocateNew
  <1>3. UNCHANGED l2 /\ \A x \in Host : rc[x] # 0 => rc'[x] = rc[x]
    BY <1>2, AllocateNewChanges
  <1>4. PICK nb \in Nat \ {0} : nb = Room.nb
    BY <1>1, <1>2, RoomCorrect
  <1>5. \A i \in 0 .. (nb - 1) : First + i \in Guest /\ ~l2[First + i].copied
    BY <1>1, <1>2, <1>4, RoomCorrect
  <1>6. PICK R : R = Running
    OBVIOUS
  <1>7. PICK s \in Nat : s = Position.sector_num
    BY <1>1, <1>2, PositionFacts DEF GuestSectors
  <1>8. PICK a \in Nat : a = Available(nb) /\ a <= nb * CS /\ a > Index
    BY <1>1, <1>2, AvailableCorrect, Constants
  <1>9. Index = s % CS /\ First = s \div CS /\ s % CS \in Nat /\ s \div CS \in Nat
    BY <1>7, DivBounds DEF Index, First, Offsets
  <1>10. /\ \A q \in Reqs : q # R => st'[q] = st[q] /\ part'[q] = part[q]
         /\ st'[R] = "hd" /\ R \in Reqs
         /\ part'[R].sector_num = s /\ part'[R].n = a - (s % CS)
    <2>1. SubmitData(nb)
      BY <1>2, <1>4
    <2>2. part'[Running] = [sector_num |-> Position.sector_num,
                            nb_sectors |-> Position.nb_sectors,
                            n |-> Available(nb) - Index]
      BY <1>1, <1>2, <1>6, <2>1, SubmitDataFacts
    <2>3. /\ \A q \in Reqs : q # Running => st'[q] = st[q] /\ part'[q] = part[q]
          /\ st'[Running] = "hd" /\ Running \in Reqs
      BY <1>1, <1>2, <1>6, <2>1, SubmitDataFacts
    <2> QED
      BY <1>6, <1>7, <1>8, <1>9, <2>2, <2>3
  <1>11. \A q \in Reqs : q # R => meta'[q] = meta[q]
    BY <1>1, <1>2, <1>6, AllocateNewTypes
  <1>12. PICK h0 \in Host : /\ AllocClusters(h0, nb) /\ meta'[R].cluster_offset = h0
                            /\ meta'[R].nb_clusters = nb
                            /\ meta'[R].offset = s /\ meta'[R].n_start = s % CS
                            /\ meta'[R].nb_available = a
    BY <1>1, <1>2, <1>4, <1>6, <1>7, <1>8, <1>9, AllocateNewTypes
  <1>13. ASSUME NEW q \in Reqs, q # R, Allocating(q)'
         PROVE  Allocating(q) /\ meta'[q] = meta[q] /\ part'[q] = part[q]
    BY <1>10, <1>11, <1>13 DEF Allocating
  <1>14. OneMapping'
    BY <1>3 DEF TargetInv, OneMapping, Guest
  <1>15. NewUnshared'
    <2>1. ASSUME NEW q \in Reqs, Allocating(q)', NEW h \in NewClusters(meta'[q])
          PROVE  rc'[h] = 1
      <3>1. CASE q = R
        <4>1. h \in h0 .. (h0 + nb - 1)
          BY <1>12, <2>1, <3>1 DEF NewClusters
        <4> QED
          BY <1>1, <1>12, <4>1, AllocClustersTypes
      <3>2. CASE q # R
        <4>1. Allocating(q) /\ h \in NewClusters(meta[q])
          BY <1>13, <2>1, <3>2
        <4>2. rc[h] = 1 /\ h \in Host
          BY <4>1 DEF TargetInv, NewUnshared, QcowInv, AllocsFit
        <4> QED
          BY <1>3, <4>2
      <3> QED
        BY <3>1, <3>2
    <2> QED
      BY <2>1 DEF NewUnshared, NewClusters
  <1>16. NewUncopied'
    <2>1. ASSUME NEW q \in Reqs, Allocating(q)', NEW g \in Covered(q)'
          PROVE  ~l2'[g].copied
      <3>1. CASE q = R
        <4>1. g \in First .. (First + nb - 1)
          BY <1>9, <1>12, <2>1, <3>1 DEF Covered
        <4>2. g - First \in 0 .. (nb - 1) /\ First + (g - First) = g
          BY <1>9, <4>1
        <4> QED
          BY <1>3, <1>5, <4>2
      <3>2. CASE q # R
        <4>1. Allocating(q) /\ g \in Covered(q)
          BY <1>13, <2>1, <3>2 DEF Covered
        <4> QED
          BY <1>3, <4>1 DEF TargetInv, NewUncopied
      <3> QED
        BY <3>1, <3>2
    <2> QED
      BY <2>1 DEF NewUncopied
  <1>17. MetaFits'
    <2>1. /\ meta'[R].nb_available = meta'[R].n_start + part'[R].n
          /\ meta'[R].nb_available <= meta'[R].nb_clusters * CS
      BY <1>8, <1>9, <1>10, <1>12
    <2> QED
      BY <1>10, <1>12, <1>13, <2>1 DEF TargetInv, MetaFits
  <1>18. InPlaceTargets'
    <2>1. ASSUME NEW q \in Reqs, st'[q] = "hd", meta'[q].nb_clusters = 0
          PROVE  q # R /\ st[q] = "hd" /\ meta'[q] = meta[q] /\ part'[q] = part[q]
      BY <1>10, <1>11, <1>12, <2>1
    <2> QED
      BY <1>3, <2>1 DEF TargetInv, InPlaceTargets, Current
  <1> QED
    BY <1>14, <1>15, <1>16, <1>17, <1>18 DEF TargetInv

\* A new cluster belongs to its allocation alone.
LEMMA NewIsUnused ==
    ASSUME QcowInv, NewUnshared, NEW r \in Reqs, Allocating(r), NEW h \in NewClusters(meta[r])
    PROVE  Mapped(h) = {} /\ Takers(h) = {r} /\ h \notin snapshot /\ rc[h] = 1 /\ h \in Host
  <1>1. h \in Host /\ rc[h] = 1 /\ Users(h) <= 1
    BY DEF QcowInv, AllocsFit, NewUnshared, RefcountSafe
  <1>2. /\ Users(h) = Cardinality(Mapped(h)) + Cardinality(Takers(h))
                            + Cardinality({h} \cap snapshot)
        /\ IsFiniteSet(Mapped(h)) /\ Cardinality(Mapped(h)) \in Nat
        /\ IsFiniteSet(Takers(h)) /\ Cardinality(Takers(h)) \in Nat
        /\ Cardinality({h} \cap snapshot) \in {0, 1}
        /\ (h \in snapshot => Cardinality({h} \cap snapshot) = 1)
    BY UsersIs
  <1>3. r \in Takers(h)
    BY DEF Takers
  <1>4. IsFiniteSet(Takers(h) \ {r}) /\ Cardinality(Takers(h) \ {r}) = Cardinality(Takers(h)) - 1
    BY <1>2, <1>3, FS_RemoveElement
  <1>5. Cardinality(Takers(h) \ {r}) \in Nat
    BY <1>4, FS_CardinalityType
  <1>6. /\ Cardinality(Mapped(h)) = 0 /\ Cardinality(Takers(h) \ {r}) = 0
        /\ h \notin snapshot
    BY <1>1, <1>2, <1>4, <1>5
  <1>7. Mapped(h) = {} /\ Takers(h) \ {r} = {}
    BY <1>2, <1>4, <1>6, FS_EmptySet
  <1> QED
    BY <1>1, <1>3, <1>6, <1>7

\* The sectors of the data write in flight are sectors of the guest's disk.
LEMMA CurrentFits ==
    ASSUME TypeOK, PartsFit, NEW r \in Reqs, NEW x \in Current(r)
    PROVE  x \in GuestSectors /\ x \div CS \in Guest /\ x \in Nat
  <1>1. /\ part[r].sector_num \in Nat /\ part[r].n \in Nat /\ part[r].nb_sectors \in Nat
        /\ part[r].n <= part[r].nb_sectors
        /\ part[r].sector_num + part[r].nb_sectors <= G * CS
    <2>1. part[r] \in Parts
      BY Types DEF RequestTypes
    <2>2. part[r].n <= part[r].nb_sectors /\ G * CS \in Nat
      BY Types, Constants DEF RequestTypes
    <2> QED
      BY <2>1, <2>2 DEF Parts, PartsFit
  <1>2. x \in GuestSectors
    BY <1>1, Constants DEF Current, GuestSectors
  <1> QED
    BY <1>2, GuestOfSector

\* The L2 table when the allocation of r has been linked.
LEMMA LinkedTable ==
    ASSUME TypeOK, AllocsFit, NEW r \in Reqs, Allocating(r), SetL2Entries(meta[r])
    PROVE  /\ \A x \in Guest : x \notin Covered(r) => l2'[x] = l2[x]
           /\ \A x \in Covered(r) :
                 /\ x \in Guest
                 /\ l2'[x] = [host |-> meta[r].cluster_offset + x - meta[r].offset \div CS,
                              copied |-> TRUE]
                 /\ l2'[x].host = meta[r].cluster_offset + x - meta[r].offset \div CS
                 /\ l2'[x].host \in NewClusters(meta[r])
  <1> DEFINE m == meta[r]
             g == m.offset \div CS
  <1>1. /\ g \in Nat /\ m.nb_clusters \in Nat \ {0} /\ m.cluster_offset \in Nat
        /\ g + m.nb_clusters <= G
    BY AllocationFacts
  <1>2. l2' = [x \in Guest |-> IF x \in g..(g + m.nb_clusters - 1)
                 THEN [host |-> m.cluster_offset + x - g, copied |-> TRUE] ELSE l2[x]]
    BY DEF SetL2Entries
  <1>3. Covered(r) = g..(g + m.nb_clusters - 1)
    BY DEF Covered
  <1> HIDE DEF m, g
  <1>4. ASSUME NEW x \in Covered(r)
        PROVE  /\ x \in Guest
               /\ l2'[x] = [host |-> m.cluster_offset + x - g, copied |-> TRUE]
               /\ l2'[x].host = m.cluster_offset + x - g
               /\ l2'[x].host \in NewClusters(m)
    <2>1. x \in Guest
      BY <1>1, <1>3, Constants DEF Guest
    <2>2. l2'[x] = [host |-> m.cluster_offset + x - g, copied |-> TRUE]
      BY <1>2, <1>3, <2>1
    <2>3. l2'[x].host = m.cluster_offset + x - g
      BY <2>2
    <2> QED
      BY <1>1, <1>3, <2>1, <2>2, <2>3 DEF NewClusters
  <1> QED
    BY <1>2, <1>3, <1>4 DEF m, g

LEMMA WriteCbTargets ==
    ASSUME QcowInv, TargetInv, NEW r \in Reqs, WriteCb(r)
    PROVE  TargetInv'
  <1>1. TypeOK /\ PartsFit /\ AllocsFit /\ AllocationsDisjoint /\ RefcountSafe
    BY DEF QcowInv
  <1>2. OneMapping /\ NewUnshared /\ NewUncopied /\ InPlaceTargets /\ MetaFits
    BY DEF TargetInv
  <1>3. /\ st'[r] = "run"
        /\ \A q \in Reqs : st'[q] # "run" => st'[q] = st[q]
        /\ meta' = meta /\ part' = part
    BY <1>1, WriteCbRequests
  <1>4. ASSUME NEW q \in Reqs, Allocating(q)'
        PROVE  q # r /\ Allocating(q) /\ meta'[q] = meta[q] /\ part'[q] = part[q]
    BY <1>3, <1>4 DEF Allocating
  <1>5. \A q \in Reqs : st'[q] = "hd" => st[q] = "hd" /\ meta'[q] = meta[q] /\ part'[q] = part[q]
    BY <1>3
  <1>6. CASE UNCHANGED <<disk, tableVars>>
    <2>1. UNCHANGED <<l2, rc>>
      BY <1>6 DEF tableVars
    <2> QED
      BY <1>4, <1>5, <2>1, TargetsKept
  <1>7. CASE /\ Allocating(r) /\ SetL2Entries(meta[r])
             /\ FreeOldClusters(meta[r]) \/ UNCHANGED <<rc, free_cluster_index>>
    <2>1. PICK co \in Nat : co = meta[r].cluster_offset
      BY <1>1, <1>7, AllocationFacts
    <2>2. PICK g0 \in Nat : g0 = meta[r].offset \div CS
      BY <1>1, <1>7, AllocationFacts
    <2>3. \A x \in Guest : x \notin Covered(r) => l2'[x] = l2[x]
      BY <1>1, <1>7, LinkedTable
    <2>4. \A x \in Covered(r) :
                 /\ x \in Guest
                 /\ l2'[x].host = co + x - g0
                 /\ l2'[x].host \in NewClusters(meta[r])
      BY <1>1, <1>7, <2>1, <2>2, LinkedTable
    <2>5. \A h \in NewClusters(meta[r]) : Mapped(h) = {}
      BY <1>2, <1>7, NewIsUnused
    <2>6. OneMapping'
      <3>1. SUFFICES ASSUME NEW g \in Guest, NEW x \in Guest,
                            l2'[g].host = l2'[x].host, l2'[g].host # 0
                     PROVE  g = x
        BY DEF OneMapping, Guest
      <3>2. CASE g \in Covered(r) /\ x \in Covered(r)
        <4>1. \A y \in Covered(r) : l2'[y].host = co + y - g0
          BY <2>4
        <4>2. \A y, z \in Int : co + y - g0 = co + z - g0 => y = z
          BY <2>1, <2>2
        <4>3. g \in Int /\ x \in Int
          BY DEF Guest
        <4>4. co + g - g0 = co + x - g0
          BY <3>1, <3>2, <4>1, Zenon
        <4> QED
          BY <4>2, <4>3, <4>4, Zenon
      <3>3. ASSUME NEW y \in Covered(r), NEW z \in Guest, z \notin Covered(r),
                   l2'[y].host = l2'[z].host
            PROVE  FALSE
        <4>1. l2[z].host \in NewClusters(meta[r])
          BY <2>3, <2>4, <3>3
        <4> QED
          BY <2>5, <4>1 DEF Mapped
      <3>4. CASE g \notin Covered(r) /\ x \notin Covered(r)
        BY <1>2, <2>3, <3>1, <3>4 DEF OneMapping
      <3> QED
        BY <3>1, <3>2, <3>3, <3>4
    <2>7. NewUnshared'
      <3>1. SUFFICES ASSUME NEW q \in Reqs, Allocating(q)', NEW h \in NewClusters(meta'[q])
                     PROVE  rc'[h] = 1
        BY DEF NewUnshared
      <3>2. Allocating(q) /\ h \in NewClusters(meta[q])
        BY <1>4, <3>1
      <3>3. Mapped(h) = {} /\ rc[h] = 1 /\ h \in Host
        BY <1>2, <3>2, NewIsUnused
      <3>4. h \notin Replaced(meta[r])
        BY <1>1, <1>7, <3>3, ReplacedFacts
      <3> QED
        BY <1>7, <3>3, <3>4 DEF FreeOldClusters
    <2>8. NewUncopied'
      <3>1. SUFFICES ASSUME NEW q \in Reqs, Allocating(q)', NEW g \in Covered(q)'
                     PROVE  ~l2'[g].copied
        BY DEF NewUncopied
      <3>2. q # r /\ Allocating(q) /\ g \in Covered(q)
        BY <1>4, <3>1 DEF Covered
      <3>3. g \notin Covered(r)
        BY <1>1, <1>7, <3>2 DEF AllocationsDisjoint
      <3>4. g \in Guest
        <4>1. /\ meta[q].offset \div CS \in Nat /\ meta[q].nb_clusters \in Nat
              /\ meta[q].offset \div CS + meta[q].nb_clusters <= G
          BY <1>1, <3>2, AllocationFacts
        <4> QED
          BY <3>2, <4>1, Constants DEF Covered, Guest
      <3> QED
        BY <1>2, <2>3, <3>2, <3>3, <3>4 DEF NewUncopied
    <2>9. InPlaceTargets'
      <3>1. SUFFICES ASSUME NEW q \in Reqs, st'[q] = "hd", meta'[q].nb_clusters = 0,
                            NEW x \in Current(q)'
                     PROVE  l2'[x \div CS] = [host |-> meta'[q].cluster_offset
                                        + (x \div CS) - (part'[q].sector_num \div CS),
                                        copied |-> TRUE]
        BY DEF InPlaceTargets
      <3>2. st[q] = "hd" /\ meta'[q] = meta[q] /\ part'[q] = part[q] /\ x \in Current(q)
        BY <1>5, <3>1 DEF Current
      <3>3. l2[x \div CS] = [host |-> meta[q].cluster_offset
                                        + (x \div CS) - (part[q].sector_num \div CS),
                             copied |-> TRUE]
        BY <1>2, <3>1, <3>2 DEF InPlaceTargets
      <3>4. l2[x \div CS].copied
        BY <3>3
      <3>5. x \div CS \in Guest /\ x \div CS \notin Covered(r)
        BY <1>1, <1>2, <1>7, <3>2, <3>4, CurrentFits DEF NewUncopied
      <3> QED
        BY <2>3, <3>2, <3>3, <3>5
    <2>10. MetaFits'
      BY <1>2, <1>4 DEF MetaFits
    <2> QED
      BY <2>6, <2>7, <2>8, <2>9, <2>10 DEF TargetInv
  <1> QED
    BY <1>6, <1>7, WriteCbTables

LEMMA TargetStep == QcowInv /\ QcowInv' /\ TargetInv /\ [Next]_vars => TargetInv'
  <1> SUFFICES ASSUME QcowInv, QcowInv', TargetInv, [Next]_vars
               PROVE  TargetInv'
    OBVIOUS
  <1> QED
    BY QuietTargets, RequestTargets, WriteInPlaceTargets, WriteAllocatingTargets, WriteCbTargets
    DEF Next, Callback

LEMMA TargetInit == Init => TargetInv
  <1> SUFFICES ASSUME Init
               PROVE  TargetInv
    OBVIOUS
  <1>1. \A r \in Reqs : st[r] = "new"
    BY InitTypes
  <1>2. OneMapping
    <2>1. PICK shared \in SUBSET Guest : \E owned \in SUBSET (Guest \ shared) :
             l2 = [g \in Guest |-> IF g \in shared \cup owned
                                   THEN [host |-> g + 1, copied |-> g \in owned]
                                   ELSE Unallocated]
      BY DEF Init
    <2>2. PICK owned \in SUBSET (Guest \ shared) :
             l2 = [g \in Guest |-> IF g \in shared \cup owned
                                   THEN [host |-> g + 1, copied |-> g \in owned]
                                   ELSE Unallocated]
      BY <2>1
    <2>3. \A g \in Guest : l2[g].host = (IF g \in shared \cup owned THEN g + 1 ELSE 0)
      BY <2>2 DEF Unallocated
    <2> QED
      BY <2>3 DEF OneMapping, Guest
  <1> QED
    BY <1>1, <1>2 DEF TargetInv, NewUnshared, NewUncopied, InPlaceTargets, MetaFits, Allocating

LEMMA TargetCorrect == Spec => []TargetInv
  BY TargetInit, TargetStep, InvCorrect, PTL DEF Spec

-----------------------------------------------------------------------------
(* Leaks.                                                                  *)

\* No write has failed and none was abandoned with its allocation ...
Clean ==
    /\ \A r \in Reqs : ~failed[r]
    /\ \A r \in ToSet(cluster_allocs) : Allocating(r)

\* ... then the refcounts are exact, allocations in flight included.
Exact == \A h \in Host : rc[h] = Users(h)
LeakInv == Clean => Exact

LEMMA RunningRuns ==
    ASSUME TypeOK, Scheduled, todo # <<>>, Running \in Reqs
    PROVE  st[Running] = "run"
  <1>1. todo \in Seq(Reqs \cup {NoReq})
    BY Types DEF RequestTypes
  <1>2. Running \in ToSet(todo)
    BY <1>1, OnceTail DEF Running
  <1> QED
    BY <1>2 DEF Scheduled

\* What an action does to a request other than those it is about.
LEMMA CallbackOthers ==
    ASSUME QcowInv, RunInv, Callback, NEW q \in Reqs, st[q] # "run"
    PROVE  /\ st'[q] = st[q] /\ meta'[q] = meta[q] /\ part'[q] = part[q]
           /\ q \in ToSet(cluster_allocs) => q \in ToSet(cluster_allocs')
  <1>1. TypeOK /\ PartsFit /\ CopiedMapped /\ Listed /\ Scheduled
    BY DEF QcowInv, RunInv
  <1>2. st \in [Reqs -> States] /\ part \in [Reqs -> Parts] /\ meta \in [Reqs -> Metas]
        /\ cluster_allocs \in Seq(Reqs)
    BY <1>1, Types DEF RequestTypes, TableTypes
  <1>3. CASE CallbackReturns
    BY <1>3 DEF CallbackReturns, reqVars
  <1>4. CASE ~CallbackReturns
    <2>1. todo # <<>> /\ Running # NoReq
      BY <1>4 DEF Callback, Finish, WriteInPlace, WaitForAllocation, WriteAllocating, AllocFails,
                  SubmitFails, More
    <2>2. Running \in Reqs /\ q # Running
      BY <1>1, <2>1, RunningRequest, RunningRuns
    <2>3. st'[q] = st[q]
      BY <1>2, <1>4, <2>2 DEF Callback, Finish, WriteInPlace, WaitForAllocation, WriteAllocating,
                  AllocFails, SubmitFails, SubmitData, Done
    <2>4. part'[q] = part[q]
      BY <1>2, <1>4, <2>2 DEF Callback, Finish, WriteInPlace, WaitForAllocation, WriteAllocating,
                  AllocFails, SubmitFails, SubmitData, Done, Part
    <2>5. meta'[q] = meta[q]
      <3>1. CASE Finish \/ AllocFails \/ WaitForAllocation
        BY <1>2, <2>2, <3>1 DEF Finish, AllocFails, WaitForAllocation
      <3>2. CASE More /\ (UseOwned \/ AllocateNew)
        BY <1>1, <2>2, <3>2, UseOwnedTypes, AllocateNewTypes
      <3> QED
        BY <1>4, <3>1, <3>2 DEF Callback, WriteInPlace, WriteAllocating, SubmitFails
    <2>6. cluster_allocs' = cluster_allocs \/ cluster_allocs' = <<Running>> \o cluster_allocs
      BY <1>4 DEF Callback, Finish, WriteInPlace, WaitForAllocation, WriteAllocating,
                  AllocFails, SubmitFails, UseOwned, AllocateNew
    <2>7. ToSet(<<Running>> \o cluster_allocs) = ToSet(cluster_allocs) \cup {Running}
      BY <1>2, <2>2, ToSetCons
    <2>8. q \in ToSet(cluster_allocs) => q \in ToSet(cluster_allocs')
      BY <2>6, <2>7
    <2> QED
      BY <2>3, <2>4, <2>5, <2>8
  <1> QED
    BY <1>3, <1>4

LEMMA WriteCbOthers ==
    ASSUME QcowInv, RunInv, NEW r \in Reqs, WriteCb(r), NEW q \in Reqs, q # r
    PROVE  /\ Allocating(q)' <=> Allocating(q)
           /\ st[q] # "wait" /\ st[q] # "done" => st'[q] = st[q]
           /\ st[q] = "wait" => st'[q] \in {"wait", "run"}
           /\ q \in ToSet(cluster_allocs) => q \in ToSet(cluster_allocs') /\ st'[q] = st[q]
  <1>1. /\ ToSet(todo') = ToSet(dependents[r]) \cup {r}
        /\ st' = [p \in Reqs |-> IF p \in ToSet(todo') THEN "run" ELSE st[p]]
        /\ ToSet(cluster_allocs) \ {r} \subseteq ToSet(cluster_allocs')
        /\ meta' = meta
    BY WriteCbRequests DEF QcowInv
  <1>2. q \in ToSet(dependents[r]) => st[q] \in {"wait", "done"} /\ q \notin ToSet(cluster_allocs)
    BY DEF RunInv, DependentsSound
  <1>3. st'[q] = IF q \in ToSet(dependents[r]) THEN "run" ELSE st[q]
    BY <1>1
  <1> QED
    BY <1>1, <1>2, <1>3 DEF Allocating

\* A request that was abandoned with its allocation stays on the list.
LEMMA StaysAbandoned ==
    ASSUME QcowInv, RunInv, [Next]_vars, NEW q \in ToSet(cluster_allocs), st[q] = "done"
    PROVE  q \in ToSet(cluster_allocs') /\ st'[q] = "done"
  <1>1. q \in Reqs /\ st \in [Reqs -> States]
    BY Types, ToSetSubset DEF QcowInv, TableTypes, RequestTypes
  <1>2. CASE Callback
    BY <1>1, <1>2, CallbackOthers
  <1>3. ASSUME NEW r \in Reqs, NEW s, NEW k, AioWritev(r, s, k)
        PROVE  q \in ToSet(cluster_allocs') /\ st'[q] = "done"
    BY <1>1, <1>3 DEF AioWritev
  <1>4. ASSUME NEW r \in Reqs, HdWrite(r) \/ HdFail(r) \/ AioCancel(r)
        PROVE  q \in ToSet(cluster_allocs') /\ st'[q] = "done"
    BY <1>1, <1>4 DEF HdWrite, HdFail, AioCancel
  <1>5. ASSUME NEW r \in Reqs, WriteCb(r)
        PROVE  q \in ToSet(cluster_allocs') /\ st'[q] = "done"
    <2>1. q # r
      BY <1>5 DEF WriteCb
    <2> QED
      BY <1>1, <1>5, <2>1, WriteCbOthers
  <1>6. CASE UNCHANGED vars
    BY <1>6 DEF vars, reqVars
  <1> QED
    BY <1>2, <1>3, <1>4, <1>5, <1>6 DEF Next

LEMMA FailedStays ==
    ASSUME QcowInv, [Next]_vars, NEW q \in Reqs, failed[q]
    PROVE  failed'[q]
  <1>1. failed \in [Reqs -> BOOLEAN]
    BY Types DEF QcowInv, RequestTypes
  <1>2. UNCHANGED failed \/ \E r \in Reqs : failed' = [failed EXCEPT ![r] = TRUE]
    BY DEF Next, Callback, Finish, CallbackReturns, WriteInPlace, WaitForAllocation, WriteAllocating,
           AllocFails, SubmitFails, AioWritev, HdWrite, HdFail, WriteCb, AioCancel, Done, vars, reqVars
  <1> QED
    BY <1>1, <1>2

LEMMA CleanBefore ==
    ASSUME QcowInv, RunInv, [Next]_vars, Clean'
    PROVE  Clean
  <1>1. \A r \in Reqs : ~failed[r]
    BY FailedStays DEF Clean
  <1>2. ASSUME NEW r \in ToSet(cluster_allocs), ~Allocating(r)
        PROVE  FALSE
    <2>1. st[r] = "done"
      BY <1>2 DEF RunInv, ListSound
    <2>2. r \in ToSet(cluster_allocs') /\ st'[r] = "done"
      BY <2>1, StaysAbandoned
    <2>3. Allocating(r)'
      BY <2>2 DEF Clean
    <2> QED
      BY <2>2, <2>3 DEF Allocating
  <1> QED
    BY <1>1, <1>2 DEF Clean

\* Steps that change neither the tables nor who allocates.
LEMMA ExactKept ==
    ASSUME Exact, UNCHANGED <<l2, rc, snapshot>>,
           \A q \in Reqs : Allocating(q)' <=> Allocating(q),
           \A q \in Reqs : Allocating(q) => meta'[q] = meta[q]
    PROVE  Exact'
  <1>1. SUFFICES ASSUME NEW h \in Host
                 PROVE  rc'[h] = Users(h)'
    BY DEF Exact, Host
  <1>2. Mapped(h)' = Mapped(h)
    BY DEF Mapped, Guest
  <1>3. Takers(h)' = Takers(h)
    <2>1. \A q \in Reqs : Allocating(q)' /\ h \in NewClusters(meta'[q])
                             <=> Allocating(q) /\ h \in NewClusters(meta[q])
      OBVIOUS
    <2> QED
      BY <2>1 DEF Takers
  <1>4. Users(h)' = Users(h)
    BY <1>2, <1>3, UsersIs, UsersNext
  <1> QED
    BY <1>4 DEF Exact

LEMMA WriteAllocatingExact ==
    ASSUME QcowInv, RunInv, Exact, WriteAllocating, QcowInv'
    PROVE  Exact'
  <1>1. TypeOK /\ PartsFit /\ CopiedMapped /\ Listed /\ RefcountSafe /\ Scheduled /\ TypeOK'
    BY DEF QcowInv, RunInv
  <1>2. More /\ AllocateNew /\ SubmitData(Room.nb) /\ ~l2[First].copied /\ Room.dep = NoReq
        /\ UNCHANGED <<l2, snapshot>>
    BY DEF WriteAllocating, AllocateNew
  <1>3. PICK nb \in Nat \ {0} : nb = Room.nb
    BY <1>1, <1>2, RoomCorrect
  <1>4. PICK R : R = Running
    OBVIOUS
  <1>5. R \in Reqs /\ st[R] = "run" /\ todo # <<>>
    BY <1>1, <1>2, <1>4, PositionFacts, RunningRuns
  <1>6. \A q \in Reqs : q # R => st'[q] = st[q]
    BY <1>1, <1>2, <1>4, <1>5 DEF SubmitData, TypeOK
  <1>7. st'[R] = "hd"
    BY <1>1, <1>2, <1>4, <1>5 DEF SubmitData, TypeOK
  <1>8. \A q \in Reqs : q # R => meta'[q] = meta[q]
    BY <1>1, <1>2, <1>4, AllocateNewTypes
  <1>9. PICK h0 \in Host : /\ AllocClusters(h0, nb) /\ meta'[R].cluster_offset = h0
                           /\ meta'[R].nb_clusters = nb
    BY <1>1, <1>2, <1>3, <1>4, AllocateNewTypes
  <1> DEFINE New == h0 .. (h0 + nb - 1)
  <1>10. New \subseteq Host /\ \A x \in New : rc[x] = 0 /\ rc'[x] = 1
    BY <1>1, <1>9, AllocClustersTypes
  <1>11. \A x \in Host : x \notin New => rc'[x] = rc[x]
    BY <1>9 DEF AllocClusters
  <1>12. NewClusters(meta'[R]) = New
    BY <1>9 DEF NewClusters
  <1> HIDE DEF New
  <1>13. Allocating(R)' /\ ~Allocating(R)
    BY <1>5, <1>7, <1>9 DEF Allocating
  <1>14. \A q \in Reqs : q # R => (Allocating(q)' <=> Allocating(q))
    BY <1>6, <1>8 DEF Allocating
  <1>15. SUFFICES ASSUME NEW x \in Host
                  PROVE  rc'[x] = Users(x)'
    BY DEF Exact, Host
  <1>16. Mapped(x)' = Mapped(x)
    BY <1>2 DEF Mapped, Guest
  <1>17. /\ Users(x)' = Cardinality(Mapped(x)') + Cardinality(Takers(x)') + Cardinality({x} \cap snapshot')
         /\ Users(x) = Cardinality(Mapped(x)) + Cardinality(Takers(x)) + Cardinality({x} \cap snapshot)
    BY UsersIs, UsersNext
  <1>18. CASE x \in New
    <2>1. Mapped(x) = {} /\ Takers(x) = {} /\ x \notin snapshot
      BY <1>1, <1>10, <1>18, FreeIsUnused
    <2>2. Takers(x)' = {R}
      <3>1. \A q \in Reqs : q # R => ~(Allocating(q) /\ x \in NewClusters(meta[q]))
        BY <2>1 DEF Takers
      <3> QED
        BY <1>5, <1>8, <1>12, <1>13, <1>14, <1>18, <3>1 DEF Takers
    <2>3. {x} \cap snapshot' = {}
      BY <1>2, <2>1
    <2>4. Cardinality({R}) = 1 /\ Cardinality({}) = 0
      BY FS_Singleton, FS_EmptySet
    <2> QED
      BY <1>10, <1>16, <1>17, <1>18, <2>1, <2>2, <2>3, <2>4
  <1>19. CASE x \notin New
    <2>1. Takers(x)' = Takers(x)
      BY <1>5, <1>8, <1>12, <1>13, <1>14, <1>19 DEF Takers
    <2>2. rc[x] = Users(x) /\ rc'[x] = rc[x]
      BY <1>11, <1>19 DEF Exact
    <2> QED
      BY <1>2, <1>16, <1>17, <2>1, <2>2
  <1> QED
    BY <1>18, <1>19

\* A link that succeeds: the new clusters become mapped, the old ones lose
\* the reference that their only mapping held.
LEMMA LinkExact ==
    ASSUME QcowInv, RunInv, TargetInv, Exact, NEW r \in Reqs, WriteCb(r),
           Allocating(r), SetL2Entries(meta[r]), FreeOldClusters(meta[r])
    PROVE  Exact'
  <1>1. TypeOK /\ AllocsFit /\ RefcountSafe /\ NewUnshared /\ OneMapping
    BY DEF QcowInv, TargetInv
  <1>2. st'[r] = "run" /\ meta' = meta /\ snapshot' = snapshot
    BY <1>1, WriteCbRequests
  <1>3. \A q \in Reqs : q # r => (Allocating(q)' <=> Allocating(q))
    BY WriteCbOthers
  <1>4. ~Allocating(r)'
    BY <1>2 DEF Allocating
  <1>5. SUFFICES ASSUME NEW h \in Host
                 PROVE  rc'[h] = Users(h)'
    BY DEF Exact, Host
  <1>6. /\ Users(h)' = Cardinality(Mapped(h)') + Cardinality(Takers(h)') + Cardinality({h} \cap snapshot')
        /\ Users(h) = Cardinality(Mapped(h)) + Cardinality(Takers(h)) + Cardinality({h} \cap snapshot)
        /\ Cardinality(Takers(h)) \in Nat /\ Cardinality({h} \cap snapshot) \in {0, 1}
    BY UsersIs, UsersNext
  <1>7. rc[h] = Users(h)
    BY DEF Exact
  <1>8. Takers(h)' = Takers(h) \ {r}
    BY <1>2, <1>3, <1>4 DEF Takers
  <1>9. rc'[h] = IF h \in Replaced(meta[r]) THEN rc[h] - 1 ELSE rc[h]
    BY DEF FreeOldClusters
  <1>10. \A x \in Guest : x \notin Covered(r) => l2'[x] = l2[x]
    BY <1>1, LinkedTable
  <1>11. PICK co \in Nat : co = meta[r].cluster_offset
    BY <1>1, AllocationFacts
  <1>12. PICK g0 \in Nat : g0 = meta[r].offset \div CS
    BY <1>1, AllocationFacts
  <1>13. PICK nb \in Nat \ {0} : nb = meta[r].nb_clusters
    BY <1>1, AllocationFacts
  <1>14. \A x \in Covered(r) : /\ x \in Guest /\ l2'[x].host \in NewClusters(meta[r])
                               /\ l2'[x].host = co + x - g0
    BY <1>1, <1>11, <1>12, LinkedTable
  <1>15. Covered(r) = g0 .. (g0 + nb - 1) /\ NewClusters(meta[r]) = co .. (co + nb - 1)
    BY <1>11, <1>12, <1>13 DEF Covered, NewClusters
  <1>16. Cardinality({}) = 0 /\ \A x : Cardinality({x}) = 1
    BY FS_Singleton, FS_EmptySet
  <1>17. CASE h \in NewClusters(meta[r])
    <2>1. Mapped(h) = {} /\ Takers(h) = {r} /\ h \notin snapshot /\ rc[h] = 1
      BY <1>1, <1>17, NewIsUnused
    <2>2. h \notin Replaced(meta[r])
      BY <1>1, <2>1, ReplacedFacts
    <2> DEFINE y == g0 + h - co
    <2>3. h \in Int /\ y \in Covered(r) /\ co + y - g0 = h
      <3>1. h \in Nat /\ co <= h /\ h <= co + nb - 1
        BY <1>11, <1>15, <1>17 DEF Host
      <3> QED
        BY <1>11, <1>12, <1>13, <1>15, <3>1
    <2>4. \A x \in Covered(r) : l2'[x].host = co + x - g0
      BY <1>14
    <2>5. \A x \in Int : co + x - g0 = h => x = y
      BY <1>11, <1>12, <2>3
    <2> HIDE DEF y
    <2>6. Mapped(h)' = {y}
      <3>1. y \in Mapped(h)'
        <4>1. y \in Guest /\ l2'[y].host = h
          BY <1>14, <2>3, <2>4
        <4> QED
          BY <4>1 DEF Mapped, Guest
      <3>2. ASSUME NEW x \in Mapped(h)'
            PROVE  x = y
        <4>1. x \in Guest /\ l2'[x].host = h
          BY <3>2 DEF Mapped, Guest
        <4>2. x \in Covered(r)
          BY <1>10, <2>1, <4>1 DEF Mapped
        <4>3. x \in Int /\ co + x - g0 = h
          <5>1. x \in Int
            BY <4>1 DEF Guest
          <5> QED
            BY <2>4, <4>1, <4>2, <5>1, Zenon
        <4> QED
          BY <2>5, <4>3
      <3> QED
        BY <3>1, <3>2
    <2>7. {h} \cap snapshot' = {} /\ Takers(h)' = {}
      BY <1>2, <1>8, <2>1
    <2>8. Cardinality(Mapped(h)') = 1 /\ Cardinality(Takers(h)') = 0 /\ Cardinality({h} \cap snapshot') = 0
      BY <1>16, <2>6, <2>7
    <2> QED
      BY <1>6, <1>9, <2>1, <2>2, <2>8
  <1>18. CASE h \notin NewClusters(meta[r])
    <2>1. Takers(h)' = Takers(h)
      BY <1>8, <1>18 DEF Takers
    <2>2. Mapped(h)' = Mapped(h) \ Covered(r)
      <3>1. Mapped(h)' \subseteq Mapped(h) \ Covered(r)
        BY <1>1, <1>18, MappedAfterLink
      <3>2. Mapped(h) \ Covered(r) \subseteq Mapped(h)'
        <4>1. SUFFICES ASSUME NEW x \in Mapped(h), x \notin Covered(r)
                       PROVE  x \in Mapped(h)'
          OBVIOUS
        <4>2. x \in Guest /\ l2[x].host = h /\ l2'[x] = l2[x]
          BY <1>10, <4>1 DEF Mapped
        <4> QED
          BY <4>2 DEF Mapped, Guest
      <3> QED
        BY <3>1, <3>2
    <2>3. CASE h \in Replaced(meta[r])
      <3>1. PICK x \in Covered(r) : x \in Mapped(h)
        BY <1>1, <2>3, ReplacedFacts
      <3>2. Mapped(h) = {x}
        BY <1>1, <3>1 DEF Mapped, OneMapping, Host
      <3>3. Mapped(h)' = {}
        BY <2>2, <3>1, <3>2
      <3>4. Cardinality(Mapped(h)') = 0 /\ Cardinality(Mapped(h)) = 1
        BY <1>16, <3>2, <3>3
      <3> QED
        BY <1>2, <1>6, <1>7, <1>9, <2>1, <2>3, <3>4
    <2>4. CASE h \notin Replaced(meta[r])
      <3>1. ASSUME NEW x \in Mapped(h), x \in Covered(r)
            PROVE  FALSE
        <4>1. x - g0 \in 0 .. (nb - 1) /\ g0 + (x - g0) = x
          BY <1>12, <1>13, <1>15, <3>1
        <4>2. l2[x].host = h /\ h # 0
          BY <3>1 DEF Mapped, Host
        <4>3. h \in Replaced(meta[r])
          BY <1>12, <1>13, <4>1, <4>2 DEF Replaced
        <4> QED
          BY <2>4, <4>3
      <3>2. Mapped(h)' = Mapped(h)
        BY <2>2, <3>1
      <3> QED
        BY <1>2, <1>6, <1>7, <1>9, <2>1, <2>4, <3>2
    <2> QED
      BY <2>3, <2>4
  <1> QED
    BY <1>17, <1>18

LEMMA LeakStep == QcowInv /\ QcowInv' /\ RunInv /\ TargetInv /\ LeakInv /\ [Next]_vars => LeakInv'
  <1>1. SUFFICES ASSUME QcowInv, QcowInv', RunInv, TargetInv, LeakInv, [Next]_vars, Clean'
                 PROVE  Exact'
    BY DEF LeakInv
  <1>2. Clean /\ Exact
    BY <1>1, CleanBefore DEF LeakInv
  <1>3. /\ TypeOK /\ PartsFit /\ CopiedMapped /\ Listed /\ Scheduled
        /\ st \in [Reqs -> States] /\ cluster_allocs \in Seq(Reqs)
    BY <1>1, Types DEF QcowInv, RunInv, RequestTypes, TableTypes
  <1>4. \A q \in Reqs : Allocating(q) => q \in ToSet(cluster_allocs)
    BY <1>3 DEF Listed
  <1>5. CASE Callback
    <2>1. CASE WriteAllocating
      BY <1>1, <1>2, <2>1, WriteAllocatingExact
    <2>2. CASE CallbackReturns
      BY <1>2, <2>2, ExactKept DEF CallbackReturns, tableVars, reqVars, Allocating
    <2>3. CASE Finish \/ WriteInPlace \/ WaitForAllocation \/ AllocFails \/ SubmitFails
      <3>1. PICK R : R = Running
        OBVIOUS
      <3>2. todo # <<>> /\ R # NoReq
        BY <2>3, <3>1 DEF Finish, WriteInPlace, WaitForAllocation, AllocFails, SubmitFails, More
      <3>3. R \in Reqs /\ st[R] = "run"
        BY <1>3, <3>1, <3>2, RunningRequest, RunningRuns
      <3>4. \A q \in Reqs : Allocating(q) => st'[q] = st[q] /\ meta'[q] = meta[q]
        BY <1>1, <1>5, CallbackOthers DEF Allocating
      <3>5. \A q \in Reqs : q # R => st'[q] = st[q]
        BY <1>3, <2>3, <3>1, <3>3 DEF Finish, WriteInPlace, WaitForAllocation,
                  AllocFails, SubmitFails, SubmitData, Done
      <3>6. \A q \in Reqs : q # R => meta'[q] = meta[q]
        <4>1. CASE Finish \/ AllocFails \/ WaitForAllocation
          BY <1>3, <3>1, <3>3, <4>1 DEF Finish, AllocFails, WaitForAllocation, TypeOK
        <4>2. CASE More /\ (UseOwned \/ AllocateNew)
          BY <1>3, <3>1, <4>2, UseOwnedTypes, AllocateNewTypes
        <4> QED
          BY <2>3, <4>1, <4>2 DEF WriteInPlace, SubmitFails
      <3>7. ~Allocating(R)'
        <4>1. CASE WriteInPlace
          <5>1. meta'[R].nb_clusters = 0
            BY <1>3, <3>1, <4>1, UseOwnedTypes DEF WriteInPlace
          <5> QED
            BY <5>1 DEF Allocating
        <4>2. CASE ~WriteInPlace
          <5>1. st'[R] \in {"done", "wait"}
            BY <1>3, <2>3, <3>1, <3>3, <4>2 DEF Finish, WaitForAllocation, AllocFails, SubmitFails, Done
          <5> QED
            BY <5>1 DEF Allocating
        <4> QED
          BY <4>1, <4>2
      <3>8. \A q \in Reqs : Allocating(q)' <=> Allocating(q)
        BY <3>3, <3>5, <3>6, <3>7 DEF Allocating
      <3>9. R \notin ToSet(cluster_allocs')
        BY <1>1, <3>7 DEF Clean
      <3>10. ToSet(<<R>> \o cluster_allocs) = ToSet(cluster_allocs) \cup {R}
        BY <1>3, <3>3, ToSetCons
      <3>11. ~AllocFails /\ ~(SubmitFails /\ AllocateNew)
        BY <3>1, <3>9, <3>10 DEF AllocFails, AllocateNew
      <3>12. UNCHANGED <<l2, rc, snapshot>>
        BY <2>3, <3>11 DEF Finish, WriteInPlace, WaitForAllocation, SubmitFails, UseOwned,
                  tableVars, Done
      <3> QED
        BY <1>2, <3>4, <3>8, <3>12, ExactKept
    <2> QED
      BY <1>5, <2>1, <2>2, <2>3 DEF Callback
  <1>6. ASSUME NEW r \in Reqs, NEW s, NEW k, AioWritev(r, s, k)
        PROVE  Exact'
    <2>1. /\ UNCHANGED <<l2, rc, snapshot, meta>> /\ st[r] = "new" /\ st' = [st EXCEPT ![r] = "run"]
      BY <1>6 DEF AioWritev, tableVars
    <2>2. \A q \in Reqs : Allocating(q)' <=> Allocating(q)
      BY <1>3, <2>1 DEF Allocating
    <2> QED
      BY <1>2, <2>1, <2>2, ExactKept
  <1>7. ASSUME NEW r \in Reqs, HdWrite(r) \/ HdFail(r)
        PROVE  Exact'
    <2>1. /\ UNCHANGED <<l2, rc, snapshot, meta>> /\ st[r] = "hd"
          /\ \E v \in {"written", "broken"} : st' = [st EXCEPT ![r] = v]
      BY <1>7 DEF HdWrite, HdFail, tableVars
    <2>2. \A q \in Reqs : Allocating(q)' <=> Allocating(q)
      BY <1>3, <2>1 DEF Allocating
    <2> QED
      BY <1>2, <2>1, <2>2, ExactKept
  <1>8. ASSUME NEW r \in Reqs, AioCancel(r)
        PROVE  Exact'
    <2>1. /\ UNCHANGED <<l2, rc, snapshot, meta, cluster_allocs>>
          /\ st' = [st EXCEPT ![r] = "done"]
      BY <1>8 DEF AioCancel, tableVars
    <2>2. ~Allocating(r)
      <3>1. ~Allocating(r)'
        BY <1>3, <2>1 DEF Allocating
      <3>2. r \notin ToSet(cluster_allocs)
        BY <1>1, <2>1, <3>1 DEF Clean
      <3> QED
        BY <1>4, <3>2
    <2>3. \A q \in Reqs : Allocating(q)' <=> Allocating(q)
      BY <1>3, <2>1, <2>2 DEF Allocating
    <2> QED
      BY <1>2, <2>1, <2>3, ExactKept
  <1>9. ASSUME NEW r \in Reqs, WriteCb(r)
        PROVE  Exact'
    <2>1. ~failed'[r]
      BY <1>1 DEF Clean
    <2>2. failed \in [Reqs -> BOOLEAN]
      BY <1>3 DEF TypeOK
    <2>3. failed' # [failed EXCEPT ![r] = TRUE]
      BY <2>1, <2>2
    <2>4. \/ st[r] = "written" /\ meta[r].nb_clusters = 0 /\ UNCHANGED <<disk, tableVars>>
          \/ st[r] = "written" /\ meta[r].nb_clusters # 0 /\ Link(meta[r])
      BY <1>9, <2>3 DEF WriteCb
    <2>5. CASE st[r] = "written" /\ meta[r].nb_clusters = 0 /\ UNCHANGED <<disk, tableVars>>
      <3>1. UNCHANGED <<l2, rc, snapshot, meta>> /\ st'[r] = "run"
        BY <1>3, <1>9, <2>5, WriteCbRequests DEF tableVars
      <3>2. ~Allocating(r) /\ ~Allocating(r)'
        BY <2>5, <3>1 DEF Allocating
      <3>3. \A q \in Reqs : Allocating(q)' <=> Allocating(q)
        BY <1>1, <1>9, <3>2, WriteCbOthers
      <3> QED
        BY <1>2, <3>1, <3>3, ExactKept
    <2>6. CASE st[r] = "written" /\ meta[r].nb_clusters # 0 /\ Link(meta[r])
      BY <1>1, <1>2, <1>9, <2>6, LinkExact DEF Link, Allocating
    <2> QED
      BY <2>4, <2>5, <2>6
  <1>10. CASE UNCHANGED vars
    BY <1>2, <1>10, ExactKept DEF vars, tableVars, reqVars, Allocating
  <1> QED
    BY <1>1, <1>5, <1>6, <1>7, <1>8, <1>9, <1>10 DEF Next

LEMMA LeakInit == Init => LeakInv
  <1>1. SUFFICES ASSUME Init, NEW h \in Host
                 PROVE  rc[h] = Users(h)
    BY DEF LeakInv, Exact
  <1>2. \A r \in Reqs : st[r] = "new"
    BY <1>1, InitTypes
  <1>3. Takers(h) = {}
    BY <1>2 DEF Takers, Allocating
  <1>4. PICK shared \in SUBSET Guest : \E owned \in SUBSET (Guest \ shared) :
         /\ l2 = [g \in Guest |->
                    IF g \in shared \cup owned
                    THEN [host |-> g + 1, copied |-> g \in owned]
                    ELSE Unallocated]
         /\ rc = [x \in Host |-> IF x - 1 \in shared THEN 2
                                 ELSE IF x - 1 \in owned THEN 1 ELSE 0]
         /\ snapshot = {g + 1 : g \in shared}
    BY <1>1 DEF Init
  <1>5. PICK owned \in SUBSET (Guest \ shared) :
         /\ l2 = [g \in Guest |->
                    IF g \in shared \cup owned
                    THEN [host |-> g + 1, copied |-> g \in owned]
                    ELSE Unallocated]
         /\ rc = [x \in Host |-> IF x - 1 \in shared THEN 2
                                 ELSE IF x - 1 \in owned THEN 1 ELSE 0]
         /\ snapshot = {g + 1 : g \in shared}
    BY <1>4
  <1>6. \A g \in Guest : l2[g].host = (IF g \in shared \cup owned THEN g + 1 ELSE 0)
    BY <1>5 DEF Unallocated
  <1>7. h \in Int /\ h # 0 /\ \A g \in Guest : g \in Int
    BY DEF Host, Guest
  <1>8. Mapped(h) = IF h - 1 \in shared \cup owned THEN {h - 1} ELSE {}
    <2>1. \A g \in Guest : l2[g].host = h <=> g \in shared \cup owned /\ g = h - 1
      BY <1>6, <1>7
    <2> QED
      BY <1>4, <1>5, <2>1 DEF Mapped
  <1>9. {h} \cap snapshot = IF h - 1 \in shared THEN {h} ELSE {}
    <2>1. \A g \in shared : g + 1 = h <=> g = h - 1
      BY <1>4, <1>7
    <2> QED
      BY <1>5, <2>1
  <1>10. Cardinality({}) = 0 /\ \A x : Cardinality({x}) = 1
    BY FS_Singleton, FS_EmptySet
  <1>11. Users(h) = Cardinality(Mapped(h)) + Cardinality(Takers(h)) + Cardinality({h} \cap snapshot)
    BY UsersIs
  <1>12. rc[h] = IF h - 1 \in shared THEN 2 ELSE IF h - 1 \in owned THEN 1 ELSE 0
    BY <1>5
  <1>13. Cardinality(Mapped(h)) = IF h - 1 \in shared \cup owned THEN 1 ELSE 0
    BY <1>8, <1>10
  <1>14. Cardinality({h} \cap snapshot) = IF h - 1 \in shared THEN 1 ELSE 0
    BY <1>9, <1>10
  <1>15. Cardinality(Takers(h)) = 0
    BY <1>3, <1>10
  <1> QED
    BY <1>11, <1>12, <1>13, <1>14, <1>15

LEMMA LeakCorrect == Spec => []LeakInv
  BY LeakInit, LeakStep, InvCorrect, RunCorrect, TargetCorrect, PTL DEF Spec

\* alloc_clusters_noref, qcow2_alloc_cluster_link_l2 and the freeing of the old
\* clusters balance: when no write is in flight, none has failed and none was
\* abandoned on cluster_allocs, the refcounts are exactly those of the L2 table
\* and of the snapshot.  For all faults, and also when writes are cancelled
\* while they wait or write in place.
THEOREM NoLeakCorrect == Spec => []NoLeak
  <1>1. LeakInv => NoLeak
    <2>1. ToSet(<<>>) = {}
      BY DEF ToSet
    <2> QED
      BY <2>1 DEF LeakInv, Clean, Exact, NoLeak
  <1> QED
    BY <1>1, LeakCorrect, PTL

-----------------------------------------------------------------------------
(* What the guest reads.                                                   *)

Active(r) == st[r] \notin {"new", "done"}

\* The sectors that are left of a request, the part being written included.
Extent(r) == part[r].sector_num .. (part[r].sector_num + part[r].nb_sectors - 1)

\* The part being written does not show in the guest's disk yet.
Hidden(r) == st[r] \in {"hd", "broken"} \/ Allocating(r)
Remaining(r) ==
    (part[r].sector_num + (IF Hidden(r) THEN 0 ELSE part[r].n))
        .. (part[r].sector_num + part[r].nb_sectors - 1)

\* Dependent requests wait: nobody releases one behind the allocation's back.
DependentsWait == \A q \in Reqs : \A r \in ToSet(dependents[q]) : st[r] = "wait"

\* What a request replaces was written by requests that have ended.
Superseded ==
    \A r, q \in Reqs : \A x \in GuestSectors : q \in supersedes[r][x] => st[q] = "done"

\* The guest may see what is being written.
Permitted == \A r \in Reqs : Active(r) => \A x \in Extent(r) : r \in allowed[x]

\* The data of an allocation is in its clusters before they are linked.
NewData ==
    \A r \in Reqs : Allocating(r) /\ st[r] = "written" =>
        \A h \in NewClusters(meta[r]) : \A o \in Offsets :
            (h - meta[r].cluster_offset) * CS + o \in meta[r].n_start .. (meta[r].nb_available - 1)
                => disk[h][o] = r

\* Where a request has been, the guest no longer sees what was there before.
Answered ==
    \A r \in Reqs : Active(r) /\ ~failed[r] =>
        \A x \in GuestSectors \ Remaining(r) : GuestRead(x) \notin supersedes[r][x]

DataInv == Superseded /\ Permitted /\ NewData /\ Answered /\ GuestData

LEMMA PartFacts ==
    ASSUME TypeOK, PartsFit, NEW r \in Reqs
    PROVE  /\ part[r].sector_num \in Nat /\ part[r].n \in Nat /\ part[r].nb_sectors \in Nat
           /\ part[r].n <= part[r].nb_sectors
           /\ part[r].sector_num + part[r].nb_sectors <= G * CS
           /\ Extent(r) \subseteq GuestSectors /\ Current(r) \subseteq Extent(r)
           /\ Remaining(r) \subseteq Extent(r)
  <1>1. part[r] \in Parts
    BY Types DEF RequestTypes
  <1>2. part[r].n <= part[r].nb_sectors /\ G * CS \in Nat
    BY Types, Constants DEF RequestTypes
  <1>3. /\ part[r].sector_num \in Nat /\ part[r].n \in Nat /\ part[r].nb_sectors \in Nat
        /\ part[r].sector_num + part[r].nb_sectors <= G * CS
    BY <1>1, <1>2 DEF Parts, PartsFit
  <1> QED
    BY <1>2, <1>3 DEF Extent, Current, Remaining, GuestSectors

\* Where the data write of r goes, and which guest sector that is.
LEMMA TargetSector ==
    ASSUME QcowInv, TargetInv, NEW r \in Reqs, st[r] = "hd", NEW k \in 0 .. part[r].n,
           NEW h \in Host, NEW o \in Offsets,
           (h - meta[r].cluster_offset) * CS + o \in
               (part[r].sector_num % CS) .. ((part[r].sector_num % CS) + k - 1)
    PROVE  /\ meta[r].nb_clusters # 0 => h \in NewClusters(meta[r])
           /\ meta[r].nb_clusters = 0 =>
                 \E y \in part[r].sector_num .. (part[r].sector_num + k - 1) :
                    y \div CS \in Guest /\ l2[y \div CS].host = h /\ y % CS = o
  <1>1. TypeOK /\ PartsFit /\ AllocsFit
    BY DEF QcowInv
  <1>2. PICK s \in Nat : s = part[r].sector_num
    BY <1>1, PartFacts
  <1>3. PICK n \in Nat : n = part[r].n
    BY <1>1, PartFacts
  <1>4. PICK a \in Nat : a = s \div CS
    BY DivBounds
  <1>5. PICK i \in Offsets : i = s % CS
    BY DivBounds
  <1>6. PICK h0 \in Nat : h0 = meta[r].cluster_offset
    <2>1. meta[r] \in Metas
      BY <1>1, Types DEF RequestTypes
    <2> QED
      BY <2>1, Constants DEF Metas
  <1>7. PICK d \in Int : d = h - h0
    BY <1>6 DEF Host
  <1>8. PICK z \in Int : z = d * CS + o
    BY <1>7, Constants DEF Offsets
  <1>9. /\ CS \in Nat \ {0} /\ i \in Nat /\ o \in Nat /\ k \in Nat /\ k <= n
        /\ z >= i /\ z < i + k /\ s = CS * a + i
    <2>1. CS \in Nat \ {0} /\ i \in Nat /\ o \in Nat /\ k \in Nat /\ k <= n
      BY <1>3, Constants DEF Offsets
    <2>2. z \in i .. (i + k - 1)
      BY <1>2, <1>5, <1>6, <1>7, <1>8
    <2>3. s = CS * a + i
      BY <1>4, <1>5, DivBounds
    <2> QED
      BY <1>8, <2>1, <2>2, <2>3
  <1>10. ASSUME meta[r].nb_clusters # 0
         PROVE  h \in NewClusters(meta[r])
    <2>1. Allocating(r)
      BY <1>10 DEF Allocating
    <2>2. PICK nb \in Nat : nb = meta[r].nb_clusters
      BY <1>1, <2>1, AllocationFacts
    <2>3. i + n <= nb * CS
      BY <1>2, <1>3, <1>5, <2>1, <2>2 DEF TargetInv, MetaFits
    <2>4. i + n \in Nat /\ d * CS + o >= 0 /\ d * CS + o < i + n
      BY <1>8, <1>9
    <2>5. d \in 0 .. (nb - 1)
      BY <2>2, <2>3, <2>4, SectorsInClusters
    <2>6. h \in Nat
      BY DEF Host
    <2>7. h \in h0 .. (h0 + nb - 1)
      BY <1>6, <1>7, <2>2, <2>5, <2>6
    <2> QED
      BY <1>6, <2>2, <2>7 DEF NewClusters
  <1>11. ASSUME meta[r].nb_clusters = 0
         PROVE  \E y \in s .. (s + k - 1) :
                    y \div CS \in Guest /\ l2[y \div CS].host = h /\ y % CS = o
    <2>1. d >= 0
      <3>1. SUFFICES ASSUME d <= -1
                     PROVE  FALSE
        BY <1>7
      <3>2. d * CS <= (-1) * CS
        BY <1>7, <1>9, <3>1
      <3>3. o < CS
        BY <1>9 DEF Offsets
      <3> QED
        BY <1>8, <1>9, <3>2, <3>3
    <2> DEFINE y == s + (z - i)
    <2>2. a + d \in Nat /\ y = CS * (a + d) + o
      BY <1>8, <1>9, <2>1
    <2>3. y \div CS = a + d /\ y % CS = o
      BY <2>2, DivUnique
    <2>4. y \in s .. (s + k - 1) /\ y \in s .. (s + n - 1)
      BY <1>8, <1>9
    <2> HIDE DEF y
    <2>5. y \in Current(r)
      BY <1>2, <1>3, <2>4 DEF Current
    <2>6. y \div CS \in Guest
      BY <1>1, <2>5, CurrentFits
    <2>7. l2[y \div CS] = [host |-> h0 + (y \div CS) - (s \div CS), copied |-> TRUE]
      BY <1>2, <1>6, <1>11, <2>5 DEF TargetInv, InPlaceTargets
    <2>8. h0 + (y \div CS) - (s \div CS) = h
      <3>1. h \in Nat
        BY DEF Host
      <3>2. y \div CS = a + d /\ s \div CS = a /\ h0 + d = h
        BY <1>4, <1>6, <1>7, <2>3, <3>1
      <3>3. h0 + (a + d) - a = h
        BY <1>4, <1>6, <1>7, <3>2
      <3> QED
        BY <3>2, <3>3
    <2>9. l2[y \div CS].host = h0 + (y \div CS) - (s \div CS)
      BY <2>7
    <2> QED
      BY <2>3, <2>4, <2>6, <2>8, <2>9
  <1> QED
    BY <1>2, <1>10, <1>11

\* What is read after a step that changes the file or the table.
LEMMA WrittenReads ==
    ASSUME QcowInv, TargetInv, NEW r \in Reqs, st[r] = "hd", NEW k \in 0 .. part[r].n,
           Written(r, k), UNCHANGED l2
    PROVE  \A x \in GuestSectors :
              GuestRead(x)' =
                 IF meta[r].nb_clusters = 0
                       /\ x \in part[r].sector_num .. (part[r].sector_num + k - 1)
                 THEN r ELSE GuestRead(x)
  <1>1. TypeOK /\ PartsFit /\ AllocsFit /\ CopiedMapped
    BY DEF QcowInv
  <1>2. TAKE x \in GuestSectors
  <1>3. PICK g \in Guest : g = x \div CS
    BY GuestOfSector
  <1>4. PICK o \in Offsets : o = x % CS
    BY GuestOfSector
  <1>5. x \in Nat
    BY GuestOfSector
  <1>6. PICK h \in 0 .. H : h = l2[g].host
    <2>1. l2[g] \in Entries
      BY <1>1 DEF TypeOK
    <2> QED
      BY <2>1 DEF Entries
  <1>7. /\ GuestRead(x) = IF h = 0 THEN x ELSE disk[h][o]
        /\ GuestRead(x)' = IF h = 0 THEN x ELSE disk'[h][o]
    BY <1>3, <1>4, <1>6 DEF GuestRead
  <1>8. PICK s \in Nat : s = part[r].sector_num
    BY <1>1, PartFacts
  <1>9. PICK h0 \in Nat : h0 = meta[r].cluster_offset
    <2>1. meta[r] \in Metas
      BY <1>1, Types DEF RequestTypes
    <2> QED
      BY <2>1, Constants DEF Metas
  <1> DEFINE Hit == (h - h0) * CS + o \in (s % CS) .. ((s % CS) + k - 1)
  <1>10. h # 0 => h \in Host /\ disk'[h][o] = IF Hit THEN r ELSE disk[h][o]
    <2>1. h # 0 => h \in Host
      BY <1>6, Constants DEF Host
    <2>2. disk' = [y \in Host |-> [p \in Offsets |->
               IF (y - h0) * CS + p \in (s % CS) .. ((s % CS) + k - 1) THEN r ELSE disk[y][p]]]
      BY <1>8, <1>9 DEF Written
    <2> QED
      BY <2>1, <2>2
  <1> HIDE DEF Hit
  <1>11. ASSUME h # 0, Hit
         PROVE  meta[r].nb_clusters = 0 /\ x \in s .. (s + k - 1)
    <2>1. h \in Host
      BY <1>10, <1>11
    <2>2. (h - meta[r].cluster_offset) * CS + o \in
               (part[r].sector_num % CS) .. ((part[r].sector_num % CS) + k - 1)
      BY <1>8, <1>9, <1>11 DEF Hit
    <2>3. meta[r].nb_clusters = 0
      <3>1. SUFFICES ASSUME meta[r].nb_clusters # 0
                     PROVE  FALSE
        OBVIOUS
      <3>2. h \in NewClusters(meta[r]) /\ Allocating(r)
        BY <2>1, <2>2, <3>1, TargetSector DEF Allocating
      <3>3. Mapped(h) = {}
        BY <3>2, NewIsUnused DEF TargetInv
      <3> QED
        BY <1>6, <3>3 DEF Mapped
    <2>4. PICK y \in s .. (s + k - 1) : y \div CS \in Guest /\ l2[y \div CS].host = h /\ y % CS = o
      BY <1>8, <2>1, <2>2, <2>3, TargetSector
    <2>5. y \div CS = g
      BY <1>6, <1>11, <2>4 DEF TargetInv, OneMapping
    <2>6. y \in Nat
      BY <1>8, <2>4
    <2>7. y = CS * (y \div CS) + (y % CS) /\ x = CS * (x \div CS) + (x % CS)
      BY <1>5, <2>6, DivBounds
    <2>8. x = y
      BY <1>3, <1>4, <2>4, <2>5, <2>7
    <2> QED
      BY <2>3, <2>4, <2>8
  <1>12. ASSUME meta[r].nb_clusters = 0, x \in s .. (s + k - 1)
         PROVE  h # 0 /\ Hit
    <2>1. PICK n \in Nat : n = part[r].n /\ k <= n /\ k \in Nat
      BY <1>1, PartFacts
    <2>2. x \in Current(r) /\ s <= x
      BY <1>8, <1>12, <2>1 DEF Current
    <2>3. l2[x \div CS] = [host |-> h0 + (x \div CS) - (s \div CS), copied |-> TRUE]
      BY <1>8, <1>9, <1>12, <2>2 DEF TargetInv, InPlaceTargets
    <2>4. h # 0
      <3>1. l2[g].copied
        BY <1>3, <2>3
      <3> QED
        BY <1>1, <1>6, <3>1 DEF CopiedMapped
    <2>5. x \div CS \in Nat /\ s \div CS \in Nat /\ s % CS \in Nat
      BY <1>5, <1>8, DivBounds, Constants DEF Offsets
    <2>6. h = h0 + (x \div CS) - (s \div CS)
      BY <1>3, <1>6, <2>3
    <2>7. h - h0 = x \div CS - s \div CS
      BY <1>9, <2>5, <2>6
    <2>8. (x \div CS - s \div CS) * CS + (x % CS) = (s % CS) + (x - s)
      BY <1>5, <1>8, <2>2, SectorCluster
    <2>9. (h - h0) * CS + o = (s % CS) + (x - s)
      BY <1>4, <2>7, <2>8
    <2>10. (s % CS) + (x - s) \in (s % CS) .. ((s % CS) + k - 1)
      BY <1>5, <1>8, <1>12, <2>1, <2>5
    <2> QED
      BY <2>4, <2>9, <2>10 DEF Hit
  <1> QED
    BY <1>7, <1>8, <1>10, <1>11, <1>12

LEMMA LinkReads ==
    ASSUME QcowInv, TargetInv, NewData, NEW r \in Reqs, Allocating(r), st[r] = "written",
           SetL2Entries(meta[r])
    PROVE  \A x \in GuestSectors :
              GuestRead(x)' = IF x \in Current(r) THEN r ELSE GuestRead(x)
  <1>1. TypeOK /\ PartsFit /\ AllocsFit
    BY DEF QcowInv
  <1>2. TAKE x \in GuestSectors
  <1>3. PICK g \in Guest : g = x \div CS
    BY GuestOfSector
  <1>4. PICK o \in Offsets : o = x % CS
    BY GuestOfSector
  <1>5. x \in Nat /\ g \in Nat /\ o \in Nat /\ x = CS * g + o
    <2>1. x \in Nat /\ x = CS * (x \div CS) + (x % CS)
      BY GuestOfSector, DivBounds
    <2>2. g \in Nat /\ o \in Nat
      BY Constants DEF Guest, Offsets
    <2> QED
      BY <1>3, <1>4, <2>1, <2>2
  <1>6. PICK co \in Nat : co = meta[r].cluster_offset
    BY <1>1, AllocationFacts
  <1>7. PICK g0 \in Nat : g0 = meta[r].offset \div CS
    BY <1>1, AllocationFacts
  <1>8. PICK s \in Nat : s = part[r].sector_num
    BY <1>1, PartFacts
  <1>9. PICK n \in Nat : n = part[r].n
    BY <1>1, PartFacts
  <1>10. PICK i \in Nat : i = s % CS
    BY DivBounds, Constants DEF Offsets
  <1>11. /\ meta[r].offset = s /\ meta[r].n_start = i /\ meta[r].nb_available = i + n
         /\ meta[r].nb_available <= meta[r].nb_clusters * CS
    BY <1>8, <1>9, <1>10 DEF TargetInv, MetaFits
  <1>12. s = CS * g0 + i
    BY <1>7, <1>10, <1>11, DivBounds
  <1>13. PICK nb \in Nat \ {0} : nb = meta[r].nb_clusters
    BY <1>1, AllocationFacts
  <1>14. Covered(r) = g0 .. (g0 + nb - 1) /\ NewClusters(meta[r]) = co .. (co + nb - 1)
    BY <1>6, <1>7, <1>13 DEF Covered, NewClusters
  <1>15. disk' = [h \in Host |-> IF h \in NewClusters(meta[r])
                                 THEN CopySectors(meta[r], h - co) ELSE disk[h]]
    BY <1>6 DEF SetL2Entries
  <1>16. CASE g \in Covered(r)
    <2>1. PICK h \in NewClusters(meta[r]) : h = l2'[g].host /\ h = co + g - g0
      BY <1>1, <1>6, <1>7, <1>16, LinkedTable
    <2>2. h \in Host
      BY <1>1 DEF AllocsFit
    <2>3. h # 0 /\ h \in Nat
      BY <2>2 DEF Host
    <2>4. GuestRead(x)' = disk'[h][o]
      BY <1>3, <1>4, <2>1, <2>3 DEF GuestRead
    <2>5. h - co = g - g0 /\ g0 + (g - g0) = g
      BY <1>5, <1>6, <1>7, <2>1
    <2> DEFINE idx == (g - g0) * CS + o
    <2>6. disk'[h][o] = IF idx \in i .. ((i + n) - 1)
                        THEN disk[co + (g - g0)][o] ELSE GuestRead(g * CS + o)
      <3>1. disk'[h] = CopySectors(meta[r], g - g0)
        BY <1>15, <2>2, <2>5
      <3> QED
        BY <1>6, <1>7, <1>11, <2>5, <3>1 DEF CopySectors
    <2>7. g * CS + o = x /\ co + (g - g0) = h
      BY <1>5, <1>6, <1>7, <2>1, Constants
    <2>8. idx \in i .. ((i + n) - 1) <=> x \in s .. (s + n - 1)
      <3>1. (g - g0) * CS = CS * g - CS * g0 /\ CS * g \in Nat /\ CS * g0 \in Nat
        BY <1>5, <1>7, Constants
      <3>2. idx = (x - s) + i
        BY <1>5, <1>7, <1>8, <1>10, <1>12, <3>1
      <3> HIDE DEF idx
      <3> QED
        BY <1>5, <1>8, <1>9, <1>10, <3>2
    <2>9. idx \in i .. ((i + n) - 1) => disk[h][o] = r
      <3>1. (h - co) * CS + o = idx
        BY <2>5
      <3>2. (h - meta[r].cluster_offset) * CS + o \in meta[r].n_start .. (meta[r].nb_available - 1)
                => disk[h][o] = r
        BY DEF NewData
      <3> HIDE DEF idx
      <3> QED
        BY <1>6, <1>11, <3>1, <3>2
    <2>10. x \in Current(r) <=> x \in s .. (s + n - 1)
      BY <1>8, <1>9 DEF Current
    <2> HIDE DEF idx
    <2> QED
      BY <2>4, <2>6, <2>7, <2>8, <2>9, <2>10
  <1>17. CASE g \notin Covered(r)
    <2>1. l2'[g] = l2[g]
      BY <1>1, <1>17, LinkedTable
    <2>2. l2[g].host \in 0 .. H
      <3>1. l2[g] \in Entries
        BY <1>1 DEF TypeOK
      <3> QED
        BY <3>1 DEF Entries
    <2>3. l2[g].host \notin NewClusters(meta[r])
      BY NewIsUnused DEF TargetInv, Mapped
    <2>4. l2[g].host # 0 => disk'[l2[g].host] = disk[l2[g].host]
      <3>1. l2[g].host # 0 => l2[g].host \in Host
        BY <2>2, Constants DEF Host
      <3> QED
        BY <1>15, <2>3, <3>1
    <2>5. GuestRead(x)' = GuestRead(x)
      BY <1>3, <2>1, <2>4 DEF GuestRead
    <2>6. x \notin Current(r)
      <3>1. SUFFICES ASSUME x \in Current(r)
                     PROVE  g \in Covered(r)
        BY <1>17
      <3>2. s <= x /\ x < s + n
        BY <1>8, <1>9, <3>1 DEF Current
      <3>3. nb * CS \in Nat /\ i + n <= nb * CS
        BY <1>11, <1>13, Constants
      <3>4. (s % CS) + (x - s) < nb * CS
        BY <1>5, <1>8, <1>9, <1>10, <3>2, <3>3
      <3>5. x \div CS - s \div CS \in 0 .. (nb - 1)
        BY <1>5, <1>8, <1>13, <3>2, <3>4, SectorCluster
      <3>6. g - g0 \in 0 .. (nb - 1)
        BY <1>3, <1>7, <1>11, <3>5
      <3> QED
        BY <1>5, <1>7, <1>13, <1>14, <3>6
    <2> QED
      BY <2>5, <2>6
  <1> QED
    BY <1>16, <1>17

\* The step that every action but the submission of a request is for the guest's
\* data: sectors K come to show q, some requests advance and one may be answered.
LEMMA DataKept ==
    ASSUME QcowInv, DataInv, NEW q \in Reqs, NEW K, K # {} => Active(q) /\ K \subseteq Current(q),
           \A x \in GuestSectors : GuestRead(x)' = IF x \in K THEN q ELSE GuestRead(x),
           \A p \in Reqs : st[p] = "done" => st'[p] = "done",
           UNCHANGED supersedes,
           \A x \in GuestSectors : \A v \in allowed[x] :
               \/ v \in allowed'[x]
               \/ \E p \in Reqs : v \in supersedes[p][x] /\ GuestRead(x) \notin supersedes[p][x],
           \A p \in Reqs : Active(p)' => Active(p) /\ Extent(p)' \subseteq Extent(p),
           \A p \in Reqs : Active(p)' /\ ~failed'[p] =>
               ~failed[p] /\ \A x \in Remaining(p) : x \in Remaining(p)' \/ (p = q /\ x \in K)
    PROVE  Superseded' /\ Permitted' /\ Answered' /\ GuestData'
  <1>1. Superseded /\ Permitted /\ Answered /\ GuestData /\ TypeOK /\ PartsFit
    BY DEF DataInv, QcowInv
  <1>2. Superseded'
    BY <1>1 DEF Superseded, GuestSectors
  <1>3. ASSUME NEW p \in Reqs, Active(p), NEW x \in GuestSectors, p \in allowed[x]
        PROVE  p \in allowed'[x]
    <2>1. \A u \in Reqs : p \notin supersedes[u][x]
      BY <1>1, <1>3 DEF Superseded, Active
    <2> QED
      BY <1>3, <2>1
  <1>4. Permitted'
    <2>1. SUFFICES ASSUME NEW p \in Reqs, Active(p)', NEW x \in Extent(p)'
                   PROVE  p \in allowed'[x]
      BY DEF Permitted
    <2>2. Active(p) /\ x \in Extent(p) /\ x \in GuestSectors
      BY <1>1, <2>1, PartFacts
    <2> QED
      BY <1>1, <1>3, <2>2 DEF Permitted
  <1>5. \A x \in K : q \in allowed[x] /\ x \in GuestSectors /\ Active(q)
    BY <1>1, PartFacts DEF Permitted
  <1>6. Answered'
    <2>1. SUFFICES ASSUME NEW p \in Reqs, Active(p)', ~failed'[p],
                          NEW x \in GuestSectors, x \notin Remaining(p)'
                   PROVE  GuestRead(x)' \notin supersedes'[p][x]
      BY DEF Answered, GuestSectors
    <2>2. CASE x \in K
      BY <1>1, <1>5, <2>2 DEF Superseded, Active
    <2>3. CASE x \notin K
      <3>1. Active(p) /\ ~failed[p] /\ x \notin Remaining(p)
        BY <2>1, <2>3
      <3>2. GuestRead(x) \notin supersedes[p][x]
        BY <1>1, <3>1 DEF Answered
      <3> QED
        BY <2>3, <3>2
    <2> QED
      BY <2>2, <2>3
  <1>7. GuestData'
    <2>1. SUFFICES ASSUME NEW x \in GuestSectors
                   PROVE  GuestRead(x)' \in allowed'[x]
      BY DEF GuestData, GuestSectors
    <2>2. CASE x \in K
      <3>1. q \in allowed'[x]
        BY <1>3, <1>5, <2>2
      <3> QED
        BY <2>2, <3>1
    <2>3. CASE x \notin K
      <3>1. GuestRead(x) \in allowed[x]
        BY <1>1 DEF GuestData
      <3>2. GuestRead(x) \in allowed'[x]
        BY <3>1
      <3> QED
        BY <2>3, <3>2
    <2> QED
      BY <2>2, <2>3
  <1> QED
    BY <1>2, <1>4, <1>6, <1>7

LEMMA SameRequest ==
    ASSUME NEW p \in Reqs, st'[p] = st[p], part'[p] = part[p], meta'[p] = meta[p]
    PROVE  /\ Active(p)' <=> Active(p)
           /\ Extent(p)' = Extent(p) /\ Remaining(p)' = Remaining(p)
           /\ Allocating(p)' <=> Allocating(p)
  BY DEF Active, Extent, Remaining, Hidden, Allocating

LEMMA SameReads ==
    ASSUME UNCHANGED <<l2, disk>>
    PROVE  \A x \in GuestSectors : GuestRead(x)' = GuestRead(x)
  BY DEF GuestRead

\* Without cancellation a request that has ended has ended for good.
LEMMA DoneForGood ==
    ASSUME ~Cancels, QcowInv, RunInv, DependentsWait, [Next]_vars, NEW q \in Reqs, st[q] = "done"
    PROVE  st'[q] = "done"
  <1>1. st \in [Reqs -> States]
    BY Types DEF QcowInv, RequestTypes
  <1>2. CASE Callback
    BY <1>2, CallbackOthers
  <1>3. ASSUME NEW r \in Reqs, NEW s, NEW k, AioWritev(r, s, k)
        PROVE  st'[q] = "done"
    BY <1>1, <1>3 DEF AioWritev
  <1>4. ASSUME NEW r \in Reqs, HdWrite(r) \/ HdFail(r)
        PROVE  st'[q] = "done"
    BY <1>1, <1>4 DEF HdWrite, HdFail
  <1>5. ASSUME NEW r \in Reqs, WriteCb(r)
        PROVE  st'[q] = "done"
    <2>1. /\ ToSet(todo') = ToSet(dependents[r]) \cup {r}
          /\ st' = [p \in Reqs |-> IF p \in ToSet(todo') THEN "run" ELSE st[p]]
      BY <1>5, WriteCbRequests DEF QcowInv
    <2>2. q # r /\ q \notin ToSet(dependents[r])
      BY <1>5 DEF WriteCb, DependentsWait
    <2> QED
      BY <2>1, <2>2
  <1>6. CASE UNCHANGED vars
    BY <1>6 DEF vars, reqVars
  <1> QED
    BY <1>2, <1>3, <1>4, <1>5, <1>6 DEF Next, AioCancel

LEMMA DependentsWaitStep ==
    ASSUME ~Cancels, QcowInv, RunInv, RunInv', DependentsWait, [Next]_vars
    PROVE  DependentsWait'
  <1>1. SUFFICES ASSUME NEW q \in Reqs, NEW r \in ToSet(dependents'[q]), st'[r] # "wait"
                 PROVE  FALSE
    BY DEF DependentsWait, ToSet
  <1>2. st'[r] = "done" /\ r \notin ToSet(cluster_allocs')
    BY <1>1 DEF RunInv, DependentsSound, ToSet
  <1>3. /\ st \in [Reqs -> States] /\ dependents \in [Reqs -> Seq(Reqs)]
        /\ dependents[q] \in Seq(Reqs)
    BY Types DEF QcowInv, RequestTypes
  <1>4. ASSUME UNCHANGED dependents, st'[r] = st[r]
        PROVE  FALSE
    BY <1>1, <1>4 DEF DependentsWait
  <1>5. CASE WaitForAllocation
    <2>1. PICK R, d : R = Running /\ d = Room.dep
      OBVIOUS
    <2>2. R \in Reqs /\ d \in Reqs
      <3>1. todo # <<>> /\ Running # NoReq /\ Room.dep # NoReq
        BY <1>5 DEF WaitForAllocation, More
      <3> QED
        BY <1>5, <2>1, <3>1, RunningRequest, RoomCorrect DEF QcowInv, WaitForAllocation
    <2>3. /\ st' = [st EXCEPT ![R] = "wait"]
          /\ dependents' = [dependents EXCEPT ![d] = <<R>> \o @]
      BY <1>5, <2>1 DEF WaitForAllocation
    <2>4. r # R /\ r \in Reqs
      <3>1. dependents'[q] \in Seq(Reqs)
        BY <1>3, <2>2, <2>3
      <3>2. r \in Reqs
        BY <1>1, <3>1, ToSetSubset
      <3> QED
        BY <1>2, <1>3, <2>2, <2>3, <3>2
    <2>5. st'[r] = st[r]
      BY <1>3, <2>3, <2>4
    <2>6. r \in ToSet(dependents[q])
      <3>1. ToSet(<<R>> \o dependents[q]) = ToSet(dependents[q]) \cup {R}
        BY <1>3, <2>2, ToSetCons
      <3>2. dependents'[q] = dependents[q] \/ dependents'[q] = <<R>> \o dependents[q]
        BY <1>3, <2>2, <2>3
      <3> QED
        BY <1>1, <2>4, <3>1, <3>2
    <2> QED
      BY <1>1, <2>5, <2>6 DEF DependentsWait
  <1>6. CASE Callback /\ ~WaitForAllocation
    <2>1. UNCHANGED dependents
      BY <1>6 DEF Callback, Finish, CallbackReturns, WriteInPlace, WriteAllocating, AllocFails,
                  SubmitFails, Done, reqVars
    <2>2. r \in Reqs /\ st[r] = "wait"
      BY <1>1, <1>3, <2>1, ToSetSubset DEF DependentsWait
    <2> QED
      BY <1>4, <1>6, <2>1, <2>2, CallbackOthers
  <1>7. ASSUME NEW p \in Reqs, NEW s, NEW k, AioWritev(p, s, k)
        PROVE  FALSE
    <2>1. UNCHANGED dependents /\ st[p] = "new" /\ st' = [st EXCEPT ![p] = "run"]
      BY <1>7 DEF AioWritev
    <2>2. r \in Reqs /\ st[r] = "wait"
      BY <1>1, <1>3, <2>1, ToSetSubset DEF DependentsWait
    <2> QED
      BY <1>2, <1>3, <2>1, <2>2
  <1>8. ASSUME NEW p \in Reqs, HdWrite(p) \/ HdFail(p)
        PROVE  FALSE
    <2>1. UNCHANGED dependents /\ st[p] = "hd" /\ \E v \in {"written", "broken"} : st' = [st EXCEPT ![p] = v]
      BY <1>8 DEF HdWrite, HdFail
    <2>2. r \in Reqs /\ st[r] = "wait"
      BY <1>1, <1>3, <2>1, ToSetSubset DEF DependentsWait
    <2> QED
      BY <1>2, <1>3, <2>1, <2>2
  <1>9. ASSUME NEW p \in Reqs, WriteCb(p)
        PROVE  FALSE
    <2>1. /\ dependents' = [dependents EXCEPT ![p] = <<>>]
          /\ \A u \in Reqs : st'[u] # "run" => st'[u] = st[u]
      BY <1>9, WriteCbRequests DEF QcowInv
    <2>2. ToSet(<<>>) = {}
      BY DEF ToSet
    <2>3. q # p /\ dependents'[q] = dependents[q]
      BY <1>1, <1>3, <2>1, <2>2
    <2>4. r \in Reqs /\ st[r] = "wait"
      BY <1>1, <1>3, <2>3, ToSetSubset DEF DependentsWait
    <2> QED
      BY <1>2, <2>1, <2>4
  <1>10. CASE UNCHANGED vars
    BY <1>4, <1>10 DEF vars, reqVars
  <1> QED
    BY <1>5, <1>6, <1>7, <1>8, <1>9, <1>10 DEF Next, AioCancel

\* New clusters are written by the request that allocated them only.
LEMMA NewClustersApart ==
    ASSUME QcowInv, TargetInv, NEW q \in Reqs, NEW r \in Reqs, q # r, Allocating(r),
           NEW h \in NewClusters(meta[r]),
           \/ st[q] = "hd" /\ \E k \in 0 .. part[q].n : Written(q, k)
           \/ Allocating(q) /\ SetL2Entries(meta[q])
    PROVE  disk'[h] = disk[h]
  <1>1. Mapped(h) = {} /\ Takers(h) = {r} /\ h \in Host
    BY NewIsUnused DEF TargetInv
  <1>2. ~(Allocating(q) /\ h \in NewClusters(meta[q]))
    BY <1>1 DEF Takers
  <1>3. CASE Allocating(q) /\ SetL2Entries(meta[q])
    BY <1>1, <1>2, <1>3 DEF SetL2Entries
  <1>4. CASE st[q] = "hd" /\ \E k \in 0 .. part[q].n : Written(q, k)
    <2>1. PICK k \in 0 .. part[q].n : Written(q, k)
      BY <1>4
    <2> DEFINE Hit(o) == (h - meta[q].cluster_offset) * CS + o \in
               (part[q].sector_num % CS) .. ((part[q].sector_num % CS) + k - 1)
    <2>2. disk'[h] = [o \in Offsets |-> IF Hit(o) THEN q ELSE disk[h][o]]
      BY <1>1, <2>1 DEF Written
    <2>3. ASSUME NEW o \in Offsets, Hit(o)
          PROVE  FALSE
      <3>1. /\ meta[q].nb_clusters # 0 => h \in NewClusters(meta[q])
            /\ meta[q].nb_clusters = 0 =>
                 \E y \in part[q].sector_num .. (part[q].sector_num + k - 1) :
                    y \div CS \in Guest /\ l2[y \div CS].host = h /\ y % CS = o
        BY <1>1, <1>4, <2>3, TargetSector
      <3>2. meta[q].nb_clusters # 0 => Allocating(q)
        BY <1>4 DEF Allocating
      <3> QED
        BY <1>1, <1>2, <3>1, <3>2 DEF Mapped
    <2>4. disk[h] = [o \in Offsets |-> disk[h][o]]
      BY <1>1 DEF QcowInv, TypeOK
    <2> HIDE DEF Hit
    <2> QED
      BY <2>2, <2>3, <2>4
  <1> QED
    BY <1>3, <1>4

LEMMA NewDataKept ==
    ASSUME QcowInv, TargetInv, NewData,
           \A r \in Reqs : Allocating(r)' /\ st'[r] = "written" =>
               /\ Allocating(r) /\ st[r] = "written" /\ meta'[r] = meta[r]
               /\ \A h \in NewClusters(meta[r]) : disk'[h] = disk[h]
    PROVE  NewData'
  <1>1. SUFFICES ASSUME NEW r \in Reqs, Allocating(r)', st'[r] = "written",
                        NEW h \in NewClusters(meta'[r]), NEW o \in Offsets,
                        (h - meta'[r].cluster_offset) * CS + o
                           \in meta'[r].n_start .. (meta'[r].nb_available - 1)
                 PROVE  disk'[h][o] = r
    BY DEF NewData, Offsets
  <1>2. /\ Allocating(r) /\ st[r] = "written" /\ meta'[r] = meta[r]
        /\ disk'[h] = disk[h] /\ h \in NewClusters(meta[r])
    BY <1>1
  <1> QED
    BY <1>1, <1>2 DEF NewData

LEMMA HdWriteNewData ==
    ASSUME QcowInv, TargetInv, NewData, NEW r \in Reqs, HdWrite(r)
    PROVE  NewData'
  <1>1. /\ st[r] = "hd" /\ Written(r, part[r].n) /\ st' = [st EXCEPT ![r] = "written"]
        /\ UNCHANGED <<meta, part>>
    BY DEF HdWrite
  <1>2. TypeOK /\ PartsFit /\ AllocsFit /\ st \in [Reqs -> States]
    BY Types DEF QcowInv, RequestTypes
  <1>3. PICK n \in Nat : n = part[r].n /\ n \in 0 .. part[r].n
    BY <1>2, PartFacts
  <1>4. SUFFICES ASSUME NEW q \in Reqs, Allocating(q)', st'[q] = "written",
                        NEW h \in NewClusters(meta[q]), NEW o \in Offsets,
                        (h - meta[q].cluster_offset) * CS + o
                           \in meta[q].n_start .. (meta[q].nb_available - 1)
                 PROVE  disk'[h][o] = q
    BY <1>1 DEF NewData, Offsets
  <1>5. CASE q = r
    <2>1. Allocating(r)
      BY <1>1, <1>4, <1>5 DEF Allocating
    <2>2. h \in Host
      BY <1>2, <1>4, <1>5, <2>1 DEF AllocsFit
    <2>3. meta[r].n_start = part[r].sector_num % CS /\ meta[r].nb_available = meta[r].n_start + part[r].n
      BY <2>1 DEF TargetInv, MetaFits
    <2>4. (h - meta[r].cluster_offset) * CS + o \in
               (part[r].sector_num % CS) .. ((part[r].sector_num % CS) + part[r].n - 1)
      <3>0. PICK i \in Nat : i = part[r].sector_num % CS
        BY <1>2, PartFacts, DivBounds, Constants DEF Offsets
      <3>1. PICK z : z = (h - meta[r].cluster_offset) * CS + o
        OBVIOUS
      <3>2. meta[r].n_start = i /\ meta[r].nb_available = i + n
        BY <1>3, <2>3, <3>0
      <3>3. z \in meta[r].n_start .. (meta[r].nb_available - 1)
        BY <1>4, <1>5, <3>1
      <3>4. z \in i .. (i + n - 1)
        BY <1>3, <3>0, <3>2, <3>3
      <3> QED
        BY <1>3, <3>0, <3>1, <3>4
    <2> QED
      BY <1>1, <1>5, <2>2, <2>4 DEF Written
  <1>6. CASE q # r
    <2>1. st[q] = "written" /\ Allocating(q)
      BY <1>1, <1>2, <1>4, <1>6 DEF Allocating
    <2>2. \E k \in 0 .. part[r].n : Written(r, k)
      BY <1>1, <1>3
    <2>3. disk'[h] = disk[h]
      BY <1>1, <1>4, <1>6, <2>1, <2>2, NewClustersApart
    <2> QED
      BY <1>4, <2>1, <2>3 DEF NewData
  <1> QED
    BY <1>5, <1>6

LEMMA HdFailNewData ==
    ASSUME QcowInv, TargetInv, NewData, NEW r \in Reqs, HdFail(r)
    PROVE  NewData'
  <1>1. /\ st[r] = "hd" /\ st' = [st EXCEPT ![r] = "broken"] /\ UNCHANGED <<meta, part>>
    BY DEF HdFail
  <1>2. st \in [Reqs -> States] /\ TypeOK /\ PartsFit
    BY Types DEF QcowInv, RequestTypes
  <1>3. \E k \in 0 .. part[r].n : Written(r, k)
    <2>1. PICK k \in 0 .. (part[r].n - 1) : Written(r, k)
      BY DEF HdFail
    <2>2. part[r].n \in Nat
      BY <1>2, PartFacts
    <2> QED
      BY <2>1, <2>2
  <1>4. ASSUME NEW q \in Reqs, Allocating(q)', st'[q] = "written"
        PROVE  /\ Allocating(q) /\ st[q] = "written" /\ meta'[q] = meta[q]
               /\ \A h \in NewClusters(meta[q]) : disk'[h] = disk[h]
    <2>1. q # r /\ Allocating(q) /\ st[q] = "written" /\ meta'[q] = meta[q]
      BY <1>1, <1>2, <1>4 DEF Allocating
    <2> QED
      BY <1>1, <1>3, <2>1, NewClustersApart
  <1> QED
    BY <1>4, NewDataKept

LEMMA WriteCbNewData ==
    ASSUME QcowInv, TargetInv, RunInv, NewData, NEW r \in Reqs, WriteCb(r)
    PROVE  NewData'
  <1>1. /\ st'[r] = "run" /\ meta' = meta
        /\ \A q \in Reqs : st'[q] # "run" => st'[q] = st[q]
    BY WriteCbRequests DEF QcowInv
  <1>2. ASSUME NEW q \in Reqs, Allocating(q)', st'[q] = "written"
        PROVE  /\ Allocating(q) /\ st[q] = "written" /\ meta'[q] = meta[q]
               /\ \A h \in NewClusters(meta[q]) : disk'[h] = disk[h]
    <2>1. q # r /\ Allocating(q) /\ st[q] = "written" /\ meta'[q] = meta[q]
      BY <1>1, <1>2 DEF Allocating
    <2>2. CASE UNCHANGED <<disk, tableVars>>
      BY <2>1, <2>2
    <2>3. CASE Allocating(r) /\ SetL2Entries(meta[r])
      BY <2>1, <2>3, NewClustersApart
    <2> QED
      BY <2>2, <2>3, WriteCbTables
  <1> QED
    BY <1>2, NewDataKept

\* All other steps leave the file alone.
LEMMA QuietNewData ==
    ASSUME QcowInv, QcowInv', RunInv, TargetInv, NewData,
           \/ Callback
           \/ \E r \in Reqs, s \in GuestSectors, k \in 1 .. MaxSectors : AioWritev(r, s, k)
    PROVE  NewData'
  <1>1. UNCHANGED disk
    BY DEF Callback, Finish, CallbackReturns, WriteInPlace, WaitForAllocation, WriteAllocating,
           AllocFails, SubmitFails, Done, AioWritev
  <1>2. st \in [Reqs -> States]
    BY Types DEF QcowInv, RequestTypes
  <1>3. ASSUME NEW q \in Reqs, st'[q] = "written"
        PROVE  st[q] = "written" /\ meta'[q] = meta[q]
    <2>1. CASE Callback
      <3>1. CASE st[q] # "run"
        BY <1>3, <2>1, <3>1, CallbackOthers
      <3>2. CASE st[q] = "run"
        <4>1. st' = st \/ \E v \in {"done", "hd", "wait"} : st' = [st EXCEPT ![Running] = v]
          BY <2>1 DEF Callback, Finish, CallbackReturns, WriteInPlace, WaitForAllocation,
               WriteAllocating, AllocFails, SubmitFails, SubmitData, Done, reqVars
        <4> QED
          BY <1>2, <1>3, <3>2, <4>1
      <3> QED
        BY <3>1, <3>2
    <2>2. CASE \E r \in Reqs, s \in GuestSectors, k \in 1 .. MaxSectors : AioWritev(r, s, k)
      BY <1>2, <1>3, <2>2 DEF AioWritev
    <2> QED
      BY <2>1, <2>2
  <1>4. \A q \in Reqs : Allocating(q)' /\ st'[q] = "written" =>
               /\ Allocating(q) /\ st[q] = "written" /\ meta'[q] = meta[q]
               /\ \A h \in NewClusters(meta[q]) : disk'[h] = disk[h]
    BY <1>1, <1>3 DEF Allocating
  <1> QED
    BY <1>4, NewDataKept

\* Callbacks: the guest reads the same; the request may be answered.
LEMMA CallbackData ==
    ASSUME ~Cancels, "hd_submit" \notin Faults, QcowInv, QcowInv', RunInv, DependentsWait, TargetInv,
           DataInv, Callback
    PROVE  DataInv'
  <1>1. TypeOK /\ PartsFit /\ Scheduled
    BY DEF QcowInv, RunInv
  <1>2. st \in [Reqs -> States] /\ part \in [Reqs -> Parts]
    BY <1>1, Types DEF RequestTypes
  <1>3. NewData'
    BY QuietNewData DEF DataInv
  <1>4. UNCHANGED <<l2, disk, supersedes, failed>>
    BY DEF Callback, Finish, CallbackReturns, WriteInPlace, WaitForAllocation, WriteAllocating,
           AllocFails, SubmitFails, Done, UseOwned, AllocateNew, tableVars, history, reqVars
  <1>5. \A x \in GuestSectors : GuestRead(x)' = GuestRead(x)
    BY <1>4, SameReads
  <1>6. \A p \in Reqs : st[p] = "done" => st'[p] = "done"
    BY CallbackOthers
  <1>7. CASE CallbackReturns
    <2>1. UNCHANGED <<st, part, meta, allowed>>
      BY <1>7 DEF CallbackReturns, reqVars, history
    <2>2. Superseded' /\ Permitted' /\ Answered' /\ GuestData'
      BY <1>4, <1>5, <2>1 DEF DataInv, Superseded, Permitted, Answered, GuestData, Active, Extent,
           Remaining, Hidden, Allocating, GuestSectors
    <2> QED
      BY <1>3, <2>2 DEF DataInv
  <1>8. CASE ~CallbackReturns
    <2>1. PICK R : R = Running
      OBVIOUS
    <2>2. todo # <<>> /\ R # NoReq
      BY <1>8, <2>1 DEF Callback, Finish, WriteInPlace, WaitForAllocation, WriteAllocating,
           AllocFails, SubmitFails, More
    <2>3. R \in Reqs /\ st[R] = "run"
      BY <1>1, <2>1, <2>2, RunningRequest, RunningRuns
    <2>4. ~Hidden(R) /\ Active(R)
      BY <2>3 DEF Hidden, Allocating, Active
    <2>5. \A p \in Reqs : p # R => st'[p] = st[p]
      BY <1>2, <1>8, <2>1, <2>3 DEF Callback, Finish, WriteInPlace, WaitForAllocation, WriteAllocating,
           AllocFails, SubmitFails, SubmitData, Done
    <2>6. \A p \in Reqs : p # R => part'[p] = part[p]
      BY <1>2, <1>8, <2>1, <2>3 DEF Callback, Finish, WriteInPlace, WaitForAllocation, WriteAllocating,
           AllocFails, SubmitFails, SubmitData, Done, Part
    <2>7. \A p \in Reqs : Active(p)' /\ p # R => Active(p)
      BY <2>5 DEF Active
    <2>8. \A p \in Reqs : p # R => Extent(p)' = Extent(p)
      BY <2>6 DEF Extent
    <2>9. \A p \in Reqs : p # R => Remaining(p)' = Remaining(p)
      <3>1. ASSUME NEW p \in Reqs, p # R
            PROVE  Remaining(p)' = Remaining(p)
        <4>1. Hidden(p)' <=> Hidden(p)
          <5>1. CASE st[p] = "run"
            BY <2>5, <3>1, <5>1 DEF Hidden, Allocating
          <5>2. CASE st[p] # "run"
            <6>1. meta'[p] = meta[p]
              BY <5>2, CallbackOthers
            <6> QED
              BY <2>5, <3>1, <6>1 DEF Hidden, Allocating
          <5> QED
            BY <5>1, <5>2
        <4> QED
          BY <2>6, <3>1, <4>1 DEF Remaining
      <3> QED
        BY <3>1
    <2>10. PICK s \in Nat : s = part[R].sector_num
      BY <1>1, <2>3, PartFacts
    <2>11. PICK n \in Nat : n = part[R].n
      BY <1>1, <2>3, PartFacts
    <2>12. PICK nb \in Nat : nb = part[R].nb_sectors /\ n <= nb
      BY <1>1, <2>3, <2>11, PartFacts
    <2>13. Extent(R) = s .. (s + nb - 1) /\ Remaining(R) = (s + n) .. (s + nb - 1)
      BY <2>4, <2>10, <2>11, <2>12 DEF Extent, Remaining
    <2>14. Position = [sector_num |-> s + n, nb_sectors |-> nb - n]
      BY <2>1, <2>10, <2>11, <2>12 DEF Position
    <2>15. CASE Finish
      <3>1. Done(~failed[R]) /\ (failed[R] \/ nb - n = 0)
        BY <2>1, <2>14, <2>15 DEF Finish
      <3>2. st'[R] = "done"
        BY <1>2, <2>1, <2>3, <3>1 DEF Done
      <3>3. \A x \in GuestSectors : \A v \in allowed[x] :
               \/ v \in allowed'[x]
               \/ \E p \in Reqs : v \in supersedes[p][x] /\ GuestRead(x) \notin supersedes[p][x]
        <4>1. CASE failed[R]
          <5>1. allowed' = allowed
            BY <2>1, <3>1, <4>1 DEF Done
          <5> QED
            BY <5>1
        <4>2. CASE ~failed[R]
          <5>1. allowed' = [x \in GuestSectors |-> allowed[x] \ supersedes[R][x]]
            BY <2>1, <3>1, <4>2 DEF Done
          <5>2. \A x \in GuestSectors : x \notin Remaining(R)
            <6>1. nb - n = 0
              BY <3>1, <4>2, Zenon
            <6>2. nb = n
              BY <2>11, <2>12, <6>1
            <6>3. (s + n) .. (s + n - 1) = {}
              BY <2>10, <2>11
            <6> QED
              BY <2>13, <6>2, <6>3
          <5>3. \A x \in GuestSectors : GuestRead(x) \notin supersedes[R][x]
            BY <2>3, <2>4, <4>2, <5>2 DEF DataInv, Answered
          <5> QED
            BY <2>3, <5>1, <5>3
        <4> QED
          BY <4>1, <4>2
      <3>4. ~Active(R)'
        BY <3>2 DEF Active
      <3>5. Superseded' /\ Permitted' /\ Answered' /\ GuestData'
        <4> DEFINE K == {}
        <4>1. /\ K # {} => Active(R) /\ K \subseteq Current(R)
              /\ \A x \in GuestSectors : GuestRead(x)' = IF x \in K THEN R ELSE GuestRead(x)
          BY <1>5
        <4>2. \A p \in Reqs : Active(p)' => Active(p) /\ Extent(p)' \subseteq Extent(p)
          BY <2>7, <2>8, <3>4
        <4>3. \A p \in Reqs : Active(p)' /\ ~failed'[p] =>
               ~failed[p] /\ \A x \in Remaining(p) : x \in Remaining(p)' \/ (p = R /\ x \in K)
          BY <1>4, <2>9, <3>4
        <4> HIDE DEF K
        <4> QED
          BY <1>4, <1>6, <2>3, <3>3, <4>1, <4>2, <4>3, DataKept
      <3> QED
        BY <1>3, <3>5 DEF DataInv
    <2>16. CASE ~Finish
      <3>1. allowed' = allowed
        BY <1>8, <2>16 DEF Callback, WriteInPlace, WaitForAllocation, WriteAllocating,
           AllocFails, SubmitFails, Done, history
      <3>2. CASE AllocFails
        <4>1. st'[R] = "done"
          BY <1>2, <2>1, <2>3, <3>2 DEF AllocFails, Done
        <4> DEFINE K == {}
        <4>2. /\ K # {} => Active(R) /\ K \subseteq Current(R)
              /\ \A x \in GuestSectors : GuestRead(x)' = IF x \in K THEN R ELSE GuestRead(x)
          BY <1>5
        <4>3. ~Active(R)'
          BY <4>1 DEF Active
        <4>4. \A p \in Reqs : Active(p)' => Active(p) /\ Extent(p)' \subseteq Extent(p)
          BY <2>7, <2>8, <4>3
        <4>5. \A p \in Reqs : Active(p)' /\ ~failed'[p] =>
               ~failed[p] /\ \A x \in Remaining(p) : x \in Remaining(p)' \/ (p = R /\ x \in K)
          BY <1>4, <2>9, <4>3
        <4> HIDE DEF K
        <4>6. Superseded' /\ Permitted' /\ Answered' /\ GuestData'
          BY <1>4, <1>6, <2>3, <3>1, <4>2, <4>4, <4>5, DataKept
        <4> QED
          BY <1>3, <4>6 DEF DataInv
      <3>3. CASE WriteInPlace \/ WriteAllocating \/ WaitForAllocation
        <4>1. PICK m : part' = Part(m) /\ (WaitForAllocation => m = 0)
          BY <3>3 DEF WriteInPlace, WriteAllocating, WaitForAllocation, SubmitData
        <4>2. part'[R] = [sector_num |-> s + n, nb_sectors |-> nb - n, n |-> m]
          BY <1>2, <2>1, <2>3, <2>14, <4>1 DEF Part
        <4>3. Extent(R)' = (s + n) .. ((s + n) + (nb - n) - 1)
          BY <4>2 DEF Extent
        <4>4. Remaining(R)' = (s + n) .. ((s + n) + (nb - n) - 1)
          <5>1. Hidden(R)' \/ m = 0
            <6>1. WaitForAllocation \/ st'[R] = "hd"
              BY <1>2, <2>1, <2>3, <3>3 DEF WriteInPlace, WriteAllocating, SubmitData
            <6> QED
              BY <4>1, <6>1 DEF Hidden
          <5>2. Remaining(R)' = ((s + n) + (IF Hidden(R)' THEN 0 ELSE m)) .. ((s + n) + (nb - n) - 1)
            BY <4>2 DEF Remaining
          <5>3. (s + n) + 0 = s + n
            BY <2>10, <2>11
          <5> QED
            BY <5>1, <5>2, <5>3
        <4>5. (s + n) + (nb - n) - 1 = s + nb - 1
          BY <2>10, <2>11, <2>12
        <4>6. Extent(R)' \subseteq Extent(R) /\ Remaining(R)' = Remaining(R)
          BY <2>10, <2>11, <2>12, <2>13, <4>3, <4>4, <4>5
        <4> DEFINE K == {}
        <4>7. /\ K # {} => Active(R) /\ K \subseteq Current(R)
              /\ \A x \in GuestSectors : GuestRead(x)' = IF x \in K THEN R ELSE GuestRead(x)
          BY <1>5
        <4>8. \A p \in Reqs : Active(p)' => Active(p) /\ Extent(p)' \subseteq Extent(p)
          BY <2>4, <2>7, <2>8, <4>6
        <4>9. \A p \in Reqs : Active(p)' /\ ~failed'[p] =>
               ~failed[p] /\ \A x \in Remaining(p) : x \in Remaining(p)' \/ (p = R /\ x \in K)
          BY <1>4, <2>9, <4>6
        <4> HIDE DEF K
        <4>10. Superseded' /\ Permitted' /\ Answered' /\ GuestData'
          BY <1>4, <1>6, <2>3, <3>1, <4>7, <4>8, <4>9, DataKept
        <4> QED
          BY <1>3, <4>10 DEF DataInv
      <3> QED
        BY <1>8, <2>16, <3>2, <3>3 DEF Callback, SubmitFails
    <2> QED
      BY <2>15, <2>16
  <1> QED
    BY <1>7, <1>8

LEMMA HdData ==
    ASSUME ~Cancels, QcowInv, RunInv, DependentsWait, TargetInv, DataInv, [Next]_vars,
           NEW r \in Reqs, HdWrite(r) \/ HdFail(r)
    PROVE  DataInv'
  <1>1. TypeOK /\ PartsFit /\ st \in [Reqs -> States]
    BY Types DEF QcowInv, RequestTypes
  <1>2. NewData'
    BY HdWriteNewData, HdFailNewData DEF DataInv
  <1>3. st[r] = "hd" /\ UNCHANGED <<l2, part, meta, failed, supersedes, allowed>>
    BY DEF HdWrite, HdFail, tableVars, history
  <1>4. PICK n \in Nat : n = part[r].n
    BY <1>1, PartFacts
  <1>5. PICK s \in Nat : s = part[r].sector_num
    BY <1>1, PartFacts
  <1>6. PICK k \in 0 .. n : /\ Written(r, k)
                            /\ \/ k = n /\ st' = [st EXCEPT ![r] = "written"]
                               \/ st' = [st EXCEPT ![r] = "broken"]
    <2>1. CASE HdWrite(r)
      BY <1>4, <2>1 DEF HdWrite
    <2>2. CASE HdFail(r)
      <3>1. PICK k \in 0 .. (part[r].n - 1) : Written(r, k)
        BY <2>2 DEF HdFail
      <3>2. k \in 0 .. n
        BY <1>4
      <3> QED
        BY <2>2, <3>1, <3>2 DEF HdFail
    <2> QED
      BY <2>1, <2>2
  <1> DEFINE K == IF meta[r].nb_clusters = 0 THEN s .. (s + k - 1) ELSE {}
  <1>7. \A x \in GuestSectors : GuestRead(x)' = IF x \in K THEN r ELSE GuestRead(x)
    BY <1>3, <1>4, <1>5, <1>6, WrittenReads
  <1>8. Active(r) /\ K \subseteq Current(r)
    BY <1>3, <1>4, <1>5, <1>6 DEF Active, Current
  <1>9. \A p \in Reqs : st[p] = "done" => st'[p] = "done"
    BY DoneForGood
  <1>10. \A p \in Reqs : p # r => st'[p] = st[p]
    BY <1>1, <1>6
  <1>11. \A p \in Reqs : Extent(p)' = Extent(p)
    BY <1>3 DEF Extent
  <1>12. \A p \in Reqs : Active(p)' => Active(p)
    BY <1>8, <1>10 DEF Active
  <1>13. \A p \in Reqs : p # r => Remaining(p)' = Remaining(p)
    BY <1>3, <1>10 DEF Remaining, Hidden, Allocating
  <1>14. \A x \in Remaining(r) : x \in Remaining(r)' \/ x \in K
    <2>1. PICK e \in Nat : e = part[r].nb_sectors
      BY <1>1, PartFacts
    <2>2. Remaining(r) = (s + 0) .. (s + e - 1)
      BY <1>3, <1>5, <2>1 DEF Remaining, Hidden
    <2>3. Remaining(r)' = (s + (IF Hidden(r)' THEN 0 ELSE n)) .. (s + e - 1)
      BY <1>3, <1>4, <1>5, <2>1 DEF Remaining
    <2>4. CASE Hidden(r)'
      BY <2>2, <2>3, <2>4
    <2>5. CASE ~Hidden(r)'
      <3>1. k = n /\ meta[r].nb_clusters = 0
        BY <1>1, <1>3, <1>6, <2>5 DEF Hidden, Allocating
      <3>2. K = s .. (s + n - 1)
        BY <3>1
      <3>3. Remaining(r)' = (s + n) .. (s + e - 1)
        BY <2>3, <2>5
      <3> HIDE DEF K
      <3> QED
        BY <1>4, <1>5, <2>1, <2>2, <3>2, <3>3
    <2> QED
      BY <2>4, <2>5
  <1>15. \A p \in Reqs : Active(p)' => Active(p) /\ Extent(p)' \subseteq Extent(p)
    BY <1>11, <1>12
  <1>16. \A p \in Reqs : Active(p)' /\ ~failed'[p] =>
               ~failed[p] /\ \A x \in Remaining(p) : x \in Remaining(p)' \/ (p = r /\ x \in K)
    BY <1>3, <1>13, <1>14
  <1> HIDE DEF K
  <1>17. Superseded' /\ Permitted' /\ Answered' /\ GuestData'
    BY <1>3, <1>7, <1>8, <1>9, <1>15, <1>16, DataKept
  <1> QED
    BY <1>2, <1>17 DEF DataInv

LEMMA WriteCbData ==
    ASSUME ~Cancels, QcowInv, RunInv, DependentsWait, TargetInv, DataInv, [Next]_vars,
           NEW r \in Reqs, WriteCb(r)
    PROVE  DataInv'
  <1>1. TypeOK /\ PartsFit /\ st \in [Reqs -> States]
    BY Types DEF QcowInv, RequestTypes
  <1>2. NewData'
    BY WriteCbNewData DEF DataInv
  <1>3. /\ st'[r] = "run" /\ UNCHANGED <<part, meta, supersedes, allowed>>
        /\ \A q \in Reqs : st'[q] # "run" => st'[q] = st[q]
    BY <1>1, WriteCbRequests DEF history
  <1>4. st[r] \in {"written", "broken"} /\ failed \in [Reqs -> BOOLEAN]
    BY <1>1 DEF WriteCb, TypeOK
  <1>5. \A p \in Reqs : st[p] = "done" => st'[p] = "done"
    BY DoneForGood
  <1>6. ASSUME NEW p \in Reqs, p # r
        PROVE  /\ st'[p] = st[p] \/ (st[p] = "wait" /\ st'[p] = "run")
    <2>1. st[p] # "wait" /\ st[p] # "done" => st'[p] = st[p]
      BY <1>6, WriteCbOthers
    <2>2. st[p] = "wait" => st'[p] \in {"wait", "run"}
      BY <1>6, WriteCbOthers
    <2> QED
      BY <1>5, <2>1, <2>2
  <1>7. \A p \in Reqs : Extent(p)' = Extent(p)
    BY <1>3 DEF Extent
  <1>8. Active(r)
    BY <1>4 DEF Active
  <1>9. \A p \in Reqs : Active(p)' => Active(p)
    BY <1>6, <1>8 DEF Active
  <1>10. ASSUME NEW p \in Reqs, p # r
         PROVE  Remaining(p)' = Remaining(p)
    <2>1. Hidden(p)' <=> Hidden(p)
      BY <1>3, <1>6, <1>10 DEF Hidden, Allocating
    <2> QED
      BY <1>3, <2>1 DEF Remaining
  <1>11. \A p \in Reqs : p # r => (failed'[p] <=> failed[p])
    BY <1>4 DEF WriteCb
  <1>12. \A p \in Reqs : Active(p)' => Active(p) /\ Extent(p)' \subseteq Extent(p)
    BY <1>7, <1>9
  <1>13. PICK K : /\ K \subseteq Current(r)
                  /\ \A x \in GuestSectors : GuestRead(x)' = IF x \in K THEN r ELSE GuestRead(x)
                  /\ \/ failed'[r]
                     \/ ~Hidden(r) /\ UNCHANGED failed
                     \/ K = Current(r) /\ UNCHANGED failed
    <2>1. ASSUME UNCHANGED <<disk, tableVars>>
          PROVE  \A x \in GuestSectors : GuestRead(x)' = IF x \in {} THEN r ELSE GuestRead(x)
      <3>1. UNCHANGED <<disk, l2>>
        BY <2>1 DEF tableVars
      <3> QED
        BY <3>1, SameReads
    <2>2. ASSUME Allocating(r), st[r] = "written", SetL2Entries(meta[r])
          PROVE  \A x \in GuestSectors : GuestRead(x)' = IF x \in Current(r) THEN r ELSE GuestRead(x)
      BY <2>2, LinkReads DEF DataInv
    <2>3. ASSUME failed' = [failed EXCEPT ![r] = TRUE]
          PROVE  failed'[r]
      BY <1>4, <2>3
    <2>4. CASE UNCHANGED <<disk, tableVars>> /\ failed'[r]
      <3>1. PICK E : E = {}
        OBVIOUS
      <3>2. /\ E \subseteq Current(r)
            /\ \A x \in GuestSectors : GuestRead(x)' = IF x \in E THEN r ELSE GuestRead(x)
        BY <2>1, <2>4, <3>1
      <3> QED
        BY <2>4, <3>2
    <2>5. CASE UNCHANGED <<disk, tableVars>> /\ ~Hidden(r) /\ UNCHANGED failed
      <3>1. PICK E : E = {}
        OBVIOUS
      <3>2. /\ E \subseteq Current(r)
            /\ \A x \in GuestSectors : GuestRead(x)' = IF x \in E THEN r ELSE GuestRead(x)
        BY <2>1, <2>5, <3>1
      <3> QED
        BY <2>5, <3>2
    <2>6. CASE Allocating(r) /\ st[r] = "written" /\ SetL2Entries(meta[r])
                 /\ (UNCHANGED failed \/ failed'[r])
      BY <2>2, <2>6
    <2>7. \/ UNCHANGED <<disk, tableVars>> /\ failed' = [failed EXCEPT ![r] = TRUE]
          \/ UNCHANGED <<disk, tableVars>> /\ st[r] = "written" /\ meta[r].nb_clusters = 0
                /\ UNCHANGED failed
          \/ Allocating(r) /\ st[r] = "written" /\ SetL2Entries(meta[r])
                 /\ (UNCHANGED failed \/ failed' = [failed EXCEPT ![r] = TRUE])
      BY DEF WriteCb, Link, LinkFails, Allocating
    <2>8. st[r] = "written" /\ meta[r].nb_clusters = 0 => ~Hidden(r)
      BY DEF Hidden, Allocating
    <2> QED
      BY <2>3, <2>4, <2>5, <2>6, <2>7, <2>8
  <1>14. ASSUME ~failed'[r]
         PROVE  ~failed[r] /\ \A x \in Remaining(r) : x \in Remaining(r)' \/ x \in K
    <2>1. UNCHANGED failed /\ (~Hidden(r) \/ K = Current(r))
      BY <1>13, <1>14
    <2>2. ~Hidden(r)'
      BY <1>3 DEF Hidden, Allocating
    <2>3. CASE ~Hidden(r)
      <3>1. Remaining(r)' = Remaining(r)
        BY <1>3, <2>2, <2>3 DEF Remaining
      <3> QED
        BY <1>14, <2>1, <3>1
    <2>4. CASE Hidden(r) /\ K = Current(r)
      <3>1. PICK s \in Nat : s = part[r].sector_num
        BY <1>1, PartFacts
      <3>2. PICK n \in Nat : n = part[r].n
        BY <1>1, PartFacts
      <3>3. PICK e \in Nat : e = part[r].nb_sectors
        BY <1>1, PartFacts
      <3>4. Remaining(r) = (s + 0) .. (s + e - 1) /\ Remaining(r)' = (s + n) .. (s + e - 1)
        BY <1>3, <2>2, <2>4, <3>1, <3>2, <3>3 DEF Remaining
      <3>5. K = s .. (s + n - 1)
        BY <2>4, <3>1, <3>2 DEF Current
      <3>6. \A x \in (s + 0) .. (s + e - 1) : x \in (s + n) .. (s + e - 1) \/ x \in s .. (s + n - 1)
        BY <3>1, <3>2, <3>3
      <3> QED
        BY <1>14, <2>1, <3>4, <3>5, <3>6
    <2> QED
      BY <2>1, <2>3, <2>4
  <1>15. \A p \in Reqs : Active(p)' /\ ~failed'[p] =>
               ~failed[p] /\ \A x \in Remaining(p) : x \in Remaining(p)' \/ (p = r /\ x \in K)
    BY <1>10, <1>11, <1>14
  <1>16. Superseded' /\ Permitted' /\ Answered' /\ GuestData'
    BY <1>3, <1>5, <1>8, <1>12, <1>13, <1>15, DataKept
  <1> QED
    BY <1>2, <1>16 DEF DataInv

LEMMA AioWritevData ==
    ASSUME QcowInv, QcowInv', RunInv, TargetInv, DataInv,
           NEW r \in Reqs, NEW s \in GuestSectors, NEW k \in 1 .. MaxSectors, AioWritev(r, s, k)
    PROVE  DataInv'
  <1>1. Superseded /\ Permitted /\ Answered /\ GuestData /\ TypeOK /\ PartsFit
    BY DEF DataInv, QcowInv
  <1>2. NewData'
    BY QuietNewData DEF DataInv
  <1>3. /\ st[r] = "new" /\ st' = [st EXCEPT ![r] = "run"]
        /\ part' = [part EXCEPT ![r] = [sector_num |-> s, nb_sectors |-> k, n |-> 0]]
        /\ UNCHANGED <<l2, disk, meta, failed>>
    BY DEF AioWritev, tableVars
  <1>4. /\ st \in [Reqs -> States] /\ part \in [Reqs -> Parts]
        /\ supersedes \in [Reqs -> [GuestSectors -> SUBSET Contents]]
        /\ allowed \in [GuestSectors -> SUBSET Contents]
    BY <1>1, Types DEF RequestTypes, ContentTypes
  <1>5. supersedes' = [supersedes EXCEPT ![r] = [x \in GuestSectors |->
                        IF x \in s..(s + k - 1) THEN Settled(x) ELSE {}]]
    BY DEF AioWritev
  <1>6. allowed' = [x \in GuestSectors |->
                     IF x \in s..(s + k - 1) THEN allowed[x] \cup {r}
                     ELSE allowed[x]]
    BY DEF AioWritev
  <1>7. /\ \A p \in Reqs : p # r => st'[p] = st[p] /\ part'[p] = part[p] /\ supersedes'[p] = supersedes[p]
        /\ st'[r] = "run" /\ part'[r] = [sector_num |-> s, nb_sectors |-> k, n |-> 0]
        /\ \A x \in GuestSectors : supersedes'[r][x] = IF x \in s..(s + k - 1) THEN Settled(x) ELSE {}
        /\ \A x \in GuestSectors : allowed[x] \subseteq allowed'[x]
    BY <1>3, <1>4, <1>5, <1>6
  <1>8. \A x \in GuestSectors : GuestRead(x)' = GuestRead(x)
    BY <1>3, SameReads
  <1>9. ASSUME NEW p \in Reqs, p # r
        PROVE  /\ Active(p)' <=> Active(p)
               /\ Extent(p)' = Extent(p) /\ Remaining(p)' = Remaining(p)
    BY <1>3, <1>7, <1>9, SameRequest
  <1>10. Superseded'
    <2>1. SUFFICES ASSUME NEW p \in Reqs, NEW q \in Reqs, NEW x \in GuestSectors,
                          q \in supersedes'[p][x]
                   PROVE  st'[q] = "done"
      BY DEF Superseded, GuestSectors
    <2>2. st[q] = "done"
      <3>1. CASE p = r
        <4>1. q \in Settled(x)
          BY <1>7, <2>1, <3>1
        <4> QED
          BY <4>1 DEF Settled
      <3>2. CASE p # r
        BY <1>1, <1>7, <2>1, <3>2 DEF Superseded
      <3> QED
        BY <3>1, <3>2
    <2> QED
      BY <1>3, <1>7, <2>2
  <1>11. s \in Nat /\ k \in Nat /\ s + k <= G * CS /\ G * CS \in Nat
    BY MaxSectorsAssumption, Constants DEF GuestSectors, AioWritev
  <1>12. Extent(r)' = s .. (s + k - 1)
    BY <1>7 DEF Extent
  <1>13. Remaining(r)' = (s + 0) .. (s + k - 1)
    <2>1. ~Hidden(r)'
      BY <1>7 DEF Hidden, Allocating
    <2> QED
      BY <1>7, <2>1 DEF Remaining
  <1>14. Permitted'
    <2>1. ASSUME NEW p \in Reqs, Active(p)', NEW x \in Extent(p)'
          PROVE  p \in allowed'[x]
      <3>1. CASE p = r
        <4>1. x \in s .. (s + k - 1) /\ x \in GuestSectors
          BY <1>11, <1>12, <2>1, <3>1 DEF GuestSectors
        <4> QED
          BY <1>6, <3>1, <4>1
      <3>2. CASE p # r
        <4>1. Active(p) /\ x \in Extent(p) /\ x \in GuestSectors
          BY <1>1, <1>9, <2>1, <3>2, PartFacts
        <4> QED
          BY <1>1, <1>7, <4>1 DEF Permitted
      <3> QED
        BY <3>1, <3>2
    <2> QED
      BY <2>1 DEF Permitted
  <1>15. Answered'
    <2>1. ASSUME NEW p \in Reqs, Active(p)', ~failed'[p],
                 NEW x \in GuestSectors, x \notin Remaining(p)'
          PROVE  GuestRead(x)' \notin supersedes'[p][x]
      <3>1. CASE p = r
        <4>1. x \notin s .. (s + k - 1)
          BY <1>11, <1>13, <2>1, <3>1
        <4> QED
          BY <1>7, <3>1, <4>1
      <3>2. CASE p # r
        BY <1>1, <1>3, <1>7, <1>8, <1>9, <2>1, <3>2 DEF Answered
      <3> QED
        BY <3>1, <3>2
    <2> QED
      BY <2>1 DEF Answered, GuestSectors
  <1>16. GuestData'
    <2>1. \A x \in GuestSectors : GuestRead(x)' \in allowed'[x]
      BY <1>1, <1>7, <1>8 DEF GuestData
    <2> QED
      BY <2>1 DEF GuestData, GuestSectors
  <1> QED
    BY <1>2, <1>10, <1>14, <1>15, <1>16 DEF DataInv

LEMMA DataStep ==
    ASSUME ~Cancels, "hd_submit" \notin Faults
    PROVE  QcowInv /\ QcowInv' /\ RunInv /\ RunInv' /\ TargetInv /\ DependentsWait /\ DataInv
              /\ [Next]_vars => DependentsWait' /\ DataInv'
  <1>1. SUFFICES ASSUME QcowInv, QcowInv', RunInv, RunInv', TargetInv, DependentsWait, DataInv,
                        [Next]_vars
                 PROVE  DataInv'
    BY DependentsWaitStep
  <1>2. CASE UNCHANGED vars
    <2>1. UNCHANGED <<l2, disk, st, part, meta, failed, supersedes, allowed>>
      BY <1>2 DEF vars, tableVars, reqVars, history
    <2>2. \A x \in GuestSectors : GuestRead(x)' = GuestRead(x)
      BY <2>1, SameReads
    <2>3. NewData'
      BY <1>1, <2>1 DEF DataInv, NewData, Allocating, Offsets
    <2>4. Superseded' /\ Permitted' /\ Answered' /\ GuestData'
      BY <1>1, <2>1, <2>2 DEF DataInv, Superseded, Permitted, Answered, GuestData, Active, Extent,
           Remaining, Hidden, Allocating, GuestSectors
    <2> QED
      BY <2>3, <2>4 DEF DataInv
  <1>3. CASE Next
    BY <1>1, <1>3, CallbackData, HdData, WriteCbData, AioWritevData DEF Next, AioCancel
  <1> QED
    BY <1>1, <1>2, <1>3

LEMMA DataInit == Init => DependentsWait /\ DataInv
  <1>1. SUFFICES ASSUME Init
                 PROVE  DependentsWait /\ DataInv
    OBVIOUS
  <1>2. \A r \in Reqs : st[r] = "new"
    BY <1>1, InitTypes
  <1>3. DependentsWait
    <2>1. \A q \in Reqs : dependents[q] = <<>>
      BY <1>1 DEF Init
    <2>2. ToSet(<<>>) = {}
      BY DEF ToSet
    <2> QED
      BY <2>1, <2>2 DEF DependentsWait
  <1>4. \A r \in Reqs : ~Active(r) /\ ~Allocating(r)
    BY <1>2 DEF Active, Allocating
  <1>5. Superseded
    BY <1>1 DEF Init, Superseded
  <1>6. Permitted /\ Answered /\ NewData
    BY <1>4 DEF Permitted, Answered, NewData
  <1>7. GuestData
    <2>1. SUFFICES ASSUME NEW x \in GuestSectors
                   PROVE  GuestRead(x) = x
      BY <1>1 DEF GuestData, Init
    <2>2. PICK g \in Guest : g = x \div CS
      BY GuestOfSector
    <2>3. PICK o \in Offsets : o = x % CS
      BY GuestOfSector
    <2>4. x = CS * g + o /\ g \in Nat /\ o \in Nat
      <3>1. x \in Nat /\ x = CS * (x \div CS) + (x % CS)
        BY GuestOfSector, DivBounds
      <3>2. g \in Nat /\ o \in Nat
        BY Constants DEF Guest, Offsets
      <3> QED
        BY <2>2, <2>3, <3>1, <3>2
    <2>5. l2[g].host \in {0, g + 1}
      <3>1. PICK shared \in SUBSET Guest : \E owned \in SUBSET (Guest \ shared) :
              l2 = [y \in Guest |-> IF y \in shared \cup owned
                                    THEN [host |-> y + 1, copied |-> y \in owned]
                                    ELSE Unallocated]
        BY <1>1 DEF Init
      <3>2. l2[g].host = g + 1 \/ l2[g] = Unallocated
        BY <3>1
      <3> QED
        BY <3>2 DEF Unallocated
    <2>6. disk[g + 1][o] = x
      <3>1. g + 1 \in Host /\ g + 1 <= G /\ (g + 1) - 1 = g
        BY <2>4, Constants DEF Guest, Host
      <3>2. disk[g + 1][o] = ((g + 1) - 1) * CS + o
        BY <1>1, <3>1 DEF Init
      <3> QED
        BY <2>4, <3>1, <3>2, Constants
    <2> QED
      BY <2>2, <2>3, <2>5, <2>6 DEF GuestRead
  <1> QED
    BY <1>3, <1>5, <1>6, <1>7 DEF DataInv

\* The guest reads what it wrote: no sector ever shows contents older than a
\* write that was reported as successful, whatever was copied (copy_sectors),
\* linked and restarted in between, for any number of requests and any sizes,
\* and although data writes, links and allocations may fail.
THEOREM DataCorrect ==
    ASSUME ~Cancels, "hd_submit" \notin Faults
    PROVE  Spec => []GuestData
  <1>1. Init => DependentsWait /\ DataInv
    BY DataInit
  <1>2. QcowInv /\ QcowInv' /\ RunInv /\ RunInv' /\ TargetInv /\ DependentsWait /\ DataInv
              /\ [Next]_vars => DependentsWait' /\ DataInv'
    BY DataStep
  <1>3. DataInv => GuestData
    BY DEF DataInv
  <1> QED
    BY <1>1, <1>2, <1>3, InvCorrect, RunCorrect, TargetCorrect, PTL DEF Spec
=============================================================================
