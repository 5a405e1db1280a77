--------------------------- MODULE PosixAioProofs ---------------------------
(***************************************************************************)
(* Proofs about PosixAio, for any number of request blocks, threads,       *)
(* contexts and operations: thread accounting, type correctness, that no   *)
(* wakeup of a worker is lost, and who owns a request block: the free      *)
(* list, first_aio, or a running callback; request_list while no worker    *)
(* has taken it; one worker during its I/O.                                *)
(***************************************************************************)
EXTENDS PosixAio, FiniteSetTheorems, SequenceTheorems, TLAPS

-----------------------------------------------------------------------------
(* Thread accounting.                                                      *)

PcStates == {"dead", "start", "wait", "woken", "timedout", "io", "kill"}

\* ThreadAccounting is inductive once the types of its variables are known.
AccountingInv ==
    /\ pc \in [Threads -> PcStates]
    /\ cur_threads \in Nat
    /\ idle_threads \in Nat
    /\ ThreadAccounting

\* One thread joins or leaves a set of threads.
LEMMA OneMore ==
    ASSUME NEW S \in SUBSET Threads, NEW t \in Threads \ S
    PROVE  Cardinality(S \cup {t}) = Cardinality(S) + 1
  BY ThreadsAssumption, FS_Subset, FS_AddElement

LEMMA OneLess ==
    ASSUME NEW S \in SUBSET Threads, NEW t \in S
    PROVE  /\ Cardinality(S \ {t}) = Cardinality(S) - 1
           /\ Cardinality(S) \in Nat \ {0}
  <1>1. IsFiniteSet(S)
    BY ThreadsAssumption, FS_Subset
  <1>2. Cardinality(S \ {t}) = Cardinality(S) - 1
    BY <1>1, FS_RemoveElement
  <1>3. Cardinality(S) \in Nat /\ Cardinality(S \ {t}) \in Nat
    BY <1>1, FS_CardinalityType, FS_Subset
  <1> QED
    BY <1>2, <1>3

\* How the two sets move when one thread changes its state.
LEMMA PcMove ==
    ASSUME pc \in [Threads -> PcStates], NEW t \in Threads, NEW s \in PcStates,
           pc' = [pc EXCEPT ![t] = s]
    PROVE  /\ pc' \in [Threads -> PcStates]
           /\ Live' = IF s = "dead" THEN Live \ {t} ELSE Live \cup {t}
           /\ Idle' = IF s \in {"dead", "io"} THEN Idle \ {t} ELSE Idle \cup {t}
  <1>1. \A u \in Threads : pc'[u] = IF u = t THEN s ELSE pc[u]
    OBVIOUS
  <1>2. pc' \in [Threads -> PcStates]
    OBVIOUS
  <1>3. Live' = IF s = "dead" THEN Live \ {t} ELSE Live \cup {t}
    BY <1>1 DEF Live
  <1>4. Idle' = IF s \in {"dead", "io"} THEN Idle \ {t} ELSE Idle \cup {t}
    BY <1>1 DEF Idle
  <1> QED
    BY <1>2, <1>3, <1>4

LEMMA AccountingSpawn ==
    ASSUME AccountingInv, SpawnThread, cur_threads < MaxThreads
    PROVE  AccountingInv'
  <1>1. PICK t \in Threads : /\ pc[t] = "dead"
                             /\ pc' = [pc EXCEPT ![t] = "start"]
    BY DEF SpawnThread
  <1>2. pc \in [Threads -> PcStates] /\ "start" \in PcStates
    BY DEF AccountingInv, PcStates
  <1>3. /\ pc' \in [Threads -> PcStates]
        /\ Live' = Live \cup {t}
        /\ Idle' = Idle \cup {t}
    BY <1>1, <1>2, PcMove
  <1>4. Live \in SUBSET Threads /\ t \in Threads \ Live
    BY <1>1 DEF Live
  <1>5. Idle \in SUBSET Threads /\ t \in Threads \ Idle
    BY <1>1 DEF Idle
  <1>6. /\ Cardinality(Live') = Cardinality(Live) + 1
        /\ Cardinality(Idle') = Cardinality(Idle) + 1
    BY <1>3, <1>4, <1>5, OneMore
  <1>7. cur_threads' = cur_threads + 1 /\ idle_threads' = idle_threads + 1
    BY DEF SpawnThread
  <1> QED
    BY <1>3, <1>6, <1>7, MaxThreadsAssumption DEF AccountingInv, ThreadAccounting

\* A thread that neither starts, ends nor enters or leaves its I/O.
LEMMA AccountingQuiet ==
    ASSUME AccountingInv, NEW t \in Threads, NEW s \in PcStates,
           pc[t] \notin {"dead", "io"}, s \notin {"dead", "io"},
           pc' = [pc EXCEPT ![t] = s],
           UNCHANGED <<cur_threads, idle_threads>>
    PROVE  AccountingInv'
  <1>1. pc \in [Threads -> PcStates]
    BY DEF AccountingInv
  <1>2. /\ pc' \in [Threads -> PcStates]
        /\ Live' = Live \cup {t}
        /\ Idle' = Idle \cup {t}
    BY <1>1, PcMove
  <1>3. Live' = Live /\ Idle' = Idle
    BY <1>2 DEF Live, Idle
  <1> QED
    BY <1>2, <1>3 DEF AccountingInv, ThreadAccounting

LEMMA AccountingUnchanged ==
    ASSUME AccountingInv, UNCHANGED <<pc, cur_threads, idle_threads>>
    PROVE  AccountingInv'
  <1>1. Live' = Live /\ Idle' = Idle
    BY DEF Live, Idle
  <1> QED
    BY <1>1 DEF AccountingInv, ThreadAccounting

LEMMA AccountingSubmit ==
    ASSUME AccountingInv, NEW a, QemuPaioSubmit(a)
    PROVE  AccountingInv'
  <1>1. CASE idle_threads = 0 /\ cur_threads < MaxThreads
    BY <1>1, AccountingSpawn DEF QemuPaioSubmit
  <1>2. CASE ~(idle_threads = 0 /\ cur_threads < MaxThreads)
    BY <1>2, AccountingUnchanged DEF QemuPaioSubmit
  <1> QED
    BY <1>1, <1>2

LEMMA AccountingWorker ==
    ASSUME AccountingInv, NEW t \in Threads,
           Worker(t) \/ AioThreadWakes(t)
    PROVE  AccountingInv'
  <1>0. /\ pc \in [Threads -> PcStates]
        /\ PcStates = {"dead", "start", "wait", "woken", "timedout", "io", "kill"}
        /\ cur_threads \in Nat /\ idle_threads \in Nat
        /\ Live \in SUBSET Threads /\ Idle \in SUBSET Threads
        /\ cur_threads = Cardinality(Live) /\ idle_threads = Cardinality(Idle)
        /\ cur_threads <= MaxThreads
    BY DEF AccountingInv, ThreadAccounting, PcStates, Live, Idle
  <1>1. CASE AioThreadWait(t)
    BY <1>0, <1>1, AccountingQuiet DEF AioThreadWait
  <1>2. CASE AioThreadWakes(t)
    <2>1. PICK s \in {"timedout", "woken"} : pc' = [pc EXCEPT ![t] = s]
      BY <1>2 DEF AioThreadWakes
    <2> QED
      BY <1>0, <1>2, <2>1, AccountingQuiet DEF AioThreadWakes
  <1>3. CASE AioThreadTake(t)
    <2>1. pc[t] \in {"start", "woken", "timedout"} /\ pc' = [pc EXCEPT ![t] = "io"]
      BY <1>3 DEF AioThreadTake
    <2>2. /\ pc' \in [Threads -> PcStates]
          /\ Live' = Live \cup {t} /\ Idle' = Idle \ {t}
      BY <1>0, <2>1, PcMove
    <2>3. t \in Live /\ t \in Idle
      BY <2>1 DEF Live, Idle
    <2>4. Live' = Live
      BY <2>2, <2>3
    <2>5. Cardinality(Idle') = idle_threads - 1 /\ idle_threads # 0
      BY <1>0, <2>2, <2>3, OneLess
    <2>6. cur_threads' = cur_threads /\ idle_threads' = idle_threads - 1
      BY <1>3 DEF AioThreadTake
    <2>7. idle_threads' \in Nat
      BY <1>0, <2>5, <2>6
    <2> QED
      BY <1>0, <2>2, <2>4, <2>5, <2>6, <2>7 DEF AccountingInv, ThreadAccounting
  <1>4. CASE AioThreadExit(t)
    <2>1. pc[t] = "timedout" /\ pc' = [pc EXCEPT ![t] = "dead"]
      BY <1>4 DEF AioThreadExit
    <2>2. /\ pc' \in [Threads -> PcStates]
          /\ Live' = Live \ {t} /\ Idle' = Idle \ {t}
      BY <1>0, <2>1, PcMove
    <2>3. t \in Live /\ t \in Idle
      BY <2>1 DEF Live, Idle
    <2>4. /\ Cardinality(Live') = cur_threads - 1 /\ cur_threads # 0
          /\ Cardinality(Idle') = idle_threads - 1 /\ idle_threads # 0
      BY <1>0, <2>2, <2>3, OneLess
    <2>5. cur_threads' = cur_threads - 1 /\ idle_threads' = idle_threads - 1
      BY <1>4 DEF AioThreadExit, IdleAfterExit
    <2> QED
      BY <1>0, <2>2, <2>4, <2>5, MaxThreadsAssumption
      DEF AccountingInv, ThreadAccounting
  <1>5. CASE AioThreadFinish(t)
    <2>1. pc[t] = "io" /\ pc' = [pc EXCEPT ![t] = "kill"]
      BY <1>5 DEF AioThreadFinish
    <2>2. /\ pc' \in [Threads -> PcStates]
          /\ Live' = Live \cup {t} /\ Idle' = Idle \cup {t}
      BY <1>0, <2>1, PcMove
    <2>3. t \in Live /\ t \in Threads \ Idle
      BY <2>1 DEF Live, Idle
    <2>4. Live' = Live
      BY <2>2, <2>3
    <2>5. Cardinality(Idle') = idle_threads + 1
      BY <1>0, <2>2, <2>3, OneMore
    <2>6. cur_threads' = cur_threads /\ idle_threads' = idle_threads + 1
      BY <1>5 DEF AioThreadFinish
    <2> QED
      BY <1>0, <2>2, <2>4, <2>5, <2>6 DEF AccountingInv, ThreadAccounting
  <1>6. CASE AioThreadKill(t)
    BY <1>0, <1>6, AccountingQuiet DEF AioThreadKill
  <1> QED
    BY <1>1, <1>2, <1>3, <1>4, <1>5, <1>6 DEF Worker

LEMMA AccountingMain ==
    ASSUME AccountingInv, MainThread \/ AioSignalHandler
    PROVE  AccountingInv'
  <1>1. CASE CondSignal
    <2>1. CASE \E t \in Threads : pc[t] = "wait"
      <3>1. PICK t \in Threads : /\ pc[t] = "wait"
                                 /\ pc' = [pc EXCEPT ![t] = "woken"]
        BY <1>1, <2>1 DEF CondSignal
      <3> QED
        BY <1>1, <3>1, AccountingQuiet DEF CondSignal, PcStates
    <2>2. CASE ~\E t \in Threads : pc[t] = "wait"
      BY <1>1, <2>2, AccountingUnchanged DEF CondSignal
    <2> QED
      BY <2>1, <2>2
  <1>2. CASE ~CondSignal
    <2>1. UNCHANGED <<pc, cur_threads, idle_threads>>
      BY <1>2 DEF MainThread, AioSignalHandler, CancelWaited, WalkSkip,
         WalkDrop, WalkDeliver, WalkEnd, CbReturn, MainLoop, AioWaitPoll,
         AioWaitSelect, EmAgain, EmReturn, FlushAsk, FlushLoop, RunBh,
         PosixAioRead, threadVars
    <2> QED
      BY <2>1, AccountingUnchanged
  <1> QED
    BY <1>1, <1>2

LEMMA AccountingUser ==
    ASSUME AccountingInv, User
    PROVE  AccountingInv'
  <1>1. CASE RwEmFails \/ AioFlush
    BY <1>1, AccountingUnchanged DEF RwEmFails, AioFlush, threadVars
  <1>2. CASE \E a \in Acbs : Submit(a)
    BY <1>2, AccountingSubmit
    DEF Submit, AioRw, AioIoctl, RwEm, PaioSubmit, PaioIoctl, PaioStart
  <1>3. CASE \E a \in Acbs : Cancel(a)
    BY <1>3, AccountingUnchanged
    DEF Cancel, CancelQueued, CancelFinished, CancelActive, threadVars
  <1> QED
    BY <1>1, <1>2, <1>3 DEF User

LEMMA AccountingNext ==
    ASSUME AccountingInv, [Next]_vars
    PROVE  AccountingInv'
  <1>1. CASE UNCHANGED vars
    BY <1>1, AccountingUnchanged DEF vars, threadVars
  <1>2. CASE User
    BY <1>2, AccountingUser
  <1>3. CASE MainThread \/ AioSignalHandler
    BY <1>3, AccountingMain
  <1>4. CASE \E t \in Threads : Worker(t) \/ AioThreadWakes(t)
    BY <1>4, AccountingWorker
  <1> QED
    BY <1>1, <1>2, <1>3, <1>4 DEF Next

LEMMA AccountingInit ==
    ASSUME Init
    PROVE  AccountingInv
  <1>1. Live = {} /\ Idle = {}
    BY DEF Init, Live, Idle
  <1> QED
    BY <1>1, FS_EmptySet, MaxThreadsAssumption
    DEF Init, AccountingInv, ThreadAccounting, PcStates

(* The thread counters kept under the mutex agree with the live and idle    *)
(* threads of the pool in every reachable state, and the pool never exceeds *)
(* max_threads (qemu_paio_submit, spawn_thread, aio_thread).                *)
THEOREM AccountingCorrect == Spec => []ThreadAccounting
  <1>1. Init => AccountingInv
    BY AccountingInit
  <1>2. AccountingInv /\ [Next]_vars => AccountingInv'
    BY AccountingNext
  <1>3. AccountingInv => ThreadAccounting
    BY DEF AccountingInv
  <1> QED
    BY <1>1, <1>2, <1>3, PTL DEF Spec

-----------------------------------------------------------------------------
(***************************************************************************)
(* Type correctness.  The main thread pops its stack without looking       *)
(* whether anything is left on it: that it never pops the main loop is     *)
(* part of the invariant.                                                  *)
(***************************************************************************)


\* A walk stands at a position of the list; a callback and a cancellation
\* have an aiocb.
GoodFrames ==
    {f \in Frames : /\ f.k = "walk" => f.i > 0
                    /\ f.k \in {"cb", "cancel"} => f.a \in Acbs}

\* The main loop is at the bottom of the stack.
Stacks == {s \in Seq(GoodFrames) : Len(s) > 0 /\ s[Len(s)].k = "loop"}

-----------------------------------------------------------------------------
(* What the operations on the stack preserve.                              *)

LEMMA IsStack ==
    ASSUME NEW s \in Seq(GoodFrames), NEW n, Len(s) = n, n > 0,
           s[n].k = "loop"
    PROVE  s \in Stacks
  BY DEF Stacks

LEMMA StackTop ==
    ASSUME NEW s \in Stacks
    PROVE  /\ s \in Seq(GoodFrames) /\ s # <<>>
           /\ Head(s) \in GoodFrames /\ Head(s) = s[1]
  BY HeadTailProperties DEF Stacks

LEMMA StackPush ==
    ASSUME NEW s \in Stacks, NEW f \in GoodFrames
    PROVE  <<f>> \o s \in Stacks
  <1>1. s \in Seq(GoodFrames) /\ <<f>> \in Seq(GoodFrames) /\ Len(<<f>>) = 1
    BY DEF Stacks
  <1>2. /\ <<f>> \o s \in Seq(GoodFrames)
        /\ Len(<<f>> \o s) = Len(s) + 1
        /\ \A i \in 1..(Len(s) + 1) :
              (<<f>> \o s)[i] = IF i <= 1 THEN <<f>>[i] ELSE s[i - 1]
    BY <1>1, ConcatProperties
  <1>3. Len(s) \in Nat \ {0} /\ s[Len(s)].k = "loop"
    BY <1>1, LenProperties DEF Stacks
  <1>4. (<<f>> \o s)[Len(s) + 1] = s[Len(s)]
    BY <1>2, <1>3
  <1> DEFINE q == <<f>> \o s
  <1>5. /\ q \in Seq(GoodFrames) /\ Len(q) > 0
        /\ q[Len(q)].k = "loop"
    BY <1>2, <1>3, <1>4
  <1> HIDE DEF q
  <1>6. q \in Stacks
    BY <1>5 DEF Stacks
  <1> QED
    BY <1>6 DEF q

LEMMA StackPop ==
    ASSUME NEW s \in Stacks, Head(s).k # "loop"
    PROVE  Tail(s) \in Stacks /\ Head(Tail(s)) = s[2]
  <1>1. s \in Seq(GoodFrames) /\ s # <<>> /\ Head(s) = s[1]
    BY StackTop
  <1>2. /\ Tail(s) \in Seq(GoodFrames)
        /\ Len(Tail(s)) = Len(s) - 1
        /\ \A i \in 1..Len(Tail(s)) : Tail(s)[i] = s[i + 1]
    BY <1>1, HeadTailProperties
  <1>3. Len(s) \in Nat /\ Len(s) > 1 /\ s[Len(s)].k = "loop"
    BY <1>1, LenProperties DEF Stacks
  <1>4. Tail(s)[Len(s) - 1] = s[Len(s)] /\ Tail(s)[1] = s[2]
    BY <1>2, <1>3
  <1> DEFINE q == Tail(s)
  <1>5. /\ q \in Seq(GoodFrames) /\ Len(q) > 0
        /\ q[Len(q)].k = "loop"
    BY <1>2, <1>3, <1>4
  <1> HIDE DEF q
  <1>6. q \in Stacks
    BY <1>5 DEF Stacks
  <1> QED
    BY <1>4, <1>6, StackTop DEF q

\* The top frame is exchanged for one of the same kind.
LEMMA StackReplace ==
    ASSUME NEW s \in Stacks, NEW f \in GoodFrames, f.k = Head(s).k
    PROVE  <<f>> \o Tail(s) \in Stacks
  <1>1. CASE f.k # "loop"
    BY <1>1, StackPop, StackPush
  <1>2. CASE f.k = "loop"
    <2>1. s \in Seq(GoodFrames) /\ s # <<>>
      BY StackTop
    <2>2. /\ Tail(s) \in Seq(GoodFrames)
          /\ Len(Tail(s)) = Len(s) - 1
          /\ \A i \in 1..Len(Tail(s)) : Tail(s)[i] = s[i + 1]
      BY <2>1, HeadTailProperties
    <2>3. Len(s) \in Nat /\ Len(s) > 0 /\ s[Len(s)].k = "loop"
      BY <2>1, LenProperties DEF Stacks
    <2>4. <<f>> \in Seq(GoodFrames) /\ Len(<<f>>) = 1
      OBVIOUS
    <2>5. /\ <<f>> \o Tail(s) \in Seq(GoodFrames)
          /\ Len(<<f>> \o Tail(s)) = Len(s)
          /\ \A i \in 1..Len(s) : (<<f>> \o Tail(s))[i]
                = IF i <= 1 THEN <<f>>[i] ELSE Tail(s)[i - 1]
      BY <2>2, <2>3, <2>4, ConcatProperties
    <2>6. (<<f>> \o Tail(s))[Len(s)].k = "loop"
      <3>1. CASE Len(s) = 1
        BY <1>2, <2>5, <3>1
      <3>2. CASE Len(s) > 1
        <4>1. /\ (<<f>> \o Tail(s))[Len(s)] = Tail(s)[Len(s) - 1]
              /\ Len(s) - 1 \in 1..Len(Tail(s))
          BY <2>2, <2>3, <2>5, <3>2
        <4> QED
          BY <2>2, <2>3, <4>1
      <3> QED
        BY <2>3, <3>1, <3>2
    <2> QED
      BY <2>3, <2>5, <2>6, IsStack
  <1> QED
    BY <1>1, <1>2

\* Two frames in one go.
LEMMA StackTwo ==
    ASSUME NEW s \in Seq(GoodFrames), NEW f \in GoodFrames,
           NEW g \in GoodFrames
    PROVE  <<f, g>> \o s = <<f>> \o (<<g>> \o s)
  <1>1. <<f>> \in Seq(GoodFrames) /\ <<g>> \in Seq(GoodFrames)
    OBVIOUS
  <1>2. <<f>> \o <<g>> = <<f, g>>
    <2>1. /\ <<f>> \o <<g>> \in Seq(GoodFrames)
          /\ Len(<<f>> \o <<g>>) = 2
          /\ (<<f>> \o <<g>>)[1] = f /\ (<<f>> \o <<g>>)[2] = g
      BY <1>1, ConcatProperties
    <2>2. /\ <<f, g>> \in Seq(GoodFrames) /\ Len(<<f, g>>) = 2
          /\ <<f, g>>[1] = f /\ <<f, g>>[2] = g
      OBVIOUS
    <2>3. \A i \in 1..2 : (<<f>> \o <<g>>)[i] = <<f, g>>[i]
      BY <2>1, <2>2
    <2> QED
      BY <2>1, <2>2, <2>3, SeqEqual
  <1>3. (<<f>> \o <<g>>) \o s = <<f>> \o (<<g>> \o s)
    BY <1>1, ConcatAssociative
  <1> QED
    BY <1>2, <1>3

LEMMA StackCall ==
    ASSUME NEW s \in Stacks, NEW f \in GoodFrames, NEW g \in GoodFrames,
           g.k = Head(s).k
    PROVE  <<f, g>> \o Tail(s) \in Stacks
  <1>1. Tail(s) \in Seq(GoodFrames)
    BY StackTop, HeadTailProperties
  <1>2. <<g>> \o Tail(s) \in Stacks
    BY StackReplace
  <1> QED
    BY <1>1, <1>2, StackTwo, StackPush

\* What is left of a list of aiocbs.
LEMMA RemoveAtType ==
    ASSUME NEW S, NEW s \in Seq(S), NEW i \in 1..Len(s)
    PROVE  RemoveAt(s, i) \in Seq(S)
  <1>1. Len(s) \in Nat /\ \A j \in 1..Len(s) : s[j] \in S
    BY LenProperties, ElementOfSeq
  <1>2. SubSeq(s, 1, i - 1) \in Seq(S)
    BY <1>1, SubSeqProperties
  <1>3. SubSeq(s, i + 1, Len(s)) \in Seq(S)
    BY <1>1, SubSeqProperties
  <1> QED
    BY <1>2, <1>3, ConcatProperties DEF RemoveAt
-----------------------------------------------------------------------------
(* The invariant, by groups of variables that change together.             *)

RequestsOK ==
    /\ ret \in [Acbs -> Outcomes \cup {"full", "in_progress", "canceled"}]
    /\ active \in [Acbs -> BOOLEAN]
    /\ async_context_id \in [Acbs -> Contexts]
    /\ ev_signo \in [Acbs -> {"none", "SIGUSR2"}]
    /\ cb \in [Acbs -> {"user", "rw_em"}]
    /\ submitted_in \in [Acbs -> Contexts]
    /\ free \in SUBSET Acbs
    /\ first_aio \in Seq(Acbs)
    /\ request_list \in Seq(Acbs)

MainOK ==
    /\ job \in [Threads -> Acbs \cup {Nobody}]
    /\ sigpending \in BOOLEAN
    /\ pipe \in 0..PipeSize
    /\ bh \in [Contexts -> BOOLEAN]
    /\ async_ret \in [Contexts -> {"not_done", "zero", "einval", "errno"}]
    /\ ops \in 0..MaxOps

TypeInv == AccountingInv /\ stack \in Stacks /\ RequestsOK /\ MainOK

-----------------------------------------------------------------------------
(* Frames.                                                                 *)

LEMMA FrameType ==
    ASSUME NEW k \in FrameKinds, NEW a \in Acbs \cup {Nobody}, NEW i \in Nat,
           NEW c \in Contexts, k = "walk" => i > 0,
           k \in {"cb", "cancel"} => a \in Acbs
    PROVE  Frame(k, a, i, c) \in GoodFrames /\ Frame(k, a, i, c).k = k
  BY DEF Frame, Frames, GoodFrames

LEMMA TopType ==
    ASSUME stack \in Stacks
    PROVE  /\ Top \in GoodFrames /\ context \in Contexts
           /\ Top.i \in Nat
           /\ Top.k = "walk" => Top.i > 0
           /\ Top.k \in {"cb", "cancel"} => Top.a \in Acbs
  BY StackTop DEF Top, context, GoodFrames, Frames

LEMMA GotoType ==
    ASSUME stack \in Stacks, NEW i \in Nat, Top.k = "walk" => i > 0
    PROVE  Goto(i) \in Stacks
  <1>1. [Top EXCEPT !.i = i] \in GoodFrames /\ [Top EXCEPT !.i = i].k = Top.k
    BY TopType DEF GoodFrames, Frames
  <1> QED
    BY <1>1, StackReplace DEF Goto, Top

LEMMA CallType ==
    ASSUME stack \in Stacks, NEW i \in Nat, Top.k # "walk"
    PROVE  Call(i, Walk) \in Stacks
  <1>1. [Top EXCEPT !.i = i] \in GoodFrames /\ [Top EXCEPT !.i = i].k = Top.k
    BY TopType DEF GoodFrames, Frames
  <1>2. Walk \in GoodFrames
    <2>1. context \in Contexts
      BY TopType
    <2> QED
      BY <2>1 DEF Walk, Frame, Frames, FrameKinds, GoodFrames
  <1> QED
    BY <1>1, <1>2, StackCall DEF Call, Top

LEMMA SignalType ==
    ASSUME NEW c \in Contexts
    PROVE  Signal(c) \in GoodFrames
  BY FrameType DEF Signal, FrameKinds

LEMMA PopType ==
    ASSUME stack \in Stacks, Top.k # "loop"
    PROVE  Tail(stack) \in Stacks /\ stack[2] = Head(Tail(stack))
  BY StackPop DEF Top

-----------------------------------------------------------------------------
(* Every group of actions preserves every group of variables.              *)

LEMMA SubmitType ==
    ASSUME TypeInv, NEW a \in Acbs, Submit(a)
    PROVE  stack' \in Stacks /\ RequestsOK' /\ MainOK'
  <1>1. context \in Contexts /\ stack \in Stacks
    BY TopType DEF TypeInv
  <1>2. PICK c \in Contexts, f \in {"user", "rw_em"} :
           PaioSubmit(a, f, c) \/ PaioIoctl(a, f, c)
    <2>1. CASE AioRw(a) \/ AioIoctl(a)
      BY <1>1, <2>1 DEF AioRw, AioIoctl
    <2>2. CASE RwEm(a)
      BY <1>1, <2>2, MaxContextAssumption DEF RwEm, Contexts
    <2> QED
      BY <2>1, <2>2 DEF Submit
  <1>3. RequestsOK'
    <2>1. PaioStart(a, f, c) /\ RequestsOK
      BY <1>2 DEF PaioSubmit, PaioIoctl, TypeInv
    <2>2. async_context_id' \in [Acbs -> Contexts]
      BY <1>2, <2>1 DEF PaioSubmit, PaioIoctl, RequestsOK
    <2>3. /\ ret' \in [Acbs -> Outcomes \cup {"full", "in_progress", "canceled"}]
          /\ active' \in [Acbs -> BOOLEAN]
      BY <2>1 DEF PaioStart, QemuPaioSubmit, RequestsOK
    <2>4. request_list' \in Seq(Acbs) /\ first_aio' \in Seq(Acbs)
      <3>1. <<a>> \in Seq(Acbs) /\ first_aio \in Seq(Acbs)
            /\ request_list \in Seq(Acbs)
        BY <2>1 DEF RequestsOK
      <3> QED
        BY <2>1, <3>1, AppendProperties, ConcatProperties
        DEF PaioStart, QemuPaioSubmit
    <2>5. /\ ev_signo' \in [Acbs -> {"none", "SIGUSR2"}]
          /\ cb' \in [Acbs -> {"user", "rw_em"}]
          /\ submitted_in' \in [Acbs -> Contexts]
          /\ free' \in SUBSET Acbs
      BY <1>2, <2>1 DEF PaioStart, QemuAioGet, SubmitSigno, RequestsOK
    <2> QED
      BY <2>2, <2>3, <2>4, <2>5 DEF RequestsOK
  <1>4. CASE AioRw(a) \/ AioIoctl(a)
    <2>1. stack' \in Stacks
      BY <1>1, <1>4, SignalType, StackPush DEF AioRw, AioIoctl, Push
    <2>2. MainOK'
      BY <1>4, MaxOpsAssumption
      DEF AioRw, AioIoctl, Operation, TypeInv, MainOK, wakeVars, ctxVars
    <2> QED
      BY <1>3, <2>1, <2>2
  <1>5. CASE RwEm(a)
    <2>1. context + 1 \in Contexts
      BY <1>1, <1>5, MaxContextAssumption DEF RwEm, Contexts
    <2>2. /\ Signal(context + 1) \in GoodFrames
          /\ Frame("em", a, POLL, context + 1) \in GoodFrames
      BY <2>1, SignalType, FrameType DEF POLL, FrameKinds
    <2>3. stack' \in Stacks
      BY <1>1, <1>5, <2>2, StackTop, StackTwo, StackPush DEF RwEm
    <2>4. MainOK'
      BY <1>5, <2>1, MaxOpsAssumption
      DEF RwEm, Operation, TypeInv, MainOK, wakeVars
    <2> QED
      BY <1>3, <2>3, <2>4
  <1> QED
    BY <1>4, <1>5 DEF Submit

LEMMA RemoveType ==
    ASSUME RequestsOK, NEW a \in Acbs, PaioRemove(a)
    PROVE  first_aio' \in Seq(Acbs) /\ free' \in SUBSET Acbs
  <1>1. CASE Contains(first_aio, a)
    <2>1. PICK i \in DOMAIN first_aio : first_aio' = RemoveAt(first_aio, i)
      BY <1>1 DEF PaioRemove
    <2>2. first_aio \in Seq(Acbs) /\ i \in 1..Len(first_aio)
      BY <2>1 DEF RequestsOK
    <2> QED
      BY <1>1, <2>1, <2>2, RemoveAtType DEF PaioRemove, RequestsOK
  <1>2. CASE ~Contains(first_aio, a)
    BY <1>2 DEF PaioRemove, RequestsOK
  <1> QED
    BY <1>1, <1>2

LEMMA UserType ==
    ASSUME TypeInv, User
    PROVE  stack' \in Stacks /\ RequestsOK' /\ MainOK'
  <1>1. context \in Contexts /\ stack \in Stacks /\ RequestsOK /\ MainOK
    BY TopType DEF TypeInv
  <1>2. CASE RwEmFails
    <2>1. UNCHANGED <<stack, requestVars>> /\ MainOK'
      BY <1>1, <1>2, MaxOpsAssumption
      DEF RwEmFails, Operation, MainOK, threadVars, wakeVars
    <2> QED
      BY <1>1, <2>1 DEF RequestsOK, requestVars, acbVars, idVars
  <1>3. CASE AioFlush
    <2>1. Frame("flush", Nobody, POLL, context) \in GoodFrames
      BY <1>1, FrameType DEF POLL, FrameKinds
    <2>2. stack' \in Stacks
      BY <1>1, <1>3, <2>1, StackPush DEF AioFlush, Push
    <2>3. RequestsOK'
      BY <1>1, <1>3 DEF AioFlush, RequestsOK, requestVars, acbVars, idVars
    <2>4. MainOK'
      BY <1>1, <1>3, MaxOpsAssumption
      DEF AioFlush, Operation, MainOK, threadVars, wakeVars, ctxVars
    <2> QED
      BY <2>2, <2>3, <2>4
  <1>4. ASSUME NEW a \in Acbs, Submit(a)
        PROVE  stack' \in Stacks /\ RequestsOK' /\ MainOK'
    BY <1>4, SubmitType
  <1>5. ASSUME NEW a \in Acbs, CancelQueued(a)
        PROVE  stack' \in Stacks /\ RequestsOK' /\ MainOK'
    <2>1. first_aio' \in Seq(Acbs) /\ free' \in SUBSET Acbs
      BY <1>1, <1>5, RemoveType DEF CancelQueued
    <2>2. request_list' \in Seq(Acbs)
      <3>1. PICK i \in DOMAIN request_list :
               request_list' = RemoveAt(request_list, i)
        BY <1>5 DEF CancelQueued
      <3>2. request_list \in Seq(Acbs) /\ i \in 1..Len(request_list)
        BY <1>1, <3>1 DEF RequestsOK
      <3> QED
        BY <3>1, <3>2, RemoveAtType
    <2>3. RequestsOK'
      BY <1>1, <1>5, <2>1, <2>2 DEF CancelQueued, RequestsOK, idVars
    <2> QED
      BY <1>1, <1>5, <2>3
      DEF CancelQueued, MainOK, threadVars, wakeVars, ctxVars
  <1>6. ASSUME NEW a \in Acbs, CancelFinished(a)
        PROVE  stack' \in Stacks /\ RequestsOK' /\ MainOK'
    <2>1. first_aio' \in Seq(Acbs) /\ free' \in SUBSET Acbs
      BY <1>1, <1>6, RemoveType DEF CancelFinished
    <2>2. RequestsOK'
      BY <1>1, <1>6, <2>1 DEF CancelFinished, RequestsOK, idVars
    <2> QED
      BY <1>1, <1>6, <2>2
      DEF CancelFinished, MainOK, threadVars, wakeVars, ctxVars
  <1>7. ASSUME NEW a \in Acbs, CancelActive(a)
        PROVE  stack' \in Stacks /\ RequestsOK' /\ MainOK'
    <2>1. Frame("cancel", a, 0, context) \in GoodFrames
      BY <1>1, FrameType DEF FrameKinds
    <2>2. stack' \in Stacks
      BY <1>1, <1>7, <2>1, StackPush DEF CancelActive, Push
    <2>3. RequestsOK'
      BY <1>1, <1>7 DEF CancelActive, RequestsOK, requestVars, acbVars, idVars
    <2> QED
      BY <1>1, <1>7, <2>2, <2>3
      DEF CancelActive, MainOK, threadVars, wakeVars, ctxVars
  <1> QED
    BY <1>2, <1>3, <1>4, <1>5, <1>6, <1>7 DEF User, Cancel

LEMMA WorkerType ==
    ASSUME TypeInv, NEW t \in Threads, Worker(t) \/ AioThreadWakes(t)
    PROVE  stack' \in Stacks /\ RequestsOK' /\ MainOK'
  <1>1. stack \in Stacks /\ RequestsOK /\ MainOK
    BY DEF TypeInv
  <1>2. stack' \in Stacks
    BY <1>1 DEF Worker, AioThreadWait, AioThreadTake, AioThreadExit,
       AioThreadFinish, AioThreadKill, AioThreadWakes
  <1>3. CASE AioThreadWait(t) \/ AioThreadWakes(t) \/ AioThreadExit(t)
    <2>1. RequestsOK'
      BY <1>1, <1>3 DEF AioThreadWait, AioThreadWakes, AioThreadExit,
         RequestsOK, requestVars, acbVars, idVars
    <2>2. MainOK'
      BY <1>1, <1>3 DEF AioThreadWait, AioThreadWakes, AioThreadExit,
         MainOK, wakeVars, ctxVars
    <2> QED
      BY <1>2, <2>1, <2>2
  <1>4. CASE AioThreadTake(t)
    <2>1. /\ Head(request_list) \in Acbs
          /\ Tail(request_list) \in Seq(Acbs)
      BY <1>1, <1>4, HeadTailProperties DEF AioThreadTake, RequestsOK
    <2>2. RequestsOK'
      BY <1>1, <1>4, <2>1 DEF AioThreadTake, MarkActive, RequestsOK, idVars
    <2>3. MainOK'
      BY <1>1, <1>4, <2>1 DEF AioThreadTake, MainOK, wakeVars, ctxVars
    <2> QED
      BY <1>2, <2>2, <2>3
  <1>5. CASE AioThreadFinish(t)
    <2>1. ret' \in [Acbs -> Outcomes \cup {"full", "in_progress", "canceled"}]
      BY <1>1, <1>5 DEF AioThreadFinish, RequestsOK
    <2>2. RequestsOK'
      BY <1>1, <1>5, <2>1 DEF AioThreadFinish, RequestsOK, idVars
    <2>3. MainOK'
      BY <1>1, <1>5 DEF AioThreadFinish, MainOK, wakeVars, ctxVars
    <2> QED
      BY <1>2, <2>2, <2>3
  <1>6. CASE AioThreadKill(t)
    <2>1. RequestsOK'
      BY <1>1, <1>6
      DEF AioThreadKill, RequestsOK, requestVars, acbVars, idVars
    <2>2. sigpending' \in BOOLEAN
      BY <1>6, Zenon DEF AioThreadKill
    <2>3. MainOK'
      BY <1>1, <1>6, <2>2 DEF AioThreadKill, MainOK, ctxVars
    <2> QED
      BY <1>2, <2>1, <2>3
  <1> QED
    BY <1>3, <1>4, <1>5, <1>6 DEF Worker

\* What the steps of the walks and of the waiting loops have in common.
LEMMA QuietType ==
    ASSUME TypeInv, UNCHANGED <<requestVars, threadVars, wakeVars, ops>>
    PROVE  /\ RequestsOK'
           /\ UNCHANGED ctxVars => MainOK'
           /\ bh' \in [Contexts -> BOOLEAN] /\ async_ret' = async_ret => MainOK'
  <1>1. RequestsOK'
    BY DEF TypeInv, RequestsOK, requestVars, acbVars, idVars
  <1>2. UNCHANGED ctxVars => MainOK'
    BY DEF TypeInv, MainOK, threadVars, wakeVars, ctxVars
  <1>3. bh' \in [Contexts -> BOOLEAN] /\ async_ret' = async_ret => MainOK'
    BY DEF TypeInv, MainOK, threadVars, wakeVars
  <1> QED
    BY <1>1, <1>2, <1>3

LEMMA RunBhType ==
    ASSUME TypeInv, NEW i \in Nat, Top.k # "walk", RunBh(i)
    PROVE  stack' \in Stacks /\ RequestsOK' /\ MainOK'
  <1>1. stack' \in Stacks
    BY CallType DEF TypeInv, RunBh
  <1>2. bh' \in [Contexts -> BOOLEAN]
    BY TopType DEF TypeInv, MainOK, RunBh
  <1> QED
    BY <1>1, <1>2, QuietType DEF RunBh

LEMMA ReadType ==
    ASSUME TypeInv, NEW i \in Nat, Top.k # "walk", PosixAioRead(i)
    PROVE  stack' \in Stacks /\ RequestsOK' /\ MainOK'
  <1>1. stack' \in Stacks
    BY CallType DEF TypeInv, PosixAioRead
  <1>2. RequestsOK'
    BY DEF TypeInv, RequestsOK, PosixAioRead, requestVars, acbVars, idVars
  <1>3. MainOK'
    BY PipeSizeAssumption
    DEF TypeInv, MainOK, PosixAioRead, threadVars, ctxVars
  <1> QED
    BY <1>1, <1>2, <1>3

LEMMA WalkType ==
    ASSUME TypeInv, WalkSkip \/ WalkDrop \/ WalkDeliver \/ WalkEnd \/ CbReturn
    PROVE  stack' \in Stacks /\ RequestsOK' /\ MainOK'
  <1>1. /\ stack \in Stacks /\ RequestsOK /\ MainOK
        /\ Top \in GoodFrames /\ context \in Contexts /\ Top.i \in Nat
        /\ Top.k = "walk" => Top.i > 0
        /\ Top.k \in {"cb", "cancel"} => Top.a \in Acbs
    BY TopType DEF TypeInv
  <1>2. ASSUME Top.k = "walk", Top.i <= Len(first_aio)
        PROVE  WalkAcb \in Acbs /\ RemoveAt(first_aio, Top.i) \in Seq(Acbs)
    <2>1. first_aio \in Seq(Acbs) /\ Top.i \in 1..Len(first_aio)
      BY <1>1, <1>2, LenProperties DEF RequestsOK
    <2> QED
      BY <2>1, RemoveAtType, ElementOfSeq DEF WalkAcb
  <1>3. CASE WalkSkip
    <2>1. stack' \in Stacks
      BY <1>1, <1>3, GotoType DEF WalkSkip
    <2> QED
      BY <1>3, <2>1, QuietType DEF WalkSkip
  <1>4. CASE WalkDrop
    <2>1. /\ [Top EXCEPT !.r = TRUE] \in GoodFrames
          /\ [Top EXCEPT !.r = TRUE].k = Top.k
      BY <1>1 DEF GoodFrames, Frames
    <2>2. stack' \in Stacks
      BY <1>1, <1>4, <2>1, StackReplace DEF WalkDrop, Top
    <2>3. RequestsOK'
      BY <1>1, <1>2, <1>4 DEF WalkDrop, RequestsOK, idVars
    <2>4. MainOK'
      BY <1>1, <1>4 DEF WalkDrop, MainOK, threadVars, wakeVars, ctxVars
    <2> QED
      BY <2>2, <2>3, <2>4
  <1>5. CASE WalkDeliver
    <2> DEFINE resumed == <<[Top EXCEPT !.i = 1, !.r = TRUE]>> \o Tail(stack)
    <2>1. /\ [Top EXCEPT !.i = 1, !.r = TRUE] \in GoodFrames
          /\ [Top EXCEPT !.i = 1, !.r = TRUE].k = Top.k
      <3>1. [Top EXCEPT !.i = 1] \in GoodFrames
        BY <1>1 DEF GoodFrames, Frames
      <3> DEFINE g == [Top EXCEPT !.i = 1]
      <3>2. [g EXCEPT !.r = TRUE] \in GoodFrames
        <4>1. g \in GoodFrames
          BY <3>1
        <4> HIDE DEF g
        <4> QED
          BY <4>1 DEF GoodFrames, Frames
      <3> QED
        BY <1>1, <3>2 DEF GoodFrames, Frames
    <2>2. resumed \in Stacks
      BY <1>1, <2>1, StackReplace DEF Top
    <2>3. WalkAcb \in Acbs /\ first_aio' \in Seq(Acbs)
      BY <1>2, <1>5 DEF WalkDeliver
    <2>4. Frame("cb", WalkAcb, 0, context) \in GoodFrames
      BY <1>1, <2>3, FrameType DEF FrameKinds
    <2>5. <<Frame("cb", WalkAcb, 0, context)>> \o resumed \in Stacks
      BY <2>2, <2>4, StackPush
    <2>6. stack' \in {resumed, <<Frame("cb", WalkAcb, 0, context)>> \o resumed}
      BY <1>5 DEF WalkDeliver
    <2>7. free' \in SUBSET Acbs
      BY <1>1, <1>5, <2>3 DEF WalkDeliver, RequestsOK
    <2>8. RequestsOK'
      BY <1>1, <1>5, <2>3, <2>7 DEF WalkDeliver, RequestsOK, idVars
    <2>9. async_ret' \in [Contexts -> {"not_done", "zero", "einval", "errno"}]
      <3>1. CallbackRet(WalkAcb) \in {"not_done", "zero", "einval", "errno"}
        BY DEF CallbackRet
      <3> QED
        BY <1>1, <1>5, <3>1 DEF WalkDeliver, MainOK
    <2>10. MainOK'
      BY <1>1, <1>5, <2>9 DEF WalkDeliver, MainOK, threadVars, wakeVars
    <2> QED
      BY <2>2, <2>5, <2>6, <2>8, <2>10
  <1>6. CASE WalkEnd
    <2>1. Tail(stack) \in Stacks /\ stack[2] = Head(Tail(stack))
      BY <1>1, <1>6, PopType DEF WalkEnd
    <2>2. stack[2] \in GoodFrames
      BY <2>1, StackTop
    <2>3. CASE WaitReturns(stack[2])
      <3>1. /\ [stack[2] EXCEPT !.i = WAITED] \in GoodFrames
            /\ [stack[2] EXCEPT !.i = WAITED].k = stack[2].k
        BY <2>2, <2>3 DEF WaitReturns, WAITED, GoodFrames, Frames
      <3>2. <<[stack[2] EXCEPT !.i = WAITED]>> \o Tail(Tail(stack)) \in Stacks
        BY <2>1, <3>1, StackReplace
      <3>3. stack' \in Stacks
        BY <1>6, <2>3, <3>2 DEF WalkEnd
      <3> QED
        BY <1>6, <3>3, QuietType DEF WalkEnd
    <2>4. CASE ~WaitReturns(stack[2])
      <3>1. stack' \in Stacks
        BY <1>6, <2>1, <2>4 DEF WalkEnd
      <3> QED
        BY <1>6, <3>1, QuietType DEF WalkEnd
    <2> QED
      BY <2>3, <2>4
  <1>7. CASE CbReturn
    <2>1. stack' \in Stacks
      BY <1>1, <1>7, PopType DEF CbReturn
    <2>2. RequestsOK'
      BY <1>1, <1>7 DEF CbReturn, RequestsOK, idVars
    <2>3. MainOK'
      BY <1>1, <1>7 DEF CbReturn, MainOK, threadVars, wakeVars, ctxVars
    <2> QED
      BY <2>1, <2>2, <2>3
  <1> QED
    BY <1>3, <1>4, <1>5, <1>6, <1>7

LEMMA MainType ==
    ASSUME TypeInv, MainThread \/ AioSignalHandler
    PROVE  stack' \in Stacks /\ RequestsOK' /\ MainOK'
  <1>1. /\ stack \in Stacks /\ RequestsOK /\ MainOK
        /\ Top \in GoodFrames /\ Top.i \in Nat
        /\ Top.k \in {"cb", "cancel"} => Top.a \in Acbs
        /\ 0 \in Nat /\ POLL \in Nat /\ SELECT \in Nat /\ WAITED \in Nat
        /\ FLUSHED \in Nat
    BY TopType DEF TypeInv, POLL, SELECT, WAITED, FLUSHED
  <1>2. CASE CondSignal
    <2>1. stack' \in Stacks
      BY <1>1, <1>2, PopType DEF CondSignal
    <2>2. RequestsOK'
      BY <1>1, <1>2 DEF CondSignal, RequestsOK, requestVars, acbVars, idVars
    <2>3. MainOK'
      BY <1>1, <1>2 DEF CondSignal, MainOK, wakeVars, ctxVars
    <2> QED
      BY <2>1, <2>2, <2>3
  <1>3. CASE CancelWaited
    <2>1. Top.a \in Acbs /\ PaioRemove(Top.a)
      BY <1>1, <1>3 DEF CancelWaited
    <2>2. first_aio' \in Seq(Acbs) /\ free' \in SUBSET Acbs
      BY <1>1, <2>1, RemoveType
    <2>3. stack' \in Stacks
      BY <1>1, <1>3, PopType DEF CancelWaited
    <2>4. RequestsOK'
      BY <1>1, <1>3, <2>2 DEF CancelWaited, RequestsOK, idVars
    <2>5. MainOK'
      BY <1>1, <1>3 DEF CancelWaited, MainOK, threadVars, wakeVars, ctxVars
    <2> QED
      BY <2>3, <2>4, <2>5
  <1>4. CASE MainLoop
    BY <1>1, <1>4, RunBhType, ReadType DEF MainLoop
  <1>5. CASE AioWaitPoll
    <2>1. CASE RunBh(WAITED)
      BY <1>1, <1>5, <2>1, RunBhType DEF AioWaitPoll
    <2>2. CASE ~RunBh(WAITED)
      <3>1. stack' \in Stacks
        BY <1>1, <1>5, <2>2, CallType DEF AioWaitPoll
      <3> QED
        BY <1>5, <2>2, <3>1, QuietType DEF AioWaitPoll
    <2> QED
      BY <2>1, <2>2
  <1>6. CASE AioWaitSelect
    <2>1. CASE PosixAioRead(WAITED)
      BY <1>1, <1>6, <2>1, ReadType DEF AioWaitSelect
    <2>2. CASE ~PosixAioRead(WAITED)
      <3>1. stack' \in Stacks
        BY <1>1, <1>6, <2>2, GotoType DEF AioWaitSelect
      <3> QED
        BY <1>6, <2>2, <3>1, QuietType DEF AioWaitSelect
    <2> QED
      BY <2>1, <2>2
  <1>7. CASE EmAgain
    <2>1. stack' \in Stacks
      BY <1>1, <1>7, GotoType DEF EmAgain
    <2> QED
      BY <1>7, <2>1, QuietType DEF EmAgain
  <1>8. CASE EmReturn
    <2>1. CASE RunBh(WAITED)
      BY <1>1, <1>8, <2>1, RunBhType DEF EmReturn
    <2>2. CASE ~RunBh(WAITED)
      <3>1. Tail(stack) \in Stacks /\ stack[2] = Head(Tail(stack))
        BY <1>1, <1>8, PopType DEF EmReturn
      <3>2. stack' \in Stacks
        BY <1>8, <2>2, <3>1 DEF EmReturn, AsyncContextPop
      <3>3. stack[2].c \in Contexts
        BY <3>1, StackTop DEF GoodFrames, Frames
      <3>4. bh' \in [Contexts -> BOOLEAN]
        BY <1>1, <1>8, <2>2, <3>3
        DEF EmReturn, AsyncContextPop, ParentBh, MainOK
      <3> QED
        BY <1>8, <2>2, <3>2, <3>4, QuietType DEF EmReturn
    <2> QED
      BY <2>1, <2>2
  <1>9. CASE FlushAsk
    <2> DEFINE g == [Top EXCEPT !.i = FLUSHED]
               f == [g EXCEPT !.r = PosixAioFlush]
    <2>1. g \in GoodFrames /\ g.k = Top.k
      BY <1>1, <1>9 DEF FlushAsk, GoodFrames, Frames
    <2>2. PosixAioFlush \in BOOLEAN
      BY DEF PosixAioFlush
    <2>3. f \in GoodFrames /\ f.k = Top.k
      <3> HIDE DEF g
      <3> QED
        BY <2>1, <2>2 DEF GoodFrames, Frames
    <2>4. stack' = <<f>> \o Tail(stack)
      BY <1>9 DEF FlushAsk
    <2>5. stack' \in Stacks
      <3> HIDE DEF f
      <3> QED
        BY <1>1, <2>3, <2>4, StackReplace DEF Top
    <2> QED
      BY <1>9, <2>5, QuietType DEF FlushAsk
  <1>10. CASE FlushLoop
    <2>1. CASE RunBh(POLL)
      BY <1>1, <1>10, <2>1, RunBhType DEF FlushLoop
    <2>2. CASE ~RunBh(POLL)
      <3>1. Goto(POLL) \in Stacks /\ Tail(stack) \in Stacks
        BY <1>1, <1>10, GotoType, PopType DEF FlushLoop
      <3>2. stack' \in Stacks
        BY <1>10, <2>2, <3>1 DEF FlushLoop
      <3> QED
        BY <1>10, <2>2, <3>2, QuietType DEF FlushLoop
    <2> QED
      BY <2>1, <2>2
  <1>11. CASE AioSignalHandler
    <2>1. stack' \in Stacks
      BY <1>1, <1>11, GotoType DEF AioSignalHandler
    <2>2. RequestsOK'
      BY <1>1, <1>11
      DEF AioSignalHandler, RequestsOK, requestVars, acbVars, idVars
    <2>3. sigpending' \in BOOLEAN
      BY <1>11, Zenon DEF AioSignalHandler
    <2>4. pipe' \in 0..PipeSize
      BY <1>1, <1>11, PipeSizeAssumption DEF AioSignalHandler, WriteByte, MainOK
    <2>5. MainOK'
      BY <1>1, <1>11, <2>3, <2>4
      DEF AioSignalHandler, MainOK, threadVars, ctxVars
    <2> QED
      BY <2>1, <2>2, <2>5
  <1> QED
    BY <1>2, <1>3, <1>4, <1>5, <1>6, <1>7, <1>8, <1>9, <1>10, <1>11, WalkType
    DEF MainThread

LEMMA TypeInit ==
    ASSUME Init
    PROVE  TypeInv
  <1>1. stack \in Stacks
    <2>1. Frame("loop", Nobody, 0, 0) \in GoodFrames
          /\ Frame("loop", Nobody, 0, 0).k = "loop"
      BY FrameType, MaxContextAssumption DEF FrameKinds, Contexts
    <2> DEFINE f == Frame("loop", Nobody, 0, 0)
    <2>2. f \in GoodFrames /\ f.k = "loop"
      BY <2>1
    <2>3. stack = <<f>>
      BY DEF Init
    <2> HIDE DEF f
    <2> QED
      BY <2>2, <2>3 DEF Stacks
  <1>2. RequestsOK
    BY MaxContextAssumption DEF Init, RequestsOK, Contexts
  <1>3. MainOK
    <2>1. sigpending \in BOOLEAN /\ bh \in [Contexts -> BOOLEAN]
      BY Zenon DEF Init
    <2>2. pipe \in 0..PipeSize /\ ops \in 0..MaxOps
      BY MaxOpsAssumption, PipeSizeAssumption DEF Init
    <2>3. /\ job \in [Threads -> Acbs \cup {Nobody}]
          /\ async_ret \in [Contexts -> {"not_done", "zero", "einval", "errno"}]
      BY DEF Init
    <2> QED
      BY <2>1, <2>2, <2>3 DEF MainOK
  <1> QED
    BY <1>1, <1>2, <1>3, AccountingInit DEF TypeInv

LEMMA TypeNext ==
    ASSUME TypeInv, [Next]_vars
    PROVE  TypeInv'
  <1>1. AccountingInv'
    BY AccountingNext DEF TypeInv
  <1>2. stack' \in Stacks /\ RequestsOK' /\ MainOK'
    <2>1. CASE UNCHANGED vars
      <3>1. UNCHANGED <<requestVars, threadVars, wakeVars, ops>>
            /\ UNCHANGED ctxVars /\ stack' = stack
        BY <2>1 DEF vars
      <3> QED
        BY <3>1, QuietType DEF TypeInv
    <2>2. CASE User
      BY <2>2, UserType
    <2>3. CASE MainThread \/ AioSignalHandler
      BY <2>3, MainType
    <2>4. CASE \E t \in Threads : Worker(t) \/ AioThreadWakes(t)
      BY <2>4, WorkerType
    <2> QED
      BY <2>1, <2>2, <2>3, <2>4 DEF Next
  <1> QED
    BY <1>1, <1>2 DEF TypeInv

(* Every variable keeps its type: the pipe never holds more than it can,    *)
(* the thread counters never go negative, nested bdrv_read_em and           *)
(* bdrv_write_em leave the AsyncContext ids in range, and no return pops    *)
(* the main loop, with which every later stack access would be undefined.   *)
THEOREM TypeCorrect == Spec => []TypeOK
  <1>1. Init => TypeInv
    BY TypeInit
  <1>2. TypeInv /\ [Next]_vars => TypeInv'
    BY TypeNext
  <1>3. TypeInv => TypeOK
    <2>1. ASSUME stack \in Stacks
          PROVE  stack \in Seq(Frames)
      BY <2>1 DEF Stacks, GoodFrames
    <2> QED
      BY <2>1 DEF TypeInv, AccountingInv, PcStates, RequestsOK, MainOK, TypeOK
  <1> QED
    BY <1>1, <1>2, <1>3, PTL DEF Spec

-----------------------------------------------------------------------------
(* No lost wakeup.                                                         *)

\* A submission leaves a thread alive: the one it spawned, one counted as
\* idle, or, at the limit, one of max_threads.
LEMMA SubmitLive ==
    ASSUME AccountingInv, NEW a, QemuPaioSubmit(a)
    PROVE  \E t \in Threads : pc'[t] # "dead"
  <1>1. AccountingInv'
    BY AccountingSubmit
  <1>2. cur_threads' # 0
    <2>1. CASE idle_threads = 0 /\ cur_threads < MaxThreads
      BY <2>1 DEF QemuPaioSubmit, SpawnThread, AccountingInv
    <2>2. CASE idle_threads # 0
      <3>1. cur_threads' = cur_threads
        BY <2>2 DEF QemuPaioSubmit
      <3>2. Idle # {}
        BY <2>2, FS_EmptySet DEF AccountingInv, ThreadAccounting
      <3>3. PICK t \in Live : TRUE
        BY <3>2 DEF Idle, Live
      <3>4. Cardinality(Live) # 0
        BY <3>3, OneLess DEF Live
      <3> QED
        BY <3>1, <3>4 DEF AccountingInv, ThreadAccounting
    <2>3. CASE cur_threads >= MaxThreads /\ idle_threads = 0
      BY <2>3, MaxThreadsAssumption DEF QemuPaioSubmit, AccountingInv
    <2> QED
      BY <2>1, <2>2, <2>3, MaxThreadsAssumption DEF AccountingInv
  <1>3. Live' # {}
    <2>1. Cardinality(Live') # 0
      BY <1>1, <1>2 DEF AccountingInv, ThreadAccounting
    <2> QED
      BY <2>1, FS_EmptySet
  <1> QED
    BY <1>3 DEF Live

LEMMA PushedTop ==
    ASSUME NEW s \in Stacks, NEW f \in GoodFrames
    PROVE  Head(<<f>> \o s) = f
  <1>1. <<f>> \o s \in Stacks
    BY StackPush
  <1>2. Head(<<f>> \o s) = (<<f>> \o s)[1]
    BY <1>1, StackTop
  <1>3. s \in Seq(GoodFrames) /\ <<f>> \in Seq(GoodFrames) /\ Len(<<f>>) = 1
        /\ Len(s) \in Nat
    BY LenProperties DEF Stacks
  <1>4. (<<f>> \o s)[1] = <<f>>[1]
    BY <1>3, ConcatProperties
  <1> QED
    BY <1>2, <1>4

\* qemu_paio_submit is about to call cond_signal when it releases the mutex.
LEMMA SubmitSignals ==
    ASSUME TypeInv, NEW a \in Acbs, Submit(a)
    PROVE  Top'.k = "signal" /\ QemuPaioSubmit(a)
  <1>1. QemuPaioSubmit(a)
    BY DEF Submit, AioRw, AioIoctl, RwEm, PaioSubmit, PaioIoctl, PaioStart
  <1>2. context \in Contexts /\ stack \in Stacks
    BY TopType DEF TypeInv
  <1>3. \A c \in Contexts : Signal(c) \in GoodFrames /\ Signal(c).k = "signal"
    BY SignalType DEF Signal, Frame
  <1>4. PICK c \in Contexts, s \in Stacks : stack' = <<Signal(c)>> \o s
    <2>1. CASE AioRw(a) \/ AioIoctl(a)
      BY <1>2, <2>1 DEF AioRw, AioIoctl, Push
    <2>2. CASE RwEm(a)
      <3>1. context + 1 \in Contexts
        BY <1>2, <2>2, MaxContextAssumption DEF RwEm, Contexts
      <3>2. Frame("em", a, POLL, context + 1) \in GoodFrames
        BY <3>1, FrameType DEF POLL, FrameKinds
      <3>3. <<Frame("em", a, POLL, context + 1)>> \o stack \in Stacks
        BY <1>2, <3>2, StackPush
      <3>4. stack' = <<Signal(context + 1)>>
                     \o (<<Frame("em", a, POLL, context + 1)>> \o stack)
        BY <1>2, <1>3, <2>2, <3>1, <3>2, StackTop, StackTwo DEF RwEm
      <3> QED
        BY <3>1, <3>3, <3>4
    <2> QED
      BY <2>1, <2>2 DEF Submit
  <1> QED
    BY <1>1, <1>3, <1>4, PushedTop DEF Top

\* A step that leaves the threads alone, queues nothing, and either is not
\* the return of qemu_paio_submit or leaves the stack alone.
LEMMA WakeupQuiet ==
    ASSUME NoLostWakeup, pc' = pc,
           request_list = <<>> => request_list' = <<>>,
           Top.k # "signal" \/ stack' = stack
    PROVE  NoLostWakeup'
  BY DEF NoLostWakeup, Top

LEMMA WakeupNext ==
    ASSUME TypeInv, NoLostWakeup, [Next]_vars
    PROVE  NoLostWakeup'
  <1>1. CASE UNCHANGED vars
    BY <1>1, WakeupQuiet DEF vars, requestVars, threadVars
  <1>2. ASSUME NEW a \in Acbs, Submit(a)
        PROVE  NoLostWakeup'
    <2>1. Top'.k = "signal" /\ \E t \in Threads : pc'[t] # "dead"
      BY <1>2, SubmitSignals, SubmitLive DEF TypeInv
    <2> QED
      BY <2>1 DEF NoLostWakeup
  <1>3. ASSUME NEW a \in Acbs, Cancel(a)
        PROVE  NoLostWakeup'
    <2>1. Top.k # "signal" /\ pc' = pc
      BY <1>3 DEF Cancel, CancelQueued, CancelFinished, CancelActive,
         Cancellable, UserCode, threadVars
    <2>2. request_list = <<>> => request_list' = <<>>
      <3>1. CASE CancelQueued(a)
        <4>1. DOMAIN request_list # {}
          BY <3>1 DEF CancelQueued
        <4> QED
          BY <4>1
      <3>2. CASE CancelFinished(a) \/ CancelActive(a)
        BY <3>2 DEF CancelFinished, CancelActive, requestVars
      <3> QED
        BY <1>3, <3>1, <3>2 DEF Cancel
    <2> QED
      BY <2>1, <2>2, WakeupQuiet
  <1>4. CASE RwEmFails \/ AioFlush
    BY <1>4, WakeupQuiet
    DEF RwEmFails, AioFlush, Operation, UserCode, requestVars, threadVars
  <1>5. CASE CondSignal
    <2>1. CASE \E t \in Threads : pc[t] = "wait"
      <3>1. PICK t \in Threads : pc' = [pc EXCEPT ![t] = "woken"]
        BY <1>5, <2>1 DEF CondSignal
      <3>2. pc'[t] = "woken"
        BY <3>1 DEF TypeInv, AccountingInv
      <3> QED
        BY <3>2 DEF NoLostWakeup
    <2>2. CASE ~\E t \in Threads : pc[t] = "wait"
      BY <1>5, <2>2 DEF CondSignal, NoLostWakeup, requestVars
    <2> QED
      BY <2>1, <2>2
  <1>6. CASE (MainThread /\ ~CondSignal) \/ AioSignalHandler
    <2>1. UNCHANGED <<pc, request_list>>
      BY <1>6 DEF MainThread, AioSignalHandler, CancelWaited, WalkSkip,
         WalkDrop, WalkDeliver, WalkEnd, CbReturn, MainLoop, AioWaitPoll,
         AioWaitSelect, EmAgain, EmReturn, FlushAsk, FlushLoop, RunBh,
         PosixAioRead, threadVars, requestVars
    <2>2. Top.k # "signal" \/ stack' = stack
      BY <1>6 DEF MainThread, AioSignalHandler, CancelWaited, WalkSkip,
         WalkDrop, WalkDeliver, WalkEnd, CbReturn, MainLoop, AioWaitPoll,
         AioWaitSelect, EmAgain, EmReturn, FlushAsk, FlushLoop
    <2> QED
      BY <2>1, <2>2, WakeupQuiet
  <1>7. ASSUME NEW t \in Threads, Worker(t) \/ AioThreadWakes(t)
        PROVE  NoLostWakeup'
    <2>1. CASE AioThreadWait(t) \/ AioThreadExit(t)
      BY <2>1 DEF AioThreadWait, AioThreadExit, NothingQueued, NoLostWakeup,
         requestVars
    <2>2. CASE ~(AioThreadWait(t) \/ AioThreadExit(t))
      <3>1. \E s \in {"timedout", "woken", "io", "kill", "start"} :
               pc' = [pc EXCEPT ![t] = s]
        BY <1>7, <2>2 DEF Worker, AioThreadTake, AioThreadFinish,
           AioThreadKill, AioThreadWakes
      <3>2. pc'[t] \notin {"dead", "wait"}
        BY <3>1 DEF TypeInv, AccountingInv
      <3> QED
        BY <3>2 DEF NoLostWakeup
    <2> QED
      BY <2>1, <2>2
  <1> QED
    BY <1>1, <1>2, <1>3, <1>4, <1>5, <1>6, <1>7 DEF Next, User

(* A queued request is never left behind: cond_signal is called after the   *)
(* mutex was released, waiting threads time out and exit, and a submission  *)
(* spawns no thread while one is counted as idle, yet whenever              *)
(* request_list is not empty a thread is awake, or one waits and the        *)
(* submitter has still to signal it, for any number of threads.             *)
THEOREM WakeupCorrect == Spec => []NoLostWakeup
  <1>1. Init => TypeInv /\ NoLostWakeup
    BY TypeInit DEF Init, NoLostWakeup
  <1>2. TypeInv /\ NoLostWakeup /\ [Next]_vars => TypeInv' /\ NoLostWakeup'
    BY TypeNext, WakeupNext
  <1> QED
    BY <1>1, <1>2, PTL DEF Spec

-----------------------------------------------------------------------------
(* Lists without repetition.                                               *)

LEMMA ListPush ==
    ASSUME NEW S, NEW s \in Seq(S), NEW x \in S
    PROVE  /\ \A y : Contains(<<x>> \o s, y) <=> y = x \/ Contains(s, y)
           /\ IsInjective(s) /\ ~Contains(s, x) => IsInjective(<<x>> \o s)
  <1> DEFINE q == <<x>> \o s
  <1>1. <<x>> \in Seq(S) /\ Len(<<x>>) = 1 /\ <<x>>[1] = x /\ Len(s) \in Nat
        /\ DOMAIN s = 1..Len(s)
    BY LenProperties
  <1>2. /\ q \in Seq(S) /\ Len(q) = Len(s) + 1 /\ DOMAIN q = 1..(Len(s) + 1)
        /\ q[1] = x
        /\ \A i \in 1..Len(s) : q[i + 1] = s[i]
        /\ \A i \in 2..(Len(s) + 1) : q[i] = s[i - 1] /\ i - 1 \in 1..Len(s)
    BY <1>1, ConcatProperties, LenProperties
  <1> HIDE DEF q
  <1>3. ASSUME NEW y
        PROVE  Contains(q, y) <=> y = x \/ Contains(s, y)
    <2>1. ASSUME Contains(q, y)
          PROVE  y = x \/ Contains(s, y)
      <3>1. PICK i \in 1..(Len(s) + 1) : q[i] = y
        BY <1>2, <2>1 DEF Contains
      <3>2. i = 1 \/ i \in 2..(Len(s) + 1)
        BY <1>1
      <3> QED
        BY <1>2, <3>1, <3>2 DEF Contains
    <2>2. ASSUME y = x
          PROVE  Contains(q, y)
      <3>1. 1 \in 1..Len(q)
        BY <1>1, <1>2
      <3> QED
        BY <1>2, <2>2, <3>1 DEF Contains
    <2>3. ASSUME Contains(s, y)
          PROVE  Contains(q, y)
      <3>1. PICK i \in 1..Len(s) : s[i] = y
        BY <2>3 DEF Contains
      <3>2. i + 1 \in 1..Len(q) /\ q[i + 1] = y
        BY <1>1, <1>2, <3>1
      <3> QED
        BY <3>2 DEF Contains
    <2> QED
      BY <2>1, <2>2, <2>3
  <1>4. ASSUME IsInjective(s), ~Contains(s, x)
        PROVE  IsInjective(q)
    <2>1. SUFFICES ASSUME NEW i \in 1..(Len(s) + 1), NEW j \in 1..(Len(s) + 1),
                          q[i] = q[j]
                   PROVE  i = j
      BY <1>2 DEF IsInjective
    <2>2. \A k \in 2..(Len(s) + 1) : q[k] # x
      BY <1>2, <1>4 DEF Contains
    <2>3. CASE i = 1 \/ j = 1
      BY <1>1, <1>2, <2>1, <2>2, <2>3
    <2>4. CASE i # 1 /\ j # 1
      <3>1. i - 1 \in 1..Len(s) /\ j - 1 \in 1..Len(s) /\ s[i - 1] = s[j - 1]
        BY <1>1, <1>2, <2>1, <2>4
      <3>2. i - 1 = j - 1
        BY <1>1, <1>4, <3>1 DEF IsInjective
      <3> QED
        BY <3>2
    <2> QED
      BY <2>3, <2>4
  <1> QED
    BY <1>3, <1>4 DEF q

LEMMA ListAppend ==
    ASSUME NEW S, NEW s \in Seq(S), NEW x \in S
    PROVE  /\ \A y : Contains(Append(s, x), y) <=> y = x \/ Contains(s, y)
           /\ IsInjective(s) /\ ~Contains(s, x) => IsInjective(Append(s, x))
  <1> DEFINE q == Append(s, x)
  <1>1. Len(s) \in Nat /\ DOMAIN s = 1..Len(s)
    BY LenProperties
  <1>2. /\ q \in Seq(S) /\ Len(q) = Len(s) + 1 /\ DOMAIN q = 1..(Len(s) + 1)
        /\ q[Len(s) + 1] = x
        /\ \A i \in 1..Len(s) : q[i] = s[i]
    BY <1>1, AppendProperties, LenProperties
  <1> HIDE DEF q
  <1>3. \A i \in 1..(Len(s) + 1) : i \in 1..Len(s) \/ i = Len(s) + 1
    BY <1>1
  <1>4. ASSUME NEW y
        PROVE  Contains(q, y) <=> y = x \/ Contains(s, y)
    <2>1. ASSUME Contains(q, y)
          PROVE  y = x \/ Contains(s, y)
      BY <1>2, <1>3, <2>1 DEF Contains
    <2>2. Len(s) + 1 \in 1..Len(q) /\ \A i \in 1..Len(s) : i \in 1..Len(q)
      BY <1>1, <1>2
    <2>3. ASSUME y = x
          PROVE  Contains(q, y)
      BY <1>2, <2>2, <2>3 DEF Contains
    <2>4. ASSUME Contains(s, y)
          PROVE  Contains(q, y)
      BY <1>2, <2>2, <2>4 DEF Contains
    <2> QED
      BY <2>1, <2>3, <2>4
  <1>5. ASSUME IsInjective(s), ~Contains(s, x)
        PROVE  IsInjective(q)
    <2>1. SUFFICES ASSUME NEW i \in 1..(Len(s) + 1), NEW j \in 1..(Len(s) + 1),
                          q[i] = q[j]
                   PROVE  i = j
      BY <1>2 DEF IsInjective
    <2>2. \A k \in 1..Len(s) : q[k] # x
      BY <1>2, <1>5 DEF Contains
    <2>3. CASE i = Len(s) + 1 \/ j = Len(s) + 1
      BY <1>2, <1>3, <2>1, <2>2, <2>3
    <2>4. CASE i # Len(s) + 1 /\ j # Len(s) + 1
      <3>1. i \in 1..Len(s) /\ j \in 1..Len(s) /\ s[i] = s[j]
        BY <1>2, <1>3, <2>1, <2>4
      <3> QED
        BY <1>1, <1>5, <3>1 DEF IsInjective
    <2> QED
      BY <2>3, <2>4
  <1> QED
    BY <1>4, <1>5 DEF q

\* Removing the element at a position of a list that holds it once.
LEMMA ListRemove ==
    ASSUME NEW S, NEW s \in Seq(S), NEW k \in 1..Len(s), IsInjective(s)
    PROVE  /\ \A y : Contains(RemoveAt(s, k), y) <=> Contains(s, y) /\ y # s[k]
           /\ IsInjective(RemoveAt(s, k))
           /\ Len(RemoveAt(s, k)) = Len(s) - 1
  <1> DEFINE q == RemoveAt(s, k)
             n == Len(s)
             l == SubSeq(s, 1, k - 1)
             r == SubSeq(s, k + 1, n)
  <1>1. n \in Nat /\ n > 0 /\ DOMAIN s = 1..n /\ \A i \in 1..n : s[i] \in S
    BY LenProperties, ElementOfSeq
  <1>2. /\ l \in Seq(S) /\ Len(l) = k - 1 /\ \A i \in 1..(k - 1) : l[i] = s[i]
        /\ r \in Seq(S) /\ Len(r) = n - k
        /\ \A i \in 1..(n - k) : r[i] = s[k + i]
    <2>1. \A i \in 1..(k - 1) : s[i] \in S
      BY <1>1
    <2>2. \A i \in (k + 1)..n : s[i] \in S
      BY <1>1
    <2>3. /\ l \in Seq(S) /\ Len(l) = IF 1 <= k - 1 THEN (k - 1) - 1 + 1 ELSE 0
          /\ \A i \in 1..((k - 1) - 1 + 1) : l[i] = s[1 + i - 1]
      <3>1. 1 \in Int /\ k - 1 \in Int
        BY <1>1
      <3> QED
        BY <2>1, <3>1, SubSeqProperties
    <2>4. /\ r \in Seq(S) /\ Len(r) = IF k + 1 <= n THEN n - (k + 1) + 1 ELSE 0
          /\ \A i \in 1..(n - (k + 1) + 1) : r[i] = s[(k + 1) + i - 1]
      BY <1>1, <2>2, SubSeqProperties
    <2> HIDE DEF l, r
    <2>5. Len(l) = k - 1 /\ Len(r) = n - k
      <3>1. n \in Int /\ k \in Int /\ 1 <= k /\ k <= n
        BY <1>1
      <3>2. Len(l) = k - 1
        <4>1. CASE 1 <= k - 1
          BY <2>3, <3>1, <4>1
        <4>2. CASE k = 1
          BY <2>3, <4>2
        <4> QED
          BY <3>1, <4>1, <4>2
      <3>3. Len(r) = n - k
        <4>1. CASE k + 1 <= n
          BY <2>4, <3>1, <4>1
        <4>2. CASE k = n
          BY <2>4, <3>1, <4>2
        <4> QED
          BY <3>1, <4>1, <4>2
      <3> QED
        BY <3>2, <3>3
    <2>6. ASSUME NEW i \in 1..(k - 1)
          PROVE  l[i] = s[i]
      <3>1. i \in 1..((k - 1) - 1 + 1) /\ 1 + i - 1 = i
        BY <1>1
      <3> QED
        BY <2>3, <3>1
    <2>7. ASSUME NEW i \in 1..(n - k)
          PROVE  r[i] = s[k + i]
      <3>1. i \in 1..(n - (k + 1) + 1) /\ (k + 1) + i - 1 = k + i
        BY <1>1
      <3> QED
        BY <2>4, <3>1
    <2> QED
      BY <2>3, <2>4, <2>5, <2>6, <2>7
  <1>3. q = l \o r
    BY DEF RemoveAt
  <1> HIDE DEF l, r, n, q
  <1>4. /\ q \in Seq(S) /\ Len(q) = n - 1 /\ DOMAIN q = 1..(n - 1)
        /\ \A i \in 1..(n - 1) : q[i] = IF i < k THEN s[i] ELSE s[i + 1]
    <2>1. /\ q \in Seq(S) /\ Len(q) = (k - 1) + (n - k)
          /\ \A i \in 1..((k - 1) + (n - k)) :
                q[i] = IF i <= k - 1 THEN l[i] ELSE r[i - (k - 1)]
      <3>1. /\ q \in Seq(S) /\ Len(q) = Len(l) + Len(r)
            /\ \A i \in 1..(Len(l) + Len(r)) :
                  q[i] = IF i <= Len(l) THEN l[i] ELSE r[i - Len(l)]
        BY <1>2, <1>3, ConcatProperties
      <3> QED
        BY <1>2, <3>1
    <2>2. (k - 1) + (n - k) = n - 1 /\ k \in 1..n
      BY <1>1 DEF n
    <2>3. \A i \in 1..(n - 1) : q[i] = IF i < k THEN s[i] ELSE s[i + 1]
      <3>1. SUFFICES ASSUME NEW i \in 1..(n - 1)
                     PROVE  q[i] = IF i < k THEN s[i] ELSE s[i + 1]
        OBVIOUS
      <3>2. CASE i < k
        BY <1>1, <1>2, <2>1, <2>2, <3>2
      <3>3. CASE ~(i < k)
        <4>1. i - (k - 1) \in 1..(n - k) /\ k + (i - (k - 1)) = i + 1
          BY <1>1, <2>2, <3>3
        <4> QED
          BY <1>1, <1>2, <2>1, <2>2, <3>3, <4>1
      <3> QED
        BY <3>2, <3>3
    <2> QED
      BY <2>1, <2>2, <2>3, LenProperties
  <1>5. k \in 1..n
    BY DEF n
  \* The position an element of the shorter list had before.
  <1> DEFINE at(i) == IF i < k THEN i ELSE i + 1
  <1>6. \A i \in 1..(n - 1) : at(i) \in 1..n /\ at(i) # k /\ q[i] = s[at(i)]
    BY <1>1, <1>4, <1>5
  <1>7. ASSUME NEW y
        PROVE  Contains(q, y) <=> Contains(s, y) /\ y # s[k]
    <2>1. ASSUME Contains(q, y)
          PROVE  Contains(s, y) /\ y # s[k]
      <3>1. PICK i \in 1..(n - 1) : q[i] = y
        BY <1>4, <2>1 DEF Contains
      <3>2. at(i) \in 1..n /\ at(i) # k /\ s[at(i)] = y
        BY <1>6, <3>1
      <3> HIDE DEF at
      <3> QED
        BY <1>1, <1>5, <3>2 DEF Contains, IsInjective, n
    <2>2. ASSUME Contains(s, y), y # s[k]
          PROVE  Contains(q, y)
      <3>1. PICK i \in 1..n : s[i] = y
        BY <2>2 DEF Contains, n
      <3>2. i # k
        BY <2>2, <3>1
      <3>3. CASE i < k
        <4>1. i \in 1..(n - 1) /\ q[i] = s[i]
          BY <1>1, <1>4, <1>5, <3>3
        <4> QED
          BY <1>4, <3>1, <4>1 DEF Contains
      <3>4. CASE i > k
        <4>1. i - 1 \in 1..(n - 1) /\ q[i - 1] = s[i]
          BY <1>1, <1>4, <1>5, <3>4
        <4> QED
          BY <1>4, <3>1, <4>1 DEF Contains
      <3> QED
        BY <1>1, <1>5, <3>2, <3>3, <3>4
    <2> QED
      BY <2>1, <2>2
  <1>8. IsInjective(q)
    <2>1. SUFFICES ASSUME NEW i \in 1..(n - 1), NEW j \in 1..(n - 1), q[i] = q[j]
                   PROVE  i = j
      BY <1>4 DEF IsInjective
    <2>2. at(i) = at(j)
      <3>1. at(i) \in DOMAIN s /\ at(j) \in DOMAIN s /\ s[at(i)] = s[at(j)]
        BY <1>1, <1>6, <2>1
      <3> HIDE DEF at
      <3> QED
        BY <3>1 DEF IsInjective
    <2> QED
      BY <1>1, <1>5, <2>2
  <1> QED
    BY <1>4, <1>7, <1>8 DEF q, n

LEMMA ListTail ==
    ASSUME NEW S, NEW s \in Seq(S), s # <<>>, IsInjective(s)
    PROVE  /\ Contains(s, Head(s))
           /\ \A y : Contains(Tail(s), y) <=> Contains(s, y) /\ y # Head(s)
           /\ IsInjective(Tail(s))
  <1>1. /\ Len(s) \in Nat /\ Len(s) > 0 /\ DOMAIN s = 1..Len(s) /\ Head(s) = s[1]
    BY LenProperties, EmptySeq
  <1> DEFINE q == Tail(s)
  <1>2. /\ q \in Seq(S) /\ Len(q) = Len(s) - 1 /\ DOMAIN q = 1..(Len(s) - 1)
        /\ \A i \in 1..(Len(s) - 1) : q[i] = s[i + 1]
    BY HeadTailProperties, LenProperties
  <1> HIDE DEF q
  <1>3. Contains(s, Head(s))
    BY <1>1 DEF Contains
  <1>4. ASSUME NEW y
        PROVE  Contains(q, y) <=> Contains(s, y) /\ y # Head(s)
    <2>1. ASSUME Contains(q, y)
          PROVE  Contains(s, y) /\ y # Head(s)
      <3>1. PICK i \in 1..(Len(s) - 1) : q[i] = y
        BY <1>2, <2>1 DEF Contains
      <3>2. i + 1 \in 1..Len(s) /\ s[i + 1] = y /\ 1 \in 1..Len(s) /\ i + 1 # 1
        BY <1>1, <1>2, <3>1
      <3> QED
        BY <1>1, <3>2 DEF Contains, IsInjective
    <2>2. ASSUME Contains(s, y), y # Head(s)
          PROVE  Contains(q, y)
      <3>1. PICK i \in 1..Len(s) : s[i] = y
        BY <2>2 DEF Contains
      <3>2. i - 1 \in 1..(Len(s) - 1) /\ q[i - 1] = y
        BY <1>1, <1>2, <2>2, <3>1
      <3> QED
        BY <1>2, <3>2 DEF Contains
    <2> QED
      BY <2>1, <2>2
  <1>5. IsInjective(q)
    <2>1. SUFFICES ASSUME NEW i \in 1..(Len(s) - 1), NEW j \in 1..(Len(s) - 1),
                          q[i] = q[j]
                   PROVE  i = j
      BY <1>2 DEF IsInjective
    <2>2. i + 1 \in DOMAIN s /\ j + 1 \in DOMAIN s /\ s[i + 1] = s[j + 1]
      BY <1>1, <1>2, <2>1
    <2>3. i + 1 = j + 1
      BY <2>2 DEF IsInjective
    <2> QED
      BY <2>3
  <1> QED
    BY <1>3, <1>4, <1>5 DEF q

-----------------------------------------------------------------------------
(* The callbacks that are running.                                         *)

Runs(s, a) == \E n \in DOMAIN s : s[n].k = "cb" /\ s[n].a = a

RunsOnce(s) ==
    \A m, n \in DOMAIN s :
        s[m].k = "cb" /\ s[n].k = "cb" /\ s[m].a = s[n].a => m = n

LEMMA Pushed ==
    ASSUME NEW S, NEW s \in Seq(S), NEW f \in S
    PROVE  /\ <<f>> \o s \in Seq(S)
           /\ Len(<<f>> \o s) = Len(s) + 1
           /\ (<<f>> \o s)[1] = f
           /\ \A n \in 1..Len(s) : (<<f>> \o s)[n + 1] = s[n]
           /\ Head(<<f>> \o s) = f
           /\ Tail(<<f>> \o s) = s
  <1> DEFINE q == <<f>> \o s
  <1>1. <<f>> \in Seq(S) /\ Len(<<f>>) = 1 /\ <<f>>[1] = f /\ Len(s) \in Nat
    BY LenProperties
  <1>2. /\ q \in Seq(S) /\ Len(q) = Len(s) + 1 /\ q[1] = f
        /\ \A n \in 1..Len(s) : q[n + 1] = s[n]
    BY <1>1, ConcatProperties
  <1> HIDE DEF q
  <1>3. q # <<>> /\ Head(q) = f
    BY <1>1, <1>2, EmptySeq
  <1>4. /\ Tail(q) \in Seq(S) /\ Len(Tail(q)) = Len(s)
        /\ \A n \in 1..Len(s) : Tail(q)[n] = s[n]
    BY <1>1, <1>2, <1>3, HeadTailProperties
  <1>5. Tail(q) = s
    BY <1>4, SeqEqual
  <1> QED
    BY <1>2, <1>3, <1>5 DEF q

\* A sequence is its head pushed onto its tail.
LEMMA HeadOnTail ==
    ASSUME NEW S, NEW s \in Seq(S), s # <<>>
    PROVE  s = <<Head(s)>> \o Tail(s)
  <1> DEFINE q == <<Head(s)>> \o Tail(s)
  <1>1. /\ Len(s) \in Nat /\ Len(s) > 0 /\ Head(s) = s[1] /\ Head(s) \in S
        /\ Tail(s) \in Seq(S) /\ Len(Tail(s)) = Len(s) - 1
        /\ \A i \in 1..Len(Tail(s)) : Tail(s)[i] = s[i + 1]
    BY LenProperties, EmptySeq, HeadTailProperties
  <1>2. /\ q \in Seq(S) /\ Len(q) = Len(Tail(s)) + 1 /\ q[1] = Head(s)
        /\ \A n \in 1..Len(Tail(s)) : q[n + 1] = Tail(s)[n]
    BY <1>1, Pushed
  <1> HIDE DEF q
  <1>3. ASSUME NEW i \in 1..Len(s)
        PROVE  s[i] = q[i]
    <2>1. CASE i = 1
      BY <1>1, <1>2, <2>1
    <2>2. CASE i # 1
      <3>1. i - 1 \in 1..Len(Tail(s)) /\ (i - 1) + 1 = i
        BY <1>1, <2>2
      <3>2. q[(i - 1) + 1] = Tail(s)[i - 1] /\ Tail(s)[i - 1] = s[(i - 1) + 1]
        BY <1>1, <1>2, <3>1
      <3> QED
        BY <3>1, <3>2
    <2> QED
      BY <2>1, <2>2
  <1>4. Len(s) = Len(q)
    BY <1>1, <1>2
  <1>5. s = q
    BY <1>2, <1>3, <1>4, SeqEqual
  <1> QED
    BY <1>5 DEF q

LEMMA RunsPush ==
    ASSUME NEW s \in Seq(GoodFrames), NEW f \in GoodFrames
    PROVE  /\ \A a : Runs(<<f>> \o s, a) <=> Runs(s, a) \/ (f.k = "cb" /\ f.a = a)
           /\ RunsOnce(<<f>> \o s) <=>
                 RunsOnce(s) /\ (f.k = "cb" => ~Runs(s, f.a))
  <1> DEFINE q == <<f>> \o s
  <1>1. /\ Len(s) \in Nat /\ DOMAIN s = 1..Len(s)
        /\ q \in Seq(GoodFrames) /\ DOMAIN q = 1..(Len(s) + 1)
        /\ q[1] = f /\ \A n \in 1..Len(s) : q[n + 1] = s[n]
    BY Pushed, LenProperties
  <1> HIDE DEF q
  <1>2. /\ 1 \in DOMAIN q
        /\ \A n \in DOMAIN s : n + 1 \in DOMAIN q /\ q[n + 1] = s[n] /\ n + 1 # 1
        /\ \A n \in DOMAIN q : n # 1 => n - 1 \in DOMAIN s /\ q[n] = s[n - 1]
    <2>1. \A n \in DOMAIN q : n # 1 =>
             n - 1 \in 1..Len(s) /\ (n - 1) + 1 = n
      BY <1>1
    <2>2. \A n \in 1..Len(s) : n + 1 \in 1..(Len(s) + 1) /\ n + 1 # 1
      BY <1>1
    <2> QED
      BY <1>1, <2>1, <2>2
  <1>3. ASSUME NEW a
        PROVE  Runs(q, a) <=> Runs(s, a) \/ (f.k = "cb" /\ f.a = a)
    <2>1. ASSUME Runs(q, a)
          PROVE  Runs(s, a) \/ (f.k = "cb" /\ f.a = a)
      <3>1. PICK n \in DOMAIN q : q[n].k = "cb" /\ q[n].a = a
        BY <2>1 DEF Runs
      <3>2. CASE n = 1
        BY <1>1, <3>1, <3>2
      <3>3. CASE n # 1
        <4>1. n - 1 \in DOMAIN s /\ s[n - 1].k = "cb" /\ s[n - 1].a = a
          BY <1>2, <3>1, <3>3
        <4>2. Runs(s, a)
          BY <4>1, Zenon DEF Runs
        <4> QED
          BY <4>2
      <3> QED
        BY <3>2, <3>3
    <2>2. ASSUME Runs(s, a)
          PROVE  Runs(q, a)
      <3>1. PICK n \in DOMAIN s : s[n].k = "cb" /\ s[n].a = a
        BY <2>2 DEF Runs
      <3>2. n + 1 \in DOMAIN q /\ q[n + 1].k = "cb" /\ q[n + 1].a = a
        BY <1>2, <3>1
      <3> QED
        BY <3>2 DEF Runs
    <2>3. ASSUME f.k = "cb", f.a = a
          PROVE  Runs(q, a)
      BY <1>1, <1>2, <2>3 DEF Runs
    <2> QED
      BY <2>1, <2>2, <2>3
  <1>4. ASSUME RunsOnce(s), f.k = "cb" => ~Runs(s, f.a)
        PROVE  RunsOnce(q)
    <2>1. SUFFICES ASSUME NEW m \in DOMAIN q, NEW n \in DOMAIN q,
                          q[m].k = "cb", q[n].k = "cb", q[m].a = q[n].a
                   PROVE  m = n
      BY DEF RunsOnce
    <2>2. CASE m = 1 /\ n # 1
      BY <1>1, <1>2, <1>4, <2>1, <2>2 DEF Runs
    <2>3. CASE n = 1 /\ m # 1
      BY <1>1, <1>2, <1>4, <2>1, <2>3 DEF Runs
    <2>4. CASE m # 1 /\ n # 1
      <3>1. m - 1 \in DOMAIN s /\ n - 1 \in DOMAIN s /\ q[m] = s[m - 1]
            /\ q[n] = s[n - 1]
        BY <1>2, <2>4
      <3>2. m - 1 = n - 1
        BY <1>4, <2>1, <3>1 DEF RunsOnce
      <3> QED
        BY <1>1, <3>2
    <2> QED
      BY <2>2, <2>3, <2>4
  <1>5. ASSUME RunsOnce(q)
        PROVE  RunsOnce(s) /\ (f.k = "cb" => ~Runs(s, f.a))
    <2>1. RunsOnce(s)
      <3>1. SUFFICES ASSUME NEW m \in DOMAIN s, NEW n \in DOMAIN s,
                            s[m].k = "cb", s[n].k = "cb", s[m].a = s[n].a
                     PROVE  m = n
        BY DEF RunsOnce
      <3>2. m + 1 = n + 1
        BY <1>2, <1>5, <3>1 DEF RunsOnce
      <3> QED
        BY <1>1, <3>2
    <2>2. ASSUME f.k = "cb", Runs(s, f.a)
          PROVE  FALSE
      <3>1. PICK n \in DOMAIN s : s[n].k = "cb" /\ s[n].a = f.a
        BY <2>2 DEF Runs
      <3>2. n + 1 = 1
        BY <1>1, <1>2, <1>5, <2>2, <3>1 DEF RunsOnce
      <3> QED
        BY <1>2, <3>2
    <2> QED
      BY <2>1, <2>2
  <1> QED
    BY <1>3, <1>4, <1>5 DEF q

LEMMA RunsPop ==
    ASSUME NEW s \in Stacks
    PROVE  /\ \A a : Runs(s, a) <=>
                        Runs(Tail(s), a) \/ (Head(s).k = "cb" /\ Head(s).a = a)
           /\ RunsOnce(s) <=> /\ RunsOnce(Tail(s))
                              /\ Head(s).k = "cb" => ~Runs(Tail(s), Head(s).a)
  <1> DEFINE f == Head(s)
             r == Tail(s)
  <1>1. s \in Seq(GoodFrames) /\ s # <<>> /\ f \in GoodFrames
    BY StackTop
  <1>2. r \in Seq(GoodFrames)
    BY <1>1, HeadTailProperties
  <1>3. s = <<f>> \o r
    BY <1>1, HeadOnTail
  <1> HIDE DEF f, r
  <1>4. /\ \A a : Runs(<<f>> \o r, a) <=> Runs(r, a) \/ (f.k = "cb" /\ f.a = a)
        /\ RunsOnce(<<f>> \o r) <=>
              RunsOnce(r) /\ (f.k = "cb" => ~Runs(r, f.a))
    BY <1>1, <1>2, RunsPush
  <1>5. /\ \A a : Runs(s, a) <=> Runs(r, a) \/ (f.k = "cb" /\ f.a = a)
        /\ RunsOnce(s) <=> RunsOnce(r) /\ (f.k = "cb" => ~Runs(r, f.a))
    BY <1>3, <1>4, Zenon
  <1> QED
    BY <1>5, Zenon DEF f, r

\* Two stacks on which the same callbacks run.
SameCallbacks(s, q) ==
    /\ \A a : Runs(q, a) <=> Runs(s, a)
    /\ RunsOnce(q) <=> RunsOnce(s)

LEMMA SameTwice ==
    ASSUME NEW s, NEW q, NEW r, SameCallbacks(s, q), SameCallbacks(q, r)
    PROVE  SameCallbacks(s, r)
  BY Zenon DEF SameCallbacks

LEMMA SamePush ==
    ASSUME NEW s \in Seq(GoodFrames), NEW f \in GoodFrames, f.k # "cb"
    PROVE  SameCallbacks(s, <<f>> \o s)
  <1>1. /\ \A a : Runs(<<f>> \o s, a) <=> Runs(s, a) \/ (f.k = "cb" /\ f.a = a)
        /\ RunsOnce(<<f>> \o s) <=>
              RunsOnce(s) /\ (f.k = "cb" => ~Runs(s, f.a))
    BY RunsPush
  <1>2. \A a : Runs(<<f>> \o s, a) <=> Runs(s, a)
    BY <1>1, Zenon
  <1>3. RunsOnce(<<f>> \o s) <=> RunsOnce(s)
    BY <1>1, Zenon
  <1> QED
    BY <1>2, <1>3, Zenon DEF SameCallbacks

LEMMA SamePop ==
    ASSUME NEW s \in Stacks, Head(s).k # "cb"
    PROVE  SameCallbacks(s, Tail(s))
  <1>1. /\ \A a : Runs(s, a) <=>
                     Runs(Tail(s), a) \/ (Head(s).k = "cb" /\ Head(s).a = a)
        /\ RunsOnce(s) <=> /\ RunsOnce(Tail(s))
                           /\ Head(s).k = "cb" => ~Runs(Tail(s), Head(s).a)
    BY RunsPop
  <1>2. \A a : Runs(Tail(s), a) <=> Runs(s, a)
    BY <1>1, Zenon
  <1>3. RunsOnce(Tail(s)) <=> RunsOnce(s)
    BY <1>1, Zenon
  <1> QED
    BY <1>2, <1>3, Zenon DEF SameCallbacks

\* The ways in which every step but the start and the end of a callback
\* changes the stack.
LEMMA QuietStack ==
    ASSUME NEW s \in Stacks, NEW f \in GoodFrames, NEW g \in GoodFrames,
           f.k # "cb", g.k # "cb"
    PROVE  /\ SameCallbacks(s, s)
           /\ SameCallbacks(s, <<f>> \o s)
           /\ SameCallbacks(s, <<f, g>> \o s)
           /\ Head(s).k # "cb" => /\ SameCallbacks(s, Tail(s))
                                  /\ SameCallbacks(s, <<f>> \o Tail(s))
                                  /\ SameCallbacks(s, <<f, g>> \o Tail(s))
  <1>1. s \in Seq(GoodFrames) /\ Tail(s) \in Seq(GoodFrames)
    BY StackTop, HeadTailProperties
  <1>2. SameCallbacks(s, s)
    BY Zenon DEF SameCallbacks
  <1>3. ASSUME NEW q \in Seq(GoodFrames), SameCallbacks(s, q)
        PROVE  /\ SameCallbacks(s, <<f>> \o q)
               /\ SameCallbacks(s, <<f, g>> \o q)
    <2>1. <<g>> \o q \in Seq(GoodFrames)
      BY Pushed
    <2>2. SameCallbacks(q, <<f>> \o q) /\ SameCallbacks(q, <<g>> \o q)
          /\ SameCallbacks(<<g>> \o q, <<f>> \o (<<g>> \o q))
      BY <2>1, SamePush
    <2>3. SameCallbacks(s, <<f>> \o (<<g>> \o q))
      <3>1. SameCallbacks(s, <<g>> \o q)
        BY <1>3, <2>2, SameTwice
      <3> QED
        BY <2>2, <3>1, SameTwice
    <2>4. <<f, g>> \o q = <<f>> \o (<<g>> \o q)
      BY StackTwo
    <2>5. SameCallbacks(s, <<f>> \o q)
      BY <1>3, <2>2, SameTwice
    <2>6. SameCallbacks(s, <<f, g>> \o q)
      BY <2>3, <2>4
    <2> QED
      BY <2>5, <2>6
  <1>4. Head(s).k # "cb" => SameCallbacks(s, Tail(s))
    BY SamePop
  <1> QED
    BY <1>1, <1>2, <1>3, <1>4

-----------------------------------------------------------------------------
(* The invariant.                                                          *)

\* No block is twice on a list, and no callback runs twice at a time.
Lists == IsInjective(first_aio) /\ IsInjective(request_list) /\ RunsOnce(stack)

\* A block is free, or on first_aio, or its callback is running.
Placed ==
    \A a \in Acbs :
        /\ a \in free => ~Contains(first_aio, a)
        /\ Runs(stack, a) => a \notin free /\ ~Contains(first_aio, a)
        /\ a \in free \/ Contains(first_aio, a) \/ Runs(stack, a)

\* What waits for a worker is submitted, and so far untouched; what was
\* submitted has the signal number set.
Queued ==
    \A a \in Acbs :
        /\ Contains(request_list, a) <=> Contains(first_aio, a) /\ ~active[a]
        /\ Contains(request_list, a) => ret[a] = "in_progress"
        /\ Contains(first_aio, a) => ev_signo[a] = "SIGUSR2"

\* A worker's request is its own until the worker has stored the result.
\* From then on the block may be recycled, but its ev_signo remains.
Jobs ==
    \A t \in Threads :
        /\ pc[t] \in {"io", "kill"} =>
              job[t] \in Acbs /\ ev_signo[job[t]] = "SIGUSR2"
        /\ pc[t] = "io" =>
              /\ Contains(first_aio, job[t])
              /\ active[job[t]] /\ ret[job[t]] = "in_progress"
              /\ \A u \in Threads \ {t} : pc[u] = "io" => job[u] # job[t]

OwnInv == Lists /\ Placed /\ Queued /\ Jobs

-----------------------------------------------------------------------------
(* Steps that move no request.                                             *)

LEMMA QuietOwn ==
    ASSUME OwnInv, SameCallbacks(stack, stack'), UNCHANGED requestVars,
           \A t \in Threads : pc'[t] \in {"io", "kill"} =>
                                 pc'[t] = pc[t] /\ job'[t] = job[t]
    PROVE  OwnInv'
  <1>1. UNCHANGED <<ret, active, ev_signo, free, first_aio, request_list>>
    BY DEF requestVars, acbVars, idVars
  <1>2. /\ \A a : Runs(stack', a) <=> Runs(stack, a)
        /\ RunsOnce(stack') <=> RunsOnce(stack)
    BY Zenon DEF SameCallbacks
  <1>3. Lists'
    BY <1>1, <1>2 DEF OwnInv, Lists
  <1>4. Placed'
    BY <1>1, <1>2 DEF OwnInv, Placed
  <1>5. Queued'
    BY <1>1 DEF OwnInv, Queued
  <1>6. Jobs'
    BY <1>1 DEF OwnInv, Jobs
  <1> QED
    BY <1>3, <1>4, <1>5, <1>6 DEF OwnInv

-----------------------------------------------------------------------------
(* A request is submitted.                                                 *)

LEMMA SubmitCallbacks ==
    ASSUME TypeInv, NEW a \in Acbs, Submit(a)
    PROVE  SameCallbacks(stack, stack')
  <1>1. context \in Contexts /\ stack \in Stacks
    BY TopType DEF TypeInv
  <1>2. \A c \in Contexts : Signal(c) \in GoodFrames /\ Signal(c).k # "cb"
    BY SignalType DEF Signal, Frame
  <1>3. CASE AioRw(a) \/ AioIoctl(a)
    BY <1>1, <1>2, <1>3, QuietStack DEF AioRw, AioIoctl, Push
  <1>4. CASE RwEm(a)
    <2>1. context + 1 \in Contexts
      BY <1>1, <1>4, MaxContextAssumption DEF RwEm, Contexts
    <2> DEFINE g == Frame("em", a, POLL, context + 1)
    <2>2. g \in GoodFrames /\ g.k # "cb"
      BY <2>1, FrameType DEF POLL, FrameKinds
    <2>3. stack' = <<Signal(context + 1), g>> \o stack
      BY <1>4 DEF RwEm
    <2> HIDE DEF g
    <2> QED
      BY <1>1, <1>2, <2>1, <2>2, <2>3, QuietStack
  <1> QED
    BY <1>3, <1>4 DEF Submit

LEMMA SubmitOwn ==
    ASSUME TypeInv, OwnInv, NEW a \in Acbs, Submit(a)
    PROVE  OwnInv'
  <1>1. /\ a \in free /\ free' = free \ {a}
        /\ first_aio' = <<a>> \o first_aio
        /\ request_list' = Append(request_list, a)
        /\ ret' = [ret EXCEPT ![a] = "in_progress"]
        /\ active' = [active EXCEPT ![a] = FALSE]
        /\ ev_signo' = [ev_signo EXCEPT ![a] = "SIGUSR2"]
        /\ job' = job
    BY DEF Submit, AioRw, AioIoctl, RwEm, PaioSubmit, PaioIoctl, PaioStart,
       QemuAioGet, QemuPaioSubmit, SubmitSigno
  <1>2. \A t \in Threads : pc'[t] \in {"io", "kill"} => pc'[t] = pc[t]
    <2>1. QemuPaioSubmit(a)
      BY SubmitSignals
    <2>2. CASE SpawnThread
      BY <2>2 DEF SpawnThread, TypeInv, AccountingInv
    <2>3. CASE pc' = pc
      BY <2>3
    <2> QED
      BY <2>1, <2>2, <2>3 DEF QemuPaioSubmit
  <1>3. ~Contains(first_aio, a) /\ ~Contains(request_list, a) /\ ~Runs(stack, a)
    BY <1>1 DEF OwnInv, Placed, Queued
  <1>4. /\ first_aio \in Seq(Acbs) /\ request_list \in Seq(Acbs)
        /\ \A b \in Acbs : /\ ret'[b] = IF b = a THEN "in_progress" ELSE ret[b]
                           /\ active'[b] = IF b = a THEN FALSE ELSE active[b]
                           /\ ev_signo'[b] = IF b = a THEN "SIGUSR2"
                                             ELSE ev_signo[b]
    BY <1>1 DEF TypeInv, RequestsOK
  <1>5. /\ \A b : Contains(first_aio', b) <=> b = a \/ Contains(first_aio, b)
        /\ IsInjective(first_aio')
    BY <1>1, <1>3, <1>4, ListPush DEF OwnInv, Lists
  <1>6. /\ \A b : Contains(request_list', b) <=>
                     b = a \/ Contains(request_list, b)
        /\ IsInjective(request_list')
    BY <1>1, <1>3, <1>4, ListAppend DEF OwnInv, Lists
  <1>7. /\ \A b : Runs(stack', b) <=> Runs(stack, b)
        /\ RunsOnce(stack') <=> RunsOnce(stack)
    BY SubmitCallbacks, Zenon DEF SameCallbacks
  <1>8. Lists'
    BY <1>5, <1>6, <1>7 DEF OwnInv, Lists
  <1>9. Placed'
    BY <1>1, <1>3, <1>5, <1>7 DEF OwnInv, Placed
  <1>10. Queued'
    BY <1>4, <1>5, <1>6 DEF OwnInv, Queued
  <1>11. Jobs'
    <2>1. \A t \in Threads : pc'[t] \in {"io", "kill"} =>
             job'[t] \in Acbs /\ ev_signo'[job'[t]] = "SIGUSR2"
      BY <1>1, <1>2, <1>4 DEF OwnInv, Jobs
    <2>2. ASSUME NEW t \in Threads, pc'[t] = "io"
          PROVE  /\ Contains(first_aio', job'[t])
                 /\ active'[job'[t]] /\ ret'[job'[t]] = "in_progress"
                 /\ \A u \in Threads \ {t} : pc'[u] = "io" => job'[u] # job'[t]
      <3>1. pc[t] = "io" /\ \A u \in Threads : pc'[u] = "io" => pc[u] = "io"
        BY <1>2, <2>2
      <3>2. /\ job[t] \in Acbs /\ Contains(first_aio, job[t])
            /\ active[job[t]] /\ ret[job[t]] = "in_progress"
            /\ \A u \in Threads \ {t} : pc[u] = "io" => job[u] # job[t]
        BY <3>1 DEF OwnInv, Jobs
      <3>3. job[t] # a
        BY <1>3, <3>2
      <3> QED
        BY <1>1, <1>4, <1>5, <3>1, <3>2, <3>3
    <2> QED
      BY <2>1, <2>2 DEF Jobs
  <1> QED
    BY <1>8, <1>9, <1>10, <1>11 DEF OwnInv

-----------------------------------------------------------------------------
(* A request leaves first_aio.                                             *)

\* It is released, and with it leaves request_list if it was there.
LEMMA ReleaseOwn ==
    ASSUME OwnInv, NEW a \in Acbs, Contains(first_aio, a),
           IsInjective(first_aio'), IsInjective(request_list'),
           \A b : Contains(first_aio', b) <=> Contains(first_aio, b) /\ b # a,
           \A b : Contains(request_list', b) <=>
                     Contains(request_list, b) /\ b # a,
           free' = free \cup {a},
           SameCallbacks(stack, stack'),
           \A t \in Threads : pc[t] = "io" => job[t] # a,
           \A b \in Acbs \ {a} : ret'[b] = ret[b],
           UNCHANGED <<active, ev_signo, pc, job>>
    PROVE  OwnInv'
  <1>1. /\ \A b : Runs(stack', b) <=> Runs(stack, b)
        /\ RunsOnce(stack') <=> RunsOnce(stack)
    BY Zenon DEF SameCallbacks
  <1>2. ~Runs(stack, a)
    BY DEF OwnInv, Placed
  <1>3. Lists'
    BY <1>1 DEF OwnInv, Lists
  <1>4. Placed'
    BY <1>1, <1>2 DEF OwnInv, Placed
  <1>5. Queued'
    BY DEF OwnInv, Queued
  <1>6. Jobs'
    BY DEF OwnInv, Jobs
  <1> QED
    BY <1>3, <1>4, <1>5, <1>6 DEF OwnInv

\* A request with a result is in nobody else's hands.
LEMMA FinishedAlone ==
    ASSUME OwnInv, NEW a \in Acbs, ret[a] # "in_progress"
    PROVE  /\ ~Contains(request_list, a)
           /\ \A t \in Threads : pc[t] = "io" => job[t] # a
  BY DEF OwnInv, Queued, Jobs

LEMMA FinishedOwn ==
    ASSUME OwnInv, NEW a \in Acbs, Contains(first_aio, a),
           ret[a] # "in_progress", IsInjective(first_aio'),
           \A b : Contains(first_aio', b) <=> Contains(first_aio, b) /\ b # a,
           free' = free \cup {a},
           SameCallbacks(stack, stack'),
           UNCHANGED <<ret, active, ev_signo, request_list, pc, job>>
    PROVE  OwnInv'
  <1>1. /\ ~Contains(request_list, a)
        /\ \A t \in Threads : pc[t] = "io" => job[t] # a
    BY FinishedAlone
  <1>2. /\ \A b : Contains(request_list', b) <=>
                     Contains(request_list, b) /\ b # a
        /\ IsInjective(request_list')
    BY <1>1 DEF OwnInv, Lists
  <1> QED
    BY <1>1, <1>2, ReleaseOwn

LEMMA RemoveOwn ==
    ASSUME RequestsOK, OwnInv, NEW a \in Acbs, Contains(first_aio, a),
           PaioRemove(a)
    PROVE  /\ \A b : Contains(first_aio', b) <=> Contains(first_aio, b) /\ b # a
           /\ IsInjective(first_aio')
           /\ free' = free \cup {a}
  <1>1. PICK i \in DOMAIN first_aio :
           first_aio[i] = a /\ first_aio' = RemoveAt(first_aio, i)
    BY DEF PaioRemove
  <1>2. first_aio \in Seq(Acbs) /\ i \in 1..Len(first_aio)
    BY <1>1, LenProperties DEF RequestsOK
  <1>3. free' = free \cup {a}
    BY DEF PaioRemove
  <1> QED
    BY <1>1, <1>2, <1>3, ListRemove DEF OwnInv, Lists

LEMMA CancelOwn ==
    ASSUME TypeInv, OwnInv, NEW a \in Acbs, Cancel(a)
    PROVE  OwnInv'
  <1>1. RequestsOK /\ stack \in Stacks /\ Contains(first_aio, a)
        /\ context \in Contexts
    BY TopType DEF TypeInv, Cancel, CancelQueued, CancelFinished, CancelActive,
       Cancellable
  <1>2. SameCallbacks(stack, stack)
    BY Zenon DEF SameCallbacks
  <1>3. CASE CancelQueued(a)
    <2>1. PICK i \in DOMAIN request_list :
             request_list[i] = a /\ request_list' = RemoveAt(request_list, i)
      BY <1>3 DEF CancelQueued
    <2>2. request_list \in Seq(Acbs) /\ i \in 1..Len(request_list)
      BY <1>1, <2>1, LenProperties DEF RequestsOK
    <2>3. /\ \A b : Contains(request_list', b) <=>
                       Contains(request_list, b) /\ b # a
          /\ IsInjective(request_list')
      BY <2>1, <2>2, ListRemove DEF OwnInv, Lists
    <2>4. /\ PaioRemove(a) /\ ~active[a]
          /\ UNCHANGED <<active, ev_signo, pc, job, stack>>
          /\ \A b \in Acbs \ {a} : ret'[b] = ret[b]
      BY <1>1, <1>3 DEF CancelQueued, idVars, threadVars, RequestsOK
    <2>5. \A t \in Threads : pc[t] = "io" => job[t] # a
      BY <2>4 DEF OwnInv, Jobs
    <2>6. /\ \A b : Contains(first_aio', b) <=> Contains(first_aio, b) /\ b # a
          /\ IsInjective(first_aio')
          /\ free' = free \cup {a}
      BY <1>1, <2>4, RemoveOwn
    <2>7. SameCallbacks(stack, stack')
      BY <1>2, <2>4
    <2> QED
      BY <1>1, <2>3, <2>4, <2>5, <2>6, <2>7, ReleaseOwn
  <1>4. CASE CancelFinished(a)
    <2>1. /\ PaioRemove(a) /\ ret[a] # "in_progress"
          /\ UNCHANGED <<ret, active, ev_signo, request_list, pc, job, stack>>
      BY <1>4 DEF CancelFinished, StillActive, idVars, threadVars
    <2>2. /\ \A b : Contains(first_aio', b) <=> Contains(first_aio, b) /\ b # a
          /\ IsInjective(first_aio')
          /\ free' = free \cup {a}
      BY <1>1, <2>1, RemoveOwn
    <2>3. SameCallbacks(stack, stack')
      BY <1>2, <2>1
    <2> QED
      BY <1>1, <2>1, <2>2, <2>3, FinishedOwn
  <1>5. CASE CancelActive(a)
    <2> DEFINE f == Frame("cancel", a, 0, context)
    <2>1. f \in GoodFrames /\ f.k # "cb"
      BY <1>1, FrameType DEF FrameKinds
    <2>2. stack' = <<f>> \o stack /\ UNCHANGED <<requestVars, pc, job>>
      BY <1>5 DEF CancelActive, Push, threadVars
    <2> HIDE DEF f
    <2>3. SameCallbacks(stack, stack')
      BY <1>1, <2>1, <2>2, QuietStack
    <2> QED
      BY <2>2, <2>3, QuietOwn
  <1> QED
    BY <1>3, <1>4, <1>5 DEF Cancel

-----------------------------------------------------------------------------
(* The workers.                                                            *)

LEMMA TakeOwn ==
    ASSUME TypeInv, OwnInv, NEW t \in Threads, AioThreadTake(t)
    PROVE  OwnInv'
  <1> DEFINE a == Head(request_list)
  <1>1. request_list \in Seq(Acbs) /\ request_list # <<>> /\ a \in Acbs
    BY HeadTailProperties DEF AioThreadTake, TypeInv, RequestsOK
  <1>2. /\ Contains(request_list, a)
        /\ \A b : Contains(Tail(request_list), b) <=>
                     Contains(request_list, b) /\ b # a
        /\ IsInjective(Tail(request_list))
    BY <1>1, ListTail DEF OwnInv, Lists
  <1>3. /\ request_list' = Tail(request_list)
        /\ job' = [job EXCEPT ![t] = a]
        /\ pc' = [pc EXCEPT ![t] = "io"]
        /\ active' = [active EXCEPT ![a] = TRUE]
        /\ UNCHANGED <<ret, ev_signo, free, first_aio, stack>>
    BY DEF AioThreadTake, MarkActive, idVars
  <1> HIDE DEF a
  <1>4. /\ Contains(first_aio, a) /\ ~active[a] /\ ret[a] = "in_progress"
        /\ ev_signo[a] = "SIGUSR2"
    BY <1>1, <1>2 DEF OwnInv, Queued
  <1>5. /\ \A b \in Acbs : active'[b] = IF b = a THEN TRUE ELSE active[b]
        /\ \A u \in Threads : /\ job'[u] = IF u = t THEN a ELSE job[u]
                              /\ pc'[u] = IF u = t THEN "io" ELSE pc[u]
    BY <1>3 DEF TypeInv, RequestsOK, MainOK, AccountingInv
  <1>6. \A u \in Threads : pc[u] = "io" => job[u] # a
    BY <1>4 DEF OwnInv, Jobs
  <1>7. Lists'
    BY <1>2, <1>3 DEF OwnInv, Lists
  <1>8. Placed'
    BY <1>3 DEF OwnInv, Placed
  <1>9. Queued'
    BY <1>2, <1>3, <1>5 DEF OwnInv, Queued
  <1>10. Jobs'
    <2>1. ASSUME NEW u \in Threads, u # t
          PROVE  /\ pc'[u] \in {"io", "kill"} =>
                       job'[u] \in Acbs /\ ev_signo'[job'[u]] = "SIGUSR2"
                 /\ pc'[u] = "io" =>
                       /\ Contains(first_aio', job'[u])
                       /\ active'[job'[u]] /\ ret'[job'[u]] = "in_progress"
                       /\ \A v \in Threads \ {u} :
                             pc'[v] = "io" => job'[v] # job'[u]
      BY <1>3, <1>5, <1>6, <2>1 DEF OwnInv, Jobs
    <2>2. /\ job'[t] = a /\ ev_signo'[a] = "SIGUSR2"
          /\ Contains(first_aio', a) /\ active'[a] /\ ret'[a] = "in_progress"
          /\ \A v \in Threads \ {t} : pc'[v] = "io" => job'[v] # a
      BY <1>1, <1>3, <1>4, <1>5, <1>6
    <2> QED
      BY <1>1, <2>1, <2>2 DEF Jobs
  <1> QED
    BY <1>7, <1>8, <1>9, <1>10 DEF OwnInv

LEMMA FinishOwn ==
    ASSUME TypeInv, OwnInv, NEW t \in Threads, AioThreadFinish(t)
    PROVE  OwnInv'
  <1> DEFINE a == job[t]
  <1>1. PICK o \in Outcomes : ret' = [ret EXCEPT ![a] = o]
    BY DEF AioThreadFinish
  <1>2. /\ pc[t] = "io" /\ pc' = [pc EXCEPT ![t] = "kill"]
        /\ UNCHANGED <<active, ev_signo, free, first_aio, request_list, job,
                       stack>>
    BY DEF AioThreadFinish, idVars
  <1>3. /\ a \in Acbs /\ active[a] /\ Contains(first_aio, a)
        /\ \A u \in Threads \ {t} : pc[u] = "io" => job[u] # a
    BY <1>2 DEF OwnInv, Jobs
  <1>4. /\ \A b \in Acbs \ {a} : ret'[b] = ret[b]
        /\ \A u \in Threads : pc'[u] = IF u = t THEN "kill" ELSE pc[u]
    BY <1>1, <1>2 DEF TypeInv, RequestsOK, AccountingInv
  <1>5. ~Contains(request_list, a)
    BY <1>3 DEF OwnInv, Queued
  <1> HIDE DEF a
  <1>6. Lists' /\ Placed'
    BY <1>2 DEF OwnInv, Lists, Placed
  <1>7. Queued'
    BY <1>2, <1>4, <1>5 DEF OwnInv, Queued
  <1>8. Jobs'
    <2>1. \A u \in Threads : pc'[u] \in {"io", "kill"} =>
             job'[u] \in Acbs /\ ev_signo'[job'[u]] = "SIGUSR2"
      BY <1>2, <1>4 DEF OwnInv, Jobs
    <2>2. ASSUME NEW u \in Threads, pc'[u] = "io"
          PROVE  /\ Contains(first_aio', job'[u])
                 /\ active'[job'[u]] /\ ret'[job'[u]] = "in_progress"
                 /\ \A v \in Threads \ {u} : pc'[v] = "io" => job'[v] # job'[u]
      <3>1. u # t /\ pc[u] = "io"
        BY <1>4, <2>2
      <3>2. job[u] # a /\ job[u] \in Acbs
        BY <1>3, <3>1 DEF OwnInv, Jobs
      <3> QED
        BY <1>2, <1>4, <3>1, <3>2 DEF OwnInv, Jobs
    <2> QED
      BY <2>1, <2>2 DEF Jobs
  <1> QED
    BY <1>6, <1>7, <1>8 DEF OwnInv

LEMMA WorkerOwn ==
    ASSUME TypeInv, OwnInv, NEW t \in Threads, Worker(t) \/ AioThreadWakes(t)
    PROVE  OwnInv'
  <1>1. CASE AioThreadTake(t)
    BY <1>1, TakeOwn
  <1>2. CASE AioThreadFinish(t)
    BY <1>2, FinishOwn
  <1>3. CASE AioThreadWait(t) \/ AioThreadWakes(t) \/ AioThreadExit(t)
             \/ AioThreadKill(t)
    <2>1. UNCHANGED <<requestVars, stack>>
      BY <1>3 DEF AioThreadWait, AioThreadWakes, AioThreadExit, AioThreadKill
    <2>2. PICK s \in {"wait", "timedout", "woken", "dead", "start"} :
             pc' = [pc EXCEPT ![t] = s]
      BY <1>3 DEF AioThreadWait, AioThreadWakes, AioThreadExit, AioThreadKill
    <2>3. job' = job \/ job' = [job EXCEPT ![t] = Nobody]
      BY <1>3 DEF AioThreadWait, AioThreadWakes, AioThreadExit, AioThreadKill
    <2>4. \A u \in Threads : pc'[u] \in {"io", "kill"} =>
             pc'[u] = pc[u] /\ job'[u] = job[u]
      BY <2>2, <2>3 DEF TypeInv, AccountingInv, MainOK
    <2>5. SameCallbacks(stack, stack')
      BY <2>1, Zenon DEF SameCallbacks
    <2> QED
      BY <2>1, <2>4, <2>5, QuietOwn
  <1> QED
    BY <1>1, <1>2, <1>3 DEF Worker

-----------------------------------------------------------------------------
(* The main thread.                                                        *)

LEMMA GotoSame ==
    ASSUME stack \in Stacks, NEW i \in Nat, Top.k = "walk" => i > 0,
           Top.k # "cb"
    PROVE  SameCallbacks(stack, Goto(i))
  <1> DEFINE f == [Top EXCEPT !.i = i]
  <1>1. f \in GoodFrames /\ f.k # "cb"
    BY TopType DEF GoodFrames, Frames
  <1>2. Goto(i) = <<f>> \o Tail(stack) /\ Head(stack).k # "cb"
    BY DEF Goto, Top
  <1> HIDE DEF f
  <1> QED
    BY <1>1, <1>2, QuietStack

LEMMA CallSame ==
    ASSUME stack \in Stacks, NEW i \in Nat, Top.k \notin {"walk", "cb"}
    PROVE  SameCallbacks(stack, Call(i, Walk))
  <1> DEFINE g == [Top EXCEPT !.i = i]
             f == Walk
  <1>1. g \in GoodFrames /\ g.k # "cb"
    BY TopType DEF GoodFrames, Frames
  <1>2. f \in GoodFrames /\ f.k # "cb"
    BY TopType DEF Walk, Frame, Frames, FrameKinds, GoodFrames
  <1>3. Call(i, Walk) = <<f, g>> \o Tail(stack) /\ Head(stack).k # "cb"
    BY DEF Call, Top
  <1> HIDE DEF f, g
  <1> QED
    BY <1>1, <1>2, <1>3, QuietStack

LEMMA PopSame ==
    ASSUME stack \in Stacks, Top.k # "cb"
    PROVE  SameCallbacks(stack, Tail(stack))
  BY SamePop DEF Top

\* posix_aio_process_queue ends.
LEMMA WalkEndSame ==
    ASSUME stack \in Stacks, WalkEnd
    PROVE  SameCallbacks(stack, stack')
  <1>1. /\ Tail(stack) \in Stacks /\ stack[2] = Head(Tail(stack))
        /\ SameCallbacks(stack, Tail(stack))
    BY PopType, PopSame DEF WalkEnd
  <1>2. CASE WaitReturns(stack[2])
    <2> DEFINE q == Tail(stack)
               f == [stack[2] EXCEPT !.i = WAITED]
    <2>1. q \in Stacks /\ stack[2] = Head(q) /\ stack[2] \in GoodFrames
          /\ SameCallbacks(stack, q)
      BY <1>1, StackTop
    <2>2. f \in GoodFrames /\ f.k # "cb" /\ Head(q).k # "cb"
      BY <1>2, <2>1 DEF WaitReturns, WAITED, GoodFrames, Frames
    <2>3. stack' = <<f>> \o Tail(q)
      BY <1>2 DEF WalkEnd
    <2> HIDE DEF f, q
    <2>4. SameCallbacks(q, stack')
      BY <2>1, <2>2, <2>3, QuietStack
    <2> QED
      BY <2>1, <2>4, SameTwice
  <1>3. CASE ~WaitReturns(stack[2])
    BY <1>1, <1>3 DEF WalkEnd
  <1> QED
    BY <1>2, <1>3

\* The steps of the main thread that touch no request.
QuietMain ==
    \/ RwEmFails \/ AioFlush \/ CondSignal \/ WalkSkip \/ WalkEnd \/ MainLoop
    \/ AioWaitPoll \/ AioWaitSelect \/ EmAgain \/ EmReturn \/ FlushAsk
    \/ FlushLoop \/ AioSignalHandler

LEMMA QuietMainSame ==
    ASSUME TypeInv, QuietMain
    PROVE  SameCallbacks(stack, stack')
  <1>1. /\ stack \in Stacks /\ Top \in GoodFrames /\ context \in Contexts
        /\ Top.i \in Nat
        /\ 0 \in Nat /\ POLL \in Nat /\ SELECT \in Nat /\ WAITED \in Nat
        /\ SameCallbacks(stack, stack)
    <2>1. SameCallbacks(stack, stack)
      BY Zenon DEF SameCallbacks
    <2> QED
      BY <2>1, TopType DEF TypeInv, POLL, SELECT, WAITED
  <1>2. ASSUME NEW i \in Nat, Top.k \notin {"walk", "cb"},
               RunBh(i) \/ PosixAioRead(i)
        PROVE  SameCallbacks(stack, stack')
    BY <1>1, <1>2, CallSame DEF RunBh, PosixAioRead
  <1>3. CASE RwEmFails
    BY <1>1, <1>3 DEF RwEmFails
  <1>4. CASE AioFlush
    <2> DEFINE f == Frame("flush", Nobody, POLL, context)
    <2>1. f \in GoodFrames /\ f.k # "cb"
      BY <1>1, FrameType DEF FrameKinds
    <2>2. stack' = <<f>> \o stack
      BY <1>4 DEF AioFlush, Push
    <2> HIDE DEF f
    <2> QED
      BY <1>1, <2>1, <2>2, QuietStack
  <1>5. CASE CondSignal
    BY <1>1, <1>5, PopSame DEF CondSignal
  <1>6. CASE WalkSkip
    BY <1>1, <1>6, GotoSame DEF WalkSkip
  <1>7. CASE WalkEnd
    BY <1>1, <1>7, WalkEndSame
  <1>8. CASE MainLoop
    BY <1>1, <1>2, <1>8 DEF MainLoop
  <1>9. CASE AioWaitPoll
    BY <1>1, <1>2, <1>9, CallSame DEF AioWaitPoll
  <1>10. CASE AioWaitSelect
    BY <1>1, <1>2, <1>10, GotoSame DEF AioWaitSelect
  <1>11. CASE EmAgain
    BY <1>1, <1>11, GotoSame DEF EmAgain
  <1>12. CASE EmReturn
    BY <1>1, <1>2, <1>12, PopSame DEF EmReturn, AsyncContextPop
  <1>13. CASE FlushAsk
    <2> DEFINE g == [Top EXCEPT !.i = FLUSHED]
               f == [g EXCEPT !.r = PosixAioFlush]
    <2>1. g \in GoodFrames /\ g.k = Top.k
      BY <1>1, <1>13 DEF FlushAsk, FLUSHED, GoodFrames, Frames
    <2>2. f \in GoodFrames /\ f.k = Top.k
      <3>1. PosixAioFlush \in BOOLEAN
        BY DEF PosixAioFlush
      <3> HIDE DEF g
      <3> QED
        BY <2>1, <3>1 DEF GoodFrames, Frames
    <2>3. stack' = <<f>> \o Tail(stack) /\ Head(stack).k # "cb" /\ Top.k # "cb"
      BY <1>13 DEF FlushAsk, Top
    <2> HIDE DEF f
    <2> QED
      BY <1>1, <2>2, <2>3, QuietStack
  <1>14. CASE FlushLoop
    BY <1>1, <1>2, <1>14, GotoSame, PopSame DEF FlushLoop
  <1>15. CASE AioSignalHandler
    BY <1>1, <1>15, GotoSame DEF AioSignalHandler
  <1> QED
    BY <1>3, <1>4, <1>5, <1>6, <1>7, <1>8, <1>9, <1>10, <1>11, <1>12, <1>13,
       <1>14, <1>15 DEF QuietMain

LEMMA QuietMainOwn ==
    ASSUME TypeInv, OwnInv, QuietMain
    PROVE  OwnInv'
  <1>1. UNCHANGED <<requestVars, job>>
    BY DEF QuietMain, RwEmFails, AioFlush, CondSignal, WalkSkip, WalkEnd,
       MainLoop, AioWaitPoll, AioWaitSelect, EmAgain, EmReturn, FlushAsk,
       FlushLoop, AioSignalHandler, RunBh, PosixAioRead, threadVars
  <1>2. \A t \in Threads : pc'[t] \in {"io", "kill"} => pc'[t] = pc[t]
    <2>1. CASE CondSignal
      BY <2>1 DEF CondSignal, TypeInv, AccountingInv
    <2>2. CASE ~CondSignal
      <3>1. pc' = pc
        BY <2>2 DEF QuietMain, RwEmFails, AioFlush, WalkSkip, WalkEnd,
           MainLoop, AioWaitPoll, AioWaitSelect, EmAgain, EmReturn, FlushAsk,
           FlushLoop, AioSignalHandler, RunBh, PosixAioRead, threadVars
      <3> QED
        BY <3>1
    <2> QED
      BY <2>1, <2>2
  <1> QED
    BY <1>1, <1>2, QuietMainSame, QuietOwn

LEMMA CancelWaitedOwn ==
    ASSUME TypeInv, OwnInv, CancelWaited
    PROVE  OwnInv'
  <1> DEFINE a == Top.a
  <1>1. /\ stack \in Stacks /\ RequestsOK /\ a \in Acbs
        /\ PaioRemove(a) /\ ret[a] # "in_progress"
        /\ UNCHANGED <<ret, active, idVars, ev_signo, request_list, pc, job>>
    BY TopType DEF TypeInv, CancelWaited, idVars, threadVars
  <1>2. SameCallbacks(stack, stack')
    BY <1>1, PopSame DEF CancelWaited
  <1> HIDE DEF a
  <1>3. CASE Contains(first_aio, a)
    <2>1. /\ \A b : Contains(first_aio', b) <=> Contains(first_aio, b) /\ b # a
          /\ IsInjective(first_aio')
          /\ free' = free \cup {a}
      BY <1>1, <1>3, RemoveOwn
    <2> QED
      BY <1>1, <1>2, <1>3, <2>1, FinishedOwn
  <1>4. CASE ~Contains(first_aio, a)
    <2>1. UNCHANGED requestVars
      BY <1>1, <1>4 DEF PaioRemove, requestVars, acbVars
    <2> QED
      BY <1>1, <1>2, <2>1, QuietOwn
  <1> QED
    BY <1>3, <1>4

\* The walk takes a finished request off the list.
LEMMA WalkTakes ==
    ASSUME TypeInv, OwnInv, WalkDrop \/ WalkDeliver
    PROVE  /\ WalkAcb \in Acbs /\ Contains(first_aio, WalkAcb)
           /\ ret[WalkAcb] # "in_progress"
           /\ \A b : Contains(first_aio', b) <=>
                        Contains(first_aio, b) /\ b # WalkAcb
           /\ IsInjective(first_aio')
           /\ UNCHANGED <<ret, active, ev_signo, request_list, pc, job>>
  <1>1. /\ Top.k = "walk" /\ Top.i <= Len(first_aio)
        /\ ret[WalkAcb] # "in_progress"
        /\ first_aio' = RemoveAt(first_aio, Top.i)
        /\ UNCHANGED <<ret, active, ev_signo, request_list, pc, job>>
    BY DEF WalkDrop, WalkDeliver, idVars, threadVars
  <1>2. first_aio \in Seq(Acbs) /\ Top.i \in 1..Len(first_aio)
    BY <1>1, TopType, LenProperties DEF TypeInv, RequestsOK
  <1>3. WalkAcb \in Acbs /\ Contains(first_aio, WalkAcb)
    BY <1>2, ElementOfSeq DEF WalkAcb, Contains
  <1>4. /\ \A b : Contains(first_aio', b) <=>
                     Contains(first_aio, b) /\ b # WalkAcb
        /\ IsInjective(first_aio')
    BY <1>1, <1>2, ListRemove DEF OwnInv, Lists, WalkAcb
  <1> QED
    BY <1>1, <1>3, <1>4

LEMMA WalkDropOwn ==
    ASSUME TypeInv, OwnInv, WalkDrop
    PROVE  OwnInv'
  <1> DEFINE f == [Top EXCEPT !.r = TRUE]
  <1>1. stack \in Stacks /\ f \in GoodFrames /\ f.k # "cb" /\ Head(stack).k # "cb"
    BY TopType DEF TypeInv, WalkDrop, Top, GoodFrames, Frames
  <1>2. stack' = <<f>> \o Tail(stack) /\ free' = free \cup {WalkAcb}
    BY DEF WalkDrop
  <1> HIDE DEF f
  <1>3. SameCallbacks(stack, stack')
    BY <1>1, <1>2, QuietStack
  <1> QED
    BY <1>2, <1>3, WalkTakes, FinishedOwn

\* The frame of a walk when its callback has returned.
LEMMA ResumedFrame ==
    ASSUME TypeInv, Top.k = "walk"
    PROVE  /\ [Top EXCEPT !.i = 1, !.r = TRUE] \in GoodFrames
           /\ [Top EXCEPT !.i = 1, !.r = TRUE].k = "walk"
           /\ [Top EXCEPT !.i = 1, !.r = TRUE].c = Top.c
  <1> DEFINE g == [Top EXCEPT !.i = 1]
  <1>1. g \in GoodFrames /\ g.k = "walk" /\ g.c = Top.c
    BY TopType DEF TypeInv, GoodFrames, Frames
  <1>2. [Top EXCEPT !.i = 1, !.r = TRUE] = [g EXCEPT !.r = TRUE]
    OBVIOUS
  <1> HIDE DEF g
  <1>3. /\ [g EXCEPT !.r = TRUE] \in GoodFrames
        /\ [g EXCEPT !.r = TRUE].k = "walk" /\ [g EXCEPT !.r = TRUE].c = Top.c
    BY <1>1 DEF GoodFrames, Frames
  <1> QED
    BY <1>2, <1>3

LEMMA WalkDeliverOwn ==
    ASSUME TypeInv, OwnInv, WalkDeliver
    PROVE  OwnInv'
  <1> DEFINE a == WalkAcb
             g == [Top EXCEPT !.i = 1, !.r = TRUE]
             f == Frame("cb", a, 0, context)
             q == <<g>> \o Tail(stack)
  <1>1. /\ stack \in Stacks /\ g \in GoodFrames /\ g.k = "walk"
        /\ Head(stack).k # "cb"
    BY ResumedFrame DEF TypeInv, WalkDeliver, Top
  <1>2. /\ a \in Acbs /\ Contains(first_aio, a) /\ ret[a] # "in_progress"
        /\ \A b : Contains(first_aio', b) <=> Contains(first_aio, b) /\ b # a
        /\ IsInjective(first_aio')
        /\ UNCHANGED <<ret, active, ev_signo, request_list, pc, job>>
    BY WalkTakes
  <1>3. SameCallbacks(stack, q)
    <2> HIDE DEF g
    <2> QED
      BY <1>1, QuietStack
  <1>4. \/ stack' = q /\ free' = free \cup {a}
        \/ stack' = <<f>> \o q /\ free' = free
    BY DEF WalkDeliver
  <1>5. f \in GoodFrames /\ f.k = "cb" /\ f.a = a
    BY <1>1, <1>2, TopType, FrameType DEF Frame, FrameKinds
  <1>6. q \in Seq(GoodFrames)
    <2>1. Tail(stack) \in Seq(GoodFrames)
      BY <1>1, StackTop, HeadTailProperties
    <2> HIDE DEF g
    <2> QED
      BY <1>1, <2>1, Pushed
  <1> HIDE DEF a, f, g, q
  <1>7. CASE stack' = q /\ free' = free \cup {a}
    BY <1>2, <1>3, <1>7, FinishedOwn
  <1>8. CASE stack' = <<f>> \o q /\ free' = free
    <2>1. /\ \A b : Runs(q, b) <=> Runs(stack, b)
          /\ RunsOnce(q) <=> RunsOnce(stack)
      BY <1>3, Zenon DEF SameCallbacks
    <2>2. ~Runs(stack, a) /\ a \notin free
      BY <1>2 DEF OwnInv, Placed
    <2>3. /\ \A b : Runs(<<f>> \o q, b) <=> Runs(q, b) \/ (f.k = "cb" /\ f.a = b)
          /\ RunsOnce(<<f>> \o q) <=>
                RunsOnce(q) /\ (f.k = "cb" => ~Runs(q, f.a))
      BY <1>5, <1>6, RunsPush
    <2>4. /\ \A b : Runs(stack', b) <=> Runs(stack, b) \/ b = a
          /\ RunsOnce(stack') <=> RunsOnce(stack)
      BY <1>5, <1>8, <2>1, <2>2, <2>3
    <2>5. /\ ~Contains(request_list, a)
          /\ \A t \in Threads : pc[t] = "io" => job[t] # a
      BY <1>2, FinishedAlone
    <2>6. Lists'
      BY <1>2, <2>4 DEF OwnInv, Lists
    <2>7. Placed'
      BY <1>2, <1>8, <2>2, <2>4 DEF OwnInv, Placed
    <2>8. Queued'
      BY <1>2, <2>5 DEF OwnInv, Queued
    <2>9. Jobs'
      BY <1>2, <2>5 DEF OwnInv, Jobs
    <2> QED
      BY <2>6, <2>7, <2>8, <2>9 DEF OwnInv
  <1> QED
    BY <1>4, <1>7, <1>8

LEMMA CbReturnOwn ==
    ASSUME TypeInv, OwnInv, CbReturn
    PROVE  OwnInv'
  <1> DEFINE a == Top.a
  <1>1. /\ stack \in Stacks /\ a \in Acbs /\ Head(stack).k = "cb"
        /\ Head(stack).a = a /\ stack' = Tail(stack) /\ free' = free \cup {a}
        /\ UNCHANGED <<ret, active, ev_signo, first_aio, request_list, pc, job>>
    BY TopType DEF TypeInv, CbReturn, Top, idVars, threadVars
  <1> HIDE DEF a
  <1>2. /\ \A b : Runs(stack, b) <=>
                     Runs(Tail(stack), b)
                        \/ (Head(stack).k = "cb" /\ Head(stack).a = b)
        /\ RunsOnce(stack) <=>
              /\ RunsOnce(Tail(stack))
              /\ Head(stack).k = "cb" => ~Runs(Tail(stack), Head(stack).a)
    BY <1>1, RunsPop
  <1>3. /\ \A b : Runs(stack, b) <=> Runs(stack', b) \/ b = a
        /\ RunsOnce(stack') /\ ~Runs(stack', a)
    BY <1>1, <1>2 DEF OwnInv, Lists
  <1>4. Lists'
    BY <1>1, <1>3 DEF OwnInv, Lists
  <1>5. Placed'
    BY <1>1, <1>3 DEF OwnInv, Placed
  <1>6. Queued'
    BY <1>1 DEF OwnInv, Queued
  <1>7. Jobs'
    BY <1>1 DEF OwnInv, Jobs
  <1> QED
    BY <1>4, <1>5, <1>6, <1>7 DEF OwnInv
-----------------------------------------------------------------------------

LEMMA OwnInit ==
    ASSUME Init
    PROVE  OwnInv
  <1>1. first_aio = <<>> /\ request_list = <<>> /\ free = Acbs
        /\ \A t \in Threads : pc[t] = "dead"
    BY DEF Init
  <1>2. \A b : ~Contains(first_aio, b) /\ ~Contains(request_list, b)
    BY <1>1 DEF Contains
  <1>3. DOMAIN stack = {1} /\ stack[1].k = "loop"
    BY DEF Init, Frame
  <1>4. RunsOnce(stack) /\ \A b : ~Runs(stack, b)
    BY <1>3 DEF Runs, RunsOnce
  <1>5. Lists
    BY <1>1, <1>4 DEF Lists, IsInjective
  <1> QED
    BY <1>1, <1>2, <1>4, <1>5 DEF OwnInv, Placed, Queued, Jobs

LEMMA OwnNext ==
    ASSUME TypeInv, OwnInv, [Next]_vars
    PROVE  OwnInv'
  <1>1. CASE UNCHANGED vars
    <2>1. UNCHANGED <<requestVars, stack, pc, job>>
      BY <1>1 DEF vars, threadVars
    <2>2. SameCallbacks(stack, stack')
      BY <2>1, Zenon DEF SameCallbacks
    <2> QED
      BY <2>1, <2>2, QuietOwn
  <1>2. CASE \E a \in Acbs : Submit(a)
    BY <1>2, SubmitOwn
  <1>3. CASE \E a \in Acbs : Cancel(a)
    BY <1>3, CancelOwn
  <1>4. CASE \E t \in Threads : Worker(t) \/ AioThreadWakes(t)
    BY <1>4, WorkerOwn
  <1>5. CASE QuietMain
    BY <1>5, QuietMainOwn
  <1>6. CASE CancelWaited
    BY <1>6, CancelWaitedOwn
  <1>7. CASE WalkDrop
    BY <1>7, WalkDropOwn
  <1>8. CASE WalkDeliver
    BY <1>8, WalkDeliverOwn
  <1>9. CASE CbReturn
    BY <1>9, CbReturnOwn
  <1> QED
    BY <1>1, <1>2, <1>3, <1>4, <1>5, <1>6, <1>7, <1>8, <1>9
    DEF Next, User, MainThread, QuietMain

LEMMA OwnInvariant == Spec => [](TypeInv /\ OwnInv)
  <1>1. Init => TypeInv /\ OwnInv
    BY TypeInit, OwnInit
  <1>2. TypeInv /\ OwnInv /\ [Next]_vars => TypeInv' /\ OwnInv'
    BY TypeNext, OwnNext
  <1> QED
    BY <1>1, <1>2, PTL DEF Spec

(* paio_cancel's decision is right in every interleaving with the workers:  *)
(* a submitted request is on request_list exactly as long as `active' says  *)
(* so, and once, so the unlinking loop of paio_cancel finds it.             *)
THEOREM QueueCorrect == Spec => []QueuedIffInactive
  <1>1. TypeInv /\ OwnInv => QueuedIffInactive
    BY DEF OwnInv, Lists, IsInjective, Queued, QueuedIffInactive
  <1> QED
    BY <1>1, OwnInvariant, PTL

(* While a worker is in its system call the request is submitted, in        *)
(* progress, not released and no other worker's: neither a callback nor     *)
(* paio_cancel gives the buffer back under a running I/O, for any number of *)
(* workers and requests.                                                    *)
THEOREM WorkerCorrect == Spec => []WorkerOwnsJob
  <1>1. TypeInv /\ OwnInv => WorkerOwnsJob
    BY DEF OwnInv, Placed, Jobs, WorkerOwnsJob
  <1> QED
    BY <1>1, OwnInvariant, PTL

(* A worker raises SIGUSR2 after every I/O although it reads ev_signo from  *)
(* a block that was perhaps released and submitted again meanwhile.         *)
THEOREM KillCorrect == Spec => []KillRaisesSignal
  <1>1. TypeInv /\ OwnInv => KillRaisesSignal
    BY DEF OwnInv, Jobs, KillRaisesSignal
  <1> QED
    BY <1>1, OwnInvariant, PTL

(* Every block has exactly one owner, so no request is answered twice or    *)
(* after it was cancelled, however deep callbacks nest.                     *)
THEOREM OwnerCorrect == Spec => []OneOwner
  <1>1. TypeInv /\ OwnInv => OneOwner
    <2>1. SUFFICES ASSUME TypeInv, OwnInv
                   PROVE  OneOwner
      OBVIOUS
    <2>2. \A i, j \in DOMAIN first_aio : first_aio[i] = first_aio[j] => i = j
      BY <2>1 DEF OwnInv, Lists, IsInjective
    <2>3. \A m, n \in CallbackFrames : stack[m].a = stack[n].a => m = n
      BY <2>1 DEF OwnInv, Lists, RunsOnce, CallbackFrames
    <2>4. ASSUME NEW a \in Acbs
          PROVE  /\ a \in free => ~Contains(first_aio, a)
                 /\ \A n \in CallbackFrames : stack[n].a = a =>
                       a \notin free /\ ~Contains(first_aio, a)
                 /\ \/ a \in free \/ Contains(first_aio, a)
                    \/ \E n \in CallbackFrames : stack[n].a = a
      <3>1. Runs(stack, a) <=> \E n \in CallbackFrames : stack[n].a = a
        BY DEF Runs, CallbackFrames
      <3> QED
        BY <2>1, <3>1 DEF OwnInv, Placed
    <2> QED
      BY <2>2, <2>3, <2>4 DEF OneOwner
  <1> QED
    BY <1>1, OwnInvariant, PTL
=============================================================================
