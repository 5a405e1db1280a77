------------------------------ MODULE PosixAio ------------------------------
(***************************************************************************)
(* The POSIX AIO emulation of QEMU 0.12.3 (posix-aio-compat.c) together    *)
(* with the code of the main thread that drives it: the AsyncContext stack *)
(* (async.c), qemu_aio_wait/qemu_aio_flush (aio.c) and the synchronous     *)
(* block I/O emulation bdrv_read_em/bdrv_write_em (block.c).               *)
(*                                                                         *)
(* Worker threads take requests from request_list and perform the I/O;    *)
(* the main thread submits and cancels requests, is told of a completion   *)
(* by SIGUSR2 (whose handler writes a byte to a pipe) and then walks the   *)
(* list first_aio to call the callbacks of the current AsyncContext.       *)
(*                                                                         *)
(* A region between mutex_lock and mutex_unlock is one atomic step.  The   *)
(* main thread's C stack is the sequence `stack' of frames, top first.     *)
(***************************************************************************)
EXTENDS Naturals, Sequences, FiniteSets, SequencesExt

CONSTANTS
    Acbs,          \* the qemu_paiocb blocks the pool may hand out
    Threads,       \* identities of the detached worker threads
    MaxThreads,    \* max_threads (64 in the code)
    MaxContext,    \* bound: deepest AsyncContext id
    MaxOps,        \* bound: operations issued by the users of the block layer
    PipeSize,      \* bytes the signal pipe holds before write fails
    Outcomes,      \* what the system call of a request may return
    Ioctls,        \* whether users issue paio_ioctl (SG_IO passthrough)
    Nobody         \* "no aiocb" in a frame

ASSUME ThreadsAssumption == IsFiniteSet(Threads)
ASSUME MaxThreadsAssumption == MaxThreads \in Nat \ {0}
ASSUME MaxContextAssumption == MaxContext \in Nat
ASSUME MaxOpsAssumption == MaxOps \in Nat
ASSUME PipeSizeAssumption == PipeSize \in Nat \ {0}
ASSUME OutcomesAssumption ==
    Outcomes \subseteq {"full", "short", "errno", "canceled"}
ASSUME IoctlsAssumption == Ioctls \in BOOLEAN
ASSUME NobodyAssumption == Nobody \notin Acbs

VARIABLES
    \* struct qemu_paiocb, one function per field
    ret, active, async_context_id, ev_signo, cb,
    submitted_in,        \* history: the AsyncContext of the submitter
    free,                \* raw_aio_pool's free list
    first_aio,           \* PosixAioState.first_aio: submitted, not yet reaped
    request_list,        \* waiting for a worker
    cur_threads, idle_threads,
    pc, job,             \* each worker: where it is, and its aiocb
    sigpending, pipe,    \* SIGUSR2 pending for the process, bytes in the pipe
    stack,               \* the main thread's frames, top first
    bh,                  \* per context: completion bottom half scheduled
    async_ret,           \* per context: bdrv_*_em's local variable async_ret
    ops                  \* operations issued so far

idVars == <<async_context_id, ev_signo, cb, submitted_in>>
acbVars == <<ret, active, idVars, free>>
requestVars == <<acbVars, first_aio, request_list>>
threadVars == <<cur_threads, idle_threads, pc, job>>
wakeVars == <<sigpending, pipe>>
ctxVars == <<bh, async_ret>>
vars == <<requestVars, threadVars, wakeVars, stack, ctxVars, ops>>

Contexts == 0..MaxContext

\* Frames: "loop" is main_loop_wait, "cb" a completion callback running for
\* aiocb a, "walk" posix_aio_process_queue at list position i with result r,
\* "em" bdrv_read_em/bdrv_write_em and "flush" qemu_aio_flush at step i of
\* their wait loop, "signal" qemu_paio_submit before cond_signal, "cancel"
\* the busy wait of paio_cancel on aiocb a.  c is the id of the AsyncContext
\* the frame runs in: a context is pushed and popped by an "em" frame, and
\* every other frame runs in the context of its caller.
Frame(k, a, i, c) == [k |-> k, a |-> a, i |-> i, r |-> FALSE, c |-> c]
FrameKinds == {"loop", "cb", "walk", "em", "flush", "signal", "cancel"}
Frames == [k : FrameKinds, a : Acbs \cup {Nobody}, i : Nat, r : BOOLEAN,
           c : Contexts]

\* Steps of a frame that loops on qemu_aio_wait.
POLL == 0       \* qemu_aio_wait starts: bottom halves, then queued callbacks
SELECT == 1     \* about to wait in select()
WAITED == 2     \* qemu_aio_wait returned to its caller
FLUSHED == 3    \* qemu_aio_flush evaluates its loop condition

Top == Head(stack)
context == Top.c      \* async_context->id
Signal(c) == Frame("signal", Nobody, 0, c)
Walk == Frame("walk", Nobody, 1, context)
Push(f) == <<f>> \o stack
\* The top frame moves to step i and calls f.
Call(i, f) == <<f, [Top EXCEPT !.i = i]>> \o Tail(stack)
Goto(i) == <<[Top EXCEPT !.i = i]>> \o Tail(stack)

Init ==
    /\ ret = [a \in Acbs |-> "full"]
    /\ active = [a \in Acbs |-> FALSE]
    /\ async_context_id = [a \in Acbs |-> 0]
    /\ ev_signo = [a \in Acbs |-> "none"]
    /\ cb = [a \in Acbs |-> "user"]
    /\ submitted_in = [a \in Acbs |-> 0]
    /\ free = Acbs
    /\ first_aio = <<>>
    /\ request_list = <<>>
    /\ cur_threads = 0
    /\ idle_threads = 0
    /\ pc = [t \in Threads |-> "dead"]
    /\ job = [t \in Threads |-> Nobody]
    /\ sigpending = FALSE
    /\ pipe = 0
    /\ stack = <<Frame("loop", Nobody, 0, 0)>>
    /\ bh = [c \in Contexts |-> FALSE]
    /\ async_ret = [c \in Contexts |-> "not_done"]
    /\ ops = 0

-----------------------------------------------------------------------------
(* Submission: paio_submit, paio_ioctl, qemu_paio_submit, spawn_thread.    *)

SpawnThreadUncounted ==                               \* mutant
    \E t \in Threads :
        /\ pc[t] = "dead"
        /\ pc' = [pc EXCEPT ![t] = "start"]
        /\ cur_threads' = cur_threads + 1
        /\ UNCHANGED idle_threads

\* spawn_thread: a new detached thread, counted as idle from the start.
SpawnThread ==
    \E t \in Threads :
        /\ pc[t] = "dead"
        /\ pc' = [pc EXCEPT ![t] = "start"]
        /\ cur_threads' = cur_threads + 1
        /\ idle_threads' = idle_threads + 1

\* qemu_paio_submit up to mutex_unlock.
QemuPaioSubmit(a) ==
    /\ ret' = [ret EXCEPT ![a] = "in_progress"]
    /\ active' = [active EXCEPT ![a] = FALSE]
    /\ IF idle_threads = 0 /\ cur_threads < MaxThreads
       THEN SpawnThread
       ELSE UNCHANGED <<pc, cur_threads, idle_threads>>
    /\ request_list' = Append(request_list, a)

\* qemu_aio_get on raw_aio_pool, for callback f, in context c.  A recycled
\* block keeps the fields that the caller does not set.
QemuAioGet(a, f, c) ==
    /\ a \in free
    /\ free' = free \ {a}
    /\ cb' = [cb EXCEPT ![a] = f]
    /\ submitted_in' = [submitted_in EXCEPT ![a] = c]

SubmitSignoForgotten(a) == ev_signo                   \* mutant
SubmitSigno(a) == [ev_signo EXCEPT ![a] = "SIGUSR2"]

\* What paio_submit and paio_ioctl have in common.
PaioStart(a, f, c) ==
    /\ QemuAioGet(a, f, c)
    /\ ev_signo' = SubmitSigno(a)
    /\ first_aio' = <<a>> \o first_aio
    /\ QemuPaioSubmit(a)

\* paio_submit, called with c the current context.
PaioSubmit(a, f, c) ==
    /\ PaioStart(a, f, c)
    /\ async_context_id' = [async_context_id EXCEPT ![a] = c]

\* paio_ioctl does not set async_context_id.
PaioIoctl(a, f, c) == PaioStart(a, f, c) /\ UNCHANGED async_context_id

\* Code above the block layer (a device model, an image format driver) runs
\* in the main loop or in a callback.
UserCode == Top.k \in {"loop", "cb"}
Operation == UserCode /\ ops < MaxOps /\ ops' = ops + 1

AioRw(a) ==
    /\ Operation
    /\ PaioSubmit(a, "user", context)
    /\ stack' = Push(Signal(context))
    /\ UNCHANGED <<job, wakeVars, ctxVars>>

AioIoctl(a) ==
    /\ Ioctls
    /\ Operation
    /\ PaioIoctl(a, "user", context)
    /\ stack' = Push(Signal(context))
    /\ UNCHANGED <<job, wakeVars, ctxVars>>

\* bdrv_read_em, bdrv_write_em: async_context_push, then a request whose
\* callback stores into async_ret, then a loop on qemu_aio_wait.
RwEm(a) ==
    /\ Operation
    /\ context < MaxContext
    /\ async_ret' = [async_ret EXCEPT ![context + 1] = "not_done"]
    /\ PaioSubmit(a, "rw_em", context + 1)
    /\ stack' = <<Signal(context + 1), Frame("em", a, POLL, context + 1)>>
                \o stack
    /\ UNCHANGED <<job, wakeVars, bh>>

\* The same when bdrv_aio_readv/writev returns NULL: push, then pop.
RwEmFails ==
    /\ Operation
    /\ context < MaxContext
    /\ bh' = [bh EXCEPT ![context] = TRUE]
    /\ UNCHANGED <<requestVars, threadVars, wakeVars, stack, async_ret>>

\* qemu_aio_flush, called outside of any callback.
AioFlush ==
    /\ Operation
    /\ Top.k = "loop"
    /\ stack' = Push(Frame("flush", Nobody, POLL, context))
    /\ UNCHANGED <<requestVars, threadVars, wakeVars, ctxVars>>

\* cond_signal, after the mutex was released: wakes a waiter if there is one.
CondSignal ==
    /\ Top.k = "signal"
    /\ stack' = Tail(stack)
    /\ IF \E t \in Threads : pc[t] = "wait"
       THEN \E t \in Threads : pc[t] = "wait" /\ pc' = [pc EXCEPT ![t] = "woken"]
       ELSE UNCHANGED pc
    /\ UNCHANGED <<requestVars, cur_threads, idle_threads,
                   job, wakeVars, ctxVars, ops>>
-----------------------------------------------------------------------------
(* Cancellation: paio_cancel and paio_remove.                              *)

PaioRemoveLinked(a) == free' = free \cup {a} /\ UNCHANGED first_aio  \* mutant

\* paio_remove: unlink and release, or complain and leave everything alone.
PaioRemove(a) ==
    IF Contains(first_aio, a)
    THEN /\ \E i \in DOMAIN first_aio :
               first_aio[i] = a /\ first_aio' = RemoveAt(first_aio, i)
         /\ free' = free \cup {a}
    ELSE UNCHANGED <<first_aio, free>>

\* Users cancel what they submitted in the context they run in.
Cancellable(a) ==
    /\ UserCode
    /\ Contains(first_aio, a)
    /\ cb[a] = "user"
    /\ submitted_in[a] = context

\* No worker has it: it leaves request_list and is gone.
CancelQueued(a) ==
    /\ Cancellable(a)
    /\ ~active[a]
    /\ \E i \in DOMAIN request_list :
          request_list[i] = a /\ request_list' = RemoveAt(request_list, i)
    /\ ret' = [ret EXCEPT ![a] = "canceled"]
    /\ PaioRemove(a)
    /\ UNCHANGED <<active, idVars, threadVars, wakeVars, stack, ctxVars, ops>>

\* The local variable of paio_cancel: a worker is busy with the request.
StillActiveNever(a) == FALSE                          \* mutant
StillActive(a) == active[a] /\ ret[a] = "in_progress"

\* A worker has finished it.
CancelFinished(a) ==
    /\ Cancellable(a)
    /\ active[a] /\ ~StillActive(a)
    /\ PaioRemove(a)
    /\ UNCHANGED <<ret, active, idVars, request_list, threadVars, wakeVars,
                   stack, ctxVars, ops>>

\* Fail safe: wait for the worker.
CancelActive(a) ==
    /\ Cancellable(a)
    /\ StillActive(a)
    /\ stack' = Push(Frame("cancel", a, 0, context))
    /\ UNCHANGED <<requestVars, threadVars, wakeVars, ctxVars, ops>>

CancelWaited ==
    /\ Top.k = "cancel"
    /\ ret[Top.a] # "in_progress"
    /\ PaioRemove(Top.a)
    /\ stack' = Tail(stack)
    /\ UNCHANGED <<ret, active, idVars, request_list, threadVars, wakeVars,
                   ctxVars, ops>>
-----------------------------------------------------------------------------
(* The worker threads: aio_thread.                                         *)

\* The locked region at the top of the loop, request_list empty.
AioThreadWait(t) ==
    /\ pc[t] \in {"start", "woken"}
    /\ request_list = <<>>
    /\ pc' = [pc EXCEPT ![t] = "wait"]
    /\ UNCHANGED <<requestVars, cur_threads, idle_threads,
                   job, wakeVars, stack, ctxVars, ops>>

\* cond_timedwait returns, with ETIMEDOUT or spuriously; the mutex is
\* acquired again by the step that follows.
AioThreadWakes(t) ==
    /\ pc[t] = "wait"
    /\ \E s \in {"timedout", "woken"} : pc' = [pc EXCEPT ![t] = s]
    /\ UNCHANGED <<requestVars, cur_threads, idle_threads,
                   job, wakeVars, stack, ctxVars, ops>>

MarkNothing(a) == active                              \* mutant
MarkActive(a) == [active EXCEPT ![a] = TRUE]

\* The locked region when there is a request, whatever woke the thread.
AioThreadTake(t) ==
    /\ pc[t] \in {"start", "woken", "timedout"}
    /\ request_list # <<>>
    /\ request_list' = Tail(request_list)
    /\ job' = [job EXCEPT ![t] = Head(request_list)]
    /\ active' = MarkActive(Head(request_list))
    /\ idle_threads' = idle_threads - 1
    /\ pc' = [pc EXCEPT ![t] = "io"]
    /\ UNCHANGED <<ret, idVars, free, first_aio, cur_threads, wakeVars, stack,
                   ctxVars, ops>>

IdleStillCounted == idle_threads                      \* mutant
IdleAfterExit == idle_threads - 1

NothingAssumed == TRUE                                \* mutant
NothingQueued == request_list = <<>>

\* Ten seconds without a request: the thread exits.
AioThreadExit(t) ==
    /\ pc[t] = "timedout"
    /\ NothingQueued
    /\ pc' = [pc EXCEPT ![t] = "dead"]
    /\ idle_threads' = IdleAfterExit
    /\ cur_threads' = cur_threads - 1
    /\ UNCHANGED <<requestVars, job, wakeVars, stack, ctxVars, ops>>

\* handle_aiocb_rw/flush/ioctl returned; the second locked region.
AioThreadFinish(t) ==
    /\ pc[t] = "io"
    /\ \E o \in Outcomes : ret' = [ret EXCEPT ![job[t]] = o]
    /\ idle_threads' = idle_threads + 1
    /\ pc' = [pc EXCEPT ![t] = "kill"]
    /\ UNCHANGED <<active, idVars, free, first_aio, request_list, cur_threads,
                   job, wakeVars, stack,
                   ctxVars, ops>>

\* kill(pid, aiocb->ev_signo), without the mutex: the aiocb may have been
\* released, and even submitted again, in the meantime.
AioThreadKill(t) ==
    /\ pc[t] = "kill"
    /\ sigpending' = (sigpending \/ ev_signo[job[t]] = "SIGUSR2")
    /\ pc' = [pc EXCEPT ![t] = "start"]
    /\ job' = [job EXCEPT ![t] = Nobody]
    /\ UNCHANGED <<requestVars, cur_threads, idle_threads,
                   pipe, stack, ctxVars, ops>>
-----------------------------------------------------------------------------
(* Completion in the main thread.                                          *)

WriteByte == IF pipe < PipeSize THEN pipe + 1 ELSE pipe

\* aio_signal_handler interrupts the main thread anywhere.  The write fails
\* on a full pipe; a select() it interrupts makes qemu_aio_wait return.
AioSignalHandler ==
    /\ sigpending
    /\ sigpending' = FALSE
    /\ pipe' = WriteByte
    /\ \/ UNCHANGED stack
       \/ /\ Top.k \in {"em", "flush"} /\ Top.i = SELECT
          /\ stack' = Goto(WAITED)
    /\ UNCHANGED <<requestVars, threadVars, ctxVars, ops>>

\* posix_aio_process_queue looks at the aiocb at its position.
WalkAcb == first_aio[Top.i]
InRightContext(a) == async_context_id[a] = context

\* Another context's request, or one still in progress.
WalkSkip ==
    /\ Top.k = "walk" /\ Top.i <= Len(first_aio)
    /\ ~InRightContext(WalkAcb) \/ ret[WalkAcb] = "in_progress"
    /\ stack' = Goto(Top.i + 1)
    /\ UNCHANGED <<requestVars, threadVars, wakeVars, ctxVars, ops>>

\* -ECANCELED.  paio_cancel never leaves it to be found here, but a system
\* call may return that error: the request goes without a callback.
WalkDrop ==
    /\ Top.k = "walk" /\ Top.i <= Len(first_aio)
    /\ InRightContext(WalkAcb) /\ ret[WalkAcb] = "canceled"
    /\ first_aio' = RemoveAt(first_aio, Top.i)
    /\ free' = free \cup {WalkAcb}
    /\ stack' = <<[Top EXCEPT !.r = TRUE]>> \o Tail(stack)
    /\ UNCHANGED <<ret, active, idVars, request_list, threadVars, wakeVars,
                   ctxVars, ops>>

\* What the callback is told: 0, -EINVAL or the error of the system call.
CallbackRet(a) == CASE ret[a] = "full" -> "zero"
                    [] ret[a] = "short" -> "einval"
                    [] OTHER -> "errno"

\* A finished request: unlink it and call its callback.  bdrv_rw_em_cb only
\* stores the result; any other callback is code of its own.  The walk
\* restarts at the head of the list when the callback has returned.
WalkDeliver ==
    /\ Top.k = "walk" /\ Top.i <= Len(first_aio)
    /\ InRightContext(WalkAcb) /\ ret[WalkAcb] \notin {"in_progress", "canceled"}
    /\ first_aio' = RemoveAt(first_aio, Top.i)
    /\ LET a == WalkAcb
           resumed == <<[Top EXCEPT !.i = 1, !.r = TRUE]>> \o Tail(stack) IN
       \/ /\ cb[a] = "rw_em"
          /\ async_ret' = [async_ret EXCEPT ![submitted_in[a]] = CallbackRet(a)]
          /\ free' = free \cup {a}
          /\ stack' = resumed
       \/ /\ cb[a] = "user"
          /\ stack' = <<Frame("cb", a, 0, context)>> \o resumed
          /\ UNCHANGED <<async_ret, free>>
    /\ UNCHANGED <<ret, active, idVars, request_list, threadVars, wakeVars,
                   bh, ops>>

\* The callback returns; qemu_aio_release.
CbReturn ==
    /\ Top.k = "cb"
    /\ free' = free \cup {Top.a}
    /\ stack' = Tail(stack)
    /\ UNCHANGED <<ret, active, idVars, first_aio, request_list, threadVars,
                   wakeVars, ctxVars, ops>>

WaitReturns(caller) ==
    Top.r /\ caller.k \in {"em", "flush"} /\ caller.i = SELECT

\* The end of the list.  qemu_aio_wait, if it called, returns when a callback
\* was run and goes on to select() when none was.
WalkEnd ==
    /\ Top.k = "walk" /\ Top.i > Len(first_aio)
    /\ LET caller == stack[2] IN
       stack' = IF WaitReturns(caller)
                THEN <<[caller EXCEPT !.i = WAITED]>> \o Tail(Tail(stack))
                ELSE Tail(stack)
    /\ UNCHANGED <<requestVars, threadVars, wakeVars, ctxVars, ops>>

\* bh_run_aio_completions of the current context, from step i of the caller.
RunBh(i) ==
    /\ bh[context]
    /\ bh' = [bh EXCEPT ![context] = FALSE]
    /\ stack' = Call(i, Walk)
    /\ UNCHANGED <<requestVars, threadVars, wakeVars, async_ret, ops>>

\* posix_aio_read: empty the pipe, then process the queue.
PosixAioRead(i) ==
    /\ pipe > 0
    /\ pipe' = 0
    /\ stack' = Call(i, Walk)
    /\ UNCHANGED <<requestVars, threadVars, sigpending, ctxVars, ops>>

\* main_loop_wait: readable descriptors and bottom halves.
MainLoop ==
    /\ Top.k = "loop"
    /\ RunBh(0) \/ PosixAioRead(0)

\* qemu_aio_wait, first part: qemu_bh_poll, else qemu_aio_process_queue.
AioWaitPoll ==
    /\ Top.k \in {"em", "flush"} /\ Top.i = POLL
    /\ \/ RunBh(WAITED)
       \/ /\ ~bh[context]
          /\ stack' = Call(SELECT, Walk)
          /\ UNCHANGED <<requestVars, threadVars, wakeVars, ctxVars, ops>>

AnythingQueued == request_list # <<>>                 \* mutant
PosixAioFlush == first_aio # <<>>

\* qemu_aio_wait, second part: posix_aio_flush says whether to wait at all.
AioWaitSelect ==
    /\ Top.k \in {"em", "flush"} /\ Top.i = SELECT
    /\ \/ PosixAioFlush /\ PosixAioRead(WAITED)
       \/ /\ ~PosixAioFlush
          /\ stack' = Goto(WAITED)
          /\ UNCHANGED <<requestVars, threadVars, wakeVars, ctxVars, ops>>

\* bdrv_*_em: while (async_ret == NOT_DONE) qemu_aio_wait();
EmAgain ==
    /\ Top.k = "em" /\ Top.i = WAITED
    /\ async_ret[context] = "not_done"
    /\ stack' = Goto(POLL)
    /\ UNCHANGED <<requestVars, threadVars, wakeVars, ctxVars, ops>>

ParentBhForgotten(parent) == bh                       \* mutant
ParentBh(parent) == [bh EXCEPT ![parent] = TRUE]

\* async_context_pop: the old context's bottom halves first, then the parent
\* context gets a bottom half for the completions it has missed.
AsyncContextPop ==
    stack' = Tail(stack) /\ bh' = ParentBh(stack[2].c)

EmReturn ==
    /\ Top.k = "em" /\ Top.i = WAITED
    /\ async_ret[context] # "not_done"
    /\ \/ RunBh(WAITED)
       \/ /\ ~bh[context]
          /\ AsyncContextPop
          /\ UNCHANGED <<requestVars, threadVars, wakeVars, async_ret, ops>>

\* qemu_aio_flush: io_flush is asked before the condition polls once more.
FlushAsk ==
    /\ Top.k = "flush" /\ Top.i = WAITED
    /\ stack' = <<[Top EXCEPT !.i = FLUSHED, !.r = PosixAioFlush]>>
                \o Tail(stack)
    /\ UNCHANGED <<requestVars, threadVars, wakeVars, ctxVars, ops>>

FlushLoop ==
    /\ Top.k = "flush" /\ Top.i = FLUSHED
    /\ \/ RunBh(POLL)
       \/ /\ ~bh[context]
          /\ stack' = IF Top.r THEN Goto(POLL) ELSE Tail(stack)
          /\ UNCHANGED <<requestVars, threadVars, wakeVars, ctxVars, ops>>
-----------------------------------------------------------------------------
Submit(a) == AioRw(a) \/ AioIoctl(a) \/ RwEm(a)
Cancel(a) == CancelQueued(a) \/ CancelFinished(a) \/ CancelActive(a)
User == RwEmFails \/ AioFlush \/ \E a \in Acbs : Submit(a) \/ Cancel(a)

\* Steps the main thread takes without a choice of its users.
MainThread ==
    \/ CondSignal \/ CancelWaited \/ WalkSkip \/ WalkDrop \/ WalkDeliver
    \/ WalkEnd \/ CbReturn \/ MainLoop \/ AioWaitPoll \/ AioWaitSelect \/ EmAgain
    \/ EmReturn \/ FlushAsk \/ FlushLoop

\* Steps a worker takes without waiting for the clock.
Worker(t) ==
    AioThreadWait(t) \/ AioThreadTake(t) \/ AioThreadExit(t)
        \/ AioThreadFinish(t) \/ AioThreadKill(t)

Next ==
    \/ User \/ MainThread \/ AioSignalHandler
    \/ \E t \in Threads : Worker(t) \/ AioThreadWakes(t)

Spec == Init /\ [][Next]_vars

\* The main thread, every worker and the delivery of a pending signal make
\* progress; nothing is assumed of the ten second timeout or of the users.
Fairness ==
    /\ WF_vars(MainThread)
    /\ WF_vars(AioSignalHandler)
    /\ \A t \in Threads : WF_vars(Worker(t))

FairSpec == Spec /\ Fairness
-----------------------------------------------------------------------------
(* Properties.                                                             *)

TypeOK ==
    /\ ret \in [Acbs -> Outcomes \cup {"full", "in_progress", "canceled"}]
    /\ active \in [Acbs -> BOOLEAN]
    /\ async_context_id \in [Acbs -> Contexts]
    /\ ev_signo \in [Acbs -> {"none", "SIGUSR2"}]
    /\ cb \in [Acbs -> {"user", "rw_em"}]
    /\ submitted_in \in [Acbs -> Contexts]
    /\ free \in SUBSET Acbs
    /\ first_aio \in Seq(Acbs)
    /\ request_list \in Seq(Acbs)
    /\ cur_threads \in Nat
    /\ idle_threads \in Nat
    /\ pc \in [Threads -> {"dead", "start", "wait", "woken", "timedout",
                           "io", "kill"}]
    /\ job \in [Threads -> Acbs \cup {Nobody}]
    /\ sigpending \in BOOLEAN
    /\ pipe \in 0..PipeSize
    /\ stack \in Seq(Frames)
    /\ bh \in [Contexts -> BOOLEAN]
    /\ async_ret \in [Contexts -> {"not_done", "zero", "einval", "errno"}]
    /\ ops \in 0..MaxOps

Live == {t \in Threads : pc[t] # "dead"}
Idle == {t \in Threads : pc[t] \notin {"dead", "io"}}

(* The counters that decide in qemu_paio_submit whether a thread is spawned *)
(* agree with the threads there are, through spawning, timeouts, exits and  *)
(* I/O, and the pool never outgrows max_threads.                            *)
ThreadAccounting ==
    /\ cur_threads = Cardinality(Live)
    /\ idle_threads = Cardinality(Idle)
    /\ cur_threads <= MaxThreads

(* cond_signal is called without the mutex and waiting threads come and go  *)
(* by timeout: still a queued request never waits with every thread asleep  *)
(* (or gone) and no cond_signal on its way.                                 *)
NoLostWakeup ==
    request_list # <<>> =>
        \/ \E t \in Threads : pc[t] \notin {"dead", "wait"}
        \/ Top.k = "signal" /\ \E t \in Threads : pc[t] = "wait"

(* The list paio_cancel unlinks from is the list the request is in: a       *)
(* submitted request is on request_list exactly as long as it is inactive,  *)
(* and is there once.                                                       *)
QueuedIffInactive ==
    /\ \A a \in Acbs : Contains(request_list, a) <=>
                        Contains(first_aio, a) /\ ~active[a]
    /\ \A i, j \in DOMAIN request_list :
          request_list[i] = request_list[j] => i = j

(* A worker performs I/O only for a request that is still submitted, whose  *)
(* block nobody released and which no other worker has: the buffer is never *)
(* touched after the callback was called or paio_cancel returned.           *)
WorkerOwnsJob ==
    \A t \in Threads : pc[t] = "io" =>
        /\ Contains(first_aio, job[t])
        /\ active[job[t]] /\ ret[job[t]] = "in_progress"
        /\ job[t] \notin free
        /\ \A u \in Threads \ {t} : pc[u] = "io" => job[u] # job[t]

(* Although aio_thread reads aiocb->ev_signo when the block may already be  *)
(* released and recycled, every finished I/O raises SIGUSR2.                *)
KillRaisesSignal ==
    \A t \in Threads : pc[t] = "kill" => ev_signo[job[t]] = "SIGUSR2"

CallbackFrames == {n \in DOMAIN stack : stack[n].k = "cb"}

(* Exactly one place knows a request: it is free, or submitted and on       *)
(* first_aio once, or its callback is running (once); so no callback is run *)
(* twice and none for a cancelled request, whatever callbacks nested in     *)
(* other callbacks submit, cancel and wait for.                             *)
OneOwner ==
    /\ \A i, j \in DOMAIN first_aio : first_aio[i] = first_aio[j] => i = j
    /\ \A m, n \in CallbackFrames : stack[m].a = stack[n].a => m = n
    /\ \A a \in Acbs :
          /\ a \in free => ~Contains(first_aio, a)
          /\ \A n \in CallbackFrames : stack[n].a = a =>
                a \notin free /\ ~Contains(first_aio, a)
          /\ a \in free \/ Contains(first_aio, a)
                \/ \E n \in CallbackFrames : stack[n].a = a

(* When qemu_aio_flush returns no request is queued or in a worker's hands: *)
(* what vm_stop and savevm rely on.                                         *)
FlushReturns ==
    Top.k = "flush" /\ Len(stack') < Len(stack)
FlushDrains ==
    [][FlushReturns => /\ first_aio = <<>> /\ request_list = <<>>
                       /\ \A t \in Threads : pc[t] # "io"]_vars

\* The system call of a synchronous operation returned ECANCELED.  The walk
\* drops its request without a callback and bdrv_read_em or bdrv_write_em
\* goes on waiting for async_ret, for ever.
SyncCanceled ==
    \E n \in DOMAIN stack : stack[n].k = "em" /\ ret[stack[n].a] = "canceled"

(* Every request is answered: a submitted request leaves first_aio, by its  *)
(* callback or by a cancellation, although its completion signal may be     *)
(* consumed while a nested AsyncContext is active; unless the main thread   *)
(* hangs in that context because of ECANCELED (posix-aio-compat.c:440).     *)
EveryRequestReaped ==
    \A a \in Acbs : Contains(first_aio, a) ~>
                        ~Contains(first_aio, a) \/ SyncCanceled

\* The request as its submitter sees it.
RequestState(a) ==
    IF a \in free THEN "free"
    ELSE IF ~Contains(first_aio, a) THEN "callback"
    ELSE IF ~active[a] THEN "queued"
    ELSE IF ret[a] = "in_progress" THEN "running" ELSE "finished"

AbstractIo == INSTANCE AsyncIo WITH
    Requests <- Acbs,
    st <- [a \in Acbs |-> RequestState(a)],
    home <- submitted_in,
    cur <- context

(* The thread pool, the signal, the pipe and the walks over first_aio       *)
(* implement the promises of AsyncIo.                                       *)
ImplementsAsyncIo == AbstractIo!AbsSpec

(* bdrv_read/bdrv_write return: the wait in a nested context ends even with *)
(* a single worker and requests of other contexts queued in front, unless   *)
(* the operation's own system call returned ECANCELED.                      *)
SyncReturns == context > 0 ~> context = 0 \/ SyncCanceled
=============================================================================
