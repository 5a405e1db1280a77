----------------------- MODULE PosixAioContextProofs ------------------------
(***************************************************************************)
(* The stack of the main thread in PosixAio: which frames may be suspended *)
(* and in which AsyncContext each runs.  From it, that qemu_aio_flush      *)
(* drains; that callbacks run in the context of their submission; and that *)
(* the whole implements AsyncIo.  For every value of the constants, the    *)
(* last two without paio_ioctl.                                            *)
(***************************************************************************)
EXTENDS PosixAioProofs

-----------------------------------------------------------------------------
(* The shape of the stack.                                                 *)

\* qemu_aio_flush calls nobody between its two looks at the loop condition.
Settled(f) == f.k = "flush" => f.i # FLUSHED

\* Without paio_ioctl no user code runs in a nested context: there is one
\* such context, with nothing in it but the request of an "em" frame.
Home(f) ==
    Ioctls \/ /\ f.c \in {0, 1}
              /\ f.k \in {"loop", "cb", "flush"} => f.c = 0
              /\ f.k = "em" => f.c = 1

\* Frames that may have called another one.
Suspended ==
    {f \in GoodFrames :
        Settled(f) /\ Home(f) /\ f.k \notin {"signal", "cancel"}}

\* Only an "em" frame runs in a context of its own, the caller's next one.
Under(f, g) == f.c = IF f.k = "em" THEN g.c + 1 ELSE g.c

Chained(s) == \A n \in 1..(Len(s) - 1) : Under(s[n], s[n + 1])

Shape(s) ==
    s \in Stacks /\ Tail(s) \in Seq(Suspended) /\ Chained(s) /\ Home(Head(s))

LEMMA ShapePush ==
    ASSUME NEW s, Shape(s), Head(s) \in Suspended, NEW f \in GoodFrames,
           Under(f, Head(s)), Home(f)
    PROVE  Shape(<<f>> \o s) /\ Head(<<f>> \o s) = f
  <1> DEFINE q == <<f>> \o s
  <1>1. /\ s \in Stacks /\ s \in Seq(GoodFrames) /\ s # <<>> /\ Head(s) = s[1]
        /\ Tail(s) \in Seq(Suspended) /\ Chained(s)
    BY StackTop DEF Shape
  <1>2. /\ q \in Stacks /\ q \in Seq(GoodFrames) /\ Len(q) = Len(s) + 1
        /\ q[1] = f /\ \A n \in 1..Len(s) : q[n + 1] = s[n]
        /\ Head(q) = f /\ Tail(q) = s
    BY <1>1, StackPush, Pushed
  <1>3. s \in Seq(Suspended)
    <2>1. s = <<Head(s)>> \o Tail(s)
      BY <1>1, HeadOnTail
    <2>2. <<Head(s)>> \o Tail(s) \in Seq(Suspended)
      BY <1>1, Pushed
    <2> QED
      BY <2>1, <2>2
  <1>4. Len(s) \in Nat /\ Len(s) > 0
    BY <1>1, LenProperties, EmptySeq
  <1> HIDE DEF q
  <1>5. ASSUME NEW n \in 1..(Len(q) - 1)
        PROVE  Under(q[n], q[n + 1])
    <2>1. n \in 1..Len(s) /\ q[n + 1] = s[n]
      BY <1>2, <1>4
    <2>2. CASE n = 1
      BY <1>1, <1>2, <2>1, <2>2
    <2>3. CASE n # 1
      <3>1. n - 1 \in 1..(Len(s) - 1) /\ n - 1 \in 1..Len(s) /\ (n - 1) + 1 = n
        BY <1>4, <2>1, <2>3
      <3>2. q[(n - 1) + 1] = s[n - 1] /\ Under(s[n - 1], s[(n - 1) + 1])
        BY <1>1, <1>2, <3>1 DEF Chained
      <3> QED
        BY <2>1, <3>1, <3>2
    <2> QED
      BY <2>2, <2>3
  <1>6. Shape(q)
    BY <1>2, <1>3, <1>5 DEF Shape, Chained
  <1> QED
    BY <1>2, <1>6 DEF q

LEMMA ShapePop ==
    ASSUME NEW s, Shape(s), Head(s).k # "loop"
    PROVE  /\ Shape(Tail(s)) /\ Head(Tail(s)) \in Suspended
           /\ Under(Head(s), Head(Tail(s))) /\ Head(Tail(s)) = s[2]
           /\ Len(Tail(s)) < Len(s)
  <1> DEFINE q == Tail(s)
  <1>1. /\ s \in Stacks /\ s \in Seq(GoodFrames) /\ s # <<>> /\ Head(s) = s[1]
        /\ q \in Seq(Suspended) /\ Chained(s)
    BY StackTop DEF Shape
  <1>2. /\ q \in Stacks /\ Head(q) = s[2] /\ q \in Seq(GoodFrames)
        /\ Len(q) = Len(s) - 1 /\ \A n \in 1..Len(q) : q[n] = s[n + 1]
    BY <1>1, StackPop, HeadTailProperties
  <1>3. Len(s) \in Nat /\ Len(q) \in Nat /\ Len(q) > 0 /\ q # <<>>
    BY <1>1, <1>2, LenProperties, StackTop DEF Stacks
  <1>4. Head(q) \in Suspended /\ Tail(q) \in Seq(Suspended)
    BY <1>1, <1>3, HeadTailProperties
  <1> HIDE DEF q
  <1>5. ASSUME NEW n \in 1..(Len(q) - 1)
        PROVE  Under(q[n], q[n + 1])
    <2>1. /\ n \in 1..Len(q) /\ n + 1 \in 1..Len(q)
          /\ n + 1 \in 1..(Len(s) - 1)
      BY <1>2, <1>3
    <2>2. q[n] = s[n + 1] /\ q[n + 1] = s[(n + 1) + 1]
      BY <1>2, <2>1
    <2>3. Under(s[n + 1], s[(n + 1) + 1])
      BY <1>1, <2>1 DEF Chained
    <2> QED
      BY <2>2, <2>3
  <1>6. Under(s[1], s[2])
    <2>1. 1 \in 1..(Len(s) - 1) /\ 1 + 1 = 2
      BY <1>2, <1>3
    <2> QED
      BY <1>1, <2>1 DEF Chained
  <1>7. Shape(q)
    BY <1>2, <1>4, <1>5 DEF Shape, Chained, Suspended
  <1> QED
    BY <1>1, <1>2, <1>3, <1>4, <1>6, <1>7 DEF q

\* The top frame moves on.
LEMMA ShapeReplace ==
    ASSUME NEW s, Shape(s), NEW f \in GoodFrames,
           f.k = Head(s).k, f.c = Head(s).c
    PROVE  /\ Shape(<<f>> \o Tail(s)) /\ Head(<<f>> \o Tail(s)) = f
           /\ Len(<<f>> \o Tail(s)) = Len(s)
  <1> DEFINE r == Tail(s)
             q == <<f>> \o r
  <1>1. /\ s \in Stacks /\ s \in Seq(GoodFrames) /\ s # <<>> /\ Head(s) = s[1]
        /\ r \in Seq(Suspended) /\ Chained(s)
    BY StackTop DEF Shape
  <1>2. /\ r \in Seq(GoodFrames) /\ Len(r) = Len(s) - 1 /\ Len(s) \in Nat
        /\ \A n \in 1..Len(r) : r[n] = s[n + 1]
    BY <1>1, HeadTailProperties, LenProperties
  <1>3. q \in Stacks
    BY <1>1, StackReplace
  <1> HIDE DEF r
  <1>4. /\ q \in Seq(GoodFrames) /\ Len(q) = Len(r) + 1
        /\ q[1] = f /\ \A n \in 1..Len(r) : q[n + 1] = r[n]
        /\ Head(q) = f /\ Tail(q) = r
    BY <1>2, Pushed
  <1> HIDE DEF q
  <1>5. \A n \in 2..Len(s) : q[n] = s[n]
    <2>1. SUFFICES ASSUME NEW n \in 2..Len(s)
                   PROVE  q[n] = s[n]
      OBVIOUS
    <2>2. n - 1 \in 1..Len(r) /\ (n - 1) + 1 = n
      BY <1>2
    <2>3. q[(n - 1) + 1] = r[n - 1] /\ r[n - 1] = s[(n - 1) + 1]
      BY <1>2, <1>4, <2>2
    <2> QED
      BY <2>2, <2>3
  <1>6. ASSUME NEW n \in 1..(Len(q) - 1)
        PROVE  Under(q[n], q[n + 1])
    <2>1. n \in 1..(Len(s) - 1) /\ n + 1 \in 2..Len(s)
      BY <1>2, <1>4
    <2>2. q[n + 1] = s[n + 1] /\ Under(s[n], s[n + 1])
      BY <1>1, <1>5, <2>1 DEF Chained
    <2>3. CASE n = 1
      BY <1>1, <1>4, <2>2, <2>3 DEF Under
    <2>4. CASE n # 1
      <3>1. n \in 2..Len(s)
        BY <2>1, <2>4, <1>2
      <3> QED
        BY <1>5, <2>2, <3>1
    <2> QED
      BY <2>3, <2>4
  <1>7. Home(f)
    BY DEF Shape, Home
  <1>8. Shape(q)
    BY <1>1, <1>3, <1>4, <1>6, <1>7 DEF Shape, Chained
  <1> QED
    BY <1>2, <1>4, <1>8 DEF q, r

-----------------------------------------------------------------------------
(* The ways in which a step changes the stack.                             *)

\* A top frame that is in none of the two places the invariant speaks of.
Calm(f) == Settled(f) /\ f.k # "cancel"

LEMMA TopHome ==
    ASSUME Shape(stack)
    PROVE  /\ stack \in Stacks /\ Home(Top)
           /\ Top.k \in {"loop", "cb"} => Top \in Suspended
           /\ Top.k \in {"loop", "cb", "flush"} => Ioctls \/ context = 0
           /\ Top.k = "em" => Ioctls \/ context = 1
           /\ Ioctls \/ context \in {0, 1}
  <1>1. stack \in Stacks /\ Home(Top)
    BY DEF Shape, Top
  <1>2. Top \in GoodFrames
    BY <1>1, TopType
  <1> QED
    BY <1>1, <1>2 DEF Suspended, Settled, Home, context

LEMMA PushShape ==
    ASSUME Shape(stack), Top \in Suspended, NEW f \in GoodFrames,
           Under(f, Top), Home(f)
    PROVE  /\ Shape(<<f>> \o stack) /\ Head(<<f>> \o stack) = f
           /\ Len(<<f>> \o stack) > Len(stack)
  <1>1. Len(<<f>> \o stack) > Len(stack)
    <2>1. stack \in Seq(GoodFrames)
      BY StackTop DEF Shape
    <2> QED
      BY <2>1, Pushed, LenProperties
  <1> QED
    BY <1>1, ShapePush DEF Top

LEMMA PopShape ==
    ASSUME Shape(stack), Top.k # "loop"
    PROVE  /\ Shape(Tail(stack)) /\ Calm(Head(Tail(stack)))
           /\ stack[2] = Head(Tail(stack)) /\ stack[2] \in Suspended
           /\ Top.k # "em" => stack[2].c = context
           /\ Top.k = "em" => context = stack[2].c + 1
           /\ Len(Tail(stack)) < Len(stack)
  <1>1. /\ Shape(Tail(stack)) /\ Head(Tail(stack)) \in Suspended
        /\ Under(Top, Head(Tail(stack))) /\ Head(Tail(stack)) = stack[2]
        /\ Len(Tail(stack)) < Len(stack)
    BY ShapePop DEF Top
  <1> QED
    BY <1>1 DEF Calm, Suspended, Under, context

LEMMA GotoShape ==
    ASSUME Shape(stack), NEW i \in Nat, Top.k = "walk" => i > 0,
           Top.k = "flush" => i # FLUSHED, Top.k # "cancel"
    PROVE  /\ Shape(Goto(i)) /\ Calm(Head(Goto(i)))
           /\ Head(Goto(i)).c = context /\ Len(Goto(i)) = Len(stack)
  <1> DEFINE f == [Top EXCEPT !.i = i]
  <1>1. /\ f \in GoodFrames /\ f.k = Top.k /\ f.c = Top.c /\ f.i = i
    BY TopHome, TopType DEF GoodFrames, Frames
  <1>2. Goto(i) = <<f>> \o Tail(stack) /\ Calm(f) /\ f.k = Head(stack).k
        /\ f.c = Head(stack).c
    BY <1>1 DEF Goto, Top, Calm, Settled
  <1> HIDE DEF f
  <1> QED
    BY <1>1, <1>2, ShapeReplace DEF context, Top

LEMMA CallShape ==
    ASSUME Shape(stack), NEW i \in Nat, Top.k \in {"loop", "em", "flush"},
           i # FLUSHED
    PROVE  /\ Shape(Call(i, Walk)) /\ Calm(Head(Call(i, Walk)))
           /\ Head(Call(i, Walk)).c = context /\ Len(Call(i, Walk)) > Len(stack)
  <1> DEFINE g == [Top EXCEPT !.i = i]
             f == Walk
             q == <<g>> \o Tail(stack)
  <1>1. /\ g \in GoodFrames /\ g.k = Top.k /\ g.c = Top.c /\ g.i = i
        /\ g.k = Head(stack).k /\ g.c = Head(stack).c
    BY TopHome, TopType DEF GoodFrames, Frames, Top
  <1>2. f \in GoodFrames /\ f.k = "walk" /\ f.c = context /\ Calm(f)
    BY TopHome, TopType
    DEF Walk, Frame, Frames, FrameKinds, GoodFrames, Calm, Settled
  <1>3. Home(g) /\ Home(f) /\ Under(f, g) /\ g \in Suspended
    BY <1>1, <1>2, TopHome DEF Home, Under, Suspended, Settled, context
  <1>4. Call(i, Walk) = <<f, g>> \o Tail(stack)
    BY DEF Call
  <1> HIDE DEF f, g
  <1>5. Shape(q) /\ Head(q) = g /\ Len(q) = Len(stack)
    BY <1>1, ShapeReplace
  <1>6. q \in Seq(GoodFrames) /\ Len(q) \in Nat
    BY <1>5, StackTop, LenProperties DEF Shape
  <1>7. Call(i, Walk) = <<f>> \o q
    <2>1. Tail(stack) \in Seq(GoodFrames)
      BY TopHome, StackTop, HeadTailProperties
    <2> QED
      BY <1>1, <1>2, <1>4, <2>1, StackTwo
  <1> HIDE DEF q
  <1>8. Shape(<<f>> \o q) /\ Head(<<f>> \o q) = f /\ Len(<<f>> \o q) = Len(q) + 1
    BY <1>2, <1>3, <1>5, <1>6, ShapePush, Pushed
  <1>9. Len(<<f>> \o q) > Len(stack)
    BY <1>5, <1>6, <1>8
  <1> QED
    BY <1>2, <1>7, <1>8, <1>9, Zenon

-----------------------------------------------------------------------------
(* Every step keeps the shape.                                             *)

LEMMA FlushAskShape ==
    ASSUME Shape(stack), FlushAsk
    PROVE  /\ Shape(stack') /\ Top'.k = "flush" /\ Top'.r = PosixAioFlush
           /\ context' = context /\ Len(stack') = Len(stack)
  <1> DEFINE g == [Top EXCEPT !.i = FLUSHED]
             f == [g EXCEPT !.r = PosixAioFlush]
  <1>1. Top \in GoodFrames /\ Top.k = "flush"
    BY TopHome, TopType DEF FlushAsk
  <1>2. g \in GoodFrames /\ g.k = "flush" /\ g.c = Top.c
    BY <1>1 DEF FLUSHED, GoodFrames, Frames
  <1>3. f \in GoodFrames /\ f.k = "flush" /\ f.c = Top.c /\ f.r = PosixAioFlush
    <2>1. PosixAioFlush \in BOOLEAN
      BY DEF PosixAioFlush
    <2> HIDE DEF g
    <2> QED
      BY <1>2, <2>1 DEF GoodFrames, Frames
  <1>4. stack' = <<f>> \o Tail(stack)
    BY DEF FlushAsk
  <1> HIDE DEF f
  <1>5. f.k = Head(stack).k /\ f.c = Head(stack).c
    BY <1>1, <1>3 DEF Top
  <1>6. Shape(stack') /\ Head(stack') = f /\ Len(stack') = Len(stack)
    BY <1>3, <1>4, <1>5, ShapeReplace
  <1> QED
    BY <1>3, <1>6 DEF Top, context

LEMMA WalkEndShape ==
    ASSUME Shape(stack), WalkEnd
    PROVE  Shape(stack') /\ Calm(Top') /\ context' = context
  <1> DEFINE q == Tail(stack)
             f == [stack[2] EXCEPT !.i = WAITED]
  <1>1. /\ Shape(q) /\ Calm(Head(q)) /\ stack[2] = Head(q)
        /\ stack[2] \in Suspended /\ Head(q).c = context
    BY PopShape DEF WalkEnd
  <1>2. CASE WaitReturns(stack[2])
    <2>1. /\ f \in GoodFrames /\ f.k = Head(q).k /\ f.c = Head(q).c
          /\ f.i = WAITED /\ f.k \in {"em", "flush"}
      BY <1>1, <1>2 DEF WaitReturns, WAITED, Suspended, GoodFrames, Frames
    <2>2. stack' = <<f>> \o Tail(q) /\ Calm(f)
      BY <1>2, <2>1 DEF WalkEnd, Calm, Settled, WAITED, FLUSHED
    <2> HIDE DEF f, q
    <2>3. Shape(stack') /\ Head(stack') = f
      BY <1>1, <2>1, <2>2, ShapeReplace
    <2>4. Top' = f /\ context' = f.c
      BY <2>3 DEF Top, context
    <2> QED
      BY <1>1, <2>1, <2>2, <2>3, <2>4, Zenon
  <1>3. CASE ~WaitReturns(stack[2])
    <2>1. stack' = q
      BY <1>3 DEF WalkEnd
    <2>2. Top' = Head(q) /\ context' = Head(q).c
      BY <2>1 DEF Top, context
    <2> HIDE DEF q
    <2> QED
      BY <1>1, <2>1, <2>2, Zenon
  <1> QED
    BY <1>2, <1>3

\* A step that leaves the main thread calm in its context.
CalmStep == Shape(stack') /\ Calm(Top') /\ context' = context

LEMMA CallStep ==
    ASSUME Shape(stack), NEW i \in Nat, Top.k \in {"loop", "em", "flush"},
           i # FLUSHED, RunBh(i) \/ PosixAioRead(i) \/ stack' = Call(i, Walk)
    PROVE  CalmStep /\ Len(stack') > Len(stack)
  <1>1. stack' = Call(i, Walk)
    BY DEF RunBh, PosixAioRead
  <1> QED
    BY <1>1, CallShape DEF CalmStep, Top, context

LEMMA GotoStep ==
    ASSUME Shape(stack), NEW i \in Nat, Top.k = "walk" => i > 0,
           Top.k = "flush" => i # FLUSHED, Top.k # "cancel", stack' = Goto(i)
    PROVE  CalmStep /\ Len(stack') = Len(stack)
  BY GotoShape DEF CalmStep, Top, context

LEMMA PopStep ==
    ASSUME Shape(stack), Top.k \notin {"loop", "em"}, stack' = Tail(stack)
    PROVE  CalmStep
  BY PopShape DEF CalmStep, Top, context

\* async_context_pop.
LEMMA EmPopStep ==
    ASSUME Shape(stack), Top.k = "em", stack' = Tail(stack)
    PROVE  Shape(stack') /\ Calm(Top') /\ context = context' + 1
  BY PopShape DEF Top, context

\* Users call the block layer.
LEMMA PushStep ==
    ASSUME Shape(stack), Top.k \in {"loop", "cb"}, NEW f \in GoodFrames,
           f.k \in {"signal", "flush", "cancel"}, f.c = context,
           stack' = <<f>> \o stack
    PROVE  Shape(stack') /\ Top' = f /\ context' = context
  <1>1. Under(f, Top)
    BY DEF Under, context
  <1>2. Home(f) /\ Top \in Suspended
    BY TopHome DEF Home
  <1> QED
    BY <1>1, <1>2, PushShape DEF Top, context

LEMMA QuietMainShape ==
    ASSUME TypeInv, Shape(stack), QuietMain
    PROVE  /\ Shape(stack')
           /\ FlushAsk \/ Calm(Top') \/ stack' = stack
           /\ \/ context' = context
              \/ EmReturn /\ Top.k = "em" /\ context = context' + 1
  <1>1. /\ Top.i \in Nat /\ 0 \in Nat /\ POLL \in Nat /\ SELECT \in Nat
        /\ WAITED \in Nat /\ 0 # FLUSHED /\ POLL # FLUSHED /\ SELECT # FLUSHED
        /\ WAITED # FLUSHED /\ context \in Contexts
    BY TopHome, TopType DEF POLL, SELECT, WAITED, FLUSHED
  <1>2. CASE RwEmFails
    BY <1>2 DEF RwEmFails, Top, context
  <1>3. CASE AioFlush
    <2> DEFINE f == Frame("flush", Nobody, POLL, context)
    <2>1. /\ f \in GoodFrames /\ f.k = "flush" /\ f.c = context /\ Calm(f)
      BY <1>1, FrameType DEF FrameKinds, Frame, Calm, Settled
    <2>2. stack' = <<f>> \o stack /\ Top.k \in {"loop", "cb"}
      BY <1>3 DEF AioFlush, Push
    <2> HIDE DEF f
    <2>3. Shape(stack') /\ Top' = f /\ context' = context
      BY <2>1, <2>2, PushStep
    <2> QED
      BY <2>1, <2>3, Zenon
  <1>4. CASE CondSignal
    BY <1>4, PopStep DEF CondSignal, CalmStep
  <1>5. CASE WalkSkip
    BY <1>1, <1>5, GotoStep DEF WalkSkip, CalmStep
  <1>6. CASE WalkEnd
    BY <1>6, WalkEndShape
  <1>7. CASE MainLoop
    BY <1>1, <1>7, CallStep DEF MainLoop, CalmStep
  <1>8. CASE AioWaitPoll
    BY <1>1, <1>8, CallStep DEF AioWaitPoll, CalmStep
  <1>9. CASE AioWaitSelect
    BY <1>1, <1>9, CallStep, GotoStep DEF AioWaitSelect, CalmStep
  <1>10. CASE EmAgain
    BY <1>1, <1>10, GotoStep DEF EmAgain, CalmStep
  <1>11. CASE EmReturn
    <2>1. CASE RunBh(WAITED)
      BY <1>1, <1>11, <2>1, CallStep DEF EmReturn, CalmStep
    <2>2. CASE AsyncContextPop
      BY <1>11, <2>2, EmPopStep DEF EmReturn, AsyncContextPop
    <2> QED
      BY <1>11, <2>1, <2>2 DEF EmReturn
  <1>12. CASE FlushAsk
    BY <1>12, FlushAskShape
  <1>13. CASE FlushLoop
    <2>1. CASE RunBh(POLL)
      BY <1>1, <1>13, <2>1, CallStep DEF FlushLoop, CalmStep
    <2>2. CASE stack' = Goto(POLL)
      BY <1>1, <1>13, <2>2, GotoStep DEF FlushLoop, CalmStep
    <2>3. CASE stack' = Tail(stack)
      BY <1>13, <2>3, PopStep DEF FlushLoop, CalmStep
    <2> QED
      BY <1>13, <2>1, <2>2, <2>3 DEF FlushLoop
  <1>14. CASE AioSignalHandler
    <2>1. CASE stack' = stack
      BY <2>1 DEF Top, context
    <2>2. CASE stack' = Goto(WAITED) /\ Top.k \in {"em", "flush"}
      BY <1>1, <2>2, GotoStep DEF CalmStep
    <2> QED
      BY <1>14, <2>1, <2>2 DEF AioSignalHandler
  <1> QED
    BY <1>2, <1>3, <1>4, <1>5, <1>6, <1>7, <1>8, <1>9, <1>10, <1>11, <1>12,
       <1>13, <1>14 DEF QuietMain

LEMMA RemovalShape ==
    ASSUME TypeInv, Shape(stack), CancelWaited \/ WalkDrop \/ CbReturn
    PROVE  CalmStep
  <1>1. CASE CancelWaited \/ CbReturn
    BY <1>1, PopStep DEF CancelWaited, CbReturn
  <1>2. CASE WalkDrop
    <2> DEFINE f == [Top EXCEPT !.r = TRUE]
    <2>1. Top \in GoodFrames /\ Top.k = "walk"
      BY <1>2, TopHome, TopType DEF WalkDrop
    <2>2. /\ f \in GoodFrames /\ f.k = "walk" /\ f.c = context
          /\ f.k = Head(stack).k /\ f.c = Head(stack).c /\ Calm(f)
      BY <2>1 DEF GoodFrames, Frames, Top, context, Calm, Settled
    <2>3. stack' = <<f>> \o Tail(stack)
      BY <1>2 DEF WalkDrop
    <2> HIDE DEF f
    <2>4. Shape(stack') /\ Head(stack') = f
      BY <2>2, <2>3, ShapeReplace
    <2>5. Top' = f /\ context' = f.c
      BY <2>4 DEF Top, context
    <2> QED
      BY <2>2, <2>4, <2>5, Zenon DEF CalmStep
  <1> QED
    BY <1>1, <1>2

LEMMA SubmitShape ==
    ASSUME TypeInv, Shape(stack), NEW a \in Acbs, Submit(a)
    PROVE  /\ Shape(stack') /\ Calm(Top')
           /\ \/ (AioRw(a) \/ AioIoctl(a)) /\ context' = context
              \/ RwEm(a) /\ context' = context + 1
  <1>1. /\ context \in Contexts /\ Top.k \in {"loop", "cb"} /\ Top \in Suspended
        /\ stack \in Seq(GoodFrames)
    BY TopHome, TopType, StackTop
    DEF Submit, AioRw, AioIoctl, RwEm, Operation, UserCode
  <1>2. ASSUME NEW c \in Contexts
        PROVE  /\ Signal(c) \in GoodFrames /\ Signal(c).k = "signal"
               /\ Signal(c).c = c /\ Calm(Signal(c))
    BY SignalType DEF Signal, Frame, Calm, Settled
  <1>3. CASE AioRw(a) \/ AioIoctl(a)
    <2>1. stack' = <<Signal(context)>> \o stack
      BY <1>3 DEF AioRw, AioIoctl, Push
    <2>2. Shape(stack') /\ Top' = Signal(context) /\ context' = context
      BY <1>1, <1>2, <2>1, PushStep
    <2>3. Calm(Top')
      BY <1>1, <1>2, <2>2
    <2> QED
      BY <1>3, <2>2, <2>3
  <1>4. CASE RwEm(a)
    <2> DEFINE c == context + 1
               f == Signal(c)
               g == Frame("em", a, POLL, c)
               q == <<g>> \o stack
    <2>1. c \in Contexts
      BY <1>1, <1>4, MaxContextAssumption DEF RwEm, Contexts
    <2>2. /\ f \in GoodFrames /\ f.k = "signal" /\ f.c = c /\ Calm(f)
      BY <1>2, <2>1
    <2>3. g \in GoodFrames /\ g.k = "em" /\ g.c = c
      BY <2>1, FrameType DEF POLL, FrameKinds, Frame
    <2>4. stack' = <<f, g>> \o stack
      BY <1>4 DEF RwEm
    <2>5. Under(g, Top) /\ Under(f, g)
      BY <2>2, <2>3 DEF Under, context
    <2>6. Home(g) /\ Home(f)
      BY <1>1, <2>2, <2>3, TopHome DEF Home
    <2>7. g \in Suspended
      BY <2>3, <2>6 DEF Suspended, Settled
    <2> HIDE DEF f, g, c
    <2>8. Shape(q) /\ Head(q) = g
      BY <1>1, <2>3, <2>5, <2>6, PushShape
    <2>9. stack' = <<f>> \o q
      BY <1>1, <2>2, <2>3, <2>4, StackTwo
    <2> HIDE DEF q
    <2>10. Shape(stack') /\ Head(stack') = f
      BY <2>2, <2>5, <2>6, <2>7, <2>8, <2>9, ShapePush
    <2>11. Top' = f /\ context' = context + 1
      BY <2>2, <2>10 DEF Top, context, c
    <2>12. Calm(Top')
      BY <2>2, <2>11
    <2> QED
      BY <1>4, <2>10, <2>11, <2>12
  <1> QED
    BY <1>3, <1>4 DEF Submit

\* posix_aio_process_queue calls a callback, in the context of the walk.
LEMMA WalkDeliverShape ==
    ASSUME TypeInv, Shape(stack), WalkDeliver,
           Ioctls \/ cb[WalkAcb] # "user" \/ context = 0
    PROVE  CalmStep
  <1> DEFINE a == WalkAcb
             g == [Top EXCEPT !.i = 1, !.r = TRUE]
             f == Frame("cb", a, 0, context)
             q == <<g>> \o Tail(stack)
  <1>1. /\ Top.k = "walk" /\ g \in GoodFrames /\ g.k = "walk" /\ g.c = context
        /\ g.k = Head(stack).k /\ g.c = Head(stack).c
    BY ResumedFrame DEF WalkDeliver, Top, context
  <1>2. /\ Calm(g) /\ g \in Suspended
    BY <1>1, TopHome DEF Calm, Settled, Suspended, Home, context
  <1>3. \/ stack' = q
        \/ stack' = <<f>> \o q /\ cb[a] = "user"
    BY DEF WalkDeliver
  <1>4. a \in Acbs /\ context \in Contexts
    <2>1. first_aio \in Seq(Acbs) /\ Top.i \in 1..Len(first_aio)
      BY TopHome, TopType, LenProperties DEF WalkDeliver, TypeInv, RequestsOK
    <2> QED
      BY <2>1, TopHome, TopType, ElementOfSeq DEF WalkAcb
  <1>5. f \in GoodFrames /\ f.k = "cb" /\ f.c = context /\ Calm(f)
    BY <1>4, FrameType DEF Frame, FrameKinds, Calm, Settled
  <1>6. Under(f, g)
    BY <1>1, <1>5 DEF Under
  <1>7. cb[a] = "user" => Home(f)
    BY <1>5 DEF Home
  <1> HIDE DEF f, g, a
  <1>8. Shape(q) /\ Head(q) = g
    BY <1>1, ShapeReplace
  <1> HIDE DEF q
  <1>9. CASE stack' = q
    <2>1. Top' = g /\ context' = context
      BY <1>1, <1>8, <1>9 DEF Top, context
    <2> QED
      BY <1>2, <1>8, <1>9, <2>1, Zenon DEF CalmStep
  <1>10. CASE stack' = <<f>> \o q /\ cb[a] = "user"
    <2>1. Shape(stack') /\ Head(stack') = f
      BY <1>2, <1>5, <1>6, <1>7, <1>8, <1>10, ShapePush
    <2>2. Top' = f /\ context' = context
      BY <1>5, <2>1 DEF Top, context
    <2> QED
      BY <1>5, <2>1, <2>2, Zenon DEF CalmStep
  <1> QED
    BY <1>3, <1>9, <1>10

-----------------------------------------------------------------------------
(* The invariant.                                                          *)

\* qemu_aio_flush is about to return: it found first_aio empty.
Flushing == Top.k = "flush" /\ Top.i = FLUSHED /\ ~Top.r => first_aio = <<>>

\* paio_cancel waits for a request a worker has taken.
Cancelling ==
    Top.k = "cancel" => /\ Contains(first_aio, Top.a) /\ active[Top.a]
                        /\ submitted_in[Top.a] = context

\* Without paio_ioctl a request of a nested context is the one that the
\* "em" frame of this context waits for.
Nested ==
    Ioctls \/
        /\ async_context_id = submitted_in
        /\ \A a \in Acbs \ free :
              /\ cb[a] = "user" => submitted_in[a] = 0
              /\ submitted_in[a] <= context
              /\ submitted_in[a] > 0 => async_ret[1] = "not_done"
        /\ \A a, b \in Acbs \ free :
              submitted_in[a] > 0 /\ submitted_in[b] > 0 => a = b
        /\ \A a \in Acbs : Runs(stack, a) => submitted_in[a] = 0

MainInv == Shape(stack) /\ Flushing /\ Cancelling /\ Nested

LEMMA NestedQuiet ==
    ASSUME Nested, context' = context, free \subseteq free',
           UNCHANGED <<async_context_id, cb, submitted_in, async_ret>>,
           \A a : Runs(stack', a) => Runs(stack, a)
    PROVE  Nested'
  <1>1. CASE Ioctls
    BY <1>1 DEF Nested
  <1>2. CASE ~Ioctls
    <2>1. /\ async_context_id' = submitted_in'
          /\ \A a \in Acbs : Runs(stack', a) => submitted_in'[a] = 0
      BY <1>2 DEF Nested
    <2>2. \A a \in Acbs \ free' :
             /\ cb'[a] = "user" => submitted_in'[a] = 0
             /\ submitted_in'[a] <= context'
             /\ submitted_in'[a] > 0 => async_ret'[1] = "not_done"
      BY <1>2 DEF Nested
    <2>3. \A a, b \in Acbs \ free' :
             submitted_in'[a] > 0 /\ submitted_in'[b] > 0 => a = b
      BY <1>2 DEF Nested
    <2> QED
      BY <2>1, <2>2, <2>3 DEF Nested
  <1> QED
    BY <1>1, <1>2

LEMMA SubmitMain ==
    ASSUME TypeInv, OwnInv, MainInv, NEW a \in Acbs, Submit(a)
    PROVE  MainInv'
  <1>1. /\ Shape(stack') /\ Calm(Top')
        /\ \/ (AioRw(a) \/ AioIoctl(a)) /\ context' = context
           \/ RwEm(a) /\ context' = context + 1
    BY SubmitShape DEF MainInv
  <1>2. Flushing' /\ Cancelling'
    BY <1>1 DEF Calm, Settled, Flushing, Cancelling
  <1>3. Nested'
    <2>1. CASE Ioctls
      BY <2>1 DEF Nested
    <2>2. CASE ~Ioctls
      <3>1. /\ Top.k \in {"loop", "cb"} /\ context = 0
        BY <2>2, TopHome DEF MainInv, Submit, AioRw, AioIoctl, RwEm, Operation,
           UserCode
      <3>2. PICK f \in {"user", "rw_em"}, c \in {0, 1} :
               /\ PaioSubmit(a, f, c) /\ context' = c
               /\ c = 0 => f = "user" /\ async_ret' = async_ret
               /\ c = 1 => f = "rw_em" /\ async_ret'[1] = "not_done"
        <4>1. CASE AioRw(a) /\ context' = context
          BY <3>1, <4>1 DEF AioRw, ctxVars
        <4>2. CASE RwEm(a) /\ context' = context + 1
          <5>1. 1 \in Contexts
            BY <3>1, <4>2, MaxContextAssumption DEF RwEm, Contexts
          <5> QED
            BY <3>1, <4>2, <5>1 DEF RwEm, TypeInv, MainOK
        <4> QED
          BY <1>1, <2>2, <4>1, <4>2 DEF AioIoctl
      <3>3. /\ a \in free /\ free' = free \ {a}
            /\ async_context_id' = [async_context_id EXCEPT ![a] = c]
            /\ submitted_in' = [submitted_in EXCEPT ![a] = c]
            /\ cb' = [cb EXCEPT ![a] = f]
        BY <3>2 DEF PaioSubmit, PaioStart, QemuAioGet
      <3>4. \A b \in Acbs : /\ submitted_in'[b] = IF b = a THEN c
                                                  ELSE submitted_in[b]
                            /\ cb'[b] = IF b = a THEN f ELSE cb[b]
        BY <3>3 DEF TypeInv, RequestsOK
      <3>5. async_context_id' = submitted_in'
        BY <2>2, <3>3 DEF MainInv, Nested
      <3>6. ASSUME NEW b \in Acbs \ free, b # a
            PROVE  submitted_in'[b] = 0
        <4>1. submitted_in[b] \in Nat /\ submitted_in[b] <= 0
          BY <2>2, <3>1 DEF MainInv, Nested, TypeInv, RequestsOK, Contexts
        <4> QED
          BY <3>4, <3>6, <4>1
      <3>7. ~Runs(stack, a) /\ \A b \in Acbs : Runs(stack', b) <=> Runs(stack, b)
        BY <3>3, SubmitCallbacks DEF SameCallbacks, OwnInv, Placed
      <3>8. \A b \in Acbs \ free' : b = a \/ submitted_in'[b] = 0
        BY <3>3, <3>6
      <3>9. \A b \in Acbs \ free' :
               /\ cb'[b] = "user" => submitted_in'[b] = 0
               /\ submitted_in'[b] <= context'
               /\ submitted_in'[b] > 0 => async_ret'[1] = "not_done"
        BY <3>2, <3>4, <3>8
      <3>10. \A b, d \in Acbs \ free' :
                submitted_in'[b] > 0 /\ submitted_in'[d] > 0 => b = d
        BY <3>8
      <3>11. \A b \in Acbs : Runs(stack', b) => submitted_in'[b] = 0
        BY <2>2, <3>4, <3>7 DEF MainInv, Nested
      <3> QED
        BY <3>5, <3>9, <3>10, <3>11 DEF Nested
    <2> QED
      BY <2>1, <2>2
  <1> QED
    BY <1>1, <1>2, <1>3 DEF MainInv

LEMMA CancelMain ==
    ASSUME TypeInv, MainInv, NEW a \in Acbs, Cancel(a)
    PROVE  MainInv'
  <1>1. /\ Shape(stack) /\ context \in Contexts /\ Top.k \in {"loop", "cb"}
        /\ Contains(first_aio, a) /\ submitted_in[a] = context
    BY TopHome, TopType DEF MainInv, Cancel, CancelQueued, CancelFinished,
       CancelActive, Cancellable, UserCode
  <1>2. UNCHANGED <<async_context_id, cb, submitted_in, async_ret>>
    BY DEF Cancel, CancelQueued, CancelFinished, CancelActive, idVars, ctxVars,
       requestVars, acbVars
  <1>3. free \subseteq free'
    BY DEF Cancel, CancelQueued, CancelFinished, CancelActive, PaioRemove,
       requestVars, acbVars
  <1>4. CASE CancelQueued(a) \/ CancelFinished(a)
    <2>1. stack' = stack /\ context' = context /\ Top' = Top
      BY <1>4 DEF CancelQueued, CancelFinished, context, Top
    <2>2. Nested'
      BY <1>2, <1>3, <2>1, NestedQuiet DEF MainInv
    <2> QED
      BY <1>1, <2>1, <2>2 DEF MainInv, Flushing, Cancelling
  <1>5. CASE CancelActive(a)
    <2> DEFINE f == Frame("cancel", a, 0, context)
    <2>1. f \in GoodFrames /\ f.k = "cancel" /\ f.a = a /\ f.c = context
      BY <1>1, FrameType DEF FrameKinds, Frame
    <2>2. stack' = <<f>> \o stack /\ active[a]
          /\ UNCHANGED <<first_aio, active>>
      BY <1>5 DEF CancelActive, Push, StillActive, requestVars, acbVars
    <2> HIDE DEF f
    <2>3. Shape(stack') /\ Top' = f /\ context' = context
      BY <1>1, <2>1, <2>2, PushStep
    <2>4. Flushing' /\ Cancelling'
      BY <1>1, <1>2, <2>1, <2>2, <2>3 DEF Flushing, Cancelling
    <2>5. \A b : Runs(stack', b) => Runs(stack, b)
      <3>1. SameCallbacks(stack, stack')
        BY <2>1, <2>2, QuietStack DEF TypeInv
      <3> QED
        BY <3>1, Zenon DEF SameCallbacks
    <2>6. Nested'
      BY <1>2, <1>3, <2>3, <2>5, NestedQuiet DEF MainInv
    <2> QED
      BY <2>3, <2>4, <2>6 DEF MainInv
  <1> QED
    BY <1>4, <1>5 DEF Cancel

LEMMA WorkerMain ==
    ASSUME TypeInv, MainInv, NEW t \in Threads, Worker(t) \/ AioThreadWakes(t)
    PROVE  MainInv'
  <1>1. UNCHANGED <<stack, first_aio, free, async_context_id, cb, submitted_in,
                    async_ret>>
    BY DEF Worker, AioThreadWait, AioThreadTake, AioThreadExit, AioThreadFinish,
       AioThreadKill, AioThreadWakes, requestVars, acbVars, idVars, ctxVars
  <1>2. \A a \in Acbs : active[a] => active'[a]
    <2>1. CASE AioThreadTake(t)
      BY <2>1 DEF AioThreadTake, MarkActive, TypeInv, RequestsOK
    <2>2. CASE ~AioThreadTake(t)
      <3>1. active' = active
        BY <2>2 DEF Worker, AioThreadWait, AioThreadExit, AioThreadFinish,
           AioThreadKill, AioThreadWakes, requestVars, acbVars
      <3> QED
        BY <3>1
    <2> QED
      BY <2>1, <2>2
  <1>3. Top' = Top /\ context' = context
    BY <1>1 DEF Top, context
  <1>4. Top.k = "cancel" => Top.a \in Acbs
    BY TopType DEF TypeInv
  <1>5. Flushing' /\ Cancelling'
    BY <1>1, <1>2, <1>3, <1>4 DEF MainInv, Flushing, Cancelling
  <1>6. Nested'
    BY <1>1, <1>3, NestedQuiet DEF MainInv
  <1> QED
    BY <1>1, <1>5, <1>6 DEF MainInv

LEMMA QuietMainMain ==
    ASSUME TypeInv, MainInv, QuietMain
    PROVE  MainInv'
  <1>1. /\ Shape(stack')
        /\ FlushAsk \/ Calm(Top') \/ stack' = stack
        /\ \/ context' = context
           \/ EmReturn /\ Top.k = "em" /\ context = context' + 1
    BY QuietMainShape DEF MainInv
  <1>2. UNCHANGED <<first_aio, active, free, async_context_id, cb, submitted_in,
                    async_ret>>
    BY DEF QuietMain, RwEmFails, AioFlush, CondSignal, WalkSkip, WalkEnd,
       MainLoop, AioWaitPoll, AioWaitSelect, EmAgain, EmReturn, FlushAsk,
       FlushLoop, AioSignalHandler, RunBh, PosixAioRead, requestVars, acbVars,
       idVars, ctxVars
  <1>3. Flushing' /\ Cancelling'
    <2>1. CASE FlushAsk
      BY <1>2, <2>1, FlushAskShape
      DEF MainInv, PosixAioFlush, Flushing, Cancelling
    <2>2. CASE Calm(Top')
      BY <2>2 DEF Calm, Settled, Flushing, Cancelling
    <2>3. CASE stack' = stack
      BY <1>2, <2>3 DEF MainInv, Flushing, Cancelling, Top, context
    <2> QED
      BY <1>1, <2>1, <2>2, <2>3
  <1>4. \A a : Runs(stack', a) => Runs(stack, a)
    BY QuietMainSame, Zenon DEF SameCallbacks
  <1>5. Nested'
    <2>1. CASE context' = context
      BY <1>2, <1>4, <2>1, NestedQuiet DEF MainInv
    <2>2. CASE EmReturn /\ Top.k = "em" /\ context = context' + 1 /\ ~Ioctls
      <3>1. context = 1 /\ context' = 0
        <4>1. context = 1
          BY <2>2, TopHome DEF MainInv
        <4>2. context' \in Contexts
          <5>1. Head(stack') \in GoodFrames
            BY <1>1, StackTop DEF Shape
          <5> QED
            BY <5>1 DEF context, Top, GoodFrames, Frames
        <4>3. context' \in Nat
          BY <4>2, MaxContextAssumption DEF Contexts
        <4>4. context = context' + 1
          BY <2>2
        <4>5. \A n \in Nat : 1 = n + 1 => n = 0
          OBVIOUS
        <4> QED
          BY <4>1, <4>3, <4>4, <4>5, Zenon
      <3>2. async_ret[1] # "not_done"
        BY <2>2, <3>1 DEF EmReturn
      <3>3. \A a \in Acbs \ free : submitted_in[a] = 0
        <4>1. \A a \in Acbs \ free : ~(submitted_in[a] > 0)
          BY <2>2, <3>2 DEF MainInv, Nested
        <4>2. \A a \in Acbs : submitted_in[a] \in Nat
          BY DEF TypeInv, RequestsOK, Contexts
        <4> QED
          BY <4>1, <4>2
      <3>4. /\ async_context_id' = submitted_in'
            /\ \A a \in Acbs : Runs(stack', a) => submitted_in'[a] = 0
        BY <1>2, <1>4, <2>2 DEF MainInv, Nested
      <3>5. \A a \in Acbs \ free' : submitted_in'[a] = 0
        BY <1>2, <3>3
      <3> QED
        BY <3>1, <3>4, <3>5 DEF Nested
    <2>3. CASE Ioctls
      BY <2>3 DEF Nested
    <2> QED
      BY <1>1, <2>1, <2>2, <2>3
  <1> QED
    BY <1>1, <1>3, <1>5 DEF MainInv

LEMMA RemovalMain ==
    ASSUME TypeInv, MainInv, CancelWaited \/ WalkDrop \/ CbReturn
    PROVE  MainInv'
  <1>1. Shape(stack') /\ Calm(Top') /\ context' = context
    BY RemovalShape DEF MainInv, CalmStep
  <1>2. Flushing' /\ Cancelling'
    BY <1>1 DEF Calm, Settled, Flushing, Cancelling
  <1>3. UNCHANGED <<async_context_id, cb, submitted_in, async_ret>>
        /\ free \subseteq free'
    BY DEF CancelWaited, WalkDrop, CbReturn, PaioRemove, idVars, ctxVars
  <1>4. \A a : Runs(stack', a) => Runs(stack, a)
    <2>1. stack \in Stacks
      BY DEF TypeInv
    <2>2. CASE CancelWaited \/ CbReturn
      <3>1. stack' = Tail(stack)
        BY <2>2 DEF CancelWaited, CbReturn
      <3>2. \A a : Runs(stack, a) <=>
               Runs(Tail(stack), a) \/ (Head(stack).k = "cb" /\ Head(stack).a = a)
        BY <2>1, RunsPop
      <3> QED
        BY <3>1, <3>2, Zenon
    <2>3. CASE WalkDrop
      <3> DEFINE f == [Top EXCEPT !.r = TRUE]
      <3>1. f \in GoodFrames /\ f.k # "cb" /\ Head(stack).k # "cb"
        BY <2>1, <2>3, TopType DEF WalkDrop, Top, GoodFrames, Frames
      <3>2. stack' = <<f>> \o Tail(stack)
        BY <2>3 DEF WalkDrop
      <3> HIDE DEF f
      <3>3. SameCallbacks(stack, stack')
        BY <2>1, <3>1, <3>2, QuietStack
      <3> QED
        BY <3>3, Zenon DEF SameCallbacks
    <2> QED
      BY <2>2, <2>3
  <1>5. Nested'
    BY <1>1, <1>3, <1>4, NestedQuiet DEF MainInv
  <1> QED
    BY <1>1, <1>2, <1>5 DEF MainInv

LEMMA WalkDeliverMain ==
    ASSUME TypeInv, OwnInv, MainInv, WalkDeliver
    PROVE  MainInv'
  <1> DEFINE a == WalkAcb
  <1>1. a \in Acbs /\ Contains(first_aio, a) /\ a \notin free /\ ~Runs(stack, a)
    BY WalkTakes DEF OwnInv, Placed
  <1>2. InRightContext(a) /\ UNCHANGED <<async_context_id, cb, submitted_in>>
    BY DEF WalkDeliver, idVars
  <1>3. ~Ioctls /\ cb[a] = "user" => submitted_in[a] = 0 /\ context = 0
    BY <1>1, <1>2 DEF MainInv, Nested, InRightContext
  <1>4. Shape(stack') /\ Calm(Top') /\ context' = context
    BY <1>3, WalkDeliverShape DEF MainInv, CalmStep
  <1>5. Flushing' /\ Cancelling'
    BY <1>4 DEF Calm, Settled, Flushing, Cancelling
  <1>6. \/ /\ cb[a] = "rw_em" /\ free' = free \cup {a}
           /\ async_ret' = [async_ret EXCEPT ![submitted_in[a]] = CallbackRet(a)]
           /\ \A b : Runs(stack', b) => Runs(stack, b)
        \/ /\ cb[a] = "user" /\ free' = free /\ async_ret' = async_ret
           /\ \A b : Runs(stack', b) => Runs(stack, b) \/ b = a
    <2> DEFINE g == [Top EXCEPT !.i = 1, !.r = TRUE]
               f == Frame("cb", a, 0, context)
               q == <<g>> \o Tail(stack)
    <2>1. /\ stack \in Stacks /\ g \in GoodFrames /\ g.k = "walk"
          /\ Head(stack).k # "cb"
      BY ResumedFrame DEF TypeInv, WalkDeliver, Top
    <2>2. SameCallbacks(stack, q) /\ q \in Seq(GoodFrames)
      <3>1. Tail(stack) \in Seq(GoodFrames)
        BY <2>1, StackTop, HeadTailProperties
      <3> HIDE DEF g
      <3> QED
        BY <2>1, <3>1, QuietStack, Pushed
    <2>3. f \in GoodFrames /\ f.a = a
      BY <1>1, <2>1, TopType, FrameType DEF Frame, FrameKinds
    <2>4. \/ /\ cb[a] = "rw_em" /\ free' = free \cup {a} /\ stack' = q
             /\ async_ret' = [async_ret EXCEPT ![submitted_in[a]]
                                                  = CallbackRet(a)]
          \/ /\ cb[a] = "user" /\ free' = free /\ async_ret' = async_ret
             /\ stack' = <<f>> \o q
      BY DEF WalkDeliver
    <2> HIDE DEF f, g, q, a
    <2>5. \A b : Runs(q, b) <=> Runs(stack, b)
      BY <2>2, Zenon DEF SameCallbacks
    <2>6. \A b : Runs(<<f>> \o q, b) <=> Runs(q, b) \/ (f.k = "cb" /\ f.a = b)
      BY <2>2, <2>3, RunsPush
    <2>7. \A b : Runs(<<f>> \o q, b) => Runs(stack, b) \/ b = a
      BY <2>3, <2>5, <2>6, Zenon
    <2> QED
      BY <2>4, <2>5, <2>7
  <1>7. Nested'
    <2>1. CASE Ioctls
      BY <2>1 DEF Nested
    <2>2. CASE ~Ioctls
      <3>1. async_context_id' = submitted_in'
        BY <1>2, <2>2 DEF MainInv, Nested
      <3>2. \A b \in Acbs : Runs(stack', b) => submitted_in'[b] = 0
        BY <1>2, <1>3, <1>6, <2>2 DEF MainInv, Nested
      <3>3. free \subseteq free'
        BY <1>6
      <3>4. ASSUME NEW b \in Acbs \ free'
            PROVE  submitted_in'[b] > 0 => async_ret'[1] = "not_done"
        <4>1. SUFFICES ASSUME submitted_in[b] > 0
                       PROVE  async_ret'[1] = "not_done"
          BY <1>2
        <4>2. b \in Acbs \ free /\ async_ret[1] = "not_done"
          BY <2>2, <3>3, <3>4, <4>1 DEF MainInv, Nested
        <4>3. CASE async_ret' = async_ret
          BY <4>2, <4>3
        <4>4. CASE /\ free' = free \cup {a}
                   /\ async_ret' = [async_ret EXCEPT ![submitted_in[a]]
                                                        = CallbackRet(a)]
          <5>1. b # a
            BY <3>4, <4>4
          <5>2. ~(submitted_in[a] > 0)
            BY <1>1, <2>2, <4>1, <4>2, <5>1 DEF MainInv, Nested
          <5>3. submitted_in[a] # 1
            BY <5>2
          <5> QED
            BY <4>2, <4>4, <5>3
        <4> QED
          BY <1>6, <4>3, <4>4
      <3>5. \A b \in Acbs \ free' :
               /\ cb'[b] = "user" => submitted_in'[b] = 0
               /\ submitted_in'[b] <= context'
        BY <1>2, <1>4, <2>2, <3>3 DEF MainInv, Nested
      <3>6. \A b, d \in Acbs \ free' :
               submitted_in'[b] > 0 /\ submitted_in'[d] > 0 => b = d
        BY <1>2, <2>2, <3>3 DEF MainInv, Nested
      <3> QED
        BY <3>1, <3>2, <3>4, <3>5, <3>6 DEF Nested
    <2> QED
      BY <2>1, <2>2
  <1> QED
    BY <1>4, <1>5, <1>7 DEF MainInv

LEMMA MainInit ==
    ASSUME Init
    PROVE  MainInv
  <1> DEFINE f == Frame("loop", Nobody, 0, 0)
  <1>1. stack = <<f>> /\ f.k = "loop" /\ f.c = 0
    BY DEF Init, Frame
  <1>2. stack \in Stacks
    BY TypeInit DEF TypeInv
  <1> HIDE DEF f
  <1>3. Len(stack) = 1 /\ Tail(stack) = <<>> /\ Head(stack) = f
    BY <1>1
  <1>4. Shape(stack)
    <2>1. Chained(stack)
      BY <1>3 DEF Chained
    <2>2. Home(Head(stack))
      BY <1>1, <1>3 DEF Home
    <2>3. <<>> \in Seq(Suspended)
      BY EmptySeq
    <2> QED
      BY <1>2, <1>3, <2>1, <2>2, <2>3 DEF Shape
  <1>5. Flushing /\ Cancelling
    BY <1>1, <1>3 DEF Flushing, Cancelling, Top
  <1>6. Nested
    <2>1. async_context_id = submitted_in /\ free = Acbs
          /\ \A a \in Acbs : submitted_in[a] = 0
      BY DEF Init
    <2> QED
      BY <2>1 DEF Nested
  <1> QED
    BY <1>4, <1>5, <1>6 DEF MainInv

LEMMA MainNext ==
    ASSUME TypeInv, OwnInv, MainInv, [Next]_vars
    PROVE  MainInv'
  <1>1. CASE UNCHANGED vars
    <2>1. UNCHANGED <<stack, first_aio, active, free, async_context_id, cb,
                      submitted_in, async_ret>>
      BY <1>1 DEF vars, requestVars, acbVars, idVars, ctxVars
    <2>2. Top' = Top /\ context' = context
      BY <2>1 DEF Top, context
    <2>3. Nested'
      BY <2>1, <2>2, NestedQuiet DEF MainInv
    <2> QED
      BY <2>1, <2>2, <2>3 DEF MainInv, Flushing, Cancelling
  <1>2. CASE \E a \in Acbs : Submit(a)
    BY <1>2, SubmitMain
  <1>3. CASE \E a \in Acbs : Cancel(a)
    BY <1>3, CancelMain
  <1>4. CASE \E t \in Threads : Worker(t) \/ AioThreadWakes(t)
    BY <1>4, WorkerMain
  <1>5. CASE QuietMain
    BY <1>5, QuietMainMain
  <1>6. CASE CancelWaited \/ WalkDrop \/ CbReturn
    BY <1>6, RemovalMain
  <1>7. CASE WalkDeliver
    BY <1>7, WalkDeliverMain
  <1> QED
    BY <1>1, <1>2, <1>3, <1>4, <1>5, <1>6, <1>7
    DEF Next, User, MainThread, QuietMain

LEMMA MainInvariant == Spec => [](TypeInv /\ OwnInv /\ MainInv)
  <1>1. Init => TypeInv /\ OwnInv /\ MainInv
    BY TypeInit, OwnInit, MainInit
  <1>2. TypeInv /\ OwnInv /\ MainInv /\ [Next]_vars
           => TypeInv' /\ OwnInv' /\ MainInv'
    BY TypeNext, OwnNext, MainNext
  <1> QED
    BY <1>1, <1>2, PTL DEF Spec

-----------------------------------------------------------------------------
(* qemu_aio_flush.                                                         *)

\* Only the return of qemu_aio_flush pops its frame.
LEMMA FlushPops ==
    ASSUME TypeInv, MainInv, [Next]_vars, FlushReturns
    PROVE  Top.i = FLUSHED /\ ~Top.r
  <1>1. /\ Top.k = "flush" /\ Len(stack') < Len(stack) /\ Shape(stack)
        /\ Len(stack) \in Nat
    BY StackTop, LenProperties DEF FlushReturns, MainInv, TypeInv
  <1>2. 0 \in Nat /\ POLL \in Nat /\ SELECT \in Nat /\ WAITED \in Nat
        /\ POLL # FLUSHED /\ SELECT # FLUSHED /\ WAITED # FLUSHED
    BY DEF POLL, SELECT, WAITED, FLUSHED
  <1>3. stack' # stack
    BY <1>1
  <1>4. \A i \in {POLL, SELECT, WAITED} :
           ~RunBh(i) /\ ~PosixAioRead(i) /\ stack' # Call(i, Walk)
           /\ stack' # Goto(i)
    <2>1. SUFFICES ASSUME NEW i \in {POLL, SELECT, WAITED},
                          \/ RunBh(i) \/ PosixAioRead(i)
                          \/ stack' = Call(i, Walk) \/ stack' = Goto(i)
                   PROVE  Len(stack') >= Len(stack)
      BY <1>1
    <2>2. i \in Nat /\ i # FLUSHED
      BY <1>2
    <2>3. CASE stack' = Goto(i)
      BY <1>1, <2>2, <2>3, GotoStep
    <2>4. CASE stack' = Call(i, Walk)
      <3>1. Len(stack') > Len(stack)
        BY <1>1, <2>2, <2>4, CallStep
      <3>2. Len(stack') \in Nat
        BY <2>4, <1>1, <2>2, CallType, StackTop, LenProperties DEF TypeInv
      <3> QED
        BY <1>1, <3>1, <3>2
    <2> QED
      BY <2>1, <2>3, <2>4 DEF RunBh, PosixAioRead
  <1>5. ~FlushAsk
    BY <1>1, FlushAskShape
  <1>6. FlushLoop
    <2>1. Next
      BY <1>3 DEF vars
    <2>2. ~User
      BY <1>1 DEF User, RwEmFails, AioFlush, Submit, AioRw, AioIoctl, RwEm,
         Operation, UserCode, Cancel, CancelQueued, CancelFinished,
         CancelActive, Cancellable
    <2>3. ~\E t \in Threads : Worker(t) \/ AioThreadWakes(t)
      BY <1>3 DEF Worker, AioThreadWait, AioThreadTake, AioThreadExit,
         AioThreadFinish, AioThreadKill, AioThreadWakes
    <2>4. ~AioSignalHandler
      BY <1>3, <1>4 DEF AioSignalHandler
    <2>5. ~AioWaitPoll /\ ~AioWaitSelect
      BY <1>4 DEF AioWaitPoll, AioWaitSelect
    <2> QED
      BY <1>1, <1>5, <2>1, <2>2, <2>3, <2>4, <2>5
      DEF Next, MainThread, CondSignal, CancelWaited, WalkSkip, WalkDrop,
          WalkDeliver, WalkEnd, CbReturn, MainLoop, EmAgain, EmReturn
  <1> QED
    BY <1>4, <1>6 DEF FlushLoop

(* qemu_aio_flush returns only when no request is left anywhere, although   *)
(* its condition looks at first_aio before it polls once more and workers   *)
(* and completions go on meanwhile: what vm_stop and savevm rely on, for    *)
(* any number of requests, workers and nested contexts.                     *)
THEOREM FlushCorrect == Spec => FlushDrains
  <1>1. TypeInv /\ OwnInv /\ MainInv /\ [Next]_vars =>
           [FlushReturns => /\ first_aio = <<>> /\ request_list = <<>>
                            /\ \A t \in Threads : pc[t] # "io"]_vars
    <2>1. SUFFICES ASSUME TypeInv, OwnInv, MainInv, [Next]_vars, FlushReturns
                   PROVE  /\ first_aio = <<>> /\ request_list = <<>>
                          /\ \A t \in Threads : pc[t] # "io"
      OBVIOUS
    <2>2. first_aio = <<>>
      BY <2>1, FlushPops DEF MainInv, Flushing, FlushReturns
    <2>3. \A a : ~Contains(first_aio, a)
      BY <2>2 DEF Contains
    <2>4. \A t \in Threads : pc[t] # "io"
      BY <2>1, <2>3 DEF OwnInv, Jobs
    <2>5. request_list = <<>>
      <3>1. SUFFICES ASSUME request_list # <<>>
                     PROVE  FALSE
        OBVIOUS
      <3>2. request_list \in Seq(Acbs) /\ Head(request_list) \in Acbs
        BY <2>1, <3>1, HeadTailProperties DEF TypeInv, RequestsOK
      <3>3. Contains(request_list, Head(request_list))
        BY <2>1, <3>1, <3>2, ListTail DEF OwnInv, Lists
      <3> QED
        BY <2>1, <2>3, <3>2, <3>3 DEF OwnInv, Queued
    <2> QED
      BY <2>2, <2>4, <2>5
  <1> QED
    BY <1>1, MainInvariant, PTL DEF Spec, FlushDrains

-----------------------------------------------------------------------------
(* The refinement of AsyncIo.                                              *)

\* One request changes its state.
LEMMA OneMoves ==
    ASSUME NEW q \in Acbs, NEW from, NEW to, RequestState(q) \in from,
           RequestState(q)' = to,
           \A b \in Acbs \ {q} : RequestState(b)' = RequestState(b)
    PROVE  AbstractIo!Move(q, from, to)
  <1> DEFINE s == [b \in Acbs |-> RequestState(b)]
  <1>1. s[q] \in from
    OBVIOUS
  <1>2. s' = [b \in Acbs |-> RequestState(b)']
    OBVIOUS
  <1>3. s' = [s EXCEPT ![q] = to]
    BY <1>2
  <1> QED
    BY <1>1, <1>3 DEF AbstractIo!Move

LEMMA NoneMoves ==
    ASSUME UNCHANGED <<free, first_aio, active, ret, submitted_in>>,
           context' = context
    PROVE  UNCHANGED AbstractIo!absVars
  <1>1. \A b \in Acbs : RequestState(b)' = RequestState(b)
    BY DEF RequestState
  <1> QED
    BY <1>1 DEF AbstractIo!absVars

\* A finished request that first_aio holds has the state "finished".
LEMMA FinishedState ==
    ASSUME OwnInv, NEW a \in Acbs, Contains(first_aio, a),
           ret[a] # "in_progress"
    PROVE  RequestState(a) = "finished" /\ active[a]
  BY DEF OwnInv, Placed, Queued, RequestState

LEMMA SubmitSimulates ==
    ASSUME TypeInv, OwnInv, MainInv, ~Ioctls, NEW a \in Acbs, Submit(a)
    PROVE  AbstractIo!Submitted(a) \/ AbstractIo!Entered(a)
  <1>1. /\ a \in free /\ free' = free \ {a}
        /\ first_aio' = <<a>> \o first_aio
        /\ ret' = [ret EXCEPT ![a] = "in_progress"]
        /\ active' = [active EXCEPT ![a] = FALSE]
    BY DEF Submit, AioRw, AioIoctl, RwEm, PaioSubmit, PaioIoctl, PaioStart,
       QemuAioGet, QemuPaioSubmit
  <1>2. /\ \A b : Contains(first_aio', b) <=> b = a \/ Contains(first_aio, b)
        /\ \A b \in Acbs : /\ ret'[b] = IF b = a THEN "in_progress" ELSE ret[b]
                           /\ active'[b] = IF b = a THEN FALSE ELSE active[b]
    <2>1. first_aio \in Seq(Acbs)
      BY DEF TypeInv, RequestsOK
    <2> QED
      BY <1>1, <2>1, ListPush DEF TypeInv, RequestsOK
  <1>3. RequestState(a) = "free" /\ RequestState(a)' = "queued"
    BY <1>1, <1>2 DEF RequestState
  <1>4. \A b \in Acbs \ {a} : RequestState(b)' = RequestState(b)
    BY <1>1, <1>2 DEF RequestState
  <1>5. AbstractIo!Move(a, {"free"}, "queued")
    BY <1>3, <1>4, OneMoves
  <1>6. \/ AioRw(a) /\ context' = context
        \/ RwEm(a) /\ context' = context + 1
    BY SubmitShape DEF MainInv, AioIoctl
  <1>7. CASE AioRw(a) /\ context' = context
    <2>1. submitted_in' = [submitted_in EXCEPT ![a] = context]
      BY <1>7 DEF AioRw, PaioSubmit, PaioStart, QemuAioGet
    <2> QED
      BY <1>5, <1>7, <2>1 DEF AbstractIo!Submitted
  <1>8. CASE RwEm(a) /\ context' = context + 1
    <2>1. submitted_in' = [submitted_in EXCEPT ![a] = context + 1]
          /\ context < MaxContext
      BY <1>8 DEF RwEm, PaioSubmit, PaioStart, QemuAioGet
    <2> QED
      BY <1>5, <1>8, <2>1 DEF AbstractIo!Entered
  <1> QED
    BY <1>6, <1>7, <1>8

\* Cancellation, and the completions posix_aio_process_queue finds.
LEMMA ReleaseSimulates ==
    ASSUME OwnInv, NEW a \in Acbs, Contains(first_aio, a),
           ret[a] # "in_progress" \/ ~active[a],
           \A b : Contains(first_aio', b) <=> Contains(first_aio, b) /\ b # a,
           free' = free \cup {a},
           \A b \in Acbs \ {a} : ret'[b] = ret[b],
           submitted_in[a] = context, context' = context,
           UNCHANGED <<active, submitted_in>>
    PROVE  AbstractIo!Cancelled(a)
  <1>1. RequestState(a) \in {"queued", "finished"}
    BY DEF RequestState, OwnInv, Placed
  <1>2. RequestState(a)' = "free"
    BY DEF RequestState
  <1>3. \A b \in Acbs \ {a} : RequestState(b)' = RequestState(b)
    BY DEF RequestState
  <1>4. AbstractIo!Move(a, {"queued", "finished"}, "free")
    BY <1>1, <1>2, <1>3, OneMoves
  <1> QED
    BY <1>4 DEF AbstractIo!Cancelled

LEMMA CancelSimulates ==
    ASSUME TypeInv, OwnInv, MainInv, NEW a \in Acbs, Cancel(a)
    PROVE  AbstractIo!Cancelled(a) \/ UNCHANGED AbstractIo!absVars
  <1>1. /\ RequestsOK /\ Contains(first_aio, a) /\ submitted_in[a] = context
        /\ submitted_in' = submitted_in /\ active' = active
    BY DEF TypeInv, Cancel, CancelQueued, CancelFinished, CancelActive,
       Cancellable, idVars, requestVars, acbVars
  <1>2. CASE CancelQueued(a) \/ CancelFinished(a)
    <2>1. /\ PaioRemove(a) /\ (ret[a] # "in_progress" \/ ~active[a])
          /\ stack' = stack
          /\ \A b \in Acbs \ {a} : ret'[b] = ret[b]
      BY <1>1, <1>2 DEF CancelQueued, CancelFinished, StillActive, RequestsOK
    <2>2. /\ \A b : Contains(first_aio', b) <=> Contains(first_aio, b) /\ b # a
          /\ free' = free \cup {a}
      BY <1>1, <2>1, <1>2, RemoveOwn DEF CancelQueued, CancelFinished
    <2>3. context' = context
      BY <2>1 DEF context, Top
    <2> QED
      BY <1>1, <2>1, <2>2, <2>3, ReleaseSimulates
  <1>3. CASE CancelActive(a)
    <2>1. Top.k \in {"loop", "cb"} /\ context \in Contexts
          /\ stack' = <<Frame("cancel", a, 0, context)>> \o stack
      BY <1>3, TopHome, TopType
      DEF CancelActive, Cancellable, UserCode, Push, MainInv
    <2> DEFINE f == Frame("cancel", a, 0, context)
    <2>2. f \in GoodFrames /\ f.k = "cancel" /\ f.c = context
      BY <2>1, FrameType DEF FrameKinds, Frame
    <2>3. stack' = <<f>> \o stack
      BY <2>1
    <2> HIDE DEF f
    <2>4. context' = context
      BY <2>1, <2>2, <2>3, PushStep DEF MainInv
    <2> QED
      BY <1>3, <2>4, NoneMoves DEF CancelActive, requestVars, acbVars, idVars
  <1> QED
    BY <1>2, <1>3 DEF Cancel

LEMMA CancelWaitedSimulates ==
    ASSUME TypeInv, OwnInv, MainInv, CancelWaited
    PROVE  \E a \in Acbs : AbstractIo!Cancelled(a)
  <1>0. PICK a \in Acbs : a = Top.a
    BY TopType DEF CancelWaited, TypeInv
  <1>1. /\ RequestsOK /\ Contains(first_aio, a)
        /\ submitted_in[a] = context /\ ret[a] # "in_progress" /\ PaioRemove(a)
        /\ UNCHANGED <<ret, active, submitted_in>>
    BY <1>0, TopType DEF TypeInv, MainInv, Cancelling, CancelWaited, idVars
  <1>2. context' = context
    BY RemovalShape DEF MainInv, CalmStep
  <1>3. /\ \A b : Contains(first_aio', b) <=> Contains(first_aio, b) /\ b # a
        /\ free' = free \cup {a}
    BY <1>1, RemoveOwn
  <1>4. AbstractIo!Cancelled(a)
    BY <1>1, <1>2, <1>3, ReleaseSimulates
  <1> QED
    BY <1>4

\* Without paio_ioctl the walk compares with the context of submission.
LEMMA WalkSimulates ==
    ASSUME TypeInv, OwnInv, MainInv, ~Ioctls, WalkDrop \/ WalkDeliver
    PROVE  \E a \in Acbs : AbstractIo!Answered(a)
  <1>0. PICK a \in Acbs : a = WalkAcb
    BY WalkTakes
  <1>1. /\ Contains(first_aio, a) /\ ret[a] # "in_progress"
        /\ \A b : Contains(first_aio', b) <=> Contains(first_aio, b) /\ b # a
        /\ UNCHANGED <<ret, active>>
    BY <1>0, WalkTakes
  <1>2. /\ submitted_in[a] = context /\ submitted_in' = submitted_in
        /\ a \notin free
    <2>1. InRightContext(a) /\ submitted_in' = submitted_in
      BY <1>0 DEF WalkDrop, WalkDeliver, idVars
    <2> QED
      BY <1>1, <2>1 DEF MainInv, Nested, InRightContext, OwnInv, Placed
  <1>3. context' = context
    <2>1. CASE WalkDrop
      BY <2>1, RemovalShape DEF MainInv, CalmStep
    <2>2. CASE WalkDeliver
      <3>1. Ioctls \/ cb[a] # "user" \/ context = 0
        BY <1>1, <1>2 DEF MainInv, Nested
      <3> QED
        BY <1>0, <2>2, <3>1, WalkDeliverShape DEF MainInv, CalmStep
    <2> QED
      BY <2>1, <2>2
  <1>4. free' = free \cup {a} \/ free' = free
    BY <1>0 DEF WalkDrop, WalkDeliver
  <1>5. RequestState(a) = "finished"
    BY <1>1, FinishedState
  <1>6. \A b \in Acbs \ {a} : RequestState(b)' = RequestState(b)
    BY <1>1, <1>4 DEF RequestState
  <1>7. RequestState(a)' = "free" \/ RequestState(a)' = "callback"
    BY <1>1, <1>2, <1>4 DEF RequestState
  <1>8. \/ AbstractIo!Move(a, {"finished"}, "callback")
        \/ AbstractIo!Move(a, {"finished"}, "free")
    BY <1>1, <1>5, <1>6, <1>7, OneMoves
  <1>9. AbstractIo!Answered(a)
    BY <1>2, <1>3, <1>8 DEF AbstractIo!Answered
  <1> QED
    BY <1>9

LEMMA CbReturnSimulates ==
    ASSUME TypeInv, OwnInv, MainInv, CbReturn
    PROVE  \E a \in Acbs : AbstractIo!Returned(a)
  <1>0. PICK a \in Acbs : a = Top.a
    BY TopType DEF CbReturn, TypeInv
  <1>1. /\ Runs(stack, a)
        /\ free' = free \cup {a}
        /\ UNCHANGED <<ret, active, submitted_in, first_aio>>
    <2>1. stack \in Stacks /\ Head(stack).k = "cb" /\ Head(stack).a = a
      BY <1>0 DEF TypeInv, CbReturn, Top
    <2>2. \A b : Runs(stack, b) <=> Runs(Tail(stack), b)
                    \/ (Head(stack).k = "cb" /\ Head(stack).a = b)
      BY <2>1, RunsPop
    <2> QED
      BY <1>0, <2>1, <2>2 DEF CbReturn, idVars
  <1>2. context' = context
    BY RemovalShape DEF MainInv, CalmStep
  <1>3. RequestState(a) = "callback" /\ RequestState(a)' = "free"
    BY <1>1 DEF OwnInv, Placed, RequestState
  <1>4. \A b \in Acbs \ {a} : RequestState(b)' = RequestState(b)
    BY <1>1 DEF RequestState
  <1>5. AbstractIo!Move(a, {"callback"}, "free")
    BY <1>1, <1>3, <1>4, OneMoves
  <1>6. AbstractIo!Returned(a)
    BY <1>1, <1>2, <1>5 DEF AbstractIo!Returned
  <1> QED
    BY <1>6

LEMMA WorkerSimulates ==
    ASSUME TypeInv, OwnInv, NEW t \in Threads, Worker(t) \/ AioThreadWakes(t)
    PROVE  \/ \E a \in Acbs : AbstractIo!Started(a) \/ AbstractIo!Finished(a)
           \/ UNCHANGED AbstractIo!absVars
  <1>1. UNCHANGED <<stack, first_aio, free, submitted_in>>
    BY DEF Worker, AioThreadWait, AioThreadTake, AioThreadExit, AioThreadFinish,
       AioThreadKill, AioThreadWakes, requestVars, acbVars, idVars
  <1>2. context' = context
    BY <1>1 DEF context, Top
  <1>3. CASE AioThreadTake(t)
    <2>1. request_list \in Seq(Acbs) /\ request_list # <<>>
      BY <1>3 DEF AioThreadTake, TypeInv, RequestsOK
    <2>0. PICK a \in Acbs : a = Head(request_list)
      BY <2>1, HeadTailProperties
    <2>2. Contains(request_list, a)
      BY <2>0, <2>1, ListTail DEF OwnInv, Lists
    <2>3. ret' = ret /\ active' = [active EXCEPT ![a] = TRUE]
      BY <1>3, <2>0 DEF AioThreadTake, MarkActive
    <2>4. /\ Contains(first_aio, a) /\ ~active[a] /\ ret[a] = "in_progress"
          /\ a \notin free
      BY <2>1, <2>2 DEF OwnInv, Queued, Placed
    <2>5. \A b \in Acbs : active'[b] = IF b = a THEN TRUE ELSE active[b]
      BY <2>3 DEF TypeInv, RequestsOK
    <2>6. RequestState(a) = "queued" /\ RequestState(a)' = "running"
      BY <1>1, <2>1, <2>3, <2>4, <2>5 DEF RequestState
    <2>7. \A b \in Acbs \ {a} : RequestState(b)' = RequestState(b)
      BY <1>1, <2>3, <2>5 DEF RequestState
    <2>8. AbstractIo!Move(a, {"queued"}, "running")
      BY <2>1, <2>6, <2>7, OneMoves
    <2>9. AbstractIo!Started(a)
      BY <1>1, <1>2, <2>8 DEF AbstractIo!Started
    <2> QED
      BY <2>1, <2>9
  <1>4. CASE AioThreadFinish(t)
    <2>0. PICK a \in Acbs : a = job[t]
      BY <1>4 DEF AioThreadFinish, OwnInv, Jobs
    <2>1. PICK o \in Outcomes : ret' = [ret EXCEPT ![a] = o]
      BY <1>4, <2>0 DEF AioThreadFinish
    <2>2. active' = active /\ pc[t] = "io" /\ o # "in_progress"
      BY <1>4, OutcomesAssumption DEF AioThreadFinish
    <2>3. /\ Contains(first_aio, a) /\ active[a]
          /\ ret[a] = "in_progress" /\ a \notin free
      BY <2>0, <2>2 DEF OwnInv, Jobs, Placed
    <2>4. \A b \in Acbs : ret'[b] = IF b = a THEN o ELSE ret[b]
      BY <2>1 DEF TypeInv, RequestsOK
    <2>5. RequestState(a) = "running" /\ RequestState(a)' = "finished"
      BY <1>1, <2>2, <2>3, <2>4 DEF RequestState
    <2>6. \A b \in Acbs \ {a} : RequestState(b)' = RequestState(b)
      BY <1>1, <2>2, <2>4 DEF RequestState
    <2>7. AbstractIo!Move(a, {"running"}, "finished")
      BY <2>3, <2>5, <2>6, OneMoves
    <2>8. AbstractIo!Finished(a)
      BY <1>1, <1>2, <2>7 DEF AbstractIo!Finished
    <2> QED
      BY <2>3, <2>8
  <1>5. CASE ~AioThreadTake(t) /\ ~AioThreadFinish(t)
    <2>1. UNCHANGED <<ret, active>>
      BY <1>5 DEF Worker, AioThreadWait, AioThreadExit, AioThreadKill,
         AioThreadWakes, requestVars, acbVars
    <2> QED
      BY <1>1, <1>2, <2>1, NoneMoves
  <1> QED
    BY <1>3, <1>4, <1>5

LEMMA QuietMainSimulates ==
    ASSUME TypeInv, OwnInv, MainInv, ~Ioctls, QuietMain
    PROVE  AbstractIo!Left \/ UNCHANGED AbstractIo!absVars
  <1>1. UNCHANGED <<free, first_aio, active, ret, submitted_in>>
    BY DEF QuietMain, RwEmFails, AioFlush, CondSignal, WalkSkip, WalkEnd,
       MainLoop, AioWaitPoll, AioWaitSelect, EmAgain, EmReturn, FlushAsk,
       FlushLoop, AioSignalHandler, RunBh, PosixAioRead, requestVars, acbVars,
       idVars
  <1>2. CASE context' = context
    BY <1>1, <1>2, NoneMoves
  <1>3. CASE EmReturn /\ Top.k = "em" /\ context = context' + 1
    <2>1. context = 1 /\ async_ret[1] # "not_done"
      BY <1>3, TopHome DEF MainInv, EmReturn
    <2>2. context' = context - 1
      <3>1. Shape(stack')
        BY QuietMainShape DEF MainInv
      <3>2. Head(stack').c \in Contexts
        BY <3>1, StackTop DEF Shape, GoodFrames, Frames
      <3>3. context' \in Nat
        BY <3>2, MaxContextAssumption DEF context, Top, Contexts
      <3>4. \A n \in Nat : 1 = n + 1 => n = 1 - 1
        OBVIOUS
      <3> QED
        BY <1>3, <2>1, <3>3, <3>4, Zenon
    <2>3. ASSUME NEW b \in Acbs, submitted_in[b] = context
          PROVE  RequestState(b) = "free"
      BY <2>1, <2>3 DEF MainInv, Nested, RequestState
    <2>4. \A b \in Acbs : RequestState(b)' = RequestState(b)
      BY <1>1 DEF RequestState
    <2> DEFINE s == [b \in Acbs |-> RequestState(b)]
    <2>5. s' = s /\ \A b \in Acbs : submitted_in[b] = context => s[b] = "free"
      BY <2>3, <2>4
    <2> QED
      BY <1>1, <2>1, <2>2, <2>5 DEF AbstractIo!Left
  <1> QED
    BY <1>2, <1>3, QuietMainShape DEF MainInv

(* The thread pool, its signals and the nested walks over first_aio keep    *)
(* what AsyncIo promises: each request is started, finished and answered at *)
(* most once, in its own context, never after its cancellation, and a       *)
(* nested context is left with none of its requests outstanding; for every  *)
(* number of requests, workers and operations, without paio_ioctl.          *)
THEOREM RefinementCorrect ==
    ASSUME ~Ioctls
    PROVE  Spec => ImplementsAsyncIo
  <1>1. Init => AbstractIo!AbsInit
    <2>1. SUFFICES ASSUME Init
                   PROVE  AbstractIo!AbsInit
      OBVIOUS
    <2>2. \A b \in Acbs : RequestState(b) = "free"
      BY <2>1 DEF Init, RequestState
    <2>3. context = 0
      BY <2>1 DEF Init, context, Top, Frame
    <2>4. submitted_in = [b \in Acbs |-> 0]
      BY <2>1 DEF Init
    <2> QED
      BY <2>2, <2>3, <2>4 DEF AbstractIo!AbsInit
  <1>2. TypeInv /\ OwnInv /\ MainInv /\ [Next]_vars
           => [AbstractIo!AbsNext]_(AbstractIo!absVars)
    <2>1. SUFFICES ASSUME TypeInv, OwnInv, MainInv, [Next]_vars
                   PROVE  AbstractIo!AbsNext \/ UNCHANGED AbstractIo!absVars
      OBVIOUS
    <2>2. CASE UNCHANGED vars
      <3>1. UNCHANGED <<free, first_aio, active, ret, submitted_in, stack>>
        BY <2>2 DEF vars, requestVars, acbVars, idVars
      <3>2. context' = context
        BY <3>1 DEF context, Top
      <3> QED
        BY <3>1, <3>2, NoneMoves
    <2>3. CASE \E a \in Acbs : Submit(a)
      BY <2>1, <2>3, SubmitSimulates DEF AbstractIo!AbsNext
    <2>4. CASE \E a \in Acbs : Cancel(a)
      BY <2>1, <2>4, CancelSimulates DEF AbstractIo!AbsNext
    <2>5. CASE \E t \in Threads : Worker(t) \/ AioThreadWakes(t)
      BY <2>1, <2>5, WorkerSimulates DEF AbstractIo!AbsNext
    <2>6. CASE QuietMain
      BY <2>1, <2>6, QuietMainSimulates DEF AbstractIo!AbsNext
    <2>7. CASE CancelWaited
      BY <2>1, <2>7, CancelWaitedSimulates DEF AbstractIo!AbsNext
    <2>8. CASE WalkDrop \/ WalkDeliver
      BY <2>1, <2>8, WalkSimulates DEF AbstractIo!AbsNext
    <2>9. CASE CbReturn
      BY <2>1, <2>9, CbReturnSimulates DEF AbstractIo!AbsNext
    <2> QED
      BY <2>1, <2>2, <2>3, <2>4, <2>5, <2>6, <2>7, <2>8, <2>9
      DEF Next, User, MainThread, QuietMain
  <1> QED
    BY <1>1, <1>2, MainInvariant, PTL
    DEF Spec, ImplementsAsyncIo, AbstractIo!AbsSpec
=============================================================================
