------------------------------ MODULE AsyncIo -------------------------------
(***************************************************************************)
(* What the AIO layer promises to the code above it: a request is carried  *)
(* out at most once, is answered at most once, only after its I/O ended    *)
(* and only while the AsyncContext it was submitted in is current; a       *)
(* cancelled request is never answered and its I/O is over (or will never  *)
(* start) when the cancellation returns; a context is left only when none  *)
(* of its requests is outstanding.                                         *)
(***************************************************************************)
EXTENDS Naturals

CONSTANTS Requests, MaxContext

VARIABLES
    st,     \* "free", "queued", "running", "finished" or "callback"
    home,   \* the context each request was submitted in
    cur     \* the current context

absVars == <<st, home, cur>>

AbsInit ==
    /\ st = [q \in Requests |-> "free"]
    /\ home = [q \in Requests |-> 0]
    /\ cur = 0

Move(q, from, to) == st[q] \in from /\ st' = [st EXCEPT ![q] = to]

Submitted(q) ==
    /\ Move(q, {"free"}, "queued")
    /\ home' = [home EXCEPT ![q] = cur]
    /\ UNCHANGED cur

\* A synchronous operation enters a context of its own.
Entered(q) ==
    /\ cur < MaxContext
    /\ cur' = cur + 1
    /\ Move(q, {"free"}, "queued")
    /\ home' = [home EXCEPT ![q] = cur + 1]

Started(q) == Move(q, {"queued"}, "running") /\ UNCHANGED <<home, cur>>

Finished(q) == Move(q, {"running"}, "finished") /\ UNCHANGED <<home, cur>>

\* The callback starts; a callback without code of its own ends at once.
Answered(q) ==
    /\ home[q] = cur
    /\ Move(q, {"finished"}, "callback") \/ Move(q, {"finished"}, "free")
    /\ UNCHANGED <<home, cur>>

Returned(q) == Move(q, {"callback"}, "free") /\ UNCHANGED <<home, cur>>

Cancelled(q) ==
    /\ home[q] = cur
    /\ Move(q, {"queued", "finished"}, "free")
    /\ UNCHANGED <<home, cur>>

Left ==
    /\ cur > 0
    /\ cur' = cur - 1
    /\ \A q \in Requests : home[q] = cur => st[q] = "free"
    /\ UNCHANGED <<st, home>>

AbsNext ==
    \/ Left
    \/ \E q \in Requests : \/ Submitted(q) \/ Entered(q) \/ Started(q)
                           \/ Finished(q) \/ Answered(q) \/ Returned(q)
                           \/ Cancelled(q)

AbsSpec == AbsInit /\ [][AbsNext]_absVars
=============================================================================
