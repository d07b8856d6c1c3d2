-------------------------------- MODULE Futex --------------------------------
(***************************************************************************)
(* The kernel side of SYS_futex as the benchmarks use it: one int in a     *)
(* System V shared memory segment and the set of tasks blocked on it.      *)
(* External code, modelled from its calls; the programs that share the     *)
(* word extend this module.                                                *)
(***************************************************************************)
EXTENDS Integers

VARIABLES word,     \* the int the pointer futex points to
          waiters   \* the tasks blocked in FUTEX_WAIT on it

futex == <<word, waiters>>

\* The values the programs store, and what a fresh segment holds.
FutexA == 10
FutexB == 11
FreshWord == 0

\* *futex = v
Store(v) ==
    /\ word' = v
    /\ UNCHANGED waiters

\* FUTEX_WAIT compares and enqueues in one atomic step: either t blocks ...
WaitBlocks(t, val) ==
    /\ word = val
    /\ waiters' = waiters \cup {t}
    /\ UNCHANGED word

\* ... or the value has changed and the call returns -1 (EAGAIN) at once.
WaitRefused(val) ==
    /\ word # val
    /\ UNCHANGED futex

\* FUTEX_WAKE with count 1 returns 1 when it woke a task ...
WakeOne ==
    \E t \in waiters :
        /\ waiters' = waiters \ {t}
        /\ UNCHANGED word

\* ... and 0 when no task was blocked: the wake-up is lost.
WakeNobody ==
    /\ waiters = {}
    /\ UNCHANGED futex

\* A blocked task that is stopped and continued (job control, a tracer) leaves
\* the queue, and the kernel restarts its FUTEX_WAIT from the comparison.
RestartWait(t) ==
    /\ t \in waiters
    /\ waiters' = waiters \ {t}
    /\ UNCHANGED word
==============================================================================
