----------------------------- MODULE HandoffLoop -----------------------------
(***************************************************************************)
(* The timed loop shared by process_context_switch.c and                   *)
(* thread_context_switch.c.  Two tasks go round the same cycle             *)
(*     store own value; FUTEX_WAKE until it wakes somebody;                *)
(*     sched_yield; FUTEX_WAIT for the peer's value until it returns 0     *)
(* and differ in where they enter it and where they count an iteration:    *)
(* the parent (main) enters at the store and counts after its wait, the    *)
(* child enters at the yield and counts after its wake.                    *)
(***************************************************************************)
EXTENDS Futex

CONSTANT TestCount   \* PER_PROCESS_TEST_COUNT, PER_THREAD_TEST_COUNT

ASSUME TestCountAssumption == TestCount \in Nat \ {0}

VARIABLES pc,   \* the statement each task is at
          i     \* its loop counter

vars == <<pc, i, word, waiters>>

Tasks == {"parent", "child"}

\* The value a task stores, and the value its FUTEX_WAIT passes: each task
\* sleeps only once the word holds what the OTHER task stores.
OwnValue(t) == IF t = "parent" THEN FutexA ELSE FutexB
AwaitedValue(t) == IF t = "parent" THEN FutexB ELSE FutexA

\* Faulty variant: the child's loop does not begin with a sched_yield.
LoopTopNoYield(t) == IF t = "parent" THEN "store" ELSE "wait"

LoopTop(t) == IF t = "parent" THEN "store" ELSE "yield"
LoopExit(t) == IF t = "parent" THEN "joining" ELSE "exiting"

Goto(t, label) == pc' = [pc EXCEPT ![t] = label]

\* Faulty variant: the loop test is <=.
IterateOnceMore(t) ==
    /\ i' = [i EXCEPT ![t] = @ + 1]
    /\ Goto(t, IF i[t] + 1 <= TestCount THEN LoopTop(t) ELSE LoopExit(t))

\* i++ and the loop test
Iterate(t) ==
    /\ i' = [i EXCEPT ![t] = @ + 1]
    /\ Goto(t, IF i[t] + 1 < TestCount THEN LoopTop(t) ELSE LoopExit(t))

(***************************************************************************)
(* The statements of the loop body.                                        *)
(***************************************************************************)
StoreWord(t) ==
    /\ pc[t] = "store"
    /\ Store(OwnValue(t))
    /\ Goto(t, "wake")
    /\ UNCHANGED i

\* What follows a FUTEX_WAKE that returned 1: for the child, the next iteration.
AfterWake(t) ==
    IF t = "parent" THEN Goto(t, "yield") /\ UNCHANGED i ELSE Iterate(t)

\* Faulty variant: the return value of FUTEX_WAKE is not tested.
WakeOnce(t) ==
    /\ pc[t] = "wake"
    /\ WakeNobody \/ WakeOne
    /\ AfterWake(t)

Wake(t) ==
    /\ pc[t] = "wake"
    /\ \/ WakeNobody /\ Goto(t, "wakeRetry") /\ UNCHANGED i
       \/ WakeOne /\ AfterWake(t)

WakeRetry(t) ==
    /\ pc[t] = "wakeRetry"
    /\ Goto(t, "wake")
    /\ UNCHANGED <<i, futex>>

Yield(t) ==
    /\ pc[t] = "yield"
    /\ Goto(t, "wait")
    /\ UNCHANGED <<i, futex>>

\* What follows a FUTEX_WAIT that returned 0: for the parent, the next iteration.
AfterWait(t) ==
    IF t = "child" THEN Goto(t, "store") /\ UNCHANGED i ELSE Iterate(t)

\* Faulty variant: the return value of FUTEX_WAIT is not tested.
WaitOnce(t) ==
    /\ pc[t] = "wait"
    /\ \/ WaitBlocks(t, AwaitedValue(t)) /\ Goto(t, "asleep") /\ UNCHANGED i
       \/ WaitRefused(AwaitedValue(t)) /\ AfterWait(t)

\* Faulty variant: FUTEX_WAIT is passed the value the task itself stored.
WaitOwnValue(t) ==
    /\ pc[t] = "wait"
    /\ \/ WaitBlocks(t, OwnValue(t)) /\ Goto(t, "asleep") /\ UNCHANGED i
       \/ WaitRefused(OwnValue(t)) /\ Goto(t, "waitRetry") /\ UNCHANGED i

Wait(t) ==
    /\ pc[t] = "wait"
    /\ \/ WaitBlocks(t, AwaitedValue(t)) /\ Goto(t, "asleep") /\ UNCHANGED i
       \/ WaitRefused(AwaitedValue(t)) /\ Goto(t, "waitRetry") /\ UNCHANGED i

WaitRetry(t) ==
    /\ pc[t] = "waitRetry"
    /\ Goto(t, "wait")
    /\ UNCHANGED <<i, futex>>

\* A woken task returns from FUTEX_WAIT with 0.
Woken(t) ==
    /\ pc[t] = "asleep"
    /\ t \notin waiters
    /\ AfterWait(t)
    /\ UNCHANGED futex

\* The kernel restarts the call of a task that was stopped while it slept.
Restarted(t) ==
    /\ pc[t] = "asleep"
    /\ RestartWait(t)
    /\ Goto(t, "wait")
    /\ UNCHANGED i

\* Faulty variant: neither futex call's return value is tested.
LoopStepUntested(t) ==
    \/ StoreWord(t)
    \/ WakeOnce(t)
    \/ Yield(t)
    \/ WaitOnce(t)
    \/ Woken(t)

LoopStep(t) ==
    \/ StoreWord(t)
    \/ Wake(t)
    \/ WakeRetry(t)
    \/ Yield(t)
    \/ Wait(t)
    \/ WaitRetry(t)
    \/ Woken(t)

-----------------------------------------------------------------------------
(***************************************************************************)
(* Properties of the loop, stated for every program that runs it.          *)
(***************************************************************************)
Other(t) == IF t = "parent" THEN "child" ELSE "parent"

\* How often t has woken its peer.  The parent wakes the child in the middle
\* of an iteration, the child wakes the parent at its end.
Signals(t) ==
    IF t = "parent" /\ pc[t] \in {"yield", "wait", "asleep", "waitRetry"}
    THEN i[t] + 1
    ELSE i[t]

Alternating == INSTANCE Handoff
    WITH Rounds <- TestCount, signals <- [t \in Tasks |-> Signals(t)]

\* The loop implements the abstract hand-off: the parent's and the child's
\* successful FUTEX_WAKE calls alternate strictly, so no iteration of either
\* loop is skipped or repeated whatever the order of the calls.
StrictAlternation == Alternating!ASpec

\* The tasks that have been signalled and have not yet passed the signal on.
Signalling(t) == pc[t] \in {"store", "wake", "wakeRetry"}

\* The word is a plain int, written without atomics or a lock.  The protocol
\* must keep the two loops from writing it at once, and must keep a task's
\* value in it until the FUTEX_WAKE that announces the value has succeeded.
OneWriterAtATime ==
    /\ ~ (Signalling("parent") /\ Signalling("child"))
    /\ \A t \in Tasks :
          pc[t] \in {"wake", "wakeRetry"} => word = OwnValue(t)

\* No wake-up is lost for good: a task blocked in FUTEX_WAIT always has a peer
\* that is neither blocked itself nor past its last FUTEX_WAKE.  A peer that
\* was killed on the way to its loop is not excluded: if the parent's own shmat
\* fails, the child that is already asleep stays asleep.
SleeperHasWaker ==
    \A t \in waiters :
        /\ Other(t) \notin waiters
        /\ pc[Other(t)] \notin {"joining", "exiting", "exited"}
-----------------------------------------------------------------------------
(***************************************************************************)
(* The inductive invariant behind these properties.                        *)
(***************************************************************************)
LoopLabels ==
    {"store", "wake", "wakeRetry", "yield", "wait", "asleep", "waitRetry"}

\* The parent has signalled and has not been answered ...
ParentAwaits ==
    \/ pc["parent"] \in {"yield", "wait", "waitRetry"}
    \/ "parent" \in waiters

\* ... which is exactly when the child has been woken and has not answered.
ChildOwes ==
    \/ Signalling("child")
    \/ pc["child"] = "asleep" /\ "child" \notin waiters

\* The one thing the two loops agree on: the signals are level, or the parent
\* is one ahead and then it waits for the child's answer.
InStep ==
    /\ ParentAwaits <=> ChildOwes
    /\ Signals("parent") = IF ChildOwes THEN Signals("child") + 1
                                       ELSE Signals("child")

\* Counters by position: zero before the loop, below the bound inside it and
\* at the bound after it.
CountersFit ==
    /\ pc["parent"] # "exiting" /\ pc["child"] # "joining"
    /\ \A t \in Tasks :
          /\ pc[t] \in LoopLabels => i[t] < TestCount
          /\ pc[t] \in {"joining", "exiting", "exited"} => i[t] = TestCount
          /\ pc[t] \notin LoopLabels \cup {"joining", "exiting", "exited"} => i[t] = 0

LoopInv ==
    /\ \A t \in waiters : pc[t] = "asleep"
    /\ \A t \in Tasks :
          pc[t] \in {"wake", "wakeRetry"} => word = OwnValue(t)
    /\ InStep
    /\ CountersFit
=============================================================================
