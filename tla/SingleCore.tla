----------------------------- MODULE SingleCore -----------------------------
(***************************************************************************)
(* process_context_switch.c on the one core init_test pins it to: fork     *)
(* inherits the affinity mask, so parent and child take turns on CPU 3.    *)
(* The running process gives the core up when it calls sched_yield, blocks *)
(* or ends, and the timer preempts it at most MaxPreemptions times.        *)
(***************************************************************************)
EXTENDS ProcessContextSwitch

CONSTANT MaxPreemptions   \* bound on timer preemptions in one run

ASSUME MaxPreemptionsAssumption == MaxPreemptions \in Nat

VARIABLES cpu,           \* the process on the core
          switches,      \* context switches between the two clock readings
          calls,         \* the parent's sched_yield and FUTEX_WAIT calls there
          preemptions    \* timer preemptions so far

cvars == <<pc, i, word, waiters, cpu, switches, calls, preemptions>>

Runnable(t) ==
    /\ pc[t] \notin {"unborn", "exited", "failed", "crashed"}
    /\ t \notin waiters
    /\ (t = "parent" /\ pc[t] = "joining") => pc["child"] \in {"exited", "crashed"}

\* The statements that are a sched_yield call: the one of the loop body and
\* the one in the body of each retry loop.
AtYield(t) == pc[t] \in {"yield", "wakeRetry", "waitRetry"}

\* The parent is between its two clock_gettime calls.  A run whose child died
\* at its first store spins here for ever and never reports: nothing to count.
Timed ==
    /\ pc["parent"] \in {"store", "wake", "wakeRetry",
                         "yield", "wait", "asleep", "waitRetry"}
    /\ pc["child"] # "crashed"

CoreInit ==
    /\ Init
    /\ cpu = "parent"
    /\ switches = 0
    /\ calls = 0
    /\ preemptions = 0

GiveCoreTo(t) ==
    /\ cpu' = t
    /\ switches' = IF Timed /\ t # cpu THEN switches + 1 ELSE switches

CountCalls ==
    calls' = IF Timed /\ cpu = "parent" /\ (AtYield(cpu) \/ pc[cpu] = "wait")
             THEN calls + 1 ELSE calls

\* Faulty variant: the retry loops spin instead of yielding.
RunSpinning(t) ==
    /\ cpu = t
    /\ Step(t)
    /\ GiveCoreTo(IF (pc[t] = "yield" \/ ~ Runnable(t)') /\ Runnable(Other(t))'
                  THEN Other(t) ELSE t)
    /\ CountCalls
    /\ UNCHANGED preemptions

Run(t) ==
    /\ cpu = t
    /\ Step(t)
    /\ GiveCoreTo(IF (AtYield(t) \/ ~ Runnable(t)') /\ Runnable(Other(t))'
                  THEN Other(t) ELSE t)
    /\ CountCalls
    /\ UNCHANGED preemptions

Preempt ==
    /\ preemptions < MaxPreemptions
    /\ Runnable(cpu) /\ Runnable(Other(cpu))
    /\ preemptions' = preemptions + 1
    /\ GiveCoreTo(Other(cpu))
    /\ UNCHANGED <<pc, i, word, waiters, calls>>

CoreNext == Preempt \/ \E t \in Tasks : Run(t)

\* The core never idles while a process can run; preemption is never promised.
CoreSpec == CoreInit /\ [][CoreNext]_cvars /\ WF_cvars(\E t \in Tasks : Run(t))
-----------------------------------------------------------------------------
\* The parent has left the timed loop.
LoopLeft == pc["parent"] \in {"joining", "exited"}

\* A preemption moves a total by at most 2.
Near(n) == (n - 2 * preemptions)..(n + 2 * preemptions)

\* What the program's arithmetic takes for constant.  For 100000 iterations
\* get_total_context_switches returns 600000, "according to external
\* measurements", in place of the 4 per iteration of the formula it comments out:
\* on one core an iteration is indeed 6 switches (and 2 more to get going).
SwitchesPerIteration ==
    (cpu \in Tasks /\ LoopLeft) => switches \in Near(6 * TestCount + 2)

\* What the comment on SYSCALL_OVERHEAD * 2 * PER_PROCESS_TEST_COUNT says is made
\* per iteration: "Two syscalls: FUTEX_WAIT and sched_yield".
TwoSyscalls == LoopLeft => calls \in Near(2 * TestCount)

\* What is made: FUTEX_WAKE first finds the child not yet asleep, and the retry is
\* a second sched_yield (1 more to get going).
ThreeSyscalls == LoopLeft => calls \in Near(3 * TestCount + 1)
-----------------------------------------------------------------------------
(***************************************************************************)
(* The inductive invariant behind these totals.  Without preemption        *)
(* the run is determined, so in each state of the pair the totals are a    *)
(* fixed number above 6 and 3 per iteration; these are the two numbers.    *)
(***************************************************************************)
Signalled == pc["parent"] \in {"yield", "wait", "waitRetry", "asleep"}

SwitchesHere ==
    LET parentRuns == cpu = "parent"
        toCome == IF Timed THEN 1 ELSE 0   \* the switch back to the parent
    IN  CASE LoopLeft -> 2
          [] ~ LoopLeft /\ ~ Signalled ->
                IF pc["child"] = "asleep" THEN 4
                ELSE IF parentRuns THEN (IF pc["child"] = "wait" THEN 2 ELSE 0)
                ELSE (IF pc["child"] = "wait" /\ word = FutexA THEN 4 ELSE 2) - toCome
          [] pc["parent"] \in {"yield", "waitRetry"} -> IF parentRuns THEN 4 ELSE 3
          [] pc["parent"] = "wait" ->
                IF parentRuns THEN (IF word = FutexB THEN 6 ELSE 4) ELSE 5
          [] pc["parent"] = "asleep" ->
                IF ~ parentRuns \/ pc["child"] = "exiting" THEN 7
                ELSE IF pc["child"] \in {"wait", "exited"} THEN 8 ELSE 6

CallsHere ==
    LET parentRuns == cpu = "parent"
    IN  CASE LoopLeft -> 1
          [] ~ LoopLeft /\ ~ Signalled ->
                IF pc["child"] = "asleep" THEN (IF pc["parent"] = "wakeRetry" THEN 1 ELSE 2)
                ELSE IF parentRuns THEN (IF pc["child"] = "wait" THEN 1 ELSE 0)
                ELSE IF pc["child"] = "wait" /\ word = FutexA /\ pc["parent"] # "wakeRetry" THEN 2
                ELSE 1
          [] pc["parent"] \in {"yield", "waitRetry"} -> 2
          [] pc["parent"] = "wait" -> IF parentRuns /\ word # FutexB THEN 1 ELSE 3
          [] pc["parent"] = "asleep" ->
                IF parentRuns /\ pc["child"] \notin {"wait", "exiting", "exited"} THEN 3 ELSE 4

\* A preemption moves the run to a state whose numbers differ by 2 at most.
CostSoFar ==
    (pc["parent"] \notin {"failed", "crashed"} /\ pc["child"] # "crashed") =>
        /\ switches - 6 * i["parent"] \in Near(SwitchesHere)
        /\ calls - 3 * i["parent"] \in Near(CallsHere)

\* A task that is blocked or woken finds the word as the other task has left it.
WordForSleeper ==
    /\ pc["child"] \in {"asleep", "store"} => word = FutexA
    /\ pc["parent"] = "asleep" => word = FutexB

\* The child begins where fork returns.
ChildBorn ==
    /\ pc["child"] = "unborn" => pc["parent"] \in {"init_test", "shmget", "fork", "failed"}
    /\ pc["child"] \notin {"init_test", "shmget", "fork", "failed"} /\ pc["parent"] # "unborn"

CoreTypeOK == cpu \in Tasks /\ switches \in Nat /\ calls \in Nat /\ preemptions \in Nat

CoreInv == CoreTypeOK /\ WordForSleeper /\ ChildBorn /\ CostSoFar
=============================================================================
