------------------------- MODULE ThreadContextSwitch -------------------------
(***************************************************************************)
(* thread_context_switch.c: main prepares one word, starts thread() and    *)
(* both run the hand-off loop; "parent" is main, "child" is thread().      *)
(* Neither shmget nor shmat is tested.  main ends with wait(), which has   *)
(* no child process to wait for: it returns at once and main's return      *)
(* kills the thread wherever it is.                                        *)
(***************************************************************************)
EXTENDS HandoffLoop

VARIABLE mapped   \* whether the pointer shmat returned points to the segment

tvars == <<pc, i, word, waiters, mapped>>

ThreadLabels ==
    {"unborn", "init_test", "shm", "create", "init",
     "store", "wake", "wakeRetry", "yield", "wait", "asleep", "waitRetry",
     "joining", "exiting", "exited", "failed", "crashed"}

ThreadInit ==
    /\ pc = [t \in Tasks |-> IF t = "parent" THEN "init_test" ELSE "unborn"]
    /\ i = [t \in Tasks |-> 0]
    /\ word = FreshWord
    /\ waiters = {}
    /\ mapped = FALSE

MainInitTest ==
    /\ pc["parent"] = "init_test"
    /\ Goto("parent", "shm") \/ Goto("parent", "failed")
    /\ UNCHANGED <<i, futex, mapped>>

\* shmget and shmat; a failure of either leaves futex = (void *) -1.
ShmgetShmat ==
    /\ pc["parent"] = "shm"
    /\ mapped' \in BOOLEAN
    /\ Goto("parent", "create")
    /\ UNCHANGED <<i, futex>>

PthreadCreate ==
    /\ pc["parent"] = "create"
    /\ \/ pc' = [t \in Tasks |-> IF t = "parent" THEN "init" ELSE LoopTop(t)]
       \/ Goto("parent", "failed")
    /\ UNCHANGED <<i, futex, mapped>>

\* main's first *futex = 0xA, after the thread has started: through a bad
\* pointer it kills the whole process.
MainInitWord ==
    /\ pc["parent"] = "init"
    /\ IF mapped
       THEN Store(FutexA) /\ Goto("parent", LoopTop("parent"))
       ELSE pc' = [t \in Tasks |-> "crashed"] /\ UNCHANGED futex
    /\ UNCHANGED <<i, mapped>>

\* FUTEX_WAIT on a bad pointer fails, which thread() takes for a retry.
WaitBadPointer ==
    /\ ~ mapped
    /\ pc["child"] = "wait"
    /\ Goto("child", "waitRetry")
    /\ UNCHANGED <<i, futex, mapped>>

Loop(t) ==
    /\ mapped \/ pc[t] # "wait"
    /\ LoopStep(t)
    /\ UNCHANGED mapped

ThreadReturn ==
    /\ pc["child"] = "exiting"
    /\ Goto("child", "exited")
    /\ UNCHANGED <<i, futex, mapped>>

\* wait() fails with ECHILD, main returns, the process and its thread end.
MainReturn ==
    /\ pc["parent"] = "joining"
    /\ pc' = [t \in Tasks |-> "exited"]
    /\ waiters' = {}
    /\ UNCHANGED <<i, word, mapped>>

ThreadStep(t) ==
    \/ t = "parent" /\ (MainInitTest \/ ShmgetShmat \/ PthreadCreate
                           \/ MainInitWord \/ MainReturn)
    \/ t = "child" /\ (WaitBadPointer \/ ThreadReturn)
    \/ Loop(t)

ThreadNext == \E t \in Tasks : ThreadStep(t) \/ (Restarted(t) /\ UNCHANGED mapped)

\* As for processes: the scheduler runs every thread that can run.
ThreadFairness == \A t \in Tasks : WF_tvars(ThreadStep(t))

ThreadSpec == ThreadInit /\ [][ThreadNext]_tvars /\ ThreadFairness
-----------------------------------------------------------------------------
ThreadTypeOK ==
    /\ pc \in [Tasks -> ThreadLabels]
    /\ i \in [Tasks -> 0..TestCount]
    /\ word \in {FreshWord, FutexA, FutexB}
    /\ waiters \subseteq Tasks
    /\ mapped \in BOOLEAN

\* main does not join the thread, yet its return never cuts a hand-off short:
\* by then both loops have run all their iterations.
ReturnsAfterFullRun ==
    pc["parent"] = "exited" => \A t \in Tasks : i[t] = TestCount

=============================================================================
