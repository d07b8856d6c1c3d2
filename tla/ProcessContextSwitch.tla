------------------------ MODULE ProcessContextSwitch ------------------------
(***************************************************************************)
(* process_context_switch.c: main prepares one shared word, forks, and     *)
(* parent and child run the hand-off loop; the parent then waits for the   *)
(* child.  Every call main tests may fail; shmat is not tested, so when it *)
(* fails the store that follows kills the process that made it.            *)
(***************************************************************************)
EXTENDS HandoffLoop

Labels ==
    {"unborn", "init_test", "shmget", "fork", "shmat", "init", "store", "wake",
     "wakeRetry", "yield", "wait", "asleep", "waitRetry", "joining", "exiting",
     "exited", "failed", "crashed"}

Init ==
    /\ pc = [t \in Tasks |-> IF t = "parent" THEN "init_test" ELSE "unborn"]
    /\ i = [t \in Tasks |-> 0]
    /\ word = FreshWord
    /\ waiters = {}

\* A call that main tests: on failure it prints and exits.
Tested(label, next) ==
    /\ pc["parent"] = label
    /\ Goto("parent", next) \/ Goto("parent", "failed")
    /\ UNCHANGED <<i, futex>>

InitTest == Tested("init_test", "shmget")
Shmget == Tested("shmget", "fork")

Fork ==
    /\ pc["parent"] = "fork"
    /\ \/ pc' = [t \in Tasks |-> "shmat"]
       \/ Goto("parent", "failed")
    /\ UNCHANGED <<i, futex>>

\* Each process attaches the segment for itself, after the fork.
Shmat(t) ==
    /\ pc[t] = "shmat"
    /\ Goto(t, "init") \/ Goto(t, "crashed")
    /\ UNCHANGED <<i, futex>>

\* Both processes execute *futex = 0xA before they part ways.
InitWord(t) ==
    /\ pc[t] = "init"
    /\ Store(FutexA)
    /\ Goto(t, LoopTop(t))
    /\ UNCHANGED i

ChildExit ==
    /\ pc["child"] = "exiting"
    /\ Goto("child", "exited")
    /\ UNCHANGED <<i, futex>>

\* Faulty variant: the parent exits without waitpid.
ExitWithoutWaitpid ==
    /\ pc["parent"] = "joining"
    /\ Goto("parent", "exited")
    /\ UNCHANGED <<i, futex>>

\* waitpid blocks until the child has terminated, then exit(EXIT_SUCCESS).
Waitpid ==
    /\ pc["parent"] = "joining"
    /\ pc["child"] \in {"exited", "crashed"}
    /\ Goto("parent", "exited")
    /\ UNCHANGED <<i, futex>>

\* Everything task t does of its own accord.
Step(t) ==
    \/ t = "parent" /\ (InitTest \/ Shmget \/ Fork \/ Waitpid)
    \/ t = "child" /\ ChildExit
    \/ Shmat(t)
    \/ InitWord(t)
    \/ LoopStep(t)

Next == \E t \in Tasks : Step(t) \/ Restarted(t)

\* The scheduler runs every task that can run: a task that is neither blocked
\* nor finished eventually takes its next step.
Fairness == \A t \in Tasks : WF_vars(Step(t))

Spec == Init /\ [][Next]_vars /\ Fairness
-----------------------------------------------------------------------------
TypeOK ==
    /\ pc \in [Tasks -> Labels]
    /\ i \in [Tasks -> 0..TestCount]
    /\ word \in {FreshWord, FutexA, FutexB}
    /\ waiters \subseteq Tasks

\* The parent exits with EXIT_SUCCESS only after a full set of hand-offs in
\* both directions and after the child has exited: a run that lost its child
\* on the way is never counted as PER_PROCESS_TEST_COUNT iterations.
ExitsAfterFullRun ==
    pc["parent"] = "exited" =>
        /\ pc["child"] = "exited"
        /\ \A t \in Tasks : i[t] = TestCount

\* If main gets past fork and both processes attach the segment, both finish,
\* provided tasks are stopped and continued only finitely often: no
\* interleaving of the stores, wakes and waits can make the pair hang.
NoMoreRestarts == <>[][\A t \in Tasks : ~ Restarted(t)]_vars
Terminates ==
    NoMoreRestarts =>
        <>(\/ \A t \in Tasks : pc[t] = "exited"
           \/ \E t \in Tasks : pc[t] \in {"failed", "crashed"})
=============================================================================
