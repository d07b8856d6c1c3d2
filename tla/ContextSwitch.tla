---------------------------- MODULE ContextSwitch ----------------------------
(***************************************************************************)
(* The programs that run the hand-off loop, one of which is started:       *)
(* process_context_switch.c with its two processes scheduled in any order, *)
(* the same program on the one core it is pinned to, or                    *)
(* thread_context_switch.c.                                                *)
(***************************************************************************)
EXTENDS SingleCore, ThreadContextSwitch

VARIABLE program   \* which of the three it is

core == <<cpu, switches, calls, preemptions>>
svars == <<program, pc, i, word, waiters, core, mapped>>

\* All start alike.  A program that is not confined to one core runs on "any".
SwitchInit ==
    /\ program \in {"process", "process on one core", "thread"}
    /\ Init /\ ThreadInit
    /\ cpu = IF program = "process on one core" THEN "parent" ELSE "any"
    /\ switches = 0 /\ calls = 0 /\ preemptions = 0

AnyCore(action) == program = "process" /\ action /\ UNCHANGED <<program, core, mapped>>
OneCore(action) == program = "process on one core" /\ action /\ UNCHANGED <<program, mapped>>
Thread(action) == program = "thread" /\ action /\ UNCHANGED <<program, core>>

SwitchNext == AnyCore(Next) \/ OneCore(CoreNext) \/ Thread(ThreadNext)

\* The fairness of each of the three.
SwitchFairness ==
    /\ \A t \in Tasks : WF_svars(AnyCore(Step(t))) /\ WF_svars(Thread(ThreadStep(t)))
    /\ WF_svars(OneCore(\E t \in Tasks : Run(t)))

SwitchSpec == SwitchInit /\ [][SwitchNext]_svars /\ SwitchFairness
-----------------------------------------------------------------------------
SwitchTypeOK == IF program = "thread" THEN ThreadTypeOK ELSE TypeOK

\* The thread may run before main's first store, while the word is still 0 or
\* the pointer is bad; thread_context_switch.c still ends, in a full run, a tested
\* failure or a crash, provided the tasks are not stopped and continued forever.
ThreadsTerminate ==
    program = "thread" =>
        (NoMoreRestarts => <>(pc["parent"] \in {"exited", "failed", "crashed"}))

\* The pair on one core needs no preemption to finish: every retry gives the core
\* to the process it waits for ("enable parent process to execute").
FinishesByYielding ==
    program = "process on one core" =>
        <>(\/ \A t \in Tasks : pc[t] = "exited"
           \/ \E t \in Tasks : pc[t] \in {"failed", "crashed"})
==============================================================================
