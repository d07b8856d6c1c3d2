------------------------------ MODULE CallCost ------------------------------
(***************************************************************************)
(* The programs that time single calls, one of which is started:           *)
(* futex_wait.c or futex_wake.c, or clock_gettime.c.                       *)
(***************************************************************************)
EXTENDS FutexCost, MCClockMedian

VARIABLE timed   \* "futex" or "clock": what is timed

costvars == <<timed, vars, mvars>>

\* The variables of the program that is not started keep one fixed value.
CostInit ==
    /\ timed \in {"futex", "clock"}
    /\ Init /\ MedianInit
    /\ timed = "clock" => program = "futex_wait"
    /\ timed = "futex" => array = [n \in Indices |-> Double(0, 0)]

Futexes(action) == timed = "futex" /\ action /\ UNCHANGED <<timed, mvars>>
Clock(action) == timed = "clock" /\ action /\ UNCHANGED <<timed, vars>>

CostNext == Futexes(Next) \/ Clock(MedianNext)

CostFairness == \A t \in Tasks : WF_costvars(Futexes(Step(t)))

CostSpec == CostInit /\ [][CostNext]_costvars /\ CostFairness
-----------------------------------------------------------------------------
\* Both futex programs finish their measurement and then wait for ever for the
\* child they forked (EndsInWaitpid), however the two processes are interleaved.
FutexEndsInWaitpid == timed = "futex" => EndsInWaitpid
=============================================================================
