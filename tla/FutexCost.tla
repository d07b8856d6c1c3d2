------------------------------ MODULE FutexCost ------------------------------
(***************************************************************************)
(* futex_wait.c and futex_wake.c: the same program with the two futex      *)
(* calls exchanged.  The parent times TestCount calls of one kind on its   *)
(* own core while the child makes calls of the other kind for ever; then   *)
(* it waits for the child.  No call's result is looked at.                 *)
(***************************************************************************)
EXTENDS Futex

CONSTANT TestCount   \* TEST_COUNT_PER_PROCESS

ASSUME TestCountAssumption == TestCount \in Nat \ {0}

VARIABLES program,   \* which of the two it is
          pc,        \* the statement each process is at
          i          \* the parent's loop counter

vars == <<program, pc, i, word, waiters>>

Tasks == {"parent", "child"}

Init ==
    /\ program \in {"futex_wait", "futex_wake"}
    /\ pc = [t \in Tasks |-> IF t = "parent" THEN "shmget" ELSE "unborn"]
    /\ i = 0
    /\ word = FreshWord
    /\ waiters = {}

Goto(t, label) == pc' = [pc EXCEPT ![t] = label]

Shmget ==
    /\ pc["parent"] = "shmget"
    /\ Goto("parent", "fork") \/ Goto("parent", "failed")
    /\ UNCHANGED <<i, futex>>

Fork ==
    /\ pc["parent"] = "fork"
    /\ \/ pc' = [t \in Tasks |-> "shmat"]
       \/ Goto("parent", "failed")
    /\ UNCHANGED <<i, futex>>

\* shmat is not tested: the store after a failed one kills the process.
Shmat(t) ==
    /\ pc[t] = "shmat"
    /\ Goto(t, "init") \/ Goto(t, "crashed")
    /\ UNCHANGED <<i, futex>>

\* Faulty variant: only the child initialises the word.
InitWordInChild(t) ==
    /\ pc[t] = "init"
    /\ IF t = "child" THEN Store(FutexA) ELSE UNCHANGED futex
    /\ Goto(t, "set_cpu")
    /\ UNCHANGED i

InitWord(t) ==
    /\ pc[t] = "init"
    /\ Store(FutexA)
    /\ Goto(t, "set_cpu")
    /\ UNCHANGED i

\* set_process_cpu_and_freq: whether it returns 0 or -1, the caller goes on.
SetCpu(t) ==
    /\ pc[t] = "set_cpu"
    /\ Goto(t, "call")
    /\ UNCHANGED <<i, futex>>

\* Faulty variant: the loop test is <=.
ReturnOnceMore(t) ==
    IF t = "child"
    THEN Goto(t, "call") /\ UNCHANGED i
    ELSE /\ i' = i + 1
         /\ Goto(t, IF i + 1 <= TestCount THEN "call" ELSE "waitpid")

\* After a call returns: the child's loop is while (1), the parent's counts.
Return(t) ==
    IF t = "child"
    THEN Goto(t, "call") /\ UNCHANGED i
    ELSE /\ i' = i + 1
         /\ Goto(t, IF i + 1 < TestCount THEN "call" ELSE "waitpid")

\* Which process makes which call.
Caller(op) == IF (program = "futex_wait") = (op = "FUTEX_WAIT")
              THEN "parent" ELSE "child"

\* Faulty variant: the word is compared with the value it was created with.
CallWaitFresh(t) ==
    /\ t = Caller("FUTEX_WAIT")
    /\ pc[t] = "call"
    /\ \/ WaitBlocks(t, FreshWord) /\ Goto(t, "asleep") /\ UNCHANGED i
       \/ WaitRefused(FreshWord) /\ Return(t)

CallWait(t) ==
    /\ t = Caller("FUTEX_WAIT")
    /\ pc[t] = "call"
    /\ \/ WaitBlocks(t, FutexA) /\ Goto(t, "asleep") /\ UNCHANGED i
       \/ WaitRefused(FutexA) /\ Return(t)

Woken(t) ==
    /\ pc[t] = "asleep"
    /\ t \notin waiters
    /\ Return(t)
    /\ UNCHANGED futex

CallWake(t) ==
    /\ t = Caller("FUTEX_WAKE")
    /\ pc[t] = "call"
    /\ WakeOne \/ WakeNobody
    /\ Return(t)

\* waitpid returns when the child is gone, which only a crash can bring about.
Waitpid ==
    /\ pc["parent"] = "waitpid"
    /\ pc["child"] = "crashed"
    /\ Goto("parent", "exited")
    /\ UNCHANGED <<i, futex>>

Step(t) ==
    /\ \/ t = "parent" /\ (Shmget \/ Fork \/ Waitpid)
       \/ Shmat(t)
       \/ InitWord(t)
       \/ SetCpu(t)
       \/ CallWait(t)
       \/ Woken(t)
       \/ CallWake(t)
    /\ UNCHANGED program

Next == \E t \in Tasks : Step(t)

\* The processes run on different cores and are scheduled independently.
Fairness == \A t \in Tasks : WF_vars(Step(t))

Spec == Init /\ [][Next]_vars /\ Fairness
-----------------------------------------------------------------------------
TypeOK ==
    /\ program \in {"futex_wait", "futex_wake"}
    /\ pc \in [Tasks -> {"unborn", "shmget", "fork", "shmat", "init", "set_cpu",
                         "call", "asleep", "waitpid", "exited", "failed", "crashed"}]
    /\ i \in 0..TestCount
    /\ word \in {FreshWord, FutexA}
    /\ waiters \subseteq {Caller("FUTEX_WAIT")}

Failed == \E t \in Tasks : pc[t] \in {"failed", "crashed"}

\* The two processes do not synchronise before they start calling, yet every
\* FUTEX_WAIT finds 0xA in the word and goes to sleep: the failing FUTEX_WAIT
\* that the comment on futex_wait.c's timed loop allows for never happens.
EveryWaitBlocks ==
    LET t == Caller("FUTEX_WAIT")
    IN  pc[t] \in {"call", "asleep"} => word = FutexA

\* The timed loop ends, although in futex_wait.c each of its calls sleeps until an
\* uncoordinated FUTEX_WAKE of the child happens to come after it; then the parent
\* waits for the child for ever.  In futex_wake.c the child ends up asleep, for no
\* wake-up comes after the parent's last.
EndsInWaitpid ==
    <>[](\/ Failed
         \/ /\ pc["parent"] = "waitpid"
            /\ program = "futex_wake" => "child" \in waiters)

\* What the header of both files says: "child process will most likely wait
\* indefinitely".  The child of futex_wait.c makes no call that waits.
ChildWaitsIndefinitely == <>[](Failed \/ "child" \in waiters)
-----------------------------------------------------------------------------
(***************************************************************************)
(* The inductive invariant: both processes store 0xA and nothing else, so  *)
(* from the store of the first one on the word is 0xA.                     *)
(***************************************************************************)
Initialised ==
    \A t \in Tasks : pc[t] \in {"set_cpu", "call", "asleep", "waitpid", "exited"} => word = FutexA

Counter ==
    /\ pc["child"] \notin {"waitpid", "exited"}
    /\ i < TestCount \/ pc["parent"] \in {"waitpid", "exited"}

IInv == TypeOK /\ Initialised /\ Counter
==============================================================================
