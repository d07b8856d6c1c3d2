-------------------------- MODULE ContextSwitch_proofs --------------------------
(***************************************************************************)
(* The two context-switch programs, for every number of iterations: the    *)
(* hand-off loop they share, process_context_switch.c and                  *)
(* thread_context_switch.c.                                                *)
(***************************************************************************)
EXTENDS SingleCore, ThreadContextSwitch, TLAPS

\* What the proofs need to know of the types; both programs' TypeOK imply it.
LoopTypeOK ==
    /\ pc = [t \in Tasks |-> pc[t]]
    /\ i \in [Tasks -> 0..TestCount]
    /\ waiters \subseteq Tasks

\* The loop test: another iteration, or the bound is reached exactly.
LEMMA IterateCases ==
    ASSUME LoopTypeOK, NEW t \in Tasks, i[t] < TestCount, Iterate(t)
    PROVE  /\ i' = [i EXCEPT ![t] = @ + 1]
           /\ \/ i[t] + 1 < TestCount /\ pc' = [pc EXCEPT ![t] = LoopTop(t)]
              \/ i[t] + 1 = TestCount /\ pc' = [pc EXCEPT ![t] = LoopExit(t)]
<1>1. i[t] \in Nat
  BY TestCountAssumption DEF LoopTypeOK
<1>2. CASE i[t] + 1 < TestCount
  BY <1>2 DEF Iterate, Goto
<1>3. CASE ~ (i[t] + 1 < TestCount)
  BY <1>1, <1>3, TestCountAssumption DEF Iterate, Goto
<1> QED BY <1>2, <1>3

\* Every statement of the loop body, and the restart of a stopped FUTEX_WAIT,
\* preserves the loop invariant.
LEMMA LoopStepPreservesLoopInv ==
    ASSUME LoopTypeOK, LoopInv, NEW t \in Tasks, LoopStep(t) \/ Restarted(t)
    PROVE  LoopInv'
<1> USE TestCountAssumption DEF LoopTypeOK, LoopInv, InStep, CountersFit, Signals,
        ParentAwaits, ChildOwes, Signalling, LoopLabels, Tasks, OwnValue,
        FutexA, FutexB, futex, Goto
<1>1. CASE StoreWord(t)
  BY <1>1 DEF StoreWord, Store
<1>2. CASE Wake(t)
  <2>1. CASE WakeNobody /\ Goto(t, "wakeRetry") /\ UNCHANGED i
    BY <1>2, <2>1 DEF Wake, WakeNobody
  <2>2. CASE WakeOne /\ AfterWake(t)
    <3>1. PICK s \in waiters : waiters' = waiters \ {s} /\ UNCHANGED word
      BY <2>2 DEF WakeOne
    <3>2. s # t /\ pc[t] = "wake" /\ pc[s] = "asleep"
      BY <1>2, <3>1 DEF Wake
    <3>3. CASE t = "parent"
      BY <2>2, <3>1, <3>2, <3>3 DEF AfterWake
    <3>4. CASE t = "child"
      <4>1. /\ i' = [i EXCEPT !["child"] = @ + 1]
            /\ \/ /\ i["child"] + 1 < TestCount
                  /\ pc' = [pc EXCEPT !["child"] = "yield"]
               \/ /\ i["child"] + 1 = TestCount
                  /\ pc' = [pc EXCEPT !["child"] = "exiting"]
        BY <2>2, <3>2, <3>4, IterateCases DEF AfterWake, LoopTop, LoopExit
      <4> QED BY <3>1, <3>2, <3>4, <4>1
    <3> QED BY <3>3, <3>4
  <2> QED BY <1>2, <2>1, <2>2 DEF Wake
<1>3. CASE WakeRetry(t)
  BY <1>3 DEF WakeRetry
<1>4. CASE Yield(t)
  BY <1>4 DEF Yield
<1>5. CASE Wait(t)
  BY <1>5 DEF Wait, WaitBlocks, WaitRefused
<1>6. CASE WaitRetry(t)
  BY <1>6 DEF WaitRetry
<1>7. CASE Woken(t)
  <2>1. CASE t = "parent"
    <3>1. /\ i' = [i EXCEPT !["parent"] = @ + 1]
          /\ \/ /\ i["parent"] + 1 < TestCount
                /\ pc' = [pc EXCEPT !["parent"] = "store"]
             \/ /\ i["parent"] + 1 = TestCount
                /\ pc' = [pc EXCEPT !["parent"] = "joining"]
      BY <1>7, <2>1, IterateCases DEF Woken, AfterWait, LoopTop, LoopExit
    <3> QED BY <1>7, <2>1, <3>1 DEF Woken
  <2>2. CASE t = "child"
    BY <1>7, <2>2 DEF Woken, AfterWait
  <2> QED BY <2>1, <2>2
<1>8. CASE Restarted(t)
  BY <1>8 DEF Restarted, RestartWait
<1> QED
  BY <1>1, <1>2, <1>3, <1>4, <1>5, <1>6, <1>7, <1>8 DEF LoopStep

\* Every statement of the loop body keeps the word, the counters and the
\* waiters in their types and leaves both tasks at labels of the loop.
LEMMA LoopStepTypes ==
    ASSUME LoopTypeOK, LoopInv, NEW t \in Tasks, LoopStep(t) \/ Restarted(t)
    PROVE  /\ i' \in [Tasks -> 0..TestCount]
           /\ waiters' \subseteq Tasks
           /\ word' \in {word, FutexA, FutexB}
           /\ \E label \in LoopLabels \cup {"joining", "exiting"} :
                 Goto(t, label)
           /\ pc[t] \in LoopLabels
<1> USE TestCountAssumption DEF LoopTypeOK, LoopInv, CountersFit, LoopLabels,
        Tasks, OwnValue, futex, Goto
<1>1. CASE StoreWord(t)
  BY <1>1 DEF StoreWord, Store
<1>2. CASE Wake(t)
  <2>1. word' = word /\ waiters' \subseteq Tasks /\ pc[t] = "wake"
    BY <1>2 DEF Wake, WakeNobody, WakeOne
  <2>2. CASE Goto(t, "wakeRetry") /\ UNCHANGED i
    BY <2>1, <2>2
  <2>3. CASE AfterWake(t)
    BY <2>1, <2>3 DEF AfterWake, Iterate, LoopTop, LoopExit
  <2> QED BY <1>2, <2>2, <2>3 DEF Wake
<1>3. CASE WakeRetry(t)
  BY <1>3 DEF WakeRetry
<1>4. CASE Yield(t)
  BY <1>4 DEF Yield
<1>5. CASE Wait(t)
  BY <1>5 DEF Wait, WaitBlocks, WaitRefused
<1>6. CASE WaitRetry(t)
  BY <1>6 DEF WaitRetry
<1>7. CASE Woken(t)
  BY <1>7 DEF Woken, AfterWait, Iterate, LoopTop, LoopExit
<1>8. CASE Restarted(t)
  BY <1>8 DEF Restarted, RestartWait
<1> QED
  BY <1>1, <1>2, <1>3, <1>4, <1>5, <1>6, <1>7, <1>8 DEF LoopStep

\* A statement of the loop body is a step of the abstract hand-off, or changes
\* neither task's count of successful FUTEX_WAKE calls.
LEMMA LoopStepAlternates ==
    ASSUME LoopTypeOK, LoopInv, NEW t \in Tasks, LoopStep(t) \/ Restarted(t)
    PROVE  [Alternating!ANext]_([s \in Tasks |-> Signals(s)])
<1> DEFINE sig == [s \in Tasks |-> Signals(s)]
<1> USE TestCountAssumption DEF LoopTypeOK, LoopInv, InStep, CountersFit, Signals,
        ParentAwaits, ChildOwes, Signalling, LoopLabels, Tasks, futex, Goto
<1>1. CASE /\ Wake(t)
           /\ WakeOne /\ AfterWake(t)
  <2>1. PICK s \in waiters : waiters' = waiters \ {s}
    BY <1>1 DEF WakeOne
  <2>2. s # t /\ pc[t] = "wake" /\ pc[s] = "asleep"
    BY <1>1, <2>1 DEF Wake
  <2>3. CASE t = "parent"
    <3>1. s = "child"
      BY <2>2, <2>3
    <3>2. pc["parent"] = "wake" /\ pc' = [pc EXCEPT !["parent"] = "yield"] /\ i' = i
      BY <1>1, <2>2, <2>3 DEF AfterWake
    <3>3. Signals("parent")' = Signals("parent") + 1 /\ Signals("child")' = Signals("child")
      BY <3>2
    <3>4. Signals("parent") = Signals("child") /\ Signals("parent") < TestCount
      BY <2>1, <2>2, <3>1, <3>2
    <3> QED
      BY <3>3, <3>4 DEF Alternating!ANext, Alternating!ParentSignals
  <2>4. CASE t = "child"
    <3>1. s = "parent"
      BY <2>2, <2>4
    <3>2. /\ pc["child"] = "wake" /\ pc'["parent"] = pc["parent"]
          /\ i' = [i EXCEPT !["child"] = @ + 1]
      BY <1>1, <2>2, <2>4 DEF AfterWake, Iterate
    <3>3. Signals("child")' = Signals("child") + 1 /\ Signals("parent")' = Signals("parent")
      BY <3>2
    <3>4. Signals("child") < Signals("parent")
      BY <3>2
    <3> QED
      BY <3>3, <3>4 DEF Alternating!ANext, Alternating!ChildSignals
  <2> QED BY <2>3, <2>4
<1>2. CASE ~ (Wake(t) /\ WakeOne /\ AfterWake(t))
  <2> SUFFICES Signals("parent")' = Signals("parent") /\ Signals("child")' = Signals("child")
    OBVIOUS
  <2>1. CASE StoreWord(t)
    BY <2>1 DEF StoreWord
  <2>2. CASE Wake(t)
    BY <1>2, <2>2 DEF Wake
  <2>3. CASE WakeRetry(t)
    BY <2>3 DEF WakeRetry
  <2>4. CASE Yield(t)
    BY <2>4 DEF Yield
  <2>5. CASE Wait(t)
    BY <2>5 DEF Wait
  <2>6. CASE WaitRetry(t)
    BY <2>6 DEF WaitRetry
  <2>7. CASE Woken(t)
    BY <2>7 DEF Woken, AfterWait, Iterate, LoopTop, LoopExit
  <2>8. CASE Restarted(t)
    BY <2>8 DEF Restarted
  <2> QED
    BY <2>1, <2>2, <2>3, <2>4, <2>5, <2>6, <2>7, <2>8 DEF LoopStep
<1> QED BY <1>1, <1>2

\* The loop invariant gives the two safety properties of the loop.
LEMMA LoopInvSafe ==
    ASSUME LoopTypeOK, LoopInv
    PROVE  OneWriterAtATime /\ SleeperHasWaker
BY TestCountAssumption DEF LoopTypeOK, LoopInv, InStep, CountersFit, Signals,
   ParentAwaits, ChildOwes, Signalling, LoopLabels, Tasks, Other,
   OneWriterAtATime, SleeperHasWaker

-----------------------------------------------------------------------------
(***************************************************************************)
(* process_context_switch.c, for every PER_PROCESS_TEST_COUNT.             *)
(***************************************************************************)
\* Everything a step needs to know of the state before it.
ChildAfterFork ==
    pc["parent"] \in {"init_test", "shmget", "fork"} => pc["child"] = "unborn"

IInv == TypeOK /\ LoopInv /\ ExitsAfterFullRun /\ ChildAfterFork

LEMMA TypesImplyLoopTypes == ASSUME TypeOK PROVE LoopTypeOK
BY DEF TypeOK, LoopTypeOK

\* main starts in the invariant: nothing is signalled, nobody is in the loop.
LEMMA InitEstablishes == ASSUME Init PROVE IInv
BY TestCountAssumption DEF Init, IInv, TypeOK, LoopInv, ExitsAfterFullRun, ChildAfterFork,
   InStep,
   CountersFit, Signals, ParentAwaits, ChildOwes, Signalling, LoopLabels, Labels,
   Tasks, FreshWord

\* The statements outside the loop, each of which moves the parent or the child
\* from one label before or after the loop to the next.
LEMMA OutsideStepPreserves ==
    ASSUME IInv,
           \/ InitTest \/ Shmget \/ Fork \/ Waitpid \/ ChildExit
           \/ \E t \in Tasks : Shmat(t) \/ InitWord(t)
    PROVE  IInv' /\ \A t \in Tasks : Signals(t)' = Signals(t)
<1> USE TestCountAssumption DEF IInv, TypeOK, LoopInv, ExitsAfterFullRun, ChildAfterFork,
        InStep,
        CountersFit, Signals, ParentAwaits, ChildOwes, Signalling, LoopLabels, Labels,
        Tasks, FutexA, FutexB, FreshWord, futex, Goto, OwnValue
<1>1. CASE InitTest
  BY <1>1 DEF InitTest, Tested
<1>2. CASE Shmget
  BY <1>2 DEF Shmget, Tested
<1>3. CASE Fork
  BY <1>3 DEF Fork
<1>4. CASE Waitpid
  <2>1. i["parent"] = TestCount /\ i["child"] = TestCount
    BY <1>4 DEF Waitpid
  <2>2. pc["child"] = "exited"
    BY <1>4, <2>1 DEF Waitpid
  <2> QED BY <1>4, <2>1, <2>2 DEF Waitpid
<1>5. CASE ChildExit
  BY <1>5 DEF ChildExit
<1>6. ASSUME NEW t \in Tasks, Shmat(t)
      PROVE  IInv' /\ \A s \in Tasks : Signals(s)' = Signals(s)
  BY <1>6 DEF Shmat
<1>7. ASSUME NEW t \in Tasks, InitWord(t)
      PROVE  IInv' /\ \A s \in Tasks : Signals(s)' = Signals(s)
  BY <1>7 DEF InitWord, Store, LoopTop
<1> QED BY <1>1, <1>2, <1>3, <1>4, <1>5, <1>6, <1>7

LEMMA LoopStepPreserves ==
    ASSUME IInv, NEW t \in Tasks, LoopStep(t) \/ Restarted(t)
    PROVE  IInv'
<1>1. LoopTypeOK /\ LoopInv
  BY TypesImplyLoopTypes DEF IInv
<1>2. LoopInv'
  BY <1>1, LoopStepPreservesLoopInv
<1>3. /\ i' \in [Tasks -> 0..TestCount]
      /\ waiters' \subseteq Tasks
      /\ word' \in {word, FutexA, FutexB}
      /\ pc[t] \in LoopLabels
  BY <1>1, LoopStepTypes
<1>4. PICK label \in LoopLabels \cup {"joining", "exiting"} : Goto(t, label)
  BY <1>1, LoopStepTypes
<1>5. TypeOK'
  BY <1>3, <1>4 DEF IInv, TypeOK, Goto, LoopLabels, Labels
<1>6. ExitsAfterFullRun' /\ ChildAfterFork'
  BY <1>3, <1>4 DEF IInv, TypeOK, ExitsAfterFullRun, ChildAfterFork, Goto,
     LoopLabels, Tasks
<1> QED BY <1>2, <1>5, <1>6 DEF IInv

\* Every step of the program preserves the inductive invariant.
LEMMA NextPreserves == ASSUME IInv, [Next]_vars PROVE IInv'
<1>1. ASSUME NEW t \in Tasks, Step(t) PROVE IInv'
  BY <1>1, OutsideStepPreserves, LoopStepPreserves DEF Step
<1>2. ASSUME NEW t \in Tasks, Restarted(t) PROVE IInv'
  BY <1>2, LoopStepPreserves
<1>3. CASE UNCHANGED vars
  BY <1>3 DEF vars, IInv, TypeOK, LoopInv, ExitsAfterFullRun, ChildAfterFork, InStep,
     CountersFit, Signals, ParentAwaits, ChildOwes, Signalling
<1> QED BY <1>1, <1>2, <1>3 DEF Next

\* The inductive invariant holds in every reachable state.
THEOREM Invariance == Spec => []IInv
<1>1. Init => IInv
  BY InitEstablishes
<1>2. IInv /\ [Next]_vars => IInv'
  BY NextPreserves
<1> QED BY <1>1, <1>2, PTL DEF Spec

\* Types, for any number of iterations: in particular neither loop counter
\* passes PER_PROCESS_TEST_COUNT.
THEOREM TypeCorrect == Spec => []TypeOK
<1>1. IInv => TypeOK
  BY DEF IInv
<1> QED BY <1>1, Invariance, PTL

\* The loops never write the word at the same time, and a value stays in it
\* until it has been announced.
THEOREM WritesExclude == Spec => []OneWriterAtATime
<1>1. IInv => OneWriterAtATime
  BY TypesImplyLoopTypes, LoopInvSafe DEF IInv
<1> QED BY <1>1, Invariance, PTL

\* A process asleep in FUTEX_WAIT always has a peer that has still to wake it.
THEOREM NoLostWakeup == Spec => []SleeperHasWaker
<1>1. IInv => SleeperHasWaker
  BY TypesImplyLoopTypes, LoopInvSafe DEF IInv
<1> QED BY <1>1, Invariance, PTL

\* The parent exits with EXIT_SUCCESS only after both loops ran in full.
THEOREM FullRunReported == Spec => []ExitsAfterFullRun
<1>1. IInv => ExitsAfterFullRun
  BY DEF IInv
<1> QED BY <1>1, Invariance, PTL

\* The program implements the abstract hand-off: the successful FUTEX_WAKE
\* calls of the two processes alternate, PER_PROCESS_TEST_COUNT each.
THEOREM Refinement == Spec => StrictAlternation
<1> DEFINE sig == [t \in Tasks |-> Signals(t)]
<1>1. Init => Alternating!AInit
  BY DEF Init, Alternating!AInit, Signals, Tasks
<1>2. IInv /\ [Next]_vars => [Alternating!ANext]_sig
  <2> SUFFICES ASSUME IInv, [Next]_vars PROVE [Alternating!ANext]_sig
    OBVIOUS
  <2>1. LoopTypeOK /\ LoopInv
    BY TypesImplyLoopTypes DEF IInv
  <2>2. ASSUME NEW t \in Tasks, LoopStep(t) \/ Restarted(t)
        PROVE  [Alternating!ANext]_sig
    BY <2>1, <2>2, LoopStepAlternates
  <2>3. ASSUME \A t \in Tasks : Signals(t)' = Signals(t)
        PROVE  sig' = sig
    BY <2>3
  <2>4. ASSUME NEW t \in Tasks, Step(t), ~ LoopStep(t)
        PROVE  \A s \in Tasks : Signals(s)' = Signals(s)
    BY <2>4, OutsideStepPreserves DEF Step
  <2>5. CASE UNCHANGED vars
    BY <2>3, <2>5 DEF vars, Signals
  <2> QED BY <2>2, <2>3, <2>4, <2>5 DEF Next
<1> QED
  BY <1>1, <1>2, Invariance, PTL DEF Spec, StrictAlternation, Alternating!ASpec

-----------------------------------------------------------------------------
(***************************************************************************)
(* process_context_switch.c on one core, for every number of preemptions.  *)
(***************************************************************************)
\* Where the two processes can be with respect to each other.
LEMMA Situations ==
    ASSUME IInv, WordForSleeper, ChildBorn, pc["parent"] \notin {"failed", "crashed"},
           pc["child"] # "crashed"
    PROVE  /\ pc["parent"] \in {"shmat", "init", "store", "wake", "wakeRetry"} =>
                 /\ pc["child"] \in {"shmat", "init", "yield", "wait", "waitRetry", "asleep"}
                 /\ pc["child"] = "asleep" => "child" \in waiters
           /\ pc["parent"] \in {"yield", "wait", "waitRetry"} \/ "parent" \in waiters =>
                 /\ pc["child"] \in {"store", "wake", "wakeRetry", "asleep"}
                 /\ "child" \notin waiters
           /\ pc["parent"] = "asleep" /\ "parent" \notin waiters =>
                 /\ pc["child"] \in {"yield", "wait", "waitRetry", "exiting", "exited"}
                 /\ pc["child"] \in {"exiting", "exited"} <=> i["parent"] + 1 = TestCount
           /\ pc["parent"] \in {"joining", "exited"} => pc["child"] \in {"exiting", "exited"}
           /\ pc["parent"] \in {"init_test", "shmget", "fork"} => pc["child"] = "unborn"
<1> USE TestCountAssumption DEF IInv, TypeOK, LoopInv, InStep, CountersFit, Signals,
        ParentAwaits,
        ChildOwes, Signalling, LoopLabels, Labels, Tasks, FutexA, FutexB
<1>1. ASSUME pc["parent"] \in {"shmat", "init", "store", "wake", "wakeRetry"}
      PROVE  /\ pc["child"] \in {"shmat", "init", "yield", "wait", "waitRetry", "asleep"}
             /\ pc["child"] = "asleep" => "child" \in waiters
  BY <1>1 DEF ChildBorn
<1>2. ASSUME pc["parent"] \in {"yield", "wait", "waitRetry"} \/ "parent" \in waiters
      PROVE  /\ pc["child"] \in {"store", "wake", "wakeRetry", "asleep"}
             /\ "child" \notin waiters
  BY <1>2
<1>3. ASSUME pc["parent"] = "asleep", "parent" \notin waiters
      PROVE  /\ pc["child"] \in {"yield", "wait", "waitRetry", "exiting", "exited"}
             /\ pc["child"] \in {"exiting", "exited"} <=> i["parent"] + 1 = TestCount
  <2>1. i["parent"] + 1 = i["child"] /\ pc["child"] \notin {"store", "wake", "wakeRetry"}
    BY <1>3
  <2>2. pc["child"] # "asleep"
    BY <1>3 DEF WordForSleeper
  <2> QED BY <1>3, <2>1, <2>2
<1>4. ASSUME pc["parent"] \in {"joining", "exited"} PROVE pc["child"] \in {"exiting", "exited"}
  BY <1>4
<1>5. ASSUME pc["parent"] \in {"init_test", "shmget", "fork"} PROVE pc["child"] = "unborn"
  BY <1>5 DEF ChildAfterFork
<1> QED BY <1>1, <1>2, <1>3, <1>4, <1>5

\* No step takes the word away from a sleeper.
LEMMA StepKeepsWord ==
    ASSUME IInv, WordForSleeper, ChildBorn, NEW t \in Tasks, Step(t)
    PROVE  WordForSleeper' /\ ChildBorn'
<1> USE TestCountAssumption DEF IInv, TypeOK, LoopInv, InStep, CountersFit, Signals,
        ParentAwaits,
        ChildOwes, Signalling, LoopLabels, Tasks, FutexA, FutexB, OwnValue, AwaitedValue,
        Goto, futex,
        WordForSleeper, ChildBorn
<1>1. CASE t = "parent" /\ (InitTest \/ Shmget \/ Fork \/ Waitpid)
  BY <1>1 DEF InitTest, Shmget, Tested, Fork, Waitpid
<1>2. CASE t = "child" /\ ChildExit
  BY <1>2 DEF ChildExit
<1>3. CASE Shmat(t)
  BY <1>3 DEF Shmat
<1>4. CASE InitWord(t)
  BY <1>4 DEF InitWord, Store, LoopTop
<1>5. CASE LoopStep(t)
  <2>1. CASE StoreWord(t)
    BY <2>1 DEF StoreWord, Store
  <2>2. CASE Wake(t)
    BY <2>2 DEF Wake, WakeNobody, WakeOne, AfterWake, Iterate, LoopTop, LoopExit
  <2>3. CASE WakeRetry(t) \/ Yield(t) \/ WaitRetry(t)
    BY <2>3 DEF WakeRetry, Yield, WaitRetry
  <2>4. CASE Wait(t)
    BY <2>4 DEF Wait, WaitBlocks, WaitRefused
  <2>5. CASE Woken(t)
    BY <2>5 DEF Woken, AfterWait, Iterate, LoopTop, LoopExit
  <2> QED BY <1>5, <2>1, <2>2, <2>3, <2>4, <2>5 DEF LoopStep
<1> QED BY <1>1, <1>2, <1>3, <1>4, <1>5 DEF Step

\* The step adds to the totals what the numbers of its two states differ by.
Exact ==
    /\ switches' - switches - 6 * (i'["parent"] - i["parent"]) = SwitchesHere' - SwitchesHere
    /\ calls' - calls - 3 * (i'["parent"] - i["parent"]) = CallsHere' - CallsHere

Alive == pc["parent"] \notin {"failed", "crashed"} /\ pc["child"] # "crashed"

LEMMA ParentRunExact ==
    ASSUME IInv, CoreTypeOK, WordForSleeper, ChildBorn, Alive, Alive', Run("parent")
    PROVE  Exact
<1> USE Situations, TestCountAssumption DEF Alive, IInv, TypeOK, CoreTypeOK, Tasks, Labels,
        FutexA, FutexB,
        SwitchesHere, CallsHere, Signalled, LoopLeft, Timed, Runnable, AtYield, Other, Goto,
        futex
<1>1. /\ cpu = "parent" /\ Step("parent")
      /\ GiveCoreTo(IF (AtYield("parent") \/ ~ Runnable("parent")') /\ Runnable("child")'
                    THEN "child" ELSE "parent")
      /\ CountCalls
  BY DEF Run
<1> USE <1>1 DEF GiveCoreTo, CountCalls, Exact
<1>2. CASE InitTest \/ Shmget \/ Fork
  BY <1>2 DEF InitTest, Shmget, Tested, Fork
<1>3. CASE Waitpid
  BY <1>3 DEF Waitpid
<1>4. CASE Shmat("parent") \/ InitWord("parent")
  BY <1>4 DEF Shmat, InitWord, Store, LoopTop
<1>5. CASE StoreWord("parent")
  <2>1. /\ pc["parent"] = "store" /\ pc'["parent"] = "wake" /\ pc'["child"] = pc["child"]
        /\ i' = i /\ waiters' = waiters /\ word' = FutexA
    BY <1>5 DEF StoreWord, Store, OwnValue
  <2>2. cpu' = "parent" /\ switches' = switches /\ calls' = calls
    BY <2>1
  <2> QED BY <2>1, <2>2
<1>6. CASE Wake("parent")
  <2>1. pc["parent"] = "wake" /\ pc'["child"] = pc["child"] /\ i' = i /\ word' = word
    BY <1>6 DEF Wake, WakeNobody, WakeOne, AfterWake
  <2>2. CASE waiters = {} /\ waiters' = {} /\ pc'["parent"] = "wakeRetry"
    <3>1. cpu' = "parent" /\ switches' = switches /\ calls' = calls
      BY <2>1, <2>2
    <3> QED BY <2>1, <2>2, <3>1
  <2>3. CASE (\E s \in waiters : waiters' = waiters \ {s}) /\ pc'["parent"] = "yield"
    <3>1. pc["child"] = "asleep" /\ waiters' = {}
      BY <2>1, <2>3 DEF LoopInv
    <3>2. cpu' = "parent" /\ switches' = switches /\ calls' = calls
      BY <2>1, <2>3, <3>1
    <3> QED BY <2>1, <2>3, <3>1, <3>2
  <2> QED BY <1>6, <2>2, <2>3 DEF Wake, WakeNobody, WakeOne, AfterWake
<1>7. CASE WakeRetry("parent")
  BY <1>7 DEF WakeRetry, LoopInv, OwnValue
<1>8. CASE Yield("parent")
  BY <1>8 DEF Yield
<1>9. CASE Wait("parent")
  <2>1. /\ pc["parent"] = "wait" /\ pc'["child"] = pc["child"] /\ i' = i /\ word' = word
        /\ "child" \notin waiters /\ pc["child"] \in {"store", "wake", "wakeRetry", "asleep"}
    BY <1>9 DEF Wait, WaitBlocks, WaitRefused
  <2>2. CASE word = FutexB /\ waiters' = waiters \cup {"parent"} /\ pc'["parent"] = "asleep"
    <3>1. Runnable("child")' /\ ~ Runnable("parent")'
      BY <2>1, <2>2
    <3>2. cpu' = "child" /\ switches' = switches + 1 /\ calls' = calls + 1
      BY <2>1, <2>2, <3>1
    <3> QED BY <2>1, <2>2, <3>2
  <2>3. CASE word # FutexB /\ waiters' = waiters /\ pc'["parent"] = "waitRetry"
    <3>1. Runnable("parent")'
      BY <2>1, <2>3 DEF LoopInv
    <3>2. cpu' = "parent" /\ switches' = switches /\ calls' = calls + 1
      BY <2>1, <2>3, <3>1
    <3> QED BY <2>1, <2>3, <3>2
  <2> QED BY <1>9, <2>2, <2>3 DEF Wait, WaitBlocks, WaitRefused, AwaitedValue
<1>10. CASE WaitRetry("parent")
  BY <1>10 DEF WaitRetry
<1>11. CASE Woken("parent")
  <2>1. /\ pc["parent"] = "asleep" /\ "parent" \notin waiters /\ pc'["child"] = pc["child"]
        /\ i'["parent"] = i["parent"] + 1 /\ word' = word /\ waiters' = waiters
        /\ i["parent"] \in Nat /\ i["parent"] < TestCount
    BY <1>11 DEF Woken, AfterWait, Iterate, LoopInv, CountersFit, LoopLabels
  <2>2. CASE i["parent"] + 1 = TestCount
    <3>1. pc'["parent"] = "joining" /\ pc["child"] \in {"exiting", "exited"}
      BY <1>11, <2>1, <2>2 DEF Woken, AfterWait, Iterate, LoopTop, LoopExit
    <3>2. CASE pc["child"] = "exiting"
      <4>1. cpu' = "child" /\ switches' = switches + 1 /\ calls' = calls
        BY <2>1, <3>1, <3>2 DEF LoopInv
      <4> QED BY <2>1, <3>1, <3>2, <4>1
    <3>3. CASE pc["child"] = "exited"
      <4>1. cpu' = "parent" /\ switches' = switches /\ calls' = calls
        BY <2>1, <3>1, <3>3
      <4> QED BY <2>1, <3>1, <3>3, <4>1
    <3> QED BY <3>1, <3>2, <3>3
  <2>3. CASE i["parent"] + 1 < TestCount
    <3>1. pc'["parent"] = "store" /\ pc["child"] \in {"yield", "wait", "waitRetry"}
      BY <1>11, <2>1, <2>3 DEF Woken, AfterWait, Iterate, LoopTop, LoopExit
    <3>2. cpu' = "parent" /\ switches' = switches /\ calls' = calls
      BY <2>1, <3>1
    <3> QED BY <2>1, <3>1, <3>2
  <2> QED BY <2>1, <2>2, <2>3
<1> QED BY <1>2, <1>3, <1>4, <1>5, <1>6, <1>7, <1>8, <1>9, <1>10, <1>11 DEF Step, LoopStep

LEMMA ChildRunExact ==
    ASSUME IInv, CoreTypeOK, WordForSleeper, ChildBorn, Alive, Alive', Run("child")
    PROVE  Exact
<1> USE Situations, TestCountAssumption DEF Alive, IInv, TypeOK, CoreTypeOK, Tasks, Labels,
        FutexA, FutexB,
        SwitchesHere, CallsHere, Signalled, LoopLeft, Timed, Runnable, AtYield, Other, Goto,
        futex
<1>1. /\ cpu = "child" /\ Step("child")
      /\ GiveCoreTo(IF (AtYield("child") \/ ~ Runnable("child")') /\ Runnable("parent")'
                    THEN "parent" ELSE "child")
      /\ calls' = calls
  BY DEF Run, CountCalls
<1> USE <1>1 DEF GiveCoreTo, Exact
<1>2. CASE ChildExit
  <2>1. /\ pc["child"] = "exiting" /\ pc'["child"] = "exited" /\ pc'["parent"] = pc["parent"]
        /\ i' = i /\ waiters' = waiters /\ word' = word
    BY <1>2 DEF ChildExit
  <2>2. pc["parent"] \in {"asleep", "joining", "exited"} /\ "parent" \notin waiters
    BY <2>1 DEF LoopInv, CountersFit, ChildBorn
  <2>3. CASE pc["parent"] = "exited"
    BY <2>1, <2>3
  <2>4. CASE pc["parent"] # "exited"
    <3>1. cpu' = "parent" /\ switches' = IF Timed THEN switches + 1 ELSE switches
      BY <2>1, <2>2, <2>4
    <3> QED BY <2>1, <2>2, <2>4, <3>1
  <2> QED BY <2>3, <2>4
<1>3. CASE Shmat("child")
  <2>1. /\ pc["child"] = "shmat" /\ pc'["child"] = "init" /\ pc'["parent"] = pc["parent"]
        /\ i' = i /\ waiters' = waiters /\ word' = word
    BY <1>3 DEF Shmat
  <2>2. cpu' = "child" /\ switches' = switches
    BY <2>1 DEF LoopInv
  <2> QED BY <2>1, <2>2
<1>4. CASE InitWord("child")
  <2>1. /\ pc["child"] = "init" /\ pc'["child"] = "yield" /\ pc'["parent"] = pc["parent"]
        /\ i' = i /\ waiters' = waiters
    BY <1>4 DEF InitWord, Store, LoopTop
  <2>2. cpu' = "child" /\ switches' = switches
    BY <2>1 DEF LoopInv
  <2> QED BY <2>1, <2>2
<1>5. CASE StoreWord("child")
  <2>1. /\ pc["child"] = "store" /\ pc'["child"] = "wake" /\ pc'["parent"] = pc["parent"]
        /\ i' = i /\ waiters' = waiters
    BY <1>5 DEF StoreWord, Store
  <2>2. cpu' = "child" /\ switches' = switches
    BY <2>1 DEF LoopInv
  <2> QED BY <2>1, <2>2
<1>6. CASE Wake("child")
  <2>1. pc["child"] = "wake" /\ pc'["parent"] = pc["parent"] /\ i'["parent"] = i["parent"]
    BY <1>6 DEF Wake, AfterWake, Iterate
  <2>2. CASE waiters' = waiters /\ pc'["child"] = "wakeRetry"
    <3>1. cpu' = "child" /\ switches' = switches
      BY <2>1, <2>2 DEF LoopInv
    <3> QED BY <2>1, <2>2, <3>1
  <2>3. CASE /\ \E s \in waiters : waiters' = waiters \ {s}
             /\ pc'["child"] \in {"yield", "exiting"}
    <3>1. pc["parent"] = "asleep" /\ waiters' = {}
      BY <2>1, <2>3 DEF LoopInv
    <3>2. cpu' = "child" /\ switches' = switches
      BY <2>1, <2>3, <3>1
    <3> QED BY <2>1, <2>3, <3>1, <3>2
  <2> QED BY <1>6, <2>2, <2>3 DEF Wake, WakeNobody, WakeOne, AfterWake, Iterate, LoopTop,
             LoopExit
<1>7. CASE WakeRetry("child")
  <2>1. /\ pc["child"] = "wakeRetry" /\ pc'["child"] = "wake" /\ pc'["parent"] = pc["parent"]
        /\ i' = i /\ waiters' = waiters /\ word' = word /\ word = FutexB
    BY <1>7 DEF WakeRetry, LoopInv, OwnValue
  <2>2. pc["parent"] \in {"yield", "wait", "waitRetry"} \/ "parent" \in waiters
    BY <2>1 DEF LoopInv, InStep, ParentAwaits, ChildOwes, Signalling
  <2>3. CASE "parent" \in waiters
    BY <2>1, <2>3 DEF LoopInv
  <2>4. CASE "parent" \notin waiters
    <3>1. cpu' = "parent" /\ switches' = switches + 1
      BY <2>1, <2>2, <2>4
    <3> QED BY <2>1, <2>2, <2>4, <3>1
  <2> QED BY <2>3, <2>4
<1>8. CASE Yield("child") \/ WaitRetry("child")
  <2>1. /\ pc["child"] \in {"yield", "waitRetry"} /\ pc'["child"] = "wait"
        /\ pc'["parent"] = pc["parent"] /\ i' = i /\ waiters' = waiters /\ word' = word
    BY <1>8 DEF Yield, WaitRetry
  <2>2. /\ pc["parent"] \in {"shmat", "init", "store", "wake", "wakeRetry", "asleep"}
        /\ "parent" \notin waiters
    BY <2>1 DEF LoopInv, CountersFit, ChildBorn
  <2>3. cpu' = "parent" /\ switches' = IF Timed THEN switches + 1 ELSE switches
    BY <2>1, <2>2
  <2> QED BY <2>1, <2>2, <2>3
<1>9. CASE Wait("child")
  <2>1. pc["child"] = "wait" /\ pc'["parent"] = pc["parent"] /\ i' = i /\ word' = word
    BY <1>9 DEF Wait, WaitBlocks, WaitRefused
  <2>2. /\ pc["parent"] \in {"shmat", "init", "store", "wake", "wakeRetry", "asleep"}
        /\ "parent" \notin waiters
    BY <2>1 DEF LoopInv, CountersFit, ChildBorn
  <2>3. CASE word = FutexA /\ waiters' = waiters \cup {"child"} /\ pc'["child"] = "asleep"
    <3>1. pc["parent"] # "asleep"
      BY <2>1, <2>3 DEF WordForSleeper
    <3>2. cpu' = "parent" /\ switches' = IF Timed THEN switches + 1 ELSE switches
      BY <2>1, <2>2, <2>3
    <3> QED BY <2>1, <2>2, <2>3, <3>1, <3>2
  <2>4. CASE word # FutexA /\ waiters' = waiters /\ pc'["child"] = "waitRetry"
    <3>1. cpu' = "child" /\ switches' = switches
      BY <2>1, <2>2, <2>4 DEF LoopInv
    <3> QED BY <2>1, <2>2, <2>4, <3>1
  <2> QED BY <1>9, <2>3, <2>4 DEF Wait, WaitBlocks, WaitRefused, AwaitedValue
<1>10. CASE Woken("child")
  <2>1. /\ pc["child"] = "asleep" /\ "child" \notin waiters /\ pc'["child"] = "store"
        /\ pc'["parent"] = pc["parent"] /\ i' = i /\ waiters' = waiters /\ word' = word
    BY <1>10 DEF Woken, AfterWait
  <2>2. pc["parent"] \in {"yield", "wait", "waitRetry"} \/ "parent" \in waiters
    BY <2>1 DEF LoopInv, InStep, ParentAwaits, ChildOwes
  <2>3. cpu' = "child" /\ switches' = switches
    BY <2>1
  <2>4. "parent" \in waiters => pc["parent"] = "asleep"
    BY DEF LoopInv
  <2> QED BY <2>1, <2>2, <2>3, <2>4
<1> QED BY <1>2, <1>3, <1>4, <1>5, <1>6, <1>7, <1>8, <1>9, <1>10 DEF Step, LoopStep

\* A preemption costs one switch if it is timed, and moves either number by 2 at most.
LEMMA PreemptNear ==
    ASSUME IInv, CoreTypeOK, WordForSleeper, ChildBorn, Alive, Preempt
    PROVE  /\ \E n \in 0..1, d \in -3..3 :
                 /\ switches' = switches + n /\ SwitchesHere' = SwitchesHere + d
                 /\ n - d <= 2 /\ d - n <= 2
           /\ \E d \in -2..2 : CallsHere' = CallsHere + d
<1> USE Situations DEF Alive, IInv, TypeOK, CoreTypeOK, Tasks, Labels, FutexA, FutexB,
        SwitchesHere, CallsHere, Signalled, LoopLeft, Timed, Runnable, Other
<1>1. /\ Runnable("parent") /\ Runnable("child")
      /\ UNCHANGED <<pc, i, word, waiters, calls>>
      /\ \/ cpu = "parent" /\ cpu' = "child"
         \/ cpu = "child" /\ cpu' = "parent"
      /\ switches' = IF Timed THEN switches + 1 ELSE switches
  BY DEF Preempt, GiveCoreTo
<1>2. CASE pc["parent"] \in {"shmat", "init", "store", "wake", "wakeRetry"}
  BY <1>1, <1>2
<1>3. CASE pc["parent"] \in {"yield", "wait", "waitRetry", "asleep"}
  BY <1>1, <1>3
<1>4. CASE pc["parent"] \in {"joining", "exited"}
  BY <1>1, <1>4
<1> QED BY <1>1, <1>2, <1>3, <1>4

\* What is counted is a number.
LEMMA NumbersHere ==
    /\ SwitchesHere \in Int /\ CallsHere \in Int
    /\ SwitchesHere' \in Int /\ CallsHere' \in Int
BY DEF SwitchesHere, CallsHere, Signalled, LoopLeft, Timed

\* Running a process is a step of the program, a preemption is none.
LEMMA CoreSteps ==
    ASSUME CoreNext
    PROVE  \/ \E t \in Tasks : Run(t) /\ Step(t)
           \/ Preempt /\ UNCHANGED vars
BY DEF CoreNext, Run, Preempt, vars

LEMMA CoreInitEstablishes == ASSUME CoreInit PROVE IInv /\ CoreInv
<1>1. IInv
  BY InitEstablishes DEF CoreInit
<1>2. /\ pc["parent"] = "init_test" /\ pc["child"] = "unborn" /\ i["parent"] = 0
      /\ cpu = "parent" /\ switches = 0 /\ calls = 0 /\ preemptions = 0
  BY DEF CoreInit, Init, Tasks
<1>3. SwitchesHere = 0 /\ CallsHere = 0
  BY <1>2 DEF SwitchesHere, CallsHere, Signalled, LoopLeft, Timed
<1> QED BY <1>1, <1>2, <1>3 DEF CoreInv, CoreTypeOK, WordForSleeper, ChildBorn, CostSoFar, Near, Tasks

LEMMA RunPreserves ==
    ASSUME IInv, CoreInv, NEW t \in Tasks, Run(t)
    PROVE  IInv' /\ CoreInv'
<1>1. Step(t) /\ cpu = t /\ preemptions' = preemptions
  BY DEF Run
<1>2. IInv'
  BY <1>1, NextPreserves DEF Next
<1>3. WordForSleeper' /\ ChildBorn'
  BY <1>1, StepKeepsWord DEF CoreInv
<1>4. CoreTypeOK'
  BY DEF CoreInv, CoreTypeOK, Run, GiveCoreTo, CountCalls, Other, Tasks
<1>5. CostSoFar'
  <2>1. SUFFICES ASSUME Alive' PROVE CostSoFar'
    BY DEF CostSoFar, Near, Alive
  <2>2. Alive
    <3>1. pc[t] \notin {"failed", "crashed"}
      BY <1>1 DEF Step, InitTest, Shmget, Tested, Fork, Waitpid, ChildExit, Shmat, InitWord,
         LoopStep,
         StoreWord, Wake, WakeRetry, Yield, Wait, WaitRetry, Woken
    <3>2. CASE t = "parent" /\ Fork
      BY <3>1, <3>2 DEF Fork, IInv, ChildAfterFork, Alive
    <3>3. CASE ~ (t = "parent" /\ Fork)
      <4>1. \A s \in Tasks : s # t => pc'[s] = pc[s]
        BY <1>1, <3>3 DEF Step, InitTest, Shmget, Tested, Waitpid, ChildExit, Shmat,
           InitWord, LoopStep,
           StoreWord, Wake, WakeRetry, Yield, Wait, WaitRetry, Woken, AfterWake, AfterWait,
           Iterate,
           Goto, IInv, TypeOK
      <4> QED BY <2>1, <3>1, <4>1 DEF Alive, Tasks
    <3> QED BY <3>2, <3>3
  <2>3. Exact
    BY <2>1, <2>2, ParentRunExact, ChildRunExact DEF CoreInv, Tasks
  <2>4. /\ SwitchesHere \in Int /\ CallsHere \in Int
        /\ SwitchesHere' \in Int /\ CallsHere' \in Int
    BY NumbersHere
  <2>5. i["parent"] \in Nat /\ i'["parent"] \in Nat
    BY <1>2, TestCountAssumption DEF IInv, TypeOK, Tasks
  <2> QED BY <1>1, <1>4, <2>2, <2>3, <2>4, <2>5 DEF CoreInv, CoreTypeOK, CostSoFar, Near, Exact, Alive
<1> QED BY <1>2, <1>3, <1>4, <1>5 DEF CoreInv

LEMMA PreemptPreserves == ASSUME IInv, CoreInv, Preempt PROVE IInv' /\ CoreInv'
<1>1. /\ UNCHANGED vars /\ UNCHANGED calls /\ preemptions' = preemptions + 1
  BY DEF Preempt, vars
<1>2. IInv'
  BY <1>1, NextPreserves
<1>3. WordForSleeper' /\ ChildBorn' /\ (Alive' <=> Alive)
  BY <1>1 DEF CoreInv, WordForSleeper, ChildBorn, Alive, vars
<1>4. CoreTypeOK'
  BY DEF CoreInv, CoreTypeOK, Preempt, GiveCoreTo, Other, Tasks
<1>5. CostSoFar'
  <2>1. SUFFICES ASSUME Alive PROVE CostSoFar'
    BY <1>3 DEF CostSoFar, Near, Alive
  <2>2. PICK n \in 0..1, d \in -3..3 :
            /\ switches' = switches + n /\ SwitchesHere' = SwitchesHere + d
            /\ n - d <= 2 /\ d - n <= 2
    BY <2>1, PreemptNear DEF CoreInv
  <2>3. PICK e \in -2..2 : CallsHere' = CallsHere + e
    BY <2>1, PreemptNear DEF CoreInv
  <2>4. /\ SwitchesHere \in Int /\ CallsHere \in Int /\ i["parent"] \in Nat /\ i' = i
        /\ preemptions \in Nat /\ switches \in Nat /\ calls \in Nat
    BY <1>1, NumbersHere, TestCountAssumption DEF CoreInv, CoreTypeOK, IInv, TypeOK, Tasks, vars
  <2>5. /\ switches - 6 * i["parent"]
               \in (SwitchesHere - 2 * preemptions)..(SwitchesHere + 2 * preemptions)
        /\ calls - 3 * i["parent"]
               \in (CallsHere - 2 * preemptions)..(CallsHere + 2 * preemptions)
    BY <2>1 DEF CoreInv, CostSoFar, Near, Alive
  <2>6. /\ switches + n - 6 * i["parent"]
               \in (SwitchesHere + d - 2 * (preemptions + 1))
                   ..(SwitchesHere + d + 2 * (preemptions + 1))
        /\ calls - 3 * i["parent"]
               \in (CallsHere + e - 2 * (preemptions + 1))
                   ..(CallsHere + e + 2 * (preemptions + 1))
    BY <2>2, <2>3, <2>4, <2>5
  <2> QED BY <1>1, <2>2, <2>3, <2>4, <2>6 DEF CostSoFar, Near
<1> QED BY <1>2, <1>3, <1>4, <1>5 DEF CoreInv

LEMMA CoreInvariance == CoreSpec => [](IInv /\ CoreInv)
<1>1. CoreInit => IInv /\ CoreInv
  BY CoreInitEstablishes
<1>2. (IInv /\ CoreInv) /\ [CoreNext]_cvars => (IInv /\ CoreInv)'
  <2>1. SUFFICES ASSUME IInv, CoreInv, UNCHANGED cvars PROVE IInv' /\ CoreInv'
    BY RunPreserves, PreemptPreserves DEF CoreNext
  <2>2. IInv'
    BY <2>1, NextPreserves DEF cvars, vars
  <2>3. CoreInv'
    BY <2>1 DEF cvars, CoreInv, CoreTypeOK, WordForSleeper, ChildBorn, CostSoFar, Near,
       SwitchesHere, CallsHere,
       Signalled, LoopLeft, Timed
  <2> QED BY <2>2, <2>3
<1> QED BY <1>1, <1>2, PTL DEF CoreSpec

\* On one core the program does nothing it could not do on two: what is proved of
\* process_context_switch.c holds under init_test's affinity mask.
THEOREM CoreImplementsProgram == CoreSpec => Init /\ [][Next]_vars
<1>1. CoreInit => Init
  BY DEF CoreInit
<1>2. [CoreNext]_cvars => [Next]_vars
  BY CoreSteps DEF Next, cvars, vars
<1> QED BY <1>1, <1>2, PTL DEF CoreSpec

\* Where the parent has left its loop, its numbers are the ones to get going.
LEMMA TotalsAtEnd ==
    ASSUME IInv, CoreInv, LoopLeft
    PROVE  /\ switches \in Near(6 * TestCount + 2)
           /\ calls \in Near(3 * TestCount + 1)
<1>1. Alive /\ i["parent"] = TestCount
  BY TestCountAssumption DEF LoopLeft, Alive, IInv, TypeOK, LoopInv, InStep,
     CountersFit, Signals,
     ParentAwaits, ChildOwes, Signalling, LoopLabels, Labels, Tasks
<1>2. SwitchesHere = 2 /\ CallsHere = 1
  BY DEF SwitchesHere, CallsHere, LoopLeft, Signalled
<1> QED BY <1>1, <1>2, TestCountAssumption DEF CoreInv, CoreTypeOK, CostSoFar, Near, Alive

\* For every PER_PROCESS_TEST_COUNT and every number of preemptions an iteration is
\* 6 context switches, as get_total_context_switches has it for 100000; each
\* preemption moves the total by 2 at most.
THEOREM SixSwitchesPerIteration == CoreSpec => []SwitchesPerIteration
<1>1. IInv /\ CoreInv => SwitchesPerIteration
  BY TotalsAtEnd DEF SwitchesPerIteration
<1> QED BY <1>1, CoreInvariance, PTL

\* And 3 of the parent's sched_yield and FUTEX_WAIT calls, one more than the program
\* subtracts SYSCALL_OVERHEAD for.
THEOREM ThreeSyscallsPerIteration == CoreSpec => []ThreeSyscalls
<1>1. IInv /\ CoreInv => ThreeSyscalls
  BY TotalsAtEnd DEF ThreeSyscalls
<1> QED BY <1>1, CoreInvariance, PTL

-----------------------------------------------------------------------------
(***************************************************************************)
(* thread_context_switch.c, for every PER_THREAD_TEST_COUNT.               *)
(***************************************************************************)
\* Everything a step needs to know of the state before it.
ThreadAfterCreate ==
    pc["parent"] \in {"init_test", "shm", "create"} => pc["child"] = "unborn"

\* FUTEX_WAIT on a bad pointer never puts the thread to sleep.
NoSleepOnBadPointer == ~ mapped => waiters = {}

ThreadInv ==
    /\ ThreadTypeOK
    /\ LoopInv
    /\ ReturnsAfterFullRun
    /\ ThreadAfterCreate
    /\ NoSleepOnBadPointer

LEMMA ThreadLoopTypes == ASSUME ThreadTypeOK PROVE LoopTypeOK
BY DEF ThreadTypeOK, LoopTypeOK

\* main starts in the invariant: nothing is signalled, nobody is in the loop.
LEMMA ThreadInitEstablishes == ASSUME ThreadInit PROVE ThreadInv
<1>1. mapped \in BOOLEAN
  BY DEF ThreadInit
<1> QED
  BY <1>1, TestCountAssumption DEF ThreadInit, ThreadInv, ThreadTypeOK, LoopInv,
     ReturnsAfterFullRun,
     ThreadAfterCreate, NoSleepOnBadPointer, InStep, CountersFit, Signals,
     ParentAwaits, ChildOwes, Signalling, LoopLabels, ThreadLabels, Tasks, FreshWord

\* The statements outside the loop, and thread()'s failing FUTEX_WAIT on a bad
\* pointer, leave both counts of hand-offs alone.
LEMMA ThreadOutsideStepPreserves ==
    ASSUME ThreadInv,
           \/ MainInitTest \/ ShmgetShmat \/ PthreadCreate \/ MainInitWord \/ MainReturn
           \/ WaitBadPointer \/ ThreadReturn
    PROVE  ThreadInv' /\ \A t \in Tasks : Signals(t)' = Signals(t)
<1> USE TestCountAssumption DEF ThreadInv, ThreadTypeOK, LoopInv, ReturnsAfterFullRun,
        ThreadAfterCreate, NoSleepOnBadPointer, InStep, CountersFit, Signals,
        ParentAwaits, ChildOwes, Signalling, LoopLabels, ThreadLabels, Tasks, FutexA,
        FutexB, FreshWord, futex,
        Goto, OwnValue
<1>1. CASE MainInitTest
  BY <1>1 DEF MainInitTest
<1>2. CASE ShmgetShmat
  BY <1>2 DEF ShmgetShmat
<1>3. CASE PthreadCreate
  BY <1>3 DEF PthreadCreate, LoopTop
<1>4. CASE MainInitWord
  <2>1. i["parent"] = 0 /\ i["child"] = 0
    BY <1>4 DEF MainInitWord
  <2>0. ~ Signalling("child")
    BY <1>4 DEF MainInitWord
  <2>2. CASE mapped
    <3>1. word' = FutexA /\ waiters' = waiters /\ i' = i /\ mapped' = mapped
      BY <1>4, <2>2 DEF MainInitWord, Store
    <3>2. pc["parent"] = "init" /\ pc' = [pc EXCEPT !["parent"] = "store"]
      BY <1>4, <2>2 DEF MainInitWord, LoopTop
    <3> QED BY <2>0, <2>1, <3>1, <3>2
  <2>3. CASE ~ mapped
    <3>1. /\ pc["parent"] = "init" /\ pc' = [t \in Tasks |-> "crashed"]
          /\ waiters = {} /\ waiters' = {} /\ word' = word
          /\ i' = i /\ mapped' = mapped
      BY <1>4, <2>3 DEF MainInitWord
    <3> QED BY <2>1, <3>1
  <2> QED BY <2>2, <2>3
<1>5. CASE MainReturn
  <2>1. i["parent"] = TestCount /\ i["child"] = TestCount
    BY <1>5 DEF MainReturn
  <2> QED BY <1>5, <2>1 DEF MainReturn
<1>6. CASE WaitBadPointer
  BY <1>6 DEF WaitBadPointer
<1>7. CASE ThreadReturn
  BY <1>7 DEF ThreadReturn
<1> QED BY <1>1, <1>2, <1>3, <1>4, <1>5, <1>6, <1>7

\* The statements of the loop body, of either thread.
LEMMA ThreadLoopStepPreserves ==
    ASSUME ThreadInv, NEW t \in Tasks, Loop(t) \/ (Restarted(t) /\ UNCHANGED mapped)
    PROVE  ThreadInv'
<1>0. (LoopStep(t) \/ Restarted(t)) /\ UNCHANGED mapped
  BY DEF Loop
<1>1. LoopTypeOK /\ LoopInv
  BY ThreadLoopTypes DEF ThreadInv
<1>2. LoopInv'
  BY <1>0, <1>1, LoopStepPreservesLoopInv
<1>3. /\ i' \in [Tasks -> 0..TestCount]
      /\ waiters' \subseteq Tasks
      /\ word' \in {word, FutexA, FutexB}
      /\ pc[t] \in LoopLabels
  BY <1>0, <1>1, LoopStepTypes
<1>4. PICK label \in LoopLabels \cup {"joining", "exiting"} : Goto(t, label)
  BY <1>0, <1>1, LoopStepTypes
<1>5. ThreadTypeOK'
  BY <1>0, <1>3, <1>4 DEF ThreadInv, ThreadTypeOK, Goto, LoopLabels, ThreadLabels
<1>6. ThreadAfterCreate'
  BY <1>3, <1>4 DEF ThreadInv, ThreadTypeOK, ThreadAfterCreate, Goto, LoopLabels, Tasks
<1>7. ReturnsAfterFullRun'
  <2>1. i[t] < TestCount
    BY <1>1, <1>3 DEF LoopInv, CountersFit
  <2>2. ASSUME pc'["parent"] = "exited" PROVE FALSE
    BY <1>3, <1>4, <2>1, <2>2, TestCountAssumption
       DEF ThreadInv, ThreadTypeOK, ReturnsAfterFullRun, Goto, LoopLabels, Tasks
  <2> QED BY <2>2 DEF ReturnsAfterFullRun
<1>8. NoSleepOnBadPointer'
  <2>1. CASE Wait(t)
    BY <1>0, <2>1 DEF Loop, Wait, Restarted, RestartWait, ThreadInv, NoSleepOnBadPointer
  <2>2. CASE ~ Wait(t)
    <3>1. waiters' \subseteq waiters
      BY <1>0, <2>2 DEF LoopStep, StoreWord, Store, Wake, WakeOne, WakeNobody,
         WakeRetry, Yield, WaitRetry, Woken, Restarted, RestartWait, futex
    <3> QED BY <1>0, <3>1 DEF ThreadInv, NoSleepOnBadPointer
  <2> QED BY <2>1, <2>2
<1> QED BY <1>2, <1>5, <1>6, <1>7, <1>8 DEF ThreadInv

\* Every step of the program preserves the inductive invariant.
LEMMA ThreadNextPreserves == ASSUME ThreadInv, [ThreadNext]_tvars PROVE ThreadInv'
<1>1. ASSUME NEW t \in Tasks, ThreadStep(t) PROVE ThreadInv'
  BY <1>1, ThreadOutsideStepPreserves, ThreadLoopStepPreserves DEF ThreadStep
<1>2. ASSUME NEW t \in Tasks, Restarted(t), UNCHANGED mapped PROVE ThreadInv'
  BY <1>2, ThreadLoopStepPreserves
<1>3. CASE UNCHANGED tvars
  BY <1>3 DEF tvars, ThreadInv, ThreadTypeOK, LoopInv, ReturnsAfterFullRun, ThreadAfterCreate,
     NoSleepOnBadPointer, InStep, CountersFit, Signals, ParentAwaits, ChildOwes, Signalling
<1> QED BY <1>1, <1>2, <1>3 DEF ThreadNext

\* The inductive invariant holds in every reachable state.
THEOREM ThreadInvariance == ThreadSpec => []ThreadInv
<1>1. ThreadInit => ThreadInv
  BY ThreadInitEstablishes
<1>2. ThreadInv /\ [ThreadNext]_tvars => ThreadInv'
  BY ThreadNextPreserves
<1> QED BY <1>1, <1>2, PTL DEF ThreadSpec

\* Types, for any number of iterations.
THEOREM ThreadTypeCorrect == ThreadSpec => []ThreadTypeOK
<1>1. ThreadInv => ThreadTypeOK
  BY DEF ThreadInv
<1> QED BY <1>1, ThreadInvariance, PTL

\* main and thread() never write the word at the same time once both are in
\* their loops, although thread() starts before main has initialised it.
THEOREM ThreadWritesExclude == ThreadSpec => []OneWriterAtATime
<1>1. ThreadInv => OneWriterAtATime
  BY ThreadLoopTypes, LoopInvSafe DEF ThreadInv
<1> QED BY <1>1, ThreadInvariance, PTL

\* A thread asleep in FUTEX_WAIT always has a peer that has still to wake it.
THEOREM ThreadNoLostWakeup == ThreadSpec => []SleeperHasWaker
<1>1. ThreadInv => SleeperHasWaker
  BY ThreadLoopTypes, LoopInvSafe DEF ThreadInv
<1> QED BY <1>1, ThreadInvariance, PTL

\* main's unjoined return happens only after both loops have run in full.
THEOREM ThreadFullRunReported == ThreadSpec => []ReturnsAfterFullRun
<1>1. ThreadInv => ReturnsAfterFullRun
  BY DEF ThreadInv
<1> QED BY <1>1, ThreadInvariance, PTL

\* The program implements the abstract hand-off.
THEOREM ThreadRefinement == ThreadSpec => StrictAlternation
<1> DEFINE sig == [t \in Tasks |-> Signals(t)]
<1>1. ThreadInit => Alternating!AInit
  BY DEF ThreadInit, Alternating!AInit, Signals, Tasks
<1>2. ThreadInv /\ [ThreadNext]_tvars => [Alternating!ANext]_sig
  <2> SUFFICES ASSUME ThreadInv, [ThreadNext]_tvars PROVE [Alternating!ANext]_sig
    OBVIOUS
  <2>1. LoopTypeOK /\ LoopInv
    BY ThreadLoopTypes DEF ThreadInv
  <2>2. ASSUME NEW t \in Tasks, LoopStep(t) \/ Restarted(t)
        PROVE  [Alternating!ANext]_sig
    BY <2>1, <2>2, LoopStepAlternates
  <2>3. ASSUME \A t \in Tasks : Signals(t)' = Signals(t)
        PROVE  sig' = sig
    BY <2>3
  <2>4. ASSUME NEW t \in Tasks, ThreadStep(t), ~ LoopStep(t)
        PROVE  \A s \in Tasks : Signals(s)' = Signals(s)
    BY <2>4, ThreadOutsideStepPreserves DEF ThreadStep, Loop
  <2>5. CASE UNCHANGED tvars
    BY <2>3, <2>5 DEF tvars, Signals
  <2> QED BY <2>2, <2>3, <2>4, <2>5 DEF ThreadNext
<1> QED
  BY <1>1, <1>2, ThreadInvariance, PTL DEF ThreadSpec, StrictAlternation, Alternating!ASpec
================================================================================
