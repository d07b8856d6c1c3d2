------------------------ MODULE FileContention_proofs ------------------------
(***************************************************************************)
(* file_contention.c, for every NUM_THREADS.                               *)
(***************************************************************************)
EXTENDS FileContention, TLAPS

\* main's own statements preserve the invariant.
LEMMA MainStepPreserves == ASSUME IInv, MainStep PROVE IInv'
<1> USE NumThreadsAssumption DEF IInv, TypeOK, ThreadsInOrder, NewestThread, ArrivalsCounted, BatonHeld,
        AfterLoop, OwnFile, LoopLabels, MainLabels, PreparingLabels, ReadyLabels,
        Threads, Tasks, Main, Unset, Goto, Die, BarrierCount,
        BarrierReleased, BarrierLeave
<1>0. glibc' = glibc
  BY DEF MainStep
<1>1. CASE InitTest
  BY <1>0, <1>1 DEF InitTest, Asserted
<1>2. CASE WriteTestFile
  BY <1>0, <1>2 DEF WriteTestFile, Asserted
<1>3. CASE OpenTestFile
  BY <1>0, <1>3 DEF OpenTestFile, Asserted
<1>4. CASE MakeBaton
  BY <1>0, <1>4 DEF MakeBaton, BarrierInit
<1>5. CASE PthreadCreate
  BY <1>0, <1>5 DEF PthreadCreate
<1>6. CASE MainBarrier
  BY <1>0, <1>6 DEF MainBarrier, BarrierWait
<1>7. CASE MainLeaves
  BY <1>0, <1>7 DEF MainLeaves
<1>8. CASE Measure
  BY <1>0, <1>8 DEF Measure
<1>9. CASE CloseAndReturn
  BY <1>0, <1>9 DEF CloseAndReturn
<1> QED
  BY <1>1, <1>2, <1>3, <1>4, <1>5, <1>6, <1>7, <1>8, <1>9 DEF MainStep

\* A child's statements preserve it: a child that is setting up is the newest
\* one, and main is at or inside the barrier of this iteration.
LEMMA ChildStepPreserves ==
    ASSUME IInv, NEW t \in Threads, ChildStep(t) PROVE IInv'
<1> USE NumThreadsAssumption DEF IInv, TypeOK, ThreadsInOrder, NewestThread, ArrivalsCounted, BatonHeld,
        AfterLoop, OwnFile, LoopLabels, MainLabels, PreparingLabels, ReadyLabels,
        Threads, Tasks, Main, Unset, Goto, Die, BarrierCount,
        BarrierReleased, BarrierLeave
<1>0. glibc' = glibc
  BY DEF ChildStep
<1>1. ASSUME pc[t] \in PreparingLabels
      PROVE  t = k /\ pc[Main] \in {"barrier", "waiting"}
  BY <1>1 DEF ChildStep, Alive
<1>2. CASE NameFile(t)
  BY <1>0, <1>1, <1>2 DEF NameFile
<1>3. CASE WriteFile(t)
  BY <1>0, <1>1, <1>3 DEF WriteFile, ChildCall
<1>4. CASE Memalign(t)
  BY <1>0, <1>1, <1>4 DEF Memalign, ChildCall
<1>5. CASE OpenFile(t)
  BY <1>0, <1>1, <1>5 DEF OpenFile, ChildCall
<1>6. CASE ChildBarrier(t)
  BY <1>0, <1>1, <1>6 DEF ChildBarrier, BarrierWait
<1>7. CASE ChildLeaves(t)
  BY <1>0, <1>7 DEF ChildLeaves
<1> QED
  BY <1>2, <1>3, <1>4, <1>5, <1>6, <1>7 DEF ChildStep

\* The inductive invariant holds in every reachable state.
THEOREM Invariance == Spec => []IInv
<1>1. Init => IInv
  <2> SUFFICES ASSUME Init PROVE IInv
    OBVIOUS
  <2>1. pc[Main] = "init_test" /\ k = 0 /\ in = 0
    BY NumThreadsAssumption DEF Init, Tasks, Main
  <2>2. ASSUME NEW t \in Threads PROVE pc[t] = "unborn" /\ fileId[t] = Unset
    BY NumThreadsAssumption DEF Init, Threads, Tasks, Main
  <2>3. /\ pc \in [Tasks -> {"init_test", "unborn"}]
        /\ fileId \in [Threads -> {Unset}]
        /\ batonId = Unset /\ glibc \in {"old", "new"}
    BY DEF Init
  <2>4. TypeOK
    BY <2>1, <2>3, NumThreadsAssumption DEF TypeOK, MainLabels, BarrierCount
  <2>5. ThreadsInOrder /\ NewestThread /\ ArrivalsCounted /\ BatonHeld /\ AfterLoop /\ OwnFile
    BY <2>1, <2>2, NumThreadsAssumption DEF ThreadsInOrder, NewestThread, ArrivalsCounted, BatonHeld,
       AfterLoop, OwnFile, LoopLabels, Threads
  <2> QED BY <2>4, <2>5 DEF IInv
<1>2. IInv /\ [Next]_vars => IInv'
  <2>1. ASSUME IInv, Next PROVE IInv'
    BY <2>1, MainStepPreserves, ChildStepPreserves DEF Next
  <2>2. ASSUME IInv, UNCHANGED vars PROVE IInv'
    BY <2>2 DEF vars, IInv, TypeOK, ThreadsInOrder, NewestThread, ArrivalsCounted, BatonHeld,
       AfterLoop, OwnFile
  <2> QED BY <2>1, <2>2
<1> QED BY <1>1, <1>2, PTL DEF Spec

\* Types; in particular the loop counter stays within threads[NUM_THREADS].
THEOREM TypeCorrect == Spec => []TypeOK
<1>1. IInv => TypeOK
  BY DEF IInv
<1> QED BY <1>1, Invariance, PTL

\* Main measures with k+1 threads only when all k+1 have opened their files.
THEOREM MeasuresAfterSetUp == Spec => []SetUpBeforeMeasure
<1>1. IInv => SetUpBeforeMeasure
  BY NumThreadsAssumption DEF IInv, TypeOK, ThreadsInOrder, NewestThread, LoopLabels,
     SetUpBeforeMeasure, Threads
<1> QED BY <1>1, Invariance, PTL

\* The baton in main's frame is read before it is overwritten.
THEOREM BatonReadInTime == Spec => []OwnFile
<1>1. IInv => OwnFile
  BY DEF IInv
<1> QED BY <1>1, Invariance, PTL
\* Since glibc 2.25 main and its newest thread never both wait for each other.
THEOREM NobodyStranded == Spec => []ArrivalsMeet
<1>1. IInv => ArrivalsMeet
  BY DEF IInv, ArrivalsCounted, ArrivalsMeet
<1> QED BY <1>1, Invariance, PTL
==============================================================================
