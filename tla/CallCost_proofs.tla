--------------------------- MODULE CallCost_proofs ---------------------------
(***************************************************************************)
(* The programs that time single calls: futex_wait.c and futex_wake.c, for *)
(* every number of calls, and clock_gettime.c with get_median, for every   *)
(* even size of the array, every number of clocks and every set of         *)
(* samples.                                                                *)
(***************************************************************************)
EXTENDS FutexCost, ClockMedian, TLAPS

-----------------------------------------------------------------------------
(***************************************************************************)
(* futex_wait.c and futex_wake.c                                           *)
(***************************************************************************)
LEMMA InitEstablishes == ASSUME Init PROVE IInv
BY TestCountAssumption DEF Init, IInv, TypeOK, Initialised, Counter, Tasks, FreshWord

\* A call that returns: the parent's loop counts it, the child's does not.
LEMMA ReturnCounts ==
    ASSUME IInv, NEW t \in Tasks, pc[t] \in {"call", "asleep"}, Return(t)
    PROVE  /\ i' \in 0..TestCount
           /\ \E label \in {"call", "waitpid"} :
                 /\ pc' = [pc EXCEPT ![t] = label]
                 /\ label = "waitpid" => t = "parent"
                 /\ i' < TestCount \/ pc["parent"] \in {"waitpid", "exited"}
                        \/ (t = "parent" /\ label = "waitpid")
<1>1. CASE t = "child"
  BY <1>1 DEF Return, Goto, IInv, TypeOK, Counter
<1>2. CASE t = "parent"
  <2>1. i \in Nat /\ i < TestCount /\ i' = i + 1
    BY <1>2, TestCountAssumption DEF Return, IInv, TypeOK, Counter
  <2>2. pc' = [pc EXCEPT !["parent"] = IF i + 1 < TestCount THEN "call" ELSE "waitpid"]
    BY <1>2 DEF Return, Goto
  <2>3. CASE i + 1 < TestCount
    BY <1>2, <2>1, <2>2, <2>3, TestCountAssumption
  <2>4. CASE ~ (i + 1 < TestCount)
    BY <1>2, <2>1, <2>2, <2>4, TestCountAssumption
  <2> QED BY <2>3, <2>4
<1> QED BY <1>1, <1>2 DEF Tasks

LEMMA StepPreserves == ASSUME IInv, NEW t \in Tasks, Step(t) PROVE IInv'
<1> USE TestCountAssumption DEF IInv, TypeOK, Initialised, Counter, Tasks, Goto, futex,
        FutexA, FreshWord,
        Caller
<1>1. CASE t = "parent" /\ (Shmget \/ Fork \/ Waitpid)
  <2>1. program' = program /\ i' = i /\ waiters' = waiters /\ word' = word
    BY <1>1 DEF Step, Shmget, Fork, Waitpid
  <2>2. CASE Shmget
    BY <2>1, <2>2 DEF Shmget
  <2>3. CASE Fork
    BY <2>1, <2>3 DEF Fork
  <2>4. CASE Waitpid
    BY <2>1, <2>4 DEF Waitpid
  <2> QED BY <1>1, <2>2, <2>3, <2>4
<1>2. CASE Shmat(t) \/ SetCpu(t)
  <2>1. program' = program /\ i' = i /\ waiters' = waiters /\ word' = word
    BY <1>2 DEF Step, Shmat, SetCpu
  <2>2. CASE Shmat(t)
    BY <2>1, <2>2 DEF Shmat
  <2>3. CASE SetCpu(t)
    BY <2>1, <2>3 DEF SetCpu
  <2> QED BY <1>2, <2>2, <2>3
<1>3. CASE InitWord(t)
  BY <1>3 DEF Step, InitWord, Store
<1>4. CASE CallWait(t)
  <2>1. word = FutexA /\ pc[t] = "call" /\ t = Caller("FUTEX_WAIT")
    BY <1>4 DEF CallWait
  <2>2. /\ waiters' = waiters \cup {t} /\ word' = word /\ pc' = [pc EXCEPT ![t] = "asleep"]
        /\ i' = i /\ program' = program
    BY <1>4, <2>1 DEF Step, CallWait, WaitBlocks, WaitRefused
  <2> QED BY <2>1, <2>2
<1>5. CASE Woken(t) \/ CallWake(t)
  <2>1. /\ pc[t] \in {"call", "asleep"} /\ Return(t) /\ word' = word
        /\ waiters' \subseteq waiters /\ program' = program
    BY <1>5 DEF Step, Woken, CallWake, WakeOne, WakeNobody
  <2>2. i' \in 0..TestCount
    BY <2>1, ReturnCounts
  <2>3. PICK label \in {"call", "waitpid"} :
            /\ pc' = [pc EXCEPT ![t] = label]
            /\ label = "waitpid" => t = "parent"
            /\ i' < TestCount \/ pc["parent"] \in {"waitpid", "exited"}
                   \/ (t = "parent" /\ label = "waitpid")
    BY <2>1, ReturnCounts
  <2>4. TypeOK'
    BY <2>1, <2>2, <2>3
  <2>5. Initialised' /\ Counter'
    BY <2>1, <2>3
  <2> QED BY <2>4, <2>5
<1> QED BY <1>1, <1>2, <1>3, <1>4, <1>5 DEF Step

LEMMA Invariance == Spec => []IInv
<1>1. IInv /\ [Next]_vars => IInv'
  <2>1. SUFFICES ASSUME IInv, UNCHANGED vars PROVE IInv'
    BY StepPreserves DEF Next
  <2> QED BY <2>1 DEF vars, IInv, TypeOK, Initialised, Counter, Caller
<1> QED BY InitEstablishes, <1>1, PTL DEF Spec

\* Types, for any number of calls: the parent's counter stops at TEST_COUNT_PER_PROCESS
\* and only the process that makes FUTEX_WAIT calls is ever blocked.
THEOREM TypeCorrect == Spec => []TypeOK
<1>1. IInv => TypeOK
  BY DEF IInv
<1> QED BY Invariance, <1>1, PTL

\* No FUTEX_WAIT of either program fails for the value of the word, in whatever order
\* the two processes initialise it and start calling.
THEOREM WaitsNeverRefused == Spec => []EveryWaitBlocks
<1>1. IInv => EveryWaitBlocks
  BY DEF IInv, Initialised, EveryWaitBlocks, Caller, Tasks
<1> QED BY Invariance, <1>1, PTL

-----------------------------------------------------------------------------
(***************************************************************************)
(* clock_gettime.c and get_median                                          *)
(***************************************************************************)
LEMMA ArrayIndices ==
    /\ Half \in Nat /\ Half >= 2 /\ ArraySize \in Nat /\ ArraySize = 2 * Half
    /\ \A n : n \in Indices <=> (n \in Nat /\ n < ArraySize)
    /\ Half \in Indices /\ Half + 1 \in Indices /\ 0 \in Indices
BY HalfAssumption DEF ArraySize, Indices

LEMMA SamplesAreDoubles == Samples \subseteq Doubles
<1>1. 0..IntMax \subseteq Ints
  BY SamplesAssumption DEF Ints
<1> QED BY <1>1, SamplesAssumption DEF Doubles

\* The words qsort sees are those of the lower half, and words of doubles.
LEMMA WordsAreInts ==
    ASSUME MedianTypeOK, NEW n \in Indices
    PROVE  Word(n) \in Ints
<1>1. n \div 2 \in Indices
  BY ArrayIndices
<1>2. array[n \div 2] \in Doubles
  BY <1>1 DEF MedianTypeOK
<1> QED BY <1>2 DEF Word, Doubles

LEMMA QsortPreserves == ASSUME MedianInv, Qsort PROVE MedianInv'
<1>1. PICK p \in Arrangements :
          array' = [n \in Indices |->
                       IF n < Half
                       THEN [lo |-> Word(p[2 * n]), hi |-> Word(p[2 * n + 1])]
                       ELSE array[n]]
  BY DEF Qsort
<1>2. p \in [Indices -> Indices]
  BY DEF Arrangements
<1>3. ASSUME NEW n \in Indices
      PROVE  array'[n] \in Doubles /\ (n >= Half => array'[n] = array[n])
  <2>1. CASE n < Half
    <3>1. 2 * n \in Indices /\ 2 * n + 1 \in Indices
      BY <2>1, ArrayIndices
    <3>2. Word(p[2 * n]) \in Ints /\ Word(p[2 * n + 1]) \in Ints
      BY <1>2, <3>1, WordsAreInts DEF MedianInv
    <3> QED BY <1>1, <2>1, <3>2, ArrayIndices DEF Doubles
  <2>2. CASE ~ (n < Half)
    BY <1>1, <2>2 DEF MedianInv, MedianTypeOK
  <2> QED BY <2>1, <2>2
<1>4. array' \in [Indices -> Doubles]
  BY <1>1, <1>3
<1>5. mpc' = "middle" /\ UNCHANGED <<clock, idx, taken, results>>
  BY DEF Qsort
<1> QED BY <1>3, <1>4, <1>5 DEF MedianInv, MedianTypeOK, UpperHalfKept

LEMMA SamplePreserves == ASSUME MedianInv, Sample PROVE MedianInv'
<1>1. mpc = "sample" /\ UNCHANGED <<clock, results>> /\ idx \in Indices
  <2>1. mpc = "sample" /\ UNCHANGED <<clock, results>>
    BY DEF Sample
  <2>2. idx \in 0..ArraySize /\ idx < ArraySize
    BY <2>1 DEF MedianInv, MedianTypeOK
  <2> QED BY <2>1, <2>2, ArrayIndices
<1>2. CASE mpc' = "failed" /\ UNCHANGED <<idx, array, taken>>
  BY <1>1, <1>2 DEF MedianInv, MedianTypeOK, UpperHalfKept
<1>3. ASSUME NEW s \in Samples, array' = [array EXCEPT ![idx] = s],
             taken' = [taken EXCEPT ![idx] = s],
             idx' = idx + 1, mpc' = IF idx + 1 < ArraySize THEN "sample" ELSE "get_median"
      PROVE  MedianInv'
  <2>1. array' \in [Indices -> Doubles] /\ taken' \in [Indices -> Samples]
    BY <1>3, SamplesAreDoubles DEF MedianInv, MedianTypeOK
  <2>2. UpperHalfKept'
    BY <1>1, <1>3 DEF MedianInv, MedianTypeOK, UpperHalfKept
  <2>3. /\ idx' \in 0..ArraySize /\ (mpc' = "sample" => idx' < ArraySize)
        /\ mpc' \in {"sample", "get_median"}
    BY <1>1, <1>3, ArrayIndices
  <2> QED BY <1>1, <2>1, <2>2, <2>3 DEF MedianInv, MedianTypeOK
<1> QED BY <1>2, <1>3 DEF Sample

LEMMA MedianInvariance == MedianSpec => []MedianInv
<1>1. MedianInit => MedianInv
  BY ArrayIndices, ClocksAssumption, SamplesAreDoubles
     DEF MedianInit, MedianInv, MedianTypeOK, UpperHalfKept
<1>2. MedianInv /\ [MedianNext]_mvars => MedianInv'
  <2>1. SUFFICES ASSUME MedianInv, [MedianNext]_mvars PROVE MedianInv'
    OBVIOUS
  <2>2. CASE MedianInitTest
    BY <2>1, <2>2, ArrayIndices DEF MedianInitTest, MedianInv, MedianTypeOK, UpperHalfKept
  <2>3. CASE ReadMiddle
    BY <2>1, <2>3, ArrayIndices DEF ReadMiddle, MedianInv, MedianTypeOK, UpperHalfKept
  <2>4. CASE NextClock
    BY <2>1, <2>4, ArrayIndices, ClocksAssumption DEF NextClock, MedianInv, MedianTypeOK,
       UpperHalfKept
  <2>5. CASE UNCHANGED mvars
    BY <2>1, <2>5 DEF mvars, MedianInv, MedianTypeOK, UpperHalfKept
  <2> QED BY <2>1, <2>2, <2>3, <2>4, <2>5, SamplePreserves, QsortPreserves DEF MedianNext
<1> QED BY <1>1, <1>2, PTL DEF MedianSpec

\* Whatever the misdirected qsort makes of the array, for every even array_size the
\* mean get_median returns is that of two samples of the clock just measured.
THEOREM MedianOfSamples == MedianSpec => []ResultsAreSamples
<1>1. MedianInv => ResultsAreSamples
  BY ArrayIndices DEF MedianInv, UpperHalfKept, ResultsAreSamples
<1> QED BY MedianInvariance, <1>1, PTL
==============================================================================
