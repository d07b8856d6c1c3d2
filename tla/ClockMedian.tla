----------------------------- MODULE ClockMedian -----------------------------
(***************************************************************************)
(* clock_gettime.c and get_median of common.c: for one clock after the     *)
(* other, an array of doubles is filled with samples and its median is     *)
(* printed.  get_median sorts with qsort(a, n, sizeof(int), ...): it tells *)
(* qsort that the array consists of n ints, while each of its n doubles    *)
(* is two of them.  A double is therefore modelled by its two words; the   *)
(* order of non-negative doubles is that of (hi, lo).                      *)
(***************************************************************************)
EXTENDS Integers

CONSTANTS Half,      \* half of CLOCK_TEST_COUNT
          Clocks,    \* how many clocks are measured
          Samples,   \* the doubles a sample may be, as records [lo, hi]
          IntMax     \* INT_MAX, scaled

Ints == (-IntMax - 1)..IntMax

ASSUME HalfAssumption == Half \in Nat /\ Half >= 2
ASSUME ClocksAssumption == Clocks \in Nat \ {0}
ASSUME SamplesAssumption ==
    IntMax \in Nat /\ Samples # {} /\ Samples \subseteq [lo : Ints, hi : 0..IntMax]

\* "Currently assuming array_size will always be even"
ArraySize == 2 * Half
Indices == 0..(ArraySize - 1)

VARIABLES mpc,
          clock,    \* which clock is being measured
          idx,      \* result_array_idx
          array,    \* result_array
          taken,    \* the samples of this clock as they were taken (history)
          results   \* result_1 and result_2, whose mean get_median returns

mvars == <<mpc, clock, idx, array, taken, results>>

\* result_array is not initialised.
MedianInit ==
    /\ mpc = "init_test"
    /\ clock = 1
    /\ idx = 0
    /\ array \in [Indices -> Samples]
    /\ taken = array
    /\ results = <<array[0], array[0]>>

MedianInitTest ==
    /\ mpc = "init_test"
    /\ mpc' \in {"sample", "failed"}
    /\ UNCHANGED <<clock, idx, array, taken, results>>

\* Two readings of the clock; a failing one ends the program.
Sample ==
    /\ mpc = "sample"
    /\ \/ /\ \E s \in Samples :
                /\ array' = [array EXCEPT ![idx] = s]
                /\ taken' = [taken EXCEPT ![idx] = s]
          /\ idx' = idx + 1
          /\ mpc' = IF idx + 1 < ArraySize THEN "sample" ELSE "get_median"
       \/ /\ mpc' = "failed"
          /\ UNCHANGED <<idx, array, taken>>
    /\ UNCHANGED <<clock, results>>

-----------------------------------------------------------------------------
(***************************************************************************)
(* get_median                                                              *)
(***************************************************************************)
\* The array as qsort sees it: ArraySize ints, the words of its first half.
Word(n) == IF n % 2 = 0 THEN array[n \div 2].lo ELSE array[n \div 2].hi

\* compare_function subtracts: it orders ints only if no difference overflows.
Ordered == \A m, n \in Indices : Word(m) - Word(n) \in Ints

\* The permutations qsort may leave the words in: the ascending ones, or any at
\* all when a comparison overflows.
Arrangements ==
    {p \in [Indices -> Indices] :
        /\ \A m, n \in Indices : p[m] = p[n] => m = n
        /\ Ordered => \A m, n \in Indices : m < n => Word(p[m]) <= Word(p[n])}

Qsort ==
    /\ mpc = "get_median"
    /\ \E p \in Arrangements :
          array' = [n \in Indices |->
                       IF n < Half
                       THEN [lo |-> Word(p[2 * n]), hi |-> Word(p[2 * n + 1])]
                       ELSE array[n]]
    /\ mpc' = "middle"
    /\ UNCHANGED <<clock, idx, taken, results>>

\* Faulty variant: the usual indices of the two middle elements.
ReadMiddleBelow ==
    /\ mpc = "middle"
    /\ results' = <<array[Half - 1], array[Half]>>
    /\ mpc' = "printed"
    /\ UNCHANGED <<clock, idx, array, taken>>

ReadMiddle ==
    /\ mpc = "middle"
    /\ results' = <<array[Half], array[Half + 1]>>
    /\ mpc' = "printed"
    /\ UNCHANGED <<clock, idx, array, taken>>

\* The next clock fills the same array again.
NextClock ==
    /\ mpc = "printed"
    /\ \/ clock < Clocks /\ clock' = clock + 1 /\ idx' = 0 /\ mpc' = "sample"
       \/ clock = Clocks /\ mpc' = "exited" /\ UNCHANGED <<clock, idx>>
    /\ UNCHANGED <<array, taken, results>>

MedianNext == MedianInitTest \/ Sample \/ Qsort \/ ReadMiddle \/ NextClock

MedianSpec == MedianInit /\ [][MedianNext]_mvars
-----------------------------------------------------------------------------
Doubles == [lo : Ints, hi : Ints]

\* For all that the sort does to the array, the two elements get_median takes
\* the mean of are two samples of this clock, unaltered: the indices n/2 and
\* n/2 + 1 are the first that lie past the words qsort moves around.  (With the
\* usual n/2 - 1 the printed value could be a double made of two others.)
ResultsAreSamples ==
    mpc = "printed" =>
        \E m, n \in Indices : m # n /\ results = <<taken[m], taken[n]>>

\* The order of doubles, by their words.  Samples are not negative; lo compares
\* as unsigned, so a word with the sign bit set is a large one.
Unsigned(n) == IF n < 0 THEN n + 2 * (IntMax + 1) ELSE n
LessOrEqual(x, y) == x.hi < y.hi \/ (x.hi = y.hi /\ Unsigned(x.lo) <= Unsigned(y.lo))

\* What the comment on get_median says: "Will sort array before finding median."
SortedBeforeMedian ==
    mpc = "middle" => \A m, n \in Indices : m < n => LessOrEqual(array[m], array[n])
-----------------------------------------------------------------------------
(***************************************************************************)
(* The inductive invariant: what qsort moves around stays made of words    *)
(* of doubles, and the upper half of the array is as it was filled.        *)
(***************************************************************************)
MedianTypeOK ==
    /\ mpc \in {"init_test", "sample", "get_median", "middle", "printed", "exited", "failed"}
    /\ clock \in 1..Clocks /\ idx \in 0..ArraySize
    /\ mpc \in {"init_test", "sample"} => idx < ArraySize
    /\ array \in [Indices -> Doubles] /\ taken \in [Indices -> Samples]

UpperHalfKept ==
    /\ \A n \in Indices : n >= Half => array[n] = taken[n]
    /\ mpc = "printed" => results = <<taken[Half], taken[Half + 1]>>

MedianInv == MedianTypeOK /\ UpperHalfKept
==============================================================================
