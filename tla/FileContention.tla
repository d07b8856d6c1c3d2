--------------------------- MODULE FileContention ---------------------------
(***************************************************************************)
(* file_contention.c: main starts NumThreads readers one by one and times  *)
(* its own reads after each.  The baton and the barrier of an iteration    *)
(* are locals of the loop body: every iteration reuses the same memory,    *)
(* without pthread_barrier_destroy, while older threads may still be       *)
(* inside pthread_barrier_wait on it.                                      *)
(***************************************************************************)
EXTENDS Integers

CONSTANT NumThreads   \* NUM_THREADS

ASSUME NumThreadsAssumption == NumThreads \in Nat \ {0}

Threads == 0..(NumThreads - 1)
Main == NumThreads        \* main comes after its threads in Tasks
Tasks == 0..NumThreads
Unset == NumThreads       \* an id that no thread has

VARIABLES glibc,    \* which pthread_barrier_t: "old" before glibc 2.25, "new" since
          pc,       \* the statement each thread is at
          k,        \* main's loop counter i
          batonId,  \* b.id
          in,       \* arrivals in the barrier's current round; for an old glibc
                    \* 2 - left, which the departures take back
          fileId    \* the number in each thread's file name, Unset before line 87

vars == <<glibc, pc, k, batonId, in, fileId>>

Init ==
    /\ glibc \in {"old", "new"}
    /\ pc = [t \in Tasks |-> IF t = Main THEN "init_test" ELSE "unborn"]
    /\ k = 0
    /\ batonId = Unset
    /\ in = 0
    /\ fileId = [t \in Threads |-> Unset]

Goto(t, label) == pc' = [pc EXCEPT ![t] = label]

\* A failed assert or an exit(1), in any thread, ends the process.
Die == Goto(Main, "failed")
Alive == pc[Main] \notin {"failed", "exited"}

(***************************************************************************)
(* pthread_barrier_wait with a count of 2.  The last to arrive moves the   *)
(* round counter on and leaves; a thread that waits for it is released, is *)
(* leaving once it has looked at the counter, and then leaves.             *)
(***************************************************************************)
BarrierCount == 2

\* Faulty variant: the barrier is initialised with a count of 1.
PassBarrier(t) == Goto(t, "leaving") /\ UNCHANGED in

\* Faulty variant: the barrier is initialised with a count of 3.
BarrierWaitOfThree(t) ==
    /\ in' = in + 1
    /\ IF in + 1 # BarrierCount + 1
       THEN Goto(t, "waiting")
       ELSE pc' = [s \in Tasks |-> IF s = t THEN "leaving"
                                   ELSE IF pc[s] = "waiting" THEN "released" ELSE pc[s]]

BarrierWait(t) ==
    /\ in' = in + 1
    /\ IF in + 1 # BarrierCount
       THEN Goto(t, "waiting")
       ELSE pc' = [s \in Tasks |-> IF s = t THEN "leaving"
                                   ELSE IF pc[s] = "waiting" THEN "released" ELSE pc[s]]

BarrierReleased(t) ==
    /\ pc[t] = "released"
    /\ Goto(t, "leaving")
    /\ UNCHANGED in

\* Before glibc 2.25 a departure is ++left on the count that arrivals decrease;
\* since then departures are counted apart.
BarrierLeave(t, next) ==
    /\ pc[t] = "leaving"
    /\ Goto(t, next)
    /\ in' = IF glibc = "old" THEN in - 1 ELSE in

\* pthread_barrier_init over a barrier in use is undefined.  It sets count and
\* round counter back: a released thread that has not yet looked at the round
\* counter waits again, uncounted, until the next round is released, and one that
\* is leaving leaves the new round.
BarrierInit(next) ==
    /\ in' = 0
    /\ pc' = [t \in Tasks |-> IF t = Main THEN next
                              ELSE IF pc[t] = "released" THEN "waiting" ELSE pc[t]]
-----------------------------------------------------------------------------
(***************************************************************************)
(* main                                                                    *)
(***************************************************************************)
\* A call that is asserted, or followed by exit(1) when it fails.
Asserted(label, next) ==
    /\ pc[Main] = label
    /\ Goto(Main, next) \/ Die
    /\ UNCHANGED <<k, batonId, in, fileId>>

InitTest == Asserted("init_test", "write")
WriteTestFile == Asserted("write", "open")
OpenTestFile == Asserted("open", "baton")

MakeBaton ==
    /\ pc[Main] = "baton"
    /\ \/ BarrierInit("create") /\ batonId' = k
       \/ Die /\ UNCHANGED <<in, batonId>>
    /\ UNCHANGED <<k, fileId>>

PthreadCreate ==
    /\ pc[Main] = "create"
    /\ \/ pc' = [pc EXCEPT ![Main] = "barrier", ![k] = "snprintf"]
       \/ Die
    /\ UNCHANGED <<k, batonId, in, fileId>>

\* Faulty variant: main does not wait for the thread to set up.
SkipMainBarrier ==
    /\ pc[Main] = "barrier"
    /\ Goto(Main, "measure")
    /\ UNCHANGED <<k, batonId, in, fileId>>

MainBarrier ==
    /\ pc[Main] = "barrier"
    /\ BarrierWait(Main)
    /\ UNCHANGED <<k, batonId, fileId>>

MainLeaves ==
    /\ BarrierReleased(Main) \/ BarrierLeave(Main, "measure")
    /\ UNCHANGED <<k, batonId, fileId>>

\* Faulty variant: the loop runs once too often.
MeasureOnceMore ==
    /\ pc[Main] = "measure"
    /\ k' = k + 1 /\ Goto(Main, IF k < NumThreads THEN "baton" ELSE "close")
    /\ UNCHANGED <<batonId, in, fileId>>

\* usleep, measure_read_time, ++i and the loop test.  Dropping the caches is
\* asserted and the aligned buffer is tested; the result of pread is not.
Measure ==
    /\ pc[Main] = "measure"
    /\ \/ k' = k + 1 /\ Goto(Main, IF k + 1 < NumThreads THEN "baton" ELSE "close")
       \/ Die /\ UNCHANGED k
    /\ UNCHANGED <<batonId, in, fileId>>

\* close, unlink and return: the process ends with its readers.
CloseAndReturn ==
    /\ pc[Main] = "close"
    /\ Goto(Main, "exited")
    /\ UNCHANGED <<k, batonId, in, fileId>>

MainStep ==
    /\ \/ InitTest \/ WriteTestFile \/ OpenTestFile
       \/ MakeBaton \/ PthreadCreate \/ MainBarrier \/ MainLeaves
       \/ Measure \/ CloseAndReturn
    /\ UNCHANGED glibc
-----------------------------------------------------------------------------
(***************************************************************************)
(* child                                                                   *)
(***************************************************************************)
\* The file name is made from the baton, in main's stack frame.
NameFile(t) ==
    /\ pc[t] = "snprintf"
    /\ fileId' = [fileId EXCEPT ![t] = batonId]
    /\ Goto(t, "write")
    /\ UNCHANGED <<k, batonId, in>>

ChildCall(t, label, next) ==
    /\ pc[t] = label
    /\ Goto(t, next) \/ Die
    /\ UNCHANGED <<k, batonId, in, fileId>>

WriteFile(t) == ChildCall(t, "write", "memalign")

\* posix_memalign leaves buf alone when it fails, and buf is uninitialised: the
\* test for NULL may pass either way, and pread's result is ignored.
Memalign(t) == ChildCall(t, "memalign", "open")
OpenFile(t) == ChildCall(t, "open", "barrier")

ChildBarrier(t) ==
    /\ pc[t] = "barrier"
    /\ BarrierWait(t)
    /\ UNCHANGED <<k, batonId, fileId>>

\* From here on the thread reads for ever: no further step matters.
ChildLeaves(t) ==
    /\ BarrierReleased(t) \/ BarrierLeave(t, "reading")
    /\ UNCHANGED <<k, batonId, fileId>>

ChildStep(t) ==
    /\ Alive
    /\ \/ NameFile(t) \/ WriteFile(t) \/ Memalign(t) \/ OpenFile(t)
       \/ ChildBarrier(t) \/ ChildLeaves(t)
    /\ UNCHANGED glibc

Next == MainStep \/ \E t \in Threads : ChildStep(t)

\* All threads share one core under the default, fair scheduling policy.
Fairness == WF_vars(MainStep) /\ \A t \in Threads : WF_vars(ChildStep(t))

Spec == Init /\ [][Next]_vars /\ Fairness
-----------------------------------------------------------------------------
MainLabels == {"init_test", "write", "open", "baton", "create", "barrier", "waiting",
               "released", "leaving", "measure", "close", "exited", "failed"}
PreparingLabels == {"snprintf", "write", "memalign", "open", "barrier"}
ReadyLabels == {"waiting", "released", "leaving", "reading"}

TypeOK ==
    /\ glibc \in {"old", "new"}
    /\ pc \in [Tasks -> MainLabels \cup {"unborn"} \cup PreparingLabels \cup ReadyLabels]
    /\ pc[Main] \in MainLabels
    /\ k \in 0..NumThreads
    /\ batonId \in Threads \cup {Unset}
    /\ in \in Int /\ in <= BarrierCount
    /\ fileId \in [Threads -> Threads \cup {Unset}]

\* "wait for thread to set up": while main measures with k+1 threads, all of
\* them have written and opened their files, whatever became of the barriers
\* that were initialised again under their feet.
SetUpBeforeMeasure ==
    pc[Main] = "measure" => \A t \in 0..k : pc[t] \in ReadyLabels

\* Each thread reads its number from main's stack before the next iteration
\* overwrites it: no two threads share a file.
OwnFile == \A t \in Threads : fileId[t] \in {Unset, t}

\* Where departures are counted apart, re-initialising a barrier that threads are
\* still inside never makes main and its newest thread miss each other: they are
\* not both waiting in pthread_barrier_wait.
ArrivalsMeet ==
    (glibc = "new" /\ pc[Main] = "waiting") => pc[k] # "waiting"

\* An earlier thread is still leaving when the barrier has been initialised
\* again, and its departure will be taken off the new round.
LateLeaver ==
    /\ glibc = "old"
    /\ pc[Main] = "create"
    /\ \E t \in Threads : pc[t] = "leaving"

\* The one thing about the reused barrier that can make main wait for ever is a
\* late departure on an old glibc.  Threads that wait again, uncounted, are no
\* obstacle, nor is a late departure on a new one: main measures all thread
\* counts, or a call fails.
AllMeasured == <>(pc[Main] \in {"exited", "failed"} \/ LateLeaver)
-----------------------------------------------------------------------------
(***************************************************************************)
(* The inductive invariant: how far the threads below, at and above k are, *)
(* and what the barrier and the baton hold, at each of main's statements.  *)
(***************************************************************************)
LoopLabels == {"init_test", "write", "open", "baton", "create", "barrier", "waiting",
               "released", "leaving", "measure"}

ThreadsInOrder ==
    \A t \in Threads : /\ t > k => pc[t] = "unborn"
                       /\ t < k => pc[t] \in ReadyLabels

\* What has arrived in this round; late departures may make in less.
NewestThread ==
    pc[Main] \in LoopLabels =>
        /\ k \in Threads
        /\ pc[Main] \in {"init_test", "write", "open", "baton", "create"} => pc[k] = "unborn"
        /\ pc[Main] = "create" => in <= 0
        /\ pc[Main] = "barrier" =>
              \/ in <= 0 /\ pc[k] \in PreparingLabels
              \/ in <= 1 /\ pc[k] = "waiting"
        /\ pc[Main] = "waiting" => in <= 1 /\ pc[k] \in PreparingLabels \cup {"waiting"}
        /\ pc[Main] \in {"released", "leaving", "measure"} => pc[k] \in ReadyLabels

\* Where departures are counted apart, in is exact.
ArrivalsCounted ==
    glibc = "new" =>
        /\ pc[Main] = "create" => in = 0
        /\ pc[Main] = "barrier" =>
              in = IF pc[k] = "waiting" THEN 1 ELSE 0
        /\ pc[Main] = "waiting" => in = 1 /\ pc[k] # "waiting"

BatonHeld == pc[Main] \in {"create", "barrier", "waiting"} => batonId = k

AfterLoop == pc[Main] \in {"close", "exited"} => k = NumThreads

IInv ==
    /\ TypeOK /\ ThreadsInOrder /\ NewestThread /\ ArrivalsCounted
    /\ BatonHeld /\ AfterLoop /\ OwnFile
=============================================================================
