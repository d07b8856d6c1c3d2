---------------------------- MODULE TaskCreation ----------------------------
(***************************************************************************)
(* task_creation.c: main times the creation of threads, of processes with  *)
(* fork and of processes with vfork.  Nothing is joined or reaped and no   *)
(* creation is tested, and every child process ends with exit(0), which    *)
(* flushes the stdio buffer it inherited (fork) or shares (vfork).         *)
(***************************************************************************)
EXTENDS Integers

CONSTANTS NumThreads,     \* NUM_THREADS, whatever number main names in its calls
          ThreadCalls,    \* how often main calls print_threads
          Measurements,   \* MEASUREMENTS
          MaxStacks,      \* thread stacks that fit into the address space
          MaxProcesses    \* children, zombies included, the kernel allows

ASSUME CountAssumption ==
    /\ NumThreads \in Nat \ {0} /\ ThreadCalls \in Nat \ {0} /\ Measurements \in Nat \ {0}
    /\ MaxStacks \in Nat /\ MaxProcesses \in Nat

LastCall == ThreadCalls + 2
Lines == 0..LastCall         \* the lines of output: init_test's and one per call

Kind(c) == IF c <= ThreadCalls THEN "threads"
           ELSE IF c = ThreadCalls + 1 THEN "fork" ELSE "vfork"

VARIABLES pc,
          call, m, i,         \* which call of main, which measurement, which creation
          live, unjoined,     \* threads that run, and that have exited
          forked, children,   \* forked so far, and those that have not exited
          vforked,            \* vforked so far
          stdout,             \* "line" on a terminal, "full" into a file or pipe
          mode,               \* how the parent's stdout is buffered now
          buf,                \* the lines in the parent's stdio buffer
          copy,               \* its copy in the forked children: all were forked
                              \* in one call, during which nothing is printed
          written             \* how often each line has been output

vars == <<pc, call, m, i, live, unjoined, forked, children, vforked, stdout, mode, buf, copy,
          written>>

position == <<call, m, i>>
threads == <<live, unjoined>>
processes == <<forked, children, vforked, copy>>
output == <<mode, buf, written>>

Init ==
    /\ pc = "init_test" /\ call = 1 /\ m = 0 /\ i = 0
    /\ live = 0 /\ unjoined = 0 /\ forked = 0 /\ children = 0 /\ vforked = 0
    /\ stdout \in {"line", "full"} /\ mode = stdout
    /\ buf = {} /\ copy = {} /\ written = [l \in Lines |-> 0]

Write(lines) == written' = [l \in Lines |-> written[l] + IF l \in lines THEN 1 ELSE 0]

\* Every line ends in a newline, and all of them fit into a full buffer.
Printf(l) ==
    /\ IF mode = "line" THEN Write({l}) /\ UNCHANGED buf
                        ELSE buf' = buf \cup {l} /\ UNCHANGED written
    /\ UNCHANGED mode

\* assert(init_test() == 0): a failure aborts, which flushes nothing.
InitTest ==
    /\ pc = "init_test"
    /\ \/ pc' = "create" /\ Printf(0)
       \/ pc' = "aborted" /\ UNCHANGED output
    /\ UNCHANGED <<position, threads, processes>>

\* Faulty variant: the loop test is <=.
NextCreationOnceMore ==
    \/ i + 1 <= NumThreads /\ i' = i + 1 /\ pc' = "create" /\ UNCHANGED m
    \/ /\ i + 1 > NumThreads /\ i' = 0 /\ m' = m + 1
       /\ pc' = IF m + 1 < Measurements THEN "create" ELSE "print"

\* ++i, and ++m after measure(NUM_THREADS) has returned.
NextCreation ==
    \/ i + 1 < NumThreads /\ i' = i + 1 /\ pc' = "create" /\ UNCHANGED m
    \/ /\ i + 1 = NumThreads /\ i' = 0 /\ m' = m + 1
       /\ pc' = IF m + 1 < Measurements THEN "create" ELSE "print"

CreateThread ==
    /\ pc = "create" /\ Kind(call) = "threads"
    /\ live' = IF live + unjoined < MaxStacks THEN live + 1 ELSE live
    /\ NextCreation
    /\ UNCHANGED <<call, unjoined, processes, output>>

\* Faulty variant: the threads are created detached.
ThreadExitsDetached ==
    /\ live > 0
    /\ live' = live - 1
    /\ UNCHANGED <<pc, position, unjoined, processes, output>>

\* pthread_exit in a joinable thread: its stack stays.
ThreadExits ==
    /\ live > 0
    /\ live' = live - 1 /\ unjoined' = unjoined + 1
    /\ UNCHANGED <<pc, position, processes, output>>

\* A fork that fails returns -1, and the parent goes on.
Fork ==
    /\ pc = "create" /\ Kind(call) = "fork"
    /\ IF forked + vforked < MaxProcesses
       THEN forked' = forked + 1 /\ children' = children + 1 /\ copy' = buf
       ELSE UNCHANGED <<forked, children, copy>>
    /\ NextCreation
    /\ UNCHANGED <<call, threads, vforked, output>>

\* exit(0) in a forked child, at any time, after the parent's end too.
ChildExits ==
    /\ children > 0
    /\ children' = children - 1
    /\ Write(copy)
    /\ UNCHANGED <<pc, position, threads, forked, vforked, copy, mode, buf>>

\* The parent is suspended until a vforked child has exited.
Vfork ==
    /\ pc = "create" /\ Kind(call) = "vfork"
    /\ IF forked + vforked < MaxProcesses
       THEN vforked' = vforked + 1 /\ pc' = "suspended" /\ UNCHANGED <<m, i>>
       ELSE NextCreation /\ UNCHANGED vforked
    /\ UNCHANGED <<call, threads, forked, children, copy, output>>

\* Faulty variant: the child flushes a copy of the buffer, as after a fork.
VforkChildExitsOnCopy ==
    /\ pc = "suspended"
    /\ Write(buf)
    /\ NextCreation
    /\ UNCHANGED <<call, threads, processes, mode, buf>>

\* exit(0) flushes the buffer in the parent's own memory, and may leave stdout
\* unbuffered there (glibc): from then on each line is written at once.
VforkChildExits ==
    /\ pc = "suspended"
    /\ Write(buf) /\ buf' = {} /\ mode' \in {mode, "line"}
    /\ NextCreation
    /\ UNCHANGED <<call, threads, processes>>

Report ==
    /\ pc = "print"
    /\ Printf(call)
    /\ \/ call < LastCall /\ call' = call + 1 /\ m' = 0 /\ pc' = "create"
       \/ call = LastCall /\ pc' = "return" /\ UNCHANGED <<call, m>>
    /\ UNCHANGED <<i, threads, processes>>

\* Faulty variant: main leaves with _exit(0).
ReturnUnflushed ==
    /\ pc = "return"
    /\ pc' = "exited" /\ live' = 0
    /\ UNCHANGED <<position, unjoined, processes, output>>

\* "No need to join the threads": they end with the process.
Return ==
    /\ pc = "return"
    /\ pc' = "exited" /\ live' = 0
    /\ Write(buf) /\ buf' = {}
    /\ UNCHANGED <<position, unjoined, processes, mode>>

Parent == InitTest \/ CreateThread \/ Fork \/ Vfork \/ VforkChildExits \/ Report \/ Return

Step(task) ==
    /\ \/ task = "parent" /\ Parent
       \/ task = "thread" /\ ThreadExits
       \/ task = "child" /\ ChildExits
    /\ UNCHANGED stdout

Tasks == {"parent", "thread", "child"}

Next == \E task \in Tasks : Step(task)

\* All tasks share one core under the default, fair scheduling policy.
Fairness == \A task \in Tasks : WF_vars(Step(task))

Spec == Init /\ [][Next]_vars /\ Fairness
-----------------------------------------------------------------------------
TypeOK ==
    /\ pc \in {"init_test", "create", "suspended", "print", "return", "exited", "aborted"}
    /\ call \in 1..LastCall /\ m \in 0..Measurements /\ i \in 0..(NumThreads - 1)
    /\ live \in 0..MaxStacks /\ unjoined \in 0..MaxStacks
    /\ forked \in 0..MaxProcesses /\ children \in 0..forked /\ vforked \in 0..MaxProcesses
    /\ mode \in {"line", "full"} /\ buf \subseteq Lines /\ copy \subseteq Lines
    /\ written \in [Lines -> 0..(MaxProcesses + 1)]

Min(a, b) == IF a < b THEN a ELSE b

ThreadAttempts ==
    IF Kind(call) = "threads" THEN ((call - 1) * Measurements + m) * NumThreads + i
    ELSE ThreadCalls * Measurements * NumThreads

ProcessAttempts ==
    IF Kind(call) = "threads" THEN 0
    ELSE ((call - ThreadCalls - 1) * Measurements + m) * NumThreads + i
         + IF pc = "suspended" THEN 1 ELSE 0

\* Exited threads keep their stacks and exited children stay as zombies, since
\* nobody joins or waits: creations succeed up to the limit and from there on
\* every single one fails, whatever has exited in the meantime.  The samples
\* past the limit time nothing but failing calls.
CreatedUpToLimit ==
    pc # "exited" =>
        /\ live + unjoined = Min(ThreadAttempts, MaxStacks)
        /\ forked + vforked = Min(ProcessAttempts, MaxProcesses)

Printed(l) == (l < call /\ pc \notin {"init_test", "aborted"}) \/ pc \in {"return", "exited"}

\* What has been output, however parent and children interleave: each line the
\* parent has printed once, now or when its buffer is flushed (by a vforked
\* child or at its end, never by both), and the lines that were in the buffer
\* when it forked once more for each forked child that has exited.  On a terminal
\* no child finds anything to flush, and each line appears once.
LinesAccounted ==
    \A l \in Lines :
        written[l] + (IF l \in buf THEN 1 ELSE 0)
            = (IF Printed(l) THEN 1 ELSE 0)
              + (IF l \in copy /\ stdout = "full" THEN forked - children ELSE 0)

\* Nothing that was printed is lost, and no child process is left over.
AllOutput ==
    <>(\/ pc = "aborted"
       \/ pc = "exited" /\ children = 0 /\ \A l \in Lines : written[l] >= 1)
-----------------------------------------------------------------------------
(***************************************************************************)
(* The inductive invariant: where main is, which creations there have been *)
(* before it got there, and what is in the buffer and its copies.          *)
(***************************************************************************)
Position ==
    /\ pc \in {"init_test", "aborted"} => call = 1 /\ m = 0 /\ i = 0
    /\ pc \in {"create", "suspended"} => m < Measurements
    /\ pc \in {"print", "return", "exited"} => m = Measurements /\ i = 0
    /\ pc \in {"return", "exited"} => call = LastCall
    /\ pc = "suspended" => Kind(call) = "vfork"

Limits ==
    /\ live + unjoined <= MaxStacks /\ forked + vforked <= MaxProcesses
    /\ Kind(call) = "threads" => forked = 0
    /\ Kind(call) # "vfork" => vforked = 0

\* What is buffered has been printed; a terminal buffers nothing; and while main
\* forks, each copy is what is still in the buffer.
Buffers ==
    /\ stdout \in {"line", "full"}
    /\ stdout = "line" => mode = "line" /\ buf = {} /\ copy = {}
    /\ \A l \in buf : Printed(l)
    /\ Kind(call) = "fork" /\ forked > 0 => copy = buf

IInv == TypeOK /\ Position /\ Limits /\ CreatedUpToLimit /\ Buffers /\ LinesAccounted
=============================================================================
