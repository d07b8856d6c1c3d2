# Verification of the rpi3_bench micro-benchmarks

`src/rpi3_bench` holds about twenty small C programs that measure a Raspberry Pi 3:
one program per question (cost of a context switch, of a futex call, of a round trip
...), linked with `common.c`. Each program sets itself up with `init_test`, runs a timed
loop and prints one line. A benchmark is correct when the timed loop does what the
printed line says it did, whatever the scheduler, the network and the failing calls do.
That is what these modules model and check.

## Inventory

| Part | State | Operations | Hard behaviour |
|---|---|---|---|
| `process_context_switch.c` | one shared int, the kernel's wait queue, two loop counters | store, FUTEX_WAKE, sched_yield, FUTEX_WAIT, retries, waitpid | two processes interleave; wakes get lost; calls fail on one side only; one core |
| `thread_context_switch.c` | the same, in one process | the same, pthread_create, an unjoined return | the thread starts before the word is initialised, or with a bad pointer |
| `futex_wait.c`, `futex_wake.c` | one shared int, wait queue, one counter | FUTEX_WAIT / FUTEX_WAKE without any handshake | uncoordinated calls on two cores; one process is left waiting |
| `file_contention.c` | a barrier and a baton on main's stack, reused per iteration | thread start, barrier, measurement | memory reused while older threads are still in the barrier, which is undefined |
| `network_round_trip.c` | byte count, connection | send, recv loop | partial receives, closes, resets, signed/unsigned comparison |
| `clock_gettime.c` | one array for seven clocks | sample, median | an uninitialised array reused per clock |
| `common.c` | none (arrays of samples) | init_test, mean, median, deviation, time conversion | element size and index of the median |
| `task_creation.c` | unjoined threads, zombie processes, the stdio buffer | create, fork, vfork, exit, print | limits reached unnoticed; children flush the parent's output |
| `connect_disconnect.c` | a socket, the local ports in TIME_WAIT | socket, connect, sleep, close | ignored failures enter the averages; closed connections keep their ports |
| `peak_bandwidth.c` | a socket and its buffer, the minimum so far | connect, send, close | short, interrupted and failing sends enter the minimum; SIGPIPE |
| `file_read.c` | files by name, an index array | write, drop caches, open, shuffle, read, unlink | the file that is written is not the one that is read |
| `file_cache.c`, `page_fault_access.c` | a file, its pages in the page cache and in the page table | write, map, touch pages | loop bound and step in different units; memory pressure; a file shorter than its mapping |
| the others | none | straight-line timing loops | none beyond hardware timing |

The programs are run one at a time and interact only through `test.file`, which
`file_read.c`, `file_cache.c`, `page_fault_access.c` and `file_contention.c` write;
`file_read.c` (if it is its target) and `file_contention.c` remove it. Inside a program, processes and threads
interact through the futex word, the barrier and the baton; `init_test` pins all tasks of
a program to CPU 3 before they are created. `PROJECT.json` lists the hazards line by line.

## Modules

* **Futex** – the kernel side of `SYS_futex`, external: compare-and-block is one step, a
  wake wakes one task or nobody, and a stopped and continued sleeper restarts its call.
* **Handoff** – abstract specification: two tasks signal each other in strict alternation,
  `Rounds` times each, the parent first.
* **HandoffLoop** – the loop body both context-switch programs share. The two tasks go
  round the same cycle of four statements and differ in where they enter it; one action
  per statement, including the two retry statements. It also states the properties of the
  loop, the refinement mapping to Handoff and the parts of the inductive invariant.
* **ProcessContextSwitch** – `main` of `process_context_switch.c`: `init_test`, `shmget`
  and `fork` may fail and are tested; `shmat` may fail in either process and is not, so
  the following store kills that process.
* **ThreadContextSwitch** – `main` and `thread` of `thread_context_switch.c`; `mapped`
  says whether the untested `shmget`/`shmat` gave a usable pointer.
* **SingleCore** – ProcessContextSwitch run on one core: `cpu` is the running process, a
  `sched_yield`, a block or an exit hands the core over, and the timer may preempt. It
  counts what the program's arithmetic is about: context switches and system calls
  between the two clock readings.
* **FutexCost** – `futex_wait.c` and `futex_wake.c`, which are one program with the two
  calls exchanged (the variable `program`, chosen in Init). **CallCost** puts them beside
  ClockMedian in one specification.
* **ContextSwitch** – the three specifications of the hand-off side by side, one of which
  is started: the process program in any interleaving, the same on one core, and the
  thread program.
* **FileContention** – `main` and `child` of `file_contention.c`. A thread in
  `pthread_barrier_wait` waits, is released, is leaving once it has looked at the round
  counter, and leaves. Initialising the barrier while threads are in it is undefined; the
  model has both outcomes that glibc gives (the variable `glibc`). In both, a released
  thread that has not yet looked at the round counter waits again. Before glibc 2.25 a
  departure is added to the count that arrivals take from, so a thread that leaves late
  makes the new round one arrival short; since then departures are counted apart.
* **RoundTrip** – `warm_up`, `tcp_ping` and `main` of `network_round_trip.c`. The network
  is two byte counts; the peer echoes any part at any time and may close or reset. `recv`
  gives queued bytes first, then the pending error once, then 0. `Unsigned` is the
  conversion the loop test makes.
* **ClockMedian**, **MCClockMedian** – `measure_clocks` of `clock_gettime.c` with
  `get_median` of `common.c`. A double is its two 32-bit words, because `qsort` is told to
  sort ints: it rearranges the words of the first half of the array, in ascending order or,
  when the subtraction in `compare_function` overflows, in any order at all.
* **TaskCreation** – all of `task_creation.c`. Threads and children are counted, not
  named, since nothing tells them apart; the lines of output are numbered. A forked child
  has a copy of the buffer, a vforked one uses the parent's, and glibc may leave it
  unbuffered there. `stdout` says whether the output is a terminal or a pipe. Every
  measurement creates `NumThreads` tasks, whatever number main passes and prints.
* **DiscardClient** – the loop of TEST_COUNT samples per host that the next two share.
* **ConnectDisconnect** – `connect_disconnect` and `main` of `connect_disconnect.c`, in
  the build with and without `DEBUG` (the variable `debug`). Time is counted in sleeps of `usleep(1E5)`; a port
  whose connection was closed from this side stays in TIME_WAIT for `TimeWait` of them.
* **PeakBandwidth** – `tcp_peak_bandwidth` and `main` of `peak_bandwidth.c`. Data and time
  are in units: the network takes one unit of time for one unit of data. `send` is
  external and comes in every form its caller does not look at: full, interrupted by a stop
  signal, cut short by the loss of the connection, failing, killed by SIGPIPE.
  **DiscardClients** puts the two clients into one specification.
* **FileRead** – `measure_fc_access`, `write_to_disk`, `print_for` and `main` of
  `file_read.c`, with `test.file` or another file as its target. `randomAccess` selects
  the branch of the shuffle, whose calls in main are commented out.  (That shuffle, by
  `rand() % i`, is Sattolo's variant of the Fisher-Yates shuffle that line 37 names.)
* **PageTouch** – `file_cache.c` and `page_fault_access.c`, which are one program with
  different sizes and numbers of passes. The kernel may write the pages back and take them
  at any time after the write, any number of times (`Reclaim`). Read-ahead and fault-around by the kernel are
  left out: they could only map more pages than the loop touches.
* **TestFile** – the composition: FileRead and PageTouch (as an INSTANCE with its own
  program counter) run one after the other on one `test.file`, in any order. Each step
  of either is joined with what it does to the other's view of the file, and a program
  that aborts in the middle leaves the file as it is for the next one. Programs that are
  not part of it, `file_contention.c` among them, are in the initial states: an old file
  or none.
* The theorems about these modules: **ContextSwitch_proofs** (HandoffLoop,
  ProcessContextSwitch, SingleCore, ThreadContextSwitch), **CallCost_proofs** (FutexCost,
  ClockMedian), **FileContention_proofs**, **RoundTrip_proofs**, **TaskCreation_proofs**,
  **ConnectDisconnect_proofs**, **PeakBandwidth_proofs** and **TestFile_proofs** (FileRead,
  PageTouch, TestFile). A module that is proved about together with another one names its
  specification after itself (`ThreadSpec`, `CoreSpec`,
  `MedianSpec`, `ConnectSpec`, `TestFileSpec`).

Definitions whose comment begins with "Faulty variant" are plausible mistakes in the
code; each shows that a property can fail and they are part of no specification.

## Runs

| Run | Checks | Shows |
|---|---|---|
| `context_switch` | SwitchTypeOK, OneWriterAtATime, SleeperHasWaker, ExitsAfterFullRun, ReturnsAfterFullRun, SwitchesPerIteration, StrictAlternation, Terminates, ThreadsTerminate, FinishesByYielding | 8 iterations. Processes: every interleaving, every failing call and any number of stops and continues. One core: up to 3 preemptions; 6N+2 switches, at most 2 more or fewer per preemption, and an end without any preemption. Thread: an early start, a bad pointer and no join |
| `call_cost` | TypeOK, EveryWaitBlocks, ResultsAreSamples, FutexEndsInWaitpid | both futex programs, 12 calls: every wait sleeps, the loop ends all the same, and then the parent waits for ever; and 4 samples of 4 kinds, 2 clocks, any initial array: the two elements whose mean is printed are unaltered samples of the clock |
| `file_contention` | TypeOK, SetUpBeforeMeasure, OwnFile, ArrivalsMeet, AllMeasured | 3 threads, so that two older threads can be caught in a reused barrier, of either glibc: set-up and file names are always right; main and its thread miss each other only if a thread leaves late on an old glibc |
| `round_trip` | TypeOK, SampleIsRoundTrip, NothingLostInFlight, Completes | payloads of 2 and 4 bytes, 2 samples each, 2 hosts: every split of every echo, a close or a reset at every point |
| `task_creation` | TypeOK, CreatedUpToLimit, LinesAccounted, AllOutput | 16 threads against 10 stacks, 16 processes against 12: creations succeed up to the limit and never after; a terminal shows each line once, a pipe gets each line once from the parent and once from each forked child that copied it, and nothing is lost |
| `discard_clients` | ClientTypeOK, LossEndsRun, PeakWithinBuffer, NeverOutOfPorts | 6 sends to 2 hosts, lost, interrupted or delayed at any point: at most the last two samples come from a lost connection, and an undisturbed minimum is short by at most the socket's buffer; 6 connections with 4 ports and a TIME_WAIT of 3 sleeps: a port is always free |
| `test_file` | TestFileTypeOK, EachBlockOnce, MeasuresFreshFile, HotPassesFaultFree, BusErrorOnlyIfShort | up to 3 programs on one `test.file`: every order and failure, pages taken back at any time; every outcome of `rand()` for 2, 4 and 8 blocks; 1 to 16 pages of 2 ints in 6 passes |
| `median_sorted` (violation) | SortedBeforeMedian | `get_median` does not sort: the middle elements are read from the half `qsort` does not touch |
| `two_syscalls` (violation) | TwoSyscalls | an iteration makes three waiting or yielding calls, not two |
| `child_waits` (violation) | ChildWaitsIndefinitely | the child of `futex_wait.c` spins for ever and never waits |
| `target_file` (violation) | ReadsWhatItWrote | with another target than `test.file`, `file_read.c` measures a file it has not written |
| `pages_from_disk` (violation) | EachPageFromDisk | the access loop touches 2 of 8 pages, and takes them from the page cache |


Bounds. The loops repeat the same cycle, so a few iterations already contain every
phase shift between the tasks; 8 leave room for a first, middle and last iteration, and
with 3 preemptions tell the claimed 6 switches per iteration from 5 or 7.
`FutexCost` needs no more than a few calls; 12 only make the state space less tiny.
Payloads of 4 bytes can be split in every way that matters, and `UintModulus = 16` keeps
the one property of `UINT_MAX` that is used: it exceeds every payload. Four samples are the fewest for which both indices of
`get_median` exist; `IntMax = 3` gives room for ordered words and for one that overflows.
The switch counts
in the run are exact for N iterations; the program's constant 600000 is 6 x 100000.
`TaskCreation` reaches each limit in the middle of a measurement, with calls before and
after it. `ConnectDisconnect` takes twice as many samples as can be in TIME_WAIT, to show
what the sleep does; the program's 1000 samples are fewer than the 28232 ports of Linux
and could not use them up in any case.
`PeakBandwidth` has a buffer of half a send, so that what is left over from one send
matters to the next, and enough samples for a connection to be lost, reported and killed
before the last. `PageTouch` scales `PAGE_SIZE` and `sizeof(int)` to 4 and 2: the largest
file is 4 loop steps long, the smallest less than one. Eight blocks give
5040 shuffles, and a third program sees what two others have left.

Deadlock is not checked: every program may stop (exit, crash), and `futex_wake.c` ends
with both processes waiting.

Fairness. Linux schedules these tasks under the default policy, so a task that can run
runs eventually: weak fairness of each task's steps. `SingleCore` promises less: only
that the core does not idle, and no preemption at all. `RoundTrip` assumes that an echo
service that has neither closed nor reset answers. Stops and continues (`Restarted`) are
never fair, and `Terminates` and `ThreadsTerminate` assume that they end. `AllOutput` of `TaskCreation` assumes
that the parent, the threads and the children keep running, the children also after the
parent's end. The other programs have safety properties only.

## Where comments and code differ

Five runs state what a comment says and find it violated by what the code does; each
is a finding in `PROJECT.json`.

* `common.c:88` says that `get_median` sorts the array (`median_sorted`).
* `process_context_switch.c:116` and `thread_context_switch.c:110` subtract "Two
  syscalls" per iteration (`two_syscalls`); on one core there are three, because the first
  FUTEX_WAKE finds nobody asleep and the retry yields. That it is three for every number of
  iterations is the theorem `ThreeSyscallsPerIteration`.
* The header of `futex_wait.c` is that of `futex_wake.c` and says that the child waits
  indefinitely (`child_waits`); it is the parent that does (FutexEndsInWaitpid).
* `file_read.c:70` ignores the file name it is given, although line 77 says that the file
  is written first and the usage names a target (`target_file`). With `test.file` as the
  target all is well (MeasuresFreshFile).
* `file_cache.c:46` and `page_fault_access.c:49` say "we're measuring page from disk
  time", but the pages come from the page cache; `file_cache.c:55` says "touching each
  page", but the loop skips most (both in `pages_from_disk`, whose property is what the
  comments together say). The loop does stay inside the file (BusErrorOnlyIfShort), and
  the warm-up maps the pages that the hot passes touch (HotPassesFaultFree).

Three more are plain from the lines and have no run. `task_creation.c:35` says "die
immediately", but `exit(0)` first flushes the child's copy of the parent's output (modelled;
LinesAccounted says how often each line comes out). `task_creation.c:63` measures
`NUM_THREADS` creations, whatever number line 66 prints. And the default build of
`connect_disconnect.c` does not test `connect` (line 67), so refused connections enter its
averages; no comment says otherwise.

Nor does a comment promise that `file_contention.c` ends on an old glibc, where it may
hang: AllMeasured names that case, `LateLeaver`, as its one exception.

## Proofs

All are checked by TLAPS, for every value of the constants (iterations, preemptions,
threads, payloads, buffer and page sizes, samples, hosts, limits). Every invariant that a
run checks is also proved. The only assumptions are the ASSUMEs of the modules: the counts
are positive naturals, `StartSize <= MaxSize`, the unsigned modulus exceeds `MaxSize + 1`,
a file has at least two blocks, an int is smaller than a page (4 and 4096), a socket buffer
is smaller than a send of 12500000 bytes, an array has an even number of at least four
samples, and there are more local ports than sleeps in a TIME_WAIT (28232 and 600 on
Linux). The inductive invariants stand at the end of the modules (those of the two
hand-off programs in ContextSwitch_proofs), and TLC has checked each of them on the
instance of the run.

* **The hand-off.** OneWriterAtATime is not inductive: it does not say that a task about
  to wake is owed a sleeper. `LoopInv` adds the central fact `InStep`: the parent awaits
  an answer exactly when the child has been woken and owes one, and the parent's count of
  signals is ahead by one exactly then. `CountersFit` ties counters to positions.
  `LoopStepPreservesLoopInv`, `LoopStepTypes` and `LoopStepAlternates` prove, once for
  both programs, that each statement preserves this and is a step or a stutter of
  Handoff. Each program adds what it needs around the loop: no child before the fork (no
  thread before `pthread_create`), no sleeper behind a bad pointer. From that follow
  TypeOK, OneWriterAtATime, SleeperHasWaker, ExitsAfterFullRun (ReturnsAfterFullRun for
  the thread) and StrictAlternation, which is the refinement of Handoff.
* **Six switches, three calls.** SwitchesPerIteration and ThreeSyscalls speak of the end of
  the run only. `SwitchesHere` and `CallsHere` are a potential: the number by which the totals exceed 6 and 3 per iteration
  in each state of the pair. `ParentRunExact` and `ChildRunExact` show that without
  preemption every statement changes totals and potential by the same amount, and a
  preemption shifts the potential by at most 2 (`CostSoFar`). The proof rests on the
  invariant of the hand-off, which the pinned program inherits: every step on the core is a
  step of ProcessContextSwitch (`CoreImplementsProgram`).
* **The futex calls.** Both processes store 0xA and nothing else, so the word has been
  initialised before the first call of either (`Initialised`), and no wait is refused.
* **The median.** Whatever `qsort` makes of the words it is given, they are those of the
  lower half (`ArrayIndices`, `WordsAreInts`), so the upper half, where both elements are
  read, still holds the samples of this clock (`UpperHalfKept`).
* **Created tasks.** The creations tried so far are a number in mixed radix: calls,
  measurements, iterations. `TriedCounts` shows that each of the program's three carries
  adds one or nothing; then threads and processes are the minimum of that number and the
  limit, since exits change no sum.
* **The lines of output.** LinesAccounted needs to know that a buffered line has been
  printed (so that it is not printed again into the same buffer), that a terminal buffers
  nothing and that all copies are alike (`Buffers`). One lemma each for printing, for a
  flush of the parent's buffer and for a child that exits.
* **The reused barrier.** `NewestThread` says, for each of main's statements, how far the
  newest thread is and how many have arrived at most; older threads are past their set-up
  wherever the barrier has put them, so being caught again, or a round that is short of an
  arrival, does no harm to SetUpBeforeMeasure and OwnFile. Where departures are counted
  apart the count is exact (`ArrivalsCounted`), which gives ArrivalsMeet.
* **The byte count.** `Balance` and `NegativeAfterReset` say what is in flight in each
  state of the connection and that the count is negative only when nothing is queued.
* **The reads.** `Complete` (the shuffle loses no block) and `Asked` (what has been read so
  far) give EachBlockOnce. `Written` follows the file from the write to the open and gives
  MeasuresFreshFile.
* **The ports.** `Staggered`: no two ports have the same positive time left, because each
  close is followed by a sleep before the next (`Elapsed`). By the pigeonhole principle
  (`SomePortFree`) more ports than times leave one free, whatever the number of samples.
* **The peak.** `Losses` counts what a lost connection can still spoil: the send it cuts,
  and one that reports the pending error; the next is a broken pipe, which kills.
  `Minimum` follows the minimum of full sends through the loop: a send sees the buffer at
  most full before and after it, so its time differs from `Size` by a bufferful.
* **The page programs.** `Touched` says that, as long as the kernel has taken nothing back
  since the last pass that is not hot began, the pages of the loop's steps are mapped behind
  the position in that pass, and all of them in the hot passes; that gives
  HotPassesFaultFree. BusErrorOnlyIfShort needs arithmetic: the index is a number of ints
  below `numPages`, and an int is smaller than a page.
* **One test.file.** `TestFileInv` is the conjunction of the invariants of the two parts
  and of `OneAtATime`. The step of one program on the file is shown to leave the other's
  invariant alone, so all the properties of the parts hold in the composition
  (`ReadsUndisturbed` and the theorems on the page programs).

Model-checked only: the liveness properties (Terminates, ThreadsTerminate,
FinishesByYielding, FutexEndsInWaitpid, AllMeasured, Completes, AllOutput), because
TLAPS has no reasoning about fairness and ENABLED, and the five properties of the violation
runs, which fail. The modules ContextSwitch, CallCost and DiscardClients only choose which
program runs; the theorems are about the specifications they choose from.

## Not modelled

Times, printed text and file contents; `init_test`'s cpufreq calls beyond their result;
the System V segment that is never removed; `get_mean`, `get_stddev` and the time
conversions, which are arithmetic on doubles (the conversion of a negative time to an
unsigned one in `peak_bandwidth.c`, `connect_disconnect.c` and `ram_access_time.c` is
undefined in C, and depends on times the models leave out).

`ram_access_time.c`, `memory_bandwidth.c`, `rand.c`, `for_loop.c`,
`system_call_overhead.c`, `procedure_call.c`, `hpet_clock_resolutions.c` and
`sys_clock_test.c` are straight-line loops of one task between two clock readings. They
keep no state from one step to the next but loop counters and arrays that are filled
completely before they are read; what could be wrong in them is the arithmetic on the
times, and there is nothing for a model checker to explore.

## Plan

1. Done: every program with state of its own is modelled, and every invariant of the runs
   is proved.
2. Worth adding: the parts of the liveness properties that are invariants (in every
   unfinished state of the barrier, the hand-off and the recv loop some task has a step to
   take, stated without ENABLED), and an abstract specification of the barrier
   that FileContention implements.
