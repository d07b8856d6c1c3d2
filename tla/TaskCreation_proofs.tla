-------------------------- MODULE TaskCreation_proofs --------------------------
(***************************************************************************)
(* task_creation.c, for every number of calls, measurements and creations, *)
(* and for every limit on thread stacks and processes.                     *)
(***************************************************************************)
EXTENDS TaskCreation, TLAPS

\* The creations tried in x calls, mm measurements and ii iterations of the loop.
Tried(x, mm, ii) == (x * Measurements + mm) * NumThreads + ii

LEMMA TriedCounts ==
    ASSUME NEW x \in Nat, NEW mm \in Nat, NEW ii \in Nat
    PROVE  /\ Tried(x, mm, ii) \in Nat
           /\ Tried(x, mm, ii + 1) = Tried(x, mm, ii) + 1
           /\ ii + 1 = NumThreads => Tried(x, mm + 1, 0) = Tried(x, mm, ii) + 1
           /\ Tried(x, Measurements, 0) = Tried(x + 1, 0, 0)
           /\ Tried(0, 0, 0) = 0
<1>1. PICK p \in Nat : p = x * Measurements
  BY CountAssumption
<1>2. (x + 1) * Measurements = p + Measurements /\ 0 * Measurements = 0 /\ 0 * NumThreads = 0
  BY <1>1, CountAssumption
<1>3. PICK q \in Nat : q = (p + mm) * NumThreads
  BY CountAssumption
<1>4. (p + (mm + 1)) * NumThreads = q + NumThreads
  BY <1>3, CountAssumption
<1>5. Tried(x, mm, ii) = q + ii /\ Tried(x, mm, ii + 1) = q + (ii + 1)
  BY <1>1, <1>3 DEF Tried
<1>6. Tried(x, mm + 1, 0) = q + NumThreads
  BY <1>1, <1>4, CountAssumption DEF Tried
<1>7. Tried(x, Measurements, 0) = Tried(x + 1, 0, 0)
  BY <1>1, <1>2, CountAssumption DEF Tried
<1>8. Tried(0, 0, 0) = 0
  BY <1>2, CountAssumption DEF Tried
<1> QED BY <1>5, <1>6, <1>7, <1>8, CountAssumption

LEMMA KindOfCall ==
    ASSUME NEW c \in 1..LastCall
    PROVE  /\ Kind(c) = "threads" <=> c <= ThreadCalls
           /\ Kind(c) = "fork" <=> c = ThreadCalls + 1
           /\ Kind(c) = "vfork" <=> c = LastCall
BY CountAssumption DEF Kind, LastCall

LEMMA ThreadsTried ==
    ASSUME TypeOK
    PROVE  ThreadAttempts = IF call <= ThreadCalls THEN Tried(call - 1, m, i)
                            ELSE Tried(ThreadCalls, 0, 0)
<1>1. Tried(ThreadCalls, 0, 0) = ThreadCalls * Measurements * NumThreads
  BY CountAssumption DEF Tried
<1> QED BY <1>1, KindOfCall DEF ThreadAttempts, Tried, TypeOK

LEMMA ProcessesTried ==
    ASSUME TypeOK
    PROVE  ProcessAttempts = IF call <= ThreadCalls THEN 0
                             ELSE Tried(call - ThreadCalls - 1, m, i)
                                  + IF pc = "suspended" THEN 1 ELSE 0
BY KindOfCall DEF ProcessAttempts, Tried, TypeOK

LEMMA AttemptsAreNat ==
    ASSUME TypeOK
    PROVE  ThreadAttempts \in Nat /\ ProcessAttempts \in Nat
<1>1. m \in Nat /\ i \in Nat /\ call \in 1..LastCall
  BY CountAssumption DEF TypeOK
<1>2. CASE call <= ThreadCalls
  <2>1. call - 1 \in Nat
    BY <1>1 DEF LastCall
  <2> QED BY <1>1, <1>2, <2>1, TriedCounts, ThreadsTried, ProcessesTried
<1>3. CASE ~ (call <= ThreadCalls)
  <2>1. call - ThreadCalls - 1 \in Nat
    BY <1>1, <1>3, CountAssumption DEF LastCall
  <2>2. Tried(call - ThreadCalls - 1, m, i) \in Nat /\ Tried(ThreadCalls, 0, 0) \in Nat
    BY <1>1, <2>1, TriedCounts, CountAssumption
  <2> QED BY <1>3, <2>2, ThreadsTried, ProcessesTried
<1> QED BY <1>2, <1>3

\* The next creation is one more, within a measurement and across measurements.
LEMMA NextCreationCounts ==
    ASSUME TypeOK, m < Measurements, NextCreation
    PROVE  \E mm \in 0..Measurements, ii \in 0..(NumThreads - 1) :
              /\ m' = mm /\ i' = ii /\ pc' \in {"create", "print"}
              /\ pc' = "create" => mm < Measurements
              /\ pc' = "print" => mm = Measurements /\ ii = 0
              /\ \A x \in Nat : Tried(x, mm, ii) = Tried(x, m, i) + 1
<1>1. m \in Nat /\ i \in Nat /\ i < NumThreads /\ Measurements \in Nat /\ NumThreads \in Nat
  BY CountAssumption DEF TypeOK
<1>2. CASE i + 1 < NumThreads
  <2>1. m' = m /\ i' = i + 1 /\ pc' = "create"
    BY <1>1, <1>2 DEF NextCreation
  <2>2. \A x \in Nat : Tried(x, m, i + 1) = Tried(x, m, i) + 1
    BY <1>1, TriedCounts
  <2>3. m \in 0..Measurements /\ i + 1 \in 0..(NumThreads - 1)
    BY <1>1, <1>2
  <2> QED BY <2>1, <2>2, <2>3
<1>3. CASE i + 1 = NumThreads
  <2>1. m' = m + 1 /\ i' = 0 /\ pc' = IF m + 1 < Measurements THEN "create" ELSE "print"
    BY <1>1, <1>3 DEF NextCreation
  <2>2. \A x \in Nat : Tried(x, m + 1, 0) = Tried(x, m, i) + 1
    BY <1>1, <1>3, TriedCounts
  <2>3. m + 1 \in 0..Measurements /\ 0 \in 0..(NumThreads - 1)
    BY <1>1, <1>3
  <2>4. m + 1 < Measurements \/ m + 1 = Measurements
    BY <1>1
  <2> QED BY <2>1, <2>2, <2>3, <2>4, <1>1
<1> QED BY <1>1, <1>2, <1>3

\* What a creation adds to the attempts of its kind.
LEMMA CreationCounts ==
    ASSUME TypeOK, m < Measurements, NextCreation, call' = call
    PROVE  /\ m' \in 0..Measurements /\ i' \in 0..(NumThreads - 1)
           /\ pc' \in {"create", "print"}
           /\ pc' = "create" => m' < Measurements
           /\ pc' = "print" => m' = Measurements /\ i' = 0
           /\ call <= ThreadCalls =>
                 ThreadAttempts' = ThreadAttempts + 1 /\ ProcessAttempts' = 0
           /\ call > ThreadCalls =>
                 /\ ThreadAttempts' = ThreadAttempts
                 /\ ProcessAttempts' = ProcessAttempts + IF pc = "suspended" THEN 0 ELSE 1
<1>1. PICK mm \in 0..Measurements, ii \in 0..(NumThreads - 1) :
              /\ m' = mm /\ i' = ii /\ pc' \in {"create", "print"}
              /\ pc' = "create" => mm < Measurements
              /\ pc' = "print" => mm = Measurements /\ ii = 0
              /\ \A x \in Nat : Tried(x, mm, ii) = Tried(x, m, i) + 1
  BY NextCreationCounts
<1>2. m \in Nat /\ i \in Nat /\ call \in 1..LastCall /\ ThreadCalls \in Nat
  BY CountAssumption DEF TypeOK
<1>3. ASSUME call <= ThreadCalls
      PROVE  ThreadAttempts' = ThreadAttempts + 1 /\ ProcessAttempts' = 0
  <2>1. call - 1 \in Nat /\ Kind(call) = "threads"
    BY <1>2, <1>3, KindOfCall DEF LastCall
  <2>2. ThreadAttempts' = Tried(call - 1, mm, ii) /\ ProcessAttempts' = 0
    BY <1>1, <2>1 DEF ThreadAttempts, ProcessAttempts, Tried
  <2> QED BY <1>1, <1>3, <2>1, <2>2, ThreadsTried
<1>4. ASSUME call > ThreadCalls
      PROVE  /\ ThreadAttempts' = ThreadAttempts
             /\ ProcessAttempts' = ProcessAttempts + IF pc = "suspended" THEN 0 ELSE 1
  <2>1. call - ThreadCalls - 1 \in Nat /\ Kind(call) # "threads"
    BY <1>2, <1>4, KindOfCall DEF LastCall
  <2>2. PICK n \in Nat : n = Tried(call - ThreadCalls - 1, m, i)
    BY <1>2, <2>1, TriedCounts
  <2>3. Tried(call - ThreadCalls - 1, mm, ii) = n + 1
    BY <1>1, <2>1, <2>2
  <2>4. ThreadAttempts' = ThreadAttempts
    BY <2>1 DEF ThreadAttempts
  <2>5. ProcessAttempts' = n + 1
    BY <1>1, <2>1, <2>3 DEF ProcessAttempts, Tried
  <2>6. ProcessAttempts = n + IF pc = "suspended" THEN 1 ELSE 0
    BY <2>1, <2>2 DEF ProcessAttempts, Tried
  <2> QED BY <2>4, <2>5, <2>6
<1> QED BY <1>1, <1>3, <1>4

\* Report goes from the end of one call to the start of the next: no creation.
LEMMA ReportCountsNothing ==
    ASSUME TypeOK, Position, Report
    PROVE  ThreadAttempts' = ThreadAttempts /\ ProcessAttempts' = ProcessAttempts
<1>1. m = Measurements /\ i = 0 /\ i' = 0 /\ pc = "print" /\ pc' # "suspended"
  BY DEF Position, Report
<1>2. call \in 1..LastCall /\ ThreadCalls \in Nat
  BY CountAssumption DEF TypeOK
<1>3. CASE call = LastCall
  <2>1. call' = call /\ m' = m
    BY <1>2, <1>3, CountAssumption DEF Report, LastCall
  <2> QED BY <1>1, <2>1 DEF ThreadAttempts, ProcessAttempts
<1>4. CASE call # LastCall
  <2>1. call' = call + 1 /\ m' = 0 /\ call + 1 \in 1..LastCall
    BY <1>2, <1>4, CountAssumption DEF Report, LastCall
  <2>2. ThreadAttempts' = IF call + 1 <= ThreadCalls THEN Tried(call, 0, 0)
                          ELSE Tried(ThreadCalls, 0, 0)
    <3>1. Tried(ThreadCalls, 0, 0) = ThreadCalls * Measurements * NumThreads
      BY CountAssumption DEF Tried
    <3>2. Kind(call + 1) = "threads" <=> call + 1 <= ThreadCalls
      BY <2>1, KindOfCall
    <3>3. (call + 1) - 1 = call
      BY <1>2
    <3> QED BY <1>1, <2>1, <3>1, <3>2, <3>3 DEF ThreadAttempts, Tried
  <2>3. ProcessAttempts' = IF call + 1 <= ThreadCalls THEN 0
                           ELSE Tried(call - ThreadCalls, 0, 0)
    <3>1. Kind(call + 1) = "threads" <=> call + 1 <= ThreadCalls
      BY <2>1, KindOfCall
    <3>2. (call + 1) - ThreadCalls - 1 = call - ThreadCalls
      BY <1>2
    <3>3. CASE call + 1 <= ThreadCalls
      BY <2>1, <3>1, <3>3 DEF ProcessAttempts
    <3>4. CASE ~ (call + 1 <= ThreadCalls)
      <4>1. call - ThreadCalls \in Nat
        BY <1>2, <3>4
      <4>2. Tried(call - ThreadCalls, 0, 0) \in Nat
        BY <4>1, TriedCounts
      <4>3. ProcessAttempts' = Tried(call - ThreadCalls, 0, 0) + 0
        BY <1>1, <2>1, <3>1, <3>2, <3>4 DEF ProcessAttempts, Tried
      <4> QED BY <3>4, <4>2, <4>3
    <3> QED BY <3>3, <3>4
  <2>4. CASE call < ThreadCalls
    <3>1. call - 1 \in Nat /\ (call - 1) + 1 = call
      BY <1>2 DEF LastCall
    <3>2. Tried(call - 1, Measurements, 0) = Tried(call, 0, 0)
      BY <3>1, TriedCounts
    <3> QED BY <1>1, <1>2, <2>2, <2>3, <2>4, <3>2, ThreadsTried, ProcessesTried
  <2>5. CASE call = ThreadCalls
    <3>1. call - 1 \in Nat /\ (call - 1) + 1 = call /\ call - ThreadCalls = 0
      BY <1>2, <2>5, CountAssumption DEF LastCall
    <3>2. Tried(call - 1, Measurements, 0) = Tried(call, 0, 0) /\ Tried(0, 0, 0) = 0
      BY <3>1, TriedCounts
    <3> QED BY <1>1, <1>2, <2>2, <2>3, <2>5, <3>1, <3>2, ThreadsTried, ProcessesTried
  <2>6. CASE call > ThreadCalls
    <3>1. /\ call - ThreadCalls - 1 \in Nat
          /\ (call - ThreadCalls - 1) + 1 = call - ThreadCalls
      BY <1>2, <2>6
    <3>2. /\ Tried(call - ThreadCalls - 1, Measurements, 0) = Tried(call - ThreadCalls, 0, 0)
          /\ Tried(call - ThreadCalls, 0, 0) \in Nat
      BY <3>1, TriedCounts
    <3>3. ProcessAttempts = Tried(call - ThreadCalls - 1, Measurements, 0) + 0
      BY <1>1, <1>2, <2>6, ProcessesTried
    <3> QED BY <1>1, <1>2, <2>2, <2>3, <2>6, <3>2, <3>3, ThreadsTried
  <2> QED BY <1>2, <2>4, <2>5, <2>6
<1> QED BY <1>3, <1>4

-----------------------------------------------------------------------------
(***************************************************************************)
(* The lines of output                                                     *)
(***************************************************************************)

\* A line is output at most once by the parent and once per forked child.
LEMMA FewCopies ==
    ASSUME NEW w \in Nat, NEW b \in 0..1, NEW p \in 0..1, NEW d \in 0..MaxProcesses,
           w + b = p + d
    PROVE  w \in 0..(MaxProcesses + 1)
BY CountAssumption

\* A step that prints and flushes nothing, and in which the exited children
\* have the same copy.
LEMMA NoOutput ==
    ASSUME Buffers, LinesAccounted, UNCHANGED <<output, stdout>>,
           forked' - children' = forked - children,
           copy' = copy \/ (forked - children = 0),
           \A l \in Lines : Printed(l)' <=> Printed(l)
    PROVE  LinesAccounted'
BY DEF LinesAccounted, output

LEMMA AccountsAreNat ==
    ASSUME TypeOK, NEW l \in Lines
    PROVE  /\ written[l] \in Nat /\ forked - children \in Nat
           /\ (IF l \in copy /\ stdout = "full" THEN forked - children ELSE 0) \in Nat
<1>1. written[l] \in Nat
  BY CountAssumption DEF TypeOK
<1>2. forked - children \in Nat
  BY CountAssumption DEF TypeOK
<1> QED BY <1>1, <1>2

LEMMA PrintfAccounts ==
    ASSUME TypeOK, Buffers, LinesAccounted, NEW k \in Lines, Printf(k), ~ Printed(k),
           UNCHANGED <<processes, stdout>>,
           \A l \in Lines : Printed(l)' <=> (Printed(l) \/ l = k)
    PROVE  /\ LinesAccounted' /\ mode' = mode
           /\ buf' = IF mode = "line" THEN buf ELSE buf \cup {k}
           /\ written' \in [Lines -> Nat]
<1>1. /\ mode' = mode /\ buf' = IF mode = "line" THEN buf ELSE buf \cup {k}
      /\ forked' = forked /\ children' = children /\ copy' = copy /\ stdout' = stdout
      /\ written' = [l \in Lines |-> written[l] + IF mode = "line" /\ l = k THEN 1 ELSE 0]
  BY DEF Printf, Write, processes, TypeOK
<1>2. k \notin buf
  BY DEF Buffers
<1>3. written' \in [Lines -> Nat]
  BY <1>1, CountAssumption DEF TypeOK
<1>4. ASSUME NEW l \in Lines
      PROVE  (written[l] + (IF l \in buf THEN 1 ELSE 0)
                = (IF Printed(l) THEN 1 ELSE 0)
                  + (IF l \in copy /\ stdout = "full" THEN forked - children ELSE 0))'
  <2>1. PICK w \in Nat, d \in Nat :
            /\ w = written[l]
            /\ d = IF l \in copy /\ stdout = "full" THEN forked - children ELSE 0
    BY AccountsAreNat
  <2>2. w + (IF l \in buf THEN 1 ELSE 0) = (IF Printed(l) THEN 1 ELSE 0) + d
    BY <2>1 DEF LinesAccounted
  <2>3. written'[l] = w + IF mode = "line" /\ l = k THEN 1 ELSE 0
    BY <1>1, <2>1
  <2>4. d = IF l \in copy' /\ stdout' = "full" THEN forked' - children' ELSE 0
    BY <1>1, <2>1
  <2>5. CASE l = k
    BY <1>1, <1>2, <2>2, <2>3, <2>4, <2>5
  <2>6. CASE l # k
    BY <1>1, <2>2, <2>3, <2>4, <2>6
  <2> QED BY <2>5, <2>6
<1> QED BY <1>1, <1>3, <1>4 DEF LinesAccounted

\* The parent's buffer is flushed: by its own exit or by a vforked child's.
LEMMA FlushAccounts ==
    ASSUME TypeOK, LinesAccounted, Write(buf), buf' = {}, UNCHANGED <<processes, stdout>>,
           \A l \in Lines : Printed(l)' <=> Printed(l)
    PROVE  LinesAccounted' /\ written' \in [Lines -> Nat]
<1>1. /\ forked' = forked /\ children' = children /\ copy' = copy /\ stdout' = stdout
      /\ written' = [l \in Lines |-> written[l] + IF l \in buf THEN 1 ELSE 0]
  BY DEF Write, processes
<1>2. written' \in [Lines -> Nat]
  BY <1>1, CountAssumption DEF TypeOK
<1>3. ASSUME NEW l \in Lines
      PROVE  (written[l] + (IF l \in buf THEN 1 ELSE 0)
                = (IF Printed(l) THEN 1 ELSE 0)
                  + (IF l \in copy /\ stdout = "full" THEN forked - children ELSE 0))'
  <2>1. PICK w \in Nat, d \in Nat :
            /\ w = written[l]
            /\ d = IF l \in copy /\ stdout = "full" THEN forked - children ELSE 0
    BY AccountsAreNat
  <2>2. w + (IF l \in buf THEN 1 ELSE 0) = (IF Printed(l) THEN 1 ELSE 0) + d
    BY <2>1 DEF LinesAccounted
  <2>3. written'[l] = w + (IF l \in buf THEN 1 ELSE 0) /\ l \notin buf'
    BY <1>1, <2>1
  <2>4. d = IF l \in copy' /\ stdout' = "full" THEN forked' - children' ELSE 0
    BY <1>1, <2>1
  <2> QED BY <2>2, <2>3, <2>4
<1> QED BY <1>2, <1>3 DEF LinesAccounted

\* A forked child exits and flushes its copy, of which a terminal leaves nothing.
LEMMA ChildExitAccounts ==
    ASSUME TypeOK, Buffers, LinesAccounted, ChildExits, stdout' = stdout
    PROVE  LinesAccounted' /\ written' \in [Lines -> Nat]
<1>1. /\ forked' = forked /\ children' = children - 1 /\ copy' = copy /\ buf' = buf
      /\ written' = [l \in Lines |-> written[l] + IF l \in copy THEN 1 ELSE 0]
  BY DEF ChildExits, Write
<1>2. written' \in [Lines -> Nat]
  BY <1>1, CountAssumption DEF TypeOK
<1>3. ASSUME NEW l \in Lines
      PROVE  (written[l] + (IF l \in buf THEN 1 ELSE 0)
                = (IF Printed(l) THEN 1 ELSE 0)
                  + (IF l \in copy /\ stdout = "full" THEN forked - children ELSE 0))'
  <2>1. PICK w \in Nat, n \in Nat : w = written[l] /\ n = forked - children
    BY AccountsAreNat
  <2>2. w + (IF l \in buf THEN 1 ELSE 0)
            = (IF Printed(l) THEN 1 ELSE 0) + (IF l \in copy /\ stdout = "full" THEN n ELSE 0)
    BY <2>1 DEF LinesAccounted
  <2>3. written'[l] = w + (IF l \in copy THEN 1 ELSE 0) /\ forked' - children' = n + 1
    <3>1. forked - (children - 1) = n + 1
      BY <2>1, CountAssumption DEF TypeOK
    <3> QED BY <1>1, <2>1, <3>1
  <2>4. Printed(l)' <=> Printed(l)
    BY DEF ChildExits, position, Printed
  <2>5. CASE l \in copy
    <3>1. stdout = "full"
      BY <2>5 DEF Buffers
    <3> QED BY <1>1, <2>2, <2>3, <2>4, <2>5, <3>1
  <2>6. CASE l \notin copy
    BY <1>1, <2>2, <2>3, <2>4, <2>6
  <2> QED BY <2>5, <2>6
<1> QED BY <1>2, <1>3 DEF LinesAccounted

LEMMA WrittenBounded ==
    ASSUME written' \in [Lines -> Nat], LinesAccounted', forked' \in 0..MaxProcesses,
           children' \in 0..forked'
    PROVE  written' \in [Lines -> 0..(MaxProcesses + 1)]
<1>1. ASSUME NEW l \in Lines PROVE written'[l] \in 0..(MaxProcesses + 1)
  <2>1. PICK w \in Nat, f \in 0..MaxProcesses : w = written'[l] /\ f = forked'
    BY <1>1
  <2>2. PICK c \in 0..f : c = children'
    BY <2>1
  <2>3. PICK b \in 0..1 : b = IF l \in buf' THEN 1 ELSE 0
    OBVIOUS
  <2>4. PICK p \in 0..1 : p = IF Printed(l)' THEN 1 ELSE 0
    OBVIOUS
  <2>5. PICK d \in 0..MaxProcesses :
            d = IF l \in copy' /\ stdout' = "full" THEN f - c ELSE 0
    <3>1. f - c \in 0..MaxProcesses /\ 0 \in 0..MaxProcesses
      BY CountAssumption
    <3> QED BY <3>1
  <2>6. w + b = p + d
    BY <2>1, <2>2, <2>3, <2>4, <2>5 DEF LinesAccounted
  <2> QED BY <2>1, <2>6, FewCopies
<1> QED BY <1>1

-----------------------------------------------------------------------------
(***************************************************************************)
(* One lemma per action                                                    *)
(***************************************************************************)
LEMMA InitEstablishes == ASSUME Init PROVE IInv
<1> USE CountAssumption
<1>1. Kind(call) = "threads" /\ call \in 1..LastCall
  BY KindOfCall DEF Init, LastCall
<1>2. TypeOK
  BY <1>1 DEF Init, TypeOK
<1>3. ThreadAttempts = 0 /\ ProcessAttempts = 0
  <2>1. ThreadAttempts = Tried(0, 0, 0)
    BY <1>1 DEF Init, ThreadAttempts, Tried
  <2>2. Tried(0, 0, 0) = 0
    BY TriedCounts
  <2> QED BY <1>1, <2>1, <2>2 DEF ProcessAttempts
<1>4. CreatedUpToLimit /\ Limits
  BY <1>1, <1>3 DEF Init, CreatedUpToLimit, Limits, Min
<1>5. Position /\ Buffers /\ LinesAccounted
  BY <1>1 DEF Init, Position, Buffers, LinesAccounted, Printed
<1> QED BY <1>2, <1>4, <1>5 DEF IInv

LEMMA InitTestPreserves == ASSUME IInv, InitTest, stdout' = stdout PROVE IInv'
<1> USE CountAssumption
<1>1. /\ pc = "init_test" /\ pc' \in {"create", "aborted"} /\ call = 1 /\ m = 0 /\ i = 0
      /\ call' = 1 /\ m' = 0 /\ i' = 0 /\ live' = live /\ unjoined' = unjoined
      /\ forked' = forked /\ children' = children /\ vforked' = vforked /\ copy' = copy
  BY DEF InitTest, IInv, Position, position, threads, processes
<1>2. Kind(call) = "threads" /\ call \in 1..LastCall
  BY <1>1, KindOfCall DEF LastCall
<1>3. ThreadAttempts' = ThreadAttempts /\ ProcessAttempts' = ProcessAttempts
  BY <1>1, <1>2 DEF ThreadAttempts, ProcessAttempts
<1>4. Position' /\ Limits' /\ CreatedUpToLimit'
  BY <1>1, <1>2, <1>3 DEF IInv, Position, Limits, CreatedUpToLimit
<1>5. CASE pc' = "aborted"
  <2>1. UNCHANGED output
    BY <1>5 DEF InitTest
  <2>2. \A l \in Lines : Printed(l)' <=> Printed(l)
    BY <1>1, <1>5 DEF Printed
  <2>3. LinesAccounted'
    BY <1>1, <2>1, <2>2, NoOutput DEF IInv
  <2>4. TypeOK'
    BY <1>1, <2>1 DEF IInv, TypeOK, output
  <2>5. Buffers'
    BY <1>1, <1>5, <2>1 DEF IInv, Buffers, output, Printed
  <2> QED BY <1>4, <2>3, <2>4, <2>5 DEF IInv
<1>6. CASE pc' = "create"
  <2>1. Printf(0) /\ 0 \in Lines
    BY <1>6 DEF InitTest, Lines, LastCall
  <2>2. ~ Printed(0) /\ \A l \in Lines : Printed(l)' <=> (Printed(l) \/ l = 0)
    BY <1>1, <1>6 DEF Printed, Lines, LastCall
  <2>3. UNCHANGED <<processes, stdout>>
    BY <1>1 DEF processes
  <2>4. /\ LinesAccounted' /\ mode' = mode /\ written' \in [Lines -> Nat]
        /\ buf' = IF mode = "line" THEN buf ELSE buf \cup {0}
    BY <2>1, <2>2, <2>3, PrintfAccounts DEF IInv
  <2>5. written' \in [Lines -> 0..(MaxProcesses + 1)]
    BY <1>1, <2>4, WrittenBounded DEF IInv, TypeOK
  <2>6. TypeOK'
    BY <1>1, <2>1, <2>4, <2>5 DEF IInv, TypeOK
  <2>7. Buffers'
    BY <1>1, <1>2, <1>6, <2>4 DEF IInv, Buffers, Printed
  <2> QED BY <1>4, <2>4, <2>6, <2>7 DEF IInv
<1> QED BY <1>1, <1>5, <1>6

\* Where main is after a creation: still before it reports.
LEMMA NotPrintedBySteps ==
    ASSUME pc \in {"create", "suspended"}, pc' \in {"create", "suspended", "print"},
           call' = call
    PROVE  \A l \in Lines : Printed(l)' <=> Printed(l)
BY DEF Printed

LEMMA CreateThreadPreserves == ASSUME IInv, CreateThread, stdout' = stdout PROVE IInv'
<1> USE CountAssumption
<1>1. /\ pc = "create" /\ Kind(call) = "threads" /\ NextCreation /\ call' = call
      /\ unjoined' = unjoined /\ UNCHANGED output
      /\ forked' = forked /\ children' = children /\ vforked' = vforked /\ copy' = copy
      /\ live' = IF live + unjoined < MaxStacks THEN live + 1 ELSE live
  BY DEF CreateThread, processes
<1>2. TypeOK /\ m < Measurements /\ call \in 1..LastCall /\ call <= ThreadCalls
  BY <1>1, KindOfCall DEF IInv, Position, TypeOK
<1>3. /\ m' \in 0..Measurements /\ i' \in 0..(NumThreads - 1)
      /\ pc' \in {"create", "print"}
      /\ pc' = "create" => m' < Measurements
      /\ pc' = "print" => m' = Measurements /\ i' = 0
      /\ ThreadAttempts' = ThreadAttempts + 1 /\ ProcessAttempts' = 0
  BY <1>1, <1>2, CreationCounts
<1>4. ThreadAttempts \in Nat /\ ProcessAttempts = 0
  BY <1>1, <1>2, AttemptsAreNat DEF ProcessAttempts
<1>5. Limits' /\ live' \in 0..MaxStacks
  BY <1>1, <1>2 DEF IInv, Limits, TypeOK
<1>6. TypeOK'
  BY <1>1, <1>2, <1>3, <1>5 DEF TypeOK, output
<1>7. Position'
  BY <1>1, <1>3 DEF Position
<1>8. CreatedUpToLimit'
  <2>1. live + unjoined = Min(ThreadAttempts, MaxStacks)
        /\ forked + vforked = Min(0, MaxProcesses)
    BY <1>1, <1>4 DEF IInv, CreatedUpToLimit
  <2>2. live' + unjoined' = Min(ThreadAttempts + 1, MaxStacks)
    BY <1>1, <1>2, <1>4, <2>1 DEF Min, TypeOK
  <2> QED BY <1>1, <1>3, <2>1, <2>2 DEF CreatedUpToLimit
<1>9. \A l \in Lines : Printed(l)' <=> Printed(l)
  BY <1>1, <1>3, NotPrintedBySteps
<1>10. LinesAccounted'
  BY <1>1, <1>9, NoOutput DEF IInv
<1>11. Buffers'
  BY <1>1, <1>2, <1>9 DEF IInv, Buffers, output, TypeOK
<1> QED BY <1>5, <1>6, <1>7, <1>8, <1>10, <1>11 DEF IInv

LEMMA ThreadExitsPreserves == ASSUME IInv, ThreadExits, stdout' = stdout PROVE IInv'
<1> USE CountAssumption
<1>1. /\ pc' = pc /\ call' = call /\ m' = m /\ i' = i /\ UNCHANGED output
      /\ forked' = forked /\ children' = children /\ vforked' = vforked /\ copy' = copy
      /\ live > 0 /\ live' = live - 1 /\ unjoined' = unjoined + 1
  BY DEF ThreadExits, position, processes
<1>2. /\ live' \in 0..MaxStacks /\ unjoined' \in 0..MaxStacks
      /\ live' + unjoined' = live + unjoined
  BY <1>1 DEF IInv, TypeOK, Limits
<1>3. TypeOK'
  BY <1>1, <1>2 DEF IInv, TypeOK, output
<1>4. Position' /\ Limits'
  BY <1>1, <1>2 DEF IInv, Position, Limits
<1>5. ThreadAttempts' = ThreadAttempts /\ ProcessAttempts' = ProcessAttempts
  BY <1>1 DEF ThreadAttempts, ProcessAttempts
<1>6. CreatedUpToLimit'
  BY <1>1, <1>2, <1>5 DEF IInv, CreatedUpToLimit
<1>7. \A l \in Lines : Printed(l)' <=> Printed(l)
  BY <1>1 DEF Printed
<1>8. LinesAccounted'
  BY <1>1, <1>7, NoOutput DEF IInv
<1>9. Buffers'
  BY <1>1, <1>7 DEF IInv, Buffers, output, TypeOK
<1> QED BY <1>3, <1>4, <1>6, <1>8, <1>9 DEF IInv

LEMMA ForkPreserves == ASSUME IInv, Fork, stdout' = stdout PROVE IInv'
<1> USE CountAssumption
<1>1. /\ pc = "create" /\ Kind(call) = "fork" /\ NextCreation /\ call' = call
      /\ live' = live /\ unjoined' = unjoined /\ vforked' = vforked /\ UNCHANGED output
  BY DEF Fork, threads
<1>2. TypeOK /\ m < Measurements /\ call \in 1..LastCall /\ call = ThreadCalls + 1
  BY <1>1, KindOfCall DEF IInv, Position, TypeOK
<1>3. /\ m' \in 0..Measurements /\ i' \in 0..(NumThreads - 1)
      /\ pc' \in {"create", "print"}
      /\ pc' = "create" => m' < Measurements
      /\ pc' = "print" => m' = Measurements /\ i' = 0
      /\ ThreadAttempts' = ThreadAttempts /\ ProcessAttempts' = ProcessAttempts + 1
  BY <1>1, <1>2, CreationCounts
<1>4. ProcessAttempts \in Nat
  BY <1>2, AttemptsAreNat
<1>5. /\ vforked = 0 /\ forked \in 0..MaxProcesses /\ children \in 0..forked
      /\ forked = Min(ProcessAttempts, MaxProcesses) /\ forked + vforked = forked
  BY <1>1, <1>2 DEF IInv, Limits, TypeOK, CreatedUpToLimit
<1>6. /\ forked' = IF forked < MaxProcesses THEN forked + 1 ELSE forked
      /\ children' = IF forked < MaxProcesses THEN children + 1 ELSE children
      /\ copy' = IF forked < MaxProcesses THEN buf ELSE copy
  BY <1>5 DEF Fork
<1>7. /\ forked' \in 0..MaxProcesses /\ children' \in 0..forked' /\ copy' \subseteq Lines
      /\ forked' = Min(ProcessAttempts + 1, MaxProcesses) /\ forked' + vforked' = forked'
      /\ forked' - children' = forked - children
  BY <1>1, <1>2, <1>4, <1>5, <1>6 DEF Min, TypeOK
<1>8. TypeOK'
  BY <1>1, <1>2, <1>3, <1>7 DEF TypeOK, output
<1>9. Position'
  BY <1>1, <1>3 DEF Position
<1>10. Limits'
  BY <1>1, <1>5, <1>7 DEF IInv, Limits
<1>11. CreatedUpToLimit'
  BY <1>1, <1>3, <1>7 DEF IInv, CreatedUpToLimit
<1>12. \A l \in Lines : Printed(l)' <=> Printed(l)
  BY <1>1, <1>3, NotPrintedBySteps
<1>13. copy' = copy \/ forked - children = 0
  BY <1>1, <1>5, <1>6 DEF IInv, Buffers
<1>14. LinesAccounted'
  BY <1>1, <1>7, <1>12, <1>13, NoOutput DEF IInv
<1>15. Buffers'
  <2>1. buf' = buf /\ mode' = mode
    BY <1>1 DEF output
  <2>2. copy' = buf \/ (copy' = copy /\ forked' = forked)
    BY <1>6
  <2>3. \A l \in buf' : Printed(l)'
    BY <1>2, <1>12, <2>1 DEF IInv, Buffers, TypeOK
  <2>4. stdout' = "line" => copy' = {}
    BY <2>2 DEF IInv, Buffers
  <2>5. forked' > 0 => copy' = buf'
    BY <1>1, <2>1, <2>2 DEF IInv, Buffers
  <2> QED BY <2>1, <2>3, <2>4, <2>5 DEF IInv, Buffers
<1> QED BY <1>8, <1>9, <1>10, <1>11, <1>14, <1>15 DEF IInv

LEMMA ChildExitsPreserves == ASSUME IInv, ChildExits, stdout' = stdout PROVE IInv'
<1> USE CountAssumption
<1>1. /\ pc' = pc /\ call' = call /\ m' = m /\ i' = i /\ live' = live
      /\ unjoined' = unjoined /\ forked' = forked /\ vforked' = vforked /\ copy' = copy
      /\ mode' = mode /\ buf' = buf /\ children > 0 /\ children' = children - 1
  BY DEF ChildExits, position, threads
<1>2. LinesAccounted' /\ written' \in [Lines -> Nat]
  BY ChildExitAccounts DEF IInv
<1>3. children' \in 0..forked' /\ forked' \in 0..MaxProcesses
  BY <1>1 DEF IInv, TypeOK
<1>4. written' \in [Lines -> 0..(MaxProcesses + 1)]
  BY <1>2, <1>3, WrittenBounded
<1>5. TypeOK'
  BY <1>1, <1>3, <1>4 DEF IInv, TypeOK
<1>6. Position' /\ Limits'
  BY <1>1 DEF IInv, Position, Limits
<1>7. ThreadAttempts' = ThreadAttempts /\ ProcessAttempts' = ProcessAttempts
  BY <1>1 DEF ThreadAttempts, ProcessAttempts
<1>8. CreatedUpToLimit'
  BY <1>1, <1>7 DEF IInv, CreatedUpToLimit
<1>9. Buffers'
  BY <1>1 DEF IInv, Buffers, Printed
<1> QED BY <1>2, <1>5, <1>6, <1>8, <1>9 DEF IInv

LEMMA VforkPreserves == ASSUME IInv, Vfork, stdout' = stdout PROVE IInv'
<1> USE CountAssumption
<1>1. /\ pc = "create" /\ Kind(call) = "vfork" /\ call' = call /\ UNCHANGED output
      /\ live' = live /\ unjoined' = unjoined
      /\ forked' = forked /\ children' = children /\ copy' = copy
  BY DEF Vfork, threads
<1>2. /\ TypeOK /\ m < Measurements /\ call \in 1..LastCall /\ call = LastCall
      /\ call > ThreadCalls
  BY <1>1, KindOfCall DEF IInv, Position, TypeOK, LastCall
<1>3. PICK n \in Nat : n = ProcessAttempts /\ forked + vforked = Min(n, MaxProcesses)
  BY <1>1, <1>2, AttemptsAreNat DEF IInv, CreatedUpToLimit
<1>4. forked \in 0..MaxProcesses /\ vforked \in 0..MaxProcesses
  BY DEF IInv, TypeOK
<1>5. /\ pc' \in {"create", "suspended", "print"} /\ ThreadAttempts' = ThreadAttempts
      /\ m' \in 0..Measurements /\ i' \in 0..(NumThreads - 1)
      /\ pc' \in {"create", "suspended"} => m' < Measurements
      /\ pc' = "print" => m' = Measurements /\ i' = 0
      /\ vforked' \in 0..MaxProcesses /\ forked' + vforked' <= MaxProcesses
      /\ forked' + vforked' = Min(n + 1, MaxProcesses) /\ ProcessAttempts' = n + 1
  <2>1. CASE forked + vforked < MaxProcesses
    <3>1. vforked' = vforked + 1 /\ pc' = "suspended" /\ m' = m /\ i' = i
      BY <2>1 DEF Vfork
    <3>2. ThreadAttempts' = ThreadAttempts
      BY <1>1, <3>1 DEF ThreadAttempts
    <3>3. ProcessAttempts' = n + 1
      <4>1. call - ThreadCalls - 1 \in Nat /\ m \in Nat /\ i \in Nat
        BY <1>2 DEF LastCall, TypeOK
      <4>2. PICK t \in Nat : t = Tried(call - ThreadCalls - 1, m, i)
        BY <4>1, TriedCounts
      <4>3. ProcessAttempts = t + 0
        BY <1>1, <1>2, <4>2, ProcessesTried
      <4>4. ProcessAttempts' = t + 1
        BY <1>1, <3>1, <4>2 DEF ProcessAttempts, Tried
      <4> QED BY <1>3, <4>3, <4>4
    <3>4. /\ vforked + 1 \in 0..MaxProcesses /\ forked + (vforked + 1) <= MaxProcesses
          /\ forked + (vforked + 1) = Min(n + 1, MaxProcesses)
      BY <1>3, <1>4, <2>1 DEF Min
    <3>5. m' \in 0..Measurements /\ i' \in 0..(NumThreads - 1) /\ m' < Measurements
      BY <1>2, <3>1 DEF TypeOK
    <3> QED BY <1>1, <3>1, <3>2, <3>3, <3>4, <3>5
  <2>2. CASE ~ (forked + vforked < MaxProcesses)
    <3>1. NextCreation /\ vforked' = vforked
      BY <2>2 DEF Vfork
    <3>2. /\ m' \in 0..Measurements /\ i' \in 0..(NumThreads - 1)
          /\ pc' \in {"create", "print"}
          /\ pc' = "create" => m' < Measurements
          /\ pc' = "print" => m' = Measurements /\ i' = 0
          /\ ThreadAttempts' = ThreadAttempts /\ ProcessAttempts' = ProcessAttempts + 1
      BY <1>1, <1>2, <3>1, CreationCounts
    <3>3. forked + vforked <= MaxProcesses /\ forked + vforked = Min(n + 1, MaxProcesses)
      BY <1>3, <1>4, <2>2 DEF Min
    <3> QED BY <1>1, <1>3, <1>4, <3>1, <3>2, <3>3
  <2> QED BY <2>1, <2>2
<1>6. TypeOK'
  BY <1>1, <1>2, <1>5 DEF TypeOK, output
<1>7. Position'
  BY <1>1, <1>5 DEF Position
<1>8. Limits'
  BY <1>1, <1>5 DEF IInv, Limits
<1>9. CreatedUpToLimit'
  BY <1>1, <1>5 DEF IInv, CreatedUpToLimit
<1>10. \A l \in Lines : Printed(l)' <=> Printed(l)
  BY <1>1, <1>5, NotPrintedBySteps
<1>11. LinesAccounted'
  BY <1>1, <1>10, NoOutput DEF IInv
<1>12. Buffers'
  BY <1>1, <1>2, <1>10 DEF IInv, Buffers, output, TypeOK
<1> QED BY <1>6, <1>7, <1>8, <1>9, <1>11, <1>12 DEF IInv

LEMMA VforkChildExitsPreserves ==
    ASSUME IInv, VforkChildExits, stdout' = stdout PROVE IInv'
<1> USE CountAssumption
<1>1. /\ pc = "suspended" /\ NextCreation /\ call' = call /\ Write(buf) /\ buf' = {}
      /\ mode' \in {mode, "line"} /\ live' = live /\ unjoined' = unjoined
      /\ forked' = forked /\ children' = children /\ vforked' = vforked /\ copy' = copy
  BY DEF VforkChildExits, threads, processes
<1>2. /\ TypeOK /\ m < Measurements /\ call \in 1..LastCall /\ call > ThreadCalls
      /\ Kind(call) = "vfork"
  BY <1>1, KindOfCall DEF IInv, Position, TypeOK, LastCall
<1>3. ProcessAttempts \in Nat
  BY <1>2, AttemptsAreNat
<1>4. /\ m' \in 0..Measurements /\ i' \in 0..(NumThreads - 1)
      /\ pc' \in {"create", "print"}
      /\ pc' = "create" => m' < Measurements
      /\ pc' = "print" => m' = Measurements /\ i' = 0
      /\ ThreadAttempts' = ThreadAttempts /\ ProcessAttempts' = ProcessAttempts + 0
  BY <1>1, <1>2, CreationCounts
<1>5. \A l \in Lines : Printed(l)' <=> Printed(l)
  BY <1>1, <1>4, NotPrintedBySteps
<1>6. LinesAccounted' /\ written' \in [Lines -> Nat]
  BY <1>1, <1>5, FlushAccounts DEF IInv, processes
<1>7. written' \in [Lines -> 0..(MaxProcesses + 1)]
  BY <1>1, <1>2, <1>6, WrittenBounded DEF TypeOK
<1>8. TypeOK'
  BY <1>1, <1>2, <1>4, <1>7 DEF TypeOK
<1>9. Position' /\ Limits'
  BY <1>1, <1>2, <1>4 DEF IInv, Position, Limits
<1>10. CreatedUpToLimit'
  BY <1>1, <1>3, <1>4 DEF IInv, CreatedUpToLimit
<1>11. Buffers'
  BY <1>1, <1>2 DEF IInv, Buffers
<1> QED BY <1>6, <1>8, <1>9, <1>10, <1>11 DEF IInv

LEMMA ReportPreserves == ASSUME IInv, Report, stdout' = stdout PROVE IInv'
<1> USE CountAssumption
<1>1. /\ pc = "print" /\ Printf(call) /\ i' = i /\ live' = live /\ unjoined' = unjoined
      /\ forked' = forked /\ children' = children /\ vforked' = vforked /\ copy' = copy
  BY DEF Report, threads, processes
<1>2. /\ TypeOK /\ call \in 1..LastCall /\ call \in Lines /\ m = Measurements /\ i = 0
      /\ LastCall \in Nat
  BY <1>1 DEF IInv, Position, TypeOK, Lines, LastCall
<1>3. \/ call < LastCall /\ call' = call + 1 /\ m' = 0 /\ pc' = "create"
      \/ call = LastCall /\ pc' = "return" /\ call' = call /\ m' = m
  BY DEF Report
<1>4. ThreadAttempts' = ThreadAttempts /\ ProcessAttempts' = ProcessAttempts
  BY ReportCountsNothing DEF IInv
<1>5. call' \in 1..LastCall /\ m' \in 0..Measurements /\ pc' \in {"create", "return"}
  BY <1>2, <1>3
<1>6. /\ Kind(call') = "threads" => Kind(call) = "threads"
      /\ Kind(call') = "fork" => Kind(call) = "threads"
      /\ Kind(call') # "vfork" => Kind(call) # "vfork"
  <2>1. CASE call' = call
    <3>1. call = LastCall
      BY <1>2, <1>3, <2>1
    <3> QED BY <1>2, <2>1, <3>1, KindOfCall DEF LastCall
  <2>2. CASE call < LastCall /\ call' = call + 1
    <3>1. call + 1 \in 1..LastCall
      BY <1>2, <2>2
    <3>2. /\ Kind(call + 1) = "threads" <=> call + 1 <= ThreadCalls
          /\ Kind(call + 1) = "fork" <=> call + 1 = ThreadCalls + 1
          /\ Kind(call + 1) = "vfork" <=> call + 1 = LastCall
      BY <3>1, KindOfCall
    <3>3. /\ Kind(call) = "threads" <=> call <= ThreadCalls
          /\ Kind(call) = "fork" <=> call = ThreadCalls + 1
          /\ Kind(call) = "vfork" <=> call = LastCall
      BY <1>2, KindOfCall
    <3>4. /\ call + 1 <= ThreadCalls => call <= ThreadCalls
          /\ call + 1 = ThreadCalls + 1 => call <= ThreadCalls
      BY <1>2
    <3> QED BY <1>2, <2>2, <3>2, <3>3, <3>4
  <2> QED BY <1>3, <2>1, <2>2
<1>7. ~ Printed(call) /\ \A l \in Lines : Printed(l)' <=> (Printed(l) \/ l = call)
  <2>1. \A l \in Lines : l \in Nat /\ l <= LastCall
    BY <1>2 DEF Lines
  <2> QED BY <1>1, <1>2, <1>3, <2>1 DEF Printed
<1>8. UNCHANGED <<processes, stdout>>
  BY <1>1 DEF processes
<1>9. /\ LinesAccounted' /\ mode' = mode /\ written' \in [Lines -> Nat]
      /\ buf' = IF mode = "line" THEN buf ELSE buf \cup {call}
  BY <1>1, <1>2, <1>7, <1>8, PrintfAccounts DEF IInv
<1>10. written' \in [Lines -> 0..(MaxProcesses + 1)]
  BY <1>1, <1>2, <1>9, WrittenBounded DEF TypeOK
<1>11. TypeOK'
  BY <1>1, <1>2, <1>5, <1>9, <1>10 DEF TypeOK
<1>12. Position'
  BY <1>1, <1>2, <1>3 DEF Position
<1>13. Limits'
  BY <1>1, <1>6 DEF IInv, Limits
<1>14. CreatedUpToLimit'
  BY <1>1, <1>4 DEF IInv, CreatedUpToLimit
<1>15. Buffers'
  <2>1. \A l \in buf' : Printed(l)'
    BY <1>2, <1>7, <1>9 DEF IInv, Buffers, TypeOK
  <2>2. stdout' = "line" => mode' = "line" /\ buf' = {} /\ copy' = {}
    BY <1>1, <1>9 DEF IInv, Buffers
  <2>3. ~ (Kind(call') = "fork" /\ forked' > 0)
    BY <1>1, <1>6 DEF IInv, Limits
  <2> QED BY <2>1, <2>2, <2>3 DEF IInv, Buffers
<1> QED BY <1>9, <1>11, <1>12, <1>13, <1>14, <1>15 DEF IInv

LEMMA ReturnPreserves == ASSUME IInv, Return, stdout' = stdout PROVE IInv'
<1> USE CountAssumption
<1>1. /\ pc = "return" /\ pc' = "exited" /\ live' = 0 /\ Write(buf) /\ buf' = {}
      /\ call' = call /\ m' = m /\ i' = i /\ unjoined' = unjoined /\ mode' = mode
      /\ forked' = forked /\ children' = children /\ vforked' = vforked /\ copy' = copy
  BY DEF Return, position, processes
<1>2. \A l \in Lines : Printed(l)' <=> Printed(l)
  BY <1>1 DEF Printed
<1>3. LinesAccounted' /\ written' \in [Lines -> Nat]
  BY <1>1, <1>2, FlushAccounts DEF IInv, processes
<1>4. written' \in [Lines -> 0..(MaxProcesses + 1)]
  BY <1>1, <1>3, WrittenBounded DEF IInv, TypeOK
<1>5. TypeOK'
  BY <1>1, <1>4 DEF IInv, TypeOK
<1>6. Position' /\ CreatedUpToLimit'
  BY <1>1 DEF IInv, Position, CreatedUpToLimit
<1>7. Limits'
  BY <1>1 DEF IInv, Limits, TypeOK
<1>8. call = LastCall /\ Kind(call) = "vfork"
  BY <1>1, KindOfCall DEF IInv, Position, TypeOK
<1>9. Buffers'
  BY <1>1, <1>8 DEF IInv, Buffers
<1> QED BY <1>3, <1>5, <1>6, <1>7, <1>9 DEF IInv

-----------------------------------------------------------------------------
LEMMA Invariance == Spec => []IInv
<1>1. IInv /\ [Next]_vars => IInv'
  <2>1. ASSUME IInv, NEW task \in Tasks, Step(task) PROVE IInv'
    BY <2>1, InitTestPreserves, CreateThreadPreserves, ThreadExitsPreserves, ForkPreserves,
       ChildExitsPreserves, VforkPreserves, VforkChildExitsPreserves, ReportPreserves,
       ReturnPreserves
       DEF Step, Parent
  <2>2. ASSUME IInv, UNCHANGED vars PROVE IInv'
    BY <2>2 DEF vars, IInv, TypeOK, Position, Limits, CreatedUpToLimit, ThreadAttempts,
                ProcessAttempts, Buffers, LinesAccounted, Printed
  <2> QED BY <2>1, <2>2 DEF Next
<1> QED BY InitEstablishes, <1>1, PTL DEF Spec

\* Types, for any number of calls, measurements and creations and any limits: no more
\* stacks and processes than fit, and no line more than once per process that flushes it.
THEOREM TypeCorrect == Spec => []TypeOK
<1>1. IInv => TypeOK
  BY DEF IInv
<1> QED BY Invariance, <1>1, PTL

\* Threads and processes pile up to the limit, and from there on every creation that is
\* timed fails, in whatever order threads and children exit.
THEOREM CreationsStopAtLimit == Spec => []CreatedUpToLimit
<1>1. IInv => CreatedUpToLimit
  BY DEF IInv
<1> QED BY Invariance, <1>1, PTL

\* Each line is output once by the parent, and once more by each forked child that has
\* exited if it was still buffered when the parent forked.
THEOREM OutputAccounted == Spec => []LinesAccounted
<1>1. IInv => LinesAccounted
  BY DEF IInv
<1> QED BY Invariance, <1>1, PTL
=============================================================================
