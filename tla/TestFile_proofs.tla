--------------------------- MODULE TestFile_proofs ---------------------------
(***************************************************************************)
(* The programs that write test.file, for every range of file sizes and    *)
(* every number of passes and of programs run one after the other.         *)
(* file_read.c: the shuffle loses no block, and a run on test.file reads   *)
(* the file it has written.  file_cache.c and page_fault_access.c: which   *)
(* pages the access loop touches, and what that means for page faults and  *)
(* bus errors.                                                             *)
(***************************************************************************)
EXTENDS TestFile, TLAPS

-----------------------------------------------------------------------------
(***************************************************************************)
(* file_read.c                                                             *)
(***************************************************************************)
\* The sizes stay positive and two blocks long at least.
LEMMA Sizes ==
    ASSUME TypeOK
    PROVE  /\ numBlocks \in Nat /\ numBlocks >= 2 /\ i \in Nat
           /\ \A k : k \in Blocks <=> (k \in Nat /\ k < numBlocks)
BY SizeAssumption DEF TypeOK, Blocks

LEMMA InitEstablishes == Init => IInv
<1>1. ASSUME Init PROVE disk \in [Names -> {"none", "old", "written"}] /\ Written
  BY <1>1 DEF Init, Written, Names
<1> QED BY <1>1, SizeAssumption DEF Init, IInv, TypeOK, Complete, ShuffleInRange, Asked, Measuring,
           Blocks

\* One exchange of the shuffle.
LEMMA ExchangePreserves ==
    ASSUME IInv, pc = "shuffle", i > 0, i' = i - 1, NEW j \in RandIndex(i),
           indices' = Swap(indices, i, j),
           UNCHANGED <<target, randomAccess, pc, numBlocks, asked, disk, opened>>
    PROVE  IInv'
<1> USE DEF IInv
<1>1. /\ i \in Blocks /\ j \in Blocks /\ j < i /\ i \in Nat /\ j \in Nat
      /\ numBlocks \in Nat /\ numBlocks >= 2
      /\ \A k : k \in Blocks <=> (k \in Nat /\ k < numBlocks)
  BY Sizes DEF RandIndex, ShuffleInRange
<1>2. indices \in [Blocks -> Blocks] /\ Blocks' = Blocks
  BY DEF TypeOK, Measuring, Blocks
<1>3. /\ indices' \in [Blocks -> Blocks]
      /\ indices'[i] = indices[j] /\ indices'[j] = indices[i]
      /\ \A k \in Blocks : k # i /\ k # j => indices'[k] = indices[k]
  BY <1>1, <1>2 DEF Swap
<1>4. TypeOK'
  BY <1>1, <1>2, <1>3 DEF TypeOK, Measuring
<1>5. Complete'
  <2>1. SUFFICES ASSUME NEW b \in Blocks PROVE \E k \in Blocks : indices'[k] = b
    BY <1>2 DEF Complete
  <2>2. PICK k \in Blocks : indices[k] = b
    BY DEF Complete, Measuring
  <2>3. CASE k = i
    BY <1>1, <1>3, <2>2, <2>3
  <2>4. CASE k = j
    BY <1>1, <1>3, <2>2, <2>4
  <2>5. CASE k # i /\ k # j
    BY <1>1, <1>3, <2>2, <2>5
  <2> QED BY <2>3, <2>4, <2>5
<1>6. ShuffleInRange'
  BY <1>1 DEF ShuffleInRange
<1>7. Asked'
  BY DEF Asked
<1>8. Written'
  BY DEF Written
<1> QED BY <1>4, <1>5, <1>6, <1>7, <1>8

\* The shuffle, exchange by exchange, and its end.
LEMMA ShufflePreserves == ASSUME IInv, Shuffle, UNCHANGED <<target, randomAccess>> PROVE IInv'
<1>1. pc = "shuffle" /\ UNCHANGED <<numBlocks, asked, disk, opened>>
  BY DEF Shuffle
<1>2. CASE /\ i > 0 /\ i' = i - 1 /\ UNCHANGED pc
           /\ \E j \in RandIndex(i) : indices' = Swap(indices, i, j)
  BY <1>1, <1>2, ExchangePreserves
<1>3. CASE i = 0 /\ pc' = "memalign" /\ UNCHANGED <<indices, i>>
  <2>1. TypeOK'
    BY <1>1, <1>3 DEF IInv, TypeOK, Measuring, Blocks
  <2>2. Complete'
    BY <1>1, <1>3 DEF IInv, Complete, Measuring, Blocks
  <2>3. ShuffleInRange'
    BY <1>1, <1>3 DEF IInv, ShuffleInRange, Blocks
  <2>4. Asked'
    BY <1>1, <1>3 DEF IInv, Asked
  <2>5. Written'
    BY <1>1, <1>3 DEF IInv, Written
  <2> QED BY <2>1, <2>2, <2>3, <2>4, <2>5 DEF IInv
<1> QED BY <1>2, <1>3 DEF Shuffle

\* The identity is complete, and the shuffle starts from it.
LEMMA FillPreserves == ASSUME IInv, FillIndices, UNCHANGED <<target, randomAccess>> PROVE IInv'
<1>1. /\ numBlocks \in Nat /\ numBlocks >= 2 /\ Blocks' = Blocks
      /\ \A k : k \in Blocks <=> (k \in Nat /\ k < numBlocks)
  BY Sizes DEF IInv, FillIndices, Blocks
<1>2. indices' \in [Blocks -> Blocks] /\ \A k \in Blocks : indices'[k] = k
  BY DEF FillIndices, Identity, Blocks
<1>3. pc' \in {"shuffle", "memalign"} /\ (pc' = "shuffle" <=> randomAccess = "true")
  BY DEF FillIndices
<1>4. i' = numBlocks - 1 /\ UNCHANGED <<numBlocks, asked, disk, opened>>
  BY DEF FillIndices
<1>5. TypeOK'
  BY <1>1, <1>2, <1>3, <1>4 DEF IInv, TypeOK, Measuring
<1>6. Complete'
  BY <1>1, <1>2 DEF Complete
<1>7. ShuffleInRange'
  BY <1>1, <1>4 DEF ShuffleInRange
<1>8. Asked'
  BY <1>3 DEF Asked
<1>9. Written'
  BY <1>3, <1>4 DEF FillIndices, IInv, Written
<1> QED BY <1>5, <1>6, <1>7, <1>8, <1>9 DEF IInv

LEMMA MemalignPreserves == ASSUME IInv, Memalign, UNCHANGED <<target, randomAccess>> PROVE IInv'
<1>1. pc = "memalign" /\ pc' \in {"read", "failed"} /\ Blocks' = Blocks
      /\ UNCHANGED <<numBlocks, indices, disk, opened>>
  BY DEF Memalign, Blocks
<1>2. pc' = "read" => i' = 0 /\ asked' = {}
  BY DEF Memalign
<1>3. TypeOK'
  BY <1>1, Sizes DEF Memalign, IInv, TypeOK, Measuring
<1>4. Complete'
  BY <1>1 DEF IInv, Complete, Measuring
<1>5. ShuffleInRange'
  BY <1>1 DEF IInv, ShuffleInRange
<1>6. Asked'
  <2>1. ASSUME pc' = "read" PROVE {indices'[k] : k \in 0..(i' - 1)} = {}
    BY <1>2, <2>1
  <2> QED BY <1>1, <1>2, <2>1 DEF Asked
<1>7. Written'
  BY <1>1 DEF IInv, Written
<1> QED BY <1>3, <1>4, <1>5, <1>6, <1>7 DEF IInv

\* Each block is asked for by the end of the reads, because the array lost none.
LEMMA PreadPreserves == ASSUME IInv, Pread, UNCHANGED <<target, randomAccess>> PROVE IInv'
<1>1. pc = "read" /\ pc' \in {"read", "unlink"} /\ Blocks' = Blocks
      /\ UNCHANGED <<numBlocks, indices, disk, opened>>
  BY DEF Pread, Blocks
<1>2. /\ numBlocks \in Nat /\ numBlocks >= 2 /\ i \in Nat /\ i <= numBlocks
      /\ \A k : k \in Blocks <=> (k \in Nat /\ k < numBlocks)
      /\ indices \in [Blocks -> Blocks] /\ asked \subseteq Blocks
  BY <1>1, Sizes DEF IInv, TypeOK, Measuring
<1>3. Complete'
  BY <1>1 DEF IInv, Complete, Measuring
<1>4. ShuffleInRange'
  BY <1>1 DEF IInv, ShuffleInRange
<1>5. Written'
  BY <1>1 DEF IInv, Written
<1>6. CASE i < numBlocks /\ i' = i + 1 /\ asked' = asked \cup {indices[i]} /\ UNCHANGED pc
  <2>1. TypeOK'
    BY <1>1, <1>2, <1>6 DEF IInv, TypeOK, Measuring
  <2>2. asked = {indices[k] : k \in 0..(i - 1)}
    BY <1>1 DEF IInv, Asked
  <2>3. asked' = {indices[k] : k \in 0..i}
    BY <1>2, <1>6, <2>2
  <2>4. Asked'
    BY <1>1, <1>2, <1>6, <2>3 DEF Asked
  <2> QED BY <1>3, <1>4, <1>5, <2>1, <2>4 DEF IInv
<1>7. CASE i = numBlocks /\ pc' = "unlink" /\ UNCHANGED <<i, asked>>
  <2>1. TypeOK'
    BY <1>1, <1>2, <1>7 DEF IInv, TypeOK, Measuring
  <2>2. asked = {indices[k] : k \in Blocks}
    BY <1>1, <1>7 DEF IInv, Asked, Blocks
  <2>3. \A b \in Blocks : \E k \in Blocks : indices[k] = b
    BY <1>1 DEF IInv, Complete, Measuring
  <2>4. asked = Blocks
    BY <1>2, <2>2, <2>3
  <2>5. Asked'
    BY <1>1, <1>7, <2>4 DEF Asked
  <2> QED BY <1>3, <1>4, <1>5, <2>1, <2>5 DEF IInv
<1> QED BY <1>6, <1>7 DEF Pread

LEMMA UnlinkPreserves ==
    ASSUME IInv, CloseAndUnlink, UNCHANGED <<target, randomAccess>> PROVE IInv'
<1>1. pc = "unlink" /\ pc' \in {"write", "exited"}
  BY DEF CloseAndUnlink
<1>2. numBlocks' \in MinBlocks..(MaxBlocks - 1) /\ i' \in 0..numBlocks'
  BY SizeAssumption, Sizes DEF CloseAndUnlink, IInv, TypeOK, More
<1>3. disk' \in [Names -> {"none", "old", "written"}] /\ opened' = "none"
  BY DEF CloseAndUnlink, IInv, TypeOK
<1>4. Written'
  BY <1>1 DEF CloseAndUnlink, IInv, TypeOK, Written, Names
<1> QED BY <1>1, <1>2, <1>3, <1>4 DEF IInv, TypeOK, Complete, ShuffleInRange, Asked, Measuring

\* The steps that touch neither the array nor the reads.
LEMMA OthersPreserve ==
    ASSUME IInv, InitTest \/ WriteToDisk \/ DropCaches \/ Open,
           UNCHANGED <<target, randomAccess>>
    PROVE  IInv'
<1>1. /\ pc' \in {"write", "drop_caches", "open", "fill", "aborted"}
      /\ UNCHANGED <<numBlocks, i>>
  BY DEF InitTest, WriteToDisk, DropCaches, Open, Asserted
<1>2. disk' \in [Names -> {"none", "old", "written"}]
  BY DEF InitTest, WriteToDisk, DropCaches, Open, Asserted, IInv, TypeOK
<1>3. opened' \in {"none", "old", "written"}
  BY DEF InitTest, WriteToDisk, DropCaches, Open, Asserted, IInv, TypeOK, Names
<1>4. Written'
  <2>1. target \in Names /\ disk \in [Names -> {"none", "old", "written"}] /\ Written
    BY DEF IInv, TypeOK
  <2>2. CASE InitTest \/ DropCaches
    BY <2>1, <2>2 DEF InitTest, DropCaches, Asserted, Written
  <2>3. CASE WriteToDisk
    BY <2>1, <2>3 DEF WriteToDisk, Written, Names
  <2>4. CASE Open
    BY <2>1, <2>4 DEF Open, Written, Names
  <2> QED BY <2>2, <2>3, <2>4
<1> QED BY <1>1, <1>2, <1>3, <1>4 DEF IInv, TypeOK, Complete, ShuffleInRange, Asked, Measuring

LEMMA NextPreserves == ASSUME IInv, Next PROVE IInv'
BY ShufflePreserves, FillPreserves, MemalignPreserves, PreadPreserves, UnlinkPreserves,
   OthersPreserve DEF Next, Step

LEMMA StutterPreserves == ASSUME IInv, UNCHANGED vars PROVE IInv'
<1> USE DEF vars, IInv, Measuring, Blocks
<1>1. TypeOK'
  BY DEF TypeOK
<1>2. Complete' /\ Asked'
  BY DEF Complete, Asked
<1>3. ShuffleInRange'
  BY DEF ShuffleInRange
<1>4. Written'
  BY DEF Written
<1> QED BY <1>1, <1>2, <1>3, <1>4

LEMMA Invariance == Spec => []IInv
<1>1. IInv /\ [Next]_vars => IInv'
  BY NextPreserves, StutterPreserves
<1> QED BY InitEstablishes, <1>1, PTL DEF Spec

\* What the invariant says of a finished pass over the blocks.
LEMMA ReadOnce == ASSUME IInv PROVE EachBlockOnce
BY DEF IInv, Asked, EachBlockOnce

LEMMA OwnFile == ASSUME IInv PROVE MeasuresFreshFile
BY DEF IInv, Written, MeasuresFreshFile

\* Type correctness: the loops of file_read.c stay inside the arrays.
THEOREM TypeCorrect == Spec => []TypeOK
<1>1. IInv => TypeOK
  BY DEF IInv
<1> QED BY Invariance, <1>1, PTL

\* Whatever rand() returns and however many blocks there are, the time printed
\* is that of one read of each block of the file.
THEOREM ReadsEachBlockOnce == Spec => []EachBlockOnce
<1>1. IInv => EachBlockOnce
  BY ReadOnce
<1> QED BY Invariance, <1>1, PTL

\* print_for measures the file it has just written if its target is test.file,
\* whatever was on the disk.
THEOREM MeasuresOwnFile == Spec => []MeasuresFreshFile
<1>1. IInv => MeasuresFreshFile
  BY OwnFile
<1> QED BY Invariance, <1>1, PTL

-----------------------------------------------------------------------------
(***************************************************************************)
(* file_cache.c and page_fault_access.c                                    *)
(***************************************************************************)
LEMMA PageNumbers ==
    /\ PageSize \in Nat /\ PageSize > 0 /\ IntSize \in Nat /\ 0 < IntSize /\ IntSize < PageSize
    /\ MinPages \in Nat /\ MinPages > 0 /\ MaxPages \in Nat /\ MinPages <= MaxPages
    /\ FirstHot \in Nat /\ FirstHot > 0 /\ Passes \in Nat /\ FirstHot < Passes
BY PageAssumption, PassAssumption

\* The page of mem[n] is far behind n: an int is smaller than a page.
LEMMA PageBehindIndex ==
    ASSUME NEW n \in Nat
    PROVE  P!PageOf(n) \in Nat /\ P!PageOf(0) = 0 /\ (n > 0 => P!PageOf(n) < n)
<1> DEFINE m == n * IntSize
           q == m \div PageSize
<1>1. m \in Nat
  BY PageNumbers
<1>2. q \in Nat /\ PageSize * q <= m
  BY <1>1, PageNumbers
<1>3. ASSUME n > 0, q >= n PROVE FALSE
  <2>1. PageSize * n <= PageSize * q
    BY <1>2, <1>3, PageNumbers
  <2>2. n * IntSize < PageSize * n
    BY <1>3, PageNumbers
  <2> QED BY <1>1, <1>2, <2>1, <2>2, PageNumbers
<1>4. P!PageOf(n) = q /\ P!PageOf(0) = 0
  BY PageNumbers DEF P!PageOf
<1> QED BY <1>2, <1>3, <1>4

\* Multiples of the step.
LEMMA Multiples ==
    ASSUME NEW j \in Nat, NEW k \in Nat
    PROVE  /\ k <= k * PageSize /\ k * PageSize \in Nat
           /\ k * PageSize + PageSize = (k + 1) * PageSize
           /\ (j <= k => j * PageSize <= k * PageSize)
           /\ (j * PageSize < (k + 1) * PageSize => j <= k)
<1>1. k * PageSize \in Nat /\ k * PageSize + PageSize = (k + 1) * PageSize
  BY PageNumbers
<1>2. k <= k * PageSize
  BY PageNumbers
<1>3. j <= k => j * PageSize <= k * PageSize
  BY PageNumbers
<1>4. ASSUME j > k PROVE j * PageSize >= (k + 1) * PageSize
  BY <1>4, PageNumbers
<1> QED BY <1>1, <1>2, <1>3, <1>4, PageNumbers

\* The first opening of the invariant: everything is at its beginning.
LEMMA PageInitEstablishes == ASSUME P!Init PROVE P!IInv
BY PageNumbers DEF P!Init, P!IInv, P!TypeOK, P!Mapping, P!Touched,
   P!BusErrorOnlyIfShort

\* init_test, and writing the file: fclose may lose a page.
LEMMA WritePreserves == ASSUME P!IInv, P!InitTest \/ P!WriteToDisk PROVE P!IInv'
<1> USE PageNumbers DEF P!IInv, P!TypeOK, P!Mapping, P!Touched,
   P!BusErrorOnlyIfShort, P!history
<1>1. CASE P!InitTest
  BY <1>1 DEF P!InitTest
<1>2. CASE P!WriteToDisk
  <2>1. /\ ppc = "write" /\ mapped = {} /\ ppc' \in {"mmap", "aborted"}
        /\ UNCHANGED <<numPages, pass, pi, mapped, fromDisk, hotFaults,
                     reclaimed>>
    BY <1>2 DEF P!WriteToDisk
  <2>2. \/ UNCHANGED <<fileSize, cached>> /\ ppc' = "aborted"
        \/ /\ fileSize' \in 0..numPages /\ cached' = 0..(fileSize' - 1)
    BY <1>2 DEF P!WriteToDisk, P!Written
  <2>3. P!TypeOK'
    BY <2>1, <2>2
  <2>4. P!Mapping'
    BY <2>1, <2>2
  <2>5. P!Touched' /\ P!BusErrorOnlyIfShort'
    BY <2>1
  <2> QED BY <2>3, <2>4, <2>5
<1> QED BY <1>1, <1>2

LEMMA MmapPreserves == ASSUME P!IInv, P!Mmap PROVE P!IInv'
<1> USE PageNumbers DEF P!IInv, P!Mmap
<1>1. P!TypeOK'
  BY DEF P!TypeOK
<1>2. P!Mapping' /\ P!BusErrorOnlyIfShort'
  BY DEF P!Mapping,
   P!BusErrorOnlyIfShort
<1>3. P!Touched'
  <2>1. pi' = 0 * PageSize /\ 0 \in 0..numPages /\ numPages' = numPages
    BY DEF P!TypeOK
  <2>2. \A k \in 0..numPages : ~ (k * PageSize < 0)
    BY DEF P!TypeOK
  <2> QED BY <2>1, <2>2 DEF P!Touched
<1> QED BY <1>1, <1>2, <1>3

LEMMA ReclaimPreserves == ASSUME P!IInv, P!Reclaim PROVE P!IInv'
BY PageNumbers DEF P!IInv, P!Reclaim, P!loop, P!TypeOK, P!Mapping, P!Touched,
   P!BusErrorOnlyIfShort

\* What one access finds: where the loop is, and whether its page is mapped.
LEMMA AtMultiple ==
    ASSUME P!IInv, ppc = "access", P!More(pi)
    PROVE  \E k \in 0..numPages :
               /\ pi = k * PageSize /\ k + 1 \in 0..numPages
               /\ pi + PageSize = (k + 1) * PageSize /\ pi + PageSize <= numPages * PageSize
               /\ P!PageOf(pi) = P!PageOf(k * PageSize) /\ pi < numPages
<1>1. PICK k \in 0..numPages : pi = k * PageSize
  BY DEF P!IInv, P!Touched
<1>2. k \in Nat /\ numPages \in Nat /\ pi < numPages
  BY PageNumbers DEF P!IInv, P!TypeOK, P!More
<1>3. k <= k * PageSize /\ pi + PageSize = (k + 1) * PageSize
  BY <1>1, <1>2, Multiples
<1>4. k + 1 \in 0..numPages
  BY <1>1, <1>2, <1>3, PageNumbers
<1>5. (k + 1) * PageSize <= numPages * PageSize
  BY <1>2, <1>4, Multiples
<1> QED BY <1>1, <1>2, <1>3, <1>4, <1>5

\* Up to the first reclaim a page that was touched in an earlier pass is mapped.
LEMMA HotPageMapped ==
    ASSUME P!IInv, ppc = "access", P!More(pi), reclaimed = "no", pass >= FirstHot
    PROVE  P!PageOf(pi) \in mapped
BY AtMultiple DEF P!IInv, P!Touched

\* The access and its page fault, if it has one.
LEMMA TouchPreserves ==
    ASSUME P!IInv, P!Access, P!PageOf(pi) < fileSize
    PROVE  P!IInv'
<1> DEFINE p == P!PageOf(pi)
<1>1. /\ ppc = "access" /\ P!More(pi) /\ pi' = pi + PageSize
      /\ UNCHANGED <<ppc, numPages, pass, fileSize, reclaimed>>
      /\ \/ p \in mapped /\ UNCHANGED <<cached, mapped, fromDisk, hotFaults>>
         \/ p \notin mapped /\ P!Fault(p)
  BY DEF P!Access, P!Touch
<1>2. /\ numPages \in Nat /\ pi \in Nat /\ fileSize \in Nat /\ p \in Nat /\ pass \in Nat
      /\ hotFaults \in Nat
  <2>1. numPages \in Nat /\ pi \in Nat /\ fileSize \in Nat /\ pass \in Nat
        /\ hotFaults \in Nat
    BY PageNumbers DEF P!IInv, P!TypeOK, P!Mapping
  <2> QED BY <2>1, PageBehindIndex
<1>3. PICK k \in 0..numPages :
          /\ pi = k * PageSize /\ k + 1 \in 0..numPages
          /\ pi + PageSize = (k + 1) * PageSize /\ pi + PageSize <= numPages * PageSize
          /\ pi < numPages
  BY <1>1, AtMultiple
<1>4. /\ mapped' = mapped \cup {p}
      /\ cached' = cached \cup {p} \/ (cached' = cached /\ p \in mapped)
      /\ hotFaults' \in Nat
      /\ fromDisk' \subseteq fromDisk \cup {p}
      /\ (p \in mapped \/ pass < FirstHot) => hotFaults' = hotFaults
  BY <1>1, <1>2, PageNumbers DEF P!Fault
<1>5. P!TypeOK'
  <2>1. p \in 0..(fileSize - 1) /\ cached \subseteq 0..(fileSize - 1) /\ mapped \subseteq cached
    BY <1>2 DEF P!IInv, P!TypeOK
  <2>2. /\ cached' \subseteq 0..(fileSize - 1) /\ mapped' \subseteq cached'
        /\ fromDisk' \subseteq 0..(numPages - 1)
    <3>1. fromDisk \subseteq 0..(numPages - 1) /\ fileSize <= numPages
      BY <1>1, <1>2 DEF P!IInv, P!TypeOK
    <3>2. p \in 0..(numPages - 1)
      BY <1>2, <2>1, <3>1
    <3>3. fromDisk' \subseteq 0..(numPages - 1)
      BY <1>4, <3>1, <3>2
    <3> QED BY <1>4, <2>1, <3>3
  <2>3. pi' \in 0..(numPages * PageSize)
    BY <1>1, <1>2, <1>3, PageNumbers
  <2> QED BY <1>1, <1>4, <2>2, <2>3 DEF P!IInv, P!TypeOK
<1>6. P!Mapping'
  BY <1>1 DEF P!IInv, P!Mapping
<1>8. P!Touched'
  <2>1. ASSUME reclaimed = "no" PROVE hotFaults' = 0
    <3>1. hotFaults = 0
      BY <1>1, <2>1 DEF P!IInv, P!Touched
    <3>2. pass < FirstHot \/ pass >= FirstHot
      BY <1>2, PageNumbers
    <3>3. p \in mapped \/ pass < FirstHot
      BY <1>1, <2>1, <3>2, HotPageMapped
    <3> QED BY <1>4, <3>1, <3>3
  <2>2. ASSUME reclaimed = "no", NEW j \in 0..numPages, j * PageSize < numPages,
               pass >= FirstHot \/ j * PageSize < pi'
        PROVE  P!PageOf(j * PageSize) \in mapped'
    <3>1. CASE pass >= FirstHot \/ j * PageSize < pi
      BY <1>1, <1>4, <2>2, <3>1 DEF P!IInv, P!Touched
    <3>2. CASE ~ (pass >= FirstHot \/ j * PageSize < pi)
      <4>1. j \in Nat /\ k \in Nat
        BY <1>2
      <4>2. j * PageSize < (k + 1) * PageSize /\ j * PageSize >= k * PageSize
        BY <1>1, <1>3, <2>2, <3>2, <4>1, PageNumbers
      <4>3. j <= k
        BY <4>1, <4>2, Multiples
      <4>4. ~ (j + 1 <= k)
        <5>1. ASSUME j + 1 <= k PROVE FALSE
          <6>1. (j + 1) * PageSize <= k * PageSize
            BY <4>1, <5>1, Multiples
          <6>2. j * PageSize + PageSize = (j + 1) * PageSize /\ j * PageSize \in Nat
            BY <4>1, Multiples
          <6>3. k * PageSize \in Nat /\ (j + 1) * PageSize \in Nat
            BY <4>1, Multiples
          <6> QED BY <4>2, <6>1, <6>2, <6>3, PageNumbers
        <5> QED BY <5>1
      <4>5. j = k
        BY <4>1, <4>3, <4>4
      <4> QED BY <1>3, <1>4, <4>5
    <3> QED BY <3>1, <3>2
  <2>3. \E n \in 0..numPages : pi' = n * PageSize
    BY <1>1, <1>3
  <2>4. pass < FirstHot => hotFaults' = 0
    BY <1>1, <1>4 DEF P!IInv, P!Touched
  <2> QED BY <1>1, <2>1, <2>2, <2>3, <2>4 DEF P!Touched
<1>9. P!BusErrorOnlyIfShort'
  BY <1>1 DEF P!BusErrorOnlyIfShort
<1> QED BY <1>5, <1>6, <1>8, <1>9 DEF P!IInv

\* The access past the end of the file: its page is still one of the mapping.
LEMMA BusErrorPreserves ==
    ASSUME P!IInv, P!Access, ~ (P!PageOf(pi) < fileSize)
    PROVE  P!IInv'
<1>1. /\ ppc = "access" /\ P!More(pi) /\ ppc' = "sigbus"
      /\ UNCHANGED <<numPages, pass, pi, fileSize, reclaimed, cached, mapped, fromDisk,
                     hotFaults>>
  BY DEF P!Access, P!Touch
<1>2. /\ numPages \in Nat /\ numPages > 0 /\ pi \in Nat /\ pi < numPages
      /\ fileSize \in Nat /\ ~ (P!PageOf(pi) < fileSize)
  BY <1>1, PageNumbers DEF P!IInv, P!TypeOK, P!Mapping, P!More
<1>3. fileSize < numPages
  BY <1>2, PageBehindIndex
<1> QED BY <1>1, <1>3 DEF P!IInv, P!TypeOK, P!Mapping, P!Touched,
   P!BusErrorOnlyIfShort

\* Once a pass is over, the pages of all multiples are mapped.
LEMMA EndPassPreserves == ASSUME P!IInv, P!EndPass PROVE P!IInv'
<1>1. /\ ppc = "access" /\ ~ P!More(pi) /\ pi' = 0 /\ pass' = pass + 1
      /\ ppc' = IF pass + 1 < Passes THEN "access" ELSE "munmap"
      /\ reclaimed' = IF pass + 1 < FirstHot THEN "no" ELSE reclaimed
      /\ UNCHANGED <<numPages, fileSize, cached, mapped, fromDisk, hotFaults>>
  BY DEF P!EndPass
<1>2. /\ pass \in Nat /\ pass < Passes /\ pi \in Nat /\ numPages \in Nat /\ numPages <= pi
      /\ numPages * PageSize \in Nat
  BY <1>1, PageNumbers DEF P!IInv, P!TypeOK, P!Mapping, P!More
<1>3. P!TypeOK'
  BY <1>1, <1>2, PageNumbers DEF P!IInv, P!TypeOK
<1>4. P!Mapping' /\ P!BusErrorOnlyIfShort'
  BY <1>1, <1>2, PageNumbers
     DEF P!IInv, P!Mapping,
   P!BusErrorOnlyIfShort
<1>5. P!Touched'
  <2>1. 0 \in 0..numPages /\ 0 = 0 * PageSize
    BY <1>2, PageNumbers
  <2>2. ASSUME reclaimed = "no", NEW k \in 0..numPages, k * PageSize < numPages
        PROVE  P!PageOf(k * PageSize) \in mapped
    <3>1. k * PageSize < pi
      BY <1>2, <2>2, PageNumbers
    <3> QED BY <1>1, <2>2, <3>1 DEF P!IInv, P!Touched
  <2>3. reclaimed' = "no" \/ pass' < FirstHot => hotFaults' = 0
    BY <1>1, <1>2, PageNumbers DEF P!IInv, P!Touched
  <2>4. pass' < FirstHot \/ reclaimed' = reclaimed
    BY <1>1
  <2>5. \A k \in 0..numPages : ~ (k * PageSize < pi')
    BY <1>1, <1>2, Multiples
  <2>6. ~ (pass' < FirstHot /\ pass' >= FirstHot)
    BY <1>1, <1>2, PageNumbers
  <2> QED BY <1>1, <2>1, <2>2, <2>3, <2>4, <2>5, <2>6 DEF P!Touched
<1> QED BY <1>3, <1>4, <1>5 DEF P!IInv

LEMMA NextSizePreserves == ASSUME P!IInv, P!NextSize PROVE P!IInv'
<1>1. /\ ppc = "munmap" /\ ppc' \in {"write", "exited", "aborted"} /\ mapped' = {}
      /\ UNCHANGED <<pass, pi, fileSize, cached, fromDisk, hotFaults,
                     reclaimed>>
  BY DEF P!NextSize, P!history
<1>2. /\ numPages \in Nat /\ numPages' \in MinPages..MaxPages /\ numPages <= numPages'
      /\ pi \in Nat /\ pi <= numPages * PageSize
  BY PageNumbers DEF P!NextSize, P!IInv, P!TypeOK
<1>3. pi' \in 0..(numPages' * PageSize)
  <2>1. numPages' \in Nat
    BY <1>2, PageNumbers
  <2>2. numPages * PageSize <= numPages' * PageSize
    BY <1>2, <2>1, Multiples
  <2>3. numPages * PageSize \in Nat /\ numPages' * PageSize \in Nat
    BY <1>2, <2>1, Multiples
  <2> QED BY <1>1, <1>2, <2>2, <2>3
<1>4. fromDisk' \subseteq 0..(numPages' - 1)
  <2>1. PICK n \in MinPages..MaxPages : n = numPages'
    BY <1>2
  <2>2. fromDisk \subseteq 0..(numPages - 1) /\ numPages <= n /\ n \in Nat
    BY <1>2, <2>1, PageNumbers DEF P!IInv, P!TypeOK
  <2>3. 0..(numPages - 1) \subseteq 0..(n - 1)
    BY <1>2, <2>2
  <2> QED BY <1>1, <2>1, <2>2, <2>3
<1>5. P!TypeOK' /\ P!Mapping'
  BY <1>1, <1>2, <1>3, <1>4 DEF P!IInv, P!TypeOK, P!Mapping
<1> QED BY <1>1, <1>5 DEF P!IInv, P!Touched,
   P!BusErrorOnlyIfShort

LEMMA PageNextPreserves == ASSUME P!IInv, P!Next PROVE P!IInv'
BY WritePreserves, MmapPreserves, ReclaimPreserves, TouchPreserves, BusErrorPreserves,
   EndPassPreserves, NextSizePreserves DEF P!Next

-----------------------------------------------------------------------------
(***************************************************************************)
(* The programs one after the other                                        *)
(***************************************************************************)
LEMMA TestFileInitEstablishes == ASSUME TestFileInit PROVE TestFileInv
<1>1. IInv /\ P!IInv
  BY InitEstablishes, PageInitEstablishes DEF TestFileInit
<1>2. OneAtATime /\ running \in Programs /\ runs \in 1..MaxRuns
  BY PassAssumption DEF TestFileInit, OneAtATime, Init, P!Init
<1> QED BY <1>1, <1>2 DEF TestFileInv, TestFileTypeOK, IInv, P!IInv

\* file_read.c changes what test.file is, while the other program has it not mapped.
LEMMA ReadStepPreserves == ASSUME TestFileInv, ReadStep PROVE TestFileInv'
<1>1. IInv'
  BY NextPreserves DEF ReadStep, TestFileInv
<1>2. /\ running = "file_read" /\ ppc = "init_test" /\ mapped = {} /\ fileSize \in Nat
      /\ UNCHANGED <<running, runs, ppc, numPages, pass, pi, mapped, fromDisk, hotFaults,
                     reclaimed>>
  BY DEF ReadStep, TestFileInv, OneAtATime, P!IInv, P!Mapping, touch
<1>3. fileSize' \in Nat /\ cached' \subseteq 0..(fileSize' - 1)
  <2>1. numBlocks \in Nat
    BY Sizes DEF TestFileInv, TestFileTypeOK
  <2>2. cached \subseteq 0..(fileSize - 1)
    BY DEF TestFileInv, TestFileTypeOK, P!TypeOK
  <2>3. CASE \E n \in 0..numBlocks : P!Written(n)
    BY <2>1, <2>3 DEF P!Written
  <2>4. CASE fileSize' = fileSize /\ (cached' = cached \/ cached' = {})
    BY <1>2, <2>2, <2>4
  <2> QED BY <2>1, <2>3, <2>4 DEF ReadStep
<1>4. P!IInv'
  BY <1>2, <1>3 DEF TestFileInv, P!IInv, P!TypeOK, P!Mapping, P!Touched,
   P!BusErrorOnlyIfShort
<1>5. OneAtATime' /\ (running \in Programs /\ runs \in 1..MaxRuns)'
  BY <1>2 DEF TestFileInv, TestFileTypeOK, OneAtATime
<1> QED BY <1>1, <1>4, <1>5 DEF TestFileInv, TestFileTypeOK, IInv, P!IInv

\* The other two programs change what file_read.c will find, before it starts.
LEMMA TouchStepPreserves == ASSUME TestFileInv, TouchStep PROVE TestFileInv'
<1>1. P!IInv'
  BY PageNextPreserves DEF TouchStep, TestFileInv
<1>2. /\ running = "page_touch" /\ pc = "init_test"
      /\ UNCHANGED <<running, runs, target, randomAccess, pc, numBlocks, indices, i, asked,
                     opened>>
      /\ disk' = disk \/ disk' = [disk EXCEPT !["test.file"] = "old"]
  BY DEF TouchStep, TestFileInv, OneAtATime, read
<1>3. disk' \in [Names -> {"none", "old", "written"}] /\ Written'
  BY <1>2 DEF TestFileInv, IInv, TypeOK, Written, Names
<1>4. IInv'
  <2>1. TypeOK'
    BY <1>2, <1>3 DEF TestFileInv, IInv, TypeOK, Measuring, Blocks
  <2> QED BY <1>2, <1>3, <2>1 DEF IInv, Complete, ShuffleInRange, Asked, Measuring
<1>5. OneAtATime' /\ (running \in Programs /\ runs \in 1..MaxRuns)'
  BY <1>2 DEF TestFileInv, TestFileTypeOK, OneAtATime
<1> QED BY <1>1, <1>4, <1>5 DEF TestFileInv, TestFileTypeOK, IInv, P!IInv

\* The next program finds whatever the last one has left.
LEMMA NextProgramPreserves == ASSUME TestFileInv, NextProgram PROVE TestFileInv'
<1>1. /\ running' \in Programs /\ runs' \in 1..MaxRuns /\ OneAtATime'
  BY PassAssumption DEF NextProgram, TestFileInv, TestFileTypeOK, OneAtATime
<1>2. IInv'
  <2>1. /\ disk' \in [Names -> {"none", "old", "written"}]
        /\ \A n \in Names : disk'[n] # "written"
    BY DEF NextProgram, TestFileInv, IInv, TypeOK
  <2>2. /\ target' \in Names /\ randomAccess' \in {"true", "false"} /\ pc' = "init_test"
        /\ numBlocks' = MinBlocks /\ i' = 0 /\ asked' = {} /\ opened' = "none"
    BY DEF NextProgram
  <2>3. Written'
    BY <2>1, <2>2 DEF Written
  <2>4. TypeOK'
    BY <2>1, <2>2, SizeAssumption DEF TypeOK, Measuring
  <2> QED BY <2>2, <2>3, <2>4 DEF IInv, Complete, ShuffleInRange, Asked, Measuring
<1>3. P!IInv'
  <2>1. /\ ppc' = "init_test" /\ numPages' = MinPages /\ pass' = 0 /\ pi' = 0 /\ mapped' = {}
        /\ fromDisk' = {} /\ hotFaults' = 0 /\ reclaimed' = "no"
        /\ UNCHANGED <<fileSize, cached>>
    BY DEF NextProgram
  <2>2. 0 \in 0..(MinPages * PageSize)
    BY PageNumbers
  <2> QED BY <2>1, <2>2, PageNumbers DEF TestFileInv, P!IInv, P!TypeOK, P!Mapping, 
          P!Touched,
   P!BusErrorOnlyIfShort
<1> QED BY <1>1, <1>2, <1>3 DEF TestFileInv, TestFileTypeOK, IInv, P!IInv

LEMMA TestFileInvariance == TestFileSpec => []TestFileInv
<1>1. TestFileInv /\ [ReadStep \/ TouchStep \/ NextProgram]_tvars => TestFileInv'
  <2>1. SUFFICES ASSUME TestFileInv, UNCHANGED tvars PROVE TestFileInv'
    BY ReadStepPreserves, TouchStepPreserves, NextProgramPreserves
  <2>2. IInv'
    BY <2>1, StutterPreserves DEF TestFileInv, tvars, read, vars
  <2>3. P!IInv'
    BY <2>1 DEF TestFileInv, tvars, touch, P!IInv, P!TypeOK, P!Mapping, P!Touched,
   P!BusErrorOnlyIfShort
  <2>4. OneAtATime' /\ (running \in Programs /\ runs \in 1..MaxRuns)'
    BY <2>1 DEF TestFileInv, TestFileTypeOK, OneAtATime, tvars, read, touch
  <2> QED BY <2>2, <2>3, <2>4 DEF TestFileInv, TestFileTypeOK, IInv, P!IInv
<1> QED BY TestFileInitEstablishes, <1>1, PTL DEF TestFileSpec

\* Type correctness of the programs together: the access loop's index stays within
\* num_pages * PAGE_SIZE, and no page past the end of the file is cached or mapped.
THEOREM TestFileTypeCorrect == TestFileSpec => []TestFileTypeOK
<1>1. TestFileInv => TestFileTypeOK
  BY DEF TestFileInv
<1> QED BY TestFileInvariance, <1>1, PTL

\* What file_read.c is shown to do does not depend on what the other programs left.
THEOREM ReadsUndisturbed ==
    TestFileSpec => [](EachBlockOnce /\ MeasuresFreshFile)
<1>1. TestFileInv => EachBlockOnce /\ MeasuresFreshFile
  BY ReadOnce, OwnFile DEF TestFileInv
<1> QED BY TestFileInvariance, <1>1, PTL

\* For every page size, file size and number of passes: no page fault falls into a
\* pass timed as hot, unless the kernel reclaims memory.
THEOREM HotPassesHot == TestFileSpec => []HotPassesFaultFree
<1>1. TestFileInv => HotPassesFaultFree
  BY DEF TestFileInv, HotPassesFaultFree, P!HotPassesFaultFree, P!IInv, P!Touched
<1> QED BY TestFileInvariance, <1>1, PTL

\* For every page size and every file size the access loop stays inside a file that
\* was written in full.
THEOREM StaysInFile == TestFileSpec => []BusErrorOnlyIfShort
<1>1. TestFileInv => BusErrorOnlyIfShort
  BY DEF TestFileInv, BusErrorOnlyIfShort, P!IInv
<1> QED BY TestFileInvariance, <1>1, PTL
==============================================================================
