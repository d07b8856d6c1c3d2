------------------------------ MODULE PageTouch ------------------------------
(***************************************************************************)
(* file_cache.c and page_fault_access.c: for sizes that double, write a    *)
(* file, map it and run over it Passes times with the same access loop;    *)
(* the passes that are timed as "hot" come after FirstHot others, of which *)
(* page_fault_access.c times the first as "cold".  The loop's index counts *)
(* ints, its bound counts pages and its step is the number of bytes in a   *)
(* page.                                                                   *)
(***************************************************************************)
EXTENDS Integers

CONSTANTS PageSize,             \* PAGE_SIZE
          IntSize,              \* sizeof(int)
          MinPages, MaxPages,   \* the sizes main measures
          FirstHot, Passes      \* 3 and 6 in file_cache.c, 16 and 46 in the other

VARIABLES pc,
          numPages,       \* num_pages
          pass, i,        \* which pass, and its loop counter
          fileSize,       \* the pages the file really has
          cached,         \* its pages in the page cache
          mapped,         \* its pages in the page table of the process
          fromDisk,       \* pages of this mapping that were read from disk (history)
          hotFaults,      \* page faults in passes timed as hot (history)
          reclaimed       \* whether the kernel has taken pages back since the last
                          \* pass that is not hot began: "yes" or "no" (history)

vars == <<pc, numPages, pass, i, fileSize, cached, mapped, fromDisk, hotFaults, reclaimed>>

loop == <<pc, numPages, pass, i>>
history == <<fromDisk, hotFaults, reclaimed>>

Init ==
    /\ pc = "init_test" /\ numPages = MinPages /\ pass = 0 /\ i = 0
    /\ fileSize = 0 /\ cached = {} /\ mapped = {}
    /\ fromDisk = {} /\ hotFaults = 0 /\ reclaimed = "no"

InitTest ==
    /\ pc = "init_test"
    /\ pc' \in {"write", "aborted"}
    /\ UNCHANGED <<numPages, pass, i, fileSize, cached, mapped, history>>

\* What is written is in the page cache.
Written(pages) == fileSize' = pages /\ cached' = 0..(pages - 1)

\* fopen, which truncates the file, and each fputc are asserted, but the last
\* page is still in the stdio buffer when fclose, whose result is not looked at,
\* writes it or fails.
WriteToDisk ==
    /\ pc = "write"
    /\ \/ pc' = "mmap" /\ \E pages \in {numPages - 1, numPages} : Written(pages)
       \/ pc' = "aborted" /\ \E pages \in 0..(numPages - 1) : Written(pages)
       \/ pc' = "aborted" /\ UNCHANGED <<fileSize, cached>>
    /\ UNCHANGED <<numPages, pass, i, mapped, history>>

\* A failed open makes mmap fail, which is asserted.
Mmap ==
    /\ pc = "mmap"
    /\ pc' \in {"access", "aborted"}
    /\ pass' = 0 /\ i' = 0 /\ mapped' = {}
    /\ fromDisk' = {} /\ hotFaults' = 0 /\ reclaimed' = "no"
    /\ UNCHANGED <<numPages, fileSize, cached>>

\* Under memory pressure, at any time after the write, the kernel writes the
\* file's pages back and drops them.
Reclaim ==
    /\ pc \in {"mmap", "access"} /\ cached # {}
    /\ cached' = {} /\ mapped' = {} /\ reclaimed' = "yes"
    /\ UNCHANGED <<loop, fileSize, fromDisk, hotFaults>>

\* The page that mem[n] is in.
PageOf(n) == (n * IntSize) \div PageSize

\* Faulty variant: the bound is in bytes, the index still in ints.
MoreInBytes(n) == n < numPages * PageSize

\* i < num_pages
More(n) == n < numPages

\* Faulty variant: each pass maps the file anew.
FaultUnmapped(p) ==
    /\ cached' = cached \cup {p}
    /\ fromDisk' = IF p \in cached THEN fromDisk ELSE fromDisk \cup {p}
    /\ hotFaults' = IF pass >= FirstHot THEN hotFaults + 1 ELSE hotFaults
    /\ UNCHANGED mapped

\* A page fault: the page is read from disk unless it is cached, and mapped.
Fault(p) ==
    /\ cached' = cached \cup {p} /\ mapped' = mapped \cup {p}
    /\ fromDisk' = IF p \in cached THEN fromDisk ELSE fromDisk \cup {p}
    /\ hotFaults' = IF pass >= FirstHot THEN hotFaults + 1 ELSE hotFaults

\* dummy += mem[i] and the step.  Past the end of the file it is a SIGBUS.
Touch(p, step) ==
    /\ pc = "access" /\ More(i)
    /\ IF p < fileSize
       THEN /\ \/ p \in mapped /\ UNCHANGED <<cached, mapped, fromDisk, hotFaults>>
               \/ p \notin mapped /\ Fault(p)
            /\ i' = i + step /\ UNCHANGED pc
       ELSE pc' = "sigbus" /\ UNCHANGED <<i, cached, mapped, fromDisk, hotFaults>>
    /\ UNCHANGED <<numPages, pass, fileSize, reclaimed>>

Access == Touch(PageOf(i), PageSize)

\* The next pass, and after the last one the end of the measurement.
EndPass ==
    /\ pc = "access" /\ ~ More(i)
    /\ i' = 0 /\ pass' = pass + 1
    /\ pc' = IF pass + 1 < Passes THEN "access" ELSE "munmap"
    /\ reclaimed' = IF pass + 1 < FirstHot THEN "no" ELSE reclaimed
    /\ UNCHANGED <<numPages, fileSize, cached, mapped, fromDisk, hotFaults>>

\* The result is printed, the file unmapped, which is asserted, and closed; the
\* next size or the end.
NextSize ==
    /\ pc = "munmap"
    /\ \/ 2 * numPages <= MaxPages /\ numPages' = 2 * numPages /\ pc' = "write"
       \/ 2 * numPages > MaxPages /\ pc' = "exited" /\ UNCHANGED numPages
       \/ pc' = "aborted" /\ UNCHANGED numPages
    /\ mapped' = {}
    /\ UNCHANGED <<pass, i, fileSize, cached, history>>

Next == InitTest \/ WriteToDisk \/ Mmap \/ Reclaim \/ Access \/ EndPass \/ NextSize

Spec == Init /\ [][Next]_vars
-----------------------------------------------------------------------------
TypeOK ==
    /\ pc \in {"init_test", "write", "mmap", "access", "munmap", "exited", "aborted", "sigbus"}
    /\ numPages \in MinPages..MaxPages /\ pass \in 0..Passes
    /\ i \in 0..(numPages * PageSize)
    /\ pc \in {"mmap", "access", "munmap"} => fileSize \in 0..numPages
    /\ cached \subseteq 0..(fileSize - 1) /\ mapped \subseteq cached
    /\ fromDisk \subseteq 0..(numPages - 1) /\ hotFaults \in Nat /\ reclaimed \in {"yes", "no"}

\* The hot passes are hot: however many pages the loop touches, the pass before the
\* first hot one has mapped all of them.  Whatever the kernel takes back between the
\* write and that pass, a page fault falls into a pass timed as hot only if the
\* kernel takes pages back later.
HotPassesFaultFree == (pc = "munmap" /\ reclaimed = "no") => hotFaults = 0

\* The loop's bound counts pages and its index counts ints, yet it never runs past
\* the mapped file: a SIGBUS means that fclose has failed, unnoticed, and left the
\* file shorter than its mapping.
BusErrorOnlyIfShort == pc = "sigbus" => fileSize < numPages

\* What the two programs say: they write the file first because "we're measuring
\* page from disk time", and run over it "touching each page".
EachPageFromDisk ==
    (pc = "munmap" /\ fileSize = numPages) => fromDisk = 0..(numPages - 1)
-----------------------------------------------------------------------------
(***************************************************************************)
(* The inductive invariant.                                                *)
(***************************************************************************)
\* Nothing is mapped before mmap.
Mapping ==
    /\ fileSize \in Nat
    /\ pc \in {"init_test", "write", "mmap"} => mapped = {}
    /\ pc = "access" => pass < Passes

\* The loop is at a multiple of its step, and the pages of the multiples behind it
\* (in a hot pass, of all multiples) are mapped.
Touched ==
    /\ pc = "access" => \E k \in 0..numPages : i = k * PageSize
    /\ pc = "access" /\ reclaimed = "no" =>
           \A k \in 0..numPages :
               k * PageSize < numPages /\ (pass >= FirstHot \/ k * PageSize < i)
                   => PageOf(k * PageSize) \in mapped
    /\ pc \in {"access", "munmap"} /\ reclaimed = "no" => hotFaults = 0
    /\ pc = "access" /\ pass < FirstHot => hotFaults = 0

IInv == TypeOK /\ Mapping /\ Touched /\ BusErrorOnlyIfShort
==============================================================================
