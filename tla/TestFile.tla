------------------------------ MODULE TestFile ------------------------------
(***************************************************************************)
(* file_read.c and the two programs of PageTouch, started one after the    *)
(* other in one directory.  All of them write test.file, and each finds    *)
(* what the run before has left of it, however that run has ended: of the  *)
(* three only file_read.c unlinks it.  (file_contention.c writes and       *)
(* unlinks it too; what it leaves is a file or none, as in Init.)          *)
(***************************************************************************)
EXTENDS FileRead

CONSTANTS PageSize, IntSize, MinPages, MaxPages, FirstHot, Passes,   \* see PageTouch
          MaxRuns                                                    \* bound on programs run

ASSUME PageAssumption ==
    /\ PageSize \in Nat \ {0} /\ IntSize \in 1..(PageSize - 1)
    /\ MinPages \in Nat \ {0} /\ MaxPages \in Nat /\ MinPages <= MaxPages
ASSUME PassAssumption ==
    FirstHot \in Nat \ {0} /\ Passes \in Nat /\ FirstHot < Passes /\ MaxRuns \in Nat \ {0}

VARIABLES running, runs,        \* the program that runs, and how many have been started
          ppc, numPages, pass, pi, mapped, fromDisk, hotFaults, reclaimed,
          fileSize, cached      \* test.file's pages, and those in the page cache

P == INSTANCE PageTouch WITH pc <- ppc, i <- pi

read == <<target, randomAccess, pc, numBlocks, indices, i, asked, opened>>
touch == <<ppc, numPages, pass, pi, mapped, fromDisk, hotFaults, reclaimed>>
tvars == <<running, runs, read, touch, disk, fileSize, cached>>

Programs == {"file_read", "page_touch"}

TestFileInit == Init /\ P!Init /\ running \in Programs /\ runs = 1

\* What the steps of file_read.c do to the pages of test.file.
ReadStep ==
    /\ running = "file_read" /\ Next
    /\ \/ pc = "write" /\ pc' = "drop_caches" /\ P!Written(numBlocks)
       \/ /\ pc = "write" /\ pc' = "aborted" /\ disk'["test.file"] = "written"
          /\ \E n \in 0..numBlocks : P!Written(n)
       \/ pc = "drop_caches" /\ cached' = {} /\ UNCHANGED fileSize
       \/ pc = "unlink" /\ disk'["test.file"] = "none" /\ P!Written(0)
       \/ /\ pc \notin {"write", "drop_caches"} \/ pc' = "aborted"
          /\ disk'["test.file"] = disk["test.file"]
          /\ UNCHANGED <<fileSize, cached>>
    /\ UNCHANGED <<running, runs, touch>>

\* To file_read.c, a file written by another program is an old one.  A program
\* that aborts in fopen leaves what there was.
TouchStep ==
    /\ running = "page_touch" /\ P!Next
    /\ \/ ppc # "write" /\ UNCHANGED disk
       \/ ppc = "write" /\ disk' = [disk EXCEPT !["test.file"] = "old"]
       \/ /\ ppc = "write" /\ ppc' = "aborted" /\ fileSize' = fileSize /\ cached' = cached
          /\ UNCHANGED disk
    /\ UNCHANGED <<running, runs, read>>

Ended ==
    \/ running = "file_read" /\ pc \in {"exited", "failed", "aborted"}
    \/ running = "page_touch" /\ ppc \in {"exited", "aborted", "sigbus"}

\* The next program starts from its beginning, on what is on the disk.
NextProgram ==
    /\ Ended /\ runs < MaxRuns
    /\ running' \in Programs /\ runs' = runs + 1
    /\ disk' = [n \in Names |-> IF disk[n] = "written" THEN "old" ELSE disk[n]]
    /\ target' \in Names /\ randomAccess' \in {"true", "false"}
    /\ pc' = "init_test" /\ numBlocks' = MinBlocks
    /\ indices' = [b \in {} |-> 0] /\ i' = 0 /\ asked' = {} /\ opened' = "none"
    /\ ppc' = "init_test" /\ numPages' = MinPages /\ pass' = 0 /\ pi' = 0 /\ mapped' = {}
    /\ fromDisk' = {} /\ hotFaults' = 0 /\ reclaimed' = "no"
    /\ UNCHANGED <<fileSize, cached>>

TestFileSpec == TestFileInit /\ [][ReadStep \/ TouchStep \/ NextProgram]_tvars
-----------------------------------------------------------------------------
TestFileTypeOK ==
    TypeOK /\ P!TypeOK /\ running \in Programs /\ runs \in 1..MaxRuns

\* The properties of PageTouch, whatever was left of test.file: no page fault falls
\* into a pass timed as hot ...
HotPassesFaultFree == P!HotPassesFaultFree

\* ... and the access loop stays inside a file that was written in full.
BusErrorOnlyIfShort == P!BusErrorOnlyIfShort

\* What the comments of the two programs say of their access loop.
EachPageFromDisk == P!EachPageFromDisk
-----------------------------------------------------------------------------
(***************************************************************************)
(* The inductive invariant of the composition: those of the two parts, and *)
(* that a program which is not running is at its beginning.                *)
(***************************************************************************)
OneAtATime ==
    /\ running = "file_read" => ppc = "init_test"
    /\ running = "page_touch" => pc = "init_test"

TestFileInv == TestFileTypeOK /\ IInv /\ P!IInv /\ OneAtATime
=============================================================================
