------------------------------ MODULE FileRead ------------------------------
(***************************************************************************)
(* file_read.c: for file sizes that double, write a file, drop the caches, *)
(* open the file named on the command line, read its blocks in sequential  *)
(* or shuffled order and unlink it.  write_to_disk does not use the name   *)
(* it is given: it always writes "test.file".                              *)
(***************************************************************************)
EXTENDS Integers

CONSTANTS MinBlocks, MaxBlocks   \* 2^MIN_FS_BITS and 2^MAX_FS_BITS, in blocks

ASSUME SizeAssumption ==
    MinBlocks \in Nat /\ MinBlocks >= 2 /\ MaxBlocks \in Nat /\ MinBlocks < MaxBlocks

Names == {"test.file", "other.file"}

VARIABLES target,         \* argv[1]
          randomAccess,   \* is_random_access: main passes "false", and has the
                          \* calls that pass "true" commented out
          pc,
          numBlocks,   \* num_blocks
          indices,     \* the order in which the blocks are read
          i,           \* the loop counter of the shuffle and of the reads
          asked,       \* the blocks pread has been asked for (history)
          disk,        \* for each name: no file, one that was there, one written here
          opened       \* the file that is open

vars == <<target, randomAccess, pc, numBlocks, indices, i, asked, disk, opened>>

Blocks == 0..(numBlocks - 1)

Init ==
    /\ target \in Names /\ randomAccess \in {"true", "false"}
    /\ pc = "init_test" /\ numBlocks = MinBlocks /\ indices = [b \in {} |-> 0] /\ i = 0
    /\ asked = {} /\ disk \in [Names -> {"none", "old"}] /\ opened = "none"

\* A call that is asserted: the program goes on or aborts.
Asserted(label, next) ==
    /\ pc = label
    /\ pc' \in {next, "aborted"}
    /\ UNCHANGED <<numBlocks, indices, i, asked, disk, opened>>

\* init_test succeeds and there is one argument.
InitTest == Asserted("init_test", "write")

\* Faulty variant: the file that is opened is not written first.
WriteNothing ==
    /\ pc = "write"
    /\ pc' = "drop_caches"
    /\ UNCHANGED <<numBlocks, indices, i, asked, disk, opened>>

\* dd of=test.file, which may fail before or after it has created the file.
WriteToDisk ==
    /\ pc = "write"
    /\ \/ pc' = "drop_caches" /\ disk' = [disk EXCEPT !["test.file"] = "written"]
       \/ pc' = "aborted" /\ disk' \in {disk, [disk EXCEPT !["test.file"] = "written"]}
    /\ UNCHANGED <<numBlocks, indices, i, asked, opened>>

DropCaches == Asserted("drop_caches", "open")

Open ==
    /\ pc = "open"
    /\ \/ disk[target] # "none" /\ opened' = disk[target] /\ pc' = "fill"
       \/ pc' = "aborted" /\ UNCHANGED opened
    /\ UNCHANGED <<numBlocks, indices, i, asked, disk>>

Identity(n) == [b \in 0..(n - 1) |-> b]

FillIndices ==
    /\ pc = "fill"
    /\ indices' = Identity(numBlocks) /\ i' = numBlocks - 1
    /\ pc' = IF randomAccess = "true" THEN "shuffle" ELSE "memalign"
    /\ UNCHANGED <<numBlocks, asked, disk, opened>>

\* rand() % i
RandIndex(n) == 0..(n - 1)

Swap(a, m, n) == [a EXCEPT ![m] = a[n], ![n] = a[m]]

Shuffle ==
    /\ pc = "shuffle"
    /\ \/ /\ i > 0 /\ i' = i - 1
          /\ \E j \in RandIndex(i) : indices' = Swap(indices, i, j)
          /\ UNCHANGED pc
       \/ i = 0 /\ pc' = "memalign" /\ UNCHANGED <<indices, i>>
    /\ UNCHANGED <<numBlocks, asked, disk, opened>>

\* Without the aligned buffer the program exits.
Memalign ==
    /\ pc = "memalign"
    /\ \/ pc' = "read" /\ i' = 0 /\ asked' = {}
       \/ pc' = "failed" /\ UNCHANGED <<i, asked>>
    /\ UNCHANGED <<numBlocks, indices, disk, opened>>

\* Faulty variant: the loop ends one block early.
PreadAllButLast ==
    /\ pc = "read"
    /\ \/ i < numBlocks - 1 /\ i' = i + 1 /\ asked' = asked \cup {indices[i]} /\ UNCHANGED pc
       \/ i = numBlocks - 1 /\ pc' = "unlink" /\ UNCHANGED <<i, asked>>
    /\ UNCHANGED <<numBlocks, indices, disk, opened>>

\* What pread returns is not looked at.
Pread ==
    /\ pc = "read"
    /\ \/ i < numBlocks /\ i' = i + 1 /\ asked' = asked \cup {indices[i]} /\ UNCHANGED pc
       \/ i = numBlocks /\ pc' = "unlink" /\ UNCHANGED <<i, asked>>
    /\ UNCHANGED <<numBlocks, indices, disk, opened>>

\* Faulty variant: the loop test is <=.
MoreOrOneTooMany(n) == n <= MaxBlocks

More(n) == n < MaxBlocks

\* The result is printed, the file closed and its name unlinked, which may fail
\* unnoticed; then main's next size or its end.
CloseAndUnlink ==
    /\ pc = "unlink"
    /\ disk' \in {disk, [disk EXCEPT ![target] = "none"]}
    /\ opened' = "none"
    /\ \/ More(2 * numBlocks) /\ numBlocks' = 2 * numBlocks /\ pc' = "write"
       \/ ~ More(2 * numBlocks) /\ pc' = "exited" /\ UNCHANGED numBlocks
    /\ UNCHANGED <<indices, i, asked>>

Step ==
    \/ InitTest \/ WriteToDisk \/ DropCaches \/ Open \/ FillIndices \/ Shuffle
    \/ Memalign \/ Pread \/ CloseAndUnlink

Next == Step /\ UNCHANGED <<target, randomAccess>>

Spec == Init /\ [][Next]_vars
-----------------------------------------------------------------------------
\* The states in which indices is an array of numBlocks indices.
Measuring == pc \in {"shuffle", "memalign", "read", "unlink"}

TypeOK ==
    /\ target \in Names /\ randomAccess \in {"true", "false"}
    /\ pc \in {"init_test", "write", "drop_caches", "open", "fill", "shuffle", "memalign",
               "read", "unlink", "exited", "failed", "aborted"}
    /\ numBlocks \in MinBlocks..(MaxBlocks - 1) /\ i \in 0..numBlocks
    /\ Measuring => indices \in [Blocks -> Blocks]
    /\ pc \in {"read", "unlink"} => asked \subseteq Blocks
    /\ disk \in [Names -> {"none", "old", "written"}] /\ opened \in {"none", "old", "written"}

\* The printed time per block is that of num_blocks different blocks: whatever
\* rand() returns, the shuffle loses none and repeats none.
EachBlockOnce == pc = "unlink" => asked = Blocks

\* Whatever other programs and earlier runs have left on the disk, a run whose
\* target is test.file measures the file it has just written itself, at each size.
MeasuresFreshFile == (pc = "read" /\ target = "test.file") => opened = "written"

\* What the comment in print_for says of every target: "First, write a file to
\* disk (we're measuring block from disk time)."
ReadsWhatItWrote == pc = "read" => opened = "written"
-----------------------------------------------------------------------------
(***************************************************************************)
(* The inductive invariant: what holds in the middle of the shuffle and in *)
(* the middle of the reads.                                                *)
(***************************************************************************)
\* No block is lost.
Complete == Measuring => \A b \in Blocks : \E k \in Blocks : indices[k] = b

ShuffleInRange == pc = "shuffle" => i < numBlocks

Asked ==
    /\ pc = "read" => asked = {indices[k] : k \in 0..(i - 1)}
    /\ pc = "unlink" => asked = Blocks

\* From the write to the open nothing comes in between.
Written ==
    /\ pc \in {"drop_caches", "open"} => disk["test.file"] = "written"
    /\ (pc \in {"fill", "shuffle", "memalign", "read"} /\ target = "test.file") =>
           opened = "written"

IInv == TypeOK /\ Complete /\ ShuffleInRange /\ Asked /\ Written
=============================================================================
