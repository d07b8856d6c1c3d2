---------------------------- MODULE DiscardClient ----------------------------
(***************************************************************************)
(* What the two clients of the discard service (port 9) have in common:    *)
(* for each of main's hosts, a loop of TEST_COUNT samples.                 *)
(***************************************************************************)
EXTENDS Integers

CONSTANTS TestCount,   \* TEST_COUNT
          Hosts        \* how many hosts main calls the benchmark for

ASSUME CountAssumption == TestCount \in Nat \ {0} /\ Hosts \in Nat \ {0}

\* Faulty variant: the loop test is <=.
MoreOrOneTooMany(n) == n <= TestCount

More(n) == n < TestCount
==============================================================================
