------------------------------- MODULE Handoff -------------------------------
(***************************************************************************)
(* What the context-switch benchmarks need from their futex: the two tasks *)
(* signal each other in strict alternation, the parent first, Rounds times *)
(* each.  Only then is one iteration a fixed number of context switches.   *)
(***************************************************************************)
EXTENDS Integers

CONSTANT Rounds

VARIABLE signals   \* signals[t]: how many times t has woken the other task

AInit == signals = [t \in {"parent", "child"} |-> 0]

ParentSignals ==
    /\ signals["parent"] = signals["child"]
    /\ signals["parent"] < Rounds
    /\ signals' = [signals EXCEPT !["parent"] = @ + 1]

ChildSignals ==
    /\ signals["child"] < signals["parent"]
    /\ signals' = [signals EXCEPT !["child"] = @ + 1]

ANext == ParentSignals \/ ChildSignals

ASpec == AInit /\ [][ANext]_signals
==============================================================================
