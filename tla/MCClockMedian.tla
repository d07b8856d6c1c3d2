---------------------------- MODULE MCClockMedian ----------------------------
(***************************************************************************)
(* ClockMedian with samples of every kind: 0, short ones, whose low word   *)
(* is 0, and one long enough to have low bits (the smallest int, with      *)
(* which a comparison can overflow).                                       *)
(***************************************************************************)
EXTENDS ClockMedian

Double(l, h) == [lo |-> l, hi |-> h]

MCSamples == {Double(0, 0), Double(0, 1), Double(0, 2), Double(-4, 3)}
==============================================================================
