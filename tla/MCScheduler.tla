----------------------------- MODULE MCScheduler -----------------------------
(***************************************************************************)
(* Instances of Scheduler for TLC.                                         *)
(***************************************************************************)
EXTENDS Scheduler

OneTarget == <<"a">>

\* Windows of four instants, with the anchor at the second.
MCWindowOf == [n \in 0..MaxNow |-> n \div 4]
MCAnchorAt == [n \in 0..MaxNow |-> 4 * (n \div 4) + 1]
=============================================================================
