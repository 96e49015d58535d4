---------------------------- MODULE MCRebalance ----------------------------
(***************************************************************************)
(* Rebalance with three channels, one of them small, and amounts that take   *)
(* one, two and four attempts.                                               *)
(***************************************************************************)
EXTENDS Rebalance

ThreeCapacities == <<1000000, 1000000, 45000>>
ThreeReserves == <<10000, 10000, 1000>>

=============================================================================
