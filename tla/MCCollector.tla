---------------------------- MODULE MCCollector ----------------------------
(* Two callbacks at one time leave something behind for a third.            *)
EXTENDS Collector, TLC

RunSymmetry == Permutations(Runs)
=============================================================================
