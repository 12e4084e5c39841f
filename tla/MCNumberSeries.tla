-------------------------- MODULE MCNumberSeries --------------------------
(* Instances of NumberSeries for TLC: flows and documents are alike, and   *)
(* no temporal property of the run speaks of one of them.                  *)
EXTENDS NumberSeries, TLC

Alike == Permutations(Flows) \cup Permutations(Docs)
=============================================================================
