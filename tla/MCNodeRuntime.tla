--------------------------- MODULE MCNodeRuntime ---------------------------
(***************************************************************************)
(* NodeRuntime for TLC: the requests are model values and interchangeable  *)
(* wherever the run has no HTTP function among several others.             *)
(***************************************************************************)
EXTENDS NodeRuntime, TLC

RequestSymmetry == Permutations(Requests)
=============================================================================
