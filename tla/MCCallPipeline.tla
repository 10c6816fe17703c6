---------------------------- MODULE MCCallPipeline ----------------------------
(* TLC instances of CallPipeline.  Each .cfg chooses how many connections   *)
(* and streams there are and whether connections of one stream overlap.     *)
EXTENDS CallPipeline, TLC

CallSymmetry == Permutations(Conns) \cup Permutations(Streams)
=============================================================================
