---------------------------- MODULE MCTokenStream ----------------------------
(* TLC instance of TokenStream; the constants are in the .cfg files.        *)
EXTENDS TokenStream
=============================================================================
