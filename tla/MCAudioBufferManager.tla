----------------------- MODULE MCAudioBufferManager -----------------------
(* AudioBufferManager for TLC; the .cfg files give the constants. *)
EXTENDS AudioBufferManager
=============================================================================
