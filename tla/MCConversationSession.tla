----------------------- MODULE MCConversationSession -----------------------
(* TLC instance of ConversationSession; the constants are in the .cfg      *)
(* files.  The context lists stay at one entry: only their emptiness and   *)
(* growth matter to the properties.                                        *)
EXTENDS ConversationSession
=============================================================================
