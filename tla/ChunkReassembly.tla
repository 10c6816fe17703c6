--------------------------- MODULE ChunkReassembly ---------------------------
(***************************************************************************)
(* What ConversationSession promises about the caller's audio: numbered    *)
(* chunks arrive in any order, each number is kept at most once, and the   *)
(* chunks delivered are always the longest gap-free run that starts at 1.  *)
(* A chunk once delivered is never taken back; a chunk still waiting       *)
(* behind a gap may be forgotten.                                          *)
(***************************************************************************)
EXTENDS Naturals

CONSTANT MaxSeq     \* the largest chunk number the caller uses

VARIABLES kept,     \* the chunk numbers the session holds
          delivered \* how many of them, from 1 on, are in order

reassemblyVars == <<kept, delivered>>

\* d is the length of the longest gap-free run of K that starts at 1.
IsPrefixLength(K, d) == 1 .. d \subseteq K /\ d + 1 \notin K

Init == kept = {} /\ delivered = 0

Receive(k) ==
    /\ k \notin kept
    /\ kept' = kept \cup {k}
    /\ \E d \in delivered .. MaxSeq :
          IsPrefixLength(kept \cup {k}, d) /\ delivered' = d

Forget ==
    /\ kept' = 1 .. delivered
    /\ UNCHANGED delivered

Next == Forget \/ \E k \in 1 .. MaxSeq : Receive(k)

Spec == Init /\ [][Next]_reassemblyVars
=============================================================================
