------------------------- MODULE ConversationSession -------------------------
(***************************************************************************)
(* The ConversationSession aggregate (with the CallSession entity inside   *)
(* it): call lifecycle, interaction state, reordering of the caller's      *)
(* audio chunks, conversation context, interrupts and noise floor.         *)
(*                                                                         *)
(* Every public method is one action; a method that raises ValueError is   *)
(* an action that is not enabled, because the raise comes before any       *)
(* assignment.  An audio chunk is its sequence number; texts and           *)
(* timestamps are left out.                                                *)
(***************************************************************************)
EXTENDS Naturals, Sequences, FiniteSets

CONSTANTS MaxSeq,        \* bound: chunk numbers are 0 .. MaxSeq
          MaxItems,      \* bound: entries added to each context list
          MaxInterrupts  \* the cap on interrupt_history, 100 in the code

ASSUME SessionAssumption ==
    /\ MaxSeq \in Nat
    /\ MaxItems \in Nat
    /\ MaxInterrupts \in Nat

VARIABLES state,             \* CallSession._state
          interaction_state, \* _interaction_state
          audio_chunks,      \* _audio_chunks, as sequence numbers
          buffered_chunks,   \* keys of _buffered_chunks
          context,           \* sizes of _utterances, _ai_responses, _speech_segments
          interrupted,       \* _interrupted
          interrupt_history, \* len(_interrupt_history)
          noise_learned      \* _is_noise_floor_learned

audio   == <<audio_chunks, buffered_chunks>>
interrupts == <<interrupted, interrupt_history>>
vars == <<state, interaction_state, audio_chunks, buffered_chunks, context,
          interrupted, interrupt_history, noise_learned>>

CallStates == {"initiated", "active", "ended"}
InteractionStates == {"listening", "thinking", "speaking"}
ContextLists == {"utterances", "ai_responses", "speech_segments"}
EmptyContext == [l \in ContextLists |-> 0]

IsEnded == state = "ended"

Received == {audio_chunks[i] : i \in DOMAIN audio_chunks} \cup buffered_chunks

Init ==
    /\ state = "initiated"
    /\ interaction_state = "listening"
    /\ audio_chunks = <<>>
    /\ buffered_chunks = {}
    /\ context = EmptyContext
    /\ interrupted = FALSE
    /\ interrupt_history = 0
    /\ noise_learned = FALSE

-----------------------------------------------------------------------------
(* Lifecycle and interaction state *)

Activate ==
    /\ ~IsEnded
    /\ state' = "active"
    /\ interaction_state' = "listening"
    /\ UNCHANGED <<audio, context, interrupts, noise_learned>>

End ==
    /\ ~IsEnded
    /\ state' = "ended"
    /\ interaction_state' = "listening"
    /\ UNCHANGED <<audio, context, interrupts, noise_learned>>

SetInteraction(mode) ==
    /\ ~IsEnded
    /\ interaction_state' = mode
    /\ UNCHANGED <<state, audio, context, interrupts, noise_learned>>

-----------------------------------------------------------------------------
(* Audio chunks *)

\* The first number after n that is not waiting in B: where a flush stops.
NextGap(n, B) ==
    CHOOSE g \in n + 1 .. MaxSeq + 1 : g \notin B /\ n + 1 .. g - 1 \subseteq B

\* _flush_buffered_chunks, run on chunk list c and buffer B.
Flushed(c, B) ==
    c \o [i \in 1 .. NextGap(Len(c), B) - Len(c) - 1 |-> Len(c) + i]
StillBuffered(c, B) == B \ (Len(c) + 1 .. NextGap(Len(c), B) - 1)

\* Mutant of AddExpectedChunk: the buffer is not drained behind the chunk.
AddExpectedChunkOnly(seq) ==
    /\ seq = Len(audio_chunks) + 1
    /\ audio_chunks' = Append(audio_chunks, seq)
    /\ UNCHANGED buffered_chunks

\* The chunk expected next is appended, and the buffer drained behind it.
AddExpectedChunk(seq) ==
    /\ seq = Len(audio_chunks) + 1
    /\ audio_chunks' = Flushed(Append(audio_chunks, seq), buffered_chunks)
    /\ buffered_chunks' =
          StillBuffered(Append(audio_chunks, seq), buffered_chunks)

\* Mutant of AddEarlyChunk: an early chunk is appended on arrival.
AddEarlyChunkAtOnce(seq) ==
    /\ seq > Len(audio_chunks) + 1
    /\ audio_chunks' = Append(audio_chunks, seq)
    /\ UNCHANGED buffered_chunks

\* A chunk from beyond the gap waits for the gap to close.
AddEarlyChunk(seq) ==
    /\ seq > Len(audio_chunks) + 1
    /\ buffered_chunks' = buffered_chunks \cup {seq}
    /\ UNCHANGED audio_chunks

\* Mutant of AddAudioChunk: a late chunk of an ended call is taken.
AddAudioChunkAnytime(seq) ==
    /\ seq \notin Received
    /\ AddExpectedChunk(seq) \/ AddEarlyChunk(seq)
    /\ UNCHANGED <<state, interaction_state, context, interrupts, noise_learned>>

\* Duplicates, ended calls and numbers below the expected one are refused.
AddAudioChunk(seq) ==
    /\ ~IsEnded
    /\ seq \notin Received
    /\ AddExpectedChunk(seq) \/ AddEarlyChunk(seq)
    /\ UNCHANGED <<state, interaction_state, context, interrupts, noise_learned>>

-----------------------------------------------------------------------------
(* Conversation context.  None of the three adders looks at the state. *)

AddToContext(list) ==
    /\ context[list] < MaxItems     \* bound
    /\ context' = [context EXCEPT ![list] = @ + 1]
    /\ UNCHANGED <<state, interaction_state, audio, interrupts, noise_learned>>

\* Mutant of ResetContext: the audio goes with the context.
ResetContextAndAudio ==
    /\ ~IsEnded
    /\ context' = EmptyContext
    /\ audio_chunks' = <<>> /\ buffered_chunks' = {}
    /\ UNCHANGED <<state, interaction_state, interrupts, noise_learned>>

ResetContext ==
    /\ ~IsEnded
    /\ context' = EmptyContext
    /\ buffered_chunks' = {}
    /\ UNCHANGED <<state, interaction_state, audio_chunks, interrupts, noise_learned>>

-----------------------------------------------------------------------------
(* Interrupts and noise floor *)

\* Does nothing on an ended call.
MarkInterrupted ==
    /\ ~IsEnded
    /\ interrupted' = TRUE
    /\ interaction_state' = "listening"
    /\ UNCHANGED <<state, audio, context, interrupt_history, noise_learned>>

ResetInterrupt ==
    /\ interrupted' = FALSE
    /\ UNCHANGED <<state, interaction_state, audio, context, interrupt_history, noise_learned>>

\* Mutant of RecordInterrupt: the cap is off by one.
RecordInterruptOverCap ==
    /\ ~IsEnded
    /\ interrupt_history <= MaxInterrupts
    /\ interrupt_history' = interrupt_history + 1
    /\ UNCHANGED <<state, interaction_state, audio, context, interrupted, noise_learned>>

RecordInterrupt ==
    /\ ~IsEnded
    /\ interrupt_history < MaxInterrupts
    /\ interrupt_history' = interrupt_history + 1
    /\ UNCHANGED <<state, interaction_state, audio, context, interrupted, noise_learned>>

SetNoiseFloor ==
    /\ ~IsEnded
    /\ noise_learned' = TRUE
    /\ UNCHANGED <<state, interaction_state, audio, context, interrupts>>

-----------------------------------------------------------------------------
Next ==
    \/ Activate
    \/ End
    \/ \E mode \in InteractionStates : SetInteraction(mode)
    \/ \E seq \in 0 .. MaxSeq : AddAudioChunk(seq)
    \/ \E list \in ContextLists : AddToContext(list)
    \/ ResetContext
    \/ MarkInterrupted
    \/ ResetInterrupt
    \/ RecordInterrupt
    \/ SetNoiseFloor

Spec == Init /\ [][Next]_vars

-----------------------------------------------------------------------------
(* Properties *)

\* Type invariant of the aggregate's fields.
TypeOK ==
    /\ state \in CallStates
    /\ interaction_state \in InteractionStates
    /\ audio_chunks \in Seq(0 .. MaxSeq)
    /\ buffered_chunks \subseteq 0 .. MaxSeq
    /\ context \in [ContextLists -> 0 .. MaxItems]
    /\ interrupted \in BOOLEAN
    /\ interrupt_history \in 0 .. MaxInterrupts
    /\ noise_learned \in BOOLEAN

\* The chunk list holds the chunks 1, 2, 3, ... in that order whatever the
\* order of arrival, however often one is resent and whenever the context is
\* reset (add_audio_chunk, _flush_buffered_chunks).
ChunksInOrder == \A i \in 1 .. Len(audio_chunks) : audio_chunks[i] = i

\* A buffered chunk always waits behind a real gap: the chunk the session
\* expects next is never sitting in the buffer, and nothing already in the
\* list is buffered a second time (the drain loop stops neither early nor late).
BufferWaitsBehindGap ==
    \A b \in buffered_chunks : b > Len(audio_chunks) + 1

\* The aggregate implements the reassembly promise of ChunkReassembly.
Reassembly == INSTANCE ChunkReassembly
                WITH kept <- Received, delivered <- Len(audio_chunks)
ReassemblySpec == Reassembly!Spec

\* What end() leaves fixed: an ended call stays ended and neither its audio,
\* its interaction state, its interrupt history nor its noise floor changes.
EndedIsFinal ==
    [][IsEnded => UNCHANGED <<state, interaction_state, audio,
                              interrupt_history, noise_learned>>]_vars
=============================================================================
