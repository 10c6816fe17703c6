------------------------- MODULE EnhancedAudioBuffer -------------------------
(***************************************************************************)
(* EnhancedAudioBufferManager with WebRTCVADAdapter and AudioAnalyzer: one *)
(* stream whose chunks are voiced, silent or neither.  A chunk is kept     *)
(* from the first voiced one until the buffer is flushed.                  *)
(***************************************************************************)
EXTENDS Naturals

CONSTANTS MinSpeech, \* min_speech_duration_ms, in ticks
          MaxSilence, \* silence_threshold_ms
          MaxAge,    \* max_buffer_duration_seconds
          MaxChunks, \* bound: chunks in the buffer
          Unset      \* a timer that does not run

ASSUME EnhancedAssumption ==
    /\ MinSpeech \in Nat /\ MaxSilence \in Nat \ {0} /\ MaxAge \in Nat \ {0}
    /\ MaxChunks \in Nat /\ Unset \notin Nat

VARIABLES mode,      \* _stream_states
          voicedHeld, \* voiced chunks in the buffer
          otherHeld, \* other chunks in the buffer
          accumulating, \* ticks since _accumulating_start_times, or Unset
          hushed,    \* ticks since _silence_start_times, or Unset
          aged,      \* ticks since _buffer_start_times, or Unset
          owed       \* history: voiced chunks since the last flush or reset

enhancedVars == <<mode, voicedHeld, otherHeld, accumulating, hushed, aged, owed>>

Mode == {"IDLE", "ACCUMULATING", "SPEAKING", "SILENCE_DETECTED"}

\* A chunk, as the detector and the analyzer see it: whether its format and its
\* frames can be read, which of its frames are speech, and whether its energy is
\* above the noise floor.  Bound: two frames.
AudioChunk == [readable : BOOLEAN, frames : {<<FALSE>>, <<TRUE>>, <<FALSE, FALSE>>, <<FALSE, TRUE>>},
               loud : BOOLEAN]

\* detect_speech; its errors are caught.
DetectSpeech(c) ==
    IF ~c.readable THEN "UNKNOWN"
    ELSE IF \E i \in DOMAIN c.frames : c.frames[i] THEN "SPEECH" ELSE "SILENCE"

Voiced(c) == DetectSpeech(c) = "SPEECH" /\ c.loud
Quiet(c) == DetectSpeech(c) = "SILENCE" \/ ~c.loud

EnhancedInit ==
    /\ mode = "IDLE" /\ voicedHeld = 0 /\ otherHeld = 0 /\ owed = 0
    /\ accumulating = Unset /\ hushed = Unset /\ aged = Unset

HeldChunks == voicedHeld + otherHeld

AppendChunk(c) ==
    /\ voicedHeld' = voicedHeld + (IF Voiced(c) THEN 1 ELSE 0)
    /\ otherHeld' = otherHeld + (IF Voiced(c) THEN 0 ELSE 1)

KeepBuffer == UNCHANGED <<voicedHeld, otherHeld>>
KeepTimers == UNCHANGED <<accumulating, hushed, aged>>

\* Everything of the stream but its metrics.
EmptyStream ==
    /\ mode' = "IDLE" /\ voicedHeld' = 0 /\ otherHeld' = 0
    /\ accumulating' = Unset /\ hushed' = Unset /\ aged' = Unset
    /\ owed' = 0

\* _do_flush: nothing changes if there is nothing to return.
DoFlush == IF HeldChunks = 0 THEN UNCHANGED enhancedVars ELSE EmptyStream

Owe(c) == owed' = owed + (IF Voiced(c) THEN 1 ELSE 0)

WhileIdle(c) ==
    /\ mode = "IDLE"
    /\ IF Voiced(c)
       THEN /\ mode' = "ACCUMULATING" /\ AppendChunk(c)
            /\ accumulating' = 0 /\ aged' = (IF aged = Unset THEN 0 ELSE aged)
            /\ UNCHANGED hushed
       ELSE UNCHANGED mode /\ KeepBuffer /\ KeepTimers
    /\ Owe(c)

\* Chunks that are not voiced are rejected, and no time of theirs counts against the
\* accumulation.
WhileAccumulating(c) ==
    /\ mode = "ACCUMULATING"
    /\ IF Voiced(c)
       THEN AppendChunk(c) /\ mode' = (IF accumulating >= MinSpeech THEN "SPEAKING" ELSE mode)
       ELSE UNCHANGED mode /\ KeepBuffer
    /\ KeepTimers /\ Owe(c)

WhileSpeaking(c) ==
    /\ mode = "SPEAKING"
    /\ \/ /\ Quiet(c) /\ mode' = "SILENCE_DETECTED" /\ hushed' = 0
          /\ AppendChunk(c) /\ Owe(c) /\ UNCHANGED <<accumulating, aged>>
       \/ /\ ~Quiet(c) /\ aged < MaxAge /\ hushed' = Unset
          /\ AppendChunk(c) /\ Owe(c) /\ UNCHANGED <<mode, accumulating, aged>>
       \/ ~Quiet(c) /\ aged >= MaxAge /\ EmptyStream

\* Mutant of SpeechResumed: the chunk that ends the pause is not kept.
SpeechResumedWithoutChunk(c) ==
    /\ mode' = "SPEAKING" /\ KeepBuffer
    /\ hushed' = Unset /\ UNCHANGED <<accumulating, aged>> /\ Owe(c)

SpeechResumed(c) ==
    /\ mode' = "SPEAKING" /\ AppendChunk(c)
    /\ hushed' = Unset /\ UNCHANGED <<accumulating, aged>> /\ Owe(c)

\* In a pause chunks that are not voiced are not kept, the one that ends it neither.
WhileSilent(c) ==
    /\ mode = "SILENCE_DETECTED"
    /\ IF Voiced(c) THEN SpeechResumed(c)
       ELSE IF hushed >= MaxSilence THEN DoFlush
       ELSE UNCHANGED <<mode, owed>> /\ KeepBuffer /\ KeepTimers

AddEnhancedChunk(c) ==
    /\ HeldChunks < MaxChunks
    /\ WhileIdle(c) \/ WhileAccumulating(c) \/ WhileSpeaking(c) \/ WhileSilent(c)

FlushEnhanced == DoFlush
ResetEnhanced == EmptyStream

\* A timer that has passed every limit it is compared with need not run on.
OneMore(timer, limit) == IF timer = Unset THEN Unset ELSE IF timer < limit THEN timer + 1 ELSE limit

EnhancedTick ==
    /\ accumulating' = OneMore(accumulating, MinSpeech)
    /\ hushed' = OneMore(hushed, MaxSilence)
    /\ aged' = OneMore(aged, MaxAge)
    /\ UNCHANGED <<mode, voicedHeld, otherHeld, owed>>

EnhancedNext ==
    \/ \E c \in AudioChunk : AddEnhancedChunk(c)
    \/ FlushEnhanced \/ ResetEnhanced \/ EnhancedTick

EnhancedSpec == EnhancedInit /\ [][EnhancedNext]_enhancedVars

-----------------------------------------------------------------------------
(* Properties *)

Timer(limit) == 0 .. limit \cup {Unset}

EnhancedTypeOK ==
    /\ mode \in Mode
    /\ voicedHeld \in 0 .. MaxChunks /\ otherHeld \in 0 .. MaxChunks /\ owed \in Nat
    /\ accumulating \in Timer(MinSpeech) /\ hushed \in Timer(MaxSilence)
    /\ aged \in Timer(MaxAge)

\* Whatever is rejected, dropped in a pause or timed out, all that the caller has said
\* above the noise floor and that no call has returned is in the buffer, and the state
\* and the timers fit what is in it: six dictionaries are changed on eight paths.
EnhancedKeepsSpeech ==
    /\ owed = voicedHeld
    /\ mode = "IDLE" <=> HeldChunks = 0
    /\ (hushed # Unset) <=> mode = "SILENCE_DETECTED"
    /\ (aged = Unset) <=> mode = "IDLE"
    /\ (accumulating = Unset) <=> mode = "IDLE"
=============================================================================
