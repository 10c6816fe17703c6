------------------------- MODULE AudioBufferManager -------------------------
(***************************************************************************)
(* The AudioBufferManager service: one stream's audio is collected while   *)
(* the caller speaks and returned as one utterance when the caller has     *)
(* been quiet long enough, when it has grown too old, or on request.       *)
(* Streams share nothing, so one is modelled; a stream not seen yet is     *)
(* like a fresh one.                                                       *)
(*                                                                         *)
(* A chunk is what the voice activity detector makes of it.  The time      *)
(* stamps of the code, always compared with the present, are the time      *)
(* passed since, counted no further than the threshold it is compared      *)
(* with.  The metrics are left out.                                        *)
(***************************************************************************)
EXTENDS Naturals, Sequences, FiniteSets

CONSTANTS Silence,  \* silence_threshold_ms, in ticks
          MaxAge,   \* max_buffer_duration_seconds, in ticks
          Unset,    \* Python's None
          MaxLen    \* bound: chunks a buffer holds

ASSUME BufferAssumption ==
    /\ Silence \in Nat \ {0}
    /\ MaxAge \in Nat \ {0}
    /\ MaxLen \in Nat \ {0}
    /\ Unset \notin Nat

VARIABLES state,    \* _stream_states
          buffer,   \* _stream_buffers
          quiet,    \* time since _silence_start_times
          age,      \* time since _buffer_start_times
          returned, \* what the last call returned, <<>> for None
          missing,  \* history: speech chunks that came and were not returned yet
          pause     \* history: time since the last speech chunk

vars == <<state, buffer, quiet, age, returned, missing, pause>>

Activities == {"speech", "silence", "unknown"}
States == {"idle", "speaking", "silence_detected"}

SpeechIn(chunks) == Cardinality({i \in DOMAIN chunks : chunks[i] = "speech"})

Init ==
    /\ state = "idle"
    /\ buffer = <<>>
    /\ quiet = Unset
    /\ age = Unset
    /\ returned = <<>>
    /\ missing = 0
    /\ pause = Silence

-----------------------------------------------------------------------------
(* Effects *)

\* The chunk stays in the buffer and the call returns None.
Keep(a) ==
    /\ Len(buffer) < MaxLen     \* bound
    /\ buffer' = Append(buffer, a)
    /\ returned' = <<>>

\* Mutants of FlushBuffer: the buffer is not emptied; the state is not reset.
FlushKeepsChunks(chunks) ==
    /\ returned' = chunks
    /\ buffer' = chunks
    /\ state' = "idle" /\ quiet' = Unset /\ age' = Unset
FlushKeepsState(chunks) ==
    /\ returned' = chunks
    /\ buffer' = <<>>
    /\ UNCHANGED <<state, quiet, age>>

\* _flush_buffer on a buffer that holds these chunks.
FlushBuffer(chunks) ==
    /\ returned' = chunks
    /\ buffer' = <<>>
    /\ state' = "idle" /\ quiet' = Unset /\ age' = Unset

-----------------------------------------------------------------------------
(* add_chunk, by the state it finds *)

\* Nobody speaks: the chunk is discarded.
StayIdle(a) ==
    /\ state = "idle" /\ a # "speech"
    /\ returned' = <<>>
    /\ UNCHANGED <<state, buffer, quiet, age>>

StartSpeaking(a) ==
    /\ state = "idle" /\ a = "speech"
    /\ Keep(a)
    /\ state' = "speaking" /\ quiet' = Unset /\ age' = 0

FallSilent(a) ==
    /\ state = "speaking" /\ a = "silence"
    /\ Keep(a)
    /\ state' = "silence_detected" /\ quiet' = 0
    /\ UNCHANGED age

\* Mutant of KeepSpeaking: the age of the buffer is not looked at.
SpeakWithoutLimit(a) ==
    /\ state = "speaking" /\ a # "silence"
    /\ Keep(a)
    /\ UNCHANGED <<state, quiet, age>>

\* An undecided chunk goes on as speech; only here the buffer's age counts.
KeepSpeaking(a) ==
    /\ state = "speaking" /\ a # "silence"
    /\ \/ age >= MaxAge /\ FlushBuffer(Append(buffer, a))
       \/ age < MaxAge /\ Keep(a) /\ UNCHANGED <<state, quiet, age>>

\* Mutants of ResumeSpeaking: the chunk is dropped; the silence is kept.
ResumeWithoutChunk(a) ==
    /\ state = "silence_detected" /\ a = "speech"
    /\ returned' = <<>>
    /\ state' = "speaking" /\ quiet' = Unset
    /\ UNCHANGED <<buffer, age>>
ResumeInSilence(a) ==
    /\ state = "silence_detected" /\ a = "speech"
    /\ Keep(a)
    /\ UNCHANGED <<state, quiet, age>>

ResumeSpeaking(a) ==
    /\ state = "silence_detected" /\ a = "speech"
    /\ Keep(a)
    /\ state' = "speaking" /\ quiet' = Unset
    /\ UNCHANGED age

\* The end of the utterance, once the silence has lasted.
StaySilent(a) ==
    /\ state = "silence_detected" /\ a # "speech"
    /\ \/ quiet >= Silence /\ FlushBuffer(Append(buffer, a))
       \/ quiet < Silence /\ Keep(a) /\ UNCHANGED <<state, quiet, age>>

\* A VAD that raises counts as undecided.
AddChunk(a) ==
    /\ \/ StayIdle(a)
       \/ StartSpeaking(a)
       \/ FallSilent(a)
       \/ KeepSpeaking(a)
       \/ ResumeSpeaking(a)
       \/ StaySilent(a)
    /\ missing' = missing + (IF a = "speech" THEN 1 ELSE 0) - SpeechIn(returned')
    /\ pause' = IF a = "speech" THEN 0 ELSE pause

-----------------------------------------------------------------------------
(* The other calls, and time *)

\* A 'stop' or a lost connection: whatever is pending is returned.
Flush ==
    /\ IF buffer = <<>>
       THEN returned' = <<>> /\ UNCHANGED <<state, buffer, quiet, age>>
       ELSE FlushBuffer(buffer)
    /\ missing' = missing - SpeechIn(returned')
    /\ UNCHANGED pause

\* A 'clear', or the end of the call: whatever is pending is dropped.
Reset ==
    /\ buffer' = <<>> /\ returned' = <<>>
    /\ state' = "idle" /\ quiet' = Unset /\ age' = Unset
    /\ missing' = 0
    /\ UNCHANGED pause

Later(t, limit) == IF t = Unset \/ t = limit THEN t ELSE t + 1

Tick ==
    /\ quiet' = Later(quiet, Silence)
    /\ age' = Later(age, MaxAge)
    /\ pause' = Later(pause, Silence)
    /\ UNCHANGED <<state, buffer, returned, missing>>

Chunk == \E a \in Activities : AddChunk(a)

Next == Chunk \/ Flush \/ Reset \/ Tick

Spec == Init /\ [][Next]_vars

\* Time passes, and the peer sends audio, silent or not, as long as the call
\* lasts: the media stream of a telephone line never pauses.
FairSpec == Spec /\ WF_vars(Chunk) /\ WF_vars(Tick)

-----------------------------------------------------------------------------
(* Properties *)

\* Type invariant; no chunk is returned twice (missing never drops below 0).
TypeOK ==
    /\ state \in States
    /\ buffer \in Seq(Activities) /\ Len(buffer) <= MaxLen
    /\ quiet \in 0 .. Silence \cup {Unset}
    /\ age \in 0 .. MaxAge \cup {Unset}
    /\ returned \in Seq(Activities)
    /\ missing \in 0 .. MaxLen
    /\ pause \in 0 .. Silence

\* The four per-stream dictionaries agree on every path: audio is held exactly
\* outside idle, it starts with speech and has an age; a silence is being timed
\* exactly in silence_detected, and then really no speech came since it began.
StateMatchesBuffer ==
    /\ state = "idle" <=> buffer = <<>>
    /\ state = "idle" <=> age = Unset
    /\ state = "silence_detected" <=> quiet # Unset
    /\ buffer # <<>> => buffer[1] = "speech"
    /\ state = "silence_detected" => quiet <= pause /\ buffer[Len(buffer)] # "speech"

\* Nothing the caller says is lost between utterances: every speech chunk that
\* came and was not returned yet is in the buffer, whatever the transitions.
SpeechKept == missing = SpeechIn(buffer)

\* A chunk cuts an utterance off only for a reason: the caller has not spoken
\* for the whole silence threshold, or the buffer has reached its maximal age.
CutOnlyWhenDue ==
    [][\A a \in Activities : AddChunk(a) /\ returned' # <<>> =>
          \/ a # "speech" /\ pause = Silence
          \/ a # "silence" /\ age = MaxAge]_vars

\* A caller who falls silent for good gets what was said worked on: the buffer
\* does not wait for speech to come, nor for ever for an undecided detector.
QuietCallerIsAnswered ==
    <>[](pause = Silence) => <>[](buffer = <<>>)

\* The docstrings of the class: a flush occurs when the maximal buffer duration
\* is exceeded, for safety.
MaxAgeIsEnforced ==
    [][\A a \in Activities : AddChunk(a) /\ age = MaxAge => buffer' = <<>>]_vars
=============================================================================
