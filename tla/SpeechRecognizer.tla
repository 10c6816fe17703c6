--------------------------- MODULE SpeechRecognizer ---------------------------
(***************************************************************************)
(* GoogleSTTAdapter for one stream: audio is collected until there is      *)
(* enough of it, then recognized in a thread while the connections of the  *)
(* stream bring more.  Audio is counted in units, numbered as they arrive. *)
(***************************************************************************)
EXTENDS FiniteSets, Integers

CONSTANTS Feeder,   \* connections of the stream; each waits for its chunk's transcripts
          Sizes,    \* of chunks, in units
          MinAudio, \* min_buffer_bytes, in units
          MaxAudio  \* bound: units that arrive

ASSUME RecognizerAssumption ==
    /\ Sizes \subseteq Nat \ {0} /\ MinAudio \in Nat \ {0} /\ MaxAudio \in Nat

VARIABLES arrived,     \* units so far
          buffered,    \* _buffers[stream]
          recognizing, \* what each connection's thread works on
          transcribed, \* history: units a recognition has returned from
          dropped      \* history: units flushed, or lost in a recognition that raised

recognizerVars == <<arrived, buffered, recognizing, transcribed, dropped>>

RecognizerInit ==
    /\ arrived = 0 /\ buffered = {} /\ transcribed = {} /\ dropped = {}
    /\ recognizing = [f \in Feeder |-> {}]

\* Mutant of Snapshot: the buffer is not replaced before the call.
SnapshotOnly(f, audio) ==
    buffered' = audio /\ recognizing' = [recognizing EXCEPT ![f] = audio]

\* The buffer is replaced before the blocking call.
Snapshot(f, audio) ==
    buffered' = {} /\ recognizing' = [recognizing EXCEPT ![f] = audio]

\* transcribe, up to the thread pool.
HearChunk(f, size) ==
    LET audio == buffered \cup (arrived + 1 .. arrived + size) IN
    /\ recognizing[f] = {} /\ arrived + size <= MaxAudio
    /\ arrived' = arrived + size
    /\ IF Cardinality(audio) < MinAudio THEN buffered' = audio /\ UNCHANGED recognizing
                                        ELSE Snapshot(f, audio)
    /\ UNCHANGED <<transcribed, dropped>>

RecognitionEnds(f) ==
    /\ recognizing[f] # {} /\ recognizing' = [recognizing EXCEPT ![f] = {}]
    /\ \/ transcribed' = transcribed \cup recognizing[f] /\ UNCHANGED dropped
       \/ dropped' = dropped \cup recognizing[f] /\ UNCHANGED transcribed
    /\ UNCHANGED <<arrived, buffered>>

\* flush, when a connection has ended.
FlushRecognizer ==
    /\ dropped' = dropped \cup buffered /\ buffered' = {}
    /\ UNCHANGED <<arrived, recognizing, transcribed>>

RecognizerNext ==
    \/ \E f \in Feeder : RecognitionEnds(f) \/ \E size \in Sizes : HearChunk(f, size)
    \/ FlushRecognizer

RecognizerSpec == RecognizerInit /\ [][RecognizerNext]_recognizerVars

-----------------------------------------------------------------------------
(* Properties *)

RecognizerTypeOK ==
    /\ arrived \in 0 .. MaxAudio
    /\ buffered \subseteq 1 .. arrived /\ transcribed \subseteq 1 .. arrived
    /\ dropped \subseteq 1 .. arrived
    /\ recognizing \in [Feeder -> SUBSET (1 .. arrived)]

InFlight == UNION {recognizing[f] : f \in Feeder}

\* Whatever arrives, ends or is flushed while recognitions are under way, no audio is
\* recognized twice, and none of it vanishes but by a flush or an error; what waits in
\* the buffer came after everything else, and is too little for a recognition.
AudioHeardOnce ==
    /\ buffered \cup InFlight \cup transcribed \cup dropped = 1 .. arrived
    /\ \A f \in Feeder : recognizing[f] \cap (transcribed \cup dropped) = {}
    /\ \A f, g \in Feeder : f # g => recognizing[f] \cap recognizing[g] = {}
    /\ transcribed \cap dropped = {}
    /\ \A b \in buffered, u \in InFlight \cup transcribed \cup dropped : u < b
    /\ Cardinality(buffered) < MinAudio
=============================================================================
