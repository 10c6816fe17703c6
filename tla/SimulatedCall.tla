---------------------------- MODULE SimulatedCall ----------------------------
(***************************************************************************)
(* The Exotel simulator (scripts/sim_exotel.py) against the server in      *)
(* DEV_MODE: stub adapters, no voice detection, so that every chunk is     *)
(* transcribed.  A call is a script of events that its client sends into a *)
(* socket and the handler works off in order; the stub recognizer always   *)
(* hears the same words, so all answers but one in a while are duplicates. *)
(*                                                                         *)
(* A tick is one stub segment, 200 ms.  Only pacing and the client take    *)
(* time: it does not pass while the handler has something to do.           *)
(***************************************************************************)
EXTENDS Naturals, Sequences

CONSTANTS SimCall,      \* calls of a scenario
          Segments,     \* of a stub answer
          TriggerEvery, \* chunks until the stub recognizer hears something
          DedupWindow,  \* dedup_window_ms, in ticks
          Ready         \* no final utterance has been recorded

ASSUME SimulatedAssumption ==
    /\ Segments \in Nat \ {0} /\ TriggerEvery \in Nat \ {0} /\ DedupWindow \in Nat
    /\ Ready \notin Nat

VARIABLES script,   \* what each client sends
          sent,     \* events it has sent
          read,     \* events the handler has received
          speaking, \* segments of the current answer still to send
          hold,     \* ticks until the next one may go
          ahead,    \* ticks the stream's media timestamp is ahead of the clock
          counter,  \* chunks the recognizer has seen
          final,    \* ticks since the last final utterance was recorded, or Ready
          heard_segments, \* media events the client has collected
          silence   \* history: ticks since a segment was sent, or Ready

simulatedVars == <<script, sent, read, speaking, hold, ahead, counter, final,
                   heard_segments, silence>>

Times(n, event) == [i \in 1 .. n |-> event]
Opening == <<"connected", "start">>

BasicCall == Opening \o Times(9, "media") \o <<"stop">>
ClearCall == Opening \o Times(3, "media") \o <<"clear">> \o Times(6, "media") \o <<"stop">>
DtmfCall  == Opening \o Times(3, "media") \o <<"dtmf">> \o Times(3, "media") \o <<"stop">>
ShortCall == Opening \o Times(3, "media") \o <<"stop">>

\* One call of a scenario, or all calls at once.
Scenario ==
    [SimCall -> {ShortCall}]
    \cup UNION {{[d \in SimCall |-> IF d = c THEN s ELSE << >>] : c \in SimCall} :
                s \in {BasicCall, ClearCall, DtmfCall}}

SimulatedInit ==
    /\ script \in Scenario
    /\ sent = [c \in SimCall |-> 0] /\ read = [c \in SimCall |-> 0]
    /\ speaking = [c \in SimCall |-> 0] /\ hold = [c \in SimCall |-> 0]
    /\ ahead = [c \in SimCall |-> 0] /\ counter = [c \in SimCall |-> 0]
    /\ final = [c \in SimCall |-> Ready] /\ silence = [c \in SimCall |-> Ready]
    /\ heard_segments = [c \in SimCall |-> 0]

ClientSends(c) ==
    /\ sent[c] < Len(script[c]) /\ sent' = [sent EXCEPT ![c] = @ + 1]
    /\ UNCHANGED <<script, read, speaking, hold, ahead, counter, final, heard_segments, silence>>

\* The handler receives the next event when it is done with the one before.
Receives(c, event) ==
    /\ speaking[c] = 0 /\ read[c] < sent[c] /\ script[c][read[c] + 1] = event
    /\ read' = [read EXCEPT ![c] = @ + 1]

\* Events that start no answer.  The stop's reason is "callended": pending audio
\* is not finalized.
Handles(c) ==
    /\ \E e \in {"connected", "start", "clear", "dtmf", "stop"} : Receives(c, e)
    /\ UNCHANGED <<script, sent, speaking, hold, ahead, counter, final, heard_segments, silence>>

IsDuplicateFinal(c) == final[c] # Ready /\ final[c] <= DedupWindow

Transcribes(c) == (counter[c] + 1) % TriggerEvery = 0

\* Nothing is heard, or the same words again within the window.
MediaUnanswered(c) ==
    /\ Receives(c, "media")
    /\ counter' = [counter EXCEPT ![c] = (@ + 1) % TriggerEvery]
    /\ Transcribes(c) => IsDuplicateFinal(c)
    /\ UNCHANGED <<script, sent, speaking, hold, ahead, final, heard_segments, silence>>

\* Mutant of RecordsFinal: before the utterance is answered.
RecordsFinalFirst(c, moment) ==
    final' = IF moment = "heard" THEN [final EXCEPT ![c] = 0] ELSE final

\* _record_final_utterance: the window starts when the answer has been sent.
RecordsFinal(c, moment) ==
    final' = IF moment = "answered" THEN [final EXCEPT ![c] = 0] ELSE final

\* Mutant of MediaAnswered: only what has been heard before is answered.
MediaRecognized(c) ==
    /\ Receives(c, "media") /\ Transcribes(c) /\ ~IsDuplicateFinal(c)
    /\ counter' = [counter EXCEPT ![c] = (@ + 1) % TriggerEvery]
    /\ speaking' = [speaking EXCEPT ![c] = IF final[c] = Ready THEN 0 ELSE Segments]
    /\ hold' = [hold EXCEPT ![c] = ahead[c]]
    /\ IF final[c] = Ready THEN RecordsFinal(c, "answered") ELSE RecordsFinal(c, "heard")
    /\ UNCHANGED <<script, sent, ahead, heard_segments, silence>>

\* A new utterance: the stubs answer without delay.
MediaAnswered(c) ==
    /\ Receives(c, "media") /\ Transcribes(c) /\ ~IsDuplicateFinal(c)
    /\ counter' = [counter EXCEPT ![c] = (@ + 1) % TriggerEvery]
    /\ speaking' = [speaking EXCEPT ![c] = Segments]
    /\ hold' = [hold EXCEPT ![c] = ahead[c]]
    /\ RecordsFinal(c, "heard")
    /\ UNCHANGED <<script, sent, ahead, heard_segments, silence>>

\* A segment is sent at its timestamp; after the last one the utterance is recorded.
Speaks(c) ==
    /\ speaking[c] > 0 /\ hold[c] = 0
    /\ speaking' = [speaking EXCEPT ![c] = @ - 1]
    /\ ahead' = [ahead EXCEPT ![c] = @ + 1] /\ hold' = [hold EXCEPT ![c] = ahead'[c]]
    /\ RecordsFinal(c, IF speaking[c] = 1 THEN "answered" ELSE "spoken")
    /\ heard_segments' = [heard_segments EXCEPT ![c] = @ + 1]
    /\ silence' = [silence EXCEPT ![c] = 0]
    /\ UNCHANGED <<script, sent, read, counter>>

Busy(c) == \/ speaking[c] > 0 /\ hold[c] = 0
           \/ speaking[c] = 0 /\ read[c] < sent[c]

\* A timer that has passed the window need not run on.
Older(timer) == IF timer \in {Ready, DedupWindow + 1} THEN timer ELSE timer + 1
Sooner(timer) == IF timer = 0 THEN 0 ELSE timer - 1

SimulatedTick ==
    /\ \A c \in SimCall : ~Busy(c)
    /\ \E c \in SimCall : read[c] < Len(script[c])
    /\ hold' = [c \in SimCall |-> Sooner(hold[c])]
    /\ ahead' = [c \in SimCall |-> Sooner(ahead[c])]
    /\ final' = [c \in SimCall |-> Older(final[c])]
    /\ silence' = [c \in SimCall |-> Older(silence[c])]
    /\ UNCHANGED <<script, sent, read, speaking, counter, heard_segments>>

SimulatedNext ==
    \/ SimulatedTick
    \/ \E c \in SimCall : \/ ClientSends(c) \/ Handles(c) \/ MediaUnanswered(c)
                          \/ MediaAnswered(c) \/ Speaks(c)

SimulatedSpec == SimulatedInit /\ [][SimulatedNext]_simulatedVars

-----------------------------------------------------------------------------
(* Properties *)

SimulatedTypeOK ==
    \A c \in SimCall :
        /\ sent[c] \in 0 .. Len(script[c]) /\ read[c] \in 0 .. sent[c]
        /\ speaking[c] \in 0 .. Segments /\ hold[c] \in 0 .. ahead[c]
        /\ ahead[c] \in Nat /\ counter[c] \in 0 .. TriggerEvery - 1
        /\ final[c] \in 0 .. DedupWindow + 1 \cup {Ready} /\ heard_segments[c] \in Nat
        /\ silence[c] \in 0 .. DedupWindow + 1 \cup {Ready}

\* The window of _is_duplicate_final runs from the end of an answer, however long its
\* pacing took and whatever piled up in the socket meanwhile: an utterance that repeats
\* the last one is answered only when the caller has been sent nothing for longer.
RepeatsAreSpacedOut ==
    [][\A c \in SimCall : speaking[c] = 0 /\ speaking'[c] > 0 =>
          silence[c] = Ready \/ silence[c] > DedupWindow]_simulatedVars

\* A call of the simulator that the server has worked off has been sent at least one
\* whole answer: what the scenarios assert of the audio they get back.
CallsAreAnswered ==
    \A c \in SimCall : script[c] # << >> /\ read[c] = Len(script[c]) =>
        heard_segments[c] >= Segments
=============================================================================
