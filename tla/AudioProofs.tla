---------------------------- MODULE AudioProofs -----------------------------
(***************************************************************************)
(* The audio of a call on its way in and out: no chunk of the caller is    *)
(* lost or heard twice, and what a caller is sent is in order, for any     *)
(* number of connections and tasks, chunks and segments of any length, and *)
(* any limits.                                                             *)
(*                                                                         *)
(* The argument for the way out: the segments that are held back for one   *)
(* connection are ordered by their numbers and by their times alike, and   *)
(* all of them count down to the same clock; so the first of them is due   *)
(* first, and a segment that need not be held back finds none held back    *)
(* before it.                                                              *)
(*                                                                         *)
(* At the end, the two ends together: what the simulator's scripts meet.   *)
(***************************************************************************)
EXTENDS SpeechRecognizer, EnhancedAudioBuffer, OutboundAudio, SimulatedCall,
        FiniteSetTheorems, SequenceTheorems, WellFoundedInduction, TLAPS

-----------------------------------------------------------------------------
(* SpeechRecognizer *)

RecognizerInv ==
    /\ arrived \in Nat
    /\ DOMAIN recognizing = Feeder /\ recognizing = [f \in Feeder |-> recognizing[f]]
    /\ AudioHeardOnce

\* No audio has arrived, and nothing has been heard.
LEMMA RecognizerInvInit == RecognizerInit => RecognizerInv
  <1> SUFFICES ASSUME RecognizerInit PROVE RecognizerInv
    OBVIOUS
  <1>1. InFlight = {}
    BY DEF RecognizerInit, InFlight
  <1>2. 1 .. arrived = {} /\ Cardinality(buffered) = 0
    BY FS_EmptySet DEF RecognizerInit
  <1> QED  BY <1>1, <1>2, RecognizerAssumption DEF RecognizerInit, RecognizerInv, AudioHeardOnce

\* A chunk joins the buffer, or takes it along into a recognition.
LEMMA HearChunkStep ==
    ASSUME RecognizerInv, NEW f \in Feeder, NEW size \in Sizes, HearChunk(f, size)
    PROVE  RecognizerInv'
  <1> DEFINE new == arrived + 1 .. arrived + size
  <1>1. arrived \in Nat /\ size \in Nat /\ size > 0 /\ arrived' = arrived + size /\ recognizing[f] = {}
    BY RecognizerAssumption DEF RecognizerInv, HearChunk
  <1>2. UNCHANGED <<transcribed, dropped>>
    BY DEF HearChunk
  <1>3. 1 .. arrived' = (1 .. arrived) \cup new /\ \A u \in 1 .. arrived, b \in new : u < b
    BY <1>1
  <1> HIDE DEF new
  <1>4. buffered \cup InFlight \cup transcribed \cup dropped = 1 .. arrived
    BY DEF RecognizerInv, AudioHeardOnce
  <1>5. CASE /\ Cardinality(buffered \cup new) < MinAudio
             /\ buffered' = buffered \cup new /\ UNCHANGED recognizing
    <2>1. InFlight' = InFlight
      BY <1>5 DEF InFlight
    <2>2. \A b \in buffered', u \in InFlight \cup transcribed \cup dropped : u < b
      BY <1>3, <1>4, <1>5 DEF RecognizerInv, AudioHeardOnce
    <2>3. buffered' \cup InFlight' \cup transcribed' \cup dropped' = 1 .. arrived'
      BY <1>2, <1>3, <1>4, <1>5, <2>1
    <2> QED  BY <1>1, <1>2, <1>5, <2>1, <2>2, <2>3 DEF RecognizerInv, AudioHeardOnce
  <1>6. CASE buffered' = {} /\ recognizing' = [recognizing EXCEPT ![f] = buffered \cup new]
    <2>1. \A g \in Feeder : recognizing'[g] = IF g = f THEN buffered \cup new ELSE recognizing[g]
      BY <1>6 DEF RecognizerInv
    <2>2. InFlight' = InFlight \cup buffered \cup new
      BY <1>1, <2>1 DEF InFlight
    <2>3. (buffered \cup new) \cap (InFlight \cup transcribed \cup dropped) = {}
      <3> SUFFICES ASSUME NEW b \in buffered \cup new, b \in InFlight \cup transcribed \cup dropped
                   PROVE  FALSE
        OBVIOUS
      <3>1. b \in 1 .. arrived
        BY <1>4
      <3> QED  BY <1>1, <1>3, <3>1 DEF RecognizerInv, AudioHeardOnce
    <2>4. \A g \in Feeder : recognizing[g] \subseteq InFlight
      BY DEF InFlight
    <2>5. \A g \in Feeder : recognizing'[g] \cap (transcribed \cup dropped) = {}
      BY <2>1, <2>3 DEF RecognizerInv, AudioHeardOnce
    <2>6. \A g, h \in Feeder : g # h => recognizing'[g] \cap recognizing'[h] = {}
      BY <2>1, <2>3, <2>4 DEF RecognizerInv, AudioHeardOnce
    <2>7. Cardinality(buffered') < MinAudio
      BY <1>6, FS_EmptySet, RecognizerAssumption
    <2>8. buffered' \cup InFlight' \cup transcribed' \cup dropped' = 1 .. arrived'
      BY <1>2, <1>3, <1>4, <1>6, <2>2
    <2>9. \A b \in buffered', u \in (InFlight \cup transcribed \cup dropped)' : u < b
      BY <1>6
    <2>10. recognizing' = [g \in Feeder |-> recognizing'[g]] /\ DOMAIN recognizing' = Feeder
      BY <1>6 DEF RecognizerInv
    <2>11. (transcribed \cap dropped = {})'
      BY <1>2 DEF RecognizerInv, AudioHeardOnce
    <2> QED  BY <1>1, <1>2, <2>5, <2>6, <2>7, <2>8, <2>9, <2>10, <2>11 DEF RecognizerInv, AudioHeardOnce
  <1> QED  BY <1>5, <1>6 DEF HearChunk, Snapshot, new

\* What a recognition returns, or loses, was its own.
LEMMA RecognitionEndsStep ==
    ASSUME RecognizerInv, NEW f \in Feeder, RecognitionEnds(f)
    PROVE  RecognizerInv'
  <1>1. \A g \in Feeder : recognizing'[g] = IF g = f THEN {} ELSE recognizing[g]
    BY DEF RecognitionEnds, RecognizerInv
  <1>2. /\ UNCHANGED <<arrived, buffered>>
        /\ \/ transcribed' = transcribed \cup recognizing[f] /\ UNCHANGED dropped
           \/ dropped' = dropped \cup recognizing[f] /\ UNCHANGED transcribed
    BY DEF RecognitionEnds
  <1>3. InFlight = InFlight' \cup recognizing[f]
    BY <1>1 DEF InFlight
  <1>4. (InFlight \cup transcribed \cup dropped)' = InFlight \cup transcribed \cup dropped
    BY <1>2, <1>3
  <1>5. recognizing' = [g \in Feeder |-> recognizing'[g]] /\ DOMAIN recognizing' = Feeder
    BY DEF RecognitionEnds, RecognizerInv
  <1>6. transcribed' \cap dropped' = {}
    BY <1>2 DEF RecognizerInv, AudioHeardOnce
  <1>7. \A g \in Feeder : recognizing'[g] \cap (transcribed' \cup dropped') = {}
    BY <1>1, <1>2 DEF RecognizerInv, AudioHeardOnce
  <1>8. \A g, h \in Feeder : g # h => recognizing'[g] \cap recognizing'[h] = {}
    BY <1>1 DEF RecognizerInv, AudioHeardOnce
  <1>9. buffered' \cup InFlight' \cup transcribed' \cup dropped' = 1 .. arrived'
    BY <1>2, <1>4 DEF RecognizerInv, AudioHeardOnce
  <1>10. \A b \in buffered', u \in (InFlight \cup transcribed \cup dropped)' : u < b
    BY <1>2, <1>4 DEF RecognizerInv, AudioHeardOnce
  <1> QED  BY <1>2, <1>5, <1>6, <1>7, <1>8, <1>9, <1>10 DEF RecognizerInv, AudioHeardOnce

\* A flush drops what waits in the buffer and nothing else.
LEMMA FlushRecognizerStep == ASSUME RecognizerInv, FlushRecognizer PROVE RecognizerInv'
  <1>1. /\ dropped' = dropped \cup buffered /\ buffered' = {}
        /\ UNCHANGED <<arrived, recognizing, transcribed>> /\ InFlight' = InFlight
    BY DEF FlushRecognizer, InFlight
  <1>2. buffered \cap (InFlight \cup transcribed \cup dropped) = {}
    <2> SUFFICES ASSUME NEW b \in buffered, b \in InFlight \cup transcribed \cup dropped PROVE FALSE
      OBVIOUS
    <2>1. b < b /\ b \in 1 .. arrived /\ arrived \in Nat
      BY DEF RecognizerInv, AudioHeardOnce
    <2> QED  BY <2>1
  <1>3. \A f \in Feeder : recognizing[f] \subseteq InFlight
    BY DEF InFlight
  <1>4. Cardinality(buffered') < MinAudio
    BY <1>1, FS_EmptySet, RecognizerAssumption
  <1>5. \A f \in Feeder : recognizing[f] \cap (transcribed \cup dropped') = {}
    BY <1>1, <1>2, <1>3 DEF RecognizerInv, AudioHeardOnce
  <1>6. transcribed \cap dropped' = {}
    BY <1>1, <1>2 DEF RecognizerInv, AudioHeardOnce
  <1>7. buffered' \cup InFlight' \cup transcribed' \cup dropped' = 1 .. arrived'
    BY <1>1 DEF RecognizerInv, AudioHeardOnce
  <1> QED  BY <1>1, <1>4, <1>5, <1>6, <1>7 DEF RecognizerInv, AudioHeardOnce

\* No audio is recognized twice or vanishes, and what waits came last.
THEOREM EveryUnitHeardOnce == RecognizerSpec => []AudioHeardOnce
  <1>1. RecognizerInv => AudioHeardOnce
    BY DEF RecognizerInv
  <1>2. RecognizerInv /\ [RecognizerNext]_recognizerVars => RecognizerInv'
    <2>1. RecognizerInv /\ UNCHANGED recognizerVars => RecognizerInv'
      BY DEF recognizerVars, RecognizerInv, AudioHeardOnce, InFlight
    <2> QED  BY <2>1, HearChunkStep, RecognitionEndsStep, FlushRecognizerStep DEF RecognizerNext
  <1> QED  BY <1>1, <1>2, RecognizerInvInit, PTL DEF RecognizerSpec

\* All audio at work is some that has arrived, and no more arrives than is modelled.
THEOREM RecognizerTypesHold == RecognizerSpec => []RecognizerTypeOK
  <1> DEFINE Bounded == arrived <= MaxAudio
  <1>1. RecognizerInit => Bounded
    BY RecognizerAssumption DEF RecognizerInit
  <1>2. Bounded /\ [RecognizerNext]_recognizerVars => Bounded'
    BY DEF RecognizerNext, RecognitionEnds, HearChunk, FlushRecognizer, recognizerVars
  <1>3. RecognizerInv /\ [RecognizerNext]_recognizerVars => RecognizerInv'
    <2>1. RecognizerInv /\ UNCHANGED recognizerVars => RecognizerInv'
      BY DEF recognizerVars, RecognizerInv, AudioHeardOnce, InFlight
    <2> QED  BY <2>1, HearChunkStep, RecognitionEndsStep, FlushRecognizerStep DEF RecognizerNext
  <1>4. RecognizerInv /\ Bounded => RecognizerTypeOK
    <2> SUFFICES ASSUME RecognizerInv, Bounded PROVE RecognizerTypeOK
      OBVIOUS
    <2>1. arrived \in 0 .. MaxAudio
      BY RecognizerAssumption DEF RecognizerInv
    <2>2. \A f \in Feeder : recognizing[f] \subseteq InFlight
      BY DEF InFlight
    <2>3. buffered \cup InFlight \cup transcribed \cup dropped = 1 .. arrived
      BY DEF RecognizerInv, AudioHeardOnce
    <2>4. recognizing \in [Feeder -> SUBSET (1 .. arrived)]
      BY <2>2, <2>3 DEF RecognizerInv
    <2> QED  BY <2>1, <2>3, <2>4 DEF RecognizerTypeOK
  <1> QED  BY <1>1, <1>2, <1>3, <1>4, RecognizerInvInit, PTL DEF RecognizerSpec

-----------------------------------------------------------------------------
(* EnhancedAudioBuffer *)

EnhancedInv ==
    /\ mode \in Mode /\ voicedHeld \in Nat /\ otherHeld \in Nat
    /\ accumulating \in Nat \cup {Unset} /\ hushed \in Nat \cup {Unset}
    /\ aged \in Nat \cup {Unset}
    /\ EnhancedKeepsSpeech

\* A timer that runs goes on running, and one that does not does not start.
LEMMA OneMoreRuns ==
    ASSUME NEW timer \in Nat \cup {Unset}, NEW limit \in Nat
    PROVE  OneMore(timer, limit) \in Nat \cup {Unset} /\ (OneMore(timer, limit) = Unset <=> timer = Unset)
  BY EnhancedAssumption DEF OneMore

\* Every chunk, flush and reset, and time, preserve the invariant.
LEMMA EnhancedInvStep == EnhancedInv /\ [EnhancedNext]_enhancedVars => EnhancedInv'
  <1> SUFFICES ASSUME EnhancedInv, [EnhancedNext]_enhancedVars PROVE EnhancedInv'
    OBVIOUS
  <1> USE EnhancedAssumption DEF EnhancedInv, EnhancedKeepsSpeech, HeldChunks, Mode
  <1>1. EmptyStream => EnhancedInv'
    BY DEF EmptyStream
  <1>2. DoFlush => EnhancedInv'
    BY <1>1 DEF DoFlush, enhancedVars
  <1>3. ASSUME NEW c \in AudioChunk, AddEnhancedChunk(c) PROVE EnhancedInv'
    <2> USE DEF Owe, AppendChunk, KeepBuffer, KeepTimers
    <2>1. CASE WhileIdle(c)
      BY <2>1 DEF WhileIdle
    <2>2. CASE WhileAccumulating(c)
      BY <2>2 DEF WhileAccumulating
    <2>3. CASE WhileSpeaking(c)
      BY <1>1, <2>3 DEF WhileSpeaking
    <2>4. CASE WhileSilent(c)
      BY <1>2, <2>4 DEF WhileSilent, SpeechResumed
    <2> QED  BY <1>3, <2>1, <2>2, <2>3, <2>4 DEF AddEnhancedChunk
  <1>4. ASSUME EnhancedTick PROVE EnhancedInv'
    <2>1. /\ accumulating' \in Nat \cup {Unset} /\ (accumulating' = Unset <=> accumulating = Unset)
          /\ hushed' \in Nat \cup {Unset} /\ (hushed' = Unset <=> hushed = Unset)
          /\ aged' \in Nat \cup {Unset} /\ (aged' = Unset <=> aged = Unset)
      BY <1>4, OneMoreRuns DEF EnhancedTick
    <2> QED  BY <1>4, <2>1 DEF EnhancedTick
  <1>5. UNCHANGED enhancedVars => EnhancedInv'
    BY DEF enhancedVars
  <1> QED  BY <1>1, <1>2, <1>3, <1>4, <1>5 DEF EnhancedNext, FlushEnhanced, ResetEnhanced

\* All voiced chunks since the last flush are in the buffer, and its state and timers
\* fit, whatever the limits are and however speech, pauses and noise alternate.
THEOREM SpeechIsKept == EnhancedSpec => []EnhancedKeepsSpeech
  <1>1. EnhancedInit => EnhancedInv
    BY EnhancedAssumption DEF EnhancedInit, EnhancedInv, EnhancedKeepsSpeech, HeldChunks, Mode
  <1>2. EnhancedInv => EnhancedKeepsSpeech
    BY DEF EnhancedInv
  <1> QED  BY <1>1, <1>2, EnhancedInvStep, PTL DEF EnhancedSpec

\* A timer that runs stops at its limit.
LEMMA OneMoreStops ==
    ASSUME NEW limit \in Nat, NEW timer \in Timer(limit)
    PROVE  OneMore(timer, limit) \in Timer(limit)
  BY EnhancedAssumption DEF OneMore, Timer

\* The buffer never holds more chunks than are modelled, and the timers stop at the
\* limits they are compared with.
THEOREM EnhancedTypesHold == EnhancedSpec => []EnhancedTypeOK
  <1> DEFINE Kept == /\ HeldChunks <= MaxChunks
                     /\ accumulating \in Timer(MinSpeech) /\ hushed \in Timer(MaxSilence)
                     /\ aged \in Timer(MaxAge)
  <1>1. EnhancedInit => EnhancedInv /\ Kept
    BY EnhancedAssumption DEF EnhancedInit, EnhancedInv, EnhancedKeepsSpeech, HeldChunks, Mode, Timer
  <1>2. Kept /\ EnhancedInv /\ [EnhancedNext]_enhancedVars => Kept'
    <2> SUFFICES ASSUME Kept, EnhancedInv, [EnhancedNext]_enhancedVars PROVE Kept'
      OBVIOUS
    <2>1. voicedHeld \in Nat /\ otherHeld \in Nat
      BY DEF EnhancedInv
    <2>2. 0 \in Timer(MinSpeech) /\ 0 \in Timer(MaxSilence) /\ 0 \in Timer(MaxAge)
      BY EnhancedAssumption DEF Timer
    <2>3. Unset \in Timer(MinSpeech) /\ Unset \in Timer(MaxSilence) /\ Unset \in Timer(MaxAge)
      BY DEF Timer
    <2>4. EmptyStream => Kept'
      BY <2>3, EnhancedAssumption DEF EmptyStream, HeldChunks
    <2>5. UNCHANGED enhancedVars => Kept'
      BY DEF enhancedVars, HeldChunks
    <2>6. DoFlush => Kept'
      BY <2>4, <2>5 DEF DoFlush
    <2>7. ASSUME NEW c \in AudioChunk, AddEnhancedChunk(c) PROVE Kept'
      <3>1. AppendChunk(c) => HeldChunks' <= MaxChunks
        BY <2>1, <2>7, EnhancedAssumption DEF AppendChunk, AddEnhancedChunk, HeldChunks
      <3>2. KeepBuffer => HeldChunks' <= MaxChunks
        BY DEF KeepBuffer, HeldChunks
      <3>3. KeepTimers => Kept' \/ ~(HeldChunks' <= MaxChunks)
        BY DEF KeepTimers
      <3>4. CASE WhileIdle(c)
        BY <2>2, <3>1, <3>2, <3>3, <3>4 DEF WhileIdle
      <3>5. CASE WhileAccumulating(c)
        BY <3>1, <3>2, <3>3, <3>5 DEF WhileAccumulating
      <3>6. CASE WhileSpeaking(c)
        BY <2>2, <2>3, <2>4, <3>1, <3>6 DEF WhileSpeaking
      <3>7. CASE WhileSilent(c)
        BY <2>3, <2>6, <3>1, <3>2, <3>3, <3>7 DEF WhileSilent, SpeechResumed
      <3> QED  BY <2>7, <3>4, <3>5, <3>6, <3>7 DEF AddEnhancedChunk
    <2>8. EnhancedTick => Kept'
      BY OneMoreStops, EnhancedAssumption DEF EnhancedTick, HeldChunks
    <2> QED  BY <2>4, <2>5, <2>6, <2>7, <2>8 DEF EnhancedNext, FlushEnhanced, ResetEnhanced
  <1>3. Kept /\ EnhancedInv => EnhancedTypeOK
    BY EnhancedAssumption DEF EnhancedInv, EnhancedKeepsSpeech, EnhancedTypeOK, HeldChunks
  <1> QED  BY <1>1, <1>2, <1>3, EnhancedInvStep, PTL DEF EnhancedSpec

-----------------------------------------------------------------------------
(* OutboundAudio *)

Message == [wire : Wire \cup {NoWire}, sequence : Nat, chunk : Nat, from : Nat, to : Nat,
            wait : Nat]

\* m has smaller numbers than n and ends before n begins.
Before(m, n) == m.sequence < n.sequence /\ m.chunk < n.chunk /\ m.to <= n.from

\* m has been numbered before whatever the connected wire is sent next.
Past(m) == m.sequence < sequence /\ m.chunk < media /\ m.to <= timestamp

InHold(t) == waiting[t] # Nothing

OutboundTypes ==
    /\ connected \in Wire \cup {NoWire} /\ announced \subseteq Wire /\ pacing \in BOOLEAN
    /\ sequence \in Nat /\ media \in Nat /\ timestamp \in Nat /\ elapsed \in Nat
    /\ waiting \in [Speaker -> Message] /\ received \in [Wire -> Message]

\* Only wires that were announced are connected or served.
Known ==
    /\ connected \in announced \cup {NoWire}
    /\ \A w \in Wire : w \notin announced => received[w] = Nothing
    /\ \A t \in Speaker : InHold(t) => waiting[t].wire \in announced

\* What a wire has been sent is before everything that is numbered or held for it.
SentFirst ==
    /\ connected # NoWire => Past(received[connected])
    /\ \A t \in Speaker : InHold(t) => Before(received[waiting[t].wire], waiting[t])

\* A held segment of the connected wire keeps to its clock.
OnTheClock ==
    \A t \in Speaker : InHold(t) /\ waiting[t].wire = connected =>
        pacing /\ Past(waiting[t]) /\ waiting[t].from = waiting[t].wait + elapsed

\* Held segments of one wire, connected or not, are ordered and count down together.
InStep ==
    /\ \A t \in Speaker : InHold(t) => waiting[t].from < waiting[t].to
    /\ \A t, u \in Speaker : t # u /\ InHold(t) /\ InHold(u) /\ waiting[t].wire = waiting[u].wire =>
          /\ Before(waiting[t], waiting[u]) \/ Before(waiting[u], waiting[t])
          /\ waiting[t].from + waiting[u].wait = waiting[u].from + waiting[t].wait

OutboundInv == OutboundTypes /\ Known /\ SentFirst /\ OnTheClock /\ InStep

\* One message was sent, to its own wire, and it comes after everything that wire had.
InOrder ==
    \A w \in Wire : received'[w] # received[w] => Before(received[w], received'[w])

\* A segment begins at its predecessor's end or now, whichever is later.
LEMMA MaxOfTwo ==
    ASSUME NEW a \in Nat, NEW b \in Nat
    PROVE  Max({a, b}) \in {a, b} /\ a <= Max({a, b}) /\ b <= Max({a, b})
  <1>1. \E x \in {a, b} : \A y \in {a, b} : x >= y
    OBVIOUS
  <1> QED  BY <1>1 DEF Max

\* The empty slot is a message of no connection.
LEMMA NothingType == Nothing \in Message /\ \A w \in Wire : Nothing.wire # w
  BY OutboundAssumption DEF Nothing, Message

\* At first nothing is connected, numbered or held.
LEMMA OutboundInvInit == OutboundInit => OutboundInv
  <1> SUFFICES ASSUME OutboundInit PROVE OutboundInv
    OBVIOUS
  <1>1. \A t \in Speaker : ~InHold(t)
    BY DEF OutboundInit, InHold
  <1>2. OutboundTypes
    BY NothingType DEF OutboundInit, OutboundTypes
  <1>3. Known
    BY <1>1 DEF OutboundInit, Known
  <1> QED  BY <1>1, <1>2, <1>3 DEF OutboundInit, OutboundInv, SentFirst, OnTheClock, InStep

-----------------------------------------------------------------------------
\* What may be sent at once: it comes after what its wire was sent, and before all that
\* is still held for it.
MayGo(m, held) ==
    /\ m \in Message /\ m.wire \in announced
    /\ Before(received[m.wire], m)
    /\ \A t \in held : InHold(t) /\ waiting[t].wire = m.wire => Before(m, waiting[t])

\* Sending such a message keeps the order.
LEMMA TransmitKeepsOrder ==
    ASSUME OutboundTypes, Known, SentFirst, NEW held \in SUBSET Speaker, NEW m, MayGo(m, held),
           Transmit(m)
    PROVE  /\ received' \in [Wire -> Message] /\ InOrder
           /\ \A w \in Wire : w \notin announced => received'[w] = Nothing
           /\ \A w \in Wire : received'[w] \in {received[w], IF w = m.wire THEN m ELSE received[w]}
           /\ \A t \in held : InHold(t) => Before(received'[waiting[t].wire], waiting[t])
  <1>1. m \in Message /\ m.wire \in Wire
    BY DEF MayGo, OutboundTypes
  <1>2. CASE UNCHANGED received
    BY <1>2 DEF OutboundTypes, Known, SentFirst, InOrder
  <1>3. CASE received' = [received EXCEPT ![m.wire] = m]
    <2>1. received' \in [Wire -> Message]
          /\ \A w \in Wire : received'[w] = IF w = m.wire THEN m ELSE received[w]
      BY <1>1, <1>3 DEF OutboundTypes
    <2>2. InOrder
      BY <2>1 DEF InOrder, MayGo
    <2>3. \A t \in held : InHold(t) => Before(received'[waiting[t].wire], waiting[t])
      <3> SUFFICES ASSUME NEW t \in held, InHold(t)
                   PROVE  Before(received'[waiting[t].wire], waiting[t])
        OBVIOUS
      <3>1. waiting[t].wire \in Wire
        BY DEF Known, OutboundTypes
      <3> QED  BY <2>1, <3>1 DEF MayGo, SentFirst
    <2> QED  BY <2>1, <2>2, <2>3 DEF Known, MayGo
  <1> QED  BY <1>2, <1>3 DEF Transmit

\* A segment is numbered, and held back or sent at once.
LEMMA SegmentStep ==
    ASSUME OutboundInv, NEW t \in Speaker, NEW d \in Durations, SendSegment(t, d)
    PROVE  OutboundInv' /\ InOrder
  <1> DEFINE start == Max({timestamp, elapsed})
  <1>1. PICK from \in Nat : from = start
    BY MaxOfTwo DEF OutboundInv, OutboundTypes
  <1>0. from \in {timestamp, elapsed} /\ from >= timestamp /\ from >= elapsed
    BY <1>1, MaxOfTwo DEF OutboundInv, OutboundTypes
  <1>2. d \in Nat /\ d > 0 /\ connected \in Wire /\ connected \in announced /\ ~InHold(t)
    BY OutboundAssumption DEF SendSegment, OutboundInv, OutboundTypes, Known, InHold
  <1> DEFINE segment == [wire |-> connected, sequence |-> sequence, chunk |-> media,
                         from |-> from, to |-> from + d,
                         wait |-> IF pacing THEN from - elapsed ELSE 0]
  <1>3. PICK m \in Message :
            /\ m = segment /\ m.wire = connected /\ m.sequence = sequence /\ m.chunk = media
            /\ m.from = from /\ m.to = from + d /\ m.wait = IF pacing THEN from - elapsed ELSE 0
    <2>1. segment \in Message
      BY <1>0, <1>1, <1>2 DEF Message, OutboundInv, OutboundTypes
    <2> QED  BY <2>1
  <1>4. /\ Numbered(m)
        /\ IF m.wait > 0 THEN waiting' = [waiting EXCEPT ![t] = m] /\ UNCHANGED received
                         ELSE Transmit(m) /\ UNCHANGED waiting
        /\ UNCHANGED <<connected, announced, pacing, elapsed>>
    BY <1>1, <1>3 DEF SendSegment
  <1> HIDE DEF start, segment
  <1>5. sequence' = sequence + 1 /\ media' = media + 1 /\ timestamp' = from + d
    BY <1>3, <1>4 DEF Numbered
  <1>6. \A n \in Message : Past(n) => Past(n)' /\ Before(n, m)
    BY <1>0, <1>1, <1>2, <1>3, <1>5 DEF Past, Before, OutboundInv, OutboundTypes, Message
  <1>7. CASE m.wait > 0
    <2>1. waiting' = [waiting EXCEPT ![t] = m] /\ UNCHANGED received
      BY <1>4, <1>7
    <2>2. m.wait = from - elapsed /\ pacing /\ Past(m)'
      BY <1>0, <1>1, <1>2, <1>3, <1>5, <1>7 DEF Past, OutboundInv, OutboundTypes
    <2>3. \A u \in Speaker : waiting'[u] = IF u = t THEN m ELSE waiting[u]
      BY <2>1 DEF OutboundInv, OutboundTypes
    <2>4. \A u \in Speaker \ {t} : InHold(u)' <=> InHold(u)
      BY <2>3 DEF InHold
    <2>5. OutboundTypes'
      BY <1>0, <1>1, <1>2, <1>3, <1>4, <1>5, <2>1 DEF OutboundInv, OutboundTypes
    <2>6. Known'
      BY <1>2, <1>3, <1>4, <2>1, <2>3, <2>4 DEF OutboundInv, Known
    <2>7. SentFirst'
      <3>1. Past(received[connected]) /\ received[connected] \in Message
        BY <1>2, OutboundAssumption DEF OutboundInv, SentFirst, OutboundTypes
      <3> QED  BY <1>3, <1>4, <1>6, <2>1, <2>3, <2>4, <3>1 DEF OutboundInv, SentFirst
    <2>8. OnTheClock'
      <3>1. \A u \in Speaker : waiting[u] \in Message
        BY DEF OutboundInv, OutboundTypes
      <3>2. m.from = m.wait + elapsed
        BY <1>0, <1>1, <1>3, <2>2 DEF OutboundInv, OutboundTypes
      <3> QED  BY <1>4, <1>6, <2>2, <2>3, <2>4, <3>1, <3>2 DEF OutboundInv, OnTheClock
    <2>9. InStep'
      <3>1. m.from < m.to
        BY <1>0, <1>1, <1>2, <1>3
      <3>2. ASSUME NEW u \in Speaker, InHold(u), waiting[u].wire = connected
            PROVE  Before(waiting[u], m) /\ m.from + waiting[u].wait = waiting[u].from + m.wait
        BY <1>0, <1>1, <1>3, <1>6, <2>2, <3>2 DEF OutboundInv, OutboundTypes, OnTheClock, Message
      <3>3. \A u \in Speaker : InHold(u)' => waiting'[u].from < waiting'[u].to
        BY <2>3, <2>4, <3>1 DEF OutboundInv, InStep
      <3>4. ASSUME NEW u \in Speaker, NEW v \in Speaker, u # v, InHold(u)', InHold(v)',
                   waiting'[u].wire = waiting'[v].wire
            PROVE  /\ Before(waiting'[u], waiting'[v]) \/ Before(waiting'[v], waiting'[u])
                   /\ waiting'[u].from + waiting'[v].wait = waiting'[v].from + waiting'[u].wait
        <4>1. CASE u = t
          BY <1>3, <2>3, <2>4, <3>2, <3>4, <4>1
        <4>2. CASE v = t
          BY <1>3, <2>3, <2>4, <3>2, <3>4, <4>2
        <4>3. CASE u # t /\ v # t
          BY <2>3, <2>4, <3>4, <4>3 DEF OutboundInv, InStep
        <4> QED  BY <4>1, <4>2, <4>3
      <3> QED  BY <3>3, <3>4 DEF InStep, Before
    <2>10. InOrder
      BY <2>1 DEF InOrder
    <2> QED  BY <2>5, <2>6, <2>7, <2>8, <2>9, <2>10 DEF OutboundInv
  <1>8. CASE ~(m.wait > 0)
    <2>1. Transmit(m) /\ UNCHANGED waiting
      BY <1>4, <1>8
    <2>2. ~pacing \/ timestamp <= elapsed
      BY <1>0, <1>1, <1>3, <1>8 DEF OutboundInv, OutboundTypes
    <2>3. \A u \in Speaker : InHold(u) => waiting[u].wire # connected
      <3> SUFFICES ASSUME NEW u \in Speaker, InHold(u), waiting[u].wire = connected PROVE FALSE
        OBVIOUS
      <3>1. /\ pacing /\ waiting[u].to <= timestamp /\ waiting[u].from < waiting[u].to
            /\ waiting[u].from = waiting[u].wait + elapsed /\ waiting[u] \in Message
        BY DEF OutboundInv, OutboundTypes, OnTheClock, InStep, Past
      <3> QED  BY <2>2, <3>1 DEF OutboundInv, OutboundTypes, Message
    <2>4. Past(received[connected]) /\ received[connected] \in Message
      BY <1>2, OutboundAssumption DEF OutboundInv, SentFirst, OutboundTypes
    <2>5. MayGo(m, Speaker)
      BY <1>2, <1>3, <1>6, <2>3, <2>4 DEF MayGo
    <2>6. /\ received' \in [Wire -> Message] /\ InOrder
          /\ \A w \in Wire : w \notin announced => received'[w] = Nothing
          /\ \A w \in Wire : received'[w] \in {received[w], IF w = m.wire THEN m ELSE received[w]}
          /\ \A u \in Speaker : InHold(u) => Before(received'[waiting[u].wire], waiting[u])
      BY <2>1, <2>5, TransmitKeepsOrder DEF OutboundInv
    <2>7. OutboundTypes'
      BY <1>0, <1>1, <1>2, <1>4, <1>5, <2>1, <2>6 DEF OutboundInv, OutboundTypes
    <2>8. Known'
      BY <1>4, <2>1, <2>6 DEF OutboundInv, Known, InHold
    <2>9. SentFirst'
      <3>1. Past(m)'
        BY <1>0, <1>1, <1>2, <1>3, <1>5 DEF Past, OutboundInv, OutboundTypes
      <3> QED  BY <1>2, <1>4, <1>6, <2>1, <2>4, <2>6, <3>1 DEF SentFirst, InHold, Past
    <2>10. OnTheClock'
      BY <1>4, <2>1, <2>3 DEF OnTheClock, InHold
    <2>11. InStep'
      BY <2>1 DEF OutboundInv, InStep, InHold, Before
    <2> QED  BY <2>6, <2>7, <2>8, <2>9, <2>10, <2>11 DEF OutboundInv
  <1> QED  BY <1>7, <1>8

\* The sleep of a task is over: its segment is the first of those held for its wire.
LEMMA SendNowStep ==
    ASSUME OutboundInv, NEW t \in Speaker, SendNow(t)
    PROVE  OutboundInv' /\ InOrder
  <1>1. PICK m \in Message : m = waiting[t] /\ m.wait = 0 /\ InHold(t)
    BY DEF SendNow, InHold, OutboundInv, OutboundTypes
  <1>2. /\ Transmit(m) /\ waiting' = [waiting EXCEPT ![t] = Nothing]
        /\ UNCHANGED <<connected, announced, pacing, sequence, media, timestamp, elapsed>>
    BY <1>1 DEF SendNow
  <1>3. m.wire \in announced /\ m.wire \in Wire /\ Before(received[m.wire], m)
    BY <1>1 DEF OutboundInv, Known, SentFirst, OutboundTypes
  <1>4. ASSUME NEW u \in Speaker \ {t}, InHold(u), waiting[u].wire = m.wire
        PROVE  Before(m, waiting[u])
    <2>1. waiting[u] \in Message
      BY DEF OutboundInv, OutboundTypes
    <2>2. /\ Before(m, waiting[u]) \/ Before(waiting[u], m)
          /\ m.from + waiting[u].wait = waiting[u].from + m.wait
          /\ waiting[u].from < waiting[u].to
      BY <1>1, <1>4 DEF OutboundInv, InStep
    <2> QED  BY <1>1, <2>1, <2>2 DEF Before, Message
  <1>5. MayGo(m, Speaker \ {t})
    BY <1>1, <1>3, <1>4 DEF MayGo
  <1>6. /\ received' \in [Wire -> Message] /\ InOrder
        /\ \A w \in Wire : w \notin announced => received'[w] = Nothing
        /\ \A w \in Wire : received'[w] \in {received[w], IF w = m.wire THEN m ELSE received[w]}
        /\ \A u \in Speaker \ {t} : InHold(u) => Before(received'[waiting[u].wire], waiting[u])
    BY <1>2, <1>5, TransmitKeepsOrder DEF OutboundInv
  <1>7. ~InHold(t)' /\ \A u \in Speaker \ {t} : waiting'[u] = waiting[u] /\ (InHold(u)' <=> InHold(u))
    BY <1>2 DEF InHold, OutboundInv, OutboundTypes
  <1>8. OutboundTypes'
    BY <1>2, <1>6, NothingType DEF OutboundInv, OutboundTypes
  <1>9. Known'
    BY <1>2, <1>6, <1>7 DEF OutboundInv, Known
  <1>10. SentFirst'
    <2>1. connected # NoWire => Past(received'[connected])
      BY <1>1, <1>3, <1>6 DEF OutboundInv, SentFirst, OnTheClock, OutboundTypes
    <2> QED  BY <1>2, <1>6, <1>7, <2>1 DEF SentFirst, Past
  <1>11. OnTheClock'
    BY <1>2, <1>7 DEF OutboundInv, OnTheClock, Past
  <1>12. InStep'
    BY <1>7 DEF OutboundInv, InStep, Before
  <1> QED  BY <1>6, <1>8, <1>9, <1>10, <1>11, <1>12 DEF OutboundInv

\* Another connection takes the stream over, or it is given up.
LEMMA RegisterStep ==
    ASSUME OutboundInv, NEW w \in Wire, NEW paced \in BOOLEAN, RegisterWire(w, paced)
    PROVE  OutboundInv' /\ InOrder
  <1>1. /\ w \notin announced /\ announced' = announced \cup {w} /\ connected' = w
        /\ pacing' = paced /\ sequence' = 1 /\ media' = 1 /\ timestamp' = 0 /\ elapsed' = 0
        /\ UNCHANGED <<waiting, received>>
    BY DEF RegisterWire
  <1>2. \A t \in Speaker : InHold(t) => waiting[t].wire # w
    BY <1>1 DEF OutboundInv, Known
  <1>3. received[w].sequence = 0 /\ received[w].chunk = 0 /\ received[w].to = 0
    BY <1>1 DEF OutboundInv, Known, Nothing
  <1>4. OutboundTypes'
    BY <1>1 DEF OutboundInv, OutboundTypes
  <1>5. Known'
    BY <1>1 DEF OutboundInv, Known, InHold
  <1>6. SentFirst'
    BY <1>1, <1>3 DEF OutboundInv, SentFirst, InHold, Past, Before
  <1>7. OnTheClock'
    BY <1>1, <1>2 DEF OnTheClock, InHold
  <1>8. InStep'
    BY <1>1 DEF OutboundInv, InStep, InHold, Before
  <1> QED  BY <1>1, <1>4, <1>5, <1>6, <1>7, <1>8 DEF OutboundInv, InOrder

\* A connection is given up; what is held for it stays in order.
LEMMA UnregisterStep == ASSUME OutboundInv, UnregisterWire PROVE OutboundInv' /\ InOrder
  <1>1. OutboundTypes'
    BY DEF UnregisterWire, OutboundInv, OutboundTypes
  <1>2. Known' /\ InStep'
    BY DEF UnregisterWire, OutboundInv, Known, InStep, InHold, Before
  <1>3. SentFirst'
    BY DEF UnregisterWire, OutboundInv, SentFirst, InHold, Before
  <1>4. OnTheClock'
    BY OutboundAssumption DEF UnregisterWire, OutboundInv, OutboundTypes, Known, OnTheClock, InHold
  <1> QED  BY <1>1, <1>2, <1>3, <1>4 DEF OutboundInv, InOrder, UnregisterWire

\* A mark or clear takes a number and passes what is held.
LEMMA MarkStep == ASSUME OutboundInv, SendMark PROVE OutboundInv' /\ InOrder
  <1>1. \A m \in Message : Past(m) => Past(m)'
    BY DEF SendMark, Past, OutboundInv, OutboundTypes, Message
  <1>2. OutboundTypes'
    BY DEF SendMark, OutboundInv, OutboundTypes
  <1>3. Known' /\ InStep'
    BY DEF SendMark, OutboundInv, Known, InStep, InHold, Before
  <1>4. SentFirst'
    BY <1>1, OutboundAssumption DEF SendMark, OutboundInv, OutboundTypes, SentFirst, InHold, Before
  <1>5. OnTheClock'
    BY <1>1 DEF SendMark, OutboundInv, OutboundTypes, OnTheClock, InHold
  <1> QED  BY <1>2, <1>3, <1>4, <1>5 DEF OutboundInv, InOrder, SendMark

\* Time passes for all held segments together.
LEMMA TickStep == ASSUME OutboundInv, OutboundTick PROVE OutboundInv' /\ InOrder
  <1>1. \A t \in Speaker : InHold(t) => waiting[t].wait > 0
    BY DEF OutboundTick, InHold
  <1>2. ASSUME NEW t \in Speaker
        PROVE  /\ waiting'[t] \in Message /\ (InHold(t)' <=> InHold(t))
               /\ InHold(t) => /\ waiting'[t].wire = waiting[t].wire
                             /\ waiting'[t].sequence = waiting[t].sequence
                             /\ waiting'[t].chunk = waiting[t].chunk
                             /\ waiting'[t].from = waiting[t].from
                             /\ waiting'[t].to = waiting[t].to
                             /\ waiting'[t].wait = waiting[t].wait - 1
    <2>1. waiting[t] \in Message
      BY DEF OutboundInv, OutboundTypes
    <2>2. CASE InHold(t)
      <3>1. waiting'[t] = [waiting[t] EXCEPT !.wait = @ - 1]
        BY <2>2 DEF OutboundTick, InHold
      <3>2. waiting[t].wire # NoWire
        BY <2>2, OutboundAssumption DEF OutboundInv, OutboundTypes, Known
      <3>3. waiting'[t].wire = waiting[t].wire /\ waiting'[t] \in Message
        BY <1>1, <2>1, <2>2, <3>1 DEF Message
      <3>4. InHold(t)'
        BY <3>2, <3>3 DEF InHold, Nothing
      <3> QED  BY <2>1, <2>2, <3>1, <3>3, <3>4 DEF Message
    <2>3. CASE ~InHold(t)
      BY <2>3, NothingType DEF OutboundTick, InHold
    <2> QED  BY <2>2, <2>3
  <1>3. /\ UNCHANGED <<connected, announced, pacing, sequence, media, timestamp, received>>
        /\ elapsed' = IF connected = NoWire THEN elapsed ELSE elapsed + 1
    BY DEF OutboundTick
  <1>4. OutboundTypes'
    <2>1. waiting' = [t \in Speaker |-> waiting'[t]]
      BY DEF OutboundTick
    <2>2. waiting' \in [Speaker -> Message]
      BY <1>2, <2>1
    <2> QED  BY <1>3, <2>2 DEF OutboundInv, OutboundTypes
  <1>5. Known'
    BY <1>2, <1>3 DEF OutboundInv, Known
  <1>6. SentFirst'
    BY <1>2, <1>3 DEF OutboundInv, SentFirst, Before, Past
  <1>7. OnTheClock'
    <2> SUFFICES ASSUME NEW t \in Speaker, InHold(t)', waiting'[t].wire = connected
                 PROVE  pacing /\ Past(waiting'[t]) /\ waiting'[t].from = waiting'[t].wait + elapsed'
      BY <1>3 DEF OnTheClock, Past
    <2>1. InHold(t) /\ waiting[t].wire = connected /\ waiting[t] \in Message /\ connected # NoWire
      BY <1>2, OutboundAssumption DEF OutboundInv, OutboundTypes, Known
    <2>2. pacing /\ Past(waiting[t]) /\ waiting[t].from = waiting[t].wait + elapsed
      BY <2>1 DEF OutboundInv, OnTheClock
    <2>3. waiting[t].wait \in Nat /\ elapsed \in Nat /\ elapsed' = elapsed + 1
      BY <1>3, <2>1 DEF OutboundInv, OutboundTypes, Message
    <2>4. waiting'[t].from = waiting'[t].wait + elapsed'
      BY <1>2, <2>1, <2>2, <2>3
    <2> QED  BY <1>2, <2>1, <2>2, <2>4 DEF Past
  <1>8. InStep'
    <2>1. \A t \in Speaker : waiting[t] \in Message
      BY DEF OutboundInv, OutboundTypes
    <2> QED  BY <1>2, <2>1 DEF OutboundInv, InStep, Before, Message
  <1> QED  BY <1>3, <1>4, <1>5, <1>6, <1>7, <1>8 DEF OutboundInv, InOrder

\* Every step keeps the invariant and sends in order.
LEMMA OutboundStep == OutboundInv /\ [OutboundNext]_outboundVars => OutboundInv' /\ InOrder
  <1> SUFFICES ASSUME OutboundInv, [OutboundNext]_outboundVars PROVE OutboundInv' /\ InOrder
    OBVIOUS
  <1>1. CASE OutboundNext
    BY <1>1, SegmentStep, SendNowStep, RegisterStep, UnregisterStep, MarkStep, TickStep
       DEF OutboundNext
  <1>2. CASE UNCHANGED outboundVars
    BY <1>2 DEF outboundVars, OutboundInv, OutboundTypes, Known, SentFirst, OnTheClock, InStep,
       InHold, Past, Before, InOrder
  <1> QED  BY <1>1, <1>2

\* What a connection is sent has rising numbers and never covers a time twice, however
\* long the segments are and however many tasks send them.
THEOREM MediaInOrder == OutboundSpec => AudioInOrder
  <1>1. InOrder => \A w \in Wire : received'[w] # received[w] =>
                       /\ received'[w].sequence > received[w].sequence
                       /\ received'[w].chunk > received[w].chunk
                       /\ received'[w].from >= received[w].to
    BY DEF InOrder, Before
  <1> QED  BY <1>1, OutboundInvInit, OutboundStep, PTL DEF OutboundSpec, AudioInOrder

\* A finite set of numbers has a greatest one, and Max finds it.
LEMMA GreatestNumber ==
    ASSUME NEW S, IsFiniteSet(S), S \subseteq Nat, S # {}
    PROVE  Max(S) \in S /\ \A x \in S : x <= Max(S)
  <1> DEFINE Topped(T) == T = {} \/ \E x \in T : \A y \in T : x >= y
             Bad == {T \in FiniteSubsetsOf(S) : ~Topped(T)}
  <1>1. Bad = {}
    <2> SUFFICES ASSUME Bad # {} PROVE FALSE
      OBVIOUS
    <2>1. PICK T \in Bad : \A U \in Bad : ~(<<U, T>> \in StrictSubsetOrdering(S))
      BY FS_StrictSubsetOrderingWellFounded, WFMin
    <2>2. T \subseteq S /\ IsFiniteSet(T) /\ ~Topped(T)
      BY DEF FiniteSubsetsOf
    <2>3. PICK x \in T : TRUE
      BY <2>2
    <2> DEFINE rest == T \ {x}
    <2>4. rest \subseteq S /\ IsFiniteSet(rest) /\ rest # T
      BY <2>2, FS_RemoveElement
    <2>5. <<rest, T>> \in StrictSubsetOrdering(S)
      BY <2>2, <2>4 DEF StrictSubsetOrdering
    <2>6. Topped(rest)
      BY <2>1, <2>4, <2>5 DEF FiniteSubsetsOf
    <2>7. CASE rest = {}
      BY <2>2, <2>3, <2>7
    <2>8. CASE \E m \in rest : \A y \in rest : m >= y
      <3>1. PICK m \in rest : \A y \in rest : m >= y
        BY <2>8
      <3>2. m \in Nat /\ x \in Nat /\ \A y \in T : y \in Nat
        BY <2>2
      <3>3. CASE m >= x
        BY <2>2, <3>1, <3>3
      <3>4. CASE x >= m
        BY <2>2, <3>1, <3>2, <3>4
      <3> QED  BY <3>2, <3>3, <3>4
    <2> QED  BY <2>6, <2>7, <2>8
  <1>2. \E x \in S : \A y \in S : x >= y
    BY <1>1 DEF FiniteSubsetsOf
  <1> QED  BY <1>2 DEF Max

\* The clock of a registration ends at a number.
LEMMA LongestIsNumber == Longest \in Nat
  <1>1. IsFiniteSet(Durations \cup {0}) /\ Durations \cup {0} \subseteq Nat
    BY OutboundAssumption, FS_AddElement
  <1>2. Max(Durations \cup {0}) \in Nat
    BY <1>1, GreatestNumber
  <1> QED  BY <1>2, OutboundAssumption DEF Longest

\* Of the numbers of a registration at most as many go to segments as it has segments,
\* and at most as many to marks.
THEOREM OutboundTypesHold == OutboundSpec => []OutboundTypeOK
  <1> DEFINE Bounded == /\ media \in 1 .. MaxMedia + 1
                        /\ sequence >= 1 /\ sequence <= MaxMedia + media
                        /\ elapsed <= Longest
  <1>1. OutboundInit => Bounded
    BY LongestIsNumber, OutboundAssumption DEF OutboundInit
  <1>2. Bounded /\ OutboundInv /\ [OutboundNext]_outboundVars => Bounded'
    <2> SUFFICES ASSUME Bounded, OutboundInv, [OutboundNext]_outboundVars PROVE Bounded'
      OBVIOUS
    <2> USE LongestIsNumber, OutboundAssumption DEF OutboundInv, OutboundTypes
    <2>1. CASE UNCHANGED <<sequence, media, elapsed>>
      BY <2>1
    <2>2. CASE sequence' = 1 /\ media' = 1 /\ elapsed' = 0
      BY <2>2
    <2>3. CASE SendMark
      BY <2>3 DEF SendMark
    <2>4. CASE OutboundTick
      BY <2>4 DEF OutboundTick
    <2>5. ASSUME NEW t \in Speaker, NEW d \in Durations, SendSegment(t, d) PROVE Bounded'
      BY <2>5 DEF SendSegment, Numbered
    <2> QED  BY <2>1, <2>2, <2>3, <2>4, <2>5
             DEF OutboundNext, RegisterWire, UnregisterWire, SendNow, outboundVars
  <1>3. Bounded /\ OutboundInv => OutboundTypeOK
    <2> SUFFICES ASSUME Bounded, OutboundInv PROVE OutboundTypeOK
      OBVIOUS
    <2>1. \A t \in Speaker : waiting[t] = Nothing \/ waiting[t].wire \in Wire
      BY DEF OutboundInv, OutboundTypes, Known, InHold
    <2> QED  BY <2>1, LongestIsNumber, OutboundAssumption
             DEF OutboundInv, OutboundTypes, OutboundTypeOK
  <1> QED  BY <1>1, <1>2, <1>3, OutboundInvInit, OutboundStep, PTL DEF OutboundSpec

-----------------------------------------------------------------------------
(* SimulatedCall *)

SimEvent == {"connected", "start", "media", "clear", "dtmf", "stop"}

\* The counters of every call; what the client has sent bounds what is read.
SimulatedInv ==
    /\ script \in [SimCall -> Seq(SimEvent)]
    /\ sent \in [SimCall -> Nat] /\ read \in [SimCall -> Nat]
    /\ speaking \in [SimCall -> 0 .. Segments] /\ counter \in [SimCall -> 0 .. TriggerEvery - 1]
    /\ hold \in [SimCall -> Nat] /\ ahead \in [SimCall -> Nat]
    /\ final \in [SimCall -> (0 .. DedupWindow + 1) \cup {Ready}]
    /\ silence \in [SimCall -> (0 .. DedupWindow + 1) \cup {Ready}]
    /\ heard_segments \in [SimCall -> Nat]
    /\ \A c \in SimCall : sent[c] <= Len(script[c]) /\ read[c] <= sent[c] /\ hold[c] <= ahead[c]

\* While no answer is sent, the window and the silence have run for as long.
WindowIsSilence == \A c \in SimCall : speaking[c] = 0 => final[c] = silence[c]

\* A call up to its third chunk: two events, and three times media.
Begun(q) == /\ q \in Seq(SimEvent) /\ Len(q) >= 5
            /\ \A i \in 1 .. 5 : q[i] = "media" <=> i > 2

IsScript(q) == q = << >> \/ (Begun(q) /\ Len(q) > 5)

\* It stays one, whatever else is scripted.
LEMMA BegunGoesOn ==
    ASSUME NEW q, Begun(q), NEW rest \in Seq(SimEvent)
    PROVE  Begun(q \o rest) /\ (Len(rest) > 0 => IsScript(q \o rest))
  <1>1. q \o rest \in Seq(SimEvent) /\ Len(q \o rest) = Len(q) + Len(rest)
        /\ \A i \in 1 .. Len(q) + Len(rest) : (q \o rest)[i] = IF i <= Len(q) THEN q[i] ELSE rest[i - Len(q)]
    BY ConcatProperties DEF Begun
  <1> QED  BY <1>1, LenProperties DEF Begun, IsScript

\* The opening and three chunks or more begin a call.
LEMMA MediaBegins ==
    ASSUME NEW n \in Nat, n >= 3
    PROVE  Times(n, "media") \in Seq(SimEvent) /\ Begun(Opening \o Times(n, "media"))
  <1>1. PICK o : o = Opening
    OBVIOUS
  <1>2. o \in Seq(SimEvent) /\ Len(o) = 2 /\ o[1] # "media" /\ o[2] # "media"
    BY <1>1 DEF Opening, SimEvent
  <1>3. PICK t : t = Times(n, "media")
    OBVIOUS
  <1>4. t \in [1 .. n -> SimEvent] /\ \A i \in 1 .. n : t[i] = "media"
    BY <1>3 DEF Times, SimEvent
  <1>5. t \in Seq(SimEvent) /\ Len(t) = n
    <2>1. t \in Seq(SimEvent)
      BY <1>4, SeqDef
    <2> QED  BY <1>4, <2>1, LenProperties
  <1>6. PICK q : q = o \o t
    OBVIOUS
  <1>7. /\ q \in Seq(SimEvent) /\ Len(q) = n + 2
        /\ \A i \in 1 .. n + 2 : q[i] = IF i <= 2 THEN o[i] ELSE t[i - 2]
    <2>1. /\ q \in Seq(SimEvent) /\ Len(q) = Len(o) + Len(t)
          /\ \A i \in 1 .. Len(o) + Len(t) : q[i] = IF i <= Len(o) THEN o[i] ELSE t[i - Len(o)]
      BY <1>2, <1>5, <1>6, ConcatProperties
    <2> QED  BY <1>2, <1>5, <2>1
  <1>8. ASSUME NEW i \in 1 .. 5 PROVE q[i] = "media" <=> i > 2
    <2>1. CASE i <= 2
      <3>1. q[i] = o[i] /\ i \in {1, 2}
        BY <1>7, <2>1
      <3> QED  BY <1>2, <2>1, <3>1
    <2>2. CASE i > 2
      <3>1. q[i] = t[i - 2] /\ i - 2 \in 1 .. n
        BY <1>7, <2>2
      <3> QED  BY <1>4, <2>2, <3>1
    <2> QED  BY <2>1, <2>2
  <1>9. Begun(q)
    BY <1>7, <1>8 DEF Begun
  <1> QED  BY <1>1, <1>3, <1>5, <1>6, <1>9

\* Every script is a sequence of events; one that is not empty has its first media at
\* the third to fifth place and something after them.
LEMMA ScriptsOfCalls ==
    ASSUME NEW s \in Scenario
    PROVE  s \in [SimCall -> Seq(SimEvent)] /\ \A c \in SimCall : IsScript(s[c])
  <1> DEFINE first == Opening \o Times(3, "media")
             longer == Opening \o Times(9, "media")
             stop == <<"stop">>
             clear == <<"clear">>
             dtmf == <<"dtmf">>
             three == Times(3, "media")
             six == Times(6, "media")
  <1>1. /\ stop \in Seq(SimEvent) /\ Len(stop) > 0
        /\ clear \in Seq(SimEvent) /\ dtmf \in Seq(SimEvent)
    BY DEF SimEvent
  <1>2. Begun(first) /\ Begun(longer) /\ three \in Seq(SimEvent) /\ six \in Seq(SimEvent)
    BY MediaBegins
  <1>3. ASSUME NEW q \in {ShortCall, BasicCall, ClearCall, DtmfCall} PROVE IsScript(q)
    <2>1. q \in {first \o stop, longer \o stop, ((first \o clear) \o six) \o stop,
                 ((first \o dtmf) \o three) \o stop}
      BY DEF ShortCall, BasicCall, ClearCall, DtmfCall
    <2> HIDE DEF first, longer, stop, clear, dtmf, three, six
    <2>2. IsScript(first \o stop) /\ IsScript(longer \o stop)
      BY <1>1, <1>2, BegunGoesOn
    <2>3. Begun(first \o clear) /\ Begun(first \o dtmf)
      BY <1>1, <1>2, BegunGoesOn
    <2>4. Begun((first \o clear) \o six) /\ Begun((first \o dtmf) \o three)
      BY <1>2, <2>3, BegunGoesOn
    <2>5. IsScript(((first \o clear) \o six) \o stop) /\ IsScript(((first \o dtmf) \o three) \o stop)
      BY <1>1, <2>4, BegunGoesOn
    <2> QED  BY <2>1, <2>2, <2>5
  <1>4. \/ s \in [SimCall -> {ShortCall}]
        \/ \E q \in {BasicCall, ClearCall, DtmfCall} :
              s \in {[d \in SimCall |-> IF d = e THEN q ELSE << >>] : e \in SimCall}
    BY DEF Scenario
  <1>5. s = [c \in SimCall |-> s[c]] /\ \A c \in SimCall : IsScript(s[c])
    <2>1. CASE s \in [SimCall -> {ShortCall}]
      BY <1>3, <2>1
    <2>2. ASSUME NEW q \in {BasicCall, ClearCall, DtmfCall}, NEW e \in SimCall,
                 s = [d \in SimCall |-> IF d = e THEN q ELSE << >>]
          PROVE  s = [c \in SimCall |-> s[c]] /\ \A c \in SimCall : IsScript(s[c])
      <3>1. IsScript(q) /\ IsScript(<< >>)
        <4>1. IsScript(<< >>)
          BY DEF IsScript
        <4> QED  BY <1>3, <4>1
      <3> QED  BY <2>2, <3>1
    <2> QED  BY <1>4, <2>1, <2>2
  <1>6. \A q : IsScript(q) => q \in Seq(SimEvent)
    BY EmptySeq DEF IsScript, Begun
  <1>7. \A c \in SimCall : s[c] \in Seq(SimEvent)
    BY <1>5, <1>6
  <1> QED  BY <1>5, <1>7

\* Every step keeps the counters in their bounds.
LEMMA SimulatedInvStep == SimulatedInv /\ [SimulatedNext]_simulatedVars => SimulatedInv'
  <1> SUFFICES ASSUME SimulatedInv, [SimulatedNext]_simulatedVars PROVE SimulatedInv'
    OBVIOUS
  <1> USE SimulatedAssumption DEF SimulatedInv
  <1>1. ASSUME NEW c \in SimCall, ClientSends(c) PROVE SimulatedInv'
    <2>1. /\ sent' = [sent EXCEPT ![c] = @ + 1] /\ sent[c] < Len(script[c])
          /\ UNCHANGED <<script, read, speaking, hold, ahead, counter, final, heard_segments, silence>>
      BY <1>1 DEF ClientSends
    <2>2. sent' \in [SimCall -> Nat]
      BY <2>1
    <2>3. \A d \in SimCall : sent'[d] = IF d = c THEN sent[c] + 1 ELSE sent[d]
      BY <2>1
    <2>4. \A d \in SimCall : sent[d] \in Nat /\ read[d] \in Nat /\ Len(script[d]) \in Nat
      OBVIOUS
    <2>5. \A d \in SimCall : sent'[d] <= Len(script[d]) /\ read[d] <= sent'[d]
      BY <2>1, <2>3, <2>4
    <2> QED  BY <2>1, <2>2, <2>5
  <1>2. ASSUME NEW c \in SimCall, NEW e, Receives(c, e),
               UNCHANGED <<script, sent>>
        PROVE  /\ read' \in [SimCall -> Nat]
               /\ \A d \in SimCall : sent'[d] <= Len(script'[d]) /\ read'[d] <= sent'[d]
    BY <1>2 DEF Receives
  <1>3. ASSUME NEW c \in SimCall
        PROVE  (counter[c] + 1) % TriggerEvery \in 0 .. TriggerEvery - 1
    OBVIOUS
  <1>4. ASSUME NEW c \in SimCall, Handles(c) PROVE SimulatedInv'
    BY <1>2, <1>4 DEF Handles
  <1>5. ASSUME NEW c \in SimCall, MediaUnanswered(c) PROVE SimulatedInv'
    BY <1>2, <1>3, <1>5 DEF MediaUnanswered
  <1>6. ASSUME NEW c \in SimCall, MediaAnswered(c) PROVE SimulatedInv'
    <2>1. UNCHANGED <<script, sent, ahead, heard_segments, silence, final>>
      BY <1>6 DEF MediaAnswered, RecordsFinal
    <2>2. /\ read' \in [SimCall -> Nat]
          /\ \A d \in SimCall : sent'[d] <= Len(script'[d]) /\ read'[d] <= sent'[d]
      BY <1>2, <1>6, <2>1 DEF MediaAnswered
    <2>3. counter' \in [SimCall -> 0 .. TriggerEvery - 1] /\ speaking' \in [SimCall -> 0 .. Segments]
      BY <1>3, <1>6 DEF MediaAnswered
    <2>4. hold' \in [SimCall -> Nat] /\ \A d \in SimCall : hold'[d] <= ahead[d]
      BY <1>6 DEF MediaAnswered
    <2> QED  BY <2>1, <2>2, <2>3, <2>4
  <1>7. ASSUME NEW c \in SimCall, Speaks(c) PROVE SimulatedInv'
    <2>1. final' = final \/ final' = [final EXCEPT ![c] = 0]
      BY <1>7 DEF Speaks, RecordsFinal
    <2>2. final' \in [SimCall -> (0 .. DedupWindow + 1) \cup {Ready}]
      <3>1. 0 \in (0 .. DedupWindow + 1) \cup {Ready}
        OBVIOUS
      <3> QED  BY <2>1, <3>1
    <2>8. silence' \in [SimCall -> (0 .. DedupWindow + 1) \cup {Ready}]
      BY <1>7 DEF Speaks
    <2>3. /\ speaking' \in [SimCall -> 0 .. Segments] /\ ahead' \in [SimCall -> Nat]
          /\ heard_segments' \in [SimCall -> Nat]
      <3>1. /\ speaking[c] > 0 /\ speaking' = [speaking EXCEPT ![c] = @ - 1]
            /\ ahead' = [ahead EXCEPT ![c] = @ + 1]
            /\ heard_segments' = [heard_segments EXCEPT ![c] = @ + 1]
        BY <1>7 DEF Speaks
      <3>2. speaking[c] - 1 \in 0 .. Segments /\ ahead[c] + 1 \in Nat /\ heard_segments[c] + 1 \in Nat
        BY <3>1, SMTT(20)
      <3> QED  BY <3>1, <3>2
    <2>4. \A d \in SimCall : hold'[d] = IF d = c THEN ahead'[c] ELSE hold[d]
      BY <1>7 DEF Speaks
    <2>5. \A d \in SimCall : d # c => ahead'[d] = ahead[d]
      BY <1>7 DEF Speaks
    <2>6. ASSUME NEW d \in SimCall PROVE hold'[d] \in Nat /\ hold'[d] <= ahead'[d]
      <3>1. ahead'[c] \in Nat /\ ahead'[c] <= ahead'[c]
        BY <2>3
      <3>2. CASE d = c
        BY <2>4, <3>1, <3>2
      <3>3. CASE d # c
        BY <2>4, <2>5, <3>3
      <3> QED  BY <3>2, <3>3
    <2>7. hold' \in [SimCall -> Nat]
      BY <1>7, <2>3 DEF Speaks
    <2>9. UNCHANGED <<script, sent, read, counter>>
      BY <1>7 DEF Speaks
    <2> QED  BY <2>2, <2>3, <2>6, <2>7, <2>8, <2>9
  <1>8. CASE SimulatedTick
    <2>1. \A t \in (0 .. DedupWindow + 1) \cup {Ready} : Older(t) \in (0 .. DedupWindow + 1) \cup {Ready}
      BY DEF Older
    <2>2. \A m, n \in Nat : m <= n => /\ Sooner(m) \in Nat /\ Sooner(n) \in Nat
                                      /\ Sooner(m) <= Sooner(n)
      BY DEF Sooner
    <2>3. \A c \in SimCall : /\ hold[c] \in Nat /\ ahead[c] \in Nat /\ hold[c] <= ahead[c]
                             /\ final[c] \in (0 .. DedupWindow + 1) \cup {Ready}
                             /\ silence[c] \in (0 .. DedupWindow + 1) \cup {Ready}
      OBVIOUS
    <2>4. /\ hold' = [c \in SimCall |-> Sooner(hold[c])]
          /\ ahead' = [c \in SimCall |-> Sooner(ahead[c])]
          /\ final' = [c \in SimCall |-> Older(final[c])]
          /\ silence' = [c \in SimCall |-> Older(silence[c])]
          /\ UNCHANGED <<script, sent, read, speaking, counter, heard_segments>>
      BY <1>8 DEF SimulatedTick
    <2>5. \A c \in SimCall : /\ hold'[c] \in Nat /\ ahead'[c] \in Nat /\ hold'[c] <= ahead'[c]
      BY <2>2, <2>3, <2>4
    <2>6. /\ hold' \in [SimCall -> Nat] /\ ahead' \in [SimCall -> Nat]
      BY <2>2, <2>3, <2>4
    <2>7. /\ final' \in [SimCall -> (0 .. DedupWindow + 1) \cup {Ready}]
          /\ silence' \in [SimCall -> (0 .. DedupWindow + 1) \cup {Ready}]
      BY <2>1, <2>3, <2>4
    <2> QED  BY <2>4, <2>5, <2>6, <2>7
  <1>9. CASE UNCHANGED simulatedVars
    BY <1>9 DEF simulatedVars
  <1> QED  BY <1>1, <1>4, <1>5, <1>6, <1>7, <1>8, <1>9 DEF SimulatedNext

\* No client has sent anything.
LEMMA SimulatedInvInit == SimulatedInit => SimulatedInv
  <1> SUFFICES ASSUME SimulatedInit PROVE SimulatedInv
    OBVIOUS
  <1>1. script \in [SimCall -> Seq(SimEvent)]
    BY ScriptsOfCalls DEF SimulatedInit
  <1>2. \A c \in SimCall : Len(script[c]) >= 0
    BY <1>1
  <1> QED  BY <1>1, <1>2, SimulatedAssumption DEF SimulatedInit, SimulatedInv

\* No more is read than was sent, no more sent than scripted, and a segment is never
\* held for longer than its stream is ahead of the clock.
THEOREM SimulatedTypesHold == SimulatedSpec => []SimulatedTypeOK
  <1>1. SimulatedInv => SimulatedTypeOK
    BY DEF SimulatedInv, SimulatedTypeOK
  <1> QED  BY <1>1, SimulatedInvInit, SimulatedInvStep, PTL DEF SimulatedSpec

\* An utterance that repeats the last one is answered only when the caller has been sent
\* nothing for longer than the window, whatever the window and the length of answers.
THEOREM RepeatsWaitForSilence == SimulatedSpec => RepeatsAreSpacedOut
  <1> DEFINE Spaced == \A c \in SimCall : speaking[c] = 0 /\ speaking'[c] > 0 =>
                          silence[c] = Ready \/ silence[c] > DedupWindow
  <1>1. SimulatedInit => WindowIsSilence
    BY DEF SimulatedInit, WindowIsSilence
  <1>2. SimulatedInv /\ WindowIsSilence /\ [SimulatedNext]_simulatedVars => WindowIsSilence' /\ Spaced
    <2> SUFFICES ASSUME SimulatedInv, WindowIsSilence, [SimulatedNext]_simulatedVars
                 PROVE  WindowIsSilence' /\ Spaced
      OBVIOUS
    <2> USE SimulatedAssumption DEF SimulatedInv, WindowIsSilence
    <2>1. CASE UNCHANGED <<speaking, final, silence>>
      BY <2>1
    <2>2. ASSUME NEW c \in SimCall, MediaAnswered(c) PROVE WindowIsSilence' /\ Spaced
      <3>1. /\ speaking[c] = 0 /\ speaking' = [speaking EXCEPT ![c] = Segments]
            /\ final' = final /\ silence' = silence
            /\ final[c] = Ready \/ final[c] > DedupWindow
        BY <2>2 DEF MediaAnswered, IsDuplicateFinal, RecordsFinal, Receives
      <3>2. final[c] = silence[c]
        BY <3>1
      <3>3. \A d \in SimCall : speaking'[d] = IF d = c THEN Segments ELSE speaking[d]
        BY <3>1
      <3>4. WindowIsSilence'
        BY <3>1, <3>3
      <3>5. Spaced
        BY <3>1, <3>2, <3>3
      <3> QED  BY <3>4, <3>5
    <2>3. ASSUME NEW c \in SimCall, Speaks(c) PROVE WindowIsSilence' /\ Spaced
      <3>1. /\ speaking[c] > 0 /\ speaking' = [speaking EXCEPT ![c] = @ - 1]
            /\ silence' = [silence EXCEPT ![c] = 0]
            /\ final' = IF speaking[c] = 1 THEN [final EXCEPT ![c] = 0] ELSE final
        BY <2>3 DEF Speaks, RecordsFinal
      <3>2. \A d \in SimCall : d # c => /\ speaking'[d] = speaking[d] /\ final'[d] = final[d]
                                        /\ silence'[d] = silence[d]
        BY <3>1
      <3>3. speaking'[c] = speaking[c] - 1 /\ silence'[c] = 0
            /\ (speaking[c] = 1 => final'[c] = 0)
        BY <3>1
      <3>4. speaking[c] \in Nat
        OBVIOUS
      <3>5. WindowIsSilence'
        <4>1. ASSUME NEW d \in SimCall, speaking'[d] = 0 PROVE final'[d] = silence'[d]
          <5>1. CASE d = c
            BY <3>3, <3>4, <4>1, <5>1
          <5>2. CASE d # c
            BY <3>2, <4>1, <5>2
          <5> QED  BY <5>1, <5>2
        <4> QED  BY <4>1
      <3>6. Spaced
        BY <3>1, <3>2
      <3> QED  BY <3>5, <3>6
    <2>4. CASE SimulatedTick
      BY <2>4 DEF SimulatedTick
    <2> QED  BY <2>1, <2>2, <2>3, <2>4
             DEF SimulatedNext, ClientSends, Handles, MediaUnanswered, simulatedVars
  <1> QED  BY <1>1, <1>2, SimulatedInvInit, SimulatedInvStep, PTL
           DEF SimulatedSpec, RepeatsAreSpacedOut

-----------------------------------------------------------------------------
\* Up to its first answer a call has had too little media for the recognizer; then the
\* first answer is being sent; then it has been sent.
FirstAnswer(c) ==
    /\ IsScript(script[c])
    /\ script[c] # << >> =>
          \/ /\ speaking[c] = 0 /\ heard_segments[c] = 0 /\ final[c] = Ready /\ read[c] < 5
             /\ counter[c] = IF read[c] <= 2 THEN 0 ELSE read[c] - 2
          \/ speaking[c] > 0 /\ heard_segments[c] + speaking[c] = Segments /\ read[c] <= 5
             /\ final[c] = Ready
          \/ heard_segments[c] >= Segments

\* If the stub recognizer hears something in three chunks, its default (the server asks
\* for one), every call of the simulator that is worked off has been sent a whole answer.
THEOREM SimulatedCallsAnswered ==
    ASSUME TriggerEvery <= 3
    PROVE  SimulatedSpec => []CallsAreAnswered
  <1> DEFINE Answering == \A c \in SimCall : FirstAnswer(c)
  <1> USE SimulatedAssumption
  <1>1. SimulatedInit => Answering
    BY ScriptsOfCalls DEF SimulatedInit, FirstAnswer
  <1>2. SimulatedInv /\ Answering /\ [SimulatedNext]_simulatedVars => Answering'
    <2> SUFFICES ASSUME SimulatedInv, Answering, [SimulatedNext]_simulatedVars, NEW c \in SimCall
                 PROVE  FirstAnswer(c)'
      OBVIOUS
    <2> DEFINE Same(d) == /\ read'[d] = read[d] /\ speaking'[d] = speaking[d]
                          /\ final'[d] = final[d] /\ counter'[d] = counter[d]
                          /\ heard_segments'[d] = heard_segments[d]
    <2>1. script' = script /\ FirstAnswer(c)
      BY DEF SimulatedNext, SimulatedTick, ClientSends, Handles, MediaUnanswered, MediaAnswered,
         Speaks, simulatedVars
    <2>2. /\ read[c] \in Nat /\ heard_segments[c] \in Nat /\ speaking[c] \in 0 .. Segments
          /\ counter[c] \in 0 .. TriggerEvery - 1
      BY DEF SimulatedInv
    <2>3. Same(c) => FirstAnswer(c)'
      BY <2>1 DEF FirstAnswer
    <2>4. ASSUME NEW d \in SimCall, d # c,
                 ClientSends(d) \/ Handles(d) \/ MediaUnanswered(d) \/ MediaAnswered(d) \/ Speaks(d)
          PROVE  Same(c)
      <3>1. ASSUME NEW e, Receives(d, e) PROVE read'[c] = read[c]
        BY <2>4, <3>1 DEF Receives, SimulatedInv
      <3>2. ASSUME NEW moment, RecordsFinal(d, moment) PROVE final'[c] = final[c]
        BY <2>4, <3>2 DEF RecordsFinal, SimulatedInv
      <3>3. CASE ClientSends(d) \/ Handles(d)
        BY <3>1, <3>3 DEF ClientSends, Handles
      <3>4. CASE MediaUnanswered(d)
        BY <2>4, <3>1, <3>4 DEF MediaUnanswered, SimulatedInv
      <3>5. CASE MediaAnswered(d)
        BY <2>4, <3>1, <3>2, <3>5 DEF MediaAnswered, SimulatedInv
      <3>6. CASE Speaks(d)
        BY <2>4, <3>2, <3>6 DEF Speaks, SimulatedInv
      <3> QED  BY <2>4, <3>3, <3>4, <3>5, <3>6
    <2>5. ASSUME ClientSends(c) PROVE Same(c)
      BY <2>5 DEF ClientSends
    <2>6. ASSUME script[c] = << >> PROVE FirstAnswer(c)'
      BY <2>1, <2>6 DEF FirstAnswer
    <2>7. TriggerEvery \in 1 .. 3
      OBVIOUS
    <2>8. ASSUME Handles(c), script[c] # << >> PROVE FirstAnswer(c)'
      <3>1. PICK e : e # "media" /\ Receives(c, e)
        BY <2>8 DEF Handles
      <3>2. /\ speaking[c] = 0 /\ script[c][read[c] + 1] # "media" /\ read'[c] = read[c] + 1
            /\ UNCHANGED <<speaking, counter, final, heard_segments>>
        BY <2>8, <3>1 DEF Handles, Receives, SimulatedInv
      <3>3. ASSUME read[c] < 5 PROVE read[c] + 1 <= 2
        <4>1. PICK i \in 1 .. 5 : i = read[c] + 1
          BY <2>2, <3>3
        <4>2. Begun(script[c])
          BY <2>1, <2>8 DEF FirstAnswer, IsScript
        <4>3. script[c][i] = "media" <=> i > 2
          BY <4>2 DEF Begun
        <4>4. ~(i > 2)
          BY <3>2, <4>1, <4>3
        <4> QED  BY <4>1, <4>4
      <3> QED  BY <2>1, <2>2, <2>8, <3>2, <3>3 DEF FirstAnswer
    <2>9. ASSUME Receives(c, "media"), script[c] # << >>, FirstAnswer(c), read[c] < 5
          PROVE  read[c] >= 2 /\ read'[c] = read[c] + 1
      <3>1. read'[c] = read[c] + 1 /\ script[c][read[c] + 1] = "media"
        BY <2>9 DEF Receives, SimulatedInv
      <3>2. read[c] + 1 \in 1 .. 5
        BY <2>2, <2>9
      <3>3. read[c] + 1 > 2
        <4>1. Begun(script[c])
          BY <2>9 DEF FirstAnswer, IsScript
        <4>2. PICK i \in 1 .. 5 : i = read[c] + 1
          BY <3>2
        <4>3. script[c][i] = "media" <=> i > 2
          BY <4>1 DEF Begun
        <4> QED  BY <3>1, <4>2, <4>3
      <3> QED  BY <2>2, <3>1, <3>3
    <2>10. ASSUME MediaUnanswered(c), script[c] # << >> PROVE FirstAnswer(c)'
      <3>1. /\ Receives(c, "media") /\ speaking[c] = 0
            /\ counter'[c] = (counter[c] + 1) % TriggerEvery
            /\ Transcribes(c) => IsDuplicateFinal(c)
            /\ UNCHANGED <<speaking, final, heard_segments>>
        BY <2>10 DEF MediaUnanswered, Receives, SimulatedInv
      <3>2. CASE heard_segments[c] >= Segments
        BY <2>1, <3>1, <3>2 DEF FirstAnswer
      <3>3. CASE /\ heard_segments[c] = 0 /\ final[c] = Ready /\ read[c] < 5
                 /\ counter[c] = IF read[c] <= 2 THEN 0 ELSE read[c] - 2
        <4>1. read[c] >= 2 /\ read'[c] = read[c] + 1 /\ counter[c] = read[c] - 2
          BY <2>1, <2>2, <2>9, <2>10, <3>1, <3>3
        <4>2. (counter[c] + 1) % TriggerEvery # 0
          BY <3>1, <3>3 DEF Transcribes, IsDuplicateFinal
        <4>3. counter[c] + 1 < TriggerEvery /\ (counter[c] + 1) % TriggerEvery = counter[c] + 1
          <5>1. CASE TriggerEvery = 1
            BY <2>2, <4>2, <5>1
          <5>2. CASE TriggerEvery = 2
            BY <2>2, <4>2, <5>2
          <5>3. CASE TriggerEvery = 3
            BY <2>2, <4>2, <5>3
          <5> QED  BY <2>7, <5>1, <5>2, <5>3
        <4>4. counter'[c] = read'[c] - 2 /\ read'[c] < 5
          BY <2>2, <2>7, <3>1, <4>1, <4>3
        <4> QED  BY <2>1, <2>2, <3>1, <3>3, <4>1, <4>4 DEF FirstAnswer
      <3> QED  BY <2>1, <2>10, <3>1, <3>2, <3>3 DEF FirstAnswer
    <2>11. ASSUME MediaAnswered(c), script[c] # << >> PROVE FirstAnswer(c)'
      <3>1. /\ Receives(c, "media") /\ speaking[c] = 0 /\ speaking'[c] = Segments
            /\ UNCHANGED <<final, heard_segments>>
        BY <2>11 DEF MediaAnswered, Receives, RecordsFinal, SimulatedInv
      <3> QED  BY <2>1, <2>2, <2>9, <2>11, <3>1 DEF FirstAnswer
    <2>12. ASSUME Speaks(c), script[c] # << >> PROVE FirstAnswer(c)'
      <3>1. /\ speaking[c] > 0 /\ speaking'[c] = speaking[c] - 1
            /\ heard_segments'[c] = heard_segments[c] + 1 /\ read' = read
            /\ speaking[c] # 1 => final' = final
        BY <2>12 DEF Speaks, RecordsFinal, SimulatedInv
      <3>2. script'[c] = script[c] /\ read'[c] = read[c]
        BY <2>1, <3>1
      <3>3. CASE heard_segments[c] >= Segments
        BY <2>1, <2>2, <3>1, <3>2, <3>3 DEF FirstAnswer
      <3>4. CASE /\ heard_segments[c] + speaking[c] = Segments /\ read[c] <= 5
                 /\ final[c] = Ready
        <4>1. CASE speaking[c] = 1
          BY <2>1, <2>2, <3>1, <3>2, <3>4, <4>1 DEF FirstAnswer
        <4>2. CASE speaking[c] # 1
          BY <2>1, <2>2, <3>1, <3>2, <3>4, <4>2 DEF FirstAnswer
        <4> QED  BY <4>1, <4>2
      <3> QED  BY <2>1, <2>2, <2>12, <3>1, <3>3, <3>4 DEF FirstAnswer
    <2>13. CASE SimulatedTick
      <3>1. /\ UNCHANGED <<read, speaking, counter, heard_segments>>
            /\ final'[c] = Older(final[c])
        BY <2>13 DEF SimulatedTick
      <3>2. Older(Ready) = Ready
        BY DEF Older
      <3> QED  BY <2>1, <3>1, <3>2 DEF FirstAnswer
    <2>14. CASE UNCHANGED simulatedVars
      BY <2>3, <2>14 DEF simulatedVars
    <2> QED  BY <2>3, <2>4, <2>5, <2>6, <2>8, <2>10, <2>11, <2>12, <2>13, <2>14 DEF SimulatedNext
  <1>3. SimulatedInv /\ Answering => CallsAreAnswered
    <2> SUFFICES ASSUME SimulatedInv, Answering, NEW c \in SimCall, script[c] # << >>,
                        read[c] = Len(script[c])
                 PROVE  heard_segments[c] >= Segments
      BY DEF CallsAreAnswered
    <2>1. FirstAnswer(c) /\ read[c] \in Nat /\ Len(script[c]) > 5
      BY DEF FirstAnswer, SimulatedInv, IsScript
    <2> QED  BY <2>1 DEF FirstAnswer
  <1> QED  BY <1>1, <1>2, <1>3, SimulatedInvInit, SimulatedInvStep, PTL DEF SimulatedSpec
=============================================================================
