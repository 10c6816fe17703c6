---------------------- MODULE AudioBufferManagerProofs ----------------------
(***************************************************************************)
(* AudioBufferManager's safety for every threshold and buffer age.  The    *)
(* three invariants are inductive only together: the type of the history   *)
(* variable missing rests on SpeechKept, which rests on an idle buffer     *)
(* being empty.                                                            *)
(***************************************************************************)
EXTENDS AudioBufferManager, FiniteSetTheorems, SequenceTheorems, TLAPS

IInv == TypeOK /\ StateMatchesBuffer /\ SpeechKept

\* The speech in a list is a number no larger than the list's length.
LEMMA SpeechIsNat ==
    ASSUME NEW b \in Seq(Activities)
    PROVE  SpeechIn(b) \in 0 .. Len(b)
<1> DEFINE D == {i \in DOMAIN b : b[i] = "speech"}
<1>1. IsFiniteSet(1 .. Len(b)) /\ Cardinality(1 .. Len(b)) = Len(b)
  <2>1. Len(b) \in Nat
      BY LenProperties
  <2> QED BY ONLY <2>1, FS_Interval, SMT
<1>2. D \subseteq 1 .. Len(b)
    BY LenProperties
<1>3. Cardinality(D) <= Len(b) /\ Cardinality(D) \in Nat
  <2> HIDE DEF D
  <2> QED BY <1>1, <1>2, FS_Subset, FS_CardinalityType
<1> QED BY <1>3, LenProperties DEF SpeechIn

\* Appending a chunk adds one to the speech exactly if the chunk is speech.
LEMMA SpeechAppended ==
    ASSUME NEW b \in Seq(Activities), NEW a \in Activities
    PROVE  SpeechIn(Append(b, a)) = SpeechIn(b) + (IF a = "speech" THEN 1 ELSE 0)
<1> DEFINE n == Len(b) + 1
           D == {i \in DOMAIN b : b[i] = "speech"}
           E == {i \in DOMAIN Append(b, a) : Append(b, a)[i] = "speech"}
<1>1. /\ Len(b) \in Nat /\ DOMAIN b = 1 .. Len(b)
      /\ DOMAIN Append(b, a) = 1 .. n
      /\ Append(b, a)[n] = a
      /\ \A i \in 1 .. Len(b) : Append(b, a)[i] = b[i]
    BY LenProperties, AppendProperties
<1>2. IsFiniteSet(D) /\ n \notin D /\ Cardinality(D) \in Nat
  <2>1. IsFiniteSet(1 .. Len(b)) /\ D \subseteq 1 .. Len(b) /\ n \notin 1 .. Len(b)
      BY <1>1, FS_Interval
  <2> HIDE DEF D
  <2> QED BY <2>1, FS_Subset, FS_CardinalityType
<1>3. SpeechIn(b) = Cardinality(D) /\ SpeechIn(Append(b, a)) = Cardinality(E)
    BY DEF SpeechIn
<1>4. CASE a = "speech"
  <2>1. E = D \cup {n}
      BY <1>1, <1>4
  <2>2. Cardinality(D \cup {n}) = Cardinality(D) + 1
    <3> HIDE DEF D, n
    <3> QED BY <1>2, FS_AddElement
  <2> QED BY <1>3, <1>4, <2>1, <2>2
<1>5. CASE a # "speech"
  <2>1. E = D
      BY <1>1, <1>5
  <2>2. SpeechIn(Append(b, a)) = SpeechIn(b) /\ SpeechIn(b) \in Nat
    <3> HIDE DEF D, E
    <3> QED BY <1>2, <1>3, <2>1
  <2> QED BY <1>5, <2>2
<1> QED BY <1>4, <1>5

LEMMA NoSpeechInEmpty == SpeechIn(<<>>) = 0
<1>1. {i \in DOMAIN <<>> : <<>>[i] = "speech"} = {}
    OBVIOUS
<1> QED BY <1>1, FS_EmptySet DEF SpeechIn

LEMMA InitIInv == Init => IInv
<1> SUFFICES ASSUME Init PROVE IInv
    OBVIOUS
<1>1. TypeOK
    BY BufferAssumption DEF Init, TypeOK, States
<1>2. StateMatchesBuffer
    BY DEF Init, StateMatchesBuffer
<1>3. SpeechKept
    BY NoSpeechInEmpty DEF Init, SpeechKept
<1> QED BY <1>1, <1>2, <1>3 DEF IInv

\* The two effects of a chunk that is not discarded: it is kept, in a state and
\* with timers that fit, or it is returned with everything before it.
LEMMA ChunkKept ==
    ASSUME IInv, NEW a \in Activities, Keep(a),
           state' \in {"speaking", "silence_detected"},
           age' \in 0 .. MaxAge,
           buffer # <<>> \/ a = "speech",
           pause' = IF a = "speech" THEN 0 ELSE pause,
           missing' = missing + (IF a = "speech" THEN 1 ELSE 0) - SpeechIn(returned'),
           \/ state' = "speaking" /\ quiet' = Unset
           \/ state' = "silence_detected" /\ a # "speech" /\ quiet' \in 0 .. pause
    PROVE  IInv'
<1> USE BufferAssumption
<1>1. /\ buffer' = Append(buffer, a) /\ buffer' \in Seq(Activities)
      /\ Len(buffer) \in Nat /\ Len(buffer') = Len(buffer) + 1 /\ Len(buffer') <= MaxLen
      /\ buffer' # <<>>
      /\ buffer'[1] = IF buffer = <<>> THEN a ELSE buffer[1]
      /\ buffer'[Len(buffer')] = a
    BY LenProperties, AppendProperties, EmptySeq DEF IInv, TypeOK, Keep
<1>2. SpeechIn(buffer') = missing'
  <2>1. SpeechIn(returned') = 0
      BY NoSpeechInEmpty DEF Keep
  <2>2. SpeechIn(buffer') = SpeechIn(buffer) + (IF a = "speech" THEN 1 ELSE 0)
      BY <1>1, SpeechAppended DEF IInv, TypeOK
  <2> QED BY <2>1, <2>2 DEF IInv, TypeOK, SpeechKept
<1>3. missing' \in 0 .. MaxLen
  <2>1. SpeechIn(buffer') \in 0 .. Len(buffer')
      BY <1>1, SpeechIsNat
  <2> QED BY <1>1, <1>2, <2>1
<1>4. TypeOK'
    BY <1>1, <1>3, EmptySeq DEF IInv, TypeOK, Keep, States
<1>5. StateMatchesBuffer'
    BY <1>1 DEF IInv, TypeOK, StateMatchesBuffer
<1> QED BY <1>2, <1>4, <1>5 DEF IInv, SpeechKept

LEMMA ChunkReturned ==
    ASSUME IInv, NEW a \in Activities, FlushBuffer(Append(buffer, a)),
           pause' = IF a = "speech" THEN 0 ELSE pause,
           missing' = missing + (IF a = "speech" THEN 1 ELSE 0) - SpeechIn(returned')
    PROVE  IInv'
<1> USE BufferAssumption
<1>1. missing' = 0
  <2>1. /\ SpeechIn(Append(buffer, a)) = SpeechIn(buffer) + (IF a = "speech" THEN 1 ELSE 0)
        /\ SpeechIn(buffer) \in Nat
      BY SpeechAppended, SpeechIsNat, LenProperties DEF IInv, TypeOK
  <2> QED BY <2>1 DEF IInv, SpeechKept, FlushBuffer
<1>2. Append(buffer, a) \in Seq(Activities)
    BY AppendProperties DEF IInv, TypeOK
<1>3. TypeOK'
    BY <1>1, <1>2, EmptySeq DEF IInv, TypeOK, FlushBuffer, States
<1>4. StateMatchesBuffer'
    BY DEF StateMatchesBuffer, FlushBuffer
<1> QED BY <1>1, <1>3, <1>4, NoSpeechInEmpty DEF IInv, SpeechKept, FlushBuffer

LEMMA AddChunkKeepsIInv ==
    ASSUME IInv, NEW a \in Activities, AddChunk(a)
    PROVE  IInv'
<1> USE BufferAssumption
<1> USE DEF AddChunk
<1>1. CASE StayIdle(a)
  <2>1. missing' = missing /\ pause' = pause
      BY <1>1, NoSpeechInEmpty DEF StayIdle, IInv, TypeOK
  <2>2. TypeOK' /\ StateMatchesBuffer'
      BY <1>1, <2>1, EmptySeq DEF StayIdle, IInv, TypeOK, StateMatchesBuffer
  <2> QED BY <1>1, <2>1, <2>2 DEF StayIdle, IInv, SpeechKept, SpeechIn
<1>2. CASE StartSpeaking(a)
    BY <1>2, ChunkKept DEF StartSpeaking
<1>3. CASE FallSilent(a)
    BY <1>3, ChunkKept DEF FallSilent, IInv, TypeOK, StateMatchesBuffer
<1>4. CASE KeepSpeaking(a)
  <2>1. CASE FlushBuffer(Append(buffer, a))
      BY <2>1, ChunkReturned
  <2>2. CASE Keep(a) /\ UNCHANGED <<state, quiet, age>>
      BY <1>4, <2>2, ChunkKept DEF KeepSpeaking, IInv, TypeOK, StateMatchesBuffer
  <2> QED BY <1>4, <2>1, <2>2 DEF KeepSpeaking
<1>5. CASE ResumeSpeaking(a)
    BY <1>5, ChunkKept DEF ResumeSpeaking, IInv, TypeOK, StateMatchesBuffer
<1>6. CASE StaySilent(a)
  <2>1. CASE FlushBuffer(Append(buffer, a))
      BY <2>1, ChunkReturned
  <2>2. CASE Keep(a) /\ UNCHANGED <<state, quiet, age>>
      BY <1>6, <2>2, ChunkKept DEF StaySilent, IInv, TypeOK, StateMatchesBuffer
  <2> QED BY <1>6, <2>1, <2>2 DEF StaySilent
<1> QED BY <1>1, <1>2, <1>3, <1>4, <1>5, <1>6

\* The whole invariant is preserved by every step.
LEMMA NextIInv == IInv /\ [Next]_vars => IInv'
<1> SUFFICES ASSUME IInv, [Next]_vars PROVE IInv'
    OBVIOUS
<1> USE BufferAssumption
<1>1. CASE Chunk
    BY <1>1, AddChunkKeepsIInv DEF Chunk
<1>2. CASE Flush
  <2>1. CASE buffer = <<>>
    <3>1. missing' = missing /\ UNCHANGED <<state, buffer, quiet, age, pause>> /\ returned' = <<>>
        BY <1>2, <2>1, NoSpeechInEmpty DEF Flush, IInv, TypeOK
    <3> QED BY <3>1, EmptySeq DEF IInv, TypeOK, StateMatchesBuffer, SpeechKept, SpeechIn
  <2>2. CASE buffer # <<>>
    <3>1. FlushBuffer(buffer) /\ missing' = missing - SpeechIn(buffer) /\ pause' = pause
        BY <1>2, <2>2 DEF Flush, FlushBuffer
    <3>2. missing' = 0
        BY <3>1, SpeechIsNat, LenProperties DEF IInv, TypeOK, SpeechKept
    <3>3. TypeOK'
        BY <3>1, <3>2, EmptySeq DEF IInv, TypeOK, FlushBuffer, States
    <3>4. StateMatchesBuffer'
        BY <3>1 DEF StateMatchesBuffer, FlushBuffer
    <3> QED BY <3>1, <3>2, <3>3, <3>4, NoSpeechInEmpty DEF IInv, SpeechKept, FlushBuffer
  <2> QED BY <2>1, <2>2
<1>3. CASE Reset
  <2>1. TypeOK' /\ StateMatchesBuffer'
      BY <1>3, EmptySeq DEF Reset, IInv, TypeOK, StateMatchesBuffer, States
  <2> QED BY <1>3, <2>1, NoSpeechInEmpty DEF Reset, IInv, SpeechKept
<1>4. CASE Tick
  <2>1. TypeOK'
      BY <1>4 DEF Tick, Later, IInv, TypeOK
  <2>2. StateMatchesBuffer'
      BY <1>4 DEF Tick, Later, IInv, TypeOK, StateMatchesBuffer
  <2> QED BY <1>4, <2>1, <2>2 DEF Tick, IInv, SpeechKept, SpeechIn
<1>5. CASE UNCHANGED vars
  <2>1. TypeOK' /\ StateMatchesBuffer' /\ SpeechKept'
      BY <1>5 DEF vars, IInv, TypeOK, StateMatchesBuffer, SpeechKept, SpeechIn
  <2> QED BY <2>1 DEF IInv
<1> QED BY <1>1, <1>2, <1>3, <1>4, <1>5 DEF Next

LEMMA InvariantHolds == Spec => []IInv
<1> QED BY InitIInv, NextIInv, PTL DEF Spec

\* The buffer's state is well-typed for every threshold and maximal age.
THEOREM BufferTypeCorrect == Spec => []TypeOK
<1>1. IInv => TypeOK
    BY DEF IInv
<1> QED BY <1>1, InvariantHolds, PTL

\* State, buffer and timers agree, and a timed silence is free of speech.
THEOREM BufferStateCorrect == Spec => []StateMatchesBuffer
<1>1. IInv => StateMatchesBuffer
    BY DEF IInv
<1> QED BY <1>1, InvariantHolds, PTL

\* Speech that was not returned yet is in the buffer.
THEOREM NoSpeechLost == Spec => []SpeechKept
<1>1. IInv => SpeechKept
    BY DEF IInv
<1> QED BY <1>1, InvariantHolds, PTL

\* No chunk cuts an utterance off before it is due.
THEOREM NothingCutEarly == Spec => CutOnlyWhenDue
<1> DEFINE Due == \A a \in Activities : AddChunk(a) /\ returned' # <<>> =>
                      \/ a # "speech" /\ pause = Silence
                      \/ a # "silence" /\ age = MaxAge
<1>1. IInv /\ [Next]_vars => [Due]_vars
  <2> SUFFICES ASSUME IInv, NEW a \in Activities, AddChunk(a), returned' # <<>>
               PROVE  \/ a # "speech" /\ pause = Silence
                      \/ a # "silence" /\ age = MaxAge
      OBVIOUS
  <2>1. CASE KeepSpeaking(a)
      BY <2>1, BufferAssumption
      DEF KeepSpeaking, Keep, IInv, TypeOK, StateMatchesBuffer
  <2>2. CASE StaySilent(a)
      BY <2>2, BufferAssumption
      DEF StaySilent, Keep, IInv, TypeOK, StateMatchesBuffer
  <2> QED BY <2>1, <2>2
      DEF AddChunk, StayIdle, StartSpeaking, FallSilent, ResumeSpeaking, Keep
<1> QED BY <1>1, InvariantHolds, PTL DEF Spec, CutOnlyWhenDue
=============================================================================
