---------------------- MODULE ConversationSessionProofs ----------------------
(***************************************************************************)
(* Proofs about ConversationSession, for every bound on the chunk numbers, *)
(* the context lists and the interrupt history.                            *)
(***************************************************************************)
EXTENDS ConversationSession, WellFoundedInduction, SequenceTheorems, TLAPS

\* A nonempty set of naturals has a least element.
LEMMA LeastElement ==
    ASSUME NEW T, T \subseteq Nat, T # {}
    PROVE  \E x \in T : \A y \in T : x <= y
<1> DEFINE Less == {ss \in Nat \X Nat : ss[1] < ss[2]}
<1>1. OpToRel(<, Nat) = Less
  BY DEF OpToRel
<1>2. IsWellFoundedOn(Less, Nat)
  BY <1>1, NatLessThanWellFounded
<1> HIDE DEF Less
<1>3. PICK x \in T : \A y \in T : ~ (<<y, x>> \in Less)
  BY <1>2, WFMin
<1>4. ASSUME NEW y \in T PROVE x <= y
  <2>1. x \in Nat /\ y \in Nat /\ <<y, x>> \notin Less
    BY <1>3
  <2>2. y < x => <<y, x>> \in Less
    BY <2>1 DEF Less
  <2>3. QED
    BY <2>1, <2>2
<1>5. QED
  BY <1>4

\* What NextGap returns: the first number after n that is not in B, so that
\* everything between n and it is in B.
LEMMA NextGapProperty ==
    ASSUME NEW n \in Nat, n <= MaxSeq, NEW B, B \subseteq 0 .. MaxSeq
    PROVE  /\ NextGap(n, B) \in n + 1 .. MaxSeq + 1
           /\ NextGap(n, B) \notin B
           /\ n + 1 .. NextGap(n, B) - 1 \subseteq B
<1> USE SessionAssumption
<1> DEFINE Free == {g \in n + 1 .. MaxSeq + 1 : g \notin B}
<1>1. MaxSeq + 1 \in Free
  OBVIOUS
<1>2. PICK g \in Free : \A y \in Free : g <= y
  BY <1>1, LeastElement, Free \subseteq Nat
<1>3. g \in n + 1 .. MaxSeq + 1 /\ g \notin B
  OBVIOUS
<1>4. n + 1 .. g - 1 \subseteq B
  <2>1. SUFFICES ASSUME NEW j \in n + 1 .. g - 1, j \notin B PROVE FALSE
    OBVIOUS
  <2>2. j \in Free
    BY <2>1, <1>3
  <2>3. QED
    BY <2>2, <1>2, <1>3
<1>5. QED
  BY <1>3, <1>4 DEF NextGap

\* The part of the state that the reordering touches, in the form that every
\* step preserves: the list is 1, 2, 3, ... and the buffer lies beyond it.
Ordered(c, B) ==
    /\ \A i \in 1 .. Len(c) : c[i] = i
    /\ \A b \in B : b > Len(c) + 1

\* The list an in-order chunk and the drain behind it produce.
LEMMA FlushProperty ==
    ASSUME NEW c \in Seq(0 .. MaxSeq), NEW B, B \subseteq 0 .. MaxSeq,
           \A i \in 1 .. Len(c) : c[i] = i, Len(c) <= MaxSeq
    PROVE  /\ Flushed(c, B) \in Seq(0 .. MaxSeq)
           /\ Len(Flushed(c, B)) = NextGap(Len(c), B) - 1
           /\ Ordered(Flushed(c, B),
                      {b \in StillBuffered(c, B) : b > Len(c)})
<1> USE SessionAssumption
<1> DEFINE n == Len(c)
           g == NextGap(n, B)
           run == [i \in 1 .. g - n - 1 |-> n + i]
<1>1. n \in Nat /\ g \in n + 1 .. MaxSeq + 1 /\ g \notin B
  BY NextGapProperty, LenProperties
<1> HIDE DEF g
<1>2. run \in Seq(0 .. MaxSeq) /\ Len(run) = g - n - 1
  <2>1. g - n - 1 \in Nat
    BY <1>1
  <2>2. \A i \in 1 .. g - n - 1 : n + i \in 0 .. MaxSeq
    BY <1>1
  <2>3. run \in [1 .. g - n - 1 -> 0 .. MaxSeq]
    BY <2>2
  <2>4. QED
    BY <2>1, <2>3
<1>3. /\ c \o run \in Seq(0 .. MaxSeq)
      /\ Len(c \o run) = n + Len(run)
      /\ \A i \in 1 .. n + Len(run) :
            (c \o run)[i] = IF i <= n THEN c[i] ELSE run[i - n]
  BY <1>2, ConcatProperties
<1>4. Len(c \o run) = g - 1
  BY <1>1, <1>2, <1>3
<1>5. \A i \in 1 .. g - 1 : (c \o run)[i] = i
  <2> SUFFICES ASSUME NEW i \in 1 .. g - 1 PROVE (c \o run)[i] = i
    OBVIOUS
  <2>1. CASE i <= n
    BY <2>1, <1>1, <1>2, <1>3
  <2>2. CASE i > n
    <3>1. i - n \in 1 .. g - n - 1
      BY <2>2, <1>1
    <3>2. run[i - n] = n + (i - n)
      BY <3>1
    <3>3. QED
      BY <3>2, <2>2, <1>1, <1>2, <1>3
  <2>3. QED
    BY <2>1, <2>2, <1>1
<1>6. Flushed(c, B) = c \o run
  BY DEF Flushed, g
<1>7. \A b \in StillBuffered(c, B) : b > n => b > g
  BY <1>1 DEF StillBuffered, g
<1>8. QED
  BY <1>1, <1>3, <1>4, <1>5, <1>6, <1>7 DEF Ordered, g

-----------------------------------------------------------------------------
(* The inductive invariant *)

IInv == TypeOK /\ ChunksInOrder /\ BufferWaitsBehindGap

\* The numbers in an ordered list are exactly 1 .. Len.
LEMMA ReceivedProperty ==
    ASSUME IInv
    PROVE  /\ Received = 1 .. Len(audio_chunks) \cup buffered_chunks
           /\ Len(audio_chunks) \in 0 .. MaxSeq
           /\ buffered_chunks \subseteq 0 .. MaxSeq
<1> USE SessionAssumption DEF IInv, TypeOK
<1>1. /\ Len(audio_chunks) \in Nat
      /\ DOMAIN audio_chunks = 1 .. Len(audio_chunks)
      /\ \A i \in 1 .. Len(audio_chunks) : audio_chunks[i] \in 0 .. MaxSeq
  BY LenProperties, ElementOfSeq
<1>2. \A i \in 1 .. Len(audio_chunks) : audio_chunks[i] = i
  BY DEF ChunksInOrder
<1>3. Len(audio_chunks) <= MaxSeq
  BY <1>1, <1>2
<1>4. {audio_chunks[i] : i \in DOMAIN audio_chunks} = 1 .. Len(audio_chunks)
  BY <1>1, <1>2
<1>5. Received = 1 .. Len(audio_chunks) \cup buffered_chunks
  BY <1>4 DEF Received
<1>6. QED
  BY <1>1, <1>3, <1>5

\* What accepting a chunk does to the list, the buffer and the set of chunks
\* the session holds, whichever of the two branches is taken.
LEMMA AddChunkProperty ==
    ASSUME IInv, NEW seq \in 0 .. MaxSeq, AddAudioChunk(seq)
    PROVE  /\ audio_chunks' \in Seq(0 .. MaxSeq)
           /\ buffered_chunks' \subseteq 0 .. MaxSeq
           /\ ChunksInOrder'
           /\ BufferWaitsBehindGap'
           /\ seq \in 1 .. MaxSeq
           /\ Len(audio_chunks') \in Len(audio_chunks) .. MaxSeq
           /\ 1 .. Len(audio_chunks') \cup buffered_chunks'
                 = 1 .. Len(audio_chunks) \cup buffered_chunks \cup {seq}
<1> USE SessionAssumption
<1> DEFINE c == audio_chunks
           B == buffered_chunks
           n == Len(audio_chunks)
<1>1. /\ c \in Seq(0 .. MaxSeq)
      /\ \A i \in 1 .. n : c[i] = i
      /\ \A b \in B : b > n + 1
      /\ n \in 0 .. MaxSeq
      /\ B \subseteq 0 .. MaxSeq
  BY ReceivedProperty DEF IInv, TypeOK, ChunksInOrder, BufferWaitsBehindGap
<1>2. CASE AddExpectedChunk(seq)
  <2> DEFINE d == Append(c, seq)
             g == NextGap(n + 1, B)
  <2>1. seq = n + 1 /\ n + 1 <= MaxSeq
    BY <1>1, <1>2 DEF AddExpectedChunk
  <2>2. /\ d \in Seq(0 .. MaxSeq)
        /\ Len(d) = n + 1
        /\ \A i \in 1 .. n + 1 : d[i] = i
    BY <1>1, <2>1, AppendProperties
  <2>3. /\ g \in n + 2 .. MaxSeq + 1
        /\ g \notin B
        /\ n + 2 .. g - 1 \subseteq B
    <3>1. n + 1 \in Nat /\ n + 1 <= MaxSeq /\ B \subseteq 0 .. MaxSeq
      BY <1>1, <2>1
    <3>2. /\ g \in (n + 1) + 1 .. MaxSeq + 1
          /\ g \notin B
          /\ (n + 1) + 1 .. g - 1 \subseteq B
      BY ONLY <3>1, NextGapProperty
    <3>3. (n + 1) + 1 = n + 2
      BY <1>1
    <3>4. QED
      BY ONLY <3>2, <3>3
  <2>4. /\ Flushed(d, B) \in Seq(0 .. MaxSeq)
        /\ Len(Flushed(d, B)) = g - 1
        /\ \A i \in 1 .. g - 1 : Flushed(d, B)[i] = i
    BY <1>1, <2>1, <2>2, FlushProperty DEF Ordered
  <2>5. StillBuffered(d, B) = B \ (n + 2 .. g - 1)
    BY <2>2 DEF StillBuffered
  <2>6. audio_chunks' = Flushed(d, B) /\ buffered_chunks' = StillBuffered(d, B)
    BY <1>2 DEF AddExpectedChunk
  <2> HIDE DEF d, g
  <2>7. \A b \in buffered_chunks' : b > g
    <3>1. buffered_chunks' = B \ (n + 2 .. g - 1)
      BY <2>5, <2>6
    <3>2. ASSUME NEW b \in B, b \notin n + 2 .. g - 1 PROVE b > g
      <4>1. b \in Nat /\ b > n + 1 /\ b # g
        BY <1>1, <2>3, <3>2
      <4>2. QED
        BY <1>1, <2>3, <3>2, <4>1
    <3>3. QED
      BY <3>1, <3>2
  <2>8. Len(audio_chunks') = g - 1
    BY <2>4, <2>6
  <2>9. 1 .. g - 1 \cup (B \ (n + 2 .. g - 1)) = 1 .. n \cup B \cup {n + 1}
    BY <1>1, <2>3
  <2>10. ChunksInOrder'
    BY <2>4, <2>6, <2>8 DEF ChunksInOrder
  <2>11. BufferWaitsBehindGap'
    BY <2>3, <2>7, <2>8, <1>1 DEF BufferWaitsBehindGap
  <2>12. /\ audio_chunks' \in Seq(0 .. MaxSeq)
         /\ buffered_chunks' \subseteq 0 .. MaxSeq
    BY <1>1, <2>4, <2>5, <2>6
  <2>13. Len(audio_chunks') \in Len(audio_chunks) .. MaxSeq
    BY <1>1, <2>3, <2>8
  <2>14. 1 .. Len(audio_chunks') \cup buffered_chunks'
           = 1 .. Len(audio_chunks) \cup buffered_chunks \cup {seq}
    BY <2>1, <2>5, <2>6, <2>8, <2>9
  <2>15. QED
    BY <1>1, <2>1, <2>10, <2>11, <2>12, <2>13, <2>14
<1>3. CASE AddEarlyChunk(seq)
  BY <1>1, <1>3 DEF AddEarlyChunk, ChunksInOrder, BufferWaitsBehindGap
<1>4. QED
  BY <1>2, <1>3 DEF AddAudioChunk

LEMMA InitIInv == Init => IInv
<1> SUFFICES ASSUME Init PROVE IInv
  OBVIOUS
<1> USE SessionAssumption DEF Init
<1>1. audio_chunks \in Seq(0 .. MaxSeq) /\ Len(audio_chunks) = 0
  BY EmptySeq
<1>2. context \in [ContextLists -> 0 .. MaxItems]
  BY DEF EmptyContext
<1>3. ChunksInOrder /\ BufferWaitsBehindGap
  BY <1>1 DEF ChunksInOrder, BufferWaitsBehindGap
<1>4. /\ state \in CallStates
      /\ interaction_state \in InteractionStates
      /\ buffered_chunks \subseteq 0 .. MaxSeq
      /\ interrupt_history \in 0 .. MaxInterrupts
  BY DEF CallStates, InteractionStates
<1>5. interrupted \in BOOLEAN /\ noise_learned \in BOOLEAN
  OBVIOUS
<1>6. QED
  BY <1>1, <1>2, <1>3, <1>4, <1>5 DEF IInv, TypeOK

\* Every method of the aggregate preserves the invariant.
LEMMA NextIInv == IInv /\ [Next]_vars => IInv'
<1> SUFFICES ASSUME IInv, [Next]_vars PROVE IInv'
  OBVIOUS
<1> USE SessionAssumption
<1>1. ASSUME UNCHANGED audio,
             state' \in CallStates,
             interaction_state' \in InteractionStates,
             context' \in [ContextLists -> 0 .. MaxItems],
             interrupted' \in BOOLEAN,
             interrupt_history' \in 0 .. MaxInterrupts,
             noise_learned' \in BOOLEAN
      PROVE  IInv'
  BY <1>1 DEF IInv, TypeOK, ChunksInOrder, BufferWaitsBehindGap, audio
<1>2. CASE Activate
  BY <1>1, <1>2
     DEF Activate, IInv, TypeOK, CallStates, InteractionStates, interrupts
<1>3. CASE End
  BY <1>1, <1>3
     DEF End, IInv, TypeOK, CallStates, InteractionStates, interrupts
<1>4. ASSUME NEW mode \in InteractionStates, SetInteraction(mode) PROVE IInv'
  BY <1>1, <1>4 DEF SetInteraction, IInv, TypeOK, interrupts
<1>5. ASSUME NEW seq \in 0 .. MaxSeq, AddAudioChunk(seq) PROVE IInv'
  <2>1. UNCHANGED <<state, interaction_state, context, interrupts, noise_learned>>
    BY <1>5 DEF AddAudioChunk
  <2>2. QED
    BY <1>5, <2>1, AddChunkProperty DEF IInv, TypeOK, interrupts
<1>6. ASSUME NEW list \in ContextLists, AddToContext(list) PROVE IInv'
  <2>1. context' \in [ContextLists -> 0 .. MaxItems]
    BY <1>6 DEF AddToContext, IInv, TypeOK
  <2>2. QED
    BY <1>1, <1>6, <2>1 DEF AddToContext, IInv, TypeOK, interrupts
<1>7. CASE ResetContext
  <2>1. EmptyContext \in [ContextLists -> 0 .. MaxItems]
    BY DEF EmptyContext
  <2>2. QED
    BY <1>7, <2>1 DEF ResetContext, IInv, TypeOK, ChunksInOrder,
                      BufferWaitsBehindGap, interrupts
<1>8. CASE MarkInterrupted
  BY <1>1, <1>8 DEF MarkInterrupted, IInv, TypeOK, InteractionStates
<1>9. CASE ResetInterrupt
  BY <1>1, <1>9 DEF ResetInterrupt, IInv, TypeOK
<1>10. CASE RecordInterrupt
  BY <1>1, <1>10 DEF RecordInterrupt, IInv, TypeOK
<1>11. CASE SetNoiseFloor
  BY <1>1, <1>11 DEF SetNoiseFloor, IInv, TypeOK, interrupts
<1>12. CASE UNCHANGED vars
  BY <1>1, <1>12 DEF vars, audio, IInv, TypeOK
<1>13. QED
  BY <1>2, <1>3, <1>4, <1>5, <1>6, <1>7, <1>8, <1>9, <1>10, <1>11, <1>12
     DEF Next

LEMMA InvariantHolds == Spec => []IInv
<1>1. IInv /\ [Next]_vars => IInv'
  BY NextIInv
<1>2. QED
  BY InitIInv, <1>1, PTL DEF Spec

-----------------------------------------------------------------------------
(* The theorems *)

\* Every field of the aggregate keeps its type.
THEOREM TypeCorrect == Spec => []TypeOK
<1>1. IInv => TypeOK
  BY DEF IInv
<1>2. QED
  BY InvariantHolds, <1>1, PTL

\* The caller's audio is held in sequence order, and a chunk waits in the
\* buffer only while an earlier one is missing, for every arrival order.
THEOREM AudioInSequence == Spec => [](ChunksInOrder /\ BufferWaitsBehindGap)
<1>1. IInv => ChunksInOrder /\ BufferWaitsBehindGap
  BY DEF IInv
<1>2. QED
  BY InvariantHolds, <1>1, PTL

\* Each step of the aggregate is a step of the reassembly promise or leaves
\* what it talks about alone.
LEMMA StepRefines ==
    IInv /\ IInv' /\ [Next]_vars
        => [Reassembly!Next]_<<Received, Len(audio_chunks)>>
<1> SUFFICES ASSUME IInv, IInv', [Next]_vars
             PROVE  [Reassembly!Next]_<<Received, Len(audio_chunks)>>
  OBVIOUS
<1> USE SessionAssumption
<1>1. /\ Received = 1 .. Len(audio_chunks) \cup buffered_chunks
      /\ Len(audio_chunks) \in 0 .. MaxSeq
      /\ buffered_chunks \subseteq 0 .. MaxSeq
  BY ReceivedProperty
<1>2. Received' = 1 .. Len(audio_chunks') \cup buffered_chunks'
  <2>1. /\ audio_chunks' \in Seq(0 .. MaxSeq)
        /\ \A i \in 1 .. Len(audio_chunks') : audio_chunks'[i] = i
    BY DEF IInv, TypeOK, ChunksInOrder
  <2>2. DOMAIN audio_chunks' = 1 .. Len(audio_chunks')
    BY <2>1, LenProperties
  <2>3. {audio_chunks'[i] : i \in DOMAIN audio_chunks'} = 1 .. Len(audio_chunks')
    BY <2>1, <2>2
  <2>4. QED
    BY <2>3 DEF Received
<1>3. ASSUME UNCHANGED audio
      PROVE  UNCHANGED <<Received, Len(audio_chunks)>>
  BY <1>3 DEF audio, Received
<1>4. ASSUME NEW seq \in 0 .. MaxSeq, AddAudioChunk(seq)
      PROVE  Reassembly!Next
  <2>1. /\ seq \in 1 .. MaxSeq
        /\ Len(audio_chunks') \in Len(audio_chunks) .. MaxSeq
        /\ Received' = Received \cup {seq}
    BY <1>1, <1>2, <1>4, AddChunkProperty
  <2>2. seq \notin Received
    BY <1>4 DEF AddAudioChunk
  <2>3. 1 .. Len(audio_chunks') \subseteq Received'
    BY <1>2
  <2>4. Len(audio_chunks') + 1 \notin Received'
    <3>1. \A b \in buffered_chunks' : b > Len(audio_chunks') + 1
      BY DEF IInv, BufferWaitsBehindGap
    <3>2. Len(audio_chunks') \in Nat
      BY <2>1, <1>1
    <3>3. QED
      BY <1>2, <3>1, <3>2
  <2>5. Reassembly!Receive(seq)
    BY <2>1, <2>2, <2>3, <2>4 DEF Reassembly!Receive, Reassembly!IsPrefixLength
  <2>6. QED
    BY <2>1, <2>5 DEF Reassembly!Next
<1>5. CASE ResetContext
  <2>1. UNCHANGED audio_chunks /\ buffered_chunks' = {}
    BY <1>5 DEF ResetContext
  <2>2. Received' = 1 .. Len(audio_chunks)
    BY <1>2, <2>1
  <2>3. Reassembly!Forget
    BY <2>1, <2>2 DEF Reassembly!Forget
  <2>4. QED
    BY <2>3 DEF Reassembly!Next
<1>6. CASE UNCHANGED vars
  BY <1>3, <1>6 DEF vars, audio
<1>7. CASE \/ Activate \/ End \/ MarkInterrupted \/ ResetInterrupt
           \/ RecordInterrupt \/ SetNoiseFloor
           \/ \E mode \in InteractionStates : SetInteraction(mode)
           \/ \E list \in ContextLists : AddToContext(list)
  BY <1>3, <1>7 DEF Activate, End, MarkInterrupted, ResetInterrupt,
                    RecordInterrupt, SetNoiseFloor, SetInteraction, AddToContext
<1>8. QED
  BY <1>3, <1>4, <1>5, <1>6, <1>7 DEF Next

\* The aggregate implements ChunkReassembly: no chunk is kept twice, none is
\* delivered out of turn, a delivered one is never taken back, and what can
\* be lost is only what still waits behind a gap.
THEOREM ImplementsReassembly == Spec => ReassemblySpec
<1>1. Init => Reassembly!Init
  BY EmptySeq DEF Init, Reassembly!Init, Received
<1>2. IInv /\ IInv' /\ [Next]_vars
        => [Reassembly!Next]_(Reassembly!reassemblyVars)
  BY StepRefines DEF Reassembly!reassemblyVars
<1>3. QED
  BY <1>1, <1>2, InvariantHolds, PTL
     DEF Spec, ReassemblySpec, Reassembly!Spec

\* An ended call stays ended, and its audio, interaction state, interrupt
\* history and noise floor never change again.
THEOREM EndedCallIsFrozen == Spec => EndedIsFinal
<1>1. [Next]_vars =>
        [IsEnded => UNCHANGED <<state, interaction_state, audio,
                                interrupt_history, noise_learned>>]_vars
  BY DEF Next, vars, IsEnded, Activate, End, SetInteraction, AddAudioChunk,
         AddToContext, ResetContext, MarkInterrupted, ResetInterrupt,
         RecordInterrupt, SetNoiseFloor, audio, interrupts
<1>2. QED
  BY <1>1, PTL DEF Spec, EndedIsFinal
=============================================================================
