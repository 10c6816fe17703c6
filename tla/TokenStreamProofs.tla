-------------------------- MODULE TokenStreamProofs --------------------------
(***************************************************************************)
(* TokenStream's invariants for every capacity and every length of answer. *)
(* The invariant is the conjunction of the three: order needs the types,   *)
(* and the absence of lost wake-ups needs nothing else.                    *)
(***************************************************************************)
EXTENDS TokenStream, SequenceTheorems, TLAPS

IInv == TypeOK /\ TokensInOrder /\ NoLostWakeup

\* The library's ConcatAssociative, for citing at large terms.
LEMMA Associative ==
    ASSUME NEW S, NEW r \in Seq(S), NEW x \in Seq(S), NEW y \in Seq(S)
    PROVE  r \o (x \o y) = (r \o x) \o y
<1> QED BY ConcatAssociative

\* Moving a sequence's first element onto the end of the one before it.
LEMMA MoveHead ==
    ASSUME NEW S, NEW r \in Seq(S), NEW p \in Seq(S), NEW b \in Seq(S), b # <<>>
    PROVE  /\ (r \o Append(p, Head(b))) \o Tail(b) = (r \o p) \o b
           /\ Append(p, Head(b)) \in Seq(S) /\ Tail(b) \in Seq(S)
           /\ Len(Tail(b)) = Len(b) - 1
<1>1. Head(b) \in S /\ Tail(b) \in Seq(S) /\ Len(Tail(b)) = Len(b) - 1 /\ Len(b) > 0
    BY EmptySeq, HeadTailProperties
<1>2. Append(p, Head(b)) \in Seq(S) BY <1>1, AppendProperties
<1>3. Len(Append(p, Head(b)) \o Tail(b)) = Len(p \o b)
    BY <1>1, <1>2, AppendProperties, ConcatProperties
<1>4. ASSUME NEW i \in 1 .. Len(p \o b)
      PROVE  (Append(p, Head(b)) \o Tail(b))[i] = (p \o b)[i]
    BY <1>1, <1>2, AppendProperties, ConcatProperties
<1>5. Append(p, Head(b)) \o Tail(b) = p \o b
    BY <1>1, <1>2, <1>3, <1>4, ConcatProperties, SeqEqual
<1>6. r \o (p \o b) = (r \o p) \o b
    BY ConcatAssociative
<1>7. r \o (Append(p, Head(b)) \o Tail(b)) = (r \o Append(p, Head(b))) \o Tail(b)
  <2>1. ASSUME NEW x \in Seq(S), NEW y \in Seq(S)
        PROVE  r \o (x \o y) = (r \o x) \o y
      BY SMTT(30), Associative
  <2> QED BY ONLY <1>1, <1>2, <2>1, Zenon
<1> QED BY <1>1, <1>2, <1>5, <1>6, <1>7

\* Concatenation and Append, in the forms the steps below need.
LEMMA ConcatAppend ==
    ASSUME NEW S, NEW a \in Seq(S), NEW b \in Seq(S), NEW t \in S
    PROVE  /\ a \o Append(b, t) = Append(a \o b, t)
           /\ a \o <<t>> = Append(a, t)
           /\ a \o << >> = a /\ << >> \o a = a
           /\ Append(a, t) \in Seq(S)
           /\ a \o b \in Seq(S)
<1>1. Append(a, t) \in Seq(S) /\ Append(b, t) \in Seq(S) /\ a \o b \in Seq(S)
    BY AppendProperties, ConcatProperties
<1>2. a \o <<t>> = Append(a, t)
    BY AppendIsConcat
<1>3. a \o Append(b, t) = Append(a \o b, t)
  <2>1. <<t>> \in Seq(S)
      OBVIOUS
  <2>2. a \o Append(b, t) = a \o (b \o <<t>>)
      BY AppendIsConcat
  <2>3. a \o (b \o <<t>>) = (a \o b) \o <<t>>
      BY <2>1, ConcatAssociative
  <2> QED BY <1>1, <2>2, <2>3, AppendIsConcat
<1> QED BY <1>1, <1>2, <1>3, ConcatEmptySeq

\* Appending the next token to the first n.
LEMMA NextOfTokens ==
    ASSUME NEW n \in Nat
    PROVE  Append(Tokens(n), n + 1) = Tokens(n + 1)
<1> QED BY DEF Tokens

\* A blocked put() holds a token of the answer.
LEMMA HeldIsToken ==
    ASSUME IInv, producer \in {"waiting", "putting"}
    PROVE  text \in 1 .. MaxTokens
<1> DEFINE q == spoken \o phrase \o buffer
<1>1. q \in Seq(1 .. MaxTokens)
    BY ConcatProperties DEF IInv, TypeOK
<1>2. q \o <<text>> = Tokens(text) /\ text \in Nat /\ text <= MaxTokens /\ MaxTokens \in Nat
    BY StreamAssumption DEF IInv, TypeOK, TokensInOrder, Held
<1>3. q \in Seq(Nat) /\ <<text>> \in Seq(Nat) /\ Len(<<text>>) = 1
  <2>1. 1 .. MaxTokens \subseteq Nat
      OBVIOUS
  <2>2. q \in Seq(Nat)
    <3> HIDE DEF q
    <3> QED BY <1>1, <2>1, SeqMonotonic
  <2>3. <<text>> \in Seq(Nat) /\ Len(<<text>>) = 1
      BY <1>2
  <2> QED BY <2>2, <2>3
<1>4. Len(q \o <<text>>) = Len(q) + 1 /\ Len(q) \in Nat
    BY <1>3, ConcatProperties, LenProperties
<1>5. Len(Tokens(text)) = text
    BY <1>2 DEF Tokens
<1> QED BY <1>2, <1>4, <1>5

LEMMA InitIInv == Init => IInv
<1> SUFFICES ASSUME Init PROVE IInv
    OBVIOUS
<1>1. TypeOK
  <2>1. complete \in BOOLEAN /\ interrupted \in BOOLEAN /\ failed \in BOOLEAN
      BY DEF Init
  <2>2. text \in 0 .. MaxTokens /\ left \in 0 .. MaxSegs - 1
      BY StreamAssumption DEF Init
  <2>3. /\ buffer \in Seq(1 .. MaxTokens) /\ Len(buffer) <= Capacity
        /\ phrase \in Seq(1 .. MaxTokens) /\ spoken \in Seq(1 .. MaxTokens)
      BY StreamAssumption, EmptySeq DEF Init
  <2> QED BY <2>1, <2>2, <2>3 DEF Init, TypeOK, ProducerStates, ConsumerStates
<1>2. TokensInOrder
    BY DEF Init, TokensInOrder, Held, Tokens
<1>3. NoLostWakeup
    BY DEF Init, NoLostWakeup
<1> QED BY <1>1, <1>2, <1>3 DEF IInv

\* One turn of put(): the token goes into the buffer or stays in the hand.
LEMMA PutKeepsIInv ==
    ASSUME IInv, NEW t \in 1 .. MaxTokens, Put(t), text' = t,
           Append(spoken \o phrase \o buffer, t) = Tokens(t),
           producer # "done",
           UNCHANGED <<complete, phrase, left, spoken, interrupted, failed>>
    PROVE  IInv'
<1> DEFINE S == 1 .. MaxTokens
<1> USE StreamAssumption
<1>1. /\ spoken \in Seq(S) /\ phrase \in Seq(S) /\ buffer \in Seq(S)
      /\ spoken \o phrase \in Seq(S) /\ Len(buffer) <= Capacity
      /\ Len(buffer) \in Nat
    BY ConcatProperties, LenProperties DEF IInv, TypeOK
<1>2. /\ (spoken \o phrase) \o Append(buffer, t) = Append(spoken \o phrase \o buffer, t)
      /\ (spoken \o phrase) \o Append(buffer, t) \in Seq(S)
      /\ spoken \o phrase \o buffer \in Seq(S)
      /\ Append(buffer, t) \in Seq(S)
  <2> DEFINE p == spoken \o phrase
  <2>1. p \in Seq(S) /\ t \in S
      BY <1>1
  <2>2. /\ p \o Append(buffer, t) = Append(p \o buffer, t)
        /\ p \o buffer \in Seq(S) /\ Append(buffer, t) \in Seq(S)
    <3> HIDE DEF p, S
    <3>1. buffer \in Seq(S)
        BY <1>1
    <3>2. p \o Append(buffer, t) = Append(p \o buffer, t)
        BY ONLY <2>1, <3>1, ConcatAppend
    <3>3. p \o buffer \in Seq(S) /\ Append(buffer, t) \in Seq(S)
        BY ONLY <2>1, <3>1, ConcatAppend
    <3> QED BY <3>2, <3>3
  <2>3. Append(p \o buffer, t) \in Seq(S)
    <3> HIDE DEF p, S
    <3> QED BY <2>1, <2>2, AppendProperties
  <2> QED BY <2>2, <2>3
<1>3. CASE Len(buffer) < Capacity /\ buffer' = Append(buffer, t)
           /\ producer' = "llm" /\ consumer' = ConsumerWoken
  <2>1. Len(buffer') = Len(buffer) + 1
      BY <1>1, <1>3, AppendProperties
  <2>2. TypeOK'
      BY <1>1, <1>2, <1>3, <2>1 DEF IInv, TypeOK, ProducerStates, ConsumerStates, ConsumerWoken
  <2>3. TokensInOrder'
    <3>1. Held' = << >>
        BY <1>3 DEF Held
    <3>2. (spoken \o phrase \o buffer)' = Tokens(t)
        BY <1>2, <1>3
    <3> QED BY <1>2, <1>3, <3>1, <3>2, ConcatEmptySeq DEF TokensInOrder, Tokens
  <2>4. NoLostWakeup'
      BY <1>3 DEF IInv, NoLostWakeup, ConsumerWoken
  <2> QED BY <2>2, <2>3, <2>4 DEF IInv
<1>4. CASE Len(buffer) >= Capacity /\ producer' = "waiting" /\ UNCHANGED <<buffer, consumer>>
  <2>1. TypeOK'
      BY <1>1, <1>4 DEF IInv, TypeOK, ProducerStates, ConsumerStates
  <2>2. TokensInOrder'
    <3>1. Held' = <<t>>
        BY <1>4 DEF Held
    <3>2. (spoken \o phrase \o buffer) \o <<t>> = Tokens(t)
      <4> DEFINE q == spoken \o phrase \o buffer
      <4>1. q \in Seq(S) /\ t \in S /\ Append(q, t) = Tokens(t)
          BY <1>2
      <4>2. q \o <<t>> = Append(q, t)
        <5> HIDE DEF q, S
        <5> QED BY <4>1, AppendIsConcat
      <4> QED BY <4>1, <4>2
    <3> QED BY <1>4, <3>1, <3>2 DEF TokensInOrder, Tokens
  <2>3. NoLostWakeup'
      BY <1>1, <1>4 DEF IInv, NoLostWakeup
  <2> QED BY <2>1, <2>2, <2>3 DEF IInv
<1> QED BY <1>3, <1>4 DEF Put

\* The whole invariant is preserved by every step.
LEMMA NextIInv == IInv /\ [Next]_vars => IInv'
<1> SUFFICES ASSUME IInv, [Next]_vars PROVE IInv'
    OBVIOUS
<1> DEFINE S == 1 .. MaxTokens
<1> USE StreamAssumption
<1>1. /\ spoken \in Seq(S) /\ phrase \in Seq(S) /\ buffer \in Seq(S)
      /\ spoken \o phrase \in Seq(S) /\ spoken \o phrase \o buffer \in Seq(S)
      /\ text \in Nat /\ text <= MaxTokens
    BY ConcatProperties DEF IInv, TypeOK
<1>2. CASE NextToken
  <2>1. text + 1 \in S
      BY <1>1, <1>2 DEF NextToken
  <2>2. spoken \o phrase \o buffer = Tokens(text)
    <3>1. Held = << >>
        BY <1>2 DEF NextToken, Held
    <3> QED BY <1>1, <3>1, ConcatEmptySeq DEF IInv, TokensInOrder
  <2>3. Append(spoken \o phrase \o buffer, text + 1) = Tokens(text + 1)
      BY <1>1, <2>2, NextOfTokens
  <2> QED BY <1>2, <2>1, <2>3, PutKeepsIInv DEF NextToken
<1>3. CASE RetryPut
  <2>1. text \in S
      BY <1>3, HeldIsToken DEF RetryPut
  <2>2. (spoken \o phrase \o buffer) \o <<text>> = Tokens(text)
      BY <1>3 DEF RetryPut, IInv, TokensInOrder, Held
  <2>3. Append(spoken \o phrase \o buffer, text) = Tokens(text)
    <3> DEFINE q == spoken \o phrase \o buffer
    <3>1. q \in Seq(S) /\ text \in S /\ q \o <<text>> = Tokens(text)
        BY <1>1, <2>1, <2>2
    <3>2. q \o <<text>> = Append(q, text)
      <4> HIDE DEF q, S
      <4> QED BY <3>1, AppendIsConcat
    <3> QED BY <3>1, <3>2
  <2> QED BY <1>3, <2>1, <2>3, PutKeepsIInv DEF RetryPut
<1>4. CASE Finish
  <2>1. TypeOK'
      BY <1>4 DEF Finish, IInv, TypeOK, ProducerStates, ConsumerStates, ConsumerWoken
  <2>2. TokensInOrder'
      BY <1>4 DEF Finish, IInv, TokensInOrder, Held, Tokens
  <2>3. NoLostWakeup'
      BY <1>4 DEF Finish, IInv, NoLostWakeup, ConsumerWoken
  <2> QED BY <2>1, <2>2, <2>3 DEF IInv
<1>5. CASE TakeToken
  <2>1. /\ (spoken \o Append(phrase, Head(buffer))) \o Tail(buffer) = (spoken \o phrase) \o buffer
        /\ Append(phrase, Head(buffer)) \in Seq(S) /\ Tail(buffer) \in Seq(S)
        /\ Len(Tail(buffer)) = Len(buffer) - 1
      BY <1>1, <1>5, MoveHead DEF TakeToken
  <2>2. TypeOK'
      BY <1>1, <1>5, <2>1, LenProperties
      DEF TakeToken, IInv, TypeOK, ProducerStates, ConsumerStates, ProducerWoken
  <2>3. TokensInOrder'
    <3>1. Held' = Held
        BY <1>5 DEF TakeToken, Held, ProducerWoken
    <3> QED BY <1>5, <2>1, <3>1 DEF TakeToken, IInv, TokensInOrder, Tokens
  <2>4. NoLostWakeup'
      BY <1>5 DEF TakeToken, IInv, NoLostWakeup, ProducerWoken
  <2> QED BY <2>2, <2>3, <2>4 DEF IInv
<1>6. CASE AwaitToken \/ EndOfTokens \/ TtsFail \/ Interrupt
  <2>1. TypeOK'
      BY <1>6 DEF AwaitToken, EndOfTokens, TtsFail, Interrupt, IInv, TypeOK, ProducerStates, ConsumerStates
  <2>2. TokensInOrder'
      BY <1>6 DEF AwaitToken, EndOfTokens, TtsFail, Interrupt, IInv, TokensInOrder, Held, Tokens
  <2>3. NoLostWakeup'
      BY <1>6 DEF AwaitToken, EndOfTokens, TtsFail, Interrupt, IInv, NoLostWakeup
  <2> QED BY <2>1, <2>2, <2>3 DEF IInv
<1>7. CASE Synthesized
  <2>1. PICK n \in 1 .. MaxSegs : YieldSegment(n)
      BY <1>7 DEF Synthesized
  <2>2. TypeOK'
      BY <1>7, <2>1 DEF Synthesized, YieldSegment, IInv, TypeOK, ProducerStates, ConsumerStates
  <2>3. TokensInOrder'
      BY <1>7 DEF Synthesized, IInv, TokensInOrder, Held, Tokens
  <2>4. NoLostWakeup'
      BY <1>7, <2>1 DEF Synthesized, YieldSegment, IInv, NoLostWakeup
  <2> QED BY <2>2, <2>3, <2>4 DEF IInv
<1>8. CASE SegmentSent
  <2>1. CASE left > 0 /\ YieldSegment(left) /\ UNCHANGED <<phrase, spoken>>
    <3>1. TypeOK'
        BY <1>8, <2>1 DEF SegmentSent, YieldSegment, IInv, TypeOK, ProducerStates, ConsumerStates
    <3>2. TokensInOrder'
        BY <1>8, <2>1 DEF SegmentSent, IInv, TokensInOrder, Held, Tokens
    <3>3. NoLostWakeup'
        BY <1>8, <2>1 DEF SegmentSent, YieldSegment, IInv, NoLostWakeup
    <3> QED BY <3>1, <3>2, <3>3 DEF IInv
  <2>2. CASE spoken' = spoken \o phrase /\ phrase' = << >> /\ consumer' = "reading" /\ UNCHANGED left
    <3>1. TypeOK'
        BY <1>1, <1>8, <2>2 DEF SegmentSent, IInv, TypeOK, ProducerStates, ConsumerStates
    <3>2. TokensInOrder'
      <4>1. spoken' \o phrase' = spoken \o phrase
          BY <1>1, <2>2, ConcatEmptySeq
      <4> QED BY <1>8, <2>2, <4>1 DEF SegmentSent, IInv, TokensInOrder, Held, Tokens
    <3>3. NoLostWakeup'
        BY <1>8, <2>2 DEF SegmentSent, IInv, NoLostWakeup
    <3> QED BY <3>1, <3>2, <3>3 DEF IInv
  <2> QED BY <1>8, <2>1, <2>2 DEF SegmentSent
<1>9. CASE UNCHANGED vars
  <2>1. TypeOK' /\ TokensInOrder' /\ NoLostWakeup'
      BY <1>9 DEF vars, IInv, TypeOK, TokensInOrder, NoLostWakeup, Held, Tokens
  <2> QED BY <2>1 DEF IInv
<1> QED BY <1>2, <1>3, <1>4, <1>5, <1>6, <1>7, <1>8, <1>9 DEF Next, Produce, Consume

LEMMA InvariantHolds == Spec => []IInv
<1> QED BY InitIInv, NextIInv, PTL DEF Spec

\* The stream's state is well-typed and the buffer within its capacity.
THEOREM StreamTypeCorrect == Spec => []TypeOK
<1>1. IInv => TypeOK
    BY DEF IInv
<1> QED BY <1>1, InvariantHolds, PTL

\* No token of an answer is lost, doubled or overtaken between the LLM and the
\* caller, for every capacity, answer length and pair of task speeds.
THEOREM NoTokenLost == Spec => []TokensInOrder
<1>1. IInv => TokensInOrder
    BY DEF IInv
<1> QED BY <1>1, InvariantHolds, PTL

\* Neither task ever sleeps on something that is already there.
THEOREM NoTaskOversleeps == Spec => []NoLostWakeup
<1>1. IInv => NoLostWakeup
    BY DEF IInv
<1> QED BY <1>1, InvariantHolds, PTL
=============================================================================
