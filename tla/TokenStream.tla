----------------------------- MODULE TokenStream -----------------------------
(***************************************************************************)
(* The streaming answer: an LLM task puts tokens into a bounded            *)
(* TokenRingBuffer, a TTS task takes them out, synthesizes phrase by       *)
(* phrase and sends the audio; the session's interrupt flag may be set by  *)
(* the media handler at any time.                                          *)
(*                                                                         *)
(* put() and get() hold the buffer's lock only where they do not suspend,  *)
(* so one turn of their loops is one step.  Setting an asyncio.Event wakes *)
(* every waiter for good, even if the event is cleared before the waiter   *)
(* runs, so each event is modelled by who waits for it.  Token k of the    *)
(* answer is the number k.                                                 *)
(***************************************************************************)
EXTENDS Naturals, Sequences

CONSTANTS Capacity,  \* TokenRingBuffer._capacity, 256 in the code
          MaxTokens, \* bound: tokens the model generates
          MaxSegs    \* bound: audio segments of one phrase

ASSUME StreamAssumption ==
    /\ Capacity \in Nat \ {0}
    /\ MaxTokens \in Nat
    /\ MaxSegs \in Nat \ {0}

VARIABLES text,        \* tokens accumulated into the AIResponse
          buffer,      \* TokenRingBuffer._buffer
          complete,    \* TokenRingBuffer._complete
          producer,    \* the LLM task
          consumer,    \* the TTS task
          phrase,      \* accumulated_text of synthesize_stream
          left,        \* segments of the phrase not yet yielded
          spoken,      \* history: tokens of the phrases sent completely
          interrupted, \* ConversationSession._interrupted
          failed       \* history: did the TTS task end with an exception?

vars == <<text, buffer, complete, producer, consumer, phrase, left, spoken,
          interrupted, failed>>

ProducerStates == {"llm", "waiting", "putting", "done"}
ConsumerStates == {"reading", "waiting", "synth", "sending", "done"}

Init ==
    /\ text = 0
    /\ buffer = <<>>
    /\ complete = FALSE
    /\ producer = "llm"
    /\ consumer = "reading"
    /\ phrase = <<>>
    /\ left = 0
    /\ spoken = <<>>
    /\ interrupted = FALSE
    /\ failed = FALSE

\* Setting _get_event, and setting _put_event.
ConsumerWoken == IF consumer = "waiting" THEN "reading" ELSE consumer
ProducerWoken == IF producer = "waiting" THEN "putting" ELSE producer

-----------------------------------------------------------------------------
(* The LLM task *)

\* Mutant of Put: the capacity is off by one.
PutOverCapacity(token) ==
    \/ /\ Len(buffer) <= Capacity
       /\ buffer' = Append(buffer, token)
       /\ producer' = "llm"
       /\ consumer' = ConsumerWoken
    \/ /\ Len(buffer) > Capacity
       /\ producer' = "waiting"
       /\ UNCHANGED <<buffer, consumer>>

\* One turn of put()'s loop.  Only this task completes the buffer, so the
\* token is never refused.
Put(token) ==
    \/ /\ Len(buffer) < Capacity
       /\ buffer' = Append(buffer, token)
       /\ producer' = "llm"
       /\ consumer' = ConsumerWoken
    \/ /\ Len(buffer) >= Capacity
       /\ producer' = "waiting"
       /\ UNCHANGED <<buffer, consumer>>

\* A token arrives: it goes into the answer's text and then into the buffer.
NextToken ==
    /\ producer = "llm"
    /\ ~interrupted
    /\ text < MaxTokens     \* bound
    /\ text' = text + 1
    /\ Put(text + 1)
    /\ UNCHANGED <<complete, phrase, left, spoken, interrupted, failed>>

\* Mutant of RetryPut: a producer that had to wait drops its token.
RetryPutDropsToken ==
    /\ producer = "putting"
    /\ producer' = "llm"
    /\ UNCHANGED <<text, buffer, consumer, complete, phrase, left, spoken, interrupted, failed>>

RetryPut ==
    /\ producer = "putting"
    /\ Put(text)
    /\ UNCHANGED <<text, complete, phrase, left, spoken, interrupted, failed>>

\* Mutant of Finish: complete() does not set _get_event.
FinishSilently ==
    /\ producer = "llm"
    /\ producer' = "done"
    /\ complete' = TRUE
    /\ UNCHANGED <<text, buffer, consumer, phrase, left, spoken, interrupted, failed>>

\* The model's stream ends or raises, or a token arrives after an interrupt:
\* the finally block completes the buffer.
Finish ==
    /\ producer = "llm"
    /\ producer' = "done"
    /\ complete' = TRUE
    /\ consumer' = ConsumerWoken
    /\ UNCHANGED <<text, buffer, phrase, left, spoken, interrupted, failed>>

-----------------------------------------------------------------------------
(* The TTS task *)

\* get() returns a token, which may or may not complete a phrase (phrases that
\* are blank, and so never synthesized, are left out).
TakeToken ==
    /\ consumer = "reading"
    /\ buffer # <<>>
    /\ buffer' = Tail(buffer)
    /\ producer' = ProducerWoken
    /\ phrase' = Append(phrase, Head(buffer))
    /\ consumer' \in {"reading", "synth"}
    /\ UNCHANGED <<text, complete, left, spoken, interrupted, failed>>

AwaitToken ==
    /\ consumer = "reading"
    /\ buffer = <<>> /\ ~complete
    /\ consumer' = "waiting"
    /\ UNCHANGED <<text, buffer, complete, producer, phrase, left, spoken, interrupted, failed>>

\* Mutant of EndOfTokens: an unfinished phrase is not synthesized.
EndOfTokensDropsPhrase ==
    /\ consumer = "reading"
    /\ buffer = <<>> /\ complete
    /\ consumer' = "done"
    /\ UNCHANGED <<text, buffer, complete, producer, phrase, left, spoken, interrupted, failed>>

\* get() returns None: what is left of the text is synthesized; after it the
\* loop ends (here by getting None once more).
EndOfTokens ==
    /\ consumer = "reading"
    /\ buffer = <<>> /\ complete
    /\ consumer' = IF phrase = <<>> THEN "done" ELSE "synth"
    /\ UNCHANGED <<text, buffer, complete, producer, phrase, left, spoken, interrupted, failed>>

\* n segments are still to come: the interrupt flag is read before each is
\* sent, and a set flag abandons the generator.
YieldSegment(n) ==
    IF interrupted
    THEN consumer' = "done" /\ UNCHANGED left
    ELSE consumer' = "sending" /\ left' = n - 1

Synthesized ==
    /\ consumer = "synth"
    /\ \E n \in 1 .. MaxSegs : YieldSegment(n)
    /\ UNCHANGED <<text, buffer, complete, producer, phrase, spoken, interrupted, failed>>

\* send_segment returns: the next segment, or the next phrase.
SegmentSent ==
    /\ consumer = "sending"
    /\ \/ /\ left > 0
          /\ YieldSegment(left)
          /\ UNCHANGED <<phrase, spoken>>
       \/ /\ left = 0
          /\ spoken' = spoken \o phrase
          /\ phrase' = <<>>
          /\ consumer' = "reading"
          /\ UNCHANGED left
    /\ UNCHANGED <<text, buffer, complete, producer, interrupted, failed>>

\* An exception in synthesis or sending ends the task; it is only logged.
TtsFail ==
    /\ consumer \in {"synth", "sending"}
    /\ consumer' = "done"
    /\ failed' = TRUE
    /\ UNCHANGED <<text, buffer, complete, producer, phrase, left, spoken, interrupted>>

-----------------------------------------------------------------------------
\* The media handler marks the session while the answer is being streamed.
Interrupt ==
    /\ ~interrupted
    /\ interrupted' = TRUE
    /\ UNCHANGED <<text, buffer, complete, producer, consumer, phrase, left, spoken, failed>>

Produce == NextToken \/ RetryPut \/ Finish
Consume == TakeToken \/ AwaitToken \/ EndOfTokens \/ Synthesized \/ SegmentSent \/ TtsFail

Next == Produce \/ Consume \/ Interrupt

Spec == Init /\ [][Next]_vars

\* The event loop schedules both tasks, and the LLM and TTS services answer
\* or raise.
FairSpec == Spec /\ WF_vars(Produce) /\ WF_vars(Consume)

-----------------------------------------------------------------------------
(* Properties *)

\* Type invariant; the buffer never grows past its capacity (backpressure).
TypeOK ==
    /\ text \in 0 .. MaxTokens
    /\ buffer \in Seq(1 .. MaxTokens) /\ Len(buffer) <= Capacity
    /\ complete \in BOOLEAN
    /\ producer \in ProducerStates
    /\ consumer \in ConsumerStates
    /\ phrase \in Seq(1 .. MaxTokens)
    /\ left \in 0 .. MaxSegs - 1
    /\ spoken \in Seq(1 .. MaxTokens)
    /\ interrupted \in BOOLEAN
    /\ failed \in BOOLEAN

Tokens(n) == [k \in 1 .. n |-> k]

\* The token a blocked put() holds.
Held == IF producer \in {"waiting", "putting"} THEN <<text>> ELSE <<>>

\* Whatever the two tasks' speeds, every token of the answer's text is in
\* exactly one place and all are in order: spoken, in the phrase being built,
\* in the buffer, or in the hand of a blocked put().
TokensInOrder ==
    spoken \o phrase \o buffer \o Held = Tokens(text)

\* No lost wake-up: a task waits only while what it waits for is missing, so
\* get() never sleeps on a token or on the end of the stream, and put() never
\* sleeps on free space.
NoLostWakeup ==
    /\ consumer = "waiting" => buffer = <<>> /\ ~complete
    /\ producer = "waiting" => Len(buffer) = Capacity
    /\ complete <=> producer = "done"

\* An answer that is neither interrupted nor hit by a TTS error is spoken to
\* its last token, and both tasks end.
EverythingSpoken ==
    <>(interrupted \/ failed
       \/ (producer = "done" /\ consumer = "done" /\ spoken = Tokens(text)))
=============================================================================
