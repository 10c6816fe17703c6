---------------------------- MODULE OutboundAudio ----------------------------
(***************************************************************************)
(* ExotelCallerAudioAdapter for one stream: tasks that answer its caller   *)
(* number their segments at once and send each one when its time has come; *)
(* meanwhile another connection may be registered for the stream, or none. *)
(*                                                                         *)
(* Time does not pass while a segment that is due waits to be sent: the    *)
(* event loop is taken to lag less than one segment lasts.                 *)
(***************************************************************************)
EXTENDS Naturals, FiniteSetsExt

CONSTANTS Wire,      \* WebSocket connections; each announces the stream once
          Speaker,   \* tasks that send; one segment at a time each
          Durations, \* of a segment after resampling and padding, in ticks
          MaxMedia,  \* bound: numbered segments of a registration
          NoWire

ASSUME OutboundAssumption ==
    /\ NoWire \notin Wire /\ MaxMedia \in Nat
    /\ Durations \subseteq Nat \ {0} /\ IsFiniteSet(Durations)

VARIABLES connected, \* _connections[stream], or NoWire
          announced, \* connections registered so far
          pacing,    \* _pacing_enabled
          sequence,  \* _sequence_numbers
          media,     \* _media_chunk_numbers
          timestamp, \* _media_timestamps_ms
          elapsed,   \* since _stream_start_times
          waiting,   \* the segment each task has numbered and not sent
          received   \* the last segment each connection has been sent

outboundVars == <<connected, announced, pacing, sequence, media, timestamp, elapsed,
                  waiting, received>>

Longest == Max(Durations \cup {0}) * MaxMedia

\* A media message: its numbers, the time it covers, and how long it is still held back.
Media == [wire : Wire, sequence : Nat, chunk : 1 .. MaxMedia, from : 0 .. Longest,
          to : 0 .. Longest, wait : 0 .. Longest]
Nothing == [wire |-> NoWire, sequence |-> 0, chunk |-> 0, from |-> 0, to |-> 0, wait |-> 0]

OutboundInit ==
    /\ connected = NoWire /\ announced = {} /\ pacing = FALSE
    /\ sequence = 1 /\ media = 1 /\ timestamp = 0 /\ elapsed = 0
    /\ waiting = [t \in Speaker |-> Nothing]
    /\ received = [w \in Wire |-> Nothing]

RegisterWire(w, paced) ==
    /\ w \notin announced /\ announced' = announced \cup {w}
    /\ connected' = w /\ pacing' = paced
    /\ sequence' = 1 /\ media' = 1 /\ timestamp' = 0 /\ elapsed' = 0
    /\ UNCHANGED <<waiting, received>>

UnregisterWire ==
    /\ connected # NoWire /\ connected' = NoWire
    /\ sequence' = 1 /\ media' = 1 /\ timestamp' = 0 /\ elapsed' = 0 /\ pacing' = FALSE
    /\ UNCHANGED <<announced, waiting, received>>

\* send_text; an error is logged.
Transmit(m) ==
    \/ received' = [received EXCEPT ![m.wire] = m]
    \/ UNCHANGED received

\* Mutant of Numbered: the time of a segment is not set aside for it.
NumberedOnly(m) ==
    /\ sequence' = m.sequence + 1 /\ media' = m.chunk + 1 /\ timestamp' = m.from

Numbered(m) ==
    /\ sequence' = m.sequence + 1 /\ media' = m.chunk + 1 /\ timestamp' = m.to

\* send_segment up to the sleep, or to its end if there is nothing to sleep for.
SendSegment(t, duration) ==
    LET from == Max({timestamp, elapsed})
        m == [wire |-> connected, sequence |-> sequence, chunk |-> media, from |-> from,
              to |-> from + duration, wait |-> IF pacing THEN from - elapsed ELSE 0] IN
    /\ connected # NoWire /\ waiting[t] = Nothing /\ media <= MaxMedia
    /\ Numbered(m)
    /\ IF m.wait > 0 THEN waiting' = [waiting EXCEPT ![t] = m] /\ UNCHANGED received
                     ELSE Transmit(m) /\ UNCHANGED waiting
    /\ UNCHANGED <<connected, announced, pacing, elapsed>>

\* The sleep is over: the message goes to the connection it was numbered for.
SendNow(t) ==
    /\ waiting[t] # Nothing /\ waiting[t].wait = 0
    /\ Transmit(waiting[t]) /\ waiting' = [waiting EXCEPT ![t] = Nothing]
    /\ UNCHANGED <<connected, announced, pacing, sequence, media, timestamp, elapsed>>

\* send_mark and send_clear: numbered and sent at once.
SendMark ==
    /\ connected # NoWire /\ sequence <= MaxMedia
    /\ sequence' = sequence + 1
    /\ UNCHANGED <<connected, announced, pacing, media, timestamp, elapsed, waiting, received>>

OutboundTick ==
    /\ elapsed < Longest
    /\ \A t \in Speaker : waiting[t] # Nothing => waiting[t].wait > 0
    /\ elapsed' = IF connected = NoWire THEN elapsed ELSE elapsed + 1
    /\ waiting' = [t \in Speaker |-> IF waiting[t] = Nothing THEN Nothing
                                     ELSE [waiting[t] EXCEPT !.wait = @ - 1]]
    /\ UNCHANGED <<connected, announced, pacing, sequence, media, timestamp, received>>

OutboundNext ==
    \/ \E w \in Wire, paced \in BOOLEAN : RegisterWire(w, paced)
    \/ UnregisterWire \/ SendMark \/ OutboundTick
    \/ \E t \in Speaker : SendNow(t) \/ \E d \in Durations : SendSegment(t, d)

OutboundSpec == OutboundInit /\ [][OutboundNext]_outboundVars

-----------------------------------------------------------------------------
(* Properties *)

OutboundTypeOK ==
    /\ connected \in Wire \cup {NoWire} /\ announced \subseteq Wire /\ pacing \in BOOLEAN
    /\ sequence \in 1 .. 2 * MaxMedia + 1 /\ media \in 1 .. MaxMedia + 1
    /\ timestamp \in Nat /\ elapsed \in 0 .. Longest
    /\ \A t \in Speaker : waiting[t] = Nothing \/ waiting[t].wire \in Wire

\* However the tasks of a stream sleep, and whatever is registered or fails meanwhile,
\* the media a connection is sent has rising numbers and never covers a time twice.
\* Marks and clears are not held back, so they may overtake it.
AudioInOrder ==
    [][\A w \in Wire : received'[w] # received[w] =>
          /\ received'[w].sequence > received[w].sequence
          /\ received'[w].chunk > received[w].chunk
          /\ received'[w].from >= received[w].to]_outboundVars
=============================================================================
