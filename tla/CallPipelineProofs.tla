-------------------------- MODULE CallPipelineProofs --------------------------
(***************************************************************************)
(* CallPipeline for any number of connections, streams, rates and texts.   *)
(*                                                                         *)
(* There are two invariants.  PipelineInv holds whatever the peers do: a   *)
(* task at work has locals that fit its phase, and holds a session of its  *)
(* own stream, so every step of it leads back to SpeakingEnds,             *)
(* EndedStaysQuiet and RegisteredIsOpen.  CallInv needs peers that do not  *)
(* announce a stream while an older connection has it (~Overlap): then a   *)
(* stream has one connection that is not closed (OneOwner), nobody else    *)
(* ends or registers what that one works on (FrameIsStored), and from that *)
(* follow OneActiveSession, LiveCallReachable and AnswersReachTheirCaller. *)
(*                                                                         *)
(* Resume and Transcribe appear in five actions.  What they do is stated   *)
(* once, as Returned and Started, and the actions are brought to these     *)
(* before an invariant is looked at.                                       *)
(***************************************************************************)
EXTENDS CallPipeline, TLAPS

SessionRecord ==
    [stream : Streams, rate : Rates, state : {"active", "ended"},
     mode : {"listening", "thinking", "speaking"},
     utts : SUBSET Utts, interrupted : BOOLEAN]

PipelineTypes == TypeOK /\ sessions \in Seq(SessionRecord)

\* A task that reads keeps no locals; one at work holds a session of its stream,
\* in the AI pipeline the one its utterance was stored in.
FrameOf(c) ==
    /\ pc[c] \notin Busy => frame[c] = NoFrame
    /\ pc[c] \in Busy =>
          /\ stream[c] \in Streams
          /\ frame[c].sess \in DOMAIN sessions
          /\ sessions[frame[c].sess].stream = stream[c]
    /\ pc[c] \in {"llm", "tts", "send"} =>
          frame[c].held = frame[c].sess /\ frame[c].utt # 0 /\ frame[c].text \in Texts
    /\ pc[c] = "send" => frame[c].socket \in Conns
Frames == \A c \in Conns : FrameOf(c)

\* A stream is only mapped to sessions created for it.
OwnSession ==
    \A s \in Streams : repo[s] # 0 => sessions[repo[s]].stream = s

\* The task behind a speaking session has an utterance, so it cannot leave by
\* the error of a recognizer that gave no result.
SpeakerHasUtterance ==
    \A i \in DOMAIN sessions : sessions[i].mode = "speaking" =>
        \E c \in Conns : pc[c] \in Busy /\ frame[c].sess = i /\ frame[c].utt # 0

PipelineInv == PipelineTypes /\ Frames /\ OwnSession /\ RegisteredIsOpen
               /\ SpeakerHasUtterance /\ EndedStaysQuiet

\* Without Overlap a stream has one connection at a time,
OneOwner ==
    /\ \A c \in Conns : pc[c] = "new" => stream[c] = None
    /\ \A c, d \in Conns : c # d /\ stream[c] # None /\ stream[c] = stream[d]
           => pc[c] = "closed" \/ pc[d] = "closed"

\* whose task works on the session the repository has.
FrameIsStored ==
    \A c \in Conns : pc[c] \in Busy => repo[stream[c]] = frame[c].sess

\* A segment is on its way to the connection it was synthesized for.
SentToItsCaller ==
    \A c \in Conns : pc[c] = "send" => frame[c].socket = c

\* Utterances are numbered as they are transcribed.
UtterancesKnown ==
    /\ \A c \in Conns : frame[c].utt # 0 => frame[c].utt <= lastUtt /\ asker[frame[c].utt] = c
    /\ \A c \in Conns : \A u \in heard[c] : u <= lastUtt

CallInv == OneOwner /\ FrameIsStored /\ OneActiveSession /\ LiveCallReachable
           /\ SentToItsCaller /\ UtterancesKnown /\ AnswersReachTheirCaller

-----------------------------------------------------------------------------
\* Sessions are only added, keep their stream, and an ended one stays ended.
SessionsKept(old, new) ==
    /\ Len(old) <= Len(new)
    /\ \A i \in DOMAIN old : /\ new[i].stream = old[i].stream
                             /\ old[i].state = "ended" => new[i].state = "ended"

\* Replacing a session by one of the same stream.
LEMMA ReplaceSession ==
    ASSUME NEW ss \in Seq(SessionRecord), NEW i \in DOMAIN ss, NEW r \in SessionRecord,
           r.stream = ss[i].stream, ss[i].state = "ended" => r.state = "ended"
    PROVE  /\ [ss EXCEPT ![i] = r] \in Seq(SessionRecord)
           /\ Len([ss EXCEPT ![i] = r]) = Len(ss)
           /\ SessionsKept(ss, [ss EXCEPT ![i] = r])
           /\ \A j \in DOMAIN ss : [ss EXCEPT ![i] = r][j] = IF j = i THEN r ELSE ss[j]
  BY DEF SessionsKept

Ended(x) == [x EXCEPT !.state = "ended", !.mode = "listening"]

\* Ending a call touches the session its stream maps to, or nothing.
LEMMA EndCallStep ==
    ASSUME NEW s \in Streams, NEW ss \in Seq(SessionRecord),
           NEW rp \in [Streams -> 0 .. Len(ss)], EndCall(s, ss, rp)
    PROVE  /\ sessions' \in Seq(SessionRecord) /\ Len(sessions') = Len(ss)
           /\ SessionsKept(ss, sessions')
           /\ repo' \in [Streams -> 0 .. Len(ss)]
           /\ \/ ~Live(rp[s], ss) /\ sessions' = ss /\ repo' = rp
              \/ /\ Live(rp[s], ss) /\ repo' = [rp EXCEPT ![s] = 0]
                 /\ \A i \in DOMAIN ss : sessions'[i] = IF i = rp[s] THEN Ended(ss[i]) ELSE ss[i]
  <1>1. CASE ~Live(rp[s], ss)
    BY <1>1 DEF EndCall, SessionsKept
  <1>2. CASE Live(rp[s], ss)
    <2>1. rp[s] \in DOMAIN ss
      BY <1>2 DEF Live
    <2>2. sessions' = [ss EXCEPT ![rp[s]] = Ended(ss[rp[s]])] /\ repo' = [rp EXCEPT ![s] = 0]
      BY <1>2 DEF EndCall, Ended
    <2>3. ss[rp[s]] \in SessionRecord
      BY <2>1
    <2>4. /\ Ended(ss[rp[s]]) \in SessionRecord /\ Ended(ss[rp[s]]).stream = ss[rp[s]].stream
          /\ Ended(ss[rp[s]]).state = "ended"
      BY <2>3 DEF Ended, SessionRecord
    <2>5. /\ sessions' \in Seq(SessionRecord) /\ Len(sessions') = Len(ss)
          /\ SessionsKept(ss, sessions')
          /\ \A i \in DOMAIN ss : sessions'[i] = IF i = rp[s] THEN Ended(ss[rp[s]]) ELSE ss[i]
      <3> DEFINE i == rp[s]  r == Ended(ss[rp[s]])
      <3>1. /\ i \in DOMAIN ss /\ r \in SessionRecord /\ r.stream = ss[i].stream /\ r.state = "ended"
            /\ sessions' = [ss EXCEPT ![i] = r]
        BY <2>1, <2>2, <2>4
      <3> HIDE DEF i, r
      <3>2. /\ sessions' \in Seq(SessionRecord) /\ Len(sessions') = Len(ss)
            /\ SessionsKept(ss, sessions')
            /\ \A j \in DOMAIN ss : sessions'[j] = IF j = i THEN r ELSE ss[j]
        BY <3>1, ReplaceSession
      <3> QED  BY <3>2 DEF i, r
    <2>6. repo' \in [Streams -> 0 .. Len(ss)]
      BY <2>2
    <2>7. \A i \in DOMAIN ss : sessions'[i] = IF i = rp[s] THEN Ended(ss[i]) ELSE ss[i]
      BY <2>5
    <2> QED  BY <1>2, <2>2, <2>5, <2>6, <2>7
  <1> QED  BY <1>1, <1>2

\* What returning to handle() does to the sessions and the repository.
ResumeCall(s, after, ss, rp) ==
    \/ sessions' = ss /\ repo' = rp /\ (after = "stop" => ~Live(rp[s], ss))
    \/ /\ after = "stop" /\ Live(rp[s], ss)
       /\ repo' = [rp EXCEPT ![s] = 0]
       /\ \A i \in DOMAIN ss : sessions'[i] = IF i = rp[s] THEN Ended(ss[i]) ELSE ss[i]

\* c reads again or closes; only a stop ends the call and unregisters the socket, and
\* the audio buffered until then is dropped.
Returned(c, after, ss, rp, cn) ==
    /\ frame' = [frame EXCEPT ![c] = NoFrame]
    /\ pc' = [pc EXCEPT ![c] = IF after = "loop" THEN "loop" ELSE "closing"]
    /\ vad' \in [Streams -> BOOLEAN] /\ (after = "stop" => ~vad'[stream[c]])
    /\ connections' = IF after = "stop" THEN [cn EXCEPT ![stream[c]] = None] ELSE cn
    /\ connections' \in [Streams -> Conns \cup {None}]
    /\ sessions' \in Seq(SessionRecord) /\ Len(sessions') = Len(ss)
    /\ SessionsKept(ss, sessions')
    /\ repo' \in [Streams -> 0 .. Len(ss)]
    /\ ResumeCall(stream[c], after, ss, rp)

\* That is what Resume does.
LEMMA ResumeStep ==
    ASSUME NEW c \in Conns, stream[c] \in Streams,
           NEW after \in {"loop", "stop", "drop"}, NEW ss \in Seq(SessionRecord),
           NEW rp \in [Streams -> 0 .. Len(ss)], NEW vd \in [Streams -> BOOLEAN],
           NEW cn \in [Streams -> Conns \cup {None}], Resume(c, after, ss, rp, vd, cn)
    PROVE  Returned(c, after, ss, rp, cn)
  <1>1. CASE after = "stop"
    <2>1. EndCall(stream[c], ss, rp)
      BY <1>1 DEF Resume
    <2>2. /\ sessions' \in Seq(SessionRecord) /\ Len(sessions') = Len(ss)
          /\ SessionsKept(ss, sessions') /\ repo' \in [Streams -> 0 .. Len(ss)]
          /\ ResumeCall(stream[c], after, ss, rp)
      BY <1>1, <2>1, EndCallStep DEF ResumeCall
    <2>3. /\ frame' = [frame EXCEPT ![c] = NoFrame] /\ pc' = [pc EXCEPT ![c] = "closing"]
          /\ connections' = [cn EXCEPT ![stream[c]] = None]
          /\ vad' = [vd EXCEPT ![stream[c]] = FALSE]
      BY <1>1 DEF Resume
    <2> QED  BY <1>1, <2>2, <2>3 DEF Returned
  <1>2. CASE after # "stop"
    <2>1. sessions' = ss /\ repo' = rp /\ connections' = cn
      BY <1>2 DEF Resume
    <2>2. SessionsKept(ss, sessions') /\ ResumeCall(stream[c], after, ss, rp)
      BY <1>2, <2>1 DEF SessionsKept, ResumeCall
    <2>3. /\ frame' = [frame EXCEPT ![c] = NoFrame]
          /\ pc' = [pc EXCEPT ![c] = IF after = "loop" THEN "loop" ELSE "closing"]
          /\ vad' \in [Streams -> BOOLEAN]
      BY <1>2 DEF Resume
    <2> QED  BY <1>2, <2>1, <2>2, <2>3 DEF Returned
  <1> QED  BY <1>1, <1>2

\* c has started to transcribe for session i.
Begun(c, after, i) ==
    /\ pc' = [pc EXCEPT ![c] = "stt"]
    /\ frame' = [frame EXCEPT ![c] = [NoFrame EXCEPT !.after = after, !.sess = i]]
Started(c, after, i, ss) ==
    /\ Begun(c, after, i)
    /\ sessions' \in Seq(SessionRecord) /\ Len(sessions') = Len(ss)
    /\ SessionsKept(ss, sessions')
    /\ \A j \in DOMAIN ss : sessions'[j] =
          IF j = i THEN [ss[i] EXCEPT !.mode = "thinking"] ELSE ss[j]

\* That is what Transcribe does.
LEMMA TranscribeStep ==
    ASSUME NEW c \in Conns, NEW after \in {"loop", "stop", "drop"},
           NEW ss \in Seq(SessionRecord), NEW i \in DOMAIN ss, Transcribe(c, after, i, ss)
    PROVE  Started(c, after, i, ss)
  <1> DEFINE r == [ss[i] EXCEPT !.mode = "thinking"]
  <1>1. sessions' = [ss EXCEPT ![i] = r]
    BY DEF Transcribe
  <1>2. r \in SessionRecord /\ r.stream = ss[i].stream /\ r.state = ss[i].state
    <2>1. ss[i] \in SessionRecord
      OBVIOUS
    <2> QED  BY <2>1 DEF SessionRecord
  <1>3. Begun(c, after, i)
    BY DEF Transcribe, Begun
  <1> QED  BY <1>1, <1>2, <1>3, ReplaceSession DEF Started

\* At the end of a call the buffered audio is transcribed, or the task returns.
LEMMA FinalizeStep ==
    ASSUME PipelineTypes, NEW c \in Conns, stream[c] \in Streams,
           NEW after \in {"stop", "drop"}, NEW cn \in [Streams -> Conns \cup {None}],
           Finalize(c, after, cn)
    PROVE  \/ /\ Live(repo[stream[c]], sessions) /\ repo[stream[c]] \in DOMAIN sessions
              /\ Started(c, after, repo[stream[c]], sessions)
              /\ vad' \in [Streams -> BOOLEAN] /\ connections' = cn /\ repo' = repo
           \/ Returned(c, after, sessions, repo, cn)
  <1> DEFINE i == repo[stream[c]]
  <1>0. /\ sessions \in Seq(SessionRecord) /\ repo \in [Streams -> 0 .. Len(sessions)]
        /\ vad \in [Streams -> BOOLEAN]
    BY DEF PipelineTypes, TypeOK
  <1>1. CASE Resume(c, after, sessions, repo, vad, cn)
    BY <1>0, <1>1, ResumeStep
  <1>2. CASE /\ vad[stream[c]] /\ Live(i, sessions)
             /\ Transcribe(c, after, i, sessions)
             /\ vad' = [vad EXCEPT ![stream[c]] = FALSE]
             /\ connections' = cn
             /\ UNCHANGED repo
    <2>1. i \in DOMAIN sessions
      BY <1>0, <1>2 DEF Live
    <2>2. Started(c, after, i, sessions)
      BY <1>0, <1>2, <2>1, TranscribeStep
    <2>3. vad' \in [Streams -> BOOLEAN]
      BY <1>0, <1>2
    <2> QED  BY <1>2, <2>1, <2>2, <2>3
  <1> QED  BY <1>1, <1>2 DEF Finalize

\* What a chunk does to its session before it is transcribed.
LEMMA ChunkStep ==
    ASSUME PipelineTypes, NEW i \in DOMAIN sessions, NEW loud \in BOOLEAN,
           NEW new \in {Detected(i, loud), Taken(i, loud)}
    PROVE  /\ new \in Seq(SessionRecord) /\ Len(new) = Len(sessions)
           /\ SessionsKept(sessions, new)
           /\ \A j \in DOMAIN sessions :
                 /\ new[j].state = sessions[j].state
                 /\ new[j].mode \in {sessions[j].mode, "listening"}
                 /\ j # i => new[j] = sessions[j]
  <1> DEFINE r == Interrupted(sessions[i], loud)
             q == [r EXCEPT !.mode = "listening"]
  <1>1. sessions \in Seq(SessionRecord) /\ sessions[i] \in SessionRecord
    BY DEF PipelineTypes
  <1>2. /\ r \in SessionRecord /\ r.stream = sessions[i].stream /\ r.state = sessions[i].state
        /\ r.mode \in {sessions[i].mode, "listening"}
    BY <1>1 DEF Interrupted, SessionRecord
  <1>3. /\ q \in SessionRecord /\ q.stream = sessions[i].stream /\ q.state = sessions[i].state
        /\ q.mode = "listening"
    BY <1>2 DEF SessionRecord
  <1>4. CASE new = Detected(i, loud)
    <2>1. new = [sessions EXCEPT ![i] = r]
      BY <1>4 DEF Detected
    <2> HIDE DEF r
    <2> QED  BY <1>1, <1>2, <2>1, ReplaceSession
  <1>5. CASE new = Taken(i, loud)
    <2>1. new = [sessions EXCEPT ![i] = q]
      BY <1>5 DEF Taken
    <2> HIDE DEF q
    <2> QED  BY <1>1, <1>3, <2>1, ReplaceSession
  <1> QED  BY <1>4, <1>5

-----------------------------------------------------------------------------
(* Type correctness *)

\* The types of the calls and of the tasks.
CallTypes ==
    /\ sessions \in Seq(SessionRecord) /\ Len(sessions) <= MaxSessions
    /\ repo \in [Streams -> 0 .. Len(sessions)]
    /\ connections \in [Streams -> Conns \cup {None}]
    /\ vad \in [Streams -> BOOLEAN]
Frame == [after : {"loop", "stop", "drop"}, sess : 0 .. MaxSessions, held : 0 .. MaxSessions,
          utt : 0 .. MaxUtts, text : Texts \cup {None}, segs : 0 .. MaxSegs,
          socket : Conns \cup {None}]
TaskTypes ==
    /\ sampleRate \in Rates
    /\ recent \in [Streams -> Texts \cup {None}]
    /\ pc \in [Conns -> Phases]
    /\ stream \in [Conns -> Streams \cup {None}]
    /\ rate \in [Conns -> Rates]
    /\ frame \in [Conns -> Frame]
    /\ lastUtt \in 0 .. MaxUtts
    /\ asker \in [Utts -> Conns \cup {None}]
    /\ heard \in [Conns -> SUBSET Utts]

\* Together they are the type invariant.
LEMMA TypesSplit == PipelineTypes <=> CallTypes /\ TaskTypes
  <1>1. ASSUME sessions \in Seq(SessionRecord)
        PROVE  \A i \in DOMAIN sessions : sessions[i] \in SessionRecord
    BY <1>1
  <1> QED  BY <1>1 DEF PipelineTypes, TypeOK, CallTypes, TaskTypes, Frame, SessionRecord

\* So they do after a step.
LEMMA TypesSplitNext == CallTypes' /\ TaskTypes' => PipelineTypes'
  BY TypesSplit, PTL

\* The bounds are positive numbers.
LEMMA Bounds == MaxSessions \in Nat \ {0} /\ MaxUtts \in Nat \ {0} /\ MaxSegs \in Nat \ {0}
  BY PipelineAssumption

\* The empty frame is a frame.
LEMMA FrameTypes ==
    /\ NoFrame \in Frame
    /\ \A after \in {"loop", "stop", "drop"}, i \in SessionIds :
          [NoFrame EXCEPT !.after = after, !.sess = i] \in Frame
  <1>1. NoFrame \in Frame
    BY Bounds DEF NoFrame, Frame
  <1>2. ASSUME NEW after \in {"loop", "stop", "drop"}, NEW i \in SessionIds
        PROVE  [NoFrame EXCEPT !.after = after, !.sess = i] \in Frame
    <2>1. i \in 0 .. MaxSessions
      BY Bounds DEF SessionIds
    <2> QED  BY <1>1, <2>1 DEF Frame
  <1> QED  BY <1>1, <1>2

\* So is the frame of a new utterance.
LEMMA FrameOfUtterance ==
    ASSUME NEW g \in Frame, NEW u \in 0 .. MaxUtts, NEW t \in Texts, NEW h \in 0 .. MaxSessions
    PROVE  [g EXCEPT !.utt = u, !.text = t, !.held = h, !.segs = 0] \in Frame
  <1>1. 0 \in 0 .. MaxSegs
    BY Bounds
  <1> QED  BY <1>1 DEF Frame

\* So is the frame of a new segment within the bound.
LEMMA FrameOfSegment ==
    ASSUME NEW g \in Frame, g.segs < MaxSegs, NEW socket \in Conns \cup {None}
    PROVE  [g EXCEPT !.segs = @ + 1, !.socket = socket] \in Frame
  <1>1. g.segs + 1 \in 0 .. MaxSegs
    BY Bounds DEF Frame
  <1> QED  BY <1>1 DEF Frame

\* A step that leaves the sessions alone keeps them.
LEMMA SessionsUnchanged == UNCHANGED sessions => SessionsKept(sessions, sessions')
  BY DEF SessionsKept

\* Accepting a call adds a session or keeps the one that is there.
LEMMA AcceptStep ==
    ASSUME CallTypes, NEW s \in Streams, NEW r \in Rates, AcceptCall(s, r)
    PROVE  /\ sessions' \in Seq(SessionRecord) /\ Len(sessions') <= MaxSessions
           /\ repo' \in [Streams -> 0 .. Len(sessions')]
           /\ SessionsKept(sessions, sessions')
           /\ \/ UNCHANGED <<sessions, repo>> /\ repo[s] # 0
              \/ /\ repo[s] = 0 /\ repo' = [repo EXCEPT ![s] = Len(sessions) + 1]
                 /\ DOMAIN sessions' = DOMAIN sessions \cup {Len(sessions) + 1}
                 /\ sessions'[Len(sessions) + 1] = Session(s, r)
                 /\ \A i \in DOMAIN sessions : sessions'[i] = sessions[i]
  <1>1. CASE UNCHANGED <<sessions, repo>> /\ repo[s] # 0
    BY <1>1, SessionsUnchanged DEF CallTypes
  <1>2. CASE /\ repo[s] = 0 /\ Len(sessions) < MaxSessions
             /\ sessions' = Append(sessions, Session(s, r))
             /\ repo' = [repo EXCEPT ![s] = Len(sessions) + 1]
    <2>1. Session(s, r) \in SessionRecord
      BY DEF Session, SessionRecord
    <2>2. /\ sessions' \in Seq(SessionRecord) /\ Len(sessions') = Len(sessions) + 1
          /\ DOMAIN sessions' = DOMAIN sessions \cup {Len(sessions) + 1}
          /\ sessions'[Len(sessions) + 1] = Session(s, r)
          /\ \A i \in DOMAIN sessions : sessions'[i] = sessions[i]
      BY <1>2, <2>1 DEF CallTypes
    <2>3. repo' \in [Streams -> 0 .. Len(sessions')]
      BY <1>2, <2>2 DEF CallTypes
    <2>4. SessionsKept(sessions, sessions')
      BY <2>2 DEF SessionsKept, CallTypes
    <2> QED  BY <1>2, <2>2, <2>3, <2>4, Bounds DEF CallTypes
  <1> QED  BY <1>1, <1>2 DEF AcceptCall

\* Types after a task returned or started.
LEMMA ReturnedTypes ==
    ASSUME PipelineTypes, NEW c \in Conns, stream[c] \in Streams, NEW after, NEW ss,
           Len(ss) = Len(sessions), NEW rp, NEW cn, Returned(c, after, ss, rp, cn),
           UNCHANGED <<sampleRate, recent, stream, rate, lastUtt, asker, heard>>
    PROVE  PipelineTypes'
  <1>1. TaskTypes /\ CallTypes
    BY TypesSplit
  <1>2. TaskTypes'
    BY <1>1, FrameTypes DEF TaskTypes, Returned, Phases
  <1>3. CallTypes'
    BY <1>1 DEF CallTypes, Returned
  <1> QED  BY <1>2, <1>3, TypesSplitNext

\* The same for a task that started.
LEMMA StartedTypes ==
    ASSUME PipelineTypes, NEW c \in Conns, NEW after \in {"loop", "stop", "drop"}, NEW ss,
           Len(ss) = Len(sessions), NEW i \in DOMAIN sessions, Started(c, after, i, ss),
           vad' \in [Streams -> BOOLEAN], connections' \in [Streams -> Conns \cup {None}],
           UNCHANGED <<repo, sampleRate, recent, stream, rate, lastUtt, asker, heard>>
    PROVE  PipelineTypes'
  <1>1. TaskTypes /\ CallTypes
    BY TypesSplit
  <1>2. i \in SessionIds
    BY <1>1, Bounds DEF SessionIds, CallTypes
  <1>3. [NoFrame EXCEPT !.after = after, !.sess = i] \in Frame
    BY <1>2, FrameTypes
  <1>4. TaskTypes'
    BY <1>1, <1>3 DEF TaskTypes, Started, Begun, Phases, Busy
  <1>5. CallTypes'
    BY <1>1 DEF CallTypes, Started
  <1> QED  BY <1>4, <1>5, TypesSplitNext

\* Setting the mode of a session, and giving it or taking from it utterances.
WithMode(i, m) == [sessions EXCEPT ![i] = [@ EXCEPT !.mode = m]]
WithUtts(i, us) == [sessions EXCEPT ![i] = [@ EXCEPT !.utts = us]]

\* Both leave the rest of the session and the other sessions as they were.
LEMMA ModeStep ==
    ASSUME sessions \in Seq(SessionRecord), NEW i \in DOMAIN sessions,
           NEW m \in {"listening", "thinking", "speaking"}
    PROVE  /\ WithMode(i, m) \in Seq(SessionRecord)
           /\ Len(WithMode(i, m)) = Len(sessions)
           /\ SessionsKept(sessions, WithMode(i, m))
           /\ \A j \in DOMAIN sessions \ {i} : WithMode(i, m)[j] = sessions[j]
           /\ WithMode(i, m)[i].mode = m
           /\ WithMode(i, m)[i].state = sessions[i].state
           /\ WithMode(i, m)[i].stream = sessions[i].stream
  <1> DEFINE r == [sessions[i] EXCEPT !.mode = m]
  <1>1. r \in SessionRecord /\ r.stream = sessions[i].stream /\ r.state = sessions[i].state
        /\ r.mode = m
    <2>1. sessions[i] \in SessionRecord
      OBVIOUS
    <2> QED  BY <2>1 DEF SessionRecord
  <1>2. WithMode(i, m) = [sessions EXCEPT ![i] = r]
    BY DEF WithMode
  <1> HIDE DEF r
  <1>3. /\ WithMode(i, m) \in Seq(SessionRecord) /\ Len(WithMode(i, m)) = Len(sessions)
        /\ SessionsKept(sessions, WithMode(i, m))
        /\ \A j \in DOMAIN sessions : WithMode(i, m)[j] = IF j = i THEN r ELSE sessions[j]
    BY <1>1, <1>2 DEF SessionsKept
  <1> QED  BY <1>1, <1>3

\* The same for the utterances.
LEMMA UttsStep ==
    ASSUME sessions \in Seq(SessionRecord), NEW i \in DOMAIN sessions, NEW us \in SUBSET Utts
    PROVE  /\ WithUtts(i, us) \in Seq(SessionRecord)
           /\ Len(WithUtts(i, us)) = Len(sessions)
           /\ SessionsKept(sessions, WithUtts(i, us))
           /\ \A j \in DOMAIN sessions : /\ WithUtts(i, us)[j].mode = sessions[j].mode
                                         /\ WithUtts(i, us)[j].state = sessions[j].state
                                         /\ WithUtts(i, us)[j].stream = sessions[j].stream
  <1> DEFINE r == [sessions[i] EXCEPT !.utts = us]
  <1>1. r \in SessionRecord /\ r.stream = sessions[i].stream /\ r.state = sessions[i].state
        /\ r.mode = sessions[i].mode
    <2>1. sessions[i] \in SessionRecord
      OBVIOUS
    <2> QED  BY <2>1 DEF SessionRecord
  <1>2. WithUtts(i, us) = [sessions EXCEPT ![i] = r]
    BY DEF WithUtts
  <1> HIDE DEF r
  <1>3. /\ WithUtts(i, us) \in Seq(SessionRecord) /\ Len(WithUtts(i, us)) = Len(sessions)
        /\ SessionsKept(sessions, WithUtts(i, us))
        /\ \A j \in DOMAIN sessions : WithUtts(i, us)[j] = IF j = i THEN r ELSE sessions[j]
    BY <1>1, <1>2 DEF SessionsKept
  <1> QED  BY <1>1, <1>3

\* The end of a transcription returns, with the session listening unless it has ended.
LEMMA SttStep ==
    ASSUME PipelineTypes, Frames, NEW c \in Conns, SttEnd(c) \/ SttFail(c)
    PROVE  LET s == stream[c]  i == frame[c].sess  after == frame[c].after IN
           /\ s \in Streams /\ i \in DOMAIN sessions /\ sessions[i].stream = s
           /\ after \in {"loop", "stop", "drop"}
           /\ \/ /\ sessions[i].state = "ended" \/ frame[c].utt = 0
                 /\ Returned(c, after, sessions, repo, connections)
              \/ /\ sessions[i].state # "ended"
                 /\ Returned(c, after, WithMode(i, "listening"), [repo EXCEPT ![s] = i],
                             connections)
  <1> DEFINE s == stream[c]  i == frame[c].sess  after == frame[c].after
  <1>1. CallTypes /\ TaskTypes
    BY TypesSplit
  <1>2. pc[c] = "stt" /\ s \in Streams /\ i \in DOMAIN sessions /\ sessions[i].stream = s
    BY DEF SttEnd, SttFail, Frames, FrameOf, Busy
  <1>3. after \in {"loop", "stop", "drop"}
    BY <1>1 DEF TaskTypes, Frame
  <1>4. CASE /\ sessions[i].state = "ended" \/ frame[c].utt = 0
             /\ Resume(c, after, sessions, repo, vad, connections)
    <2>1. Returned(c, after, sessions, repo, connections)
      BY <1>1, <1>2, <1>3, <1>4, ResumeStep DEF CallTypes
    <2> QED  BY <1>2, <1>3, <1>4, <2>1
  <1>5. CASE /\ sessions[i].state # "ended"
             /\ Resume(c, after, [sessions EXCEPT ![i].mode = "listening"],
                       [repo EXCEPT ![s] = i], vad, connections)
    <2>1. /\ WithMode(i, "listening") \in Seq(SessionRecord)
          /\ Len(WithMode(i, "listening")) = Len(sessions)
      BY <1>1, <1>2, ModeStep DEF CallTypes
    <2>2. [repo EXCEPT ![s] = i] \in [Streams -> 0 .. Len(WithMode(i, "listening"))]
      BY <1>1, <1>2, <2>1 DEF CallTypes
    <2>3. Resume(c, after, WithMode(i, "listening"), [repo EXCEPT ![s] = i], vad, connections)
      BY <1>5 DEF WithMode
    <2>4. Returned(c, after, WithMode(i, "listening"), [repo EXCEPT ![s] = i], connections)
      BY <1>1, <1>2, <1>3, <2>1, <2>2, <2>3, ResumeStep DEF CallTypes
    <2> QED  BY <1>2, <1>3, <1>5, <2>4
  <1> QED  BY <1>4, <1>5 DEF SttEnd, SttFail

\* A session set to another mode, in the repository or not, by a task of its stream.
LEMMA ModeTypes ==
    ASSUME CallTypes, NEW i \in DOMAIN sessions, NEW s \in Streams,
           NEW m \in {"listening", "thinking", "speaking"},
           sessions' = WithMode(i, m), repo' = [repo EXCEPT ![s] = i],
           UNCHANGED <<connections, vad>>
    PROVE  CallTypes' /\ SessionsKept(sessions, sessions')
  <1>1. /\ WithMode(i, m) \in Seq(SessionRecord) /\ Len(WithMode(i, m)) = Len(sessions)
        /\ SessionsKept(sessions, WithMode(i, m))
    BY ModeStep DEF CallTypes
  <1>2. repo' \in [Streams -> 0 .. Len(sessions)]
    BY DEF CallTypes
  <1> QED  BY <1>1, <1>2 DEF CallTypes

\* Every step keeps the types, the sessions and their streams.
LEMMA TypesNext ==
    ASSUME PipelineTypes, Frames, OwnSession, [Next]_vars
    PROVE  PipelineTypes' /\ SessionsKept(sessions, sessions')
  <1>0. CallTypes /\ TaskTypes
    BY TypesSplit
  <1>1. ASSUME NEW c \in Conns, Connect(c) \/ Abandon(c) \/ Close(c)
        PROVE  PipelineTypes' /\ SessionsKept(sessions, sessions')
    <2>1. TaskTypes'
      BY <1>0, <1>1 DEF TaskTypes, Connect, Negotiate, Abandon, Close, Phases
    <2>2. UNCHANGED calls
      BY <1>1 DEF Connect, Abandon, Close
    <2>3. CallTypes'
      BY <1>0, <2>2 DEF CallTypes, calls
    <2> QED  BY <2>1, <2>2, <2>3, TypesSplitNext, SessionsUnchanged DEF calls
  <1>2. ASSUME NEW c \in Conns, NEW s \in Streams, Start(c, s)
        PROVE  PipelineTypes' /\ SessionsKept(sessions, sessions')
    <2>1. TaskTypes'
      BY <1>0, <1>2 DEF TaskTypes, Start, Negotiate
    <2>2. AcceptCall(s, sampleRate') /\ sampleRate' \in Rates
      BY <2>1, <1>2 DEF Start, TaskTypes
    <2>3. /\ sessions' \in Seq(SessionRecord) /\ Len(sessions') <= MaxSessions
          /\ repo' \in [Streams -> 0 .. Len(sessions')]
          /\ SessionsKept(sessions, sessions')
      BY <1>0, <2>2, AcceptStep
    <2>4. CallTypes'
      BY <1>0, <1>2, <2>3 DEF CallTypes, Start
    <2> QED  BY <2>1, <2>3, <2>4, TypesSplitNext
  <1>3. ASSUME NEW c \in Conns, NEW i \in SessionIds, NEW loud \in BOOLEAN,
               \/ MediaRefused(c, i, loud) \/ MediaBuffered(c, i, loud)
               \/ MediaFlushed(c, i, loud)
        PROVE  PipelineTypes' /\ SessionsKept(sessions, sessions')
    <2>1. MediaFor(c, i) /\ stream[c] \in Streams /\ i \in DOMAIN sessions
      BY <1>0, <1>3 DEF MediaRefused, MediaBuffered, MediaFlushed, MediaFor, CallTypes,
                        TaskTypes
    <2>2. /\ Taken(i, loud) \in Seq(SessionRecord) /\ Len(Taken(i, loud)) = Len(sessions)
          /\ SessionsKept(sessions, Taken(i, loud))
          /\ Detected(i, loud) \in Seq(SessionRecord)
          /\ Len(Detected(i, loud)) = Len(sessions)
          /\ SessionsKept(sessions, Detected(i, loud))
      BY <2>1, ChunkStep
    <2>3. CASE /\ sessions' \in {Taken(i, loud), Detected(i, loud)}
               /\ vad' \in [Streams -> BOOLEAN]
               /\ UNCHANGED <<pc, frame, repo, connections, sampleRate, recent, stream, rate,
                              lastUtt, asker, heard>>
      <3>1. CallTypes'
        BY <1>0, <2>2, <2>3 DEF CallTypes
      <3>2. TaskTypes'
        BY <1>0, <2>3 DEF TaskTypes
      <3> QED  BY <2>2, <2>3, <3>1, <3>2, TypesSplitNext
    <2>4. CASE /\ Transcribe(c, "loop", i, Taken(i, loud))
               /\ vad' \in [Streams -> BOOLEAN]
               /\ UNCHANGED <<repo, connections, sampleRate, recent, stream, rate,
                              lastUtt, asker, heard>>
      <3>1. Started(c, "loop", i, Taken(i, loud))
        BY <2>1, <2>2, <2>4, TranscribeStep
      <3>2. connections' \in [Streams -> Conns \cup {None}]
        BY <1>0, <2>4 DEF CallTypes
      <3>3. PipelineTypes'
        BY <2>1, <2>2, <2>4, <3>1, <3>2, StartedTypes
      <3>4. SessionsKept(sessions, sessions')
        BY <2>2, <3>1 DEF SessionsKept, Started
      <3> QED  BY <3>3, <3>4
    <2>5. /\ vad' \in [Streams -> BOOLEAN]
          /\ UNCHANGED <<repo, connections, sampleRate, recent, stream, rate, lastUtt, asker,
                         heard>>
      BY <1>0, <1>3, <2>1 DEF MediaRefused, MediaBuffered, MediaFlushed, CallTypes
    <2> QED  BY <1>3, <2>3, <2>4, <2>5 DEF MediaRefused, MediaBuffered, MediaFlushed
  <1>4. ASSUME NEW c \in Conns, Clear(c)
        PROVE  PipelineTypes' /\ SessionsKept(sessions, sessions')
    <2> DEFINE i == repo[stream[c]]
    <2>1. stream[c] \in Streams /\ vad' \in [Streams -> BOOLEAN] /\ i \in 0 .. Len(sessions)
      BY <1>0, <1>4 DEF Clear, CallTypes, TaskTypes
    <2>2. sessions' \in Seq(SessionRecord) /\ Len(sessions') = Len(sessions)
          /\ SessionsKept(sessions, sessions')
      <3>1. CASE UNCHANGED sessions
        BY <1>0, <3>1, SessionsUnchanged DEF CallTypes
      <3>2. CASE Live(i, sessions) /\ sessions' = WithUtts(i, {})
        <4>1. i \in DOMAIN sessions /\ {} \in SUBSET Utts
          BY <1>0, <2>1, <3>2 DEF Live, CallTypes
        <4>2. /\ WithUtts(i, {}) \in Seq(SessionRecord)
              /\ Len(WithUtts(i, {})) = Len(sessions)
              /\ SessionsKept(sessions, WithUtts(i, {}))
          BY <1>0, <4>1, UttsStep DEF CallTypes
        <4> QED  BY <3>2, <4>2
      <3> QED  BY <1>4, <3>1, <3>2 DEF Clear, WithUtts
    <2>3. CallTypes'
      BY <1>0, <1>4, <2>1, <2>2 DEF Clear, CallTypes
    <2>4. TaskTypes'
      BY <1>0, <1>4 DEF Clear, TaskTypes
    <2> QED  BY <2>2, <2>3, <2>4, TypesSplitNext
  <1>5. ASSUME NEW c \in Conns, Stop(c) \/ Disconnect(c)
        PROVE  PipelineTypes' /\ SessionsKept(sessions, sessions')
    <2>1. /\ stream[c] \in Streams
          /\ UNCHANGED <<sampleRate, recent, stream, rate, lastUtt, asker, heard>>
      BY <1>0, <1>5 DEF Stop, Disconnect, TaskTypes
    <2>2. PICK after \in {"stop", "drop"}, cn \in [Streams -> Conns \cup {None}] :
             Finalize(c, after, cn)
      BY <1>0, <1>5 DEF Stop, Disconnect, CallTypes
    <2>3. CASE Returned(c, after, sessions, repo, cn)
      <3>1. PipelineTypes'
        BY <2>1, <2>3, ReturnedTypes
      <3> QED  BY <2>3, <3>1 DEF Returned
    <2>4. CASE /\ repo[stream[c]] \in DOMAIN sessions
               /\ Started(c, after, repo[stream[c]], sessions)
               /\ vad' \in [Streams -> BOOLEAN] /\ connections' = cn /\ repo' = repo
      <3>1. PipelineTypes'
        BY <2>1, <2>4, StartedTypes
      <3> QED  BY <2>4, <3>1 DEF Started
    <2> QED  BY <2>1, <2>2, <2>3, <2>4, FinalizeStep
  <1>6. ASSUME NEW c \in Conns, NEW t \in Texts, Utterance(c, t)
        PROVE  PipelineTypes' /\ SessionsKept(sessions, sessions')
    <2> DEFINE s == stream[c]  i == frame[c].sess  u == lastUtt + 1
    <2>1. s \in Streams /\ i \in DOMAIN sessions /\ u \in Utts /\ u \in 0 .. MaxUtts
      BY <1>0, <1>6, Bounds DEF Utterance, Frames, FrameOf, Busy, Utts, TaskTypes
    <2>2. sessions[i] \in SessionRecord
      BY <1>0, <2>1 DEF CallTypes
    <2>3. sessions[i].utts \cup {u} \in SUBSET Utts
      BY <2>1, <2>2 DEF SessionRecord
    <2>4. sessions' = WithUtts(i, sessions[i].utts \cup {u})
      BY <1>6 DEF Utterance, WithUtts
    <2>5. /\ sessions' \in Seq(SessionRecord) /\ Len(sessions') = Len(sessions)
          /\ SessionsKept(sessions, sessions')
      BY <1>0, <2>1, <2>3, <2>4, UttsStep DEF CallTypes
    <2>6. CallTypes'
      BY <1>0, <1>6, <2>5 DEF CallTypes, Utterance
    <2>7. repo[s] \in 0 .. MaxSessions
      BY <1>0, <2>1, Bounds DEF CallTypes
    <2>8. frame' \in [Conns -> Frame]
      <3> DEFINE f == [frame[c] EXCEPT !.utt = u, !.text = t, !.held = repo[s], !.segs = 0]
      <3>1. frame[c] \in Frame
        BY <1>0 DEF TaskTypes
      <3>2. f \in Frame
        BY <2>1, <2>7, <3>1, FrameOfUtterance
      <3>3. frame' = [frame EXCEPT ![c] = f]
        BY <1>6 DEF Utterance
      <3> QED  BY <1>0, <3>2, <3>3 DEF TaskTypes
    <2>9. TaskTypes'
      BY <1>0, <1>6, <2>1, <2>8 DEF TaskTypes, Utterance, Phases, Busy
    <2> QED  BY <2>5, <2>6, <2>9, TypesSplitNext
  <1>7. ASSUME NEW c \in Conns, SttEnd(c) \/ SttFail(c)
        PROVE  PipelineTypes' /\ SessionsKept(sessions, sessions')
    <2> DEFINE s == stream[c]  i == frame[c].sess  after == frame[c].after
    <2>1. UNCHANGED <<sampleRate, recent, stream, rate, lastUtt, asker, heard>>
      BY <1>7 DEF SttEnd, SttFail
    <2>2. s \in Streams /\ i \in DOMAIN sessions
      BY <1>7, SttStep
    <2>3. CASE Returned(c, after, sessions, repo, connections)
      <3>1. PipelineTypes'
        BY <2>1, <2>2, <2>3, ReturnedTypes
      <3> QED  BY <2>3, <3>1 DEF Returned
    <2>4. CASE Returned(c, after, WithMode(i, "listening"), [repo EXCEPT ![s] = i],
                        connections)
      <3>1. /\ Len(WithMode(i, "listening")) = Len(sessions)
            /\ SessionsKept(sessions, WithMode(i, "listening"))
        BY <1>0, <2>2, ModeStep DEF CallTypes
      <3>0. DOMAIN WithMode(i, "listening") = DOMAIN sessions
        BY DEF WithMode
      <3>2. PipelineTypes'
        BY <2>1, <2>2, <2>4, <3>1, ReturnedTypes
      <3>3. SessionsKept(sessions, sessions')
        BY <2>4, <3>0, <3>1 DEF Returned, SessionsKept
      <3> QED  BY <3>2, <3>3
    <2> QED  BY <1>7, <2>3, <2>4, SttStep
  <1>8. ASSUME NEW c \in Conns, LlmAnswer(c) \/ TtsEnd(c)
        PROVE  PipelineTypes' /\ SessionsKept(sessions, sessions')
    <2> DEFINE s == stream[c]  h == frame[c].held
    <2>1. s \in Streams /\ h \in DOMAIN sessions /\ frame[c].text \in Texts
      BY <1>8 DEF LlmAnswer, TtsEnd, Frames, FrameOf, Busy
    <2>2. TaskTypes'
      BY <1>0, <1>8, <2>1 DEF TaskTypes, LlmAnswer, TtsEnd, PipelineOver, Phases, Busy
    <2>3. CASE \E m \in {"listening", "speaking"} :
                  sessions' = WithMode(h, m) /\ repo' = [repo EXCEPT ![s] = h]
      <3>1. CallTypes' /\ SessionsKept(sessions, sessions')
        BY <1>0, <1>8, <2>1, <2>3, ModeTypes DEF LlmAnswer, TtsEnd
      <3> QED  BY <2>2, <3>1, TypesSplitNext
    <2>4. CASE UNCHANGED sessions /\ repo' \in {repo, [repo EXCEPT ![s] = h]}
      <3>1. CallTypes'
        BY <1>0, <1>8, <2>1, <2>4 DEF CallTypes, LlmAnswer, TtsEnd
      <3> QED  BY <2>2, <2>4, <3>1, TypesSplitNext, SessionsUnchanged
    <2> QED  BY <1>8, <2>3, <2>4 DEF LlmAnswer, TtsEnd, WithMode
  <1>9. ASSUME NEW c \in Conns, LlmFail(c) \/ TtsFail(c)
        PROVE  PipelineTypes' /\ SessionsKept(sessions, sessions')
    <2>1. stream[c] \in Streams /\ frame[c].text \in Texts
      BY <1>9 DEF LlmFail, TtsFail, Frames, FrameOf, Busy
    <2>2. TaskTypes'
      BY <1>0, <1>9, <2>1 DEF TaskTypes, LlmFail, TtsFail, PipelineOver, Phases, Busy
    <2>3. CallTypes'
      BY <1>0, <1>9 DEF CallTypes, LlmFail, TtsFail, calls
    <2> QED  BY <1>9, <2>2, <2>3, TypesSplitNext, SessionsUnchanged DEF LlmFail, TtsFail, calls
  <1>10. ASSUME NEW c \in Conns, TtsSegment(c)
         PROVE  PipelineTypes' /\ SessionsKept(sessions, sessions')
    <2> DEFINE socket == connections[stream[c]]
               f == [frame[c] EXCEPT !.segs = @ + 1, !.socket = socket]
    <2>1. socket \in Conns \cup {None}
      BY <1>0, <1>10 DEF TtsSegment, Frames, FrameOf, Busy, CallTypes
    <2>2. frame[c] \in Frame /\ frame[c].segs < MaxSegs
      BY <1>0, <1>10 DEF TaskTypes, TtsSegment
    <2>3. f \in Frame
      BY <2>1, <2>2, FrameOfSegment
    <2>4. frame' = [frame EXCEPT ![c] = f]
      BY <1>10 DEF TtsSegment
    <2>5. TaskTypes'
      BY <1>0, <1>10, <2>3, <2>4 DEF TaskTypes, TtsSegment, Phases, Busy
    <2>6. CallTypes'
      BY <1>0, <1>10 DEF CallTypes, TtsSegment, calls
    <2> QED  BY <1>10, <2>5, <2>6, TypesSplitNext, SessionsUnchanged DEF TtsSegment, calls
  <1>11. ASSUME NEW c \in Conns, Send(c)
         PROVE  PipelineTypes' /\ SessionsKept(sessions, sessions')
    <2>1. frame[c].socket \in Conns /\ frame[c].utt # 0 /\ frame[c].utt \in 0 .. MaxUtts
      BY <1>0, <1>11 DEF Send, Frames, FrameOf, TaskTypes, Frame
    <2>2. frame[c].utt \in Utts
      BY <2>1, Bounds DEF Utts
    <2>3. TaskTypes'
      BY <1>0, <1>11, <2>1, <2>2 DEF TaskTypes, Send, Phases, Busy
    <2>4. CallTypes'
      BY <1>0, <1>11 DEF CallTypes, Send, calls
    <2> QED  BY <1>11, <2>3, <2>4, TypesSplitNext, SessionsUnchanged DEF Send, calls
  <1>12. ASSUME NEW s \in Streams, WindowOver(s)
         PROVE  PipelineTypes' /\ SessionsKept(sessions, sessions')
    <2>1. TaskTypes' /\ CallTypes'
      BY <1>0, <1>12 DEF TaskTypes, CallTypes, WindowOver, calls
    <2> QED  BY <1>12, <2>1, TypesSplitNext, SessionsUnchanged DEF WindowOver, calls
  <1>13. CASE UNCHANGED vars
    <2>1. TaskTypes' /\ CallTypes'
      BY <1>0, <1>13 DEF TaskTypes, CallTypes, vars
    <2> QED  BY <1>13, <2>1, TypesSplitNext, SessionsUnchanged DEF vars
  <1>14. ASSUME NEW c \in Conns, Receive(c) \/ Work(c)
         PROVE  PipelineTypes' /\ SessionsKept(sessions, sessions')
    BY <1>14, <1>1, <1>2, <1>3, <1>4, <1>5, <1>6, <1>7, <1>8, <1>9, <1>10, <1>11
       DEF Receive, Work, Media
  <1> QED  BY <1>12, <1>13, <1>14 DEF Next

-----------------------------------------------------------------------------
(* The steps, seen by a task and by a session *)

\* The bodies of a connection's actions, in groups that change the same things.
Reading(c) == Connect(c) \/ Abandon(c) \/ Close(c)
Chunk(c, i, loud) == MediaRefused(c, i, loud) \/ MediaBuffered(c, i, loud)
                     \/ MediaFlushed(c, i, loud)
Hangup(c) == Stop(c) \/ Disconnect(c)
SttOver(c) == SttEnd(c) \/ SttFail(c)
Answering(c) == LlmAnswer(c) \/ TtsEnd(c)
Failing(c) == LlmFail(c) \/ TtsFail(c)

\* A step is one of these.
LEMMA Cases ==
    ASSUME [Next]_vars
    PROVE  \/ \E c \in Conns :
                 \/ Reading(c) \/ \E s \in Streams : Start(c, s)
                 \/ \E i \in SessionIds, loud \in BOOLEAN : Chunk(c, i, loud)
                 \/ Clear(c) \/ Hangup(c) \/ \E t \in Texts : Utterance(c, t)
                 \/ SttOver(c) \/ Answering(c) \/ Failing(c) \/ TtsSegment(c) \/ Send(c)
           \/ \E s \in Streams : WindowOver(s)
           \/ UNCHANGED vars
  BY DEF Next, Receive, Work, Media, Reading, Chunk, Hangup, SttOver, Answering, Failing

\* The locals of the other tasks are their own.
OthersKept(c) ==
    \A d \in Conns \ {c} : pc'[d] = pc[d] /\ frame'[d] = frame[d] /\ stream'[d] = stream[d]

\* A chunk at most marks its session; an utterance that it completes is transcribed.
LEMMA MediaStep ==
    ASSUME PipelineTypes, NEW c \in Conns, NEW i \in SessionIds, NEW loud \in BOOLEAN,
           Chunk(c, i, loud)
    PROVE  /\ pc[c] = "loop" /\ stream[c] \in Streams /\ i = repo[stream[c]]
           /\ i \in DOMAIN sessions
           /\ UNCHANGED <<sampleRate, repo, connections, recent, stream, rate, lastUtt, asker,
                          heard>>
           /\ DOMAIN sessions' = DOMAIN sessions
           /\ \A j \in DOMAIN sessions : /\ sessions'[j].state = sessions[j].state
                                         /\ sessions'[j].stream = sessions[j].stream
           /\ \/ /\ UNCHANGED <<pc, frame>>
                 /\ \A j \in DOMAIN sessions : sessions'[j].mode \in {sessions[j].mode, "listening"}
              \/ /\ Begun(c, "loop", i)
                 /\ sessions[i].state # "ended" /\ sessions'[i].mode = "thinking"
                 /\ \A j \in DOMAIN sessions \ {i} :
                       sessions'[j].mode \in {sessions[j].mode, "listening"}
  <1>0. CallTypes /\ TaskTypes
    BY TypesSplit
  <1>1. /\ pc[c] = "loop" /\ stream[c] \in Streams /\ i = repo[stream[c]]
        /\ i \in DOMAIN sessions
    BY <1>0 DEF Chunk, MediaRefused, MediaBuffered, MediaFlushed, MediaFor, CallTypes,
                TaskTypes
  <1>2. UNCHANGED <<sampleRate, repo, connections, recent, stream, rate, lastUtt, asker, heard>>
    BY DEF Chunk, MediaRefused, MediaBuffered, MediaFlushed
  <1>3. ASSUME NEW new \in {Detected(i, loud), Taken(i, loud)}
        PROVE  /\ new \in Seq(SessionRecord) /\ Len(new) = Len(sessions)
               /\ SessionsKept(sessions, new)
               /\ \A j \in DOMAIN sessions :
                     /\ new[j].state = sessions[j].state
                     /\ new[j].stream = sessions[j].stream
                     /\ new[j].mode \in {sessions[j].mode, "listening"}
    BY <1>1, ChunkStep DEF SessionsKept
  <1>4. CASE sessions' \in {Detected(i, loud), Taken(i, loud)} /\ UNCHANGED <<pc, frame>>
    <2>1. DOMAIN sessions' = DOMAIN sessions
      BY <1>4 DEF Detected, Taken
    <2> QED  BY <1>1, <1>2, <1>3, <1>4, <2>1
  <1>5. CASE Accepts(i) /\ Transcribe(c, "loop", i, Taken(i, loud))
    <2>1. /\ Taken(i, loud) \in Seq(SessionRecord) /\ Len(Taken(i, loud)) = Len(sessions)
          /\ \A j \in DOMAIN sessions :
                /\ Taken(i, loud)[j].state = sessions[j].state
                /\ Taken(i, loud)[j].stream = sessions[j].stream
                /\ Taken(i, loud)[j].mode \in {sessions[j].mode, "listening"}
      BY <1>3
    <2>2. DOMAIN Taken(i, loud) = DOMAIN sessions
      BY DEF Taken
    <2>3. Started(c, "loop", i, Taken(i, loud))
      BY <1>1, <1>5, <2>1, <2>2, TranscribeStep
    <2>4. DOMAIN sessions' = DOMAIN sessions /\ Begun(c, "loop", i)
      BY <1>5 DEF Transcribe, Taken, Begun
    <2>5. Taken(i, loud)[i] \in SessionRecord
      BY <1>1, <2>1, <2>2
    <2>6. \A j \in DOMAIN sessions :
             /\ sessions'[j].state = Taken(i, loud)[j].state
             /\ sessions'[j].stream = Taken(i, loud)[j].stream
             /\ sessions'[j].mode = IF j = i THEN "thinking" ELSE Taken(i, loud)[j].mode
      BY <2>2, <2>3, <2>5 DEF Started, SessionRecord
    <2>7. sessions[i].state # "ended"
      BY <1>5 DEF Accepts
    <2>8. /\ \A j \in DOMAIN sessions : /\ sessions'[j].state = sessions[j].state
                                        /\ sessions'[j].stream = sessions[j].stream
          /\ sessions'[i].mode = "thinking"
          /\ \A j \in DOMAIN sessions \ {i} :
                sessions'[j].mode \in {sessions[j].mode, "listening"}
      BY <1>1, <2>1, <2>6
    <2> QED  BY <1>1, <1>2, <2>4, <2>7, <2>8
  <1> QED  BY <1>4, <1>5 DEF Chunk, MediaRefused, MediaBuffered, MediaFlushed

\* An answer makes its session speak, its end makes it listen, unless it has ended.
LEMMA AnswerStep ==
    ASSUME PipelineTypes, Frames, NEW c \in Conns, Answering(c)
    PROVE  LET s == stream[c]  i == frame[c].sess IN
           /\ pc[c] \in {"llm", "tts"} /\ s \in Streams /\ i \in DOMAIN sessions
           /\ frame[c].utt # 0 /\ sessions[i].stream = s
           /\ pc' = [pc EXCEPT ![c] = pc'[c]] /\ pc'[c] \in {"tts", "stt"}
           /\ UNCHANGED <<sampleRate, connections, vad, stream, rate, frame, lastUtt, asker,
                          heard>>
           /\ repo' \in {repo, [repo EXCEPT ![s] = i]}
           /\ DOMAIN sessions' = DOMAIN sessions
           /\ \A j \in DOMAIN sessions : /\ sessions'[j].state = sessions[j].state
                                         /\ sessions'[j].stream = sessions[j].stream
           /\ \A j \in DOMAIN sessions \ {i} : sessions'[j].mode = sessions[j].mode
           /\ sessions[i].state = "ended" => sessions'[i].mode = sessions[i].mode
  <1> DEFINE s == stream[c]  i == frame[c].sess
  <1>0. CallTypes /\ TaskTypes
    BY TypesSplit
  <1>1. /\ pc[c] \in {"llm", "tts"} /\ s \in Streams /\ i \in DOMAIN sessions
        /\ frame[c].utt # 0 /\ sessions[i].stream = s /\ frame[c].held = i
    BY DEF Answering, LlmAnswer, TtsEnd, Frames, FrameOf, Busy
  <1>2. /\ pc' = [pc EXCEPT ![c] = pc'[c]] /\ pc'[c] \in {"tts", "stt"}
        /\ UNCHANGED <<sampleRate, connections, vad, stream, rate, frame, lastUtt, asker,
                       heard>>
    BY <1>0 DEF Answering, LlmAnswer, TtsEnd, PipelineOver, TaskTypes
  <1>3. repo' \in {repo, [repo EXCEPT ![s] = i]}
    BY <1>1 DEF Answering, LlmAnswer, TtsEnd
  <1>4. CASE UNCHANGED sessions
    BY <1>1, <1>2, <1>3, <1>4
  <1>5. CASE /\ sessions[i].state # "ended"
             /\ \E m \in {"listening", "speaking"} : sessions' = WithMode(i, m)
    <2>1. PICK m \in {"listening", "speaking"} : sessions' = WithMode(i, m)
      BY <1>5
    <2>2. DOMAIN sessions' = DOMAIN sessions
      BY <2>1 DEF WithMode
    <2>3. /\ \A j \in DOMAIN sessions \ {i} : sessions'[j] = sessions[j]
          /\ sessions'[i].state = sessions[i].state
          /\ sessions'[i].stream = sessions[i].stream
      BY <1>0, <1>1, <2>1, ModeStep DEF CallTypes
    <2>5. /\ \A j \in DOMAIN sessions : /\ sessions'[j].state = sessions[j].state
                                        /\ sessions'[j].stream = sessions[j].stream
          /\ \A j \in DOMAIN sessions \ {i} : sessions'[j].mode = sessions[j].mode
      BY <2>3
    <2> QED  BY <1>1, <1>2, <1>3, <1>5, <2>2, <2>5
  <1> QED  BY <1>1, <1>4, <1>5 DEF Answering, LlmAnswer, TtsEnd, WithMode

\* A returning task ends the session its stream maps to, or leaves all as they are.
LEMMA ReturnedSessions ==
    ASSUME NEW c \in Conns, NEW after, NEW ss \in Seq(SessionRecord), NEW rp, NEW cn,
           Returned(c, after, ss, rp, cn)
    PROVE  /\ DOMAIN sessions' = DOMAIN ss
           /\ \A j \in DOMAIN ss :
                 \/ sessions'[j].state = ss[j].state /\ sessions'[j].mode = ss[j].mode
                 \/ sessions'[j].state = "ended" /\ sessions'[j].mode = "listening"
           /\ \A j \in DOMAIN ss : sessions'[j].mode \in {ss[j].mode, "listening"}
  <1>1. DOMAIN sessions' = DOMAIN ss
    BY DEF Returned
  <1>2. \A j \in DOMAIN ss : Ended(ss[j]).state = "ended" /\ Ended(ss[j]).mode = "listening"
    <2>1. \A j \in DOMAIN ss : ss[j] \in SessionRecord
      OBVIOUS
    <2> QED  BY <2>1 DEF Ended, SessionRecord
  <1>3. ResumeCall(stream[c], after, ss, rp)
    BY DEF Returned
  <1> QED  BY <1>1, <1>2, <1>3 DEF ResumeCall

\* What a starting task does to them.
LEMMA StartedSessions ==
    ASSUME NEW c \in Conns, NEW after, NEW ss \in Seq(SessionRecord), NEW i \in DOMAIN ss,
           Started(c, after, i, ss)
    PROVE  /\ DOMAIN sessions' = DOMAIN ss
           /\ \A j \in DOMAIN ss :
                 /\ sessions'[j].stream = ss[j].stream /\ sessions'[j].state = ss[j].state
                 /\ sessions'[j].mode = IF j = i THEN "thinking" ELSE ss[j].mode
  <1>1. ss[i] \in SessionRecord /\ DOMAIN sessions' = DOMAIN ss
    BY DEF Started
  <1> QED  BY <1>1 DEF Started, SessionRecord

\* How a connection that stops or is lost hands over.
LEMMA HangupStep ==
    ASSUME PipelineTypes, NEW c \in Conns, Hangup(c)
    PROVE  /\ pc[c] = "loop" /\ stream[c] \in Streams
           /\ UNCHANGED <<sampleRate, recent, stream, rate, lastUtt, asker, heard>>
           /\ \E after \in {"stop", "drop"}, cn \in [Streams -> Conns \cup {None}] :
                 /\ cn = IF after = "stop" THEN connections
                                           ELSE [connections EXCEPT ![stream[c]] = None]
                 /\ Stop(c) => after = "stop"
                 /\ \/ /\ Live(repo[stream[c]], sessions) /\ repo[stream[c]] \in DOMAIN sessions
                       /\ Started(c, after, repo[stream[c]], sessions)
                       /\ vad' \in [Streams -> BOOLEAN] /\ connections' = cn /\ repo' = repo
                    \/ Returned(c, after, sessions, repo, cn)
  <1>0. CallTypes /\ TaskTypes
    BY TypesSplit
  <1>1. /\ pc[c] = "loop" /\ stream[c] \in Streams
        /\ UNCHANGED <<sampleRate, recent, stream, rate, lastUtt, asker, heard>>
    BY <1>0 DEF Hangup, Stop, Disconnect, TaskTypes
  <1>2. CASE Stop(c)
    <2>1. Finalize(c, "stop", connections) /\ connections \in [Streams -> Conns \cup {None}]
      BY <1>0, <1>2 DEF Stop, CallTypes
    <2> QED  BY <1>1, <1>2, <2>1, FinalizeStep
  <1>3. CASE Disconnect(c) /\ ~Stop(c)
    <2> DEFINE cn == [connections EXCEPT ![stream[c]] = None]
    <2>1. Finalize(c, "drop", cn) /\ cn \in [Streams -> Conns \cup {None}]
      BY <1>0, <1>3 DEF Disconnect, CallTypes
    <2> QED  BY <1>1, <1>3, <2>1, FinalizeStep
  <1> QED  BY <1>2, <1>3 DEF Hangup

\* Utterances come and go without the mode or the state of a session.
LEMMA UttsOnly ==
    ASSUME PipelineTypes, Frames, NEW c \in Conns,
           Clear(c) \/ \E t \in Texts : Utterance(c, t)
    PROVE  /\ DOMAIN sessions' = DOMAIN sessions /\ UNCHANGED <<repo, connections, stream, heard>>
           /\ \A j \in DOMAIN sessions : /\ sessions'[j].mode = sessions[j].mode
                                         /\ sessions'[j].state = sessions[j].state
                                         /\ sessions'[j].stream = sessions[j].stream
  <1>0. CallTypes /\ TaskTypes
    BY TypesSplit
  <1>1. CASE Clear(c)
    <2> DEFINE i == repo[stream[c]]
    <2>1. CASE UNCHANGED sessions
      BY <1>1, <2>1 DEF Clear
    <2>2. CASE Live(i, sessions) /\ sessions' = WithUtts(i, {})
      <3>1. i \in DOMAIN sessions /\ {} \in SUBSET Utts
        BY <1>0, <1>1, <2>2 DEF Clear, Live, CallTypes, TaskTypes
      <3>2. DOMAIN sessions' = DOMAIN sessions
        BY <2>2 DEF WithUtts
      <3> QED  BY <1>0, <1>1, <2>2, <3>1, <3>2, UttsStep DEF Clear, CallTypes
    <2> QED  BY <1>1, <2>1, <2>2 DEF Clear, WithUtts
  <1>2. ASSUME NEW t \in Texts, Utterance(c, t)
        PROVE  /\ DOMAIN sessions' = DOMAIN sessions
               /\ UNCHANGED <<repo, connections, stream, heard>>
               /\ \A j \in DOMAIN sessions : /\ sessions'[j].mode = sessions[j].mode
                                             /\ sessions'[j].state = sessions[j].state
                                             /\ sessions'[j].stream = sessions[j].stream
    <2> DEFINE i == frame[c].sess  us == sessions[i].utts \cup {lastUtt + 1}
    <2>0. pc[c] = "stt" /\ lastUtt < MaxUtts
      BY <1>2 DEF Utterance
    <2>1. i \in DOMAIN sessions
      BY <2>0 DEF Frames, FrameOf, Busy
    <2>2. us \in SUBSET Utts
      <3>1. lastUtt + 1 \in Utts
        BY <1>0, <2>0, Bounds DEF Utts, TaskTypes
      <3>2. sessions[i] \in SessionRecord
        BY <1>0, <2>1 DEF CallTypes
      <3> QED  BY <3>1, <3>2 DEF SessionRecord
    <2>3. sessions' = WithUtts(i, us)
      BY <1>2 DEF Utterance, WithUtts
    <2>4. DOMAIN sessions' = DOMAIN sessions
      BY <2>3 DEF WithUtts
    <2>5. UNCHANGED <<repo, connections, stream, heard>>
      BY <1>2 DEF Utterance
    <2> HIDE DEF us
    <2> QED  BY <1>0, <2>1, <2>2, <2>3, <2>4, <2>5, UttsStep DEF CallTypes
  <1> QED  BY <1>1, <1>2

-----------------------------------------------------------------------------
(* The invariant of every instance *)

\* The locals of other tasks are not touched.
LEMMA OthersNext ==
    ASSUME PipelineTypes, Frames, NEW c \in Conns,
           \/ Reading(c) \/ \E s \in Streams : Start(c, s)
           \/ \E i \in SessionIds, loud \in BOOLEAN : Chunk(c, i, loud)
           \/ Clear(c) \/ Hangup(c) \/ \E t \in Texts : Utterance(c, t)
           \/ SttOver(c) \/ Answering(c) \/ Failing(c) \/ TtsSegment(c) \/ Send(c)
    PROVE  OthersKept(c) /\ (stream[c] # None => stream'[c] = stream[c])
  <1>0. TaskTypes
    BY TypesSplit
  <1>1. CASE Reading(c) \/ (\E s \in Streams : Start(c, s)) \/ Clear(c)
    BY <1>0, <1>1 DEF OthersKept, Reading, Connect, Abandon, Close, Start, MayAnnounce, Clear,
                      TaskTypes
  <1>2. ASSUME NEW i \in SessionIds, NEW loud \in BOOLEAN, Chunk(c, i, loud)
        PROVE  OthersKept(c) /\ (stream[c] # None => stream'[c] = stream[c])
    <2>1. /\ stream' = stream
          /\ UNCHANGED <<pc, frame>> \/ Begun(c, "loop", i)
      BY <1>2, MediaStep
    <2> QED  BY <1>0, <2>1 DEF OthersKept, Begun, TaskTypes
  <1>3. CASE Hangup(c)
    <2>1. /\ stream' = stream
          /\ \E after, ss, rp, cn, i : Returned(c, after, ss, rp, cn) \/ Started(c, after, i, ss)
      BY <1>3, HangupStep
    <2> QED  BY <1>0, <2>1 DEF OthersKept, TaskTypes, Returned, Started, Begun
  <1>5. CASE \/ (\E t \in Texts : Utterance(c, t)) \/ TtsSegment(c) \/ Send(c)
    BY <1>0, <1>5 DEF OthersKept, Utterance, TtsSegment, Send, TaskTypes
  <1>6. CASE Answering(c) \/ Failing(c)
    BY <1>0, <1>6 DEF OthersKept, Answering, LlmAnswer, TtsEnd, Failing, LlmFail, TtsFail,
                      PipelineOver, TaskTypes
  <1>4. CASE SttOver(c)
    <2>1. stream' = stream
      BY <1>4 DEF SttOver, SttEnd, SttFail
    <2>2. \E after, ss, rp, cn : Returned(c, after, ss, rp, cn)
      BY <1>4, SttStep DEF SttOver
    <2> QED  BY <1>0, <2>1, <2>2 DEF OthersKept, TaskTypes, Returned
  <1> QED  BY <1>1, <1>2, <1>3, <1>4, <1>5, <1>6

\* A returning task has no locals left.
LEMMA ReturnedFrame ==
    ASSUME PipelineTypes, NEW c \in Conns, NEW after, NEW ss, NEW rp, NEW cn,
           Returned(c, after, ss, rp, cn)
    PROVE  FrameOf(c)' /\ pc'[c] \in {"loop", "closing"} /\ frame'[c] = NoFrame
  <1>0. TaskTypes
    BY TypesSplit
  <1> QED  BY <1>0 DEF Returned, FrameOf, TaskTypes, Busy

\* A task that begins to transcribe holds its session and has no utterance yet.
LEMMA BegunFrame ==
    ASSUME PipelineTypes, NEW c \in Conns, NEW after, NEW i, Begun(c, after, i)
    PROVE  /\ pc'[c] = "stt" /\ frame'[c].after = after /\ frame'[c].sess = i
           /\ frame'[c].utt = 0
  <1>0. TaskTypes
    BY TypesSplit
  <1>1. frame'[c] = [NoFrame EXCEPT !.after = after, !.sess = i] /\ pc'[c] = "stt"
    BY <1>0 DEF Begun, TaskTypes
  <1> QED  BY <1>1 DEF NoFrame

\* A task at work always holds a session of its stream, in the AI pipeline the stored one.
LEMMA FramesNext ==
    ASSUME PipelineTypes, PipelineTypes', Frames, OwnSession, [Next]_vars,
           SessionsKept(sessions, sessions')
    PROVE  Frames'
  <1>0. CallTypes /\ TaskTypes /\ DOMAIN sessions \subseteq DOMAIN sessions'
    BY TypesSplit DEF PipelineTypes, TypeOK, SessionsKept
  <1>1. ASSUME NEW d \in Conns, pc'[d] = pc[d], frame'[d] = frame[d], stream'[d] = stream[d]
        PROVE  FrameOf(d)'
    BY <1>0, <1>1 DEF Frames, FrameOf, SessionsKept
  <1>2. ASSUME NEW c \in Conns, OthersKept(c), FrameOf(c)'
        PROVE  Frames'
    BY <1>1, <1>2 DEF OthersKept, Frames
  <1>3. ASSUME NEW c \in Conns, Reading(c)
        PROVE  FrameOf(c)'
    BY <1>0, <1>3 DEF Reading, Connect, Abandon, Close, Frames, FrameOf, TaskTypes, Busy
  <1>4. ASSUME NEW c \in Conns, NEW s \in Streams, Start(c, s)
        PROVE  FrameOf(c)'
    BY <1>0, <1>4 DEF Start, Frames, FrameOf, TaskTypes, Busy
  <1>5. ASSUME NEW c \in Conns, Clear(c)
        PROVE  FrameOf(c)'
    BY <1>0, <1>1, <1>5 DEF Clear
  <1>6. ASSUME NEW c \in Conns, NEW i \in SessionIds, NEW loud \in BOOLEAN, Chunk(c, i, loud)
        PROVE  FrameOf(c)'
    <2>1. /\ stream' = stream /\ stream[c] \in Streams /\ i \in DOMAIN sessions
          /\ i = repo[stream[c]] /\ i # 0
          /\ UNCHANGED <<pc, frame>> \/ Begun(c, "loop", i)
      BY <1>6, MediaStep DEF SessionIds
    <2>2. CASE UNCHANGED <<pc, frame>>
      BY <1>1, <2>1, <2>2
    <2>3. CASE Begun(c, "loop", i)
      <3>1. sessions[i].stream = stream[c] /\ sessions'[i].stream = stream[c]
        BY <2>1 DEF OwnSession, SessionsKept
      <3>2. frame'[c].sess = i /\ pc'[c] = "stt" /\ i \in DOMAIN sessions'
        BY <1>0, <2>1, <2>3 DEF Begun, TaskTypes, NoFrame
      <3> QED  BY <2>1, <3>1, <3>2 DEF FrameOf, Busy
    <2> QED  BY <2>1, <2>2, <2>3
  <1>7. ASSUME NEW c \in Conns, Hangup(c)
        PROVE  FrameOf(c)'
    <2> DEFINE i == repo[stream[c]]
    <2>1. stream'[c] = stream[c] /\ stream[c] \in Streams
      BY <1>7, HangupStep
    <2>2. PICK after \in {"stop", "drop"}, cn \in [Streams -> Conns \cup {None}] :
             \/ Live(i, sessions) /\ i \in DOMAIN sessions /\ Started(c, after, i, sessions)
             \/ Returned(c, after, sessions, repo, cn)
      BY <1>7, HangupStep
    <2>3. CASE Live(i, sessions) /\ i \in DOMAIN sessions /\ Started(c, after, i, sessions)
      <3>1. sessions[i].stream = stream[c]
        BY <2>1, <2>3 DEF Live, OwnSession
      <3> QED  BY <1>0, <2>1, <2>3, <3>1 DEF FrameOf, TaskTypes, Busy, SessionsKept, NoFrame,
                                             Started, Begun
    <2> QED  BY <2>2, <2>3, ReturnedFrame
  <1>8. ASSUME NEW c \in Conns, NEW t \in Texts, Utterance(c, t)
        PROVE  FrameOf(c)'
    <2>1. pc[c] = "stt" /\ FrameOf(c)
      BY <1>8 DEF Utterance, Frames
    <2>2. /\ stream' = stream /\ pc'[c] \in {"stt", "llm"}
          /\ frame'[c].sess = frame[c].sess /\ frame'[c].held = repo[stream[c]]
          /\ frame'[c].utt = lastUtt + 1 /\ frame'[c].text = t
          /\ pc'[c] = "llm" => repo[stream[c]] = frame[c].sess
      BY <1>0, <1>8 DEF Utterance, TaskTypes, Frame
    <2> QED  BY <1>0, <2>1, <2>2 DEF FrameOf, Busy, SessionsKept, TaskTypes
  <1>9. ASSUME NEW c \in Conns, SttOver(c)
        PROVE  FrameOf(c)'
    BY <1>9, SttStep, ReturnedFrame DEF SttOver
  <1>10. ASSUME NEW c \in Conns, Answering(c) \/ Failing(c) \/ Send(c)
         PROVE  FrameOf(c)'
    <2>1. /\ UNCHANGED <<stream, frame>> /\ pc[c] \in {"llm", "tts", "send"}
          /\ pc'[c] \in {"stt", "tts"}
      BY <1>0, <1>10 DEF Answering, LlmAnswer, TtsEnd, Failing, LlmFail, TtsFail, PipelineOver,
                         Send, TaskTypes
    <2> QED  BY <1>0, <2>1 DEF Frames, FrameOf, Busy, SessionsKept
  <1>11. ASSUME NEW c \in Conns, TtsSegment(c)
         PROVE  FrameOf(c)'
    <2>1. pc[c] = "tts" /\ FrameOf(c) /\ stream[c] \in Streams
      BY <1>11 DEF TtsSegment, Frames, FrameOf, Busy
    <2>2. /\ UNCHANGED <<stream, sessions>> /\ frame'[c].sess = frame[c].sess
          /\ frame'[c].held = frame[c].held /\ frame'[c].utt = frame[c].utt
          /\ frame'[c].text = frame[c].text /\ frame'[c].socket = connections[stream[c]]
          /\ pc'[c] = IF connections[stream[c]] = None THEN "tts" ELSE "send"
      BY <1>0, <1>11 DEF TtsSegment, TaskTypes, Frame, calls
    <2> QED  BY <1>0, <2>1, <2>2 DEF FrameOf, Busy, CallTypes
  <1>12. CASE UNCHANGED vars \/ \E s \in Streams : WindowOver(s)
    <2>1. UNCHANGED <<pc, frame, stream>>
      BY <1>12 DEF vars, WindowOver
    <2> QED  BY <1>1, <2>1 DEF Frames
  <1> QED  BY <1>2, <1>3, <1>4, <1>5, <1>6, <1>7, <1>8, <1>9, <1>10, <1>11, <1>12, Cases,
              OthersNext

\* Sessions that keep stream, state and mode, in a step of actions that do not touch calls.
CallsOnly(c) == Reading(c) \/ Failing(c) \/ TtsSegment(c) \/ Send(c)

\* The repository never maps a stream to a session of another one.
LEMMA OwnSessionNext ==
    ASSUME PipelineTypes, PipelineTypes', Frames, OwnSession, [Next]_vars,
           SessionsKept(sessions, sessions')
    PROVE  OwnSession'
  <1>0. CallTypes /\ TaskTypes /\ CallTypes' /\ DOMAIN sessions = 1 .. Len(sessions)
    <2>1. CallTypes /\ CallTypes' /\ TaskTypes
      BY TypesSplit, PTL
    <2> QED  BY <2>1 DEF CallTypes
  <1>1. ASSUME NEW s \in Streams, repo'[s] \in {0, repo[s]}
        PROVE  repo'[s] # 0 => sessions'[repo'[s]].stream = s
    <2> SUFFICES ASSUME repo'[s] # 0 PROVE sessions'[repo'[s]].stream = s
      OBVIOUS
    <2>1. repo'[s] = repo[s] /\ repo[s] # 0
      BY <1>1
    <2>2. repo[s] \in DOMAIN sessions
      BY <1>0, <2>1 DEF CallTypes
    <2> QED  BY <2>1, <2>2 DEF OwnSession, SessionsKept
  <1>2. ASSUME NEW c \in Conns, stream[c] \in Streams, frame[c].sess \in DOMAIN sessions,
               sessions[frame[c].sess].stream = stream[c],
               repo' \in {repo, [repo EXCEPT ![stream[c]] = frame[c].sess],
                          [repo EXCEPT ![stream[c]] = 0]}
        PROVE  OwnSession'
    <2>1. \A s \in Streams : \/ repo'[s] \in {0, repo[s]}
                             \/ s = stream[c] /\ repo'[s] = frame[c].sess
      BY <1>0, <1>2 DEF CallTypes
    <2>2. sessions'[frame[c].sess].stream = stream[c]
      BY <1>2 DEF SessionsKept
    <2> QED  BY <1>1, <2>1, <2>2 DEF OwnSession
  <1>3. ASSUME UNCHANGED repo
        PROVE  OwnSession'
    BY <1>1, <1>3 DEF OwnSession
  <1>4. ASSUME NEW c \in Conns, NEW s \in Streams, Start(c, s)
        PROVE  OwnSession'
    <2>1. AcceptCall(s, sampleRate') /\ sampleRate' \in Rates
      BY <1>0, <1>4 DEF Start, Negotiate, TaskTypes
    <2>2. CASE UNCHANGED <<sessions, repo>>
      BY <2>2 DEF OwnSession
    <2>3. CASE /\ repo' = [repo EXCEPT ![s] = Len(sessions) + 1]
               /\ sessions'[Len(sessions) + 1] = Session(s, sampleRate')
      <3>1. sessions'[Len(sessions) + 1].stream = s
        BY <2>3 DEF Session
      <3>2. \A t \in Streams : IF t = s THEN repo'[t] = Len(sessions) + 1 ELSE repo'[t] = repo[t]
        BY <1>0, <2>3 DEF CallTypes
      <3> QED  BY <1>1, <3>1, <3>2 DEF OwnSession
    <2> QED  BY <1>0, <2>1, <2>2, <2>3, AcceptStep
  <1>5. ASSUME NEW c \in Conns, Hangup(c)
        PROVE  OwnSession'
    <2>1. stream[c] \in Streams
      BY <1>5, HangupStep
    <2>2. UNCHANGED repo \/ \E after, cn : Returned(c, after, sessions, repo, cn)
      BY <1>5, HangupStep
    <2>3. UNCHANGED repo \/ \A s \in Streams : repo'[s] \in {0, repo[s]}
      BY <1>0, <2>1, <2>2 DEF Returned, ResumeCall, CallTypes
    <2> QED  BY <1>1, <1>3, <2>3 DEF OwnSession
  <1>6. ASSUME NEW c \in Conns, SttOver(c)
        PROVE  OwnSession'
    <2> DEFINE s == stream[c]  i == frame[c].sess
    <2>1. s \in Streams /\ i \in DOMAIN sessions /\ sessions[i].stream = s
      BY <1>6, SttStep DEF SttOver
    <2>2. \E after, ss, cn : Returned(c, after, ss, repo, cn)
                             \/ Returned(c, after, ss, [repo EXCEPT ![s] = i], cn)
      BY <1>6, SttStep DEF SttOver
    <2>3. repo' \in {repo, [repo EXCEPT ![s] = i], [repo EXCEPT ![s] = 0]}
      <3>1. repo' = repo \/ repo' = [repo EXCEPT ![s] = 0] \/ repo' = [repo EXCEPT ![s] = i]
            \/ repo' = [[repo EXCEPT ![s] = i] EXCEPT ![s] = 0]
        BY <2>2 DEF Returned, ResumeCall
      <3>2. [[repo EXCEPT ![s] = i] EXCEPT ![s] = 0] = [repo EXCEPT ![s] = 0]
        BY <1>0 DEF CallTypes
      <3> QED  BY <3>1, <3>2
    <2> QED  BY <1>2, <2>1, <2>3
  <1>7. ASSUME NEW c \in Conns, Answering(c)
        PROVE  OwnSession'
    <2> DEFINE s == stream[c]  i == frame[c].sess
    <2>1. s \in Streams /\ i \in DOMAIN sessions /\ sessions[i].stream = s
          /\ frame[c].held = i
      BY <1>7 DEF Answering, LlmAnswer, TtsEnd, Frames, FrameOf, Busy
    <2>2. repo' \in {repo, [repo EXCEPT ![s] = i]}
      BY <1>7, <2>1 DEF Answering, LlmAnswer, TtsEnd
    <2> QED  BY <1>2, <2>1, <2>2
  <1>8. ASSUME NEW c \in Conns, NEW i \in SessionIds, NEW loud \in BOOLEAN, Chunk(c, i, loud)
        PROVE  OwnSession'
    BY <1>3, <1>8, MediaStep
  <1>9. ASSUME NEW c \in Conns, CallsOnly(c) \/ Clear(c) \/ \E t \in Texts : Utterance(c, t)
        PROVE  OwnSession'
    <2>1. UNCHANGED repo
      BY <1>9 DEF CallsOnly, Reading, Connect, Abandon, Close, Failing, LlmFail, TtsFail, TtsSegment,
                  Send, Clear, Utterance, calls
    <2> QED  BY <1>3, <2>1
  <1>10. CASE UNCHANGED vars \/ \E s \in Streams : WindowOver(s)
    <2>1. UNCHANGED repo
      BY <1>10 DEF vars, WindowOver, calls
    <2> QED  BY <1>3, <2>1
  <1> QED  BY <1>4, <1>5, <1>6, <1>7, <1>8, <1>9, <1>10, Cases DEF CallsOnly

\* A registered socket is the one of a connection that serves the stream.
LEMMA RegisteredNext ==
    ASSUME PipelineTypes, Frames, RegisteredIsOpen, [Next]_vars
    PROVE  RegisteredIsOpen'
  <1>0. CallTypes /\ TaskTypes /\ None \notin Conns /\ None \notin Streams
    BY TypesSplit, PipelineAssumption
  <1>1. ASSUME NEW c \in Conns, OthersKept(c),
               \A s \in Streams : connections'[s] = connections[s] \/ connections'[s] = None
                                  \/ connections'[s] = c,
               \A s \in Streams : connections'[s] = c =>
                    IsOpen(c)' /\ stream'[c] = s /\ frame'[c].after # "drop"
        PROVE  RegisteredIsOpen'
    BY <1>0, <1>1 DEF RegisteredIsOpen, IsOpen, OthersKept, CallTypes
  <1>2. ASSUME NEW c \in Conns, OthersKept(c), UNCHANGED connections, stream'[c] = stream[c],
               \/ pc'[c] \notin {"new", "closing", "closed"} /\ frame'[c].after = frame[c].after
               \/ \A s \in Streams : connections[s] # c
        PROVE  RegisteredIsOpen'
    <2>1. \A s \in Streams : connections'[s] = connections[s]
      BY <1>2
    <2>2. CASE \A s \in Streams : connections[s] # c
      BY <1>1, <1>2, <2>1, <2>2
    <2>3. CASE /\ pc'[c] \notin {"new", "closing", "closed"}
               /\ frame'[c].after = frame[c].after
      <3>1. \A s \in Streams : connections'[s] = c =>
               IsOpen(c)' /\ stream'[c] = s /\ frame'[c].after # "drop"
        BY <1>0, <1>2, <2>1, <2>3 DEF RegisteredIsOpen, IsOpen
      <3> QED  BY <1>1, <1>2, <2>1, <3>1
    <2> QED  BY <1>2, <2>2, <2>3
  <1>3. ASSUME NEW c \in Conns, Reading(c), OthersKept(c)
        PROVE  RegisteredIsOpen'
    <2>1. UNCHANGED <<connections, stream>>
      BY <1>3 DEF Reading, Connect, Abandon, Close, calls
    <2>2. pc[c] \in {"new", "closing"} \/ stream[c] = None
      BY <1>3 DEF Reading, Connect, Abandon, Close
    <2>3. \A s \in Streams : connections[s] # c
      BY <1>0, <2>2 DEF RegisteredIsOpen, IsOpen
    <2> QED  BY <1>2, <1>3, <2>1, <2>3
  <1>4. ASSUME NEW c \in Conns, NEW s \in Streams, Start(c, s), OthersKept(c)
        PROVE  RegisteredIsOpen'
    <2>1. /\ pc'[c] = "loop" /\ stream'[c] = s /\ frame'[c] = NoFrame /\ stream[c] = None
          /\ connections' = [connections EXCEPT ![s] = c]
      BY <1>0, <1>4 DEF Start, MayAnnounce, TaskTypes, Frames, FrameOf, Busy
    <2>2. \A t \in Streams : connections[t] # c
      BY <1>0, <2>1 DEF RegisteredIsOpen
    <2>3. \A t \in Streams : IF t = s THEN connections'[t] = c ELSE connections'[t] = connections[t]
      BY <1>0, <2>1 DEF CallTypes
    <2> QED  BY <1>1, <1>4, <2>1, <2>2, <2>3 DEF IsOpen, NoFrame
  <1>5. ASSUME NEW c \in Conns, NEW i \in SessionIds, NEW loud \in BOOLEAN, Chunk(c, i, loud),
               OthersKept(c)
        PROVE  RegisteredIsOpen'
    <2>1. /\ UNCHANGED <<connections, stream>> /\ pc[c] = "loop"
          /\ UNCHANGED <<pc, frame>> \/ Begun(c, "loop", i)
      BY <1>5, MediaStep
    <2>2. frame[c].after = "loop"
      <3>1. frame[c] = NoFrame
        BY <2>1 DEF Frames, FrameOf, Busy
      <3> QED  BY <3>1 DEF NoFrame
    <2>3. pc'[c] \in {"loop", "stt"} /\ frame'[c].after = "loop"
      BY <2>1, <2>2, BegunFrame
    <2> QED  BY <1>2, <1>5, <2>1, <2>2, <2>3
  <1>6. ASSUME NEW c \in Conns, Hangup(c), OthersKept(c)
        PROVE  RegisteredIsOpen'
    <2> DEFINE s == stream[c]
    <2>1. s \in Streams /\ stream' = stream /\ pc[c] = "loop"
      BY <1>6, HangupStep
    <2>2. PICK after \in {"stop", "drop"}, cn \in [Streams -> Conns \cup {None}] :
             /\ cn = IF after = "stop" THEN connections ELSE [connections EXCEPT ![s] = None]
             /\ \/ (\E i : Started(c, after, i, sessions)) /\ connections' = cn
                \/ Returned(c, after, sessions, repo, cn)
      BY <1>6, HangupStep
    <2>3. CASE after = "stop" /\ connections' = cn /\ \E i : Begun(c, after, i)
      <3>1. pc'[c] = "stt" /\ frame'[c].after = "stop"
        BY <1>0, <2>3 DEF Begun, TaskTypes, NoFrame
      <3>2. connections' = connections
        BY <2>2, <2>3
      <3>3. \A t \in Streams : connections'[t] = c =>
               IsOpen(c)' /\ stream'[c] = t /\ frame'[c].after # "drop"
        BY <1>0, <2>1, <3>1, <3>2 DEF RegisteredIsOpen, IsOpen
      <3> QED  BY <1>1, <1>6, <3>2, <3>3
    <2>4. CASE connections' = [connections EXCEPT ![s] = None]
      <3>1. \A t \in Streams : connections'[t] = IF t = s THEN None ELSE connections[t]
        BY <1>0, <2>4 DEF CallTypes
      <3>2. \A t \in Streams : connections'[t] # c
        BY <1>0, <2>1, <3>1 DEF RegisteredIsOpen
      <3> QED  BY <1>1, <1>6, <3>1, <3>2
    <2> QED  BY <2>2, <2>3, <2>4 DEF Started, Returned
  <1>7. ASSUME NEW c \in Conns, SttOver(c), OthersKept(c)
        PROVE  RegisteredIsOpen'
    <2> DEFINE s == stream[c]  after == frame[c].after
    <2>1. s \in Streams /\ stream' = stream /\ after \in {"loop", "stop", "drop"}
      BY <1>7, SttStep DEF SttOver, SttEnd, SttFail
    <2>2. \E ss, rp : Returned(c, after, ss, rp, connections)
      BY <1>7, SttStep DEF SttOver
    <2>3. CASE after = "stop"
      <3>1. connections' = [connections EXCEPT ![s] = None]
        BY <2>2, <2>3 DEF Returned
      <3>2. \A t \in Streams : connections'[t] = IF t = s THEN None ELSE connections[t]
        BY <1>0, <3>1 DEF CallTypes
      <3>3. \A t \in Streams : connections'[t] # c
        BY <1>0, <2>1, <3>2 DEF RegisteredIsOpen
      <3> QED  BY <1>1, <1>7, <3>2, <3>3
    <2>4. CASE after = "drop"
      <3>1. UNCHANGED connections
        BY <2>2, <2>4 DEF Returned
      <3>2. \A t \in Streams : connections[t] # c
        BY <1>0, <2>4 DEF RegisteredIsOpen
      <3> QED  BY <1>2, <1>7, <2>1, <3>1, <3>2
    <2>5. CASE after = "loop"
      <3>1. UNCHANGED connections /\ pc'[c] = "loop" /\ frame'[c].after = "loop"
        BY <1>0, <2>2, <2>5 DEF Returned, TaskTypes, NoFrame
      <3> QED  BY <1>2, <1>7, <2>1, <2>5, <3>1
    <2> QED  BY <2>1, <2>3, <2>4, <2>5
  <1>8. ASSUME NEW c \in Conns, OthersKept(c),
               \/ Clear(c) \/ (\E t \in Texts : Utterance(c, t)) \/ Answering(c) \/ Failing(c)
               \/ TtsSegment(c) \/ Send(c)
        PROVE  RegisteredIsOpen'
    <2>1. UNCHANGED <<connections, stream>>
      BY <1>8 DEF Clear, Utterance, Answering, LlmAnswer, TtsEnd, Failing, LlmFail, TtsFail,
                  TtsSegment, Send, calls
    <2>2. pc'[c] \in {"loop", "stt", "llm", "tts", "send"}
      <3>1. CASE Clear(c)
        BY <3>1 DEF Clear
      <3>2. CASE \E t \in Texts : Utterance(c, t)
        BY <1>0, <3>2 DEF Utterance, TaskTypes
      <3>3. CASE Answering(c) \/ Failing(c) \/ TtsSegment(c) \/ Send(c)
        BY <1>0, <3>3 DEF Answering, LlmAnswer, TtsEnd, Failing, LlmFail, TtsFail,
                          PipelineOver, TtsSegment, Send, TaskTypes
      <3> QED  BY <1>8, <3>1, <3>2, <3>3
    <2>3. frame'[c].after = frame[c].after
      <3>1. CASE Clear(c) \/ Answering(c) \/ Failing(c) \/ Send(c)
        BY <3>1 DEF Clear, Answering, LlmAnswer, TtsEnd, Failing, LlmFail, TtsFail, Send
      <3>2. CASE (\E t \in Texts : Utterance(c, t)) \/ TtsSegment(c)
        <4>1. frame[c] \in Frame
          BY <1>0 DEF TaskTypes
        <4>2. CASE \E t \in Texts : Utterance(c, t)
          BY <1>0, <4>1, <4>2 DEF Utterance, TaskTypes, Frame
        <4>3. CASE TtsSegment(c)
          BY <1>0, <4>1, <4>3 DEF TtsSegment, TaskTypes, Frame
        <4> QED  BY <3>2, <4>2, <4>3
      <3> QED  BY <1>8, <3>1, <3>2
    <2> QED  BY <1>2, <1>8, <2>1, <2>2, <2>3
  <1>9. CASE UNCHANGED vars \/ \E s \in Streams : WindowOver(s)
    <2>1. UNCHANGED <<connections, stream, frame, pc>>
      BY <1>9 DEF vars, WindowOver, calls
    <2> QED  BY <2>1 DEF RegisteredIsOpen, IsOpen
  <1> QED  BY <1>3, <1>4, <1>5, <1>6, <1>7, <1>8, <1>9, Cases, OthersNext

\* An ended session is never set to thinking or speaking again.
LEMMA QuietNext ==
    ASSUME PipelineTypes, PipelineTypes', Frames, EndedStaysQuiet, [Next]_vars
    PROVE  EndedStaysQuiet'
  <1>0. CallTypes /\ TaskTypes
    BY TypesSplit
  <1>1. ASSUME DOMAIN sessions' = DOMAIN sessions,
               \A j \in DOMAIN sessions :
                  sessions'[j].state = "ended" =>
                    \/ sessions'[j].mode = "listening"
                    \/ sessions[j].state = "ended" /\ sessions'[j].mode = sessions[j].mode
        PROVE  EndedStaysQuiet'
    BY <1>1 DEF EndedStaysQuiet
  <1>2. ASSUME NEW c \in Conns, NEW s \in Streams, Start(c, s)
        PROVE  EndedStaysQuiet'
    <2>1. AcceptCall(s, sampleRate') /\ sampleRate' \in Rates
      BY <1>0, <1>2 DEF Start, Negotiate, TaskTypes
    <2>2. CASE UNCHANGED sessions
      BY <2>2 DEF EndedStaysQuiet
    <2>3. CASE /\ DOMAIN sessions' = DOMAIN sessions \cup {Len(sessions) + 1}
               /\ sessions'[Len(sessions) + 1] = Session(s, sampleRate')
               /\ \A i \in DOMAIN sessions : sessions'[i] = sessions[i]
      BY <2>3 DEF EndedStaysQuiet, Session
    <2> QED  BY <1>0, <2>1, <2>2, <2>3, AcceptStep
  <1>3. ASSUME NEW c \in Conns, NEW i \in SessionIds, NEW loud \in BOOLEAN, Chunk(c, i, loud)
        PROVE  EndedStaysQuiet'
    <2>1. /\ DOMAIN sessions' = DOMAIN sessions
          /\ \A j \in DOMAIN sessions : sessions'[j].state = sessions[j].state
          /\ \/ \A j \in DOMAIN sessions : sessions'[j].mode \in {sessions[j].mode, "listening"}
             \/ /\ sessions[i].state # "ended"
                /\ \A j \in DOMAIN sessions \ {i} :
                      sessions'[j].mode \in {sessions[j].mode, "listening"}
      BY <1>3, MediaStep
    <2> QED  BY <1>1, <2>1
  <1>4. ASSUME NEW c \in Conns, Hangup(c)
        PROVE  EndedStaysQuiet'
    <2> DEFINE i == repo[stream[c]]
    <2>1. PICK after \in {"stop", "drop"}, cn \in [Streams -> Conns \cup {None}] :
             \/ Live(i, sessions) /\ i \in DOMAIN sessions /\ Started(c, after, i, sessions)
             \/ Returned(c, after, sessions, repo, cn)
      BY <1>4, HangupStep
    <2>2. CASE Live(i, sessions) /\ i \in DOMAIN sessions /\ Started(c, after, i, sessions)
      <3>1. /\ DOMAIN sessions' = DOMAIN sessions
            /\ \A j \in DOMAIN sessions :
                  /\ sessions'[j].state = sessions[j].state
                  /\ sessions'[j].mode = IF j = i THEN "thinking" ELSE sessions[j].mode
        <4>1. sessions \in Seq(SessionRecord) /\ i \in DOMAIN sessions /\ Started(c, after, i, sessions)
          BY <1>0, <2>2 DEF CallTypes
        <4> HIDE DEF i
        <4> QED  BY <4>1, StartedSessions
      <3>2. sessions[i].state # "ended"
        BY <2>2 DEF Live
      <3> QED  BY <1>1, <3>1, <3>2
    <2>3. CASE Returned(c, after, sessions, repo, cn)
      <3>1. /\ DOMAIN sessions' = DOMAIN sessions
            /\ \A j \in DOMAIN sessions :
                  \/ sessions'[j].state = sessions[j].state /\ sessions'[j].mode = sessions[j].mode
                  \/ sessions'[j].mode = "listening"
        BY <1>0, <2>3, ReturnedSessions DEF CallTypes
      <3> QED  BY <1>1, <3>1
    <2> QED  BY <2>1, <2>2, <2>3
  <1>5. ASSUME NEW c \in Conns, SttOver(c)
        PROVE  EndedStaysQuiet'
    <2> DEFINE s == stream[c]  i == frame[c].sess  after == frame[c].after
    <2>1. s \in Streams /\ i \in DOMAIN sessions
      BY <1>5, SttStep DEF SttOver
    <2>2. CASE Returned(c, after, sessions, repo, connections)
      <3>1. /\ DOMAIN sessions' = DOMAIN sessions
            /\ \A j \in DOMAIN sessions :
                  \/ sessions'[j].state = sessions[j].state /\ sessions'[j].mode = sessions[j].mode
                  \/ sessions'[j].mode = "listening"
        BY <1>0, <2>2, ReturnedSessions DEF CallTypes
      <3> QED  BY <1>1, <3>1
    <2>3. CASE Returned(c, after, WithMode(i, "listening"), [repo EXCEPT ![s] = i], connections)
      <3> DEFINE ss == WithMode(i, "listening")
      <3>1. /\ ss \in Seq(SessionRecord) /\ Len(ss) = Len(sessions) /\ DOMAIN ss = DOMAIN sessions
            /\ \A j \in DOMAIN sessions \ {i} : ss[j] = sessions[j]
            /\ ss[i].mode = "listening" /\ ss[i].state = sessions[i].state
        <4>1. DOMAIN ss = DOMAIN sessions
          BY DEF WithMode
        <4> QED  BY <1>0, <2>1, <4>1, ModeStep DEF CallTypes
      <3>2. [repo EXCEPT ![s] = i] \in [Streams -> 0 .. Len(ss)]
        BY <1>0, <2>1, <3>1 DEF CallTypes
      <3>3. Returned(c, after, ss, [repo EXCEPT ![s] = i], connections)
        BY <2>3
      <3> HIDE DEF ss
      <3>4. /\ DOMAIN sessions' = DOMAIN ss
            /\ \A j \in DOMAIN ss :
                  \/ sessions'[j].state = ss[j].state /\ sessions'[j].mode = ss[j].mode
                  \/ sessions'[j].mode = "listening"
        BY <3>1, <3>2, <3>3, ReturnedSessions
      <3> QED  BY <1>1, <3>1, <3>4
    <2> QED  BY <1>5, <2>2, <2>3, SttStep DEF SttOver
  <1>6. ASSUME NEW c \in Conns, Answering(c)
        PROVE  EndedStaysQuiet'
    <2>1. /\ DOMAIN sessions' = DOMAIN sessions
          /\ \A j \in DOMAIN sessions :
                /\ sessions'[j].state = sessions[j].state
                /\ sessions[j].state = "ended" => sessions'[j].mode = sessions[j].mode
      BY <1>6, AnswerStep
    <2> QED  BY <1>1, <2>1
  <1>7. ASSUME NEW c \in Conns, Clear(c) \/ \E t \in Texts : Utterance(c, t)
        PROVE  EndedStaysQuiet'
    BY <1>1, <1>7, UttsOnly
  <1>8. ASSUME NEW c \in Conns, CallsOnly(c)
        PROVE  EndedStaysQuiet'
    <2>1. UNCHANGED sessions
      BY <1>8 DEF CallsOnly, Reading, Connect, Abandon, Close, Failing, LlmFail, TtsFail,
                  TtsSegment, Send, calls
    <2> QED  BY <2>1 DEF EndedStaysQuiet
  <1>9. CASE UNCHANGED vars \/ \E s \in Streams : WindowOver(s)
    <2>1. UNCHANGED sessions
      BY <1>9 DEF vars, WindowOver, calls
    <2> QED  BY <2>1 DEF EndedStaysQuiet
  <1> QED  BY <1>2, <1>3, <1>4, <1>5, <1>6, <1>7, <1>8, <1>9, Cases DEF CallsOnly

\* A task that leaves its work leaves its session listening, whatever failed.
LEMMA SpeakerNext ==
    ASSUME PipelineTypes, PipelineTypes', Frames, EndedStaysQuiet, SpeakerHasUtterance, [Next]_vars
    PROVE  SpeakerHasUtterance'
  <1>0. CallTypes /\ TaskTypes
    BY TypesSplit
  <1> DEFINE Speaks(d, i) == pc[d] \in Busy /\ frame[d].sess = i /\ frame[d].utt # 0
  <1>1. ASSUME NEW c \in Conns, OthersKept(c), DOMAIN sessions' = DOMAIN sessions,
               \A j \in DOMAIN sessions : sessions'[j].mode = "speaking" =>
                  \/ Speaks(c, j)'
                  \/ sessions[j].mode = "speaking" /\ ~Speaks(c, j)
        PROVE  SpeakerHasUtterance'
    <2> SUFFICES ASSUME NEW j \in DOMAIN sessions, sessions'[j].mode = "speaking", ~Speaks(c, j)'
                 PROVE  \E d \in Conns : Speaks(d, j)'
      BY <1>1 DEF SpeakerHasUtterance
    <2>1. PICK d \in Conns : Speaks(d, j)
      BY <1>1 DEF SpeakerHasUtterance
    <2>2. d # c
      BY <1>1, <2>1
    <2> QED  BY <1>1, <2>1, <2>2 DEF OthersKept
  <1>2. ASSUME NEW c \in Conns, OthersKept(c), DOMAIN sessions' = DOMAIN sessions,
               \A j \in DOMAIN sessions : sessions'[j].mode = "speaking" =>
                                              sessions[j].mode = "speaking",
               pc[c] \in Busy => /\ pc'[c] \in Busy /\ frame'[c].sess = frame[c].sess
                                 /\ frame[c].utt # 0 => frame'[c].utt # 0
        PROVE  SpeakerHasUtterance'
    BY <1>1, <1>2
  <1>3. ASSUME NEW c \in Conns, NEW s \in Streams, Start(c, s), OthersKept(c)
        PROVE  SpeakerHasUtterance'
    <2>1. AcceptCall(s, sampleRate') /\ sampleRate' \in Rates /\ UNCHANGED <<pc, frame>>
      BY <1>0, <1>3 DEF Start, Negotiate, TaskTypes
    <2>2. CASE UNCHANGED sessions
      BY <2>1, <2>2 DEF SpeakerHasUtterance
    <2>3. CASE /\ DOMAIN sessions' = DOMAIN sessions \cup {Len(sessions) + 1}
               /\ sessions'[Len(sessions) + 1] = Session(s, sampleRate')
               /\ \A i \in DOMAIN sessions : sessions'[i] = sessions[i]
      BY <2>1, <2>3 DEF SpeakerHasUtterance, Session
    <2> QED  BY <1>0, <2>1, <2>2, <2>3, AcceptStep
  <1>4. ASSUME NEW c \in Conns, NEW i \in SessionIds, NEW loud \in BOOLEAN, Chunk(c, i, loud),
               OthersKept(c)
        PROVE  SpeakerHasUtterance'
    <2>1. /\ DOMAIN sessions' = DOMAIN sessions /\ pc[c] = "loop"
          /\ \/ \A j \in DOMAIN sessions : sessions'[j].mode \in {sessions[j].mode, "listening"}
             \/ /\ sessions'[i].mode = "thinking"
                /\ \A j \in DOMAIN sessions \ {i} :
                      sessions'[j].mode \in {sessions[j].mode, "listening"}
      BY <1>4, MediaStep
    <2> QED  BY <1>2, <1>4, <2>1 DEF Busy
  <1>5. ASSUME NEW c \in Conns, Hangup(c), OthersKept(c)
        PROVE  SpeakerHasUtterance'
    <2> DEFINE i == repo[stream[c]]
    <2>1. PICK after \in {"stop", "drop"}, cn \in [Streams -> Conns \cup {None}] :
             \/ i \in DOMAIN sessions /\ Started(c, after, i, sessions)
             \/ Returned(c, after, sessions, repo, cn)
      BY <1>5, HangupStep
    <2>2. pc[c] = "loop"
      BY <1>5, HangupStep
    <2>3. CASE i \in DOMAIN sessions /\ Started(c, after, i, sessions)
      <3>1. /\ DOMAIN sessions' = DOMAIN sessions
            /\ \A j \in DOMAIN sessions :
                  sessions'[j].mode = IF j = i THEN "thinking" ELSE sessions[j].mode
        BY <1>0, <2>3, StartedSessions DEF CallTypes
      <3> QED  BY <1>2, <1>5, <2>2, <3>1 DEF Busy
    <2>4. CASE Returned(c, after, sessions, repo, cn)
      <3>1. /\ DOMAIN sessions' = DOMAIN sessions
            /\ \A j \in DOMAIN sessions : sessions'[j].mode \in {sessions[j].mode, "listening"}
        BY <1>0, <2>4, ReturnedSessions DEF CallTypes
      <3> QED  BY <1>2, <1>5, <2>2, <3>1 DEF Busy
    <2> QED  BY <2>1, <2>3, <2>4
  <1>6. ASSUME NEW c \in Conns, SttOver(c), OthersKept(c)
        PROVE  SpeakerHasUtterance'
    <2> DEFINE s == stream[c]  i == frame[c].sess  after == frame[c].after
    <2>1. s \in Streams /\ i \in DOMAIN sessions
      BY <1>6, SttStep DEF SttOver
    <2>2. CASE /\ sessions[i].state = "ended" \/ frame[c].utt = 0
               /\ Returned(c, after, sessions, repo, connections)
      <3>1. /\ DOMAIN sessions' = DOMAIN sessions
            /\ \A j \in DOMAIN sessions : sessions'[j].mode \in {sessions[j].mode, "listening"}
        BY <1>0, <2>2, ReturnedSessions DEF CallTypes
      <3>2. sessions[i].mode = "listening" \/ frame[c].utt = 0
        BY <2>1, <2>2 DEF EndedStaysQuiet
      <3> QED  BY <1>1, <1>6, <3>1, <3>2
    <2>3. CASE Returned(c, after, WithMode(i, "listening"), [repo EXCEPT ![s] = i], connections)
      <3> DEFINE ss == WithMode(i, "listening")
      <3>1. /\ ss \in Seq(SessionRecord) /\ Len(ss) = Len(sessions) /\ DOMAIN ss = DOMAIN sessions
            /\ \A j \in DOMAIN sessions \ {i} : ss[j] = sessions[j]
            /\ ss[i].mode = "listening"
        <4>1. DOMAIN ss = DOMAIN sessions
          BY DEF WithMode
        <4> QED  BY <1>0, <2>1, <4>1, ModeStep DEF CallTypes
      <3>2. [repo EXCEPT ![s] = i] \in [Streams -> 0 .. Len(ss)]
        BY <1>0, <2>1, <3>1 DEF CallTypes
      <3>3. Returned(c, after, ss, [repo EXCEPT ![s] = i], connections)
        BY <2>3
      <3> HIDE DEF ss
      <3>4. /\ DOMAIN sessions' = DOMAIN ss
            /\ \A j \in DOMAIN ss : sessions'[j].mode \in {ss[j].mode, "listening"}
        BY <3>1, <3>2, <3>3, ReturnedSessions
      <3> QED  BY <1>1, <1>6, <3>1, <3>4
    <2> QED  BY <1>6, <2>2, <2>3, SttStep DEF SttOver
  <1>7. ASSUME NEW c \in Conns, Answering(c), OthersKept(c)
        PROVE  SpeakerHasUtterance'
    <2> DEFINE i == frame[c].sess
    <2>1. /\ DOMAIN sessions' = DOMAIN sessions /\ i \in DOMAIN sessions
          /\ \A j \in DOMAIN sessions \ {i} : sessions'[j].mode = sessions[j].mode
          /\ pc[c] \in {"llm", "tts"} /\ pc'[c] \in {"tts", "stt"}
          /\ frame[c].utt # 0 /\ frame' = frame
      BY <1>7, AnswerStep
    <2>2. Speaks(c, i)'
      BY <2>1 DEF Busy
    <2>3. \A j \in DOMAIN sessions \ {i} : ~Speaks(c, j)
      OBVIOUS
    <2> QED  BY <1>1, <1>7, <2>1, <2>2, <2>3
  <1>8. ASSUME NEW c \in Conns, Clear(c) \/ (\E t \in Texts : Utterance(c, t)), OthersKept(c)
        PROVE  SpeakerHasUtterance'
    <2>1. CASE Clear(c)
      <3>1. pc[c] = "loop"
        BY <2>1 DEF Clear
      <3> QED  BY <1>2, <1>8, <3>1, UttsOnly DEF Busy
    <2>2. CASE \E t \in Texts : Utterance(c, t)
      <3>1. frame[c] \in Frame
        BY <1>0 DEF TaskTypes
      <3>2. /\ pc'[c] \in Busy /\ frame'[c].sess = frame[c].sess
            /\ frame'[c].utt # 0
        BY <1>0, <2>2, <3>1 DEF Utterance, TaskTypes, Busy, Frame
      <3> QED  BY <1>2, <1>8, <3>2, UttsOnly
    <2> QED  BY <1>8, <2>1, <2>2
  <1>9. ASSUME NEW c \in Conns, CallsOnly(c), OthersKept(c)
        PROVE  SpeakerHasUtterance'
    <2>1. UNCHANGED sessions
      BY <1>9 DEF CallsOnly, Reading, Connect, Abandon, Close, Failing, LlmFail, TtsFail,
                  TtsSegment, Send, calls
    <2>2. CASE Reading(c)
      <3>1. pc[c] \notin Busy
        BY <2>2 DEF Reading, Connect, Abandon, Close, Busy
      <3> QED  BY <1>2, <1>9, <2>1, <3>1
    <2>3. CASE Failing(c) \/ TtsSegment(c) \/ Send(c)
      <3>1. frame[c] \in Frame
        BY <1>0 DEF TaskTypes
      <3>2. /\ pc'[c] \in Busy /\ frame'[c].sess = frame[c].sess
            /\ frame'[c].utt = frame[c].utt
        BY <1>0, <2>3, <3>1 DEF Failing, LlmFail, TtsFail, PipelineOver, TtsSegment, Send,
                                TaskTypes, Busy, Frame
      <3> QED  BY <1>2, <1>9, <2>1, <3>2
    <2> QED  BY <1>9, <2>2, <2>3 DEF CallsOnly
  <1>10. CASE UNCHANGED vars \/ \E s \in Streams : WindowOver(s)
    <2>1. UNCHANGED <<sessions, pc, frame>>
      BY <1>10 DEF vars, WindowOver, calls
    <2> QED  BY <2>1 DEF SpeakerHasUtterance
  <1> QED  BY <1>3, <1>4, <1>5, <1>6, <1>7, <1>8, <1>9, <1>10, Cases, OthersNext DEF CallsOnly

\* The invariant holds of a service without calls.
LEMMA PipelineInvInit == Init => PipelineInv
  <1> SUFFICES ASSUME Init PROVE PipelineInv
    OBVIOUS
  <1>1. CallTypes
    BY Bounds DEF Init, CallTypes
  <1>2. TaskTypes
    <2>1. frame \in [Conns -> Frame]
      BY FrameTypes DEF Init
    <2>2. /\ recent \in [Streams -> Texts \cup {None}] /\ pc \in [Conns -> Phases]
          /\ stream \in [Conns -> Streams \cup {None}] /\ rate \in [Conns -> Rates]
          /\ sampleRate \in Rates
      BY DEF Init, Phases
    <2>3. /\ lastUtt \in 0 .. MaxUtts /\ asker \in [Utts -> Conns \cup {None}]
          /\ heard \in [Conns -> SUBSET Utts]
      BY Bounds DEF Init
    <2> QED  BY <2>1, <2>2, <2>3 DEF TaskTypes
  <1>3. PipelineTypes
    BY <1>1, <1>2, TypesSplit
  <1>4. Frames
    BY DEF Init, Frames, FrameOf, Busy
  <1>5. sessions = <<>> /\ DOMAIN sessions = {}
    BY DEF Init
  <1>6. OwnSession /\ RegisteredIsOpen
    BY DEF Init, OwnSession, RegisteredIsOpen
  <1>7. SpeakerHasUtterance /\ EndedStaysQuiet
    BY <1>5 DEF SpeakerHasUtterance, EndedStaysQuiet
  <1> QED  BY <1>3, <1>4, <1>6, <1>7 DEF PipelineInv

\* Every step preserves it.
LEMMA PipelineInvNext == PipelineInv /\ [Next]_vars => PipelineInv' /\ SessionsKept(sessions, sessions')
  <1> SUFFICES ASSUME PipelineInv, [Next]_vars
               PROVE  PipelineInv' /\ SessionsKept(sessions, sessions')
    OBVIOUS
  <1>1. PipelineTypes' /\ SessionsKept(sessions, sessions')
    BY TypesNext DEF PipelineInv
  <1>2. Frames'
    BY <1>1, FramesNext DEF PipelineInv
  <1>3. OwnSession'
    BY <1>1, OwnSessionNext DEF PipelineInv
  <1>4. RegisteredIsOpen'
    BY RegisteredNext DEF PipelineInv
  <1>5. EndedStaysQuiet'
    BY <1>1, QuietNext DEF PipelineInv
  <1>6. SpeakerHasUtterance'
    BY <1>1, SpeakerNext DEF PipelineInv
  <1> QED  BY <1>1, <1>2, <1>3, <1>4, <1>5, <1>6 DEF PipelineInv

\* So it is an invariant of the service, also when connections of a stream overlap.
LEMMA PipelineInvariant == Spec => []PipelineInv
  BY PipelineInvInit, PipelineInvNext, PTL DEF Spec

\* The service's state keeps its types: in particular the repository only refers to
\* sessions that exist, and a task's references stay within them.
THEOREM PipelineTypesHold == Spec => []TypeOK
  <1>1. PipelineInv => TypeOK
    BY DEF PipelineInv, PipelineTypes
  <1> QED  BY <1>1, PipelineInvariant, PTL

\* Audio is only ever routed to a socket whose task still serves that stream, however
\* many connections announce it and in whatever order they stop, fail and come back.
THEOREM RegisteredSocketIsOpen == Spec => []RegisteredIsOpen
  <1>1. PipelineInv => RegisteredIsOpen
    BY DEF PipelineInv
  <1> QED  BY <1>1, PipelineInvariant, PTL

\* No failure of recognizer, model, synthesis or socket leaves a session speaking
\* without a task that is still working on an utterance of it.
THEOREM NobodySpeaksForNothing == Spec => []SpeakingEnds
  <1>1. PipelineInv => SpeakingEnds
    BY DEF PipelineInv, SpeakerHasUtterance, SpeakingEnds
  <1> QED  BY <1>1, PipelineInvariant, PTL

\* A session ended by 'stop' stays listening, also for tasks that still hold it.
THEOREM EndedIsFinal == Spec => []EndedStaysQuiet
  <1>1. PipelineInv => EndedStaysQuiet
    BY DEF PipelineInv
  <1> QED  BY <1>1, PipelineInvariant, PTL

-----------------------------------------------------------------------------
(* The invariant of calls that do not overlap *)

\* A step of connection c.
StepOf(c) ==
    \/ Reading(c) \/ (\E s \in Streams : Start(c, s))
    \/ (\E i \in SessionIds, loud \in BOOLEAN : Chunk(c, i, loud))
    \/ Clear(c) \/ Hangup(c) \/ (\E t \in Texts : Utterance(c, t))
    \/ SttOver(c) \/ Answering(c) \/ Failing(c) \/ TtsSegment(c) \/ Send(c)

\* A closed connection takes no step, and only its own first announcement gives it a stream.
LEMMA ActingConnection ==
    ASSUME PipelineTypes, Frames, NEW c \in Conns, StepOf(c)
    PROVE  /\ pc[c] # "closed" /\ OthersKept(c) /\ pc'[c] # "new"
           /\ \/ stream'[c] = stream[c]
              \/ \E s \in Streams : Start(c, s) /\ stream'[c] = s /\ stream[c] = None
  <1>0. TaskTypes
    BY TypesSplit
  <1>1. OthersKept(c)
    BY OthersNext DEF StepOf
  <1>2. CASE Reading(c) \/ Clear(c)
    BY <1>0, <1>1, <1>2 DEF Reading, Connect, Abandon, Close, Clear, TaskTypes
  <1>3. CASE \E s \in Streams : Start(c, s)
    BY <1>0, <1>1, <1>3 DEF Start, MayAnnounce, TaskTypes
  <1>4. CASE \E i \in SessionIds, loud \in BOOLEAN : Chunk(c, i, loud)
    <2>1. PICK i \in SessionIds, loud \in BOOLEAN : Chunk(c, i, loud)
      BY <1>4
    <2>2. stream' = stream /\ pc[c] = "loop" /\ (UNCHANGED pc \/ Begun(c, "loop", i))
      BY <2>1, MediaStep
    <2> QED  BY <1>1, <2>2, BegunFrame
  <1>5. CASE Hangup(c)
    <2>1. stream' = stream /\ pc[c] = "loop"
      BY <1>5, HangupStep
    <2>2. \E after, ss, rp, cn, i : Returned(c, after, ss, rp, cn) \/ Started(c, after, i, ss)
      BY <1>5, HangupStep
    <2>3. pc'[c] \in {"loop", "closing", "stt"}
      BY <1>0, <2>2 DEF Returned, Started, Begun, TaskTypes
    <2> QED  BY <1>1, <2>1, <2>3
  <1>6. CASE (\E t \in Texts : Utterance(c, t)) \/ TtsSegment(c) \/ Send(c)
    BY <1>0, <1>1, <1>6 DEF Utterance, TtsSegment, Send, TaskTypes
  <1>7. CASE Answering(c) \/ Failing(c)
    BY <1>0, <1>1, <1>7 DEF Answering, LlmAnswer, TtsEnd, Failing, LlmFail, TtsFail, PipelineOver,
                            TaskTypes
  <1>8. CASE SttOver(c)
    <2>1. stream' = stream /\ pc[c] = "stt"
      BY <1>8 DEF SttOver, SttEnd, SttFail
    <2>2. \E after, ss, rp, cn : Returned(c, after, ss, rp, cn)
      BY <1>8, SttStep DEF SttOver
    <2>3. pc'[c] \in {"loop", "closing"}
      BY <1>0, <2>2 DEF Returned, TaskTypes
    <2> QED  BY <1>1, <2>1, <2>3
  <1> QED  BY <1>2, <1>3, <1>4, <1>5, <1>6, <1>7, <1>8 DEF StepOf

\* A step either is one of a connection or leaves calls and tasks alone.
LEMMA StepCases ==
    ASSUME [Next]_vars
    PROVE  \/ \E c \in Conns : StepOf(c)
           \/ UNCHANGED <<sessions, repo, connections, vad, pc, stream, frame, lastUtt, asker, heard>>
  <1>1. CASE UNCHANGED vars \/ \E s \in Streams : WindowOver(s)
    BY <1>1 DEF vars, WindowOver, calls
  <1> QED  BY <1>1, Cases DEF StepOf

\* A stream is announced again only after its connections are closed.
LEMMA OneOwnerNext ==
    ASSUME ~Overlap, PipelineInv, OneOwner, [Next]_vars
    PROVE  OneOwner'
  <1>0. PipelineTypes /\ Frames /\ TaskTypes
    BY TypesSplit DEF PipelineInv
  <1>1. ASSUME NEW c \in Conns, StepOf(c)
        PROVE  OneOwner'
    <2>1. pc[c] # "closed" /\ OthersKept(c) /\ pc'[c] # "new"
      BY <1>0, <1>1, ActingConnection
    <2>2. CASE stream'[c] = stream[c]
      BY <2>1, <2>2 DEF OneOwner, OthersKept
    <2>3. ASSUME NEW s \in Streams, Start(c, s), stream'[c] = s
          PROVE  OneOwner'
      <3>1. \A d \in Conns : stream[d] = s => pc[d] = "closed"
        BY <2>3 DEF Start, MayAnnounce
      <3> QED  BY <2>1, <2>3, <3>1 DEF OneOwner, OthersKept
    <2> QED  BY <1>0, <1>1, <2>2, <2>3, ActingConnection
  <1>2. CASE UNCHANGED <<pc, stream>>
    BY <1>2 DEF OneOwner
  <1> QED  BY <1>1, <1>2, StepCases

\* What a step can do to the calls: nothing, a new call of s, the end of the call of s.
Same ==
    /\ UNCHANGED repo /\ DOMAIN sessions' = DOMAIN sessions
    /\ \A j \in DOMAIN sessions : /\ sessions'[j].state = sessions[j].state
                                  /\ sessions'[j].stream = sessions[j].stream
Added(s) ==
    LET n == Len(sessions) + 1 IN
    /\ repo[s] = 0 /\ repo' = [repo EXCEPT ![s] = n]
    /\ DOMAIN sessions' = DOMAIN sessions \cup {n}
    /\ sessions'[n].stream = s /\ sessions'[n].state = "active"
    /\ \A j \in DOMAIN sessions : sessions'[j] = sessions[j]
Removed(s) ==
    /\ repo[s] # 0 /\ repo' = [repo EXCEPT ![s] = 0] /\ DOMAIN sessions' = DOMAIN sessions
    /\ \A j \in DOMAIN sessions : /\ sessions'[j].stream = sessions[j].stream
                                  /\ sessions'[j].state =
                                        IF j = repo[s] THEN "ended" ELSE sessions[j].state

\* A returning task ends its call or leaves the calls alone.
LEMMA ReturnedCalls ==
    ASSUME PipelineTypes, NEW c \in Conns, NEW after, NEW ss \in Seq(SessionRecord), NEW cn,
           Returned(c, after, ss, repo, cn), DOMAIN ss = DOMAIN sessions,
           \A j \in DOMAIN sessions : /\ ss[j].state = sessions[j].state
                                      /\ ss[j].stream = sessions[j].stream
    PROVE  Same \/ Removed(stream[c])
  <1>1. ResumeCall(stream[c], after, ss, repo)
    BY DEF Returned
  <1>2. CASE sessions' = ss /\ repo' = repo
    BY <1>2 DEF Same
  <1>3. CASE /\ Live(repo[stream[c]], ss)
             /\ repo' = [repo EXCEPT ![stream[c]] = 0]
             /\ \A j \in DOMAIN ss : sessions'[j] = IF j = repo[stream[c]] THEN Ended(ss[j]) ELSE ss[j]
    <2>1. repo[stream[c]] # 0 /\ DOMAIN sessions' = DOMAIN sessions
      BY <1>3 DEF Live, Returned
    <2>2. \A j \in DOMAIN ss : Ended(ss[j]).state = "ended" /\ Ended(ss[j]).stream = ss[j].stream
      <3>1. \A j \in DOMAIN ss : ss[j] \in SessionRecord
        OBVIOUS
      <3> QED  BY <3>1 DEF Ended, SessionRecord
    <2> QED  BY <1>3, <2>1, <2>2 DEF Removed
  <1> QED  BY <1>1, <1>2, <1>3 DEF ResumeCall

\* These are the three things a step can do.
LEMMA CallSteps ==
    ASSUME PipelineInv, FrameIsStored, NEW c \in Conns, StepOf(c)
    PROVE  \/ Same
           \/ \E s \in Streams : Start(c, s) /\ stream'[c] = s /\ Added(s)
           \/ stream[c] \in Streams /\ stream'[c] = stream[c] /\ Removed(stream[c])
  <1>0. PipelineTypes /\ Frames /\ CallTypes /\ TaskTypes
    BY TypesSplit DEF PipelineInv
  <1>1. CASE CallsOnly(c)
    <2>1. UNCHANGED <<sessions, repo>>
      BY <1>1 DEF CallsOnly, Reading, Connect, Abandon, Close, Failing, LlmFail, TtsFail,
                  TtsSegment, Send, calls
    <2> QED  BY <2>1 DEF Same
  <1>2. ASSUME NEW s \in Streams, Start(c, s)
        PROVE  Same \/ (Added(s) /\ stream'[c] = s)
    <2>0. stream'[c] = s
      BY <1>0, <1>2 DEF Start, TaskTypes
    <2>1. AcceptCall(s, sampleRate') /\ sampleRate' \in Rates
      BY <1>0, <1>2 DEF Start, Negotiate, TaskTypes
    <2>2. CASE UNCHANGED <<sessions, repo>>
      BY <2>2 DEF Same
    <2>3. CASE /\ repo[s] = 0 /\ repo' = [repo EXCEPT ![s] = Len(sessions) + 1]
               /\ DOMAIN sessions' = DOMAIN sessions \cup {Len(sessions) + 1}
               /\ sessions'[Len(sessions) + 1] = Session(s, sampleRate')
               /\ \A i \in DOMAIN sessions : sessions'[i] = sessions[i]
      BY <2>0, <2>3 DEF Added, Session
    <2> QED  BY <1>0, <2>1, <2>2, <2>3, AcceptStep
  <1>3. ASSUME NEW i \in SessionIds, NEW loud \in BOOLEAN, Chunk(c, i, loud)
        PROVE  Same
    BY <1>0, <1>3, MediaStep DEF Same
  <1>4. CASE Hangup(c)
    <2>1. stream[c] \in Streams /\ stream' = stream
      BY <1>0, <1>4, HangupStep
    <2>2. \/ \E after, cn : Returned(c, after, sessions, repo, cn)
          \/ UNCHANGED repo /\ \E after : \E i \in DOMAIN sessions : Started(c, after, i, sessions)
      BY <1>0, <1>4, HangupStep
    <2>3. CASE \E after, cn : Returned(c, after, sessions, repo, cn)
      BY <1>0, <2>1, <2>3, ReturnedCalls DEF CallTypes
    <2>4. CASE UNCHANGED repo /\ \E after : \E i \in DOMAIN sessions : Started(c, after, i, sessions)
      BY <1>0, <2>4, StartedSessions DEF Same, CallTypes
    <2> QED  BY <2>2, <2>3, <2>4
  <1>5. CASE SttOver(c)
    <2> DEFINE s == stream[c]  i == frame[c].sess  after == frame[c].after
    <2>1. s \in Streams /\ i \in DOMAIN sessions /\ stream' = stream /\ pc[c] = "stt"
      BY <1>0, <1>5, SttStep DEF SttOver, SttEnd, SttFail
    <2>2. [repo EXCEPT ![s] = i] = repo
      <3>1. repo[s] = i
        BY <2>1 DEF FrameIsStored, Busy
      <3> QED  BY <1>0, <3>1 DEF CallTypes
    <2>3. CASE Returned(c, after, sessions, repo, connections)
      BY <1>0, <2>1, <2>3, ReturnedCalls DEF CallTypes
    <2>4. CASE Returned(c, after, WithMode(i, "listening"), [repo EXCEPT ![s] = i], connections)
      <3> DEFINE ss == WithMode(i, "listening")
      <3>1. Returned(c, after, ss, repo, connections)
        BY <2>2, <2>4
      <3>2. /\ ss \in Seq(SessionRecord) /\ DOMAIN ss = DOMAIN sessions
            /\ \A j \in DOMAIN sessions : /\ ss[j].state = sessions[j].state
                                          /\ ss[j].stream = sessions[j].stream
        <4>1. DOMAIN ss = DOMAIN sessions
          BY DEF WithMode
        <4>2. /\ ss \in Seq(SessionRecord)
              /\ \A j \in DOMAIN sessions \ {i} : ss[j] = sessions[j]
              /\ ss[i].state = sessions[i].state /\ ss[i].stream = sessions[i].stream
          BY <1>0, <2>1, ModeStep DEF CallTypes
        <4> QED  BY <4>1, <4>2
      <3> HIDE DEF ss
      <3> QED  BY <1>0, <2>1, <3>1, <3>2, ReturnedCalls
    <2>5. \/ Returned(c, after, sessions, repo, connections)
          \/ Returned(c, after, WithMode(i, "listening"), [repo EXCEPT ![s] = i], connections)
      BY <1>0, <1>5, SttStep DEF SttOver
    <2> QED  BY <2>3, <2>4, <2>5
  <1>6. CASE Answering(c)
    <2> DEFINE s == stream[c]  i == frame[c].sess
    <2>1. /\ pc[c] \in {"llm", "tts"} /\ DOMAIN sessions' = DOMAIN sessions
          /\ \A j \in DOMAIN sessions : /\ sessions'[j].state = sessions[j].state
                                        /\ sessions'[j].stream = sessions[j].stream
      BY <1>0, <1>6, AnswerStep
    <2>2. s \in Streams /\ frame[c].held = i /\ repo[s] = i
      BY <1>0, <2>1 DEF Frames, FrameOf, FrameIsStored, Busy
    <2>3. repo' = repo
      BY <1>0, <1>6, <2>2 DEF Answering, LlmAnswer, TtsEnd, CallTypes
    <2> QED  BY <2>1, <2>3 DEF Same
  <1>7. CASE Clear(c) \/ \E t \in Texts : Utterance(c, t)
    BY <1>0, <1>7, UttsOnly DEF Same
  <1> QED  BY <1>1, <1>2, <1>3, <1>4, <1>5, <1>6, <1>7 DEF StepOf, CallsOnly

\* A stream's one active session is the one the repository has.
LEMMA OneActiveNext ==
    ASSUME PipelineInv, PipelineInv', FrameIsStored, OneActiveSession, [Next]_vars
    PROVE  OneActiveSession'
  <1>0. CallTypes /\ CallTypes' /\ DOMAIN sessions = 1 .. Len(sessions)
    <2>1. CallTypes /\ CallTypes'
      BY TypesSplit, PTL DEF PipelineInv
    <2> QED  BY <2>1 DEF CallTypes
  <1>1. /\ \A i \in DOMAIN sessions : sessions[i].stream \in Streams
        /\ \A s \in Streams : repo[s] # 0 => repo[s] \in DOMAIN sessions
    <2>1. \A i \in DOMAIN sessions : sessions[i] \in SessionRecord
      BY <1>0 DEF CallTypes
    <2>2. \A i \in DOMAIN sessions : sessions[i].stream \in Streams
      BY <2>1 DEF SessionRecord
    <2> QED  BY <1>0, <2>2 DEF CallTypes
  <1>2. CASE Same
    BY <1>1, <1>2 DEF Same, OneActiveSession
  <1>3. ASSUME NEW s \in Streams, Added(s)
        PROVE  OneActiveSession'
    <2> DEFINE n == Len(sessions) + 1
    <2>1. /\ \A t \in Streams : repo'[t] = IF t = s THEN n ELSE repo[t]
          /\ n \notin DOMAIN sessions
      BY <1>0, <1>3 DEF Added, CallTypes
    <2>2. \A t \in Streams : repo'[t] # 0 => sessions'[repo'[t]].state = "active"
      BY <1>1, <1>3, <2>1 DEF Added, OneActiveSession
    <2>3. \A i \in DOMAIN sessions : sessions[i].state = "active" => repo'[sessions[i].stream] = i
      BY <1>1, <1>3, <2>1 DEF Added, OneActiveSession
    <2> QED  BY <1>3, <2>1, <2>2, <2>3 DEF Added, OneActiveSession
  <1>4. ASSUME NEW s \in Streams, Removed(s)
        PROVE  OneActiveSession'
    <2>1. \A t \in Streams : repo'[t] = IF t = s THEN 0 ELSE repo[t]
      BY <1>0, <1>4 DEF Removed, CallTypes
    <2>2. sessions[repo[s]].stream = s
      BY <1>4 DEF Removed, PipelineInv, OwnSession
    <2>3. \A t \in Streams : repo'[t] # 0 => sessions'[repo'[t]].state = "active"
      <3> SUFFICES ASSUME NEW t \in Streams, repo'[t] # 0
                   PROVE  sessions'[repo'[t]].state = "active"
        OBVIOUS
      <3>1. repo'[t] = repo[t] /\ t # s /\ repo[t] \in DOMAIN sessions
        BY <1>1, <2>1
      <3>2. repo[t] # repo[s]
        BY <2>2, <3>1, <1>1 DEF PipelineInv, OwnSession
      <3> QED  BY <1>4, <3>1, <3>2, <1>1 DEF Removed, OneActiveSession
    <2>4. \A i \in DOMAIN sessions' : sessions'[i].state = "active" => repo'[sessions'[i].stream] = i
      BY <1>1, <1>4, <2>1 DEF Removed, OneActiveSession
    <2> QED  BY <2>3, <2>4 DEF OneActiveSession
  <1>5. CASE UNCHANGED <<sessions, repo>>
    BY <1>5 DEF OneActiveSession
  <1> QED  BY <1>2, <1>3, <1>4, <1>5, StepCases, CallSteps

\* A task at work has the session the repository has: nobody else ends its call.
LEMMA StoredNext ==
    ASSUME PipelineInv, PipelineInv', OneOwner, FrameIsStored, [Next]_vars, ~Overlap
    PROVE  FrameIsStored'
  <1>0. PipelineTypes /\ Frames /\ CallTypes /\ TaskTypes /\ None \notin Streams
    BY TypesSplit, PipelineAssumption DEF PipelineInv
  <1>1. ASSUME NEW c \in Conns, StepOf(c), NEW d \in Conns, d # c, pc'[d] \in Busy
        PROVE  repo'[stream'[d]] = frame'[d].sess
    <2>1. /\ pc[c] # "closed" /\ pc[d] \in Busy /\ stream'[d] = stream[d] /\ frame'[d] = frame[d]
          /\ stream[d] \in Streams
      BY <1>0, <1>1, ActingConnection DEF OthersKept, Frames, FrameOf
    <2>2. pc[d] # "closed" /\ repo[stream[d]] = frame[d].sess
      BY <2>1 DEF FrameIsStored, Busy
    <2>3. stream[c] # stream[d]
      BY <1>0, <1>1, <2>1, <2>2 DEF OneOwner
    <2>4. \A s \in Streams : Start(c, s) => s # stream[d]
      BY <2>2, <1>1 DEF Start, MayAnnounce
    <2>5. \A s \in Streams : s # stream[d] /\ (Added(s) \/ Removed(s)) =>
             repo'[stream[d]] = repo[stream[d]]
      BY <1>0, <2>1 DEF Added, Removed, CallTypes
    <2>6. Same => repo'[stream[d]] = repo[stream[d]]
      BY DEF Same
    <2> QED  BY <1>1, <2>1, <2>2, <2>3, <2>4, <2>5, <2>6, CallSteps
  <1>2. ASSUME NEW c \in Conns, StepOf(c), pc'[c] \in Busy
        PROVE  repo'[stream'[c]] = frame'[c].sess
    <2>1. CASE Reading(c) \/ (\E s \in Streams : Start(c, s)) \/ Clear(c)
      BY <1>0, <1>2, <2>1 DEF Reading, Connect, Abandon, Close, Start, Clear, TaskTypes, Busy
    <2>2. CASE \E i \in SessionIds, loud \in BOOLEAN : Chunk(c, i, loud)
      <3>1. PICK i \in SessionIds, loud \in BOOLEAN : Chunk(c, i, loud)
        BY <2>2
      <3>2. /\ UNCHANGED <<repo, stream>> /\ pc[c] = "loop" /\ i = repo[stream[c]]
            /\ UNCHANGED pc \/ Begun(c, "loop", i)
        BY <1>0, <3>1, MediaStep
      <3> QED  BY <1>0, <1>2, <3>2, BegunFrame DEF Busy
    <2>3. CASE Hangup(c)
      <3> DEFINE i == repo[stream[c]]
      <3>1. stream' = stream
        BY <1>0, <2>3, HangupStep
      <3>2. \/ \E after, ss, rp, cn : Returned(c, after, ss, rp, cn)
            \/ UNCHANGED repo /\ \E after, ss : Started(c, after, i, ss)
        BY <1>0, <2>3, HangupStep
      <3>3. ~\E after, ss, rp, cn : Returned(c, after, ss, rp, cn)
        BY <1>0, <1>2, ReturnedFrame DEF Busy
      <3>4. UNCHANGED repo /\ \E after : Begun(c, after, i)
        BY <3>2, <3>3 DEF Started
      <3>5. frame'[c].sess = i
        BY <1>0, <3>4, BegunFrame
      <3> QED  BY <3>1, <3>4, <3>5
    <2>4. CASE SttOver(c)
      <3>1. \E after, ss, rp, cn : Returned(c, after, ss, rp, cn)
        BY <1>0, <2>4, SttStep DEF SttOver
      <3> QED  BY <1>0, <1>2, <3>1, ReturnedFrame DEF Busy
    <2>5. CASE (\E t \in Texts : Utterance(c, t)) \/ Failing(c) \/ TtsSegment(c) \/ Send(c)
      <3>1. frame[c] \in Frame
        BY <1>0 DEF TaskTypes
      <3>2. UNCHANGED <<repo, stream>> /\ frame'[c].sess = frame[c].sess /\ pc[c] \in Busy
        <4>1. CASE \E t \in Texts : Utterance(c, t)
          BY <1>0, <3>1, <4>1 DEF Utterance, TaskTypes, Frame, Busy
        <4>2. CASE Failing(c) \/ TtsSegment(c) \/ Send(c)
          BY <1>0, <3>1, <4>2 DEF Failing, LlmFail, TtsFail, TtsSegment, Send, TaskTypes, Frame,
                                  Busy, calls
        <4> QED  BY <2>5, <4>1, <4>2
      <3> QED  BY <3>2 DEF FrameIsStored
    <2>6. CASE Answering(c)
      <3>1. UNCHANGED <<stream, frame>> /\ pc[c] \in {"llm", "tts"}
        BY <1>0, <2>6, AnswerStep
      <3>2. stream[c] \in Streams /\ frame[c].held = frame[c].sess /\ repo[stream[c]] = frame[c].sess
        BY <1>0, <3>1 DEF Frames, FrameOf, FrameIsStored, Busy
      <3>3. repo' = repo
        BY <1>0, <2>6, <3>2 DEF Answering, LlmAnswer, TtsEnd, CallTypes
      <3> QED  BY <3>1, <3>2, <3>3
    <2> QED  BY <1>2, <2>1, <2>2, <2>3, <2>4, <2>5, <2>6 DEF StepOf
  <1>3. CASE UNCHANGED <<repo, pc, stream, frame>>
    BY <1>3 DEF FrameIsStored
  <1>4. CASE \E c \in Conns : StepOf(c)
    BY <1>1, <1>2, <1>4 DEF FrameIsStored
  <1> QED  BY <1>3, <1>4, StepCases

\* How a step changes who is registered: a start registers, a stop or a loss unregisters,
\* and otherwise a connection that is served afterwards was served before.
LEMMA Registration ==
    ASSUME PipelineInv, NEW c \in Conns, StepOf(c)
    PROVE  \/ /\ UNCHANGED connections
              /\ IsOpen(c)' /\ frame'[c].after # "drop" =>
                    pc[c] = "new" \/ (IsOpen(c) /\ frame[c].after # "drop")
           \/ \E s \in Streams : Start(c, s) /\ connections' = [connections EXCEPT ![s] = c]
           \/ /\ connections' = [connections EXCEPT ![stream[c]] = None]
              /\ ~IsOpen(c)' \/ frame'[c].after = "drop"
  <1>0. PipelineTypes /\ Frames /\ CallTypes /\ TaskTypes
    BY TypesSplit DEF PipelineInv
  <1>1. ASSUME pc[c] = "loop"
        PROVE  IsOpen(c) /\ frame[c].after # "drop"
    <2>1. frame[c] = NoFrame
      BY <1>0, <1>1 DEF Frames, FrameOf, Busy
    <2> QED  BY <1>1, <2>1 DEF NoFrame, IsOpen
  <1>2. CASE Reading(c)
    <2>1. UNCHANGED connections
      BY <1>2 DEF Reading, Connect, Abandon, Close, calls
    <2>2. pc[c] = "new" \/ pc'[c] \in {"closing", "closed"}
      BY <1>0, <1>2 DEF Reading, Connect, Abandon, Close, TaskTypes
    <2> QED  BY <2>1, <2>2 DEF IsOpen
  <1>3. CASE \E s \in Streams : Start(c, s)
    BY <1>3 DEF Start
  <1>4. CASE (\E i \in SessionIds, loud \in BOOLEAN : Chunk(c, i, loud)) \/ Clear(c)
    <2>1. CASE Clear(c)
      BY <1>1, <2>1 DEF Clear
    <2>2. ASSUME NEW i \in SessionIds, NEW loud \in BOOLEAN, Chunk(c, i, loud)
          PROVE  UNCHANGED connections /\ pc[c] = "loop"
      BY <1>0, <2>2, MediaStep
    <2> QED  BY <1>1, <1>4, <2>1, <2>2
  <1>5. CASE Hangup(c)
    <2>1. pc[c] = "loop" /\ stream[c] \in Streams
      BY <1>0, <1>5, HangupStep
    <2>2. PICK after \in {"stop", "drop"}, cn \in [Streams -> Conns \cup {None}] :
             /\ cn = IF after = "stop" THEN connections
                                       ELSE [connections EXCEPT ![stream[c]] = None]
             /\ \/ (\E i : Started(c, after, i, sessions)) /\ connections' = cn
                \/ Returned(c, after, sessions, repo, cn)
      BY <1>0, <1>5, HangupStep
    <2>3. CASE (\E i : Started(c, after, i, sessions)) /\ connections' = cn
      <3>1. frame'[c].after = after
        BY <1>0, <2>3, BegunFrame DEF Started
      <3> QED  BY <1>1, <2>1, <2>2, <2>3, <3>1
    <2>4. CASE Returned(c, after, sessions, repo, cn)
      <3>1. pc'[c] = "closing" /\ connections' = [connections EXCEPT ![stream[c]] = None]
        BY <1>0, <2>2, <2>4 DEF Returned, TaskTypes
      <3> QED  BY <3>1 DEF IsOpen
    <2> QED  BY <2>2, <2>3, <2>4
  <1>6. CASE SttOver(c)
    <2> DEFINE after == frame[c].after
    <2>1. /\ pc[c] = "stt" /\ after \in {"loop", "stop", "drop"}
          /\ \E ss, rp : Returned(c, after, ss, rp, connections)
      BY <1>0, <1>6, SttStep DEF SttOver, SttEnd, SttFail
    <2>2. CASE after = "stop"
      <3>1. pc'[c] = "closing" /\ connections' = [connections EXCEPT ![stream[c]] = None]
        BY <1>0, <2>1, <2>2 DEF Returned, TaskTypes
      <3> QED  BY <3>1 DEF IsOpen
    <2>3. CASE after # "stop"
      <3>1. UNCHANGED connections /\ (after = "drop" => pc'[c] = "closing")
        BY <1>0, <2>1, <2>3 DEF Returned, TaskTypes
      <3> QED  BY <2>1, <3>1 DEF IsOpen
    <2> QED  BY <2>2, <2>3
  <1>7. CASE (\E t \in Texts : Utterance(c, t)) \/ Answering(c) \/ Failing(c) \/ TtsSegment(c)
             \/ Send(c)
    <2>1. UNCHANGED connections /\ pc[c] \in {"stt", "llm", "tts", "send"}
      BY <1>7 DEF Utterance, Answering, LlmAnswer, TtsEnd, Failing, LlmFail, TtsFail, TtsSegment,
                  Send, calls
    <2>2. frame[c] \in Frame
      BY <1>0 DEF TaskTypes
    <2>3. frame'[c].after = frame[c].after
      <3>1. CASE \E t \in Texts : Utterance(c, t)
        BY <1>0, <2>2, <3>1 DEF Utterance, TaskTypes, Frame
      <3>2. CASE TtsSegment(c)
        BY <1>0, <2>2, <3>2 DEF TtsSegment, TaskTypes, Frame
      <3>3. CASE Answering(c) \/ Failing(c) \/ Send(c)
        BY <3>3 DEF Answering, LlmAnswer, TtsEnd, Failing, LlmFail, TtsFail, Send
      <3> QED  BY <1>7, <3>1, <3>2, <3>3
    <2> QED  BY <2>1, <2>3 DEF IsOpen
  <1> QED  BY <1>2, <1>3, <1>4, <1>5, <1>6, <1>7 DEF StepOf

\* A connection that is served is the registered one.
LEMMA ReachableNext ==
    ASSUME ~Overlap, PipelineInv, OneOwner, LiveCallReachable, [Next]_vars
    PROVE  LiveCallReachable'
  <1>0. PipelineTypes /\ Frames /\ CallTypes /\ TaskTypes /\ None \notin Streams
    BY TypesSplit, PipelineAssumption DEF PipelineInv
  <1> DEFINE Served(d) == IsOpen(d) /\ stream[d] # None /\ frame[d].after # "drop"
  <1>1. ASSUME NEW c \in Conns, StepOf(c), NEW d \in Conns, d # c, Served(d)'
        PROVE  connections'[stream'[d]] = d
    <2>1. /\ pc[c] # "closed" /\ Served(d) /\ stream'[d] = stream[d] /\ stream[d] \in Streams
          /\ pc[d] # "closed"
      BY <1>0, <1>1, ActingConnection DEF OthersKept, IsOpen, TaskTypes
    <2>2. stream[c] # stream[d] /\ connections[stream[d]] = d
      BY <1>1, <2>1 DEF OneOwner, LiveCallReachable
    <2>3. \A s \in Streams : Start(c, s) => s # stream[d]
      BY <1>1, <2>1 DEF Start, MayAnnounce
    <2>4. connections'[stream[d]] = connections[stream[d]]
      BY <1>0, <1>1, <2>1, <2>2, <2>3, Registration DEF CallTypes
    <2> QED  BY <2>1, <2>2, <2>4
  <1>2. ASSUME NEW c \in Conns, StepOf(c), Served(c)'
        PROVE  connections'[stream'[c]] = c
    <2>1. CASE /\ UNCHANGED connections /\ stream'[c] = stream[c]
               /\ pc[c] = "new" \/ (IsOpen(c) /\ frame[c].after # "drop")
      BY <1>2, <2>1 DEF OneOwner, LiveCallReachable
    <2>2. ASSUME NEW s \in Streams, Start(c, s)
          PROVE  connections'[stream'[c]] = c
      BY <1>0, <2>2 DEF Start, CallTypes, TaskTypes
    <2>3. \/ UNCHANGED connections /\ (pc[c] = "new" \/ (IsOpen(c) /\ frame[c].after # "drop"))
          \/ \E s \in Streams : Start(c, s)
      BY <1>2, Registration
    <2>4. stream'[c] = stream[c] \/ \E s \in Streams : Start(c, s)
      BY <1>0, <1>2, ActingConnection
    <2> QED  BY <2>1, <2>2, <2>3, <2>4
  <1>3. CASE UNCHANGED <<connections, pc, stream, frame>>
    BY <1>3 DEF LiveCallReachable, IsOpen
  <1>4. CASE \E c \in Conns : StepOf(c)
    BY <1>1, <1>2, <1>4 DEF LiveCallReachable
  <1> QED  BY <1>3, <1>4, StepCases

\* A segment is on its way to the connection whose task synthesized it.
LEMMA SentNext ==
    ASSUME PipelineInv, OneOwner, SentToItsCaller, [Next]_vars
    PROVE  SentToItsCaller'
  <1>0. PipelineTypes /\ Frames /\ CallTypes /\ TaskTypes /\ None \notin Streams
    BY TypesSplit, PipelineAssumption DEF PipelineInv
  <1>1. ASSUME NEW c \in Conns, StepOf(c), pc'[c] = "send"
        PROVE  frame'[c].socket = c
    <2>1. CASE TtsSegment(c)
      <3> DEFINE d == connections[stream[c]]
      <3>0. frame[c] \in Frame
        BY <1>0 DEF TaskTypes
      <3>1. /\ pc[c] = "tts" /\ d # None /\ frame'[c].socket = d
        BY <1>0, <1>1, <2>1, <3>0 DEF TtsSegment, TaskTypes, Frame
      <3>2. stream[c] \in Streams
        BY <1>0, <3>1 DEF Frames, FrameOf, Busy
      <3>3. IsOpen(d) /\ stream[d] = stream[c] /\ d \in Conns
        BY <1>0, <3>1, <3>2 DEF PipelineInv, RegisteredIsOpen, CallTypes
      <3>4. d = c
        BY <1>0, <3>1, <3>2, <3>3 DEF OneOwner, IsOpen
      <3> QED  BY <3>1, <3>4
    <2>2. CASE ~TtsSegment(c)
      <3>1. CASE \E i \in SessionIds, loud \in BOOLEAN : Chunk(c, i, loud)
        <4>1. PICK i \in SessionIds, loud \in BOOLEAN : Chunk(c, i, loud)
          BY <3>1
        <4>2. pc[c] = "loop" /\ (UNCHANGED pc \/ Begun(c, "loop", i))
          BY <1>0, <4>1, MediaStep
        <4> QED  BY <1>0, <1>1, <4>2, BegunFrame
      <3>2. CASE Hangup(c) \/ SttOver(c)
        <4>1. \E after, ss, rp, cn, i : Returned(c, after, ss, rp, cn) \/ Started(c, after, i, ss)
          BY <1>0, <3>2, HangupStep, SttStep DEF SttOver
        <4>2. pc'[c] \in {"loop", "closing", "stt"}
          BY <1>0, <4>1 DEF Returned, Started, Begun, TaskTypes
        <4> QED  BY <1>1, <4>2
      <3>3. CASE \/ Reading(c) \/ (\E s \in Streams : Start(c, s)) \/ Clear(c)
                 \/ (\E t \in Texts : Utterance(c, t)) \/ Send(c)
        BY <1>0, <1>1, <3>3 DEF Reading, Connect, Abandon, Close, Start, Clear, Utterance, Send,
                                TaskTypes
      <3>4. CASE Answering(c) \/ Failing(c)
        BY <1>0, <1>1, <3>4 DEF Answering, LlmAnswer, TtsEnd, Failing, LlmFail, TtsFail,
                                PipelineOver, TaskTypes
      <3> QED  BY <1>1, <2>2, <3>1, <3>2, <3>3, <3>4 DEF StepOf
    <2> QED  BY <2>1, <2>2
  <1>2. ASSUME NEW c \in Conns, StepOf(c), NEW d \in Conns, d # c, pc'[d] = "send"
        PROVE  frame'[d].socket = d
    BY <1>0, <1>2, ActingConnection DEF OthersKept, SentToItsCaller
  <1>3. CASE UNCHANGED <<pc, frame>>
    BY <1>3 DEF SentToItsCaller
  <1>4. CASE \E c \in Conns : StepOf(c)
    BY <1>1, <1>2, <1>4 DEF SentToItsCaller
  <1> QED  BY <1>3, <1>4, StepCases

\* Utterances are numbered in the order in which they are transcribed, and what is heard
\* on a connection was asked on it.
LEMMA UtterancesNext ==
    ASSUME PipelineInv, SentToItsCaller, UtterancesKnown, AnswersReachTheirCaller, [Next]_vars
    PROVE  UtterancesKnown' /\ AnswersReachTheirCaller'
  <1>0. PipelineTypes /\ Frames /\ CallTypes /\ TaskTypes
    BY TypesSplit DEF PipelineInv
  <1>1. \A d \in Conns : /\ frame[d] \in Frame /\ frame[d].utt \in 0 .. MaxUtts
                         /\ heard[d] \in SUBSET Utts
    BY <1>0 DEF TaskTypes, Frame
  <1>2. ASSUME NEW c \in Conns, NEW t \in Texts, Utterance(c, t)
        PROVE  UtterancesKnown' /\ AnswersReachTheirCaller'
    <2> DEFINE u == lastUtt + 1
    <2>1. /\ u \in Utts /\ lastUtt \in Nat /\ lastUtt' = u /\ heard' = heard
          /\ asker' = [asker EXCEPT ![u] = c] /\ frame'[c].utt = u
          /\ \A d \in Conns \ {c} : frame'[d] = frame[d]
      <3>1. lastUtt < MaxUtts /\ lastUtt \in 0 .. MaxUtts
        BY <1>0, <1>2 DEF Utterance, TaskTypes
      <3>2. u \in Utts /\ lastUtt \in Nat
        BY <3>1, Bounds DEF Utts
      <3> QED  BY <1>0, <1>1, <1>2, <3>2 DEF Utterance, TaskTypes, Frame
    <2>2. asker'[u] = c /\ \A v \in Utts : v <= lastUtt => asker'[v] = asker[v]
      BY <1>0, <2>1 DEF TaskTypes, Utts
    <2>3. \A d \in Conns : frame'[d].utt # 0 => frame'[d].utt <= lastUtt' /\ asker'[frame'[d].utt] = d
      <3> SUFFICES ASSUME NEW d \in Conns, d # c, frame[d].utt # 0
                   PROVE  frame[d].utt <= lastUtt' /\ asker'[frame[d].utt] = d
        BY <2>1, <2>2
      <3>1. /\ frame[d].utt <= lastUtt /\ asker[frame[d].utt] = d /\ frame[d].utt \in Utts
        BY <1>1, Bounds DEF UtterancesKnown, Utts
      <3> QED  BY <2>1, <2>2, <3>1 DEF Utts
    <2>4. \A d \in Conns : \A v \in heard[d] : v <= lastUtt' /\ asker'[v] = d
      <3> SUFFICES ASSUME NEW d \in Conns, NEW v \in heard[d]
                   PROVE  v <= lastUtt' /\ asker'[v] = d
        OBVIOUS
      <3>1. v \in Utts /\ v <= lastUtt /\ asker[v] = d
        BY <1>1 DEF UtterancesKnown, AnswersReachTheirCaller
      <3> QED  BY <2>1, <2>2, <3>1 DEF Utts
    <2> QED  BY <2>1, <2>3, <2>4 DEF UtterancesKnown, AnswersReachTheirCaller
  <1>3. ASSUME NEW c \in Conns, Send(c)
        PROVE  UtterancesKnown' /\ AnswersReachTheirCaller'
    <2>1. /\ frame[c].socket = c /\ frame[c].utt # 0 /\ UNCHANGED <<frame, lastUtt, asker>>
          /\ \/ heard' = [heard EXCEPT ![c] = @ \cup {frame[c].utt}]
             \/ heard' = heard
      BY <1>0, <1>3 DEF Send, SentToItsCaller, Frames, FrameOf
    <2>2. \A d \in Conns : heard'[d] \subseteq heard[d] \cup (IF d = c THEN {frame[c].utt} ELSE {})
      BY <1>0, <2>1 DEF TaskTypes
    <2>3. frame[c].utt <= lastUtt /\ asker[frame[c].utt] = c
      BY <2>1 DEF UtterancesKnown
    <2> QED  BY <2>1, <2>2, <2>3 DEF UtterancesKnown, AnswersReachTheirCaller
  <1>4. ASSUME UNCHANGED <<lastUtt, asker, heard>>,
               \A d \in Conns : frame'[d].utt \in {frame[d].utt, 0}
        PROVE  UtterancesKnown' /\ AnswersReachTheirCaller'
    BY <1>4 DEF UtterancesKnown, AnswersReachTheirCaller
  <1>5. ASSUME NEW c \in Conns, OthersKept(c), UNCHANGED <<lastUtt, asker, heard>>,
               frame'[c].utt \in {frame[c].utt, 0}
        PROVE  UtterancesKnown' /\ AnswersReachTheirCaller'
    BY <1>4, <1>5 DEF OthersKept
  <1>6. ASSUME NEW c \in Conns, StepOf(c), ~Send(c), ~\E t \in Texts : Utterance(c, t)
        PROVE  UtterancesKnown' /\ AnswersReachTheirCaller'
    <2>1. OthersKept(c)
      BY <1>0, <1>6, ActingConnection
    <2>2. CASE Reading(c) \/ (\E s \in Streams : Start(c, s)) \/ Clear(c) \/ Answering(c)
               \/ Failing(c)
      BY <1>5, <2>1, <2>2 DEF Reading, Connect, Abandon, Close, Start, Clear, Answering, LlmAnswer,
                              TtsEnd, Failing, LlmFail, TtsFail
    <2>3. CASE TtsSegment(c)
      <3>1. frame'[c].utt = frame[c].utt
        BY <1>0, <1>1, <2>3 DEF TtsSegment, TaskTypes, Frame
      <3> QED  BY <1>5, <2>1, <2>3, <3>1 DEF TtsSegment
    <2>4. CASE \E i \in SessionIds, loud \in BOOLEAN : Chunk(c, i, loud)
      <3>1. PICK i \in SessionIds, loud \in BOOLEAN : Chunk(c, i, loud)
        BY <2>4
      <3>2. UNCHANGED <<lastUtt, asker, heard>> /\ (UNCHANGED frame \/ Begun(c, "loop", i))
        BY <1>0, <3>1, MediaStep
      <3>3. frame'[c].utt \in {frame[c].utt, 0}
        BY <1>0, <3>2, BegunFrame
      <3> QED  BY <1>5, <2>1, <3>2, <3>3
    <2>5. CASE Hangup(c) \/ SttOver(c)
      <3>1. UNCHANGED <<lastUtt, asker, heard>>
        BY <2>5 DEF Hangup, Stop, Disconnect, SttOver, SttEnd, SttFail
      <3>2. \E after, ss, rp, cn, i : Returned(c, after, ss, rp, cn) \/ Started(c, after, i, ss)
        BY <1>0, <2>5, HangupStep, SttStep DEF SttOver
      <3>3. CASE \E after, ss, rp, cn : Returned(c, after, ss, rp, cn)
        <4>1. frame'[c] = NoFrame
          BY <1>0, <3>3, ReturnedFrame
        <4> QED  BY <1>5, <2>1, <3>1, <4>1 DEF NoFrame
      <3>4. CASE \E after, i : Begun(c, after, i)
        BY <1>0, <1>5, <2>1, <3>1, <3>4, BegunFrame
      <3> QED  BY <3>2, <3>3, <3>4 DEF Started
    <2> QED  BY <1>6, <2>2, <2>3, <2>4, <2>5 DEF StepOf
  <1>7. CASE UNCHANGED <<frame, lastUtt, asker, heard>>
    BY <1>4, <1>7
  <1> QED  BY <1>2, <1>3, <1>6, <1>7, StepCases

\* The invariant of calls that do not overlap holds at first,
LEMMA CallInvInit == Init => CallInv
  <1> SUFFICES ASSUME Init PROVE CallInv
    OBVIOUS
  <1>1. \A c \in Conns : pc[c] = "new" /\ stream[c] = None /\ frame[c] = NoFrame /\ heard[c] = {}
    BY DEF Init
  <1>2. sessions = <<>> /\ DOMAIN sessions = {} /\ \A s \in Streams : repo[s] = 0
    BY DEF Init
  <1>3. OneOwner /\ FrameIsStored /\ SentToItsCaller /\ LiveCallReachable
    BY <1>1 DEF OneOwner, FrameIsStored, SentToItsCaller, LiveCallReachable, Busy
  <1>4. OneActiveSession
    BY <1>2 DEF OneActiveSession
  <1>5. UtterancesKnown /\ AnswersReachTheirCaller
    BY <1>1 DEF UtterancesKnown, AnswersReachTheirCaller, NoFrame
  <1> QED  BY <1>3, <1>4, <1>5 DEF CallInv

\* and every step preserves it.
LEMMA CallInvNext ==
    ASSUME ~Overlap
    PROVE  PipelineInv /\ CallInv /\ [Next]_vars => CallInv'
  <1> SUFFICES ASSUME PipelineInv, CallInv, [Next]_vars
               PROVE  CallInv'
    OBVIOUS
  <1>1. PipelineInv'
    BY PipelineInvNext
  <1>2. OneOwner'
    BY OneOwnerNext DEF CallInv
  <1>3. FrameIsStored'
    BY <1>1, StoredNext DEF CallInv
  <1>4. OneActiveSession'
    BY <1>1, OneActiveNext DEF CallInv
  <1>5. LiveCallReachable'
    BY ReachableNext DEF CallInv
  <1>6. SentToItsCaller'
    BY SentNext DEF CallInv
  <1>7. UtterancesKnown' /\ AnswersReachTheirCaller'
    BY UtterancesNext DEF CallInv
  <1> QED  BY <1>2, <1>3, <1>4, <1>5, <1>6, <1>7 DEF CallInv

\* So it is an invariant when a stream is announced again only after its earlier
\* connections are gone.
LEMMA CallInvariant ==
    ASSUME ~Overlap
    PROVE  Spec => []CallInv
  BY PipelineInvariant, CallInvInit, CallInvNext, PTL DEF Spec

\* At all times every stream has at most one session that has not ended, and the
\* repository has exactly that one.
THEOREM OneSessionForAStream ==
    ASSUME ~Overlap
    PROVE  Spec => []OneActiveSession
  <1>1. CallInv => OneActiveSession
    BY DEF CallInv
  <1> QED  BY <1>1, CallInvariant, PTL

\* A connection that has announced its stream and is served is the one its answers
\* are sent to, whatever the calls of other streams and earlier ones of its own do.
THEOREM CallerIsReachable ==
    ASSUME ~Overlap
    PROVE  Spec => []LiveCallReachable
  <1>1. CallInv => LiveCallReachable
    BY DEF CallInv
  <1> QED  BY <1>1, CallInvariant, PTL

\* An answer is heard on no other connection than the one that asked.
THEOREM NoCrossTalk ==
    ASSUME ~Overlap
    PROVE  Spec => []AnswersReachTheirCaller
  <1>1. CallInv => AnswersReachTheirCaller
    BY DEF CallInv
  <1> QED  BY <1>1, CallInvariant, PTL

\* A task that returns after a stop leaves no session, socket or audio of its stream.
LEMMA ReturnedClean ==
    ASSUME PipelineInv, OneActiveSession, NEW c \in Conns, stream[c] \in Streams,
           NEW ss \in Seq(SessionRecord), NEW cn \in [Streams -> Conns \cup {None}],
           Returned(c, "stop", ss, repo, cn), DOMAIN ss = DOMAIN sessions,
           \A j \in DOMAIN sessions : ss[j].state = sessions[j].state
    PROVE  repo'[stream[c]] = 0 /\ connections'[stream[c]] = None /\ ~vad'[stream[c]]
  <1> DEFINE s == stream[c]
  <1>0. CallTypes
    BY TypesSplit DEF PipelineInv
  <1>1. ResumeCall(s, "stop", ss, repo) /\ connections'[s] = None /\ ~vad'[s]
    BY DEF Returned
  <1>2. CASE repo' = [repo EXCEPT ![s] = 0]
    BY <1>0, <1>1, <1>2 DEF CallTypes
  <1>3. CASE repo' = repo /\ ~Live(repo[s], ss)
    <2>1. repo[s] # 0 => repo[s] \in DOMAIN sessions /\ sessions[repo[s]].state = "active"
      BY <1>0 DEF CallTypes, OneActiveSession
    <2> QED  BY <1>1, <1>3, <2>1 DEF Live
  <1> QED  BY <1>1, <1>2, <1>3 DEF ResumeCall

\* Only the end of its transcription takes a task at work to the closing of its socket.
LEMMA LeavesBySttOver ==
    ASSUME PipelineInv, NEW c \in Conns, [Next]_vars, pc[c] \in Busy, pc'[c] = "closing"
    PROVE  SttOver(c)
  <1>0. PipelineTypes /\ Frames /\ TaskTypes
    BY TypesSplit DEF PipelineInv
  <1>1. pc'[c] # pc[c] /\ pc[c] # "loop"
    BY DEF Busy
  <1>2. ASSUME NEW d \in Conns, StepOf(d), d # c
        PROVE  FALSE
    BY <1>0, <1>1, <1>2, ActingConnection DEF OthersKept
  <1>3. StepOf(c)
    BY <1>1, <1>2, StepCases
  <1>4. ~(Reading(c) \/ (\E s \in Streams : Start(c, s)) \/ Clear(c))
    BY DEF Reading, Connect, Abandon, Close, Start, Clear, Busy
  <1>5. ~(\E i \in SessionIds, loud \in BOOLEAN : Chunk(c, i, loud)) /\ ~Hangup(c)
    BY <1>0, <1>1, MediaStep, HangupStep
  <1>6. ~((\E t \in Texts : Utterance(c, t)) \/ TtsSegment(c) \/ Send(c))
    BY <1>0, <1>1 DEF Utterance, TtsSegment, Send, TaskTypes
  <1>7. ~(Answering(c) \/ Failing(c))
    BY <1>0, <1>1 DEF Answering, LlmAnswer, TtsEnd, Failing, LlmFail, TtsFail, PipelineOver,
                      TaskTypes
  <1> QED  BY <1>3, <1>4, <1>5, <1>6, <1>7 DEF StepOf

\* What the step to the closing of a stopped connection does.
LEMMA StopStep ==
    ASSUME PipelineInv, FrameIsStored, OneActiveSession, [Next]_vars, NEW c \in Conns,
           Stop(c) \/ (pc[c] \in Busy /\ frame[c].after = "stop"), pc'[c] = "closing"
    PROVE  repo'[stream[c]] = 0 /\ connections'[stream[c]] = None /\ ~vad'[stream[c]]
  <1>0. PipelineTypes /\ Frames /\ CallTypes /\ TaskTypes
    BY TypesSplit DEF PipelineInv
  <1>1. CASE Stop(c)
    <2>1. Hangup(c)
      BY <1>1 DEF Hangup
    <2>2. ASSUME NEW after, NEW i, Begun(c, after, i)
          PROVE  FALSE
      BY <1>0, <2>2 DEF Begun, TaskTypes
    <2>3. stream[c] \in Streams /\ Returned(c, "stop", sessions, repo, connections)
      BY <1>0, <1>1, <2>1, <2>2, HangupStep DEF Started
    <2> QED  BY <1>0, <2>3, ReturnedClean DEF CallTypes
  <1>2. CASE pc[c] \in Busy /\ frame[c].after = "stop"
    <2> DEFINE i == frame[c].sess
    <2>1. SttEnd(c) \/ SttFail(c)
      BY <1>2, LeavesBySttOver DEF SttOver
    <2>2. stream[c] \in Streams /\ i \in DOMAIN sessions /\ repo[stream[c]] = i
      BY <1>0, <1>2, <2>1, SttStep DEF FrameIsStored
    <2>3. [repo EXCEPT ![stream[c]] = i] = repo
      BY <1>0, <2>2 DEF CallTypes
    <2>4. CASE Returned(c, "stop", sessions, repo, connections)
      BY <1>0, <2>2, <2>4, ReturnedClean DEF CallTypes
    <2>5. CASE Returned(c, "stop", WithMode(i, "listening"), repo, connections)
      <3>1. /\ WithMode(i, "listening") \in Seq(SessionRecord)
            /\ DOMAIN WithMode(i, "listening") = DOMAIN sessions
            /\ \A j \in DOMAIN sessions :
                  WithMode(i, "listening")[j].state = sessions[j].state
        <4> HIDE DEF i
        <4>1. sessions \in Seq(SessionRecord) /\ i \in DOMAIN sessions
          BY <1>0, <2>2 DEF CallTypes
        <4>2. /\ WithMode(i, "listening") \in Seq(SessionRecord)
              /\ Len(WithMode(i, "listening")) = Len(sessions)
              /\ \A j \in DOMAIN sessions \ {i} : WithMode(i, "listening")[j] = sessions[j]
              /\ WithMode(i, "listening")[i].state = sessions[i].state
          BY <4>1, ModeStep
        <4> QED  BY <4>1, <4>2
      <3> QED  BY <1>0, <2>2, <2>5, <3>1, ReturnedClean DEF CallTypes
    <2> QED  BY <1>0, <1>2, <2>1, <2>3, <2>4, <2>5, SttStep
  <1> QED  BY <1>1, <1>2

\* When a stopped connection is on its way to being closed, also after answering the
\* audio that was still pending, its session, socket and audio are gone.
THEOREM StoppedCallLeavesNothing ==
    ASSUME ~Overlap
    PROVE  Spec => StopCleansUp
  <1>1. PipelineInv /\ CallInv /\ [Next]_vars =>
           [\A c \in Conns :
               /\ Stop(c) \/ (pc[c] \in Busy /\ frame[c].after = "stop")
               /\ pc'[c] = "closing"
             => /\ repo'[stream[c]] = 0
                /\ connections'[stream[c]] = None
                /\ ~vad'[stream[c]]]_vars
    BY StopStep DEF CallInv
  <1> QED  BY <1>1, PipelineInvariant, CallInvariant, PTL DEF Spec, StopCleansUp
=============================================================================
