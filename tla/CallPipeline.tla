---------------------------- MODULE CallPipeline ----------------------------
(***************************************************************************)
(* The running service: one asyncio process, one shared WebSocket handler, *)
(* many connections.  A connection is a task that reads one Exotel event   *)
(* at a time; a media event that ends an utterance carries the task        *)
(* through transcription, the language model, speech synthesis and the     *)
(* sending of audio before the next event is read.                         *)
(*                                                                         *)
(* A step is everything a task does between two points where it really     *)
(* suspends: reading the socket, the STT, LLM and TTS streams, the paced   *)
(* send, closing the socket.  The in-memory repository never suspends, so  *)
(* a read of it and the writes that follow are one step.  References to a  *)
(* session are kept across suspensions, as in the code.                    *)
(*                                                                         *)
(* Left out: texts beyond their identity, partial utterances, audio bytes, *)
(* the VAD's decisions (any outcome is possible, see AudioBufferManager)   *)
(* and chunk numbers (any chunk may be refused, see ConversationSession).  *)
(***************************************************************************)
EXTENDS Naturals, Sequences, FiniteSets

CONSTANTS Conns,       \* WebSocket connections, each used once
          Streams,     \* stream ids the peers announce
          Rates,       \* sample rates the peers negotiate
          Texts,       \* normalized utterance texts
          None,        \* no stream, no connection
          Overlap,     \* may a stream be announced while an older connection has it?
          MaxSessions, \* bound: sessions created
          MaxUtts,     \* bound: utterances transcribed
          MaxSegs      \* bound: segments synthesized for one answer

ASSUME PipelineAssumption ==
    /\ None \notin Conns \cup Streams \cup Texts
    /\ Overlap \in BOOLEAN
    /\ {MaxSessions, MaxUtts, MaxSegs} \subseteq Nat \ {0}

VARIABLES sampleRate,  \* ExotelWebSocketHandler._sample_rate, one for all calls
          sessions,    \* every ConversationSession object created
          repo,        \* InMemorySessionRepository._store: stream -> session or 0
          connections, \* ExotelCallerAudioAdapter._connections
          vad,         \* does the stream's VAD buffer hold audio?
          recent,      \* _last_final_by_stream, None once the window is over
          pc,          \* where each connection's task is suspended
          stream,      \* handle()'s local stream_id
          rate,        \* history: the rate the connection itself negotiated
          frame,       \* locals of the ProcessAudio call in progress
          lastUtt,     \* utterances transcribed so far
          asker,       \* history: the connection each utterance came from
          heard        \* history: the utterances answered on each socket

calls == <<sessions, repo, connections, vad>>
vars == <<sampleRate, sessions, repo, connections, vad, recent, pc, stream,
          rate, frame, lastUtt, asker, heard>>

SessionIds == 1 .. MaxSessions
Utts == 1 .. MaxUtts
Busy == {"stt", "llm", "tts", "send"}
Phases == {"new", "loop", "closing", "closed"} \cup Busy

\* Mutant of Session: the call is created but never activated.
SessionNotActivated(s, r) == [stream |-> s, rate |-> r, state |-> "initiated",
    mode |-> "listening", utts |-> {}, interrupted |-> FALSE]

Session(s, r) == [stream |-> s, rate |-> r, state |-> "active",
                  mode |-> "listening", utts |-> {}, interrupted |-> FALSE]

\* after: what handle() does when ProcessAudio returns; sess: the session that
\* execute() or finalize_stream() loaded; held: the one the AI pipeline loaded.
NoFrame == [after |-> "loop", sess |-> 0, held |-> 0, utt |-> 0,
            text |-> None, segs |-> 0, socket |-> None]

IsOpen(c) == pc[c] \notin {"new", "closing", "closed"}

\* i is a stored session, and it has not ended (ss are the sessions).
Live(i, ss) == i # 0 /\ ss[i].state # "ended"

Init ==
    /\ sampleRate \in Rates
    /\ sessions = <<>>
    /\ repo = [s \in Streams |-> 0]
    /\ connections = [s \in Streams |-> None]
    /\ vad = [s \in Streams |-> FALSE]
    /\ recent = [s \in Streams |-> None]
    /\ pc = [c \in Conns |-> "new"]
    /\ stream = [c \in Conns |-> None]
    /\ rate = [c \in Conns |-> sampleRate]
    /\ frame = [c \in Conns |-> NoFrame]
    /\ lastUtt = 0
    /\ asker = [u \in Utts |-> None]
    /\ heard = [c \in Conns |-> {}]

-----------------------------------------------------------------------------
(* Connecting *)

\* A rate the peer names goes into the handler's one field; without one the
\* field stays as the last connection left it.
Negotiate(c) ==
    \/ \E r \in Rates : sampleRate' = r /\ rate' = [rate EXCEPT ![c] = r]
    \/ UNCHANGED <<sampleRate, rate>>

\* websocket_stream: the query string may override the shared sample rate.
Connect(c) ==
    /\ pc[c] = "new"
    /\ pc' = [pc EXCEPT ![c] = "loop"]
    /\ Negotiate(c)
    /\ UNCHANGED <<calls, recent, stream, frame, lastUtt, asker, heard>>

\* The peer's side: a connection announces one stream, and without Overlap
\* only after any earlier connection for that stream is gone.
MayAnnounce(c, s) ==
    /\ stream[c] = None
    /\ Overlap \/ \A d \in Conns : stream[d] = s => pc[d] = "closed"

\* AcceptCall: a stream that has a session keeps it, the error is only logged.
AcceptCall(s, r) ==
    \/ /\ repo[s] # 0
       /\ UNCHANGED <<sessions, repo>>
    \/ /\ repo[s] = 0
       /\ Len(sessions) < MaxSessions     \* bound
       /\ sessions' = Append(sessions, Session(s, r))
       /\ repo' = [repo EXCEPT ![s] = Len(sessions) + 1]

\* Mutants of Start: the socket is not registered; one socket for all streams.
StartUnregistered(c, s) ==
    /\ pc[c] = "loop"
    /\ MayAnnounce(c, s)
    /\ Negotiate(c)
    /\ AcceptCall(s, sampleRate')
    /\ stream' = [stream EXCEPT ![c] = s]
    /\ UNCHANGED <<connections, vad, recent, pc, frame, lastUtt, asker, heard>>
StartForAllStreams(c, s) ==
    /\ pc[c] = "loop"
    /\ MayAnnounce(c, s)
    /\ Negotiate(c)
    /\ AcceptCall(s, sampleRate')
    /\ stream' = [stream EXCEPT ![c] = s]
    /\ connections' = [t \in Streams |-> c]
    /\ UNCHANGED <<vad, recent, pc, frame, lastUtt, asker, heard>>

\* A 'start' event: the rate again, the session, the socket's registration.
Start(c, s) ==
    /\ pc[c] = "loop"
    /\ MayAnnounce(c, s)
    /\ Negotiate(c)
    /\ AcceptCall(s, sampleRate')
    /\ stream' = [stream EXCEPT ![c] = s]
    /\ connections' = [connections EXCEPT ![s] = c]
    /\ UNCHANGED <<vad, recent, pc, frame, lastUtt, asker, heard>>

-----------------------------------------------------------------------------
(* Returning from ProcessAudio into handle().  ss, rp, vd and cn are the   *)
(* sessions, repository, VAD buffers and registrations at that moment.     *)

\* Mutant of EndCall: the ended session is not deleted from the repository.
EndCallKeepsSession(s, ss, rp) ==
    /\ repo' = rp
    /\ IF Live(rp[s], ss)
       THEN sessions' = [ss EXCEPT ![rp[s]] =
                          [@ EXCEPT !.state = "ended", !.mode = "listening"]]
       ELSE sessions' = ss

EndCall(s, ss, rp) ==
    \/ /\ Live(rp[s], ss)
       /\ sessions' = [ss EXCEPT ![rp[s]] =
                         [@ EXCEPT !.state = "ended", !.mode = "listening"]]
       /\ repo' = [rp EXCEPT ![s] = 0]
    \/ /\ ~Live(rp[s], ss)   \* the error is only logged
       /\ sessions' = ss /\ repo' = rp

\* Mutant of Resume: the VAD buffer is not reset when a call goes.
ResumeKeepsAudio(c, after, ss, rp, vd, cn) ==
    /\ frame' = [frame EXCEPT ![c] = NoFrame]
    /\ pc' = [pc EXCEPT ![c] = IF after = "loop" THEN "loop" ELSE "closing"]
    /\ connections' = IF after = "stop" THEN [cn EXCEPT ![stream[c]] = None] ELSE cn
    /\ vad' = vd
    /\ IF after = "stop" THEN EndCall(stream[c], ss, rp)
                         ELSE sessions' = ss /\ repo' = rp

Resume(c, after, ss, rp, vd, cn) ==
    /\ frame' = [frame EXCEPT ![c] = NoFrame]
    /\ \/ /\ after = "loop"
          /\ pc' = [pc EXCEPT ![c] = "loop"]
          /\ sessions' = ss /\ repo' = rp /\ vad' = vd /\ connections' = cn
       \/ /\ after = "stop"
          /\ pc' = [pc EXCEPT ![c] = "closing"]
          /\ connections' = [cn EXCEPT ![stream[c]] = None]
          /\ vad' = [vd EXCEPT ![stream[c]] = FALSE]
          /\ EndCall(stream[c], ss, rp)
       \/ /\ after = "drop"
          /\ pc' = [pc EXCEPT ![c] = "closing"]
          /\ vad' = [vd EXCEPT ![stream[c]] = FALSE]
          /\ sessions' = ss /\ repo' = rp /\ connections' = cn

\* The start of _transcribe_and_handle on session i.
Transcribe(c, after, i, ss) ==
    /\ pc' = [pc EXCEPT ![c] = "stt"]
    /\ frame' = [frame EXCEPT ![c] =
                    [NoFrame EXCEPT !.after = after, !.sess = i]]
    /\ sessions' = [ss EXCEPT ![i].mode = "thinking"]

-----------------------------------------------------------------------------
(* 'media' events *)

\* detect_interrupt: a loud chunk while the session speaks marks it, once.
Interrupted(x, loud) ==
    IF loud /\ x.mode = "speaking" /\ ~x.interrupted
    THEN [x EXCEPT !.interrupted = TRUE, !.mode = "listening"] ELSE x

\* The stored session after interrupt detection, and after taking the chunk.
Detected(i, loud) == [sessions EXCEPT ![i] = Interrupted(@, loud)]
Taken(i, loud) ==
    [sessions EXCEPT ![i] = [Interrupted(@, loud) EXCEPT !.mode = "listening"]]

MediaFor(c, i) == pc[c] = "loop" /\ stream[c] # None /\ i = repo[stream[c]] /\ i # 0

\* add_audio_chunk raises: any chunk may carry a number already seen.
MediaRefused(c, i, loud) ==
    /\ MediaFor(c, i)
    /\ sessions' = Detected(i, loud)
    /\ UNCHANGED <<sampleRate, repo, connections, vad, recent, pc, stream, rate,
                   frame, lastUtt, asker, heard>>

\* The chunk is taken only in the session's own format.
Accepts(i) == sessions[i].state # "ended" /\ sessions[i].rate = sampleRate

\* The VAD buffer drops the chunk or keeps it and waits.
MediaBuffered(c, i, loud) ==
    /\ MediaFor(c, i) /\ Accepts(i)
    /\ sessions' = Taken(i, loud)
    /\ \E b \in {vad[stream[c]], TRUE} : vad' = [vad EXCEPT ![stream[c]] = b]
    /\ UNCHANGED <<sampleRate, repo, connections, recent, pc, stream, rate,
                   frame, lastUtt, asker, heard>>

\* The buffer is flushed; too short an utterance is dropped.
MediaFlushed(c, i, loud) ==
    /\ MediaFor(c, i) /\ Accepts(i)
    /\ vad[stream[c]]
    /\ vad' = [vad EXCEPT ![stream[c]] = FALSE]
    /\ \/ Transcribe(c, "loop", i, Taken(i, loud))
       \/ sessions' = Taken(i, loud) /\ UNCHANGED <<pc, frame>>
    /\ UNCHANGED <<sampleRate, repo, connections, recent, stream, rate,
                   lastUtt, asker, heard>>

Media(c) == \E i \in SessionIds, loud \in BOOLEAN :
    MediaRefused(c, i, loud) \/ MediaBuffered(c, i, loud) \/ MediaFlushed(c, i, loud)

-----------------------------------------------------------------------------
(* 'clear', 'stop' and the loss of the connection *)

Clear(c) ==
    /\ pc[c] = "loop" /\ stream[c] # None
    /\ vad' = [vad EXCEPT ![stream[c]] = FALSE]
    /\ \/ /\ Live(repo[stream[c]], sessions)
          /\ sessions' = [sessions EXCEPT ![repo[stream[c]]].utts = {}]
       \/ /\ ~Live(repo[stream[c]], sessions)
          /\ UNCHANGED sessions
    /\ UNCHANGED <<sampleRate, repo, connections, recent, pc, stream, rate,
                   frame, lastUtt, asker, heard>>

\* finalize_stream: what the VAD buffer still holds is transcribed, unless it
\* is too short, the session is gone, or it has ended.
Finalize(c, after, cn) ==
    LET i == repo[stream[c]] IN
    \/ /\ vad[stream[c]] /\ Live(i, sessions)
       /\ Transcribe(c, after, i, sessions)
       /\ vad' = [vad EXCEPT ![stream[c]] = FALSE]
       /\ connections' = cn
       /\ UNCHANGED repo
    \/ Resume(c, after, sessions, repo, vad, cn)

\* 'stop': for the reasons of a cancelled call nothing is finalized, which is
\* the second alternative of Finalize.
Stop(c) ==
    /\ pc[c] = "loop" /\ stream[c] # None
    /\ Finalize(c, "stop", connections)
    /\ UNCHANGED <<sampleRate, recent, stream, rate, lastUtt, asker, heard>>

\* Mutant of Disconnect: the socket stays registered.
DisconnectKeepsSocket(c) ==
    /\ pc[c] = "loop" /\ stream[c] # None
    /\ Finalize(c, "drop", connections)
    /\ UNCHANGED <<sampleRate, recent, stream, rate, lastUtt, asker, heard>>

\* receive_text raises: the socket is unregistered before the pending audio
\* is worked on, and the session is left as it is.
Disconnect(c) ==
    /\ pc[c] = "loop" /\ stream[c] # None
    /\ Finalize(c, "drop", [connections EXCEPT ![stream[c]] = None])
    /\ UNCHANGED <<sampleRate, recent, stream, rate, lastUtt, asker, heard>>

\* A connection that never announced a stream has nothing to clean up.
Abandon(c) ==
    /\ pc[c] = "loop" /\ stream[c] = None
    /\ pc' = [pc EXCEPT ![c] = "closing"]
    /\ UNCHANGED <<sampleRate, calls, recent, stream, rate, frame, lastUtt,
                   asker, heard>>

Close(c) ==
    /\ pc[c] = "closing"
    /\ pc' = [pc EXCEPT ![c] = "closed"]
    /\ UNCHANGED <<sampleRate, calls, recent, stream, rate, frame, lastUtt,
                   asker, heard>>

-----------------------------------------------------------------------------
(* Transcription *)

\* A final utterance that does not repeat the previous one starts the AI
\* pipeline, which looks it up in the session the repository has now.
Utterance(c, t) ==
    LET s == stream[c]
        i == frame[c].sess
        u == lastUtt + 1
    IN /\ pc[c] = "stt"
       /\ lastUtt < MaxUtts     \* bound
       /\ recent[s] # t
       /\ lastUtt' = u
       /\ asker' = [asker EXCEPT ![u] = c]
       /\ sessions' = [sessions EXCEPT ![i].utts = @ \cup {u}]
       /\ frame' = [frame EXCEPT ![c] =
              [@ EXCEPT !.utt = u, !.text = t, !.held = repo[s], !.segs = 0]]
       /\ \/ /\ repo[s] = i
             /\ pc' = [pc EXCEPT ![c] = "llm"]
             /\ UNCHANGED recent
          \/ /\ repo[s] # i     \* not found there: logged, then recorded
             /\ recent' = [recent EXCEPT ![s] = t]
             /\ UNCHANGED pc
       /\ UNCHANGED <<sampleRate, repo, connections, vad, stream, rate, heard>>

\* Mutant of SttEnd: the session is not set back to listening.
SttEndKeepsMode(c) ==
    /\ pc[c] = "stt"
    /\ Resume(c, frame[c].after, sessions, repo, vad, connections)
    /\ UNCHANGED <<sampleRate, recent, stream, rate, lastUtt, asker, heard>>

\* The transcription is over: back to listening and save, unless the session
\* was ended meanwhile.
SttEnd(c) ==
    LET s == stream[c]
        i == frame[c].sess
    IN /\ pc[c] = "stt"
       /\ \/ /\ sessions[i].state # "ended"
             /\ Resume(c, frame[c].after, [sessions EXCEPT ![i].mode = "listening"],
                       [repo EXCEPT ![s] = i], vad, connections)
          \/ /\ sessions[i].state = "ended"
             /\ Resume(c, frame[c].after, sessions, repo, vad, connections)
       /\ UNCHANGED <<sampleRate, recent, stream, rate, lastUtt, asker, heard>>

\* The recognizer raises; the adapters do so only before their first result.
SttFail(c) ==
    /\ pc[c] = "stt"
    /\ frame[c].utt = 0
    /\ Resume(c, frame[c].after, sessions, repo, vad, connections)
    /\ UNCHANGED <<sampleRate, recent, stream, rate, lastUtt, asker, heard>>

-----------------------------------------------------------------------------
(* The AI pipeline: GenerateResponse, then StreamResponse *)

\* The pipeline is over, normally or by an exception that is only logged; the
\* utterance is recorded for duplicate suppression.
PipelineOver(c) ==
    /\ pc' = [pc EXCEPT ![c] = "stt"]
    /\ recent' = [recent EXCEPT ![stream[c]] = frame[c].text]

\* Mutant of LlmAnswer: set_speaking does not look at the call state.
LlmAnswerUnchecked(c) ==
    LET h == frame[c].held IN
    /\ pc[c] = "llm"
    /\ repo' = [repo EXCEPT ![stream[c]] = h]
    /\ sessions' = [sessions EXCEPT ![h].mode = "speaking"]
    /\ pc' = [pc EXCEPT ![c] = "tts"]
    /\ UNCHANGED <<sampleRate, connections, vad, recent, stream, rate, frame,
                   lastUtt, asker, heard>>

\* The answer, or the degraded text, is complete: stored and saved, and the
\* session starts to speak unless it was ended meanwhile.
LlmAnswer(c) ==
    LET h == frame[c].held IN
    /\ pc[c] = "llm"
    /\ repo' = [repo EXCEPT ![stream[c]] = h]
    /\ \/ /\ sessions[h].state # "ended"
          /\ sessions' = [sessions EXCEPT ![h].mode = "speaking"]
          /\ pc' = [pc EXCEPT ![c] = "tts"]
          /\ UNCHANGED recent
       \/ /\ sessions[h].state = "ended"
          /\ PipelineOver(c)
          /\ UNCHANGED sessions
    /\ UNCHANGED <<sampleRate, connections, vad, stream, rate, frame, lastUtt, asker, heard>>

\* The model fails after its first token, or its text is blank.
LlmFail(c) ==
    /\ pc[c] = "llm"
    /\ PipelineOver(c)
    /\ UNCHANGED <<sampleRate, calls, stream, rate, frame, lastUtt, asker, heard>>

\* One more segment: dropped without a registered socket, else on its way to
\* the socket registered now.
TtsSegment(c) ==
    LET socket == connections[stream[c]] IN
    /\ pc[c] = "tts"
    /\ frame[c].segs < MaxSegs     \* bound
    /\ frame' = [frame EXCEPT ![c].segs = @ + 1, ![c].socket = socket]
    /\ pc' = [pc EXCEPT ![c] = IF socket = None THEN "tts" ELSE "send"]
    /\ UNCHANGED <<sampleRate, calls, recent, stream, rate, lastUtt, asker, heard>>

\* Mutant of Send: an error on the socket is not caught and retried for ever.
SendUntilSent(c) ==
    LET socket == frame[c].socket IN
    /\ pc[c] = "send"
    /\ IsOpen(socket)
    /\ pc' = [pc EXCEPT ![c] = "tts"]
    /\ heard' = [heard EXCEPT ![socket] = @ \cup {frame[c].utt}]
    /\ UNCHANGED <<sampleRate, calls, recent, stream, rate, frame, lastUtt, asker>>

\* The paced send returns; an error on the socket is only logged.
Send(c) ==
    LET socket == frame[c].socket IN
    /\ pc[c] = "send"
    /\ pc' = [pc EXCEPT ![c] = "tts"]
    /\ \/ IsOpen(socket) /\ heard' = [heard EXCEPT ![socket] = @ \cup {frame[c].utt}]
       \/ UNCHANGED heard
    /\ UNCHANGED <<sampleRate, calls, recent, stream, rate, frame, lastUtt, asker>>

\* The synthesis of a nonblank text ends after at least one segment.
TtsEnd(c) ==
    LET h == frame[c].held IN
    /\ pc[c] = "tts"
    /\ frame[c].segs > 0
    /\ \/ /\ sessions[h].state # "ended"
          /\ sessions' = [sessions EXCEPT ![h].mode = "listening"]
          /\ repo' = [repo EXCEPT ![stream[c]] = h]
       \/ /\ sessions[h].state = "ended"
          /\ UNCHANGED <<sessions, repo>>
    /\ PipelineOver(c)
    /\ UNCHANGED <<sampleRate, connections, vad, stream, rate, frame, lastUtt, asker, heard>>

TtsFail(c) ==
    /\ pc[c] = "tts"
    /\ PipelineOver(c)
    /\ UNCHANGED <<sampleRate, calls, stream, rate, frame, lastUtt, asker, heard>>

\* The duplicate window of a stream passes.
WindowOver(s) ==
    /\ recent[s] # None
    /\ recent' = [recent EXCEPT ![s] = None]
    /\ UNCHANGED <<sampleRate, calls, pc, stream, rate, frame, lastUtt, asker, heard>>

-----------------------------------------------------------------------------
Receive(c) ==
    \/ Connect(c)
    \/ \E s \in Streams : Start(c, s)
    \/ Media(c)
    \/ Clear(c)
    \/ Stop(c)
    \/ Disconnect(c)
    \/ Abandon(c)

Work(c) ==
    \/ \E t \in Texts : Utterance(c, t)
    \/ SttEnd(c)
    \/ SttFail(c)
    \/ LlmAnswer(c)
    \/ LlmFail(c)
    \/ TtsSegment(c)
    \/ Send(c)
    \/ TtsEnd(c)
    \/ TtsFail(c)
    \/ Close(c)

Next ==
    \/ \E c \in Conns : Receive(c) \/ Work(c)
    \/ \E s \in Streams : WindowOver(s)

\* A task that is not waiting for its peer keeps running: the event loop
\* schedules it and the STT, LLM and TTS services answer or raise.
Fairness == \A c \in Conns : WF_vars(Work(c))

Spec == Init /\ [][Next]_vars
FairSpec == Spec /\ Fairness

-----------------------------------------------------------------------------
(* Properties *)

\* Type invariant of the service's state.
TypeOK ==
    /\ sampleRate \in Rates
    /\ Len(sessions) <= MaxSessions
    /\ \A i \in DOMAIN sessions :
          sessions[i] \in [stream : Streams, rate : Rates, state : {"active", "ended"},
                          mode : {"listening", "thinking", "speaking"},
                          utts : SUBSET Utts, interrupted : BOOLEAN]
    /\ repo \in [Streams -> 0 .. Len(sessions)]
    /\ connections \in [Streams -> Conns \cup {None}]
    /\ vad \in [Streams -> BOOLEAN]
    /\ recent \in [Streams -> Texts \cup {None}]
    /\ pc \in [Conns -> Phases]
    /\ stream \in [Conns -> Streams \cup {None}]
    /\ rate \in [Conns -> Rates]
    /\ frame \in [Conns -> [after : {"loop", "stop", "drop"}, sess : 0 .. MaxSessions,
                            held : 0 .. MaxSessions, utt : 0 .. MaxUtts,
                            text : Texts \cup {None}, segs : 0 .. MaxSegs,
                            socket : Conns \cup {None}]]
    /\ lastUtt \in 0 .. MaxUtts
    /\ asker \in [Utts -> Conns \cup {None}]
    /\ heard \in [Conns -> SUBSET Utts]

\* The adapter never holds the socket of a connection that is closed or being
\* torn down after a disconnect, whatever else the stream's other connections
\* do: audio is routed to a socket whose task still serves that stream.
RegisteredIsOpen ==
    \A s \in Streams : LET c == connections[s] IN
        c # None => /\ IsOpen(c)
                    /\ stream[c] = s
                    /\ frame[c].after # "drop"

\* A session says "speaking" only while a task that works on one of its
\* utterances is running: whatever fails in synthesis or sending, the state
\* never sticks once the task reads again, which would make the next chunk of
\* the caller look like an interruption.
SpeakingEnds ==
    \A i \in DOMAIN sessions : sessions[i].mode = "speaking" =>
        \E c \in Conns : pc[c] \in Busy /\ frame[c].sess = i

\* Ending a call is final also for the tasks still holding its session: an
\* ended session is never thinking or speaking again.
EndedStaysQuiet ==
    \A i \in DOMAIN sessions :
        sessions[i].state = "ended" => sessions[i].mode = "listening"

\* The rule of SessionRepositoryPort: a stream maps to its one active session,
\* and every session that has not ended is the one its stream maps to.
OneActiveSession ==
    /\ \A s \in Streams : repo[s] # 0 => sessions[repo[s]].state = "active"
    /\ \A i \in DOMAIN sessions :
          sessions[i].state = "active" => repo[sessions[i].stream] = i

\* The answers to a connected caller go to that caller: a connection that has
\* announced its stream and has not failed is the one the adapter would use,
\* up to the moment its 'stop' has been worked off.
LiveCallReachable ==
    \A c \in Conns : IsOpen(c) /\ stream[c] # None /\ frame[c].after # "drop"
        => connections[stream[c]] = c

\* No cross-talk: whatever other calls, hang-ups and calls reusing the stream
\* do while an answer is generated, spoken and paced out, it is heard only on
\* the connection whose audio was transcribed.
AnswersReachTheirCaller ==
    \A c \in Conns : \A u \in heard[c] : asker[u] = c

\* A connection closed by 'stop' leaves nothing of its call behind, also when
\* the stop had to wait for pending audio to be answered first: no stored
\* session, no registered socket, no buffered audio (UC-005).
StopCleansUp ==
    [][\A c \in Conns :
          /\ Stop(c) \/ (pc[c] \in Busy /\ frame[c].after = "stop")
          /\ pc'[c] = "closing"
        => /\ repo'[stream[c]] = 0
           /\ connections'[stream[c]] = None
           /\ ~vad'[stream[c]]]_vars

\* Every event is worked off: a task busy with one goes back to reading or
\* closes, and a connection being closed gets closed.
EventWorkedOff ==
    \A c \in Conns :
        pc[c] \in Busy \cup {"closing"} ~> pc[c] \in {"loop", "closed"}

\* UC-001, multiple callers: a call is unaffected by another one, so the rate
\* its audio is read with is the rate it negotiated.
CallKeepsItsRate ==
    \A c \in Conns : pc[c] = "loop" /\ stream[c] # None => sampleRate = rate[c]

\* UC-002, audio during playback: while the AI speaks the caller's audio is
\* still processed, so that an interruption can be detected.
SpeakingIsInterruptible ==
    \A c \in Conns : pc[c] \in {"tts", "send"} /\ sessions[frame[c].held].mode = "speaking"
        => \E d \in Conns : pc[d] = "loop" /\ stream[d] = stream[c]

\* UC-005, sudden disconnection: the session of a lost call is ended.
LostCallIsEnded ==
    \A c \in Conns : pc[c] = "closed" /\ stream[c] # None => repo[stream[c]] = 0
=============================================================================
