# Verification of the voice pipeline

TLA+ models of the Exotel voice assistant in `src/`: a FastAPI server that
accepts a telephone call as a WebSocket stream, buffers the caller's audio,
transcribes it, lets a language model answer, and speaks the answer. Paths
below are relative to the repository; `src/...` is its Python package.

Contents: [system](#the-system), [modules](#modules-and-their-correspondence-to-the-code),
[runs](#runs), [proofs](#proofs), [divergences](#where-code-and-documents-disagree),
[what is not modelled](#what-is-not-modelled), [plan](#plan).

To check: `tlc -config X.cfg M` for each pair in the table of runs, `tlapm
M.tla` for each `*Proofs` module.

## The system

| Component | State | Operations | Talks to |
|---|---|---|---|
| `ExotelWebSocketHandler` (`src/infrastructure/exotel_websocket_handler.py`) | the last negotiated sample rate, one field for all connections; per connection the local `stream_id` | one loop per connection over `connected`, `start`, `media`, `mark`, `dtmf`, `clear`, `stop`, loss of the connection | use cases (awaited), repository, audio adapter, buffer manager, recognizer |
| Use cases (`src/use_cases/`) | `ProcessAudio` keeps the last final text of every stream; the others keep nothing | accept, process audio, finalize stream, generate response, stream response, end, reset | repository, STT, LLM, TTS, each other |
| `ConversationSession`, `CallSession` (`src/domain/`) | life cycle, interaction state, ordered and waiting audio chunks, context, interrupts, noise floor | the methods of the aggregate | only called |
| `InMemorySessionRepository` | stream → session | get, save, delete, never suspending | only called |
| `AudioBufferManager` | per stream: state, chunks, two time stamps | add chunk, flush, reset | voice activity detector |
| `ExotelCallerAudioAdapter` | stream → socket, numbering and pacing | register, unregister, send segment | sockets |
| `TokenRingBuffer`, `StreamingGenerateResponse` | bounded token queue, two events, two tasks | put, get, complete; produce, consume | LLM, TTS, session's interrupt flag |
| `RedisSessionRepository` | sessions and locks in Redis, both expiring | save, get, delete, lock with retries and back-off | Redis |
| `CircuitBreaker` | circuit state, failure count, time of the last failure | guarded call, reset | a service |
| `TimeoutHandler`, `FallbackStrategy` | one hop count and level for all requests | calls under a limit, through three tiers | providers |
| `ProviderFallback` | counts, status and cost of each provider, the current one | call, record cost, resets | providers |
| `SemanticCache`, `CachedGenerateResponse` | two expiring Redis keys per answer | lookup, store, clear | Redis, LLM |
| `HierarchicalRateLimiter` | token buckets per tenant, region, globally, per stream | checks, reload, clean-up | configuration |
| `CostTracker` | accounts of day and month, by call, provider, user | record, resets, budget checks | – |
| `PostgresCallLogger` | one database connection and its transaction | log a call, queries | PostgreSQL |
| `EnhancedAudioBufferManager` | six dictionaries per stream | add chunk, flush, reset | detector, energy analyzer |
| `GoogleSTTAdapter` | audio collected per stream | transcribe (in a thread), flush | Google |
| Server (`src/infrastructure/server.py`) | open sockets, shutdown event | start-up, `/stream`, draining | all of the above |
| `scripts/sim_exotel.py` | a script of events per call | connect, send, collect the answer | the server in `DEV_MODE` |

The server of this commit wires the handler, the use cases, the in-memory
repository, the voice buffer and the adapters. It makes a rate limiter that
nothing asks (`server.py:197`) and reports on a cost tracker and a cache that
nothing sets (`server.py:481`, `547`). The Redis repository, breaker, fallbacks,
call log and enhanced buffer are used by tests only. All of these are modelled as
what they are: classes whose methods concurrent tasks may call in any order.

Everything runs in one asyncio event loop. A task keeps the processor until it
really suspends, so a step of a model is everything a task does between two
suspensions. The behaviours that are hard to test come from what happens *at*
the suspensions: other connections change the shared handler, the repository
and the adapter while one connection waits for a service; a call is ended, lost
or announced again while its answer is being produced; two tasks hand tokens to
each other through a bounded buffer. The other source of difficulty is order:
chunks arrive early, twice or late, methods are called in any order, and
pauses are measured at the moment some later chunk comes.

What makes the components correct:

* a session's audio is the caller's audio in sequence, and an ended call is final;
* a stream has one session, a caller hears only the answers to what he or she
  said, a `stop` leaves nothing behind, and every event is worked off;
* an utterance loses no speech, is not cut off early and does not wait for ever;
* an answer is spoken token by token, in order, to its end, and its audio leaves
  the server in the order of its numbers and times;
* the audio a recognizer is given is recognized once;
* instances that share a session under its lock are there one at a time, and one
  loses only such changes of another as were saved between its own get and save;
* counts that concurrent calls share (failures, tokens, costs, records) say what
  happened, in whatever order results come back;
* whatever waits for a provider, a service or a lock gets away from it.

The 40 hazards these properties are aimed at are listed, each with its line, in
`PROJECT.json`.

## Modules and their correspondence to the code

| Module | Models |
|---|---|
| `ChunkReassembly` | abstract promise about a caller's audio |
| `ConversationSession` | the aggregate; implements `ChunkReassembly` |
| `ConversationSessionProofs` | theorems about it |
| `CallPipeline` | all connections, the use cases, repository, registration |
| `CallPipelineProofs` | theorems about it |
| `AudioBufferManager` | the voice activity buffer of one stream |
| `AudioBufferManagerProofs` | theorems about it |
| `TokenStream` | token buffer and the two tasks of a streaming answer |
| `TokenStreamProofs` | theorems about it |
| `OutboundAudio` | numbering and pacing of an answer's segments |
| `SpeechRecognizer`, `EnhancedAudioBuffer` | the two other places where the caller's audio waits |
| `RedisSessions` | instances sharing a session, lock included |
| `CircuitBreaker`, `ProviderFallback`, `GracefulDegradation` | calls to providers |
| `DependencyProofs` | theorems about these three and `RedisSessions` |
| `SemanticCache`, `RateLimiter`, `CostTracker`, `CallLog`, `ServerDrain` | the classes of these names |
| `OperationsProofs` | theorems about all five |
| `SimulatedCall` | the simulator's calls against the stubs |
| `AudioProofs` | theorems about it, `OutboundAudio`, `SpeechRecognizer`, `EnhancedAudioBuffer` |
| `MCServices` | runs the thirteen modules from `OutboundAudio` to `SimulatedCall` |
| `MCServicesProofs` | why a result about one of them is a result about the run |
| `MC...` | the modules TLC runs on; the values are in the `.cfg` files |

**ConversationSession.** One action per public method. A method that raises
does so before it assigns anything, so raising is not being enabled. A chunk is
its number; `buffered_chunks` is the key set of `_buffered_chunks`, and `Flushed`
and `StillBuffered` are the result of the drain loop, given by the gap at which
it stops instead of by iteration. Context lists are their lengths.

**CallPipeline.** `pc[c]` says where the task of connection `c` is suspended:
reading (`loop`), in the recognizer, the model or the synthesis, in a paced
send, or closing the socket. `frame[c]` holds the locals of the `ProcessAudio`
call in progress, above all the *references* to sessions that the code loads
before a suspension and uses after it. `sessions` is the heap of session
objects, `repo` maps a stream to one of them, so a stale reference stays usable
as in Python. `Finalize` and `Resume` are the clean-up shared by `stop`, the
loss of the connection and the return from a media event. The decision of the
voice activity buffer is nondeterministic here (`AudioBufferManager` has the
details), and so is the acceptance of a chunk number (`ConversationSession`).
`asker`, `heard`, `rate` are history variables for the properties.
The repository here is the in-memory one, which the server wires; Redis suspends
and has a model of its own.

**AudioBufferManager.** One stream, as streams share nothing. A chunk is the
detector's decision about it. `quiet` and `age` are the time since the two time
stamps, counted up to the threshold they are compared with, so time itself needs
no bound. `missing` (speech not yet returned) and `pause` (time since the last
speech) are history variables. Each branch of `add_chunk` is an operator.

**TokenStream.** Token *k* is the number *k*. A turn of the loops in `put` and
`get` is one step: nothing inside them suspends while the lock is held. An
`asyncio.Event` that is set and cleared again before a waiter runs has woken
that waiter all the same, so an event is modelled by who waits for it. Phrases
are cut nondeterministically.

**OutboundAudio.** One stream. `SendSegment` is `send_segment` up to its sleep:
the segment gets its numbers and its time, and unless it may go at once it waits
in `waiting`; `SendNow` is the rest. Meanwhile other tasks number theirs, marks
and clears take numbers without waiting, the pacing may be off, and another
connection may be registered, which starts the numbers again while a sleeping
segment still belongs to the old socket. Assumed: the event loop is never a whole
segment late (`OutboundTick` waits for segments that are due).

**SpeechRecognizer.** Units of audio are numbered, so that sets of them say what
is buffered, in a thread, transcribed or dropped. Two connections of a stream
feed one buffer, each waiting for its own recognition.

**EnhancedAudioBuffer.** A chunk is what `detect_speech` and the analyzer see of
it; `DetectSpeech`, `Voiced` and `Quiet` are the decisions. One operator per
branch of `add_chunk`. `owed` is history.

**RedisSessions.** A session is its utterances and whether the call is active;
`Restored` is a round trip through JSON, after which the call is no longer
active. Each Redis command is a step that may fail before or after it was
carried out. A session is read, changed and saved in two ways: under `stream_lock`
(`Enter`, `Try` with `Refused` and its back-off, `Load`, `Save`, `Release`), as the
module documents it and its tests do, and without (`UseCaseGet`, then `Save`), as
`process_audio`, `generate_response` and `reset_session` do, which wait for their
services in between. Accepting and ending a call take no lock either (`AcceptGet`,
`EndGet` ...). `Crash` forgets an instance, `RedisTick` lets keys expire.
History: `kept` is what saves have reported as done and nobody has cleared since,
`missed[i]` what others have stored since the get of `i`, `overtaken` what was lost to
a save of somebody who had missed it, `outlived` who is at work although a lock
expired under him, or was deleted by one to whom that had happened.

**CircuitBreaker.** The function is called outside the lock, so `BeginCall` and
`Succeed`/`Fail` are separate steps and the state in between is everybody's.
`Recover` is the environment.

**GracefulDegradation.** Requests that share a `FallbackStrategy`, each inside one
of the functions of `TimeoutHandler`; `wait_for` cancels a request in whatever tier it is.

**ProviderFallback.** `CallWithFallback` runs to the first await, `Served`,
`ServedNothing` and `Failed` from one await to the next. Budgets, availability of
adapters and switching the fallback off are in the guards.

**SemanticCache.** A use case's lookup reads key after key, each of which may
have expired meanwhile; storing is two commands. An answer is the utterance it
was generated for; similarity is any relation, not necessarily transitive.
Assumed: `clear` is one step (a store between its two commands counts as after it).

**RateLimiter.** `check_all_limits` goes from level to level, one step each, since
each takes and releases the lock; streams and client addresses have a check of their
own, and only streams are cleaned up. A bucket is made at first use with the limits of
that moment and keeps them. History: `granted` is what the *configuration* allows a key
since its first use, `admitted` what passed, and `outdated` the keys whose limits were
changed while their bucket was in use, which are not counted any more.

**CostTracker.** `record_call` with its accounts; `RecordCallFails` is the call
that raises between two accounts; `torn` says that one of this month did.

**CallLog.** `db_pool` is the connection as PostgreSQL sees it. `BeginLog`,
`InsertRecord`, `CommitLog` are the suspensions of `log_call`; queries never
commit or roll back. External: an error makes a transaction useless until it is
rolled back, and committing a useless one rolls it back without an error.

**ServerDrain.** Sockets, the shutdown event, the drain loop with its time limit.
Connections end when they like, or never.

**SimulatedCall.** Each client of a scenario sends its script at any speed into a
socket that the handler works off in order; `MediaAnswered` and `Speaks` are the
answer of the stubs, paced segment by segment, `IsDuplicateFinal` the window in
which repeated words are ignored, measured from the end of an answer.

## Runs

| Run | Configuration | Instance | Question |
|---|---|---|---|
| `session` | `MCConversationSession.cfg` | chunk numbers 0 to 4, one entry per context list, 2 interrupts | does the aggregate reassemble, and freeze at the end? |
| `pipeline_calls` | `MCPipeline_Calls.cfg` | 2 connections, 2 streams, 2 sessions, 2 utterances, 2 segments | are calls kept apart while their tasks interleave? |
| `pipeline_reconnect` | `MCPipeline_Reconnect.cfg` | 2 connections on 1 stream at once | what still holds when two tasks share a session; liveness |
| `token_stream` | `MCTokenStream.cfg` | capacity 2, up to 5 tokens, 2 segments a phrase | order, wake-ups, termination |
| `audio_buffer` | `MCAudioBufferManager.cfg` | silence 2, age 4, 4 chunks | segmentation into utterances |
| `services` | `MCServices.cfg` | thirteen components, see below | what each keeps while its tasks interleave |
| `services_live` | `MCServices_Live.cfg` | breaker, degradation, Redis and drain, with fairness | does everything that waits get away? |
| `pipeline_rate`, `pipeline_lost_call`, `pipeline_barge_in`, `audio_buffer_age`, `breaker_one_trial` | one property each | as small as the counterexample needs | statements of the documents the code does not keep |

**One run for thirteen components.** `MCServices` is a sum, not a composition:
the initial state picks one component (`service`), every step is a step of that
one, and the others stay as they were made. That is sound because the code lets
these components share nothing, and it is all the run claims: it shows no
interaction *between* them. An invariant of another component holds trivially in
such a state; each has its own states among the 973 627.

**Bounds.** Chunk numbers up to 4 give a chunk that is expected, one early by
one, two that make gaps of different sizes and one below the first; a drain
over several buffered chunks happens. Two connections and two streams give both
two calls at once and two calls one after the other on one stream
(`Overlap = FALSE`: the telephony provider announces a stream again only when
its connection is gone); `Overlap = TRUE` is the automatic retry the server's
docstring mentions meeting a first connection that still works. Two sessions and
two utterances let one call's answer be under way while the other is ended or
its stream used again. Connections and streams are symmetric in `pipeline_calls`,
which has no liveness property. A capacity of two with five tokens makes the
producer block, wake and block again. In the buffer the maximal age is larger
than the silence threshold, as in the configuration (30 s and 700 ms), and the
buffer can hold speech, a pause, resumed speech and a pause again.

In `services` every component has two actors (the breaker three, so that one can
be late while two fail), which is what its races need. Breaker: threshold 2 and
up to 5 counted failures, so the count runs past the threshold while the circuit
is open. Fallback: two providers, five calls each, since the status is judged by
one error in five. Cache: three utterances of which the second is like both
others, which are not alike, so that answers could drift. Limiter: two
configurations that swap which level is the narrow one, with a tenant, a region, a
stream and a client address. Redis: two instances and two texts, a lock of two ticks, a
session of three, three attempts with back-offs of 1 and 2, so that a lock or a
session may expire during any operation. Call log: three records, two with the
same call id and one malformed. Enhanced buffer: four chunks with thresholds
1 < 2 < 3. Outbound: two tasks, two connections, two segments of two ticks.
Recognizer: chunks of one or two units, six in all, two needed. Simulator: the
real scripts (nine, six or three chunks) with answers of two segments, as the
stub's 400 ms in 200 ms pieces. The server's window of 2 s, ten such ticks, is
scaled to two, which is still longer than the pause within an answer. Costs:
calls of 0 or 1 per service, three per month. Symmetry is not
used where an utterance or a call differs from the others.

**Deadlock** is not checked: calls end, bounds are reached, both tasks return, a
server that has drained is down.

**Fairness.** `CallPipeline`: weak fairness of the work of each task, because the
event loop runs every task that is ready, and because the recognizer, model and
synthesis streams end or raise (they are finite, and their client libraries have
deadlines); nothing is assumed of the peer, whose events may never come.
`TokenStream`: the same for the two tasks. `AudioBufferManager`: time passes and
the line keeps sending chunks, silent ones included, as a media stream does
during a call; without that assumption a caller who falls silent is not answered
before the `stop`, since a buffer is looked at only when a chunk comes. `MCServices`:
time passes in breaker, degradation and Redis. Breaker: callers keep calling, and a service that
has recovered answers; a service that has not may hang for ever. Degradation:
nothing of the providers, only that `wait_for` acts when its time is over. Redis:
an instance at work takes its next step unless it crashes, since `redis` commands
return or raise. Drain: only its own loop goes on; no connection has to end.

**What the runs show.**

* `session`: `ChunksInOrder` holds for every order of
  arrival, duplication, reset and ending; every behaviour is one of
  `ChunkReassembly`; `EndedIsFinal` states exactly which fields `end()` freezes
  (the context lists and the interrupt flag are not among them).
* `pipeline_calls`: one session per stream (`OneActiveSession`), no cross-talk
  (`AnswersReachTheirCaller`), the live caller stays reachable
  (`LiveCallReachable`), and `stop` cleans up even when it has to answer first
  (`StopCleansUp`).
* `pipeline_reconnect`: with two tasks on one session, no socket of a closed
  connection stays registered (`RegisteredIsOpen`), speaking still ends
  (`SpeakingEnds`), an ended session stays quiet (`EndedStaysQuiet`), and every
  event is worked off (`EventWorkedOff`). `OneActiveSession` and
  `LiveCallReachable` do *not* hold here, see below.
* `token_stream`: `TokensInOrder` accounts for every token in one of five places;
  `NoLostWakeup` is the reason why the clear-then-wait of the events is safe;
  `EverythingSpoken` is termination without interrupt or error.
* `audio_buffer`: `SpeechKept`, `CutOnlyWhenDue` and `QuietCallerIsAnswered` are
  the three promises of segmentation, `StateMatchesBuffer` what they rest on.

* `services`, what goes out: `AudioInOrder`, although tasks sleep between
  numbering and sending; marks and clears may overtake what sleeps.
  What comes in: `AudioHeardOnce`, because the buffer is replaced before the
  thread starts; `EnhancedKeepsSpeech`. Both ends together: `CallsAreAnswered` and
  `RepeatsAreSpacedOut`, the simulator's expectation and the meaning of the
  window that ignores repeated words.
* `services`, shared sessions: `OneInside` says that whoever is between acquire and
  release without having the lock has outlived it, or was deprived of it by a `DEL` of
  one who had: replies that are lost, crashes and refused attempts do not lead there.
  It does not exclude that `DEL`, which the code has. `UpdatesSurvive` says what
  is left without a lock: of what saves reported as done, a stored session lacks only
  what a save overtook that had been read before. So a use case that reads after
  another has saved loses nothing, and two whose get and save overlap may.
* `services`, shared counts: `CountMatchesCircuit` (a late success in OPEN changes
  nothing, and one failed trial reopens), `DegradedIsFailing` (status and counts; it says
  nothing about `current_provider_index`), `WithinRate` (by the configured limits; keys
  whose limits change under their bucket are left out), `AccountsAgree` (no account
  exceeds the one it is part of, and without a failed entry the day is
  with the providers and with the users; the failed entry itself is not excluded),
  `LossNeedsAFailure` (tasks may commit each other's records, never lose
  them without an error somewhere; who is told of it is left open), `AnswersAreRelated`.
* `services_live`: `RecoveryCloses`; `RequestEnds` (by the limits, whatever the hop
  count says); `LockIsFreed` (by expiry if not by its holder; whose it is next is
  `OneInside`); `DrainEnds`, although nothing closes the connections.

Every property of a passing run has a mutant: a form of one action with a bug
(kept in the module next to the action, marked "Mutant of") under which TLC
finds the property violated.

## Proofs

Checked by TLAPS, for every value of the constants:

* `ConversationSessionProofs`: `TypeCorrect`, `AudioInSequence`,
  `ImplementsReassembly`, `EndedCallIsFrozen`. The inductive invariant is
  `TypeOK /\ ChunksInOrder /\ BufferWaitsBehindGap`: that the list is in order
  after a drain needs the buffer to lie beyond the gap, and that the buffer lies
  beyond the gap after a drain needs the drain to stop at `NextGap`, whose
  existence is a lemma on finite intervals. The refinement proof maps arrivals
  to `Receive`, a reset to `Forget`, all else to stuttering.
* `TokenStreamProofs`: `StreamTypeCorrect`, `NoTokenLost`, `NoTaskOversleeps`.
  `TypeOK /\ TokensInOrder /\ NoLostWakeup` is inductive. A blocked `put` holds
  a token, so the order of what is spoken, collected, buffered and held has to be
  carried through the moves between them (`MoveHead`, `ConcatAppend`);
  `HeldIsToken` derives from the order itself that the held token is one of the
  answer.
* `AudioBufferManagerProofs`: `BufferTypeCorrect`, `BufferStateCorrect`,
  `NoSpeechLost`, `NothingCutEarly`. The three invariants are inductive together.
  `NothingCutEarly` is an action property that follows from
  `quiet <= pause`: the silence being timed is free of speech.
* `CallPipelineProofs`: eight theorems, from two invariants.
  - `PipelineInv` holds whatever the peers do, two connections of one stream
    included. A task at work has locals that fit its phase (`Frames`), the sessions
    it refers to are of its own stream (`OwnSession`), and what is registered is open;
    with that every step leads back to `PipelineTypesHold` and
    `RegisteredSocketIsOpen`. `NobodySpeaksForNothing` needs more: the task behind
    a speaking session is at an utterance of it (`SpeakerHasUtterance`), so it does not
    leave by the error of a recognizer that gave no result.
    `EndedIsFinal` rests on a session never leaving the state "ended", which every
    step is shown to keep (`SessionsKept`).
  - `CallInv` needs peers that announce a stream only when its older connection is
    gone (`~Overlap`; some of these properties fail with it, see below). Then a stream has one
    connection that is not closed (`OneOwner`), so nobody else ends or registers what
    that one works on, and the session its task loaded before a suspension is still
    the stored one after it (`FrameIsStored`). From this follow
    `OneSessionForAStream`, `CallerIsReachable`, `NoCrossTalk` (whoever hears an
    utterance asked it) and `StoppedCallLeavesNothing`.

  `Resume` and `Transcribe`, the code after a media event, occur in five actions.
  What they do is stated once (`Returned`, `Started`).
* `AudioProofs`.
  - `MediaInOrder`: the segments held back for one socket are ordered by number and by
    time alike and count down to one clock (`InStep`), what was sent is before all of
    them (`SentFirst`), and those of the connected socket agree with the adapter's
    clock (`OnTheClock`); so the first is due first, and a segment that need not wait
    finds none waiting before it.
  - `EveryUnitHeardOnce` is inductive once the buffer is known to be finite and to
    come last; `SpeechIsKept` once each timer is known to run in its states.
  - `RepeatsWaitForSilence`: while nothing is being said to a caller, the time since
    the last final is the silence he or she has heard (`WindowIsSilence`). `SimulatedCallsAnswered`: a call has had too
    little media to be recognized, or its first answer is on its way, or was sent
    whole (`FirstAnswer`). It assumes `TriggerEvery <= 3`, since the shortest script has three
    chunks; the server gives the stub the value 1, and 3 is its default.
* `DependencyProofs`.
  - `LockExcludes` is inductive with the types. `OnlyOvertakenUpdatesAreLost`: what an
    instance has read is carried along from its get to its save: it knows everything kept
    but what it clears, what was stored since its get, and what was lost before
    (`NothingElseMissed`); so its save loses no more than that (`StoreKeeps`).
  - `CircuitFollowsCount`, `DegradedMeansFailing`: both are inductive with the types;
    which call an outcome belongs to does not matter, and the proofs show exactly that.
* `OperationsProofs`.
  - `LossesAreExplained`: a record about to be committed is in the transaction, in the
    table, or struck by a failure. `AnswersStayRelated`: an entry answers its own
    utterance and only a good match is fetched.
  - `AdmittedWithinRate`: tokens in the bucket, admitted requests and requests still
    between levels together never exceed what the configuration allows, as a bucket that
    is not outdated is filled at the configured rate; the count of the requests between
    levels needs `PassedCount` on cardinalities.
  - `CostsAgree`: a call adds the same amount to a user, to day and month and, unless it is
    torn, to the providers, and a reset of the day leaves no account of the day behind. The sums are a recursive function over subsets. That it
    exists (`SumsExist`) and that raising one entry raises the sum as much
    (`SumsDiffer`) is shown by a smallest counterexample in a well-founded order (`WFMin`),
    as the induction theorems with an operator parameter cannot be used.
* Types: every module that TLC runs has its type invariant proved
  (`BreakerTypesHold`, `RedisTypesHold`, ...); of these `PROJECT.json` lists the ones
  that are properties of a run.
* `MCServicesProofs`: `Spec` of `MCServices` implies the specification of each of the
  thirteen modules, so what is proved of one of them holds in the composition;
  `ServicesTypesHold` is drawn from that.

Assumptions on the constants are the named `ASSUME`s of the modules: positive
bounds and thresholds, `Unset` not a number, finitely many requests at a time,
finitely many users and calls (`CostTracker`), finitely many lengths of segments
(`OutboundAudio`), which is what one process can have.

Only model-checked: the liveness properties (`EventWorkedOff`, `EverythingSpoken`,
`QuietCallerIsAnswered`, `RecoveryCloses`, `RequestEnds`, `LockIsFreed`, `DrainEnds`), since
liveness under fairness and ENABLED are beyond the prover. Every invariant and
every action property of the passing runs has a theorem.

## Where code and documents disagree

Shown by a run (quotations in `PROJECT.json`):

1. `pipeline_rate`: the handler keeps one sample rate for all calls
   (`exotel_websocket_handler.py:181`, `server.py:594`).
2. `pipeline_lost_call`: a call lost without `stop` is not ended
   (`exotel_websocket_handler.py:149`); its session stays, and if the stream
   comes back, its restarted chunk numbers are refused as duplicates.
3. `pipeline_barge_in`: while an answer is spoken the connection is not read, so
   an interruption is not noticed (`exotel_websocket_handler.py:278`).
4. `audio_buffer_age`: the maximal age of a buffer is not looked at when a
   silent chunk comes or a silence is being timed (`audio_buffer_manager.py:140`).

5. `breaker_one_trial`: in HALF_OPEN every caller is let through
   (`circuit_breaker.py:94`), where one is promised.

Read in the code while modelling, and in the models, but not stated as properties:

* `conversation_session.py:165` says that `end()` prevents further
  modifications; the three adders of context (340, 376, 391) do not look at the
  state. Line 348 says a reset preserves the audio chunks; line 360 empties the
  waiting ones (`EndedIsFinal` and `ChunkReassembly!Forget` state what holds).
* With two connections on one stream the save of an answer
  (`generate_response.py:86`) can bring back a session that the other connection
  ended, and the loss of the older connection (handler line 151) unregisters the
  socket of the newer one. `pipeline_calls` shows that neither happens when
  streams are announced one at a time.
* `streaming_generate_response.py:90` passes `AIResponse` arguments it does not
  take, so `execute` always raises before its tasks start. `TokenStream` models
  the tasks, which the integration tests call directly. In them an interrupt, or
  an error in the synthesis, ends the consumer while the producer may be blocked
  in `put` on a full buffer, against lines 66-67; `EverythingSpoken` leaves those
  two cases out.
* The buffer measures pauses by the clock of the server when it reads a chunk, so
  chunks that piled up while an answer was spoken contain no pauses.
* `redis_session_repository.py:7` says that locking "prevents race conditions when
  multiple instances handle the same stream", and line 21 shows a get and a save inside
  the lock. No use case takes it: `process_audio.py:58`/`105`,
  `generate_response.py:43`/`86`, `reset_session.py:29`/`34` read, wait and save without,
  so overlapping ones overwrite each other (`overtaken`). With copies instead
  of shared objects even one task does: `process_audio` triggers the answer (line 218)
  before it saves the utterance, so `generate_response` does not find it in what it reads
  (line 49-52), and what it would save, the copy of `process_audio` overwrites.
* `redis_session_repository.py:246` deletes the lock without comparing its value,
  so a holder whose lock expired frees the lock of the next one. A session that
  has been loaded again is not active, whatever it was when it was saved
  (`Restored`).
* `docs/rate-limiting-guide.md:91` says "Configuration changes take effect immediately
  without restarting", and lines 301-317 change a tier and reload. `reload_config`
  (`rate_limiter.py:161`) replaces the configuration, which is looked at only when a
  bucket is made; tenants, regions and the global level that have been used keep their
  old capacity and rate until the process ends.
* `fallback_handler.py:55`: the hops documented as "per request" are counted in the
  strategy and taken back only by `reset`, so from the third hop on, of any
  request, every fallback of a shared strategy is refused.
* `provider_fallback.py:167`: with fallback disabled the budget of the provider is
  not looked at, and its outcomes are not recorded.
* `rate_limiter.py:305`: a request refused by the region or globally keeps the
  tokens it has used up before. `WithinRate` bounds admissions from above and does not
  notice it.
* `cost_tracker.py:338` leaves "openai" out of the table it rebuilds: the next call
  with that provider raises `KeyError` with half of its entries made
  (`RecordCallFails`).
* `cost_tracker.py:85` and `docs/COST_OPTIMIZATION.md:111` speak of a per-user *daily*
  limit. `reset_daily_cost` (327) leaves the users' accounts alone; they are emptied once a
  month (436), so the limit is in effect a monthly one. `AccountsAgree` requires
  neither.
* `postgres_call_logger.py:177`: if another task's command has failed in the shared
  transaction, `commit` keeps nothing and raises nothing, where `log_call`
  documents "Raises: Exception: If database write fails". `LossNeedsAFailure`
  says what is left. A query that fails leaves the transaction useless (line 379).
* `enhanced_audio_buffer_manager.py`: a chunk that falls silent or resumes speech is
  not compared with the maximal age; ACCUMULATING has no time limit at all;
  `silence_recovery_ms` is stored and never used.
* `semantic_cache.py:192` compares the number of all keys with `max_entries`, two
  keys an entry, and only logs; what the comment there calls eviction is Redis's.
* `google_stt_adapter.py:65`: what is still too short for a recognition when a call
  ends is dropped, so a short last utterance is not heard.
* `server.py:151` says the drain "forcefully closes" what is left; it logs it
  (`DrainEnds` holds all the same).
* `scripts/sim_exotel.py:232` expects an answer at chunks 3, 6 and 9; the server's
  stub answers at every chunk (`server.py:242`) and the window decides. Line 306
  says the stop finalizes pending audio; its reason is `callended`, for which the
  handler does not (`exotel_websocket_handler.py:120`).

## What is not modelled

Audio samples, energies and texts beyond their identity; logging, metrics,
tracing; the wording of prompts. Of modelled components: the metrics of the
buffers, partial utterances, the parsing of configurations.

Components without a module:

* backups, retention and audit: their SQL carries `$1` placeholders and they close
  connections with `aclose()`, neither of which psycopg's connections take; their
  tests replace the connection, so what the code would do is not defined by it;
* interrupt metrics, response length, A/B tests: statistics of finished calls,
  computed without suspending and read by nothing that changes a call;
* the noise floor learner: nothing passes its estimate to the analyzer;
* language model, synthesis and greeting adapters beyond what they may answer or
  raise; stub language model, embeddings and streamer: constants;
* authentication, encryption, masking: pure functions;
* metrics, tracing, log formats, health probes: they only read;
* capacity model, benchmark, credential checks: arithmetic and probes.

Between modelled components: `services` shows nothing about two of them at once.
Since no code of this commit connects them, there is no composition to be
faithful to, except `OutboundAudio`, `SpeechRecognizer` and `ServerDrain` with
the pipeline: `CallPipeline` contains what they show it, an abstract send, an
abstract recognizer and connections that open and end.

## Plan

Done: the path of every call (session, pipeline, voice buffer, token stream,
recognizer, outgoing audio), the components around it, and theorems for every
invariant and action property of the passing runs. Left:

1. What the liveness properties rest on, as safety: that `TokenStream`,
   `GracefulDegradation` and `RedisSessions` have a measure that every step of a
   waiting task lowers.
2. The history variables of `CallPipeline`: that they are functions of what was sent,
   so that `NoCrossTalk` can be stated as the refinement of an abstract line
   between a caller and an assistant.
3. When the server wires them: `RedisSessions` and `RateLimiter` composed with
   `CallPipeline` in place of its repository and at its door.
