--------------------------- MODULE RedisSessions ---------------------------
(***************************************************************************)
(* RedisSessionRepository: tasks of server instances that share the        *)
(* session of one stream through Redis.  The use cases read, change and    *)
(* save the session, accept and end the call without the stream's lock;    *)
(* stream_lock documents the same under the lock, which the tests do.      *)
(* Both are modelled.  Streams share nothing, so one is modelled.          *)
(*                                                                         *)
(* Redis forgets a key when its time to live is over.  Any command may     *)
(* fail, executed or not: the reply is lost.  An instance may crash at any *)
(* moment; it comes back with nothing but what Redis holds.                *)
(***************************************************************************)
EXTENDS Naturals, FiniteSets

CONSTANTS Instance,   \* server instances, one for each task at work on the stream
          Text,       \* utterances; bound: each is said once
          None,
          LockTTL,    \* LOCK_TIMEOUT_SECONDS, in ticks
          SessionTTL, \* SESSION_TTL_SECONDS, in ticks
          Attempts,   \* LOCK_RETRY_MAX_ATTEMPTS
          MaxDelay    \* LOCK_RETRY_MAX_DELAY_MS, in ticks; the base is one

\* A session as it is kept: what was said, and whether the call is active.
Session == [said : SUBSET Text, active : BOOLEAN]

ASSUME RedisAssumption ==
    /\ LockTTL \in Nat \ {0} /\ SessionTTL \in Nat \ {0}
    /\ Attempts \in Nat \ {0} /\ MaxDelay \in Nat \ {0}
    /\ None \notin Instance /\ None \notin Session

VARIABLES lock,      \* lock:{stream}: the instance that set it, or None
          lockTtl,   \* its time to live
          stored,    \* session:{stream}, or None
          storedTtl, \* its time to live
          pc,        \* where each instance is
          attempt,   \* refusals in the current stream_lock
          delay,     \* back-off still to be slept
          copy,      \* the session an instance has loaded
          used,      \* history: texts said so far
          kept,      \* history: texts whose save succeeded in this session
          cleared,   \* history: texts an instance's change gives up
          missed,    \* history: texts others have stored since an instance's get
          overtaken, \* history: texts gone by a save of one that had missed them
          outlived   \* history: instances between get and save whose lock expired,
                     \* or was deleted by one whose lock had

redisKeys == <<lock, lockTtl, stored, storedTtl>>
redisLocals == <<pc, attempt, delay, copy>>
updateHistory == <<used, kept, cleared, missed, overtaken>>
redisHistory == <<updateHistory, outlived>>
redisVars == <<redisKeys, redisLocals, redisHistory>>

NewSession == [said |-> {}, active |-> TRUE]

\* _serialize_session, then _deserialize_session: the utterances come back, the
\* call's state does not: the call is created anew and nobody activates it.
Restored(s) == [s EXCEPT !.active = FALSE]

RedisStates == {"idle", "trying", "locked", "changed", "releasing", "using", "accepting", "ending"}
Inside == {"locked", "changed", "releasing"}

RedisInit ==
    /\ lock = None /\ lockTtl = 0
    /\ stored = None /\ storedTtl = 0
    /\ pc = [i \in Instance |-> "idle"]
    /\ attempt = [i \in Instance |-> 0]
    /\ delay = [i \in Instance |-> 0]
    /\ copy = [i \in Instance |-> None]
    /\ used = {} /\ kept = {} /\ overtaken = {} /\ outlived = {}
    /\ cleared = [i \in Instance |-> {}] /\ missed = [i \in Instance |-> {}]

Goto(i, state) == pc' = [pc EXCEPT ![i] = state]

-----------------------------------------------------------------------------
(* stream_lock *)

Enter(i) ==
    /\ pc[i] = "idle"
    /\ Goto(i, "trying")
    /\ UNCHANGED <<redisKeys, attempt, delay, copy, redisHistory>>

\* SET NX EX
SetLock(i) == lock' = i /\ lockTtl' = LockTTL

\* 100 ms, 200 ms, 400 ms ... up to the maximum.
Backoff(n) == IF 2 ^ (n - 1) < MaxDelay THEN 2 ^ (n - 1) ELSE MaxDelay

\* Mutant of Refused: one attempt too many.
RefusedOnceMore(i) ==
    IF attempt[i] + 1 <= Attempts
    THEN /\ attempt' = [attempt EXCEPT ![i] = @ + 1]
         /\ delay' = [delay EXCEPT ![i] = Backoff(attempt[i] + 1)]
         /\ UNCHANGED pc
    ELSE attempt' = [attempt EXCEPT ![i] = 0] /\ Goto(i, "idle") /\ UNCHANGED delay
\* Not acquired: sleep and try again, or give up with a RuntimeError.
Refused(i) ==
    IF attempt[i] + 1 < Attempts
    THEN /\ attempt' = [attempt EXCEPT ![i] = @ + 1]
         /\ delay' = [delay EXCEPT ![i] = Backoff(attempt[i] + 1)]
         /\ UNCHANGED pc
    ELSE attempt' = [attempt EXCEPT ![i] = 0] /\ Goto(i, "idle") /\ UNCHANGED delay

\* Mutants of Acquire: the lock is set over another; it never expires.
AcquireAnyway(i) ==
    /\ SetLock(i)
    /\ Goto(i, "locked") /\ attempt' = [attempt EXCEPT ![i] = 0] /\ UNCHANGED delay
AcquireForever(i) ==
    /\ lock = None /\ lock' = i /\ lockTtl' = 0
    /\ Goto(i, "locked") /\ attempt' = [attempt EXCEPT ![i] = 0] /\ UNCHANGED delay

\* acquire_lock on a free key.
Acquire(i) ==
    /\ lock = None /\ SetLock(i)
    /\ Goto(i, "locked") /\ attempt' = [attempt EXCEPT ![i] = 0] /\ UNCHANGED delay

\* The key is taken, or the command fails, whether or not it set the key.
AcquireInVain(i) ==
    /\ \/ UNCHANGED <<lock, lockTtl>>
       \/ lock = None /\ SetLock(i)
    /\ Refused(i)

Try(i) ==
    /\ pc[i] = "trying" /\ delay[i] = 0
    /\ Acquire(i) \/ AcquireInVain(i)
    /\ UNCHANGED <<stored, storedTtl, copy, redisHistory>>

\* Who is at work under the lock, if the key is that of one of them.
Holders == {i \in Instance : lock = i /\ pc[i] \in Inside}

\* release_lock deletes the key, whoever set it; its errors are swallowed.
Release(i) ==
    /\ pc[i] = "releasing"
    /\ \/ /\ lock' = None /\ lockTtl' = 0
          /\ outlived' = (IF i \in outlived THEN outlived \cup Holders ELSE outlived) \ {i}
       \/ outlived' = outlived \ {i} /\ UNCHANGED <<lock, lockTtl>>
    /\ Goto(i, "idle")
    /\ UNCHANGED <<stored, storedTtl, attempt, delay, copy, updateHistory>>

-----------------------------------------------------------------------------
(* get and save *)

\* get, and a change: something is said or answered, or only a chunk has come, or the
\* context is cleared.  Nothing suspends between the two.
GetAndChange(i) ==
    /\ stored # None
    /\ \/ \E new \in {{}} \cup {{t} : t \in Text \ used} :
             /\ copy' = [copy EXCEPT ![i] = [Restored(stored) EXCEPT !.said = @ \cup new]]
             /\ used' = used \cup new /\ cleared' = [cleared EXCEPT ![i] = {}]
       \/ /\ copy' = [copy EXCEPT ![i] = [Restored(stored) EXCEPT !.said = {}]]
          /\ cleared' = [cleared EXCEPT ![i] = stored.said] /\ UNCHANGED used
    /\ missed' = [missed EXCEPT ![i] = {}]

\* Under the lock; there may be no session, or an error instead.
Load(i) ==
    /\ pc[i] = "locked"
    /\ \/ GetAndChange(i) /\ Goto(i, "changed")
       \/ Goto(i, "releasing") /\ UNCHANGED <<copy, used, cleared, missed>>
    /\ UNCHANGED <<redisKeys, attempt, delay, kept, overtaken, outlived>>

\* ProcessAudioUseCase, GenerateResponseUseCase and ResetSessionUseCase, which take no
\* lock.  Their services are waited for between get and save.
UseCaseGet(i) ==
    /\ pc[i] = "idle"
    /\ GetAndChange(i) /\ Goto(i, "using")
    /\ UNCHANGED <<redisKeys, attempt, delay, kept, overtaken, outlived>>

\* Between get and save.
Working == {"changed", "using", "accepting"}

\* setex, whatever was stored since the writer's get.
SetEx(i, session) ==
    /\ stored' = session /\ storedTtl' = SessionTTL
    /\ overtaken' = (overtaken \cup missed[i]) \ session.said
    /\ missed' = [j \in Instance |->
          IF j # i /\ pc[j] \in Working THEN missed[j] \cup session.said ELSE {}]

\* save: the time to live starts again.  After an error it is not known whether
\* the session was stored.
Save(i) ==
    /\ pc[i] \in {"changed", "using"}
    /\ \/ SetEx(i, copy[i]) /\ kept' = (kept \ cleared[i]) \cup copy[i].said
       \/ SetEx(i, copy[i]) /\ kept' = kept \ cleared[i]
       \/ missed' = [missed EXCEPT ![i] = {}] /\ UNCHANGED <<stored, storedTtl, kept, overtaken>>
    /\ Goto(i, IF pc[i] = "changed" THEN "releasing" ELSE "idle")
    /\ copy' = [copy EXCEPT ![i] = None] /\ cleared' = [cleared EXCEPT ![i] = {}]
    /\ UNCHANGED <<lock, lockTtl, attempt, delay, used, outlived>>

-----------------------------------------------------------------------------
(* AcceptCallUseCase and EndCallUseCase, without the lock *)

\* Mutant of AcceptGet: a session that cannot be read is taken for none.
AcceptGetUnread(i) ==
    /\ pc[i] = "idle"
    /\ Goto(i, "accepting") /\ missed' = [missed EXCEPT ![i] = {}]
    /\ UNCHANGED <<redisKeys, attempt, delay, copy, used, kept, cleared, overtaken, outlived>>

\* A session that is there refuses the call.
AcceptGet(i) ==
    /\ pc[i] = "idle" /\ stored = None
    /\ Goto(i, "accepting") /\ missed' = [missed EXCEPT ![i] = {}]
    /\ UNCHANGED <<redisKeys, attempt, delay, copy, used, kept, cleared, overtaken, outlived>>

AcceptSave(i) ==
    /\ pc[i] = "accepting"
    /\ \/ SetEx(i, NewSession)
       \/ missed' = [missed EXCEPT ![i] = {}] /\ UNCHANGED <<stored, storedTtl, overtaken>>
    /\ Goto(i, "idle")
    /\ UNCHANGED <<lock, lockTtl, attempt, delay, copy, used, kept, cleared, outlived>>

EndGet(i) ==
    /\ pc[i] = "idle" /\ stored # None
    /\ Goto(i, "ending")
    /\ UNCHANGED <<redisKeys, attempt, delay, copy, redisHistory>>

\* What was kept of a session that is gone has been given up.
GiveUp == kept' = {} /\ overtaken' = {} /\ missed' = [i \in Instance |-> {}]

EndDelete(i) ==
    /\ pc[i] = "ending"
    /\ \/ stored' = None /\ storedTtl' = 0 /\ GiveUp
       \/ UNCHANGED <<stored, storedTtl, kept, overtaken, missed>>
    /\ Goto(i, "idle")
    /\ UNCHANGED <<lock, lockTtl, attempt, delay, copy, used, cleared, outlived>>

-----------------------------------------------------------------------------
(* Crashes and time *)

\* Nothing in memory survives; what Redis holds does.
Crash(i) ==
    /\ pc[i] # "idle"
    /\ Goto(i, "idle")
    /\ attempt' = [attempt EXCEPT ![i] = 0] /\ delay' = [delay EXCEPT ![i] = 0]
    /\ copy' = [copy EXCEPT ![i] = None]
    /\ cleared' = [cleared EXCEPT ![i] = {}] /\ missed' = [missed EXCEPT ![i] = {}]
    /\ outlived' = outlived \ {i}
    /\ UNCHANGED <<redisKeys, used, kept, overtaken>>

Less(n) == IF n = 0 THEN 0 ELSE n - 1

\* A key whose time is over is gone; the lock may be its holder's still.
RedisTick ==
    /\ delay' = [i \in Instance |-> Less(delay[i])]
    /\ lockTtl' = Less(lockTtl)
    /\ lock' = IF lockTtl = 1 THEN None ELSE lock
    /\ outlived' = IF lockTtl = 1 THEN outlived \cup Holders ELSE outlived
    /\ storedTtl' = Less(storedTtl)
    /\ IF storedTtl = 1 THEN stored' = None /\ GiveUp
       ELSE UNCHANGED <<stored, kept, overtaken, missed>>
    /\ UNCHANGED <<pc, attempt, copy, used, cleared>>

RedisStep(i) == Try(i) \/ Load(i) \/ Save(i) \/ Release(i) \/ AcceptSave(i) \/ EndDelete(i)
RedisBegin(i) == Enter(i) \/ UseCaseGet(i) \/ AcceptGet(i) \/ EndGet(i)

RedisNext == RedisTick \/ \E i \in Instance : RedisBegin(i) \/ RedisStep(i) \/ Crash(i)

RedisSpec == RedisInit /\ [][RedisNext]_redisVars

-----------------------------------------------------------------------------
(* Properties *)

\* Types; no instance is refused more than Attempts times in one stream_lock, and
\* only who holds a loaded session is at work on it.
RedisTypeOK ==
    /\ lock \in Instance \cup {None} /\ lockTtl \in 0 .. LockTTL
    /\ stored \in Session \cup {None} /\ storedTtl \in 0 .. SessionTTL
    /\ pc \in [Instance -> RedisStates]
    /\ attempt \in [Instance -> 0 .. Attempts - 1]
    /\ delay \in [Instance -> 0 .. MaxDelay]
    /\ copy \in [Instance -> Session \cup {None}]
    /\ \A i \in Instance : pc[i] \in {"changed", "using"} => copy[i] # None
    /\ used \subseteq Text /\ kept \subseteq Text /\ overtaken \subseteq Text
    /\ cleared \in [Instance -> SUBSET Text] /\ missed \in [Instance -> SUBSET Text]
    /\ outlived \subseteq Instance

\* Whoever is between acquire and release has the lock, unless it has outlived its lock
\* or was deprived of it by one that had: lost replies, crashes and retries let nobody
\* else in, and once those have left, the lock excludes again.
OneInside == \A i \in Instance : pc[i] \in Inside => lock = i \/ i \in outlived

\* With the lock or without it: a text whose save was reported as done is in the stored
\* session until the session is cleared, deleted or expires, or until it is overtaken,
\* that is, an instance that had read the session before that save saves after it.
\* Changes made one after the other survive all crashes, lost replies and accepted calls.
UpdatesSurvive == kept # {} => stored # None /\ kept \subseteq stored.said \cup overtaken

\* A lock does not outlive a crash of its holder, nor a lost reply, for ever.
LockIsFreed == lock # None ~> lock = None
=============================================================================
