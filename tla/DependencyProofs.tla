-------------------------- MODULE DependencyProofs --------------------------
(***************************************************************************)
(* What the service records of the things it depends on, for any number of *)
(* callers, clients and instances, whatever order results come back in:    *)
(* the count of CircuitBreaker, the metrics of ProviderFallback, and the   *)
(* lock and the session of RedisSessions: who is inside without its lock,  *)
(* and which updates are lost.                                             *)
(***************************************************************************)
EXTENDS CircuitBreaker, GracefulDegradation, ProviderFallback, RedisSessions,
        FiniteSetTheorems, WellFoundedInduction, TLAPS

-----------------------------------------------------------------------------
(* CircuitBreaker *)

\* The count is a number, and what it says is what the circuit shows.
BreakerInv ==
    /\ circuit \in CircuitState /\ failures \in Nat
    /\ quiet \in Nat \cup {Never}
    /\ CountMatchesCircuit

\* Every step of every caller preserves it.
LEMMA BreakerInvStep == BreakerInv /\ [BreakerNext]_breakerVars => BreakerInv'
  <1> SUFFICES ASSUME BreakerInv, [BreakerNext]_breakerVars PROVE BreakerInv'
    OBVIOUS
  <1> USE BreakerAssumption DEF BreakerInv, CountMatchesCircuit, CircuitState, breaker
  <1>1. ASSUME NEW c \in Caller, BeginCall(c) PROVE BreakerInv'
    BY <1>1 DEF BeginCall, Through, Rejected, ShouldAttemptRecovery, breakerVars
  <1>2. ASSUME NEW c \in Caller, Succeed(c) PROVE BreakerInv'
    BY <1>2 DEF Succeed
  <1>3. ASSUME NEW c \in Caller, Fail(c) PROVE BreakerInv'
    BY <1>3 DEF Fail
  <1>4. CASE Reset
    BY <1>4 DEF Reset
  <1>5. CASE BreakerTick
    BY <1>5 DEF BreakerTick
  <1>6. CASE Recover
    BY <1>6 DEF Recover
  <1>7. CASE UNCHANGED breakerVars
    BY <1>7 DEF breakerVars
  <1> QED  BY <1>1, <1>2, <1>3, <1>4, <1>5, <1>6, <1>7 DEF BreakerNext

\* The circuit is closed exactly while the count is under the threshold, and there is
\* a time to recover from whenever it is not: results that come late included.
THEOREM CircuitFollowsCount == BreakerSpec => []CountMatchesCircuit
  <1>1. BreakerInit => BreakerInv
    BY BreakerAssumption DEF BreakerInit, BreakerInv, CountMatchesCircuit, CircuitState
  <1>2. BreakerInv => CountMatchesCircuit
    BY DEF BreakerInv
  <1> QED  BY <1>1, <1>2, BreakerInvStep, PTL DEF BreakerSpec

\* No limit of the model is passed, and a trial is a call under way.
THEOREM BreakerTypesHold == BreakerSpec => []BreakerTypeOK
  <1> USE BreakerAssumption DEF BreakerTypeOK, CircuitState, breaker
  <1>1. BreakerInit => BreakerTypeOK
    <2>1. BreakerInit => healthy \in BOOLEAN
      BY Zenon DEF BreakerInit
    <2> QED  BY <2>1 DEF BreakerInit
  <1>2. BreakerTypeOK /\ [BreakerNext]_breakerVars => BreakerTypeOK'
    <2> SUFFICES ASSUME BreakerTypeOK, [BreakerNext]_breakerVars PROVE BreakerTypeOK'
      OBVIOUS
    <2>1. ASSUME NEW c \in Caller, BeginCall(c) PROVE BreakerTypeOK'
      BY <2>1 DEF BeginCall, Through, Rejected, breakerVars
    <2>2. ASSUME NEW c \in Caller, Succeed(c) \/ Fail(c) PROVE BreakerTypeOK'
      BY <2>2 DEF Succeed, Fail, Left
    <2>3. CASE Reset \/ BreakerTick
      BY <2>3 DEF Reset, BreakerTick
    <2>4. CASE Recover
      <3>1. healthy' \in BOOLEAN
        BY <2>4, Zenon DEF Recover
      <3> QED  BY <2>4, <3>1 DEF Recover
    <2>5. CASE UNCHANGED breakerVars
      BY <2>5 DEF breakerVars
    <2> QED  BY <2>1, <2>2, <2>3, <2>4, <2>5 DEF BreakerNext
  <1> QED  BY <1>1, <1>2, PTL DEF BreakerSpec

-----------------------------------------------------------------------------
(* GracefulDegradation *)

\* A request is always at a tier, at its fallback, or over, whatever the others do to
\* the strategy, and its limit never runs below zero.
THEOREM DegradationTypesHold == DegradationSpec => []DegradationTypeOK
  <1> USE DegradationAssumption DEF DegradationTypeOK, FallbackLevel, Ended, OnLimit, MoveTo,
                                    strategy, requests
  <1>1. DegradationInit => DegradationTypeOK
    BY DEF DegradationInit
  <1>2. DegradationTypeOK /\ [DegradationNext]_degradationVars => DegradationTypeOK'
    <2> SUFFICES ASSUME DegradationTypeOK, [DegradationNext]_degradationVars
                 PROVE  DegradationTypeOK'
      OBVIOUS
    <2>1. ASSUME NEW r \in Request, StartRequest(r) PROVE DegradationTypeOK'
      BY <2>1 DEF StartRequest
    <2>2. ASSUME NEW r \in Request, TierAnswers(r) PROVE DegradationTypeOK'
      BY <2>2 DEF TierAnswers
    <2>3. ASSUME NEW r \in Request, Hop(r) PROVE DegradationTypeOK'
      BY <2>3 DEF Hop, NextTier
    <2>4. ASSUME NEW r \in Request, LastTierFails(r) \/ FallbackEnds(r) PROVE DegradationTypeOK'
      BY <2>4 DEF LastTierFails, FallbackEnds
    <2>5. ASSUME NEW r \in Request, LimitReached(r) PROVE DegradationTypeOK'
      <3>1. onLimit[r] \in {"fallback", "default", "raise"}
        OBVIOUS
      <3>2. \E place \in {"fallback", "answered", "failed"} : tier' = [tier EXCEPT ![r] = place]
        <4>1. CASE onLimit[r] = "fallback"
          BY <2>5, <4>1 DEF LimitReached
        <4>2. CASE onLimit[r] = "default"
          BY <2>5, <4>2 DEF LimitReached
        <4>3. CASE onLimit[r] = "raise"
          BY <2>5, <4>3 DEF LimitReached
        <4> QED  BY <3>1, <4>1, <4>2, <4>3
      <3> QED  BY <2>5, <3>2 DEF LimitReached
    <2>6. CASE ResetStrategy \/ SetLevel
      BY <2>6 DEF ResetStrategy, SetLevel
    <2>7. CASE LimitTick
      <3>1. \A r \in Request : left'[r] \in 0 .. Limit
        BY <2>7 DEF LimitTick, Waiting
      <3> QED  BY <2>7, <3>1 DEF LimitTick
    <2>8. CASE UNCHANGED degradationVars
      BY <2>8 DEF degradationVars
    <2> QED  BY <2>1, <2>2, <2>3, <2>4, <2>5, <2>6, <2>7, <2>8 DEF DegradationNext
  <1> QED  BY <1>1, <1>2, PTL DEF DegradationSpec

-----------------------------------------------------------------------------
(* ProviderFallback *)

\* A nonempty set of numbers has a least one.
LEMMA LeastNumber ==
    ASSUME NEW S, S \subseteq Nat, S # {}
    PROVE  \E x \in S : \A y \in S : x <= y
  <1>1. IsWellFoundedOn(OpToRel(<, Nat), Nat)
    BY NatLessThanWellFounded
  <1>2. PICK x \in S : \A y \in S : ~(<<y, x>> \in OpToRel(<, Nat))
    BY <1>1, WFMin
  <1>3. \A y \in S : ~(y < x)
    BY <1>2 DEF OpToRel
  <1> QED  BY <1>3

\* The next usable provider is one of the providers, or there is none.
LEMMA FirstIsProvider == \A p : FirstFrom(p) \in 0 .. Providers
  <1> SUFFICES ASSUME NEW p PROVE FirstFrom(p) \in 0 .. Providers
    OBVIOUS
  <1> DEFINE usable == {q \in Provider : q >= p /\ Usable(q)}
             Least(q) == \A o \in usable : q <= o
  <1>1. CASE usable = {}
    BY <1>1, FallbackAssumption DEF FirstFrom
  <1>2. CASE usable # {}
    <2>1. usable \subseteq Nat
      BY DEF Provider
    <2>2. \E q \in usable : Least(q)
      BY <1>2, <2>1, LeastNumber
    <2> HIDE DEF Least
    <2>3. (CHOOSE q \in usable : Least(q)) \in usable
      BY <2>2
    <2> QED  BY <1>2, <2>3 DEF FirstFrom, Provider, Least
  <1> QED  BY <1>1, <1>2

\* The counts are numbers that fit the status.  Which provider a client waits for
\* does not matter: an outcome of any other changes no count.
FallbackInv ==
    /\ calls \in [Provider -> Nat] /\ errors \in [Provider -> Nat]
    /\ DegradedIsFailing

\* One outcome, of whichever call, preserves it.
LEMMA SuccessFits == ASSUME FallbackInv, NEW p, RecordSuccess(p) PROVE FallbackInv'
  <1>1. calls' \in [Provider -> Nat] /\ errors' = errors
    <2>1. CASE p \in Provider
      BY <2>1 DEF FallbackInv, RecordSuccess
    <2>2. CASE p \notin Provider
      <3>1. calls' = calls
        BY <2>2 DEF FallbackInv, RecordSuccess
      <3> QED  BY <3>1 DEF FallbackInv, RecordSuccess
    <2> QED  BY <2>1, <2>2
  <1>2. \A q \in Provider : calls'[q] = IF q = p THEN calls[q] + 1 ELSE calls[q]
    BY DEF FallbackInv, RecordSuccess
  <1>3. degraded' = degraded \ {p}
    BY DEF RecordSuccess
  <1> QED  BY <1>1, <1>2, <1>3 DEF FallbackInv, DegradedIsFailing

\* A failed call adds one to both counts before the status is judged.
LEMMA ErrorFits == ASSUME FallbackInv, NEW p, RecordError(p) PROVE FallbackInv'
  <1>1. calls' \in [Provider -> Nat] /\ errors' \in [Provider -> Nat]
    <2>1. CASE p \in Provider
      BY <2>1 DEF FallbackInv, RecordError
    <2>2. CASE p \notin Provider
      <3>1. calls' = calls /\ errors' = errors
        BY <2>2 DEF FallbackInv, RecordError
      <3> QED  BY <3>1 DEF FallbackInv
    <2> QED  BY <2>1, <2>2
  <1>2. ASSUME NEW q \in Provider
        PROVE  (q \in degraded' => 5 * errors'[q] > calls'[q]) /\ errors'[q] <= calls'[q]
    <2>1. CASE q = p
      <3>1. calls'[q] = calls[q] + 1 /\ errors'[q] = errors[q] + 1
        BY <2>1 DEF FallbackInv, RecordError
      <3>2. q \in degraded' => 5 * errors'[q] > calls'[q] \/ q \in degraded
        BY <2>1 DEF RecordError
      <3> QED  BY <3>1, <3>2 DEF FallbackInv, DegradedIsFailing
    <2>2. CASE q # p
      <3>1. calls'[q] = calls[q] /\ errors'[q] = errors[q] /\ (q \in degraded' => q \in degraded)
        BY <2>2 DEF FallbackInv, RecordError
      <3> QED  BY <3>1 DEF FallbackInv, DegradedIsFailing
    <2> QED  BY <2>1, <2>2
  <1> QED  BY <1>1, <1>2 DEF FallbackInv, DegradedIsFailing

\* Every step of every client preserves it.
LEMMA FallbackInvStep == FallbackInv /\ [FallbackNext]_fallbackVars => FallbackInv'
  <1> SUFFICES ASSUME FallbackInv, [FallbackNext]_fallbackVars PROVE FallbackInv'
    OBVIOUS
  <1>1. ASSUME UNCHANGED metrics PROVE FallbackInv'
    BY <1>1 DEF FallbackInv, DegradedIsFailing, metrics
  <1>2. ASSUME NEW c \in Client, CallWithFallback(c) \/ FailedUnrecorded(c) PROVE UNCHANGED metrics
    BY <1>2 DEF CallWithFallback, FailedUnrecorded
  <1>3. ASSUME NEW c \in Client, Served(c) \/ ServedNothing(c) PROVE RecordSuccess(trying[c])
    BY <1>3 DEF Served, ServedNothing
  <1>4. ASSUME NEW c \in Client, Failed(c) PROVE RecordError(trying[c])
    BY <1>4 DEF Failed
  <1>5. ASSUME NEW p \in Provider, Register(p) \/ RecordCost(p) \/ SetCurrentProvider(p)
        PROVE  UNCHANGED metrics
    BY <1>5 DEF Register, RecordCost, SetCurrentProvider
  <1>6. ResetMonthlyCosts \/ UNCHANGED fallbackVars => UNCHANGED metrics
    BY DEF ResetMonthlyCosts, fallbackVars
  <1> QED  BY <1>1, <1>2, <1>3, <1>4, <1>5, <1>6, SuccessFits, ErrorFits DEF FallbackNext

\* A provider that is reported as degraded fails more than one call in five, for any
\* number of clients whose calls overlap.
THEOREM DegradedMeansFailing == FallbackSpec => []DegradedIsFailing
  <1>1. FallbackInit => FallbackInv
    BY DEF FallbackInit, FallbackInv, DegradedIsFailing
  <1>2. FallbackInv => DegradedIsFailing
    BY DEF FallbackInv
  <1> QED  BY <1>1, <1>2, FallbackInvStep, PTL DEF FallbackSpec

\* A client waits for a provider or for none, and no count passes the limit of the
\* model: a call that fails is a call.
THEOREM FallbackTypesHold == FallbackSpec => []FallbackTypeOK
  <1> USE FallbackAssumption
  <1>1. FallbackInit => FallbackTypeOK /\ FallbackInv
    BY DEF FallbackInit, FallbackTypeOK, Provider, FallbackInv, DegradedIsFailing
  <1>2. FallbackTypeOK /\ FallbackInv /\ [FallbackNext]_fallbackVars => FallbackTypeOK'
    <2> SUFFICES ASSUME FallbackTypeOK, FallbackInv, [FallbackNext]_fallbackVars
                 PROVE  FallbackTypeOK'
      OBVIOUS
    <2> USE DEF FallbackTypeOK, config, metrics
    <2>1. ASSUME NEW c \in Client, CallWithFallback(c) PROVE FallbackTypeOK'
      <3>1. current \in 0 .. Providers
        BY DEF Provider
      <3>2. trying' \in [Client -> 0 .. Providers]
        BY <2>1, <3>1, FirstIsProvider DEF CallWithFallback
      <3> QED  BY <2>1, <3>2 DEF CallWithFallback
    <2>2. ASSUME NEW c \in Client, Served(c) \/ ServedNothing(c) \/ Failed(c)
          PROVE  FallbackTypeOK'
      <3>1. trying[c] \in Provider /\ calls[trying[c]] + 1 \in 0 .. MaxCalls
        <4>1. trying[c] # 0 /\ calls[trying[c]] < MaxCalls
          BY <2>2 DEF Served, ServedNothing, Failed, Waits
        <4>2. trying[c] \in 0 .. Providers
          OBVIOUS
        <4>3. trying[c] \in Provider
          BY <4>1, <4>2 DEF Provider
        <4>4. calls[trying[c]] \in 0 .. MaxCalls
          BY <4>3
        <4> QED  BY <4>1, <4>3, <4>4
      <3>2. calls' = [calls EXCEPT ![trying[c]] = @ + 1]
        BY <2>2 DEF Served, ServedNothing, Failed, RecordSuccess, RecordError
      <3>3. calls' \in [Provider -> 0 .. MaxCalls]
        BY <3>1, <3>2
      <3>4. errors' \in [Provider -> 0 .. MaxCalls] /\ degraded' \subseteq Provider
        <4>1. FallbackInv'
          BY <2>2, SuccessFits, ErrorFits DEF Served, ServedNothing, Failed
        <4>2. \A q \in Provider : errors'[q] \in 0 .. MaxCalls
          BY <3>3, <4>1 DEF FallbackInv, DegradedIsFailing
        <4>3. degraded' \subseteq Provider
          BY <2>2, <3>1 DEF Served, ServedNothing, Failed, RecordSuccess, RecordError
        <4> QED  BY <4>1, <4>2, <4>3 DEF FallbackInv
      <3>5. trying' \in [Client -> 0 .. Providers] /\ current' \in Provider
        BY <2>2, <3>1, FirstIsProvider DEF Served, ServedNothing, Failed
      <3> QED  BY <2>2, <3>3, <3>4, <3>5 DEF Served, ServedNothing, Failed
    <2>3. ASSUME NEW c \in Client, FailedUnrecorded(c) PROVE FallbackTypeOK'
      BY <2>3 DEF FailedUnrecorded
    <2>4. ASSUME NEW p \in Provider, Register(p) \/ RecordCost(p) \/ SetCurrentProvider(p)
          PROVE  FallbackTypeOK'
      BY <2>4 DEF Register, RecordCost, SetCurrentProvider
    <2>5. CASE ResetMonthlyCosts
      BY <2>5 DEF ResetMonthlyCosts
    <2>6. CASE UNCHANGED fallbackVars
      BY <2>6 DEF fallbackVars
    <2> QED  BY <2>1, <2>2, <2>3, <2>4, <2>5, <2>6 DEF FallbackNext
  <1> QED  BY <1>1, <1>2, FallbackInvStep, PTL DEF FallbackSpec

-----------------------------------------------------------------------------
(* RedisSessions *)

\* What an instance has read of the session, or changes in it.
Read(i) == IF copy[i] = None THEN {} ELSE copy[i].said

\* An instance between get and save knows what was kept, unless it was given up by its own
\* change, stored since its get, or overtaken before.
NothingElseMissed ==
    \A i \in Instance : pc[i] \in Working =>
        kept \subseteq Read(i) \cup cleared[i] \cup missed[i] \cup overtaken

\* Only who has read the session and not saved it has a copy.
CopyFits == \A i \in Instance :
    IF pc[i] \in {"changed", "using"} THEN copy[i] \in Session ELSE copy[i] = None /\ cleared[i] = {}

RedisInv ==
    /\ pc \in [Instance -> RedisStates]
    /\ copy \in [Instance -> Session \cup {None}]
    /\ CopyFits
    /\ stored \in Session \cup {None} /\ lock \in Instance \cup {None}
    /\ used \subseteq Text /\ kept \subseteq Text /\ overtaken \subseteq Text
    /\ cleared \in [Instance -> SUBSET Text] /\ missed \in [Instance -> SUBSET Text]
    /\ outlived \subseteq Instance
    /\ OneInside
    /\ UpdatesSurvive
    /\ NothingElseMissed

USE DEF Inside, Working, CopyFits

\* The invariant holds at first.
LEMMA RedisInvInit == RedisInit => RedisInv
  BY RedisAssumption DEF RedisInit, RedisInv, OneInside, NothingElseMissed, UpdatesSurvive,
     RedisStates, Session

\* A session that is stored is what the others miss, and nothing is lost by it that the
\* writer has not missed or given up.
LEMMA StoreKeeps ==
    ASSUME RedisInv, NEW i \in Instance, NEW session \in Session, SetEx(i, session),
           pc[i] \in Working, session.said = Read(i), NEW late,
           kept' = (kept \ cleared[i]) \cup late, late \subseteq session.said,
           pc' \in [Instance -> RedisStates], pc'[i] \notin Working,
           \A j \in Instance \ {i} : pc'[j] = pc[j] /\ copy'[j] = copy[j] /\ cleared'[j] = cleared[j]
    PROVE  /\ UpdatesSurvive' /\ NothingElseMissed'
           /\ kept' \subseteq Text /\ overtaken' \subseteq Text
           /\ missed' \in [Instance -> SUBSET Text] /\ stored' \in Session \cup {None}
  <1>1. session.said \subseteq Text /\ missed[i] \subseteq Text /\ session # None
    BY RedisAssumption DEF RedisInv, Session
  <1>2. /\ stored' = session /\ overtaken' = (overtaken \cup missed[i]) \ session.said
        /\ missed' = [j \in Instance |->
              IF j # i /\ pc[j] \in Working THEN missed[j] \cup session.said ELSE {}]
    BY DEF SetEx
  <1>3. kept \subseteq session.said \cup cleared[i] \cup missed[i] \cup overtaken
    BY DEF RedisInv, NothingElseMissed
  <1>4. kept' \subseteq session.said \cup overtaken'
    BY <1>2, <1>3
  <1>5. ASSUME NEW j \in Instance, pc'[j] \in Working
        PROVE  kept' \subseteq Read(j)' \cup cleared'[j] \cup missed'[j] \cup overtaken'
    <2>1. missed'[j] = missed[j] \cup session.said
      BY <1>2, <1>5
    <2> QED  BY <1>4, <2>1
  <1>6. missed' \in [Instance -> SUBSET Text]
    BY <1>1, <1>2 DEF RedisInv
  <1> QED  BY <1>1, <1>2, <1>4, <1>5, <1>6 DEF RedisInv, UpdatesSurvive, NothingElseMissed

\* Get and change: what is stored now is what the instance has read.
LEMMA GetKnows ==
    ASSUME RedisInv, NEW i \in Instance, GetAndChange(i), NEW next \in {"changed", "using"},
           pc[i] \in {"locked", "idle"}, pc[i] = "locked" <=> next = "changed",
           Goto(i, next), UNCHANGED <<lock, stored, kept, overtaken, outlived>>
    PROVE  RedisInv'
  <1>1. stored \in Session /\ Restored(stored) \in Session /\ Restored(stored).said = stored.said
    BY DEF RedisInv, GetAndChange, Restored, Session
  <1>2. /\ missed' = [missed EXCEPT ![i] = {}]
        /\ \E loaded \in Session, gone \in SUBSET Text :
              /\ copy' = [copy EXCEPT ![i] = loaded] /\ cleared' = [cleared EXCEPT ![i] = gone]
              /\ stored.said \subseteq loaded.said \cup gone
        /\ used' \subseteq Text
    <2>1. ASSUME NEW new \in SUBSET Text,
                 copy' = [copy EXCEPT ![i] = [Restored(stored) EXCEPT !.said = @ \cup new]],
                 used' = used \cup new, cleared' = [cleared EXCEPT ![i] = {}]
          PROVE  \E loaded \in Session, gone \in SUBSET Text :
                    /\ copy' = [copy EXCEPT ![i] = loaded] /\ cleared' = [cleared EXCEPT ![i] = gone]
                    /\ stored.said \subseteq loaded.said \cup gone
      <3> DEFINE loaded == [Restored(stored) EXCEPT !.said = @ \cup new]
      <3>1. loaded \in Session /\ stored.said \subseteq loaded.said \cup {}
        BY <1>1 DEF Session
      <3>2. copy' = [copy EXCEPT ![i] = loaded] /\ {} \in SUBSET Text
        BY <2>1
      <3> HIDE DEF loaded
      <3> QED  BY <2>1, <3>1, <3>2
    <2>2. ASSUME copy' = [copy EXCEPT ![i] = [Restored(stored) EXCEPT !.said = {}]],
                 cleared' = [cleared EXCEPT ![i] = stored.said]
          PROVE  \E loaded \in Session, gone \in SUBSET Text :
                    /\ copy' = [copy EXCEPT ![i] = loaded] /\ cleared' = [cleared EXCEPT ![i] = gone]
                    /\ stored.said \subseteq loaded.said \cup gone
      <3> DEFINE loaded == [Restored(stored) EXCEPT !.said = {}]
      <3>1. loaded \in Session /\ stored.said \in SUBSET Text
        BY <1>1 DEF Session
      <3>2. copy' = [copy EXCEPT ![i] = loaded]
        BY <2>2
      <3> HIDE DEF loaded
      <3> QED  BY <2>2, <3>1, <3>2
    <2>3. used' \subseteq Text
      BY DEF GetAndChange, RedisInv
    <2>4. \A new \in {{}} \cup {{t} : t \in Text \ used} : new \in SUBSET Text
      OBVIOUS
    <2> QED  BY <2>1, <2>2, <2>3, <2>4 DEF GetAndChange
  <1>3. PICK loaded \in Session, gone \in SUBSET Text :
              /\ copy' = [copy EXCEPT ![i] = loaded] /\ cleared' = [cleared EXCEPT ![i] = gone]
              /\ stored.said \subseteq loaded.said \cup gone
    BY <1>2
  <1>4. /\ copy' \in [Instance -> Session \cup {None}] /\ copy'[i] = loaded
        /\ cleared' \in [Instance -> SUBSET Text] /\ cleared'[i] = gone
        /\ missed' \in [Instance -> SUBSET Text] /\ missed'[i] = {}
        /\ \A j \in Instance \ {i} : copy'[j] = copy[j] /\ cleared'[j] = cleared[j] /\ missed'[j] = missed[j]
    BY <1>2, <1>3 DEF RedisInv
  <1>5. /\ pc' \in [Instance -> RedisStates] /\ pc'[i] = next
        /\ \A j \in Instance \ {i} : pc'[j] = pc[j]
    BY DEF Goto, RedisInv, RedisStates
  <1>6. loaded # None /\ kept \subseteq stored.said \cup overtaken
    BY <1>1, RedisAssumption DEF RedisInv, UpdatesSurvive
  <1>7. NothingElseMissed'
    <2> SUFFICES ASSUME NEW j \in Instance, pc'[j] \in Working
                 PROVE  kept' \subseteq Read(j)' \cup cleared'[j] \cup missed'[j] \cup overtaken'
      BY DEF NothingElseMissed
    <2>1. CASE j = i
      BY <1>3, <1>4, <1>6, <2>1 DEF Read
    <2>2. CASE j # i
      BY <1>4, <1>5, <2>2 DEF Read, RedisInv, NothingElseMissed
    <2> QED  BY <2>1, <2>2
  <1>8. OneInside'
    BY <1>5 DEF RedisInv, OneInside
  <1>9. CopyFits'
    BY <1>4, <1>5 DEF RedisInv
  <1> QED  BY <1>2, <1>4, <1>5, <1>7, <1>8, <1>9 DEF RedisInv, UpdatesSurvive

\* Every step of every instance, and of time, preserves it.
LEMMA RedisInvStep == RedisInv /\ [RedisNext]_redisVars => RedisInv'
  <1> SUFFICES ASSUME RedisInv, [RedisNext]_redisVars PROVE RedisInv'
    OBVIOUS
  <1> USE RedisAssumption DEF redisKeys, redisHistory, updateHistory
  <1>1. CASE RedisTick
    <2>1. /\ UNCHANGED <<pc, copy, used, cleared>> /\ lock' \in {lock, None}
          /\ outlived' \subseteq Instance
      BY <1>1 DEF RedisTick, RedisInv, Holders
    <2>2. OneInside'
      BY <1>1 DEF RedisTick, RedisInv, OneInside, Holders
    <2>3. \/ UNCHANGED <<stored, kept, overtaken, missed>>
          \/ stored' = None /\ kept' = {} /\ overtaken' = {} /\ missed' = [i \in Instance |-> {}]
      BY <1>1 DEF RedisTick, GiveUp
    <2> QED  BY <2>1, <2>2, <2>3 DEF RedisInv, UpdatesSurvive, NothingElseMissed, Read
  <1>2. ASSUME NEW i \in Instance, Enter(i) PROVE RedisInv'
    BY <1>2 DEF Enter, Goto, RedisStates, RedisInv, OneInside, NothingElseMissed, UpdatesSurvive, Read
  <1>3. ASSUME NEW i \in Instance, Try(i) PROVE RedisInv'
    <2>1. UNCHANGED <<stored, copy, used, kept, cleared, missed, overtaken, outlived>>
      BY <1>3 DEF Try
    <2>2. CASE Acquire(i)
      <3>1. /\ lock = None /\ lock' = i
            /\ pc[i] = "trying" /\ pc' = [pc EXCEPT ![i] = "locked"]
        BY <1>3, <2>2 DEF Try, Acquire, SetLock, Goto
      <3>2. /\ pc' \in [Instance -> RedisStates] /\ pc'[i] = "locked"
            /\ \A j \in Instance \ {i} : pc'[j] = pc[j]
        BY <3>1 DEF RedisInv, RedisStates
      <3>3. OneInside'
        BY <2>1, <3>1, <3>2 DEF RedisInv, OneInside
      <3>4. CopyFits' /\ NothingElseMissed'
        BY <2>1, <3>1, <3>2 DEF RedisInv, NothingElseMissed, Read
      <3> QED  BY <2>1, <3>1, <3>2, <3>3, <3>4 DEF RedisInv, UpdatesSurvive
    <2>3. CASE AcquireInVain(i)
      BY <1>3, <2>1, <2>3 DEF Try, AcquireInVain, Refused, SetLock, Goto, RedisStates, RedisInv,
         OneInside, NothingElseMissed, UpdatesSurvive, Read
    <2> QED  BY <1>3, <2>2, <2>3 DEF Try
  <1>4. ASSUME NEW i \in Instance, Load(i) PROVE RedisInv'
    <2>1. CASE GetAndChange(i) /\ Goto(i, "changed")
      BY <1>4, <2>1, GetKnows DEF Load
    <2>2. CASE Goto(i, "releasing") /\ UNCHANGED <<copy, used, cleared, missed>>
      BY <1>4, <2>2 DEF Load, Goto, RedisStates, RedisInv, OneInside, NothingElseMissed,
         UpdatesSurvive, Read
    <2> QED  BY <1>4, <2>1, <2>2 DEF Load
  <1>5. ASSUME NEW i \in Instance, UseCaseGet(i) PROVE RedisInv'
    BY <1>5, GetKnows DEF UseCaseGet
  <1>6. ASSUME NEW i \in Instance, Save(i) PROVE RedisInv'
    <2>1. copy[i] \in Session /\ copy[i] # None /\ Read(i) = copy[i].said
      BY <1>6 DEF Save, Session, RedisInv, Read
    <2>2. /\ pc' \in [Instance -> RedisStates] /\ pc'[i] \notin Working
          /\ pc'[i] \in Inside <=> pc[i] \in Inside
          /\ \A j \in Instance \ {i} : pc'[j] = pc[j]
      BY <1>6 DEF Save, Goto, RedisStates, RedisInv
    <2>3. /\ copy' \in [Instance -> Session \cup {None}] /\ cleared' \in [Instance -> SUBSET Text]
          /\ \A j \in Instance \ {i} : copy'[j] = copy[j] /\ cleared'[j] = cleared[j]
          /\ copy'[i] = None /\ cleared'[i] = {} /\ UNCHANGED <<lock, used, outlived>>
      BY <1>6 DEF Save, RedisInv
    <2>4. OneInside'
      BY <2>2, <2>3 DEF RedisInv, OneInside
    <2>5. /\ UpdatesSurvive' /\ NothingElseMissed'
          /\ kept' \subseteq Text /\ overtaken' \subseteq Text
          /\ missed' \in [Instance -> SUBSET Text] /\ stored' \in Session \cup {None}
      <3>1. CASE SetEx(i, copy[i]) /\ kept' = (kept \ cleared[i]) \cup copy[i].said
        BY <1>6, <2>1, <2>2, <2>3, <3>1, StoreKeeps DEF Save
      <3>2. CASE SetEx(i, copy[i]) /\ kept' = kept \ cleared[i]
        <4>1. kept' = (kept \ cleared[i]) \cup {}
          BY <3>2
        <4> QED  BY <1>6, <2>1, <2>2, <2>3, <3>2, <4>1, StoreKeeps DEF Save
      <3>3. CASE missed' = [missed EXCEPT ![i] = {}] /\ UNCHANGED <<stored, storedTtl, kept, overtaken>>
        BY <2>2, <2>3, <3>3 DEF RedisInv, UpdatesSurvive, NothingElseMissed, Read
      <3> QED  BY <1>6, <3>1, <3>2, <3>3 DEF Save
    <2>6. CopyFits'
      BY <2>2, <2>3 DEF RedisInv
    <2> QED  BY <2>2, <2>3, <2>4, <2>5, <2>6 DEF RedisInv
  <1>7. ASSUME NEW i \in Instance, Release(i) PROVE RedisInv'
    <2>1. /\ pc[i] = "releasing" /\ pc' = [pc EXCEPT ![i] = "idle"]
          /\ UNCHANGED <<stored, copy, used, kept, cleared, missed, overtaken>>
          /\ \/ /\ lock' = None
                /\ outlived' = (IF i \in outlived THEN outlived \cup Holders ELSE outlived) \ {i}
             \/ lock' = lock /\ outlived' = outlived \ {i}
      BY <1>7 DEF Release, Goto
    <2>2. OneInside'
      <3> SUFFICES ASSUME NEW j \in Instance \ {i}, pc[j] \in Inside
                   PROVE  lock' = j \/ j \in outlived'
        BY <2>1 DEF OneInside, RedisInv
      <3>1. lock = j \/ j \in outlived
        BY DEF RedisInv, OneInside
      <3>2. lock = i \/ i \in outlived
        BY <2>1 DEF RedisInv, OneInside
      <3> QED  BY <2>1, <3>1, <3>2 DEF Holders
    <2>3. outlived' \subseteq Instance /\ lock' \in Instance \cup {None}
      BY <2>1 DEF RedisInv, Holders
    <2> QED  BY <2>1, <2>2, <2>3 DEF RedisInv, RedisStates, NothingElseMissed, UpdatesSurvive, Read
  <1>8. ASSUME NEW i \in Instance, AcceptGet(i) PROVE RedisInv'
    <2>1. /\ pc' = [pc EXCEPT ![i] = "accepting"] /\ missed' = [missed EXCEPT ![i] = {}]
          /\ pc[i] = "idle" /\ stored = None
          /\ UNCHANGED <<lock, stored, copy, used, kept, cleared, overtaken, outlived>>
      BY <1>8 DEF AcceptGet, Goto
    <2>2. kept = {}
      BY <2>1 DEF RedisInv, UpdatesSurvive
    <2> QED  BY <2>1, <2>2 DEF RedisInv, RedisStates, OneInside, NothingElseMissed, UpdatesSurvive, Read
  <1>9. ASSUME NEW i \in Instance, AcceptSave(i) PROVE RedisInv'
    <2>1. NewSession \in Session /\ NewSession.said = {}
      BY DEF NewSession, Session
    <2>2. /\ pc[i] = "accepting" /\ pc' = [pc EXCEPT ![i] = "idle"]
          /\ UNCHANGED <<lock, copy, used, kept, cleared, outlived>>
          /\ \/ SetEx(i, NewSession)
             \/ missed' = [missed EXCEPT ![i] = {}] /\ UNCHANGED <<stored, overtaken>>
      BY <1>9 DEF AcceptSave, Goto
    <2> HIDE DEF NewSession
    <2>3. OneInside' /\ pc' \in [Instance -> RedisStates]
          /\ CopyFits'
      BY <2>2 DEF RedisInv, OneInside, RedisStates
    <2>4. CASE SetEx(i, NewSession)
      <3>1. Read(i) = {} /\ cleared[i] = {}
        BY <2>2 DEF RedisInv, Read
      <3>2. kept' = (kept \ cleared[i]) \cup {}
        BY <2>2, <3>1
      <3>3. pc'[i] \notin Working /\ \A j \in Instance \ {i} : pc'[j] = pc[j]
        BY <2>2 DEF RedisInv
      <3>4. /\ UpdatesSurvive' /\ NothingElseMissed'
            /\ kept' \subseteq Text /\ overtaken' \subseteq Text
            /\ missed' \in [Instance -> SUBSET Text] /\ stored' \in Session \cup {None}
        BY <2>1, <2>2, <2>3, <2>4, <3>1, <3>2, <3>3, StoreKeeps
      <3> QED  BY <2>2, <2>3, <3>4 DEF RedisInv
    <2>5. CASE missed' = [missed EXCEPT ![i] = {}] /\ UNCHANGED <<stored, overtaken>>
      BY <2>2, <2>3, <2>5 DEF RedisInv, NothingElseMissed, UpdatesSurvive, Read
    <2> QED  BY <2>2, <2>4, <2>5 DEF RedisInv
  <1>10. ASSUME NEW i \in Instance, EndGet(i) PROVE RedisInv'
    BY <1>10 DEF EndGet, Goto, RedisStates, RedisInv, OneInside, NothingElseMissed, UpdatesSurvive, Read
  <1>11. ASSUME NEW i \in Instance, EndDelete(i) PROVE RedisInv'
    <2>1. /\ pc' = [pc EXCEPT ![i] = "idle"] /\ pc[i] = "ending"
          /\ UNCHANGED <<lock, copy, used, cleared, outlived>>
          /\ \/ UNCHANGED <<stored, kept, overtaken, missed>>
             \/ stored' = None /\ kept' = {} /\ overtaken' = {} /\ missed' = [j \in Instance |-> {}]
      BY <1>11 DEF EndDelete, GiveUp, Goto
    <2> QED  BY <2>1 DEF RedisInv, RedisStates, OneInside, NothingElseMissed, UpdatesSurvive, Read
  <1>12. ASSUME NEW i \in Instance, Crash(i) PROVE RedisInv'
    <2>1. /\ pc' = [pc EXCEPT ![i] = "idle"] /\ copy' = [copy EXCEPT ![i] = None]
          /\ cleared' = [cleared EXCEPT ![i] = {}] /\ missed' = [missed EXCEPT ![i] = {}]
          /\ outlived' = outlived \ {i}
          /\ UNCHANGED <<lock, stored, used, kept, overtaken>>
      BY <1>12 DEF Crash, Goto
    <2> QED  BY <2>1 DEF RedisInv, RedisStates, OneInside, NothingElseMissed, UpdatesSurvive, Read
  <1>13. CASE UNCHANGED redisVars
    BY <1>13 DEF redisVars, redisLocals, RedisInv, OneInside, NothingElseMissed, UpdatesSurvive, Read
  <1> QED  BY <1>1, <1>2, <1>3, <1>4, <1>5, <1>6, <1>7, <1>8, <1>9, <1>10, <1>11, <1>12, <1>13
           DEF RedisNext, RedisStep, RedisBegin

\* Whoever is between acquire and release has the lock, or has lost it by the expiry of a
\* lock, its own or that of one who then deleted it: for any number of instances, whatever
\* replies are lost and whoever crashes.
THEOREM LockExcludes == RedisSpec => []OneInside
  <1>1. RedisInv => OneInside
    BY DEF RedisInv
  <1> QED  BY <1>1, RedisInvInit, RedisInvStep, PTL DEF RedisSpec

\* Of what saves have reported as done, a session that is stored lacks only what was
\* cleared, and what a save overtook that had been read before it.
THEOREM OnlyOvertakenUpdatesAreLost == RedisSpec => []UpdatesSurvive
  <1>1. RedisInv => UpdatesSurvive
    BY DEF RedisInv
  <1> QED  BY <1>1, RedisInvInit, RedisInvStep, PTL DEF RedisSpec

\* What back-offs double is a natural number: so many subsets a set of n has.
LEMMA PowerOfTwo == \A n \in Nat : 2 ^ n \in Nat
  <1> SUFFICES ASSUME NEW n \in Nat PROVE 2 ^ n \in Nat
    OBVIOUS
  <1>1. IsFiniteSet(1 .. n) /\ Cardinality(1 .. n) = n
    BY FS_Interval
  <1>2. Cardinality(SUBSET (1 .. n)) = 2 ^ n /\ Cardinality(SUBSET (1 .. n)) \in Nat
    BY <1>1, FS_SUBSET, FS_CardinalityType
  <1> QED  BY <1>2

\* Times to live, attempts and back-offs stay within their limits.
LEMMA RedisLimits ==
    ASSUME RedisTypeOK, RedisInv, [RedisNext]_redisVars
    PROVE  /\ lockTtl' \in 0 .. LockTTL /\ storedTtl' \in 0 .. SessionTTL
           /\ attempt' \in [Instance -> 0 .. Attempts - 1]
           /\ delay' \in [Instance -> 0 .. MaxDelay]
  <1> USE RedisAssumption DEF RedisTypeOK, redisKeys, redisHistory, updateHistory
  <1>1. CASE RedisTick
    BY <1>1 DEF RedisTick, Less
  <1>2. ASSUME NEW i \in Instance, Try(i)
        PROVE  /\ lockTtl' \in 0 .. LockTTL /\ storedTtl' \in 0 .. SessionTTL
               /\ attempt' \in [Instance -> 0 .. Attempts - 1]
               /\ delay' \in [Instance -> 0 .. MaxDelay]
    <2>1. lockTtl' \in {lockTtl, LockTTL} /\ UNCHANGED storedTtl
      BY <1>2 DEF Try, Acquire, AcquireInVain, SetLock
    <2>2. attempt[i] \in 0 .. Attempts - 1 /\ attempt[i] \in Nat
      OBVIOUS
    <2>3. Backoff(attempt[i] + 1) \in 0 .. MaxDelay
      <3>1. PICK n \in Nat : n = attempt[i]
        BY <2>2
      <3>2. 2 ^ n \in Nat /\ n + 1 - 1 = n
        BY PowerOfTwo
      <3>3. Backoff(n + 1) = IF 2 ^ n < MaxDelay THEN 2 ^ n ELSE MaxDelay
        BY <3>2 DEF Backoff
      <3>4. \A m \in Nat : (IF m < MaxDelay THEN m ELSE MaxDelay) \in 0 .. MaxDelay
        OBVIOUS
      <3> QED  BY <3>1, <3>2, <3>3, <3>4
    <2>4. \/ attempt' = [attempt EXCEPT ![i] = 0] /\ UNCHANGED delay
          \/ /\ attempt[i] + 1 < Attempts /\ attempt' = [attempt EXCEPT ![i] = @ + 1]
             /\ delay' = [delay EXCEPT ![i] = Backoff(attempt[i] + 1)]
      BY <1>2 DEF Try, Acquire, AcquireInVain, Refused
    <2> HIDE DEF Backoff
    <2> QED  BY <2>1, <2>2, <2>3, <2>4
  <1>3. ASSUME NEW i \in Instance, Save(i) \/ Release(i) \/ AcceptSave(i) \/ EndDelete(i)
        PROVE  /\ lockTtl' \in {lockTtl, 0} /\ storedTtl' \in {storedTtl, 0, SessionTTL}
               /\ UNCHANGED <<attempt, delay>>
    BY <1>3 DEF Save, Release, AcceptSave, EndDelete, SetEx
  <1>4. ASSUME NEW i \in Instance,
               Enter(i) \/ AcceptGet(i) \/ EndGet(i) \/ Load(i) \/ UseCaseGet(i)
        PROVE  UNCHANGED <<lockTtl, storedTtl, attempt, delay>>
    BY <1>4 DEF Enter, AcceptGet, EndGet, Load, UseCaseGet
  <1>5. ASSUME NEW i \in Instance, Crash(i)
        PROVE  /\ UNCHANGED <<lockTtl, storedTtl>>
               /\ attempt' \in [Instance -> 0 .. Attempts - 1]
               /\ delay' \in [Instance -> 0 .. MaxDelay]
    BY <1>5 DEF Crash
  <1>6. CASE UNCHANGED redisVars
    BY <1>6 DEF redisVars, redisLocals
  <1> QED  BY <1>1, <1>2, <1>3, <1>4, <1>5, <1>6 DEF RedisNext, RedisStep, RedisBegin

\* Keys hold sessions and instances for no longer than they may, and an instance gives up
\* after its attempts.
THEOREM RedisTypesHold == RedisSpec => []RedisTypeOK
  <1>1. RedisInit => RedisTypeOK
    <2> SUFFICES ASSUME RedisInit PROVE RedisTypeOK
      OBVIOUS
    <2>1. RedisInv /\ lockTtl = 0 /\ storedTtl = 0
      BY RedisInvInit DEF RedisInit
    <2>2. attempt \in [Instance -> 0 .. Attempts - 1] /\ delay \in [Instance -> 0 .. MaxDelay]
      BY RedisAssumption DEF RedisInit
    <2> QED  BY <2>1, <2>2, RedisAssumption DEF RedisInv, RedisTypeOK
  <1>2. RedisTypeOK /\ RedisInv /\ [RedisNext]_redisVars => RedisTypeOK'
    <2> SUFFICES ASSUME RedisTypeOK, RedisInv, [RedisNext]_redisVars PROVE RedisTypeOK'
      OBVIOUS
    <2>1. RedisInv'
      BY RedisInvStep
    <2> QED  BY <2>1, RedisLimits, RedisAssumption DEF RedisInv, RedisTypeOK
  <1> QED  BY <1>1, <1>2, RedisInvInit, RedisInvStep, PTL DEF RedisSpec
=============================================================================
