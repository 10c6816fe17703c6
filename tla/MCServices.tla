----------------------------- MODULE MCServices -----------------------------
(***************************************************************************)
(* Components that share nothing, explored one at a time: the initial      *)
(* state says which one is at work, and the others stay as they were made. *)
(* The graph explored is the sum of the components' graphs.                *)
(***************************************************************************)
EXTENDS CircuitBreaker, GracefulDegradation, ProviderFallback, SemanticCache,
        RateLimiter, CostTracker, ServerDrain, RedisSessions, CallLog,
        EnhancedAudioBuffer, OutboundAudio, SimulatedCall, SpeechRecognizer

CONSTANTS c1, c2, c3, r1, r2, u1, u2, u3, t1, t2, g1, all, s1, s2,
          Services \* the components to explore

VARIABLE service

MCCaller == {c1, c2, c3}
MCRequest == {r1, r2}
MCClient == {c1, c2}
MCSocket == {s1, s2}
MCAsker == {c1, c2}
MCUtterance == {u1, u2, u3}

\* u2 is like u1 and like u3, which are not alike.
MCSimilarity == [p \in MCUtterance \X MCUtterance |->
    IF p[1] = p[2] THEN 3 ELSE IF u2 \in {p[1], p[2]} THEN 2 ELSE 1]

MCVisitor == {c1, c2}
MCTenant == {t1}
MCRegion == {g1}
MCStream == {s1}
MCAddress == {t2}
Allot(tenants, others) ==
    [k \in Key |-> IF k \in Tenant THEN tenants ELSE IF k \in Single THEN [capacity |-> 1, rate |-> 1] ELSE others]
MCConfigs == {Allot([capacity |-> 1, rate |-> 1], [capacity |-> 2, rate |-> 1]),
              Allot([capacity |-> 2, rate |-> 0], [capacity |-> 1, rate |-> 1])}

MCInstance == {r1, r2}
MCText == {u1, u2}

MCRecord == {u1, u2, u3}
MCMalformed == {u3}
MCTwin == {<<u1, u2>>, <<u2, u1>>}

MCWire == {s1, s2}
MCSpeaker == {c1, c2}
MCSimCall == {c1, c2}

MCUser == {r1, r2}
MCCallId == {c1}

On(s) == service = s

Init ==
    /\ service \in Services
    /\ BreakerInit /\ DegradationInit /\ FallbackInit /\ CacheInit /\ LimiterInit
    /\ CostInit /\ DrainInit /\ RedisInit /\ CallLogInit /\ EnhancedInit /\ OutboundInit
    /\ SimulatedInit /\ RecognizerInit
    /\ On("fallback") \/ enabled
    /\ On("limiter") \/ <<limits, visitor>> = CHOOSE i \in Configs \X
           [Visitor -> {v \in Visit : v.next = "over"}] : TRUE
    /\ On("simulated") \/ script = CHOOSE s \in Scenario : TRUE

Turn(s, next, unchanged) == IF On(s) THEN next ELSE unchanged

Next ==
    /\ Turn("breaker", BreakerNext, UNCHANGED breakerVars)
    /\ Turn("degradation", DegradationNext, UNCHANGED degradationVars)
    /\ Turn("fallback", FallbackNext, UNCHANGED fallbackVars)
    /\ Turn("cache", CacheNext, UNCHANGED cacheVars)
    /\ Turn("limiter", LimiterNext, UNCHANGED limiterVars)
    /\ Turn("costs", CostNext, UNCHANGED costVars)
    /\ Turn("drain", DrainNext, UNCHANGED drainVars)
    /\ Turn("redis", RedisNext, UNCHANGED redisVars)
    /\ Turn("log", CallLogNext, UNCHANGED callLogVars)
    /\ Turn("enhanced", EnhancedNext, UNCHANGED enhancedVars)
    /\ Turn("outbound", OutboundNext, UNCHANGED outboundVars)
    /\ Turn("simulated", SimulatedNext, UNCHANGED simulatedVars)
    /\ Turn("recognizer", RecognizerNext, UNCHANGED recognizerVars)
    /\ UNCHANGED service

vars == <<service, breakerVars, degradationVars, fallbackVars, cacheVars, limiterVars,
          costVars, drainVars, redisVars, callLogVars, enhancedVars, outboundVars,
          simulatedVars, recognizerVars>>

\* Breaker: time passes, callers keep calling, and a service that is healthy answers.
\* Degradation: only time passes by itself; no provider has to answer.
\* Redis: time passes, and an instance at work goes on unless it crashes.
\* Drain: only its own loop goes on; no connection has to end.
Fairness ==
    /\ WF_breakerVars(On("breaker") /\ BreakerTick)
    /\ \A c \in Caller : /\ WF_breakerVars(On("breaker") /\ BeginCall(c))
                          /\ WF_breakerVars(On("breaker") /\ healthy /\ Succeed(c))
    /\ WF_degradationVars(On("degradation") /\ LimitTick)
    /\ \A r \in Request : WF_degradationVars(On("degradation") /\ LimitReached(r))
    /\ WF_redisVars(On("redis") /\ RedisTick)
    /\ \A i \in Instance : WF_redisVars(On("redis") /\ RedisStep(i))
    /\ WF_drainVars(On("drain") /\ (Pause \/ DrainReturns))

Spec == Init /\ [][Next]_vars
FairSpec == Init /\ [][Next]_vars /\ Fairness

\* Types of every component at work.
TypeOK ==
    /\ On("breaker") => BreakerTypeOK
    /\ On("degradation") => DegradationTypeOK
    /\ On("fallback") => FallbackTypeOK
    /\ On("cache") => CacheTypeOK
    /\ On("limiter") => LimiterTypeOK
    /\ On("costs") => CostTypeOK
    /\ On("drain") => DrainTypeOK
    /\ On("redis") => RedisTypeOK
    /\ On("log") => CallLogTypeOK
    /\ On("enhanced") => EnhancedTypeOK
    /\ On("outbound") => OutboundTypeOK
    /\ On("simulated") => SimulatedTypeOK
    /\ On("recognizer") => RecognizerTypeOK
=============================================================================
