-------------------------- MODULE MCServicesProofs --------------------------
(***************************************************************************)
(* The composition explored by TLC: one component is at work and the       *)
(* others stay as they were made, so the composition implements every      *)
(* component's specification, and has the types of all of them.            *)
(***************************************************************************)
EXTENDS MCServices, AudioProofs, DependencyProofs, OperationsProofs

\* The composition implements the breaker, the timeouts, the provider fallback and Redis.
THEOREM ServicesKeepDependencies ==
    Spec => BreakerSpec /\ DegradationSpec /\ FallbackSpec /\ RedisSpec
  <1>1. Init => BreakerInit /\ DegradationInit /\ FallbackInit /\ RedisInit
    BY DEF Init
  <1>2. [Next]_vars => [BreakerNext]_breakerVars
    BY DEF Next, vars, Turn
  <1>3. [Next]_vars => [DegradationNext]_degradationVars
    BY DEF Next, vars, Turn
  <1>4. [Next]_vars => [FallbackNext]_fallbackVars
    BY DEF Next, vars, Turn
  <1>5. [Next]_vars => [RedisNext]_redisVars
    BY DEF Next, vars, Turn
  <1> QED  BY <1>1, <1>2, <1>3, <1>4, <1>5, PTL
           DEF Spec, BreakerSpec, DegradationSpec, FallbackSpec, RedisSpec

\* It implements the records and the doors of the server.
THEOREM ServicesKeepOperations ==
    Spec => CallLogSpec /\ CacheSpec /\ LimiterSpec /\ DrainSpec /\ CostSpec
  <1>1. Init => CallLogInit /\ CacheInit /\ LimiterInit /\ DrainInit /\ CostInit
    BY DEF Init
  <1>2. [Next]_vars => [CallLogNext]_callLogVars
    BY DEF Next, vars, Turn
  <1>3. [Next]_vars => [CacheNext]_cacheVars
    BY DEF Next, vars, Turn
  <1>4. [Next]_vars => [LimiterNext]_limiterVars
    BY DEF Next, vars, Turn
  <1>5. [Next]_vars => [DrainNext]_drainVars
    BY DEF Next, vars, Turn
  <1>6. [Next]_vars => [CostNext]_costVars
    BY DEF Next, vars, Turn
  <1> QED  BY <1>1, <1>2, <1>3, <1>4, <1>5, <1>6, PTL
           DEF Spec, CallLogSpec, CacheSpec, LimiterSpec, DrainSpec, CostSpec

\* It implements the audio of a call, in and out, and the simulator's calls.
THEOREM ServicesKeepAudio ==
    Spec => EnhancedSpec /\ OutboundSpec /\ SimulatedSpec /\ RecognizerSpec
  <1>1. Init => EnhancedInit /\ OutboundInit /\ SimulatedInit /\ RecognizerInit
    BY DEF Init
  <1>2. [Next]_vars => [EnhancedNext]_enhancedVars
    BY DEF Next, vars, Turn
  <1>3. [Next]_vars => [OutboundNext]_outboundVars
    BY DEF Next, vars, Turn
  <1>4. [Next]_vars => [SimulatedNext]_simulatedVars
    BY DEF Next, vars, Turn
  <1>5. [Next]_vars => [RecognizerNext]_recognizerVars
    BY DEF Next, vars, Turn
  <1> QED  BY <1>1, <1>2, <1>3, <1>4, <1>5, PTL
           DEF Spec, EnhancedSpec, OutboundSpec, SimulatedSpec, RecognizerSpec

\* Whichever component is at work, all of them keep their types.
THEOREM ServicesTypesHold == Spec => []TypeOK
  <1>1. /\ BreakerTypeOK /\ DegradationTypeOK /\ FallbackTypeOK /\ RedisTypeOK
        /\ CallLogTypeOK /\ CacheTypeOK /\ LimiterTypeOK /\ DrainTypeOK /\ CostTypeOK
        /\ EnhancedTypeOK /\ OutboundTypeOK /\ SimulatedTypeOK /\ RecognizerTypeOK
        => TypeOK
    BY DEF TypeOK
  <1> QED  BY <1>1, ServicesKeepDependencies, ServicesKeepOperations, ServicesKeepAudio,
              BreakerTypesHold, DegradationTypesHold, FallbackTypesHold, RedisTypesHold,
              CallLogTypesHold, CacheTypesHold, LimiterTypesHold, DrainTypesHold, CostTypesHold,
              EnhancedTypesHold, OutboundTypesHold, SimulatedTypesHold, RecognizerTypesHold, PTL
=============================================================================
