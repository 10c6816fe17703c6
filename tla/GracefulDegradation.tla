------------------------ MODULE GracefulDegradation ------------------------
(***************************************************************************)
(* FallbackStrategy under TimeoutHandler, put together as the integration  *)
(* tests of graceful degradation do: requests run concurrently through     *)
(* three tiers of providers, each request under a time limit, and share    *)
(* one strategy with its count of hops.  Any provider may answer, fail or  *)
(* hang.                                                                   *)
(***************************************************************************)
EXTENDS Integers

CONSTANTS Request,
          MaxHops,  \* _max_hops, 2
          Limit,    \* bound: the longest time limit, in ticks
          MaxFails  \* bound: failures counted in one strategy

ASSUME DegradationAssumption ==
    /\ MaxHops \in Nat /\ Limit \in Nat /\ MaxFails \in Nat

VARIABLES hops,    \* _hop_count
          level,   \* _current_level
          tier,    \* where each request is
          left,    \* ticks until its limit
          onLimit  \* what it does then: call a fallback, take a default, raise

strategy == <<hops, level>>
requests == <<tier, left, onLimit>>
degradationVars == <<strategy, requests>>

FallbackLevel == {"PRIMARY", "SECONDARY", "TERTIARY"}
NextTier == [PRIMARY |-> "SECONDARY", SECONDARY |-> "TERTIARY"]
OnLimit == {"fallback", "default", "raise"}
Ended == {"answered", "failed"}

DegradationInit ==
    /\ hops = 0 /\ level = "PRIMARY"
    /\ tier = [r \in Request |-> "new"]
    /\ left = [r \in Request |-> 0]
    /\ onLimit = [r \in Request |-> "raise"]

MoveTo(r, place) == tier' = [tier EXCEPT ![r] = place]

\* with_timeout, with_timeout_and_default, or execute_with_deadline, whose limit may
\* be over before it begins.
StartRequest(r) ==
    /\ tier[r] = "new"
    /\ \E t \in 0 .. Limit, o \in OnLimit :
          /\ t = 0 => o = "raise"
          /\ left' = [left EXCEPT ![r] = t]
          /\ onLimit' = [onLimit EXCEPT ![r] = o]
          /\ MoveTo(r, IF t = 0 THEN "failed" ELSE "PRIMARY")
    /\ UNCHANGED strategy

\* The tier answers; only a fallback tier is remembered as the level.
TierAnswers(r) ==
    /\ tier[r] \in FallbackLevel
    /\ MoveTo(r, "answered")
    /\ level' = IF tier[r] = "PRIMARY" THEN level ELSE tier[r]
    /\ UNCHANGED <<hops, left, onLimit>>

\* increment_depth, then the next tier; over MaxHops it raises instead.  The count
\* is the strategy's: hops of other requests, and of earlier ones, are in it.
Hop(r) ==
    /\ tier[r] \in DOMAIN NextTier /\ hops < MaxFails
    /\ hops' = hops + 1
    /\ MoveTo(r, IF hops + 1 > MaxHops THEN "failed" ELSE NextTier[tier[r]])
    /\ UNCHANGED <<level, left, onLimit>>

LastTierFails(r) ==
    /\ tier[r] = "TERTIARY"
    /\ MoveTo(r, "failed")
    /\ UNCHANGED <<strategy, left, onLimit>>

\* wait_for cancels the strategy, whatever tier it is in.
LimitReached(r) ==
    /\ tier[r] \in FallbackLevel /\ left[r] = 0
    /\ MoveTo(r, CASE onLimit[r] = "fallback" -> "fallback"
                   [] onLimit[r] = "default" -> "answered"
                   [] onLimit[r] = "raise" -> "failed")
    /\ UNCHANGED <<strategy, left, onLimit>>

\* The fallback function has no limit of its own.
FallbackEnds(r) ==
    /\ tier[r] = "fallback"
    /\ \E end \in Ended : MoveTo(r, end)
    /\ UNCHANGED <<strategy, left, onLimit>>

ResetStrategy ==
    /\ hops' = 0 /\ level' = "PRIMARY"
    /\ UNCHANGED requests

SetLevel ==
    /\ level' \in FallbackLevel
    /\ UNCHANGED <<hops, requests>>

Waiting(r) == tier[r] \in FallbackLevel

\* Mutant of LimitTick: the limit is on the first tier only.
LimitTickFirstTier ==
    /\ \E r \in Request : Waiting(r)
    /\ \A r \in Request : Waiting(r) => left[r] > 0
    /\ left' = [r \in Request |-> IF tier[r] = "PRIMARY" THEN left[r] - 1 ELSE left[r]]
    /\ UNCHANGED <<strategy, tier, onLimit>>

\* A limit that is over is acted on before time goes on.
LimitTick ==
    /\ \E r \in Request : Waiting(r)
    /\ \A r \in Request : Waiting(r) => left[r] > 0
    /\ left' = [r \in Request |-> IF Waiting(r) THEN left[r] - 1 ELSE left[r]]
    /\ UNCHANGED <<strategy, tier, onLimit>>

DegradationNext ==
    \/ \E r \in Request : \/ StartRequest(r) \/ TierAnswers(r) \/ Hop(r)
                          \/ LastTierFails(r) \/ LimitReached(r) \/ FallbackEnds(r)
    \/ ResetStrategy \/ SetLevel \/ LimitTick

DegradationSpec == DegradationInit /\ [][DegradationNext]_degradationVars

-----------------------------------------------------------------------------
(* Properties *)

DegradationTypeOK ==
    /\ hops \in 0 .. MaxFails /\ level \in FallbackLevel
    /\ tier \in [Request -> FallbackLevel \cup Ended \cup {"new", "fallback"}]
    /\ left \in [Request -> 0 .. Limit] /\ onLimit \in [Request -> OnLimit]

\* One limit covers all tiers: a request gets out of them although every provider
\* hangs, and although others hop, reset or set the level of the strategy.
RequestEnds == \A r \in Request : Waiting(r) ~> ~Waiting(r)
=============================================================================
