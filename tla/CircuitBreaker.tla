--------------------------- MODULE CircuitBreaker ---------------------------
(***************************************************************************)
(* CircuitBreaker.call by concurrent callers.  The state is read and       *)
(* changed under the lock, the service is called outside of it, so what a  *)
(* call brings back meets whatever state the others have left.             *)
(*                                                                         *)
(* Time is counted in ticks since the last failure.  The service answers,  *)
(* fails or hangs; once it is healthy it fails no more.                    *)
(***************************************************************************)
EXTENDS Naturals, FiniteSets

CONSTANTS Caller,
          Threshold, \* failure_threshold
          OpenTime,  \* timeout_seconds, in ticks
          MaxCount,  \* bound: failures counted
          Never      \* there has been no failure

ASSUME BreakerAssumption ==
    /\ Threshold \in Nat \ {0} /\ OpenTime \in Nat
    /\ MaxCount \in Nat /\ Threshold <= MaxCount
    /\ Never \notin Nat

VARIABLES circuit,  \* _state
          failures, \* _failure_count
          quiet,    \* ticks since _last_failure_time, up to OpenTime, or Never
          calling,  \* callers whose function runs
          trials,   \* those of them that were let through in HALF_OPEN
          healthy   \* environment: the service has recovered

breaker == <<circuit, failures, quiet>>
breakerVars == <<breaker, calling, trials, healthy>>

CircuitState == {"CLOSED", "OPEN", "HALF_OPEN"}

BreakerInit ==
    /\ circuit = "CLOSED" /\ failures = 0 /\ quiet = Never
    /\ calling = {} /\ trials = {} /\ healthy = FALSE

\* _should_attempt_recovery
ShouldAttemptRecovery == quiet = OpenTime

Through(c, state) ==
    /\ circuit' = state
    /\ calling' = calling \cup {c}
    /\ trials' = IF state = "HALF_OPEN" THEN trials \cup {c} ELSE trials
    /\ UNCHANGED <<failures, quiet, healthy>>

\* Mutant of Rejected: a rejected call counts as a failure of the service.
RejectedAsFailure(c) ==
    /\ circuit = "OPEN" /\ ~ShouldAttemptRecovery
    /\ quiet' = 0
    /\ UNCHANGED <<circuit, failures, calling, trials, healthy>>

\* RuntimeError at once; the breaker does not change.
Rejected(c) ==
    /\ circuit = "OPEN" /\ ~ShouldAttemptRecovery
    /\ UNCHANGED breakerVars

\* The first locked section of call.
BeginCall(c) ==
    /\ c \notin calling
    /\ \/ circuit = "OPEN" /\ ShouldAttemptRecovery /\ Through(c, "HALF_OPEN")
       \/ circuit # "OPEN" /\ Through(c, circuit)
       \/ Rejected(c)

Left(c) == calling' = calling \ {c} /\ trials' = trials \ {c}

\* Mutant of Succeed: any success clears the count.
SucceedAndClear(c) ==
    /\ c \in calling /\ Left(c)
    /\ circuit' = IF circuit = "HALF_OPEN" THEN "CLOSED" ELSE circuit
    /\ failures' = 0
    /\ UNCHANGED <<quiet, healthy>>

\* The second locked section after a result, whatever state it finds: a success
\* that comes late, in OPEN, changes nothing.
Succeed(c) ==
    /\ c \in calling /\ Left(c)
    /\ circuit' = IF circuit = "HALF_OPEN" THEN "CLOSED" ELSE circuit
    /\ failures' = IF circuit = "OPEN" THEN failures ELSE 0
    /\ UNCHANGED <<quiet, healthy>>

\* _record_failure.  The count is left alone on the way to HALF_OPEN, so one
\* failure there opens the circuit again.
Fail(c) ==
    /\ c \in calling /\ ~healthy /\ failures < MaxCount
    /\ Left(c)
    /\ failures' = failures + 1 /\ quiet' = 0
    /\ circuit' = IF failures + 1 >= Threshold THEN "OPEN" ELSE circuit
    /\ UNCHANGED healthy

\* reset, or reset_all of the manager
Reset ==
    /\ circuit' = "CLOSED" /\ failures' = 0 /\ quiet' = Never
    /\ UNCHANGED <<calling, trials, healthy>>

BreakerTick ==
    /\ quiet # Never /\ quiet < OpenTime
    /\ quiet' = quiet + 1
    /\ UNCHANGED <<circuit, failures, calling, trials, healthy>>

Recover ==
    /\ ~healthy /\ healthy' = TRUE
    /\ UNCHANGED <<breaker, calling, trials>>

BreakerNext ==
    \/ \E c \in Caller : BeginCall(c) \/ Succeed(c) \/ Fail(c)
    \/ Reset \/ BreakerTick \/ Recover

BreakerSpec == BreakerInit /\ [][BreakerNext]_breakerVars

-----------------------------------------------------------------------------
(* Properties *)

BreakerTypeOK ==
    /\ circuit \in CircuitState
    /\ failures \in 0 .. MaxCount
    /\ quiet \in (0 .. OpenTime) \cup {Never}
    /\ calling \subseteq Caller /\ trials \subseteq calling
    /\ healthy \in BOOLEAN

\* Whatever order results come back in, the circuit is closed exactly while the
\* failures counted are under the threshold, and once they are not there is a time
\* to recover from: no late success leaves it open on a count that says it is
\* fine, and one failed trial is enough to open it again.
CountMatchesCircuit ==
    /\ circuit = "CLOSED" <=> failures < Threshold
    /\ circuit # "CLOSED" => quiet # Never

\* Once the service has recovered the circuit closes, although callers that are
\* rejected keep trying.
RecoveryCloses == healthy ~> circuit = "CLOSED"

\* What CircuitState and the class say of HALF_OPEN: one request is allowed.
OneTrial == Cardinality(trials) <= 1
=============================================================================
