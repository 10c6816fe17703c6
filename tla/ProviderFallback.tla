-------------------------- MODULE ProviderFallback --------------------------
(***************************************************************************)
(* ProviderFallback: an operation is tried on the providers in the order   *)
(* of their priority.  Calls run concurrently and share the providers'     *)
(* metrics; costs are recorded apart from the calls, by the caller.        *)
(***************************************************************************)
EXTENDS Naturals, FiniteSets

CONSTANTS Client,
          Providers, \* how many; provider 1 is tried first
          Budget,    \* budget_usd of each provider
          MaxCalls,  \* bound: call_count of a provider
          MaxSpent   \* bound: monthly cost of a provider

ASSUME FallbackAssumption ==
    /\ Providers \in Nat \ {0} /\ Budget \in Nat
    /\ MaxCalls \in Nat /\ MaxSpent \in Nat

VARIABLES enabled,  \* fallback_enabled
          adapters, \* providers with an adapter
          current,  \* current_provider_index
          calls,    \* call_count
          errors,   \* error_count; success_count is the rest
          degraded, \* providers whose status is DEGRADED
          spent,    \* monthly_cost_usd
          trying    \* the provider each client waits for, or 0

Provider == 1 .. Providers
metrics == <<calls, errors, degraded>>
config == <<enabled, adapters>>
fallbackVars == <<config, current, metrics, spent, trying>>

FallbackInit ==
    /\ enabled \in BOOLEAN
    /\ adapters = {} /\ current = 1
    /\ calls = [p \in Provider |-> 0] /\ errors = [p \in Provider |-> 0]
    /\ degraded = {} /\ spent = [p \in Provider |-> 0]
    /\ trying = [c \in Client |-> 0]

Register(p) ==
    /\ adapters' = adapters \cup {p}
    /\ UNCHANGED <<enabled, current, metrics, spent, trying>>

BudgetExceeded(p) == spent[p] > Budget
Usable(p) == ~BudgetExceeded(p) /\ p \in adapters

\* The first provider from p on that can be tried now; 0 if none is left.
FirstFrom(p) ==
    LET usable == {q \in Provider : q >= p /\ Usable(q)}
    IN IF usable = {} THEN 0 ELSE CHOOSE q \in usable : \A o \in usable : q <= o

\* call_with_fallback up to its first await.  Without fallback the current provider
\* is asked, its budget unseen.
CallWithFallback(c) ==
    /\ trying[c] = 0
    /\ trying' = [trying EXCEPT ![c] =
          IF enabled THEN FirstFrom(1) ELSE IF current \in adapters THEN current ELSE 0]
    /\ UNCHANGED <<config, current, metrics, spent>>

\* Mutant of RecordSuccess: the status stays as it is.
RecordSuccessOnly(p) ==
    /\ calls' = [calls EXCEPT ![p] = @ + 1]
    /\ UNCHANGED <<errors, degraded>>

RecordSuccess(p) ==
    /\ calls' = [calls EXCEPT ![p] = @ + 1]
    /\ degraded' = degraded \ {p}
    /\ UNCHANGED errors

\* More than one error in five calls: degraded.
RecordError(p) ==
    /\ calls' = [calls EXCEPT ![p] = @ + 1]
    /\ errors' = [errors EXCEPT ![p] = @ + 1]
    /\ degraded' = IF 5 * errors'[p] > calls'[p] THEN degraded \cup {p} ELSE degraded

Waits(c) == trying[c] # 0 /\ calls[trying[c]] < MaxCalls

\* A result: with fallback the provider becomes the current one.
Served(c) ==
    /\ Waits(c)
    /\ RecordSuccess(trying[c])
    /\ current' = IF enabled THEN trying[c] ELSE current
    /\ trying' = [trying EXCEPT ![c] = 0]
    /\ UNCHANGED <<config, spent>>

\* None is a success of the provider, and the next one is asked all the same.
ServedNothing(c) ==
    /\ Waits(c)
    /\ RecordSuccess(trying[c])
    /\ trying' = [trying EXCEPT ![c] = IF enabled THEN FirstFrom(trying[c] + 1) ELSE 0]
    /\ UNCHANGED <<config, current, spent>>

\* The provider raises, or has no such operation.
Failed(c) ==
    /\ Waits(c) /\ enabled
    /\ RecordError(trying[c])
    /\ trying' = [trying EXCEPT ![c] = FirstFrom(trying[c] + 1)]
    /\ UNCHANGED <<config, current, spent>>

\* Without fallback the error goes to the client, and into no count.
FailedUnrecorded(c) ==
    /\ trying[c] # 0 /\ ~enabled
    /\ trying' = [trying EXCEPT ![c] = 0]
    /\ UNCHANGED <<config, current, metrics, spent>>

RecordCost(p) ==
    /\ spent[p] < MaxSpent
    /\ spent' = [spent EXCEPT ![p] = @ + 1]
    /\ UNCHANGED <<config, current, metrics, trying>>

ResetMonthlyCosts ==
    /\ spent' = [p \in Provider |-> 0]
    /\ UNCHANGED <<config, current, metrics, trying>>

SetCurrentProvider(p) ==
    /\ ~BudgetExceeded(p)
    /\ current' = p
    /\ UNCHANGED <<config, metrics, spent, trying>>

FallbackNext ==
    \/ \E c \in Client : \/ CallWithFallback(c) \/ Served(c) \/ ServedNothing(c)
                         \/ Failed(c) \/ FailedUnrecorded(c)
    \/ \E p \in Provider : Register(p) \/ RecordCost(p) \/ SetCurrentProvider(p)
    \/ ResetMonthlyCosts

FallbackSpec == FallbackInit /\ [][FallbackNext]_fallbackVars

-----------------------------------------------------------------------------
(* Properties *)

FallbackTypeOK ==
    /\ enabled \in BOOLEAN /\ adapters \subseteq Provider /\ current \in Provider
    /\ calls \in [Provider -> 0 .. MaxCalls] /\ errors \in [Provider -> 0 .. MaxCalls]
    /\ degraded \subseteq Provider /\ spent \in [Provider -> 0 .. MaxSpent]
    /\ trying \in [Client -> 0 .. Providers]

\* However the outcomes of concurrent calls interleave, a provider that is reported
\* as degraded has failed more than one call in five, and never failed more calls
\* than it was given.
DegradedIsFailing ==
    \A p \in Provider : /\ p \in degraded => 5 * errors[p] > calls[p]
                        /\ errors[p] <= calls[p]
=============================================================================
