----------------------------- MODULE CostTracker -----------------------------
(***************************************************************************)
(* CostTracker: every call is entered into several accounts, of the day,   *)
(* of the month, of the providers and of the user, which are reset at      *)
(* different times.  A cost is a number of units; the prices that give it  *)
(* and the texts of alerts are left out.                                   *)
(***************************************************************************)
EXTENDS Naturals, FiniteSets, FiniteSetsExt

CONSTANTS User, CallId,
          DailyBudget, MonthlyBudget, UserLimit, \* in units
          Costs,    \* what one service may cost in one call
          MaxMonth  \* bound: units in a month, and calls of a user

ASSUME CostAssumption ==
    /\ DailyBudget \in Nat /\ MonthlyBudget \in Nat /\ UserLimit \in Nat
    /\ Costs \subseteq Nat /\ MaxMonth \in Nat
    /\ IsFiniteSet(User) /\ IsFiniteSet(CallId)

VARIABLES daily_cost, monthly_cost,
          call_costs,     \* the cost of each call, 0 if there is none
          provider_costs, \* a function whose domain is the providers it has an entry for
          user_daily_costs, user_call_counts,
          user_alerts,    \* users with an alert
          torn            \* history: record_call has left a call of this month half entered

dayAccounts == <<daily_cost, call_costs, provider_costs>>
userAccounts == <<user_daily_costs, user_call_counts, user_alerts>>
costVars == <<monthly_cost, dayAccounts, userAccounts, torn>>

Providers4 == {"google_stt", "google_tts", "gemini", "openai"}
NoCosts(S) == [x \in S |-> 0]

CostInit ==
    /\ daily_cost = 0 /\ monthly_cost = 0
    /\ call_costs = NoCosts(CallId) /\ provider_costs = NoCosts(Providers4)
    /\ user_daily_costs = NoCosts(User) /\ user_call_counts = NoCosts(User)
    /\ user_alerts = {} /\ torn = FALSE

IsBudgetExceeded == daily_cost > DailyBudget
IsMonthlyBudgetExceeded == monthly_cost > MonthlyBudget

\* The first entries of record_call; a call id that comes again is overwritten.
EnterCall(call, total) ==
    /\ monthly_cost + total <= MaxMonth
    /\ call_costs' = [call_costs EXCEPT ![call] = total]
    /\ daily_cost' = daily_cost + total
    /\ monthly_cost' = monthly_cost + total

\* _check_budgets: only the user's limit leaves a trace.
CheckBudgets(user) ==
    user_alerts' = IF user_daily_costs'[user] > UserLimit
                   THEN user_alerts \cup {user} ELSE user_alerts

\* The speech services, then the model: any provider but openai counts as gemini.
Charged(stt, tts, llm, provider) ==
    [p \in DOMAIN provider_costs |-> provider_costs[p] +
        CASE p = "google_stt" -> stt
          [] p = "google_tts" -> tts
          [] p = provider -> llm
          [] OTHER -> 0]

RecordCall(call, user, provider, stt, tts, llm) ==
    /\ provider \in DOMAIN provider_costs
    /\ EnterCall(call, stt + tts + llm)
    /\ provider_costs' = Charged(stt, tts, llm, provider)
    /\ user_daily_costs' = [user_daily_costs EXCEPT ![user] = @ + stt + tts + llm]
    /\ user_call_counts[user] < MaxMonth
    /\ user_call_counts' = [user_call_counts EXCEPT ![user] = @ + 1]
    /\ CheckBudgets(user)
    /\ UNCHANGED torn

\* There is no entry for openai after a daily reset: KeyError, with the speech
\* services charged and the user's accounts untouched.
RecordCallFails(call, stt, tts, llm) ==
    /\ "openai" \notin DOMAIN provider_costs
    /\ EnterCall(call, stt + tts + llm)
    /\ provider_costs' = Charged(stt, tts, 0, "openai")
    /\ torn' = TRUE
    /\ UNCHANGED userAccounts

\* Mutant of ResetDailyCost: the calls of the day are kept.
ResetDailyCostOfProviders ==
    /\ daily_cost' = 0
    /\ provider_costs' = NoCosts(Providers4 \ {"openai"})
    /\ UNCHANGED <<call_costs, monthly_cost, userAccounts, torn>>

\* The users' accounts stay, daily though they are called.
ResetDailyCost ==
    /\ daily_cost' = 0 /\ call_costs' = NoCosts(CallId)
    /\ provider_costs' = NoCosts(Providers4 \ {"openai"})
    /\ UNCHANGED <<monthly_cost, userAccounts, torn>>

ResetMonthlyCost ==
    /\ daily_cost' = 0 /\ monthly_cost' = 0
    /\ call_costs' = NoCosts(CallId) /\ provider_costs' = NoCosts(Providers4)
    /\ user_daily_costs' = NoCosts(User) /\ user_call_counts' = NoCosts(User)
    /\ user_alerts' = {} /\ torn' = FALSE

CostNext ==
    \/ \E call \in CallId, stt, tts, llm \in Costs :
          \/ \E user \in User, provider \in {"gemini", "openai"} :
                RecordCall(call, user, provider, stt, tts, llm)
          \/ RecordCallFails(call, stt, tts, llm)
    \/ ResetDailyCost \/ ResetMonthlyCost

CostSpec == CostInit /\ [][CostNext]_costVars

-----------------------------------------------------------------------------
(* Properties *)

CostTypeOK ==
    /\ daily_cost \in 0 .. MaxMonth /\ monthly_cost \in 0 .. MaxMonth
    /\ call_costs \in [CallId -> 0 .. MaxMonth]
    /\ DOMAIN provider_costs \in {Providers4, Providers4 \ {"openai"}}
    /\ \A p \in DOMAIN provider_costs : provider_costs[p] \in 0 .. MaxMonth
    /\ user_daily_costs \in [User -> 0 .. MaxMonth]
    /\ user_call_counts \in [User -> Nat]
    /\ user_alerts \subseteq User /\ torn \in BOOLEAN

Total(f) == MapThenSumSet(LAMBDA x : f[x], DOMAIN f)

\* Whatever the order of calls, failed entries and resets: no account of the day exceeds
\* the day's total, that total and the users' accounts do not exceed the month, and as
\* long as no entry has failed, every unit of the day is with one provider, and with
\* some user.  Whether the users' accounts hold more than the day is left open.
AccountsAgree ==
    /\ daily_cost <= monthly_cost /\ Total(user_daily_costs) <= monthly_cost
    /\ Total(call_costs) <= daily_cost
    /\ Total(provider_costs) <= daily_cost
    /\ ~torn => daily_cost = Total(provider_costs) /\ daily_cost <= Total(user_daily_costs)
=============================================================================
