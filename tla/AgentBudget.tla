----------------------------- MODULE AgentBudget -----------------------------
(***************************************************************************)
(* The token budget around a model call: BaseAgent.execute (src/agents/    *)
(* base.py) checks TokenBudgetTracker (src/guardrails/token_budget.py),    *)
(* awaits the model, validates its output and only then records the tokens *)
(* under the date it is by then.  Agents of a project share the tracker.   *)
(* Streamed calls and corrections of an output go round it.                *)
(***************************************************************************)
EXTENDS Naturals, FiniteSetsExt, Functions

CONSTANTS
  Agents,
  TokenLimit,     \* daily_token_limit, 0: none
  CallTokens,     \* the numbers of tokens a call can use
  Days,           \* bound on the days
  MaxSpent        \* bound on the tokens spent: no call starts after that

ASSUME AgentBudgetAssumption ==
  /\ IsFiniteSet(Agents) /\ TokenLimit \in Nat
  /\ CallTokens \subseteq Nat \ {0} /\ IsFiniteSet(CallTokens) /\ CallTokens # {}
  /\ Days \in Nat \ {0} /\ MaxSpent \in Nat

VARIABLES
  blocks,      \* budget_exceeded_action = "block"
  today,
  agentPhase,  \* what each agent awaits
  used,        \* _usage: the tokens recorded per day and agent
  spent,       \* history: the tokens of all calls that came back
  unseen       \* history: those of calls that are not on record

agentBudgetVars == <<blocks, today, agentPhase, used, spent, unseen>>

AgentBudgetTypeOK ==
  /\ blocks \in BOOLEAN /\ today \in 1 .. Days
  /\ agentPhase \in [Agents -> {"idle", "calls", "corrects", "streams"}]
  /\ used \in [1 .. Days -> [Agents -> Nat]]
  /\ spent \in Nat /\ unseen \in Nat

AgentBudgetInit ==
  /\ blocks \in BOOLEAN /\ today = 1
  /\ agentPhase = [a \in Agents |-> "idle"]
  /\ used = [d \in 1 .. Days |-> [a \in Agents |-> 0]]
  /\ spent = 0 /\ unseen = 0

DailyTokens(d) == SumFunctionOnSet(used[d], Agents)

\* get_status().limit_exceeded
LimitExceeded(d) == TokenLimit > 0 /\ DailyTokens(d) > TokenLimit

AgentGoes(a, to) == agentPhase' = [agentPhase EXCEPT ![a] = to]

\* _check_token_budget(): without "block" an exceeded limit is only reported.
StartCall(a) ==
  /\ agentPhase[a] = "idle" /\ spent < MaxSpent
  /\ ~(blocks /\ LimitExceeded(today))
  /\ AgentGoes(a, "calls")
  /\ UNCHANGED <<blocks, today, used, spent, unseen>>

\* execute_with_streaming() does not ask whether the limit is exceeded.
StartStream(a) ==
  /\ agentPhase[a] = "idle" /\ spent < MaxSpent
  /\ AgentGoes(a, "streams")
  /\ UNCHANGED <<blocks, today, used, spent, unseen>>

\* The model call raises: nothing is recorded, nor counted here.
CallFailed(a) ==
  /\ agentPhase[a] # "idle" /\ AgentGoes(a, "idle")
  /\ UNCHANGED <<blocks, today, used, spent, unseen>>

OffTheRecord(n) ==
  /\ spent' = spent + n /\ unseen' = unseen + n
  /\ UNCHANGED <<blocks, today, used>>

\* _run_output_validation() raises before the tokens are recorded.
OutputRejected(a, n) ==
  /\ agentPhase[a] = "calls" /\ AgentGoes(a, "idle") /\ OffTheRecord(n)

\* A response without usage is not recorded, and goes on like any other.
CallWithoutUsage(a, n, next) ==
  /\ agentPhase[a] = "calls" /\ AgentGoes(a, next) /\ OffTheRecord(n)

\* record(); then the output may have to be corrected by one more call.
CallRecorded(a, n, next) ==
  /\ agentPhase[a] = "calls" /\ AgentGoes(a, next)
  /\ used' = [used EXCEPT ![today][a] = @ + n]
  /\ spent' = spent + n
  /\ UNCHANGED <<blocks, today, unseen>>

\* _self_correct_output() is neither checked nor recorded.
Corrected(a, n) ==
  /\ agentPhase[a] = "corrects" /\ AgentGoes(a, "idle") /\ OffTheRecord(n)

\* Nor is what a stream has used.
Streamed(a, n) ==
  /\ agentPhase[a] = "streams" /\ AgentGoes(a, "idle") /\ OffTheRecord(n)

Midnight ==
  /\ today < Days /\ today' = today + 1
  /\ UNCHANGED <<blocks, agentPhase, used, spent, unseen>>

\* reset_daily(), by an operator.
ResetDaily ==
  /\ DailyTokens(today) > 0
  /\ unseen' = unseen + DailyTokens(today)
  /\ used' = [used EXCEPT ![today] = [a \in Agents |-> 0]]
  /\ UNCHANGED <<blocks, today, agentPhase, spent>>

AgentBudgetNext ==
  \/ \E a \in Agents :
       \/ StartCall(a) \/ StartStream(a) \/ CallFailed(a)
       \/ \E n \in CallTokens :
            \/ OutputRejected(a, n) \/ Corrected(a, n) \/ Streamed(a, n)
            \/ \E next \in {"idle", "corrects"} :
                 CallRecorded(a, n, next) \/ CallWithoutUsage(a, n, next)
  \/ Midnight \/ ResetDaily

AgentBudgetSpec == AgentBudgetInit /\ [][AgentBudgetNext]_agentBudgetVars
-----------------------------------------------------------------------------
\* The check comes before the await and the record after it (token_budget.py:121): a
\* blocking limit is exceeded on record by no more than the calls that were in flight
\* when it was passed, one per agent, those begun the day before included.
OvershootBounded ==
  blocks /\ TokenLimit > 0 =>
    \A d \in 1 .. Days :
      DailyTokens(d) <= TokenLimit + Cardinality(Agents) * Max(CallTokens)

\* What is spent and not on record was spent on a rejected output, a correction or a
\* stream, came without usage, or was reset (base.py:163, 166, 200, 284): no
\* interleaving of the agents and of midnight loses or counts twice what is recorded.
SpendIsSeen ==
  spent = unseen + SumFunction([d \in 1 .. today |-> DailyTokens(d)])
=============================================================================
