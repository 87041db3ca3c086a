------------------------------- MODULE Budget -------------------------------
(***************************************************************************)
(* BudgetEnforcer (core/src/bridge/budget.rs) shared by concurrent         *)
(* prompts: each checks within_budget, runs, then calls record_spend,      *)
(* whose two fetch_adds are two steps.  The callers are external: nothing  *)
(* in core/src/bridge calls the enforcer yet; they follow the module's     *)
(* header (checks constraints before a routing decision is executed).      *)
(* Latency is kept in a u64 and compared as a u32.                         *)
(***************************************************************************)
EXTENDS Integers, FiniteSets

CONSTANTS
    Caller,         \* concurrent prompts
    LatencyBudget,  \* latency_budget_ms
    CostBudget,     \* cost_budget_usd, in microdollars
    MaxLatency,     \* the longest a prompt takes
    MaxCost,        \* the most a prompt costs
    Wrap,           \* 2^32, the values a u32 has
    MaxPrompts,     \* bound: prompts ever run
    MaxResets       \* bound: calls of reset

ASSUME BudgetAssumption ==
    /\ IsFiniteSet(Caller)
    /\ LatencyBudget \in Nat /\ CostBudget \in Nat
    /\ MaxLatency \in Nat /\ MaxCost \in Nat
    /\ MaxPrompts \in Nat /\ MaxResets \in Nat
    /\ Wrap \in Nat \ {0}

VARIABLES
    spentMs, spentCost,  \* spent_ms, spent_usd_micros
    phase,               \* idle, running (it was within budget), recording
    owed,                \* the cost a recording caller has still to add
    prompts, resets,     \* prompts started and resets so far
    resetting            \* reset() is between its two stores

budgetVars == <<spentMs, spentCost, phase, owed, prompts, resets, resetting>>

BudgetInit ==
    /\ spentMs = 0 /\ spentCost = 0
    /\ phase = [c \in Caller |-> "idle"] /\ owed = [c \in Caller |-> 0]
    /\ prompts = 0 /\ resets = 0 /\ resetting = FALSE

(* mutated (a slip the code could well contain; not used): only the latency *)
(* is checked                                                              *)
WithinLatencyBudget == spentMs % Wrap < LatencyBudget

WithinBudget == spentMs % Wrap < LatencyBudget /\ spentCost < CostBudget

Check(c) ==
    /\ phase[c] = "idle" /\ prompts < MaxPrompts
    /\ WithinBudget
    /\ phase' = [phase EXCEPT ![c] = "running"]
    /\ prompts' = prompts + 1
    /\ UNCHANGED <<spentMs, spentCost, owed, resets, resetting>>

(* record_spend: fetch_add of the latency ... *)
RecordLatency(c, ms, cost) ==
    /\ phase[c] = "running"
    /\ spentMs' = spentMs + ms
    /\ owed' = [owed EXCEPT ![c] = cost]
    /\ phase' = [phase EXCEPT ![c] = "recording"]
    /\ UNCHANGED <<spentCost, prompts, resets, resetting>>

(* ... then of the cost. *)
RecordCost(c) ==
    /\ phase[c] = "recording"
    /\ spentCost' = spentCost + owed[c]
    /\ owed' = [owed EXCEPT ![c] = 0]
    /\ phase' = [phase EXCEPT ![c] = "idle"]
    /\ UNCHANGED <<spentMs, prompts, resets, resetting>>

(* reset(): spent_ms is stored first ... *)
ResetLatency ==
    /\ ~resetting /\ resets < MaxResets
    /\ resetting' = TRUE /\ resets' = resets + 1
    /\ spentMs' = 0
    /\ UNCHANGED <<spentCost, phase, owed, prompts>>

(* ... then spent_usd_micros, and what was recorded in between is lost. *)
ResetCost ==
    /\ resetting /\ resetting' = FALSE
    /\ spentCost' = 0
    /\ UNCHANGED <<spentMs, phase, owed, prompts, resets>>

BudgetNext ==
    \/ \E c \in Caller :
          \/ Check(c)
          \/ \E ms \in 0 .. MaxLatency, cost \in 0 .. MaxCost :
                RecordLatency(c, ms, cost)
          \/ RecordCost(c)
    \/ ResetLatency
    \/ ResetCost

BudgetSpec == BudgetInit /\ [][BudgetNext]_budgetVars

-----------------------------------------------------------------------------
Busy == {c \in Caller : phase[c] # "idle"}

BudgetTypeOK ==
    /\ spentMs \in Nat /\ spentCost \in Nat
    /\ prompts \in Nat /\ resets \in Nat
    /\ resetting \in BOOLEAN
    /\ phase \in [Caller -> {"idle", "running", "recording"}]
    /\ owed \in [Caller -> 0 .. MaxCost]

(* Concurrent prompts overshoot the cost budget by at most one prompt per  *)
(* caller: what is spent, with all that the prompts under way can add,     *)
(* never exceeds the budget by more than that, resets included.            *)
OvershootBounded ==
    spentCost + Cardinality(Busy) * MaxCost
        <= CostBudget + Cardinality(Caller) * MaxCost
=============================================================================
