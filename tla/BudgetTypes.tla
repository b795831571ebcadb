----------------------------- MODULE BudgetTypes -----------------------------
(***************************************************************************)
(* The data of src/src/budget/mod.rs shared by the abstract ledger and the *)
(* lock-free tracker: the configured limits, the u64 arithmetic and the    *)
(* test that admission makes against the observed-spend cap.  Amounts are  *)
(* micro-USD, as in MicroUsd; MaxU64 stands for u64::MAX.                  *)
(***************************************************************************)
EXTENDS Naturals, FiniteSets

CONSTANTS
    Requests,      \* the billable requests that call admit() once each
    MaxLlmCalls,   \* BudgetLimits.max_llm_calls
    MaxCostUsd,    \* BudgetLimits.max_cost_usd; 0 switches the spend cap off
    MaxU64,        \* the largest value of the two AtomicU64
    Costs,         \* the costs a metered response can have
    NoCost         \* "no cost committed": None

ASSUME BudgetAssumption ==
    /\ IsFiniteSet(Requests)
    /\ MaxU64 \in Nat
    /\ MaxLlmCalls \in 0..MaxU64
    /\ MaxCostUsd \in 0..MaxU64
    /\ Costs \subseteq 0..MaxU64
    /\ NoCost \notin Nat

(* Plausible bugs of saturating_add, which the properties are run against. *)
WrappingAdd(a, b)  == (a + b) % (MaxU64 + 1)
UnboundedAdd(a, b) == a + b

\* u64::saturating_add
SaturatingAdd(a, b) == IF a + b > MaxU64 THEN MaxU64 ELSE a + b

\* The refusal test of admit(): a zero cap means that there is none.
CostCapReached(observed) == MaxCostUsd # 0 /\ observed >= MaxCostUsd
==============================================================================
