------------------------------ MODULE FaultPlan ------------------------------
(***************************************************************************)
(* What a seed promises (README.md, "Reproducible chaos (same seed -> same *)
(* decisions)", and FaultEngine::decide of src/src/fault/mod.rs taken as   *)
(* one step): each call takes the next decision of a sequence which the    *)
(* configuration determines.  Which call takes which one is not promised.  *)
(***************************************************************************)
EXTENDS Integers, Sequences

CONSTANTS
    Calls,
    MaxScenarios,       \* how many scenarios there are
    Generators,         \* the states of StdRng
    RollOf(_),          \* rng.random_range(0.0..1.0), as one of Resolution equal parts
    AfterRoll(_),
    PickOf(_, _),       \* rng.random_range(0..n), from 1
    AfterPick(_, _),
    Resolution,
    Undecided

VARIABLES
    enabled,            \* FaultEngine.enabled
    probability,        \* FaultEngine.probability, in parts of Resolution
    rng, decision

planVars == <<enabled, probability, rng, decision>>

Scenario == {"force_500", "force_429", "malformed_tool_call_json"}

NeverFaults == enabled = <<>> \/ probability <= 0

Decides(call, action, next) ==
    /\ decision[call] = Undecided
    /\ decision' = [decision EXCEPT ![call] = action]
    /\ rng' = next
    /\ UNCHANGED <<enabled, probability>>

\* The next decision: one draw for whether, and one more for which.
Decide(call) ==
    IF NeverFaults THEN Decides(call, "Forward", rng)
    ELSE IF RollOf(rng) >= probability THEN Decides(call, "Forward", AfterRoll(rng))
    ELSE LET second == AfterRoll(rng)
         IN  Decides(call, enabled[PickOf(second, Len(enabled))], AfterPick(second, Len(enabled)))

PlanInit ==
    /\ enabled \in Seq(Scenario) /\ Len(enabled) <= MaxScenarios
    /\ probability \in 0..Resolution
    /\ rng \in Generators
    /\ decision = [call \in Calls |-> Undecided]

PlanSpec == PlanInit /\ [][\E call \in Calls : Decide(call)]_planVars
==============================================================================
