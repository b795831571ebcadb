----------------------------- MODULE FaultEngine -----------------------------
(***************************************************************************)
(* FaultEngine of src/src/fault/mod.rs, shared by all handlers, and what   *)
(* its decisions do to the answers.  Each call runs decide() on a thread   *)
(* of its own; the seeded generator is behind a std mutex.  A draw is one  *)
(* step, because other threads run between the two draws of a fault.       *)
(* step[call] is where the call is:                                        *)
(*   idle      before decide()                                             *)
(*   locked    holds the mutex, nothing drawn                              *)
(*   faulting  holds the mutex; the roll is under the probability          *)
(*   decided   decide() has returned `decision`                            *)
(*   answered  the agent has `answer`, and the report `injected`           *)
(***************************************************************************)
EXTENDS Mutators, Integers

CONSTANTS
    Calls, Generators, RollOf(_), AfterRoll(_), PickOf(_, _), AfterPick(_, _), Resolution,
    Undecided, MaxScenarios,
    Configs,     \* the configurations: scenarios, probability, seed
    Bodies,      \* the bodies an upstream may answer with
    Nobody, NoFault, NoAnswer

VARIABLES
    enabled, probability,      \* of FaultEngine
    rng, lock,                 \* the generator, and which call holds its mutex
    step, decision,
    upstream,                  \* the body that the upstream answers with
    answer, injected

engineVars == <<enabled, probability, rng, lock>>
answerVars == <<answer, injected>>
vars       == <<engineVars, step, decision, upstream, answerVars>>

IsSupportedScenario(name) == name \in {"force_500", "force_429", "malformed_tool_call_json"}

Enabled(config) == SelectSeq(config.scenarios, IsSupportedScenario)

Clamp(p) == IF p < 0 THEN 0 ELSE IF p > Resolution THEN Resolution ELSE p

\* The generator yields what is asked of it; a configuration enables at most MaxScenarios.
ASSUME EngineAssumption ==
    /\ {Resolution, MaxScenarios} \subseteq Nat /\ Nobody \notin Calls
    /\ NoFault # "malformed_tool_call_json" /\ Bodies \subseteq ResponseBodies
    /\ \A state \in Generators :
         /\ RollOf(state) \in Nat /\ AfterRoll(state) \in Generators
         /\ \A n \in 1..MaxScenarios :
              PickOf(state, n) \in 1..n /\ AfterPick(state, n) \in Generators
    /\ \A config \in Configs :
         /\ Enabled(config) \in Seq({"force_500", "force_429", "malformed_tool_call_json"})
         /\ Len(Enabled(config)) <= MaxScenarios
         /\ config.probability \in Int /\ config.seed \in Generators

\* FaultEngine::from_config: names it does not know are passed over.
FromConfig(config) ==
    /\ enabled = Enabled(config)
    /\ probability = Clamp(config.probability)
    /\ rng = config.seed

Init ==
    /\ \E config \in Configs : FromConfig(config)
    /\ lock = Nobody
    /\ step = [call \in Calls |-> "idle"]
    /\ decision = [call \in Calls |-> Undecided]
    /\ upstream \in Bodies
    /\ answer = [call \in Calls |-> NoAnswer]
    /\ injected = [call \in Calls |-> NoFault]
------------------------------------------------------------------------------
(* decide() *)

Returns(call, action) ==
    /\ step' = [step EXCEPT ![call] = "decided"]
    /\ decision' = [decision EXCEPT ![call] = action]

\* No scenario or no probability: the generator is not touched.
Bypass(call) ==
    /\ step[call] = "idle" /\ (enabled = <<>> \/ probability <= 0)
    /\ Returns(call, "Forward")
    /\ UNCHANGED <<engineVars, upstream, answerVars>>

Lock(call) ==
    /\ step[call] = "idle" /\ ~(enabled = <<>> \/ probability <= 0)
    /\ lock = Nobody
    /\ lock' = call
    /\ step' = [step EXCEPT ![call] = "locked"]
    /\ UNCHANGED <<enabled, probability, rng, decision, upstream, answerVars>>

\* The roll is not under the probability: decide() returns, which drops the guard of the mutex.
RollForward(call) ==
    /\ step[call] = "locked" /\ RollOf(rng) >= probability
    /\ rng' = AfterRoll(rng)
    /\ lock' = Nobody
    /\ Returns(call, "Forward")
    /\ UNCHANGED <<enabled, probability, upstream, answerVars>>

\* Plausible bug: the mutex is taken for each draw.
RollFaultUnlocked(call) ==
    /\ step[call] = "locked" /\ RollOf(rng) < probability
    /\ rng' = AfterRoll(rng)
    /\ lock' = Nobody
    /\ step' = [step EXCEPT ![call] = "faulting"]
    /\ UNCHANGED <<enabled, probability, decision, upstream, answerVars>>

RollFault(call) ==
    /\ step[call] = "locked" /\ RollOf(rng) < probability
    /\ rng' = AfterRoll(rng)
    /\ step' = [step EXCEPT ![call] = "faulting"]
    /\ UNCHANGED <<enabled, probability, lock, decision, upstream, answerVars>>

PickScenario(call) ==
    /\ step[call] = "faulting"
    /\ rng' = AfterPick(rng, Len(enabled))
    /\ lock' = Nobody
    /\ Returns(call, enabled[PickOf(rng, Len(enabled))])
    /\ UNCHANGED <<enabled, probability, upstream, answerVars>>
------------------------------------------------------------------------------
(* What the decision does: Scenario::into_action, execute_and_meter, apply_mutate_after. *)

Answers(call, body, fault) ==
    /\ step' = [step EXCEPT ![call] = "answered"]
    /\ answer' = [answer EXCEPT ![call] = body]
    /\ injected' = [injected EXCEPT ![call] = fault]
    /\ UNCHANGED <<engineVars, decision, upstream>>

ErrorBody == [kind |-> "opaque"]

Forward(call) ==
    /\ step[call] = "decided" /\ decision[call] = "Forward"
    /\ Answers(call, upstream, NoFault)

ShortCircuit(call) ==
    /\ step[call] = "decided" /\ decision[call] \in {"force_500", "force_429"}
    /\ Answers(call, ErrorBody, decision[call])

MutateAfter(call) ==
    /\ step[call] = "decided" /\ decision[call] = "malformed_tool_call_json"
    /\ LET mutated == MalformToolCallJson(upstream)
       IN  Answers(call, mutated.value, IF mutated.changed THEN decision[call] ELSE NoFault)
------------------------------------------------------------------------------
Next ==
    \E call \in Calls :
        \/ Bypass(call) \/ Lock(call) \/ RollForward(call) \/ RollFault(call) \/ PickScenario(call)
        \/ Forward(call) \/ ShortCircuit(call) \/ MutateAfter(call)

Spec == Init /\ [][Next]_vars
------------------------------------------------------------------------------
\* The decisions, taken in two draws under a mutex by threads in any order, are those of the
\* seed's plan, one after the other and none twice.  A fault is settled by its first draw: until
\* the second one is made the plan counts it as made.
Faulting    == {call \in Calls : step[call] = "faulting"}
Chosen      == enabled[PickOf(rng, Len(enabled))]
PlannedRng  == IF Faulting = {} THEN rng ELSE AfterPick(rng, Len(enabled))
PlannedDecision == [call \in Calls |-> IF call \in Faulting THEN Chosen ELSE decision[call]]

Plan == INSTANCE FaultPlan WITH rng <- PlannedRng, decision <- PlannedDecision

ImplementsPlan == Plan!PlanSpec

\* A call is reported as faulted by malformed_tool_call_json exactly if its answer has been made
\* unusable: a malformed call, no valid one left in any choice or chunk, and an end of the stream.
\* Otherwise the agent has what the upstream has sent, and that has no place for a malformed call.
FaultsBite ==
    \A call \in Calls :
        step[call] = "answered" /\ decision[call] = "malformed_tool_call_json" =>
            IF injected[call] = NoFault
            THEN answer[call] = upstream /\ NoPlace(upstream)
            ELSE Unusable(answer[call]) /\ ~NoPlace(upstream)
------------------------------------------------------------------------------
(* What the sources say of the program and the program does not do: see the findings. *)

\* "Returns `None` only when the body is neither JSON nor SSE.": a body that a call was to corrupt
\* and that is passed on as it was is opaque.
NoneOnlyForOpaque ==
    \A call \in Calls :
        /\ step[call] = "answered" /\ decision[call] = "malformed_tool_call_json"
        /\ injected[call] = NoFault
        => upstream.kind = "opaque"
==============================================================================
