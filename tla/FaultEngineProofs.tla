-------------------------- MODULE FaultEngineProofs --------------------------
(***************************************************************************)
(* Proof that FaultEngine takes the decisions of FaultPlan, for any number *)
(* of calls, any generator and any configuration.                          *)
(***************************************************************************)
EXTENDS FaultEngine, TLAPS

Actions == {Undecided, "Forward", "force_500", "force_429", "malformed_tool_call_json"}

EngineTypeOK ==
    /\ enabled \in Seq({"force_500", "force_429", "malformed_tool_call_json"})
    /\ Len(enabled) <= MaxScenarios
    /\ probability \in 0..Resolution
    /\ rng \in Generators
    /\ decision \in [Calls -> Actions]
    /\ step \in [Calls -> {"idle", "locked", "faulting", "decided", "answered"}]

Drawing == {"locked", "faulting"}

\* The mutex is held by the call that draws, so that at most one call does.
MutexHeld == \A call \in Calls : step[call] \in Drawing <=> lock = call

\* The generator is only reached with something to choose from.
SomethingToDraw == \A call \in Calls : step[call] \in Drawing => enabled # <<>> /\ probability > 0

NotYetDecided ==
    \A call \in Calls : step[call] \in {"idle"} \cup Drawing => decision[call] = Undecided

IInv == EngineTypeOK /\ MutexHeld /\ SomethingToDraw /\ NotYetDecided

------------------------------------------------------------------------------
\* The two draws stay within what the generator and the scenarios offer.
LEMMA DrawFacts ==
    ASSUME EngineTypeOK, NEW state \in Generators
    PROVE  /\ AfterRoll(state) \in Generators /\ RollOf(state) \in Nat
           /\ enabled # <<>> => /\ AfterPick(state, Len(enabled)) \in Generators
                                /\ enabled[PickOf(state, Len(enabled))] \in Actions
<1>1. AfterRoll(state) \in Generators /\ RollOf(state) \in Nat
  BY EngineAssumption
<1>2. ASSUME enabled # <<>>
      PROVE  /\ AfterPick(state, Len(enabled)) \in Generators
             /\ enabled[PickOf(state, Len(enabled))] \in Actions
  <2>1. Len(enabled) \in 1..MaxScenarios
    BY <1>2, EngineAssumption DEF EngineTypeOK
  <2>2. /\ PickOf(state, Len(enabled)) \in 1..Len(enabled)
        /\ AfterPick(state, Len(enabled)) \in Generators
    BY <2>1, EngineAssumption
  <2>3. enabled[PickOf(state, Len(enabled))] \in
          {"force_500", "force_429", "malformed_tool_call_json"}
    BY <2>2 DEF EngineTypeOK
  <2> QED  BY <2>2, <2>3 DEF Actions
<1> QED  BY <1>1, <1>2

\* The invariant holds at the start.
LEMMA InitInvariant == Init => IInv
<1> SUFFICES ASSUME Init PROVE IInv
  OBVIOUS
<1> PICK config \in Configs : FromConfig(config)
  BY DEF Init
<1>1. probability \in 0..Resolution
  BY EngineAssumption DEF FromConfig, Clamp
<1>2. EngineTypeOK
  BY <1>1, EngineAssumption DEF EngineTypeOK, Init, FromConfig, Actions
<1>3. MutexHeld /\ SomethingToDraw /\ NotYetDecided
  BY EngineAssumption DEF Init, MutexHeld, SomethingToDraw, NotYetDecided, Drawing
<1> QED  BY <1>2, <1>3 DEF IInv

\* Every step keeps the invariant.
LEMMA StepInvariant == IInv /\ [Next]_vars => IInv'
<1> SUFFICES ASSUME IInv, [Next]_vars PROVE IInv'
  OBVIOUS
<1> USE DEF IInv
<1>1. ASSUME NEW call \in Calls, Bypass(call) PROVE IInv'
  <2>1. EngineTypeOK'
    BY <1>1 DEF Bypass, Returns, engineVars, EngineTypeOK, Actions
  <2>2. MutexHeld' /\ SomethingToDraw' /\ NotYetDecided'
    BY <1>1 DEF Bypass, Returns, engineVars, EngineTypeOK, MutexHeld, SomethingToDraw, NotYetDecided,
                Drawing
  <2> QED  BY <2>1, <2>2
<1>2. ASSUME NEW call \in Calls, Lock(call) PROVE IInv'
  <2>1. EngineTypeOK'
    BY <1>2 DEF Lock, EngineTypeOK
  <2>2. MutexHeld'
    BY <1>2, EngineAssumption DEF Lock, EngineTypeOK, MutexHeld, Drawing
  <2>3. SomethingToDraw' /\ NotYetDecided'
    BY <1>2, EngineAssumption DEF Lock, EngineTypeOK, SomethingToDraw, NotYetDecided, Drawing
  <2> QED  BY <2>1, <2>2, <2>3
<1>3. ASSUME NEW call \in Calls, RollForward(call) PROVE IInv'
  <2>1. EngineTypeOK'
    BY <1>3, DrawFacts DEF RollForward, Returns, EngineTypeOK, Actions
  <2>2. MutexHeld'
    BY <1>3, EngineAssumption DEF RollForward, Returns, EngineTypeOK, MutexHeld, Drawing
  <2>3. SomethingToDraw' /\ NotYetDecided'
    BY <1>3 DEF RollForward, Returns, EngineTypeOK, SomethingToDraw, NotYetDecided, Drawing
  <2> QED  BY <2>1, <2>2, <2>3
<1>4. ASSUME NEW call \in Calls, RollFault(call) PROVE IInv'
  <2>1. EngineTypeOK'
    BY <1>4, DrawFacts DEF RollFault, EngineTypeOK
  <2>2. MutexHeld' /\ SomethingToDraw' /\ NotYetDecided'
    BY <1>4 DEF RollFault, EngineTypeOK, MutexHeld, SomethingToDraw, NotYetDecided, Drawing
  <2> QED  BY <2>1, <2>2
<1>5. ASSUME NEW call \in Calls, PickScenario(call) PROVE IInv'
  <2>1. enabled # <<>>
    BY <1>5 DEF PickScenario, SomethingToDraw, Drawing
  <2>2. EngineTypeOK'
    BY <1>5, <2>1, DrawFacts DEF PickScenario, Returns, EngineTypeOK
  <2>3. MutexHeld'
    BY <1>5, EngineAssumption DEF PickScenario, Returns, EngineTypeOK, MutexHeld, Drawing
  <2>4. SomethingToDraw' /\ NotYetDecided'
    BY <1>5 DEF PickScenario, Returns, EngineTypeOK, SomethingToDraw, NotYetDecided, Drawing
  <2> QED  BY <2>2, <2>3, <2>4
<1>6. ASSUME NEW call \in Calls, NEW body, NEW fault, Answers(call, body, fault),
             step[call] = "decided"
      PROVE  IInv'
  BY <1>6 DEF Answers, engineVars, EngineTypeOK, MutexHeld, SomethingToDraw, NotYetDecided, Drawing
<1>7. ASSUME NEW call \in Calls, Forward(call) \/ ShortCircuit(call) \/ MutateAfter(call) PROVE IInv'
  BY <1>6, <1>7 DEF Forward, ShortCircuit, MutateAfter
<1>8. CASE UNCHANGED vars
  BY <1>8 DEF vars, engineVars, EngineTypeOK, MutexHeld, SomethingToDraw, NotYetDecided
<1> QED  BY <1>1, <1>2, <1>3, <1>4, <1>5, <1>7, <1>8 DEF Next

\* The inductive invariant: one call at a time draws, it has something to draw for, and a call
\* has a decision only once decide() has returned.
THEOREM Invariance == Spec => []IInv
<1> QED  BY InitInvariant, StepInvariant, PTL DEF Spec
------------------------------------------------------------------------------
(* The refinement. *)

\* Nobody else is between the two draws while a call holds the mutex.
LEMMA OneDraws ==
    ASSUME IInv, NEW call \in Calls, step[call] \in Drawing
    PROVE  Faulting = IF step[call] = "faulting" THEN {call} ELSE {}
BY DEF IInv, MutexHeld, Drawing, Faulting

\* The engine starts as its plan starts.
LEMMA InitPlan == Init => Plan!PlanInit
<1> SUFFICES ASSUME Init PROVE Plan!PlanInit
  OBVIOUS
<1>1. EngineTypeOK
  BY InitInvariant DEF IInv
<1>2. Faulting = {}
  BY DEF Init, Faulting
<1>3. PlannedRng = rng /\ PlannedDecision = [call \in Calls |-> Undecided]
  BY <1>2 DEF PlannedRng, PlannedDecision, Init
<1> QED  BY <1>1, <1>3 DEF Plan!PlanInit, Plan!Scenario, EngineTypeOK

\* Every step of the engine is a step of its plan, or none.
LEMMA StepPlan ==
    IInv /\ [Next]_vars => [\E call \in Calls : Plan!Decide(call)]_(Plan!planVars)
<1> SUFFICES ASSUME IInv, [Next]_vars
             PROVE  \/ \E call \in Calls : Plan!Decide(call)
                    \/ UNCHANGED <<enabled, probability, PlannedRng, PlannedDecision>>
  BY DEF Plan!planVars
<1> USE DEF IInv
<1>1. ASSUME NEW call \in Calls, Bypass(call) PROVE Plan!Decide(call)
  <2>1. Faulting = {} /\ Faulting' = {}
    BY <1>1 DEF Bypass, Returns, engineVars, EngineTypeOK, SomethingToDraw, Drawing, Faulting
  <2>2. PlannedRng' = PlannedRng
    BY <1>1, <2>1 DEF Bypass, engineVars, PlannedRng
  <2>3. PlannedDecision[call] = Undecided
    BY <1>1, <2>1 DEF Bypass, PlannedDecision, NotYetDecided
  <2>4. PlannedDecision' = [PlannedDecision EXCEPT ![call] = "Forward"]
    BY <1>1, <2>1 DEF Bypass, Returns, PlannedDecision, EngineTypeOK
  <2> QED  BY <1>1, <2>2, <2>3, <2>4 DEF Plan!Decide, Plan!Decides, Plan!NeverFaults, Bypass,
              engineVars
<1>2. ASSUME NEW call \in Calls, Lock(call)
      PROVE  UNCHANGED <<enabled, probability, PlannedRng, PlannedDecision>>
  <2>1. Faulting' = Faulting
    BY <1>2 DEF Lock, Faulting, EngineTypeOK
  <2> QED  BY <1>2, <2>1 DEF Lock, PlannedRng, PlannedDecision, Chosen
<1>3. ASSUME NEW call \in Calls, RollForward(call) PROVE Plan!Decide(call)
  <2>1. Faulting = {}
    BY <1>3, OneDraws DEF RollForward, Drawing
  <2>2. Faulting' = {}
    BY <1>3, <2>1 DEF RollForward, Returns, EngineTypeOK, Faulting
  <2>3. PlannedRng = rng /\ PlannedRng' = AfterRoll(rng)
    BY <1>3, <2>1, <2>2 DEF RollForward, PlannedRng
  <2>4. PlannedDecision[call] = Undecided
    BY <1>3, <2>1 DEF RollForward, PlannedDecision, NotYetDecided, Drawing
  <2>5. PlannedDecision' = [PlannedDecision EXCEPT ![call] = "Forward"]
    BY <1>3, <2>1, <2>2 DEF RollForward, Returns, PlannedDecision, EngineTypeOK
  <2>6. ~Plan!NeverFaults
    BY <1>3 DEF Plan!NeverFaults, RollForward, SomethingToDraw, Drawing, EngineTypeOK
  <2> QED  BY <1>3, <2>3, <2>4, <2>5, <2>6 DEF Plan!Decide, Plan!Decides, RollForward
<1>4. ASSUME NEW call \in Calls, RollFault(call) PROVE Plan!Decide(call)
  <2> DEFINE second == AfterRoll(rng)
             action == enabled[PickOf(second, Len(enabled))]
  <2>1. Faulting = {}
    BY <1>4, OneDraws DEF RollFault, Drawing
  <2>2. Faulting' = {call}
    BY <1>4, <2>1 DEF RollFault, EngineTypeOK, Faulting
  <2>3. PlannedRng = rng /\ PlannedRng' = AfterPick(second, Len(enabled))
    BY <1>4, <2>1, <2>2 DEF RollFault, PlannedRng
  <2>4. PlannedDecision[call] = Undecided
    BY <1>4, <2>1 DEF RollFault, PlannedDecision, NotYetDecided, Drawing
  <2>5. PlannedDecision' = [PlannedDecision EXCEPT ![call] = action]
    BY <1>4, <2>1, <2>2 DEF RollFault, PlannedDecision, Chosen, EngineTypeOK
  <2>6. ~Plan!NeverFaults /\ ~(RollOf(rng) >= probability)
    <3>1. RollOf(rng) \in Nat /\ probability \in Nat /\ RollOf(rng) < probability
      BY <1>4, EngineAssumption DEF EngineTypeOK, RollFault
    <3>2. enabled # <<>> /\ probability > 0
      BY <1>4 DEF RollFault, SomethingToDraw, Drawing
    <3> QED  BY <3>1, <3>2 DEF Plan!NeverFaults
  <2>7. Plan!Decides(call, action, AfterPick(second, Len(enabled)))
    BY <1>4, <2>3, <2>4, <2>5 DEF Plan!Decides, RollFault
  <2> QED  BY <2>3, <2>6, <2>7 DEF Plan!Decide
<1>5. ASSUME NEW call \in Calls, PickScenario(call)
      PROVE  UNCHANGED <<enabled, probability, PlannedRng, PlannedDecision>>
  <2>1. Faulting = {call}
    BY <1>5, OneDraws DEF PickScenario, Drawing
  <2>2. Faulting' = {}
    BY <1>5, <2>1 DEF PickScenario, Returns, EngineTypeOK, Faulting
  <2>3. PlannedRng' = PlannedRng
    BY <1>5, <2>1, <2>2 DEF PickScenario, PlannedRng
  <2>4. PlannedDecision' = PlannedDecision
    BY <1>5, <2>1, <2>2 DEF PickScenario, Returns, PlannedDecision, Chosen, EngineTypeOK
  <2> QED  BY <1>5, <2>3, <2>4 DEF PickScenario
<1>6. ASSUME NEW call \in Calls, NEW body, NEW fault, Answers(call, body, fault),
             step[call] = "decided"
      PROVE  UNCHANGED <<enabled, probability, PlannedRng, PlannedDecision>>
  <2>1. Faulting' = Faulting
    BY <1>6 DEF Answers, Faulting, EngineTypeOK
  <2> QED  BY <1>6, <2>1 DEF Answers, engineVars, PlannedRng, PlannedDecision, Chosen
<1>7. ASSUME NEW call \in Calls, Forward(call) \/ ShortCircuit(call) \/ MutateAfter(call)
      PROVE  UNCHANGED <<enabled, probability, PlannedRng, PlannedDecision>>
  BY <1>6, <1>7 DEF Forward, ShortCircuit, MutateAfter
<1>8. CASE UNCHANGED vars
  BY <1>8 DEF vars, engineVars, PlannedRng, PlannedDecision, Chosen, Faulting
<1> QED  BY <1>1, <1>2, <1>3, <1>4, <1>5, <1>7, <1>8 DEF Next

\* Whatever the threads do, the decisions are those of the seed's plan, in the order of the
\* mutex: for any generator, any number of calls, any scenarios and probability.
THEOREM EngineImplementsPlan == Spec => ImplementsPlan
<1>1. Spec => []IInv
  BY Invariance
<1> QED  BY <1>1, InitPlan, StepPlan, PTL DEF Spec, ImplementsPlan, Plan!PlanSpec
------------------------------------------------------------------------------
(* What the mutators make of a body. *)

\* Corrupted tool calls: none is valid, and one is malformed if any had arguments.
LEMMA ToolCallsCorrupted ==
    ASSUME NEW calls \in Seq(ToolCalls), calls # <<>>
    PROVE  LET new == CorruptToolCallsArray(calls)
           IN  /\ new.value \in Seq(ToolCalls) /\ new.value # <<>>
               /\ \A i \in DOMAIN new.value : new.value[i] # "valid"
               /\ new.changed <=> \E i \in DOMAIN new.value : new.value[i] = "malformed"
                                                             /\ calls[i] # "none"
               /\ new.changed <=> HasArguments(calls)
<1> DEFINE value == [i \in DOMAIN calls |-> IF calls[i] # "none" THEN "malformed" ELSE calls[i]]
<1>1. /\ CorruptToolCallsArray(calls).value = value
      /\ CorruptToolCallsArray(calls).changed = HasArguments(calls)
  BY DEF CorruptToolCallsArray, Rewritten
<1>2. value \in Seq(ToolCalls) /\ value # <<>> /\ DOMAIN value = DOMAIN calls
  <2>1. Len(calls) \in Nat /\ Len(calls) # 0 /\ DOMAIN calls = 1..Len(calls)
    OBVIOUS
  <2>2. \A i \in 1..Len(calls) : calls[i] \in ToolCalls
    OBVIOUS
  <2>3. value \in [1..Len(calls) -> ToolCalls]
    BY <2>1, <2>2 DEF ToolCalls
  <2>4. value \in Seq(ToolCalls) /\ DOMAIN value = 1..Len(calls)
    BY <2>1, <2>3
  <2>5. value # <<>>
    <3>1. 1 \in DOMAIN value
      BY <2>1
    <3> QED BY <3>1
  <2> QED BY <2>1, <2>4, <2>5
<1>3. \A i \in DOMAIN value : value[i] # "valid" /\ (calls[i] # "none" <=> value[i] = "malformed"
                                                       /\ calls[i] # "none")
  <2>1. \A i \in DOMAIN calls : calls[i] \in ToolCalls
    OBVIOUS
  <2> QED BY <2>1 DEF ToolCalls
<1> QED BY <1>1, <1>2, <1>3 DEF HasArguments

\* A corrupted message has no valid call, and a malformed one if it had any with arguments.
LEMMA MessageCorrupted ==
    ASSUME NEW message \in Messages
    PROVE  LET new == CorruptMessageLike(message)
           IN  /\ new.value \in Messages
               /\ "valid" \notin CallsOf(new.value)
               /\ new.changed => "malformed" \in CallsOf(new.value)
               /\ HasCalls(message) => HasCalls(new.value)
               /\ new.changed <=> HasCalls(message) /\ HasArguments(message.tool_calls)
<1> DEFINE new == CorruptMessageLike(message)
<1>1. CASE HasCalls(message)
  <2> DEFINE calls == message.tool_calls
             made  == CorruptToolCallsArray(calls)
  <2>1. calls \in Seq(ToolCalls) /\ calls # <<>>
    BY <1>1 DEF HasCalls, IsObject, Messages
  <2>2. /\ made.value \in Seq(ToolCalls) /\ made.value # <<>>
        /\ \A i \in DOMAIN made.value : made.value[i] # "valid"
        /\ made.changed => \E i \in DOMAIN made.value : made.value[i] = "malformed"
        /\ made.changed <=> HasArguments(calls)
    BY <2>1, ToolCallsCorrupted
  <2>3. new.value = [tool_calls |-> made.value] /\ new.changed = made.changed
    BY <1>1 DEF CorruptMessageLike, Rewritten
  <2> HIDE DEF calls, made, new
  <2>4. new.value \in [tool_calls : {Absent} \cup Seq(ToolCalls)] /\ new.value.tool_calls = made.value
    BY <2>2, <2>3
  <2>5. new.value \in Messages /\ IsObject(new.value)
    BY <2>4, MutatorsAssumption DEF Messages, IsObject
  <2>6. HasCalls(new.value)
    <3>1. made.value # Absent
      BY <2>2, MutatorsAssumption
    <3> QED BY <2>2, <2>4, <2>5, <3>1 DEF HasCalls
  <2>7. CallsOf(new.value) = {made.value[i] : i \in DOMAIN made.value}
    BY <2>4, <2>6 DEF CallsOf
  <2> QED BY <1>1, <2>2, <2>3, <2>5, <2>6, <2>7 DEF calls, new
<1>2. CASE ~HasCalls(message)
  <2>1. new.value = message /\ new.changed = FALSE
    BY <1>2 DEF CorruptMessageLike, Rewritten
  <2>2. CallsOf(message) = {}
    BY <1>2 DEF CallsOf
  <2> QED BY <1>2, <2>1, <2>2
<1> QED BY <1>1, <1>2

\* The made-up message has one call, a malformed one.
LEMMA SyntheticCalls ==
    /\ SyntheticMessage \in Messages /\ CallsOf(SyntheticMessage) = {"malformed"}
    /\ CallsOf(Absent) = {} /\ Absent \in Messages
<1>1. /\ <<"malformed">> \in Seq(ToolCalls) /\ <<"malformed">> # <<>>
      /\ DOMAIN <<"malformed">> = {1} /\ <<"malformed">>[1] = "malformed"
  BY DEF ToolCalls
<1>2. SyntheticMessage \in [tool_calls : {Absent} \cup Seq(ToolCalls)]
  BY <1>1 DEF SyntheticMessage
<1>3. HasCalls(SyntheticMessage)
  <2>1. IsObject(SyntheticMessage)
    BY <1>2, MutatorsAssumption DEF IsObject
  <2>2. <<"malformed">> # Absent
    BY <1>1, MutatorsAssumption
  <2>3. SyntheticMessage.tool_calls = <<"malformed">>
    BY DEF SyntheticMessage
  <2> QED BY <1>1, <2>1, <2>2, <2>3 DEF HasCalls
<1>4. CallsOf(SyntheticMessage) = {<<"malformed">>[i] : i \in DOMAIN <<"malformed">>}
  BY <1>3 DEF CallsOf, SyntheticMessage
<1>5. CallsOf(SyntheticMessage) = {"malformed"}
  BY <1>1, <1>4
<1>6. CallsOf(Absent) = {} /\ Absent \in Messages
  BY DEF CallsOf, HasCalls, IsObject, Messages
<1> QED BY <1>2, <1>5, <1>6 DEF Messages

WholeChoices == {Scalar} \cup [message : Messages, delta : {Absent}]

\* There is no place for a malformed call in this choice.
NoPlaceIn(choice) ==
    \/ choice = Scalar \/ choice.message = Scalar
    \/ HasCalls(choice.message) /\ ~HasArguments(choice.message.tool_calls)

\* A choice of a completion: no valid call is left, and a malformed one is, if there is a place.
LEMMA ChoiceCorrupted ==
    ASSUME NEW choice \in WholeChoices
    PROVE  LET new == CorruptChoice(choice)
           IN  /\ new.value \in WholeChoices
               /\ "valid" \notin CallsOfChoice(new.value)
               /\ new.changed => "malformed" \in CallsOfChoice(new.value)
               /\ new.changed <=> ~NoPlaceIn(choice)
<1> DEFINE new == CorruptChoice(choice)
<1>0. ASSUME NEW message \in Messages
      PROVE  LET made == [message |-> message, delta |-> Absent]
             IN  made \in WholeChoices /\ made # Scalar /\ CallsOfChoice(made) = CallsOf(message)
  <2> DEFINE made == [message |-> message, delta |-> Absent]
  <2>1. made \in [message : Messages, delta : Messages] /\ made.message = message /\ made.delta = Absent
    BY SyntheticCalls
  <2>2. made # Scalar /\ made \in WholeChoices
    BY <2>1, MutatorsAssumption DEF WholeChoices
  <2> HIDE DEF made
  <2>3. CallsOfChoice(made) = CallsOf(message) \cup CallsOf(Absent)
    BY <2>1, <2>2 DEF CallsOfChoice
  <2>4. CallsOfChoice(made) = CallsOf(message)
    BY <2>3, SyntheticCalls
  <2> QED BY <2>2, <2>4 DEF made
<1>1. CASE choice = Scalar
  BY <1>1 DEF CorruptChoice, Rewritten, CallsOfChoice, NoPlaceIn, WholeChoices
<1>2. CASE choice # Scalar
  <2> DEFINE message == choice.message
             fixed   == CorruptMessageLike(message)
  <2>1. choice = [message |-> message, delta |-> Absent] /\ message \in Messages
    BY <1>2 DEF WholeChoices
  <2>2. CASE message = Scalar
    <3>1. new.value = choice /\ new.changed = FALSE
      BY <2>2 DEF CorruptChoice, Rewritten
    <3>2. CallsOf(message) = {}
      BY <2>2 DEF CallsOf, HasCalls, IsObject
    <3>3. CallsOfChoice(choice) = {}
      <4> HIDE DEF message
      <4> QED BY <1>0, <2>1, <3>2
    <3> QED BY <2>2, <3>1, <3>3 DEF NoPlaceIn
  <2>3. CASE message # Scalar /\ HasCalls(message)
    <3>1. new.value = [choice EXCEPT !.message = fixed.value] /\ new.changed = fixed.changed
      BY <1>2, <2>3 DEF CorruptChoice, Rewritten
    <3>2. /\ fixed.value \in Messages /\ "valid" \notin CallsOf(fixed.value)
          /\ fixed.changed => "malformed" \in CallsOf(fixed.value)
          /\ fixed.changed <=> HasArguments(message.tool_calls)
      <4> HIDE DEF message
      <4> QED BY <2>1, <2>3, MessageCorrupted
    <3>3. new.value = [message |-> fixed.value, delta |-> Absent]
      <4> HIDE DEF message, fixed, new
      <4> QED BY <2>1, <3>1
    <3>4. new.value \in WholeChoices /\ CallsOfChoice(new.value) = CallsOf(fixed.value)
      <4> HIDE DEF fixed, new
      <4> QED BY <1>0, <3>2, <3>3
    <3>5. NoPlaceIn(choice) <=> ~HasArguments(message.tool_calls)
      BY <1>2, <2>3 DEF NoPlaceIn
    <3> HIDE DEF fixed, new, message
    <3> QED BY <3>1, <3>2, <3>4, <3>5 DEF new
  <2>4. CASE message # Scalar /\ ~HasCalls(message)
    <3>1. new.value = [choice EXCEPT !.message = SyntheticMessage] /\ new.changed = TRUE
      BY <1>2, <2>4 DEF CorruptChoice, Rewritten
    <3>2. new.value = [message |-> SyntheticMessage, delta |-> Absent]
      <4> HIDE DEF message, new
      <4> QED BY <2>1, <3>1
    <3>3. new.value \in WholeChoices /\ CallsOfChoice(new.value) = {"malformed"}
      <4> HIDE DEF new
      <4> QED BY <1>0, <3>2, SyntheticCalls
    <3>4. ~NoPlaceIn(choice)
      BY <1>2, <2>4 DEF NoPlaceIn
    <3> HIDE DEF new
    <3> QED BY <3>1, <3>3, <3>4 DEF new
  <2> QED BY <2>2, <2>3, <2>4
<1> QED BY <1>1, <1>2

\* A choice of a chunk: no valid call is left, and a malformed one is, if it has changed.
LEMMA ChunkChoiceCorrupted ==
    ASSUME NEW choice \in Choices
    PROVE  LET new == CorruptChunkChoice(choice)
           IN  /\ new.value \in Choices
               /\ "valid" \notin CallsOfChoice(new.value)
               /\ new.changed => "malformed" \in CallsOfChoice(new.value)
<1> DEFINE new == CorruptChunkChoice(choice)
<1>1. CASE choice = Scalar
  BY <1>1 DEF CorruptChunkChoice, Rewritten, CallsOfChoice, Choices
<1>2. CASE choice # Scalar
  <2> DEFINE delta   == CorruptMessageLike(choice.delta)
             message == CorruptMessageLike(choice.message)
  <2>1. choice.delta \in Messages /\ choice.message \in Messages
    BY <1>2 DEF Choices
  <2>2. /\ delta.value \in Messages /\ "valid" \notin CallsOf(delta.value)
        /\ delta.changed => "malformed" \in CallsOf(delta.value)
    BY <2>1, MessageCorrupted
  <2>3. /\ message.value \in Messages /\ "valid" \notin CallsOf(message.value)
        /\ message.changed => "malformed" \in CallsOf(message.value)
    BY <2>1, MessageCorrupted
  <2>4. /\ new.value = [delta |-> delta.value, message |-> message.value]
        /\ new.changed = (delta.changed \/ message.changed)
    BY <1>2 DEF CorruptChunkChoice, Rewritten
  <2> HIDE DEF delta, message, new
  <2>5. /\ new.value \in [message : Messages, delta : Messages]
        /\ new.value.message = message.value /\ new.value.delta = delta.value
    BY <2>2, <2>3, <2>4
  <2>6. new.value \in Choices /\ new.value # Scalar
    BY <2>5, MutatorsAssumption DEF Choices
  <2>7. CallsOfChoice(new.value) = CallsOf(message.value) \cup CallsOf(delta.value)
    BY <2>5, <2>6 DEF CallsOfChoice
  <2> QED BY <2>2, <2>3, <2>4, <2>6, <2>7 DEF new
<1> QED BY <1>1, <1>2
\* The calls of a single choice.
LEMMA OneChoice ==
    ASSUME NEW choice \in Choices
    PROVE  CallsOfChoices(<<choice>>) = CallsOfChoice(choice)
<1>1. <<choice>> \in Seq(Choices) /\ DOMAIN <<choice>> = {1} /\ <<choice>>[1] = choice
  OBVIOUS
<1>2. <<choice>> # Absent
  BY <1>1, MutatorsAssumption
<1>3. {CallsOfChoice(<<choice>>[i]) : i \in DOMAIN <<choice>>} = {CallsOfChoice(choice)}
  BY <1>1
<1> QED BY <1>2, <1>3 DEF CallsOfChoices

\* A completion: no valid call is left, and a malformed one is, unless there is no place for one.
LEMMA CompletionCorrupted ==
    ASSUME NEW choices \in {Absent} \cup Seq(WholeChoices)
    PROVE  LET new == CorruptCompletion(choices)
           IN  /\ "valid" \notin CallsOfChoices(new.value)
               /\ new.changed => "malformed" \in CallsOfChoices(new.value)
               /\ new.changed <=> \/ choices \in {Absent, <<>>}
                                  \/ \E i \in DOMAIN choices : ~NoPlaceIn(choices[i])
<1> DEFINE new == CorruptCompletion(choices)
<1>1. CASE choices \in {Absent, <<>>}
  <2>1. new.value = <<SyntheticChoice>> /\ new.changed = TRUE
    BY <1>1 DEF CorruptCompletion, Rewritten
  <2>2. SyntheticChoice \in [message : Messages, delta : Messages]
    BY SyntheticCalls DEF SyntheticChoice
  <2>3. CallsOfChoice(SyntheticChoice) = {"malformed"}
    <3>1. SyntheticChoice # Scalar
      BY <2>2, MutatorsAssumption
    <3>2. CallsOfChoice(SyntheticChoice) = CallsOf(SyntheticMessage) \cup CallsOf(Absent)
      BY <3>1 DEF CallsOfChoice, SyntheticChoice
    <3> QED BY <3>2, SyntheticCalls
  <2>4. SyntheticChoice \in Choices
    BY <2>2 DEF Choices
  <2>5. CallsOfChoices(<<SyntheticChoice>>) = {"malformed"}
    BY <2>3, <2>4, OneChoice
  <2> HIDE DEF new
  <2> QED BY <1>1, <2>1, <2>5 DEF new
<1>2. CASE choices \notin {Absent, <<>>}
  <2> DEFINE all == [i \in DOMAIN choices |-> CorruptChoice(choices[i])]
             value == [i \in DOMAIN choices |-> all[i].value]
  <2>1. /\ new.value = value
        /\ new.changed = \E i \in DOMAIN choices : all[i].changed
    BY <1>2 DEF CorruptCompletion, RewriteAll, Rewritten
  <2>2. choices \in Seq(WholeChoices) /\ DOMAIN choices = 1..Len(choices) /\ Len(choices) \in Nat
    BY <1>2
  <2>3. \A i \in DOMAIN choices : choices[i] \in WholeChoices
    BY <2>2
  <2>4. \A i \in DOMAIN choices :
          /\ all[i].value \in WholeChoices
          /\ "valid" \notin CallsOfChoice(all[i].value)
          /\ all[i].changed => "malformed" \in CallsOfChoice(all[i].value)
          /\ all[i].changed <=> ~NoPlaceIn(choices[i])
    BY <2>3, ChoiceCorrupted
  <2>5. DOMAIN value = DOMAIN choices /\ \A i \in DOMAIN choices : value[i] = all[i].value
    OBVIOUS
  <2>6. value # Absent
    <3>1. WholeChoices \subseteq Choices
      BY SyntheticCalls DEF WholeChoices, Choices
    <3>2. \A i \in 1..Len(choices) : all[i].value \in Choices
      BY <2>2, <2>4, <3>1
    <3>3. value \in Seq(Choices)
      <4> HIDE DEF all
      <4> QED BY <2>2, <3>2
    <3> QED BY <3>3, MutatorsAssumption
  <2> HIDE DEF all, value, new
  <2>7. CallsOfChoices(value) = UNION {CallsOfChoice(value[i]) : i \in DOMAIN value}
    BY <2>6 DEF CallsOfChoices
  <2>8. "valid" \notin CallsOfChoices(value)
    BY <2>4, <2>5, <2>7
  <2>9. new.changed => "malformed" \in CallsOfChoices(value)
    BY <2>1, <2>4, <2>5, <2>7
  <2>10. new.changed <=> \E i \in DOMAIN choices : ~NoPlaceIn(choices[i])
    BY <2>1, <2>4
  <2> QED BY <1>2, <2>1, <2>8, <2>9, <2>10 DEF new
<1> QED BY <1>1, <1>2

\* An event of a stream: no valid call is left, and a malformed one is, if it has changed.
LEMMA EventCorrupted ==
    ASSUME NEW event \in Events
    PROVE  LET new == CorruptSseChunk(event)
           IN  /\ "valid" \notin CallsOfChoices(new.value.choices)
               /\ new.changed => "malformed" \in CallsOfChoices(new.value.choices)
<1> DEFINE new == CorruptSseChunk(event)
<1>1. CASE event.type # "json" \/ event.choices = Absent
  <2>1. new.value = event /\ new.changed = FALSE
    BY <1>1 DEF CorruptSseChunk, Rewritten
  <2>2. event.choices = Absent
    BY <1>1 DEF Events
  <2>3. CallsOfChoices(event.choices) = {}
    BY <2>2 DEF CallsOfChoices
  <2> QED BY <2>1, <2>3
<1>2. CASE event.type = "json" /\ event.choices # Absent
  <2> DEFINE choices == event.choices
             all   == [i \in DOMAIN choices |-> CorruptChunkChoice(choices[i])]
             value == [i \in DOMAIN choices |-> all[i].value]
  <2>1. /\ new.value = [event EXCEPT !.choices = value]
        /\ new.changed = \E i \in DOMAIN choices : all[i].changed
    BY <1>2 DEF CorruptSseChunk, RewriteAll, Rewritten
  <2>2. choices \in Seq(Choices) /\ DOMAIN choices = 1..Len(choices) /\ Len(choices) \in Nat
    BY <1>2 DEF Events
  <2>3. \A i \in DOMAIN choices : choices[i] \in Choices
    <3> HIDE DEF choices
    <3> QED BY <2>2
  <2>4. \A i \in DOMAIN choices :
          /\ all[i].value \in Choices
          /\ "valid" \notin CallsOfChoice(all[i].value)
          /\ all[i].changed => "malformed" \in CallsOfChoice(all[i].value)
    <3> HIDE DEF choices
    <3> QED BY <2>3, ChunkChoiceCorrupted
  <2>5. DOMAIN value = DOMAIN choices /\ \A i \in DOMAIN choices : value[i] = all[i].value
    OBVIOUS
  <2>6. value # Absent
    <3>1. value \in Seq(Choices)
      <4> HIDE DEF all, choices
      <4> QED BY <2>2, <2>4
    <3> QED BY <3>1, MutatorsAssumption
  <2>7. new.value.choices = value
    <3>1. event \in [type : {"json"}, choices : {Absent} \cup Seq(Choices)]
      BY <1>2 DEF Events
    <3> HIDE DEF value, new, choices
    <3> QED BY <2>1, <3>1
  <2> HIDE DEF all, value, new, choices
  <2>8. CallsOfChoices(value) = UNION {CallsOfChoice(value[i]) : i \in DOMAIN value}
    BY <2>6 DEF CallsOfChoices
  <2>9. "valid" \notin CallsOfChoices(value)
    BY <2>4, <2>5, <2>8
  <2>10. new.changed => "malformed" \in CallsOfChoices(value)
    BY <2>1, <2>4, <2>5, <2>8
  <2> QED BY <2>7, <2>9, <2>10 DEF new
<1> QED BY <1>1, <1>2

\* The calls of the events of a stream.
CallsOfEvents(events) == UNION {CallsOfChoices(events[i].choices) : i \in DOMAIN events}

\* A last event without choices adds no call.
LEMMA EndAddsNoCall ==
    ASSUME NEW S, NEW events \in Seq(S), DoneEvent \in S
    PROVE  LET ended == EnsureSseDone(events)
           IN  HasDone(ended) /\ CallsOfEvents(ended) = CallsOfEvents(events)
<1> DEFINE n == Len(events)
<1>0. n \in Nat /\ DOMAIN events = 1..n
  OBVIOUS
<1>1. CASE HasDone(events)
  BY <1>1 DEF EnsureSseDone
<1>2. CASE ~HasDone(events)
  <2> DEFINE ended == Append(events, DoneEvent)
  <2>1. EnsureSseDone(events) = ended
    BY <1>2 DEF EnsureSseDone
  <2>2. /\ DOMAIN ended = 1..(n + 1) /\ ended[n + 1] = DoneEvent
        /\ \A i \in 1..n : ended[i] = events[i]
    OBVIOUS
  <2> HIDE DEF n
  <2>3. HasDone(ended)
    <3>1. n + 1 \in DOMAIN ended /\ ended[n + 1].type = "done"
      BY <1>0, <2>2 DEF DoneEvent
    <3> HIDE DEF ended
    <3> QED BY <3>1 DEF HasDone
  <2>4. CallsOfChoices(DoneEvent.choices) = {}
    BY DEF DoneEvent, CallsOfChoices
  <2>5. CallsOfEvents(ended) = CallsOfEvents(events)
    <3>1. 1..(n + 1) = (1..n) \cup {n + 1}
      BY <1>0
    <3> HIDE DEF ended
    <3>2. ASSUME NEW e PROVE e \in CallsOfEvents(ended) <=> e \in CallsOfEvents(events)
      <4>1. e \in CallsOfEvents(ended) <=> \E i \in 1..(n + 1) : e \in CallsOfChoices(ended[i].choices)
        BY <2>2 DEF CallsOfEvents
      <4>2. e \in CallsOfEvents(events) <=> \E i \in 1..n : e \in CallsOfChoices(events[i].choices)
        BY <1>0 DEF CallsOfEvents
      <4> QED BY <2>2, <2>4, <3>1, <4>1, <4>2
    <3> QED BY <3>2
  <2> QED BY <2>1, <2>3, <2>5
<1> QED BY <1>1, <1>2

\* A stream: no valid call is left, a malformed one is, and it ends.
LEMMA StreamCorrupted ==
    ASSUME NEW events \in Seq(Events)
    PROVE  LET new == MalformSse(events)
           IN  "malformed" \in CallsOfEvents(new) /\ "valid" \notin CallsOfEvents(new) /\ HasDone(new)
<1> DEFINE all   == [i \in DOMAIN events |-> CorruptSseChunk(events[i])]
           value == [i \in DOMAIN events |-> all[i].value]
           changed == \E i \in DOMAIN events : all[i].changed
           n     == Len(events)
<1>1. n \in Nat /\ DOMAIN events = 1..n
  OBVIOUS
<1>2. RewriteAll(all).value = value /\ RewriteAll(all).changed = changed
  BY DEF RewriteAll, Rewritten
<1>3. \A i \in DOMAIN events :
        /\ "valid" \notin CallsOfChoices(all[i].value.choices)
        /\ all[i].changed => "malformed" \in CallsOfChoices(all[i].value.choices)
  BY EventCorrupted
<1>4. DOMAIN value = DOMAIN events /\ \A i \in DOMAIN events : value[i] = all[i].value
  OBVIOUS
<1>5. MalformSse(events) = IF changed THEN EnsureSseDone(value)
                           ELSE <<[type |-> "json", choices |-> <<SyntheticChunk>>], DoneEvent>>
  BY <1>2 DEF MalformSse
<1> DEFINE S == {all[i].value : i \in DOMAIN events} \cup {DoneEvent}
<1>6. value \in Seq(S) /\ DoneEvent \in S
  <2>1. \A i \in 1..n : all[i].value \in S
    BY <1>1
  <2> HIDE DEF all, S
  <2>2. value \in Seq(S)
    BY <1>1, <2>1
  <2> QED BY <2>2 DEF S
<1>7. CASE changed
  <2> HIDE DEF value, all, n, S
  <2>1. HasDone(EnsureSseDone(value)) /\ CallsOfEvents(EnsureSseDone(value)) = CallsOfEvents(value)
    BY <1>6, EndAddsNoCall
  <2>2. "valid" \notin CallsOfEvents(value) /\ "malformed" \in CallsOfEvents(value)
    BY <1>3, <1>4, <1>7 DEF CallsOfEvents
  <2> QED BY <1>5, <1>7, <2>1, <2>2
<1>8. CASE ~changed
  <2> DEFINE first == [type |-> "json", choices |-> <<SyntheticChunk>>]
             new   == <<first, DoneEvent>>
  <2>1. new[1] = first /\ new[2] = DoneEvent /\ DOMAIN new = {1, 2}
    OBVIOUS
  <2>2. SyntheticChunk \in [message : Messages, delta : Messages]
    BY SyntheticCalls DEF SyntheticChunk
  <2>3. CallsOfChoice(SyntheticChunk) = {"malformed"}
    <3>1. SyntheticChunk # Scalar
      BY <2>2, MutatorsAssumption
    <3>2. CallsOfChoice(SyntheticChunk) = CallsOf(Absent) \cup CallsOf(SyntheticMessage)
      BY <3>1 DEF CallsOfChoice, SyntheticChunk
    <3> QED BY <3>2, SyntheticCalls
  <2>4. SyntheticChunk \in Choices
    BY <2>2 DEF Choices
  <2>5. CallsOfChoices(first.choices) = {"malformed"}
    BY <2>3, <2>4, OneChoice
  <2>6. CallsOfChoices(DoneEvent.choices) = {}
    BY DEF DoneEvent, CallsOfChoices
  <2>7. HasDone(new)
    <3>1. new[2].type = "done"
      BY <2>1 DEF DoneEvent
    <3> HIDE DEF new
    <3> QED BY <2>1, <3>1 DEF HasDone
  <2>8. CallsOfEvents(new) = {"malformed"}
    <3> HIDE DEF new, first
    <3>1. {CallsOfChoices(new[i].choices) : i \in DOMAIN new} = {{"malformed"}, {}}
      BY <2>1, <2>5, <2>6
    <3> QED BY <3>1 DEF CallsOfEvents
  <2> QED BY <1>5, <1>8, <2>7, <2>8
<1> QED BY <1>7, <1>8
------------------------------------------------------------------------------
(* What the faults do to the answers. *)

\* malform_tool_call_json: the answer is unusable if it has changed, and it has unless there is no
\* place for a malformed call.
LEMMA BodyCorrupted ==
    ASSUME NEW body \in ResponseBodies
    PROVE  LET mutated == MalformToolCallJson(body)
           IN  IF mutated.changed THEN Unusable(mutated.value) /\ ~NoPlace(body)
               ELSE mutated.value = body /\ NoPlace(body)
<1> DEFINE mutated == MalformToolCallJson(body)
<1>1. CASE body.kind = "opaque"
  <2>1. mutated.value = body /\ mutated.changed = FALSE
    BY <1>1 DEF MalformToolCallJson, Rewritten
  <2> QED BY <1>1, <2>1 DEF NoPlace
<1>2. CASE body.kind = "json"
  <2> DEFINE made == CorruptCompletion(body.choices)
  <2>1. body = [kind |-> "json", choices |-> body.choices]
        /\ body.choices \in {Absent} \cup Seq(WholeChoices)
    BY <1>2 DEF ResponseBodies, WholeChoices
  <2>2. /\ "valid" \notin CallsOfChoices(made.value)
        /\ made.changed => "malformed" \in CallsOfChoices(made.value)
        /\ made.changed <=> \/ body.choices \in {Absent, <<>>}
                            \/ \E i \in DOMAIN body.choices : ~NoPlaceIn(body.choices[i])
    BY <2>1, CompletionCorrupted
  <2>3. NoPlace(body) <=> ~made.changed
    <3> HIDE DEF made
    <3> QED BY <1>2, <2>2 DEF NoPlace, NoPlaceIn
  <2>4. /\ mutated.changed <=> made.changed
        /\ made.changed => mutated.value = [body EXCEPT !.choices = made.value]
        /\ ~made.changed => mutated.value = body
    BY <1>2 DEF MalformToolCallJson, Rewritten
  <2>5. ASSUME made.changed PROVE Unusable(mutated.value)
    <3> HIDE DEF made, mutated
    <3>1. mutated.value = [kind |-> "json", choices |-> made.value]
      BY <2>1, <2>4, <2>5
    <3>2. CallsIn(mutated.value) = CallsOfChoices(made.value)
      BY <3>1 DEF CallsIn
    <3>3. mutated.value.kind # "sse"
      BY <3>1
    <3> QED BY <2>2, <2>5, <3>2, <3>3 DEF Unusable
  <2> HIDE DEF made, mutated
  <2> QED BY <2>3, <2>4, <2>5 DEF mutated
<1>3. CASE body.kind = "sse"
  <2>1. body = [kind |-> "sse", events |-> body.events] /\ body.events \in Seq(Events)
    BY <1>3 DEF ResponseBodies
  <2>2. mutated.value = [body EXCEPT !.events = MalformSse(body.events)] /\ mutated.changed = TRUE
    BY <1>3 DEF MalformToolCallJson, Rewritten
  <2> DEFINE events == MalformSse(body.events)
  <2>3. "malformed" \in CallsOfEvents(events) /\ "valid" \notin CallsOfEvents(events) /\ HasDone(events)
    BY <2>1, StreamCorrupted
  <2>4. mutated.value = [kind |-> "sse", events |-> events]
    <3> HIDE DEF events, mutated
    <3> QED BY <2>1, <2>2 DEF events
  <2> HIDE DEF events, mutated
  <2>5. CallsIn(mutated.value) = CallsOfEvents(events) /\ mutated.value.events = events
    BY <2>4 DEF CallsIn, CallsOfEvents
  <2>6. ~NoPlace(body)
    BY <1>3 DEF NoPlace
  <2> QED BY <2>2, <2>3, <2>5, <2>6 DEF Unusable, mutated
<1>4. body.kind \in {"opaque", "json", "sse"}
  BY DEF ResponseBodies
<1> QED BY <1>1, <1>2, <1>3, <1>4

\* With it, FaultsBite is inductive.
BInv == EngineTypeOK /\ upstream \in Bodies /\ DOMAIN answer = Calls /\ DOMAIN injected = Calls /\ FaultsBite

\* Every step of the engine keeps what is said of the answers.
LEMMA FaultsBiteStep == IInv /\ BInv /\ [Next]_vars => BInv'
<1> SUFFICES ASSUME IInv, BInv, [Next]_vars PROVE BInv'
  OBVIOUS
<1>0. EngineTypeOK' /\ EngineTypeOK
  BY StepInvariant DEF IInv
<1>1. ASSUME NEW call \in Calls, step[call] # "answered", step'[call] # "answered",
             UNCHANGED <<upstream, answer, injected>>,
             \A other \in Calls \ {call} : step'[other] = step[other] /\ decision'[other] = decision[other]
      PROVE  BInv'
  <2>1. FaultsBite'
    <3> SUFFICES ASSUME NEW other \in Calls, step'[other] = "answered",
                        decision'[other] = "malformed_tool_call_json"
                 PROVE  IF injected[other] = NoFault
                        THEN answer[other] = upstream /\ NoPlace(upstream)
                        ELSE Unusable(answer[other]) /\ ~NoPlace(upstream)
      BY <1>1 DEF FaultsBite
    <3> QED BY <1>1 DEF BInv, FaultsBite
  <2> QED BY <1>0, <1>1, <2>1 DEF BInv
<1>2. ASSUME NEW call \in Calls,
             Bypass(call) \/ Lock(call) \/ RollForward(call) \/ RollFault(call) \/ PickScenario(call)
      PROVE  BInv'
  <2>1. step[call] # "answered" /\ step'[call] # "answered" /\ UNCHANGED <<upstream, answer, injected>>
    BY <1>0, <1>2 DEF Bypass, Lock, RollForward, RollFault, PickScenario, Returns, answerVars, EngineTypeOK
  <2>2. \A other \in Calls \ {call} : step'[other] = step[other] /\ decision'[other] = decision[other]
    BY <1>0, <1>2 DEF Bypass, Lock, RollForward, RollFault, PickScenario, Returns, EngineTypeOK
  <2> QED BY <1>1, <2>1, <2>2
<1>3. ASSUME NEW call \in Calls, NEW body, NEW fault, Answers(call, body, fault),
             decision[call] = "malformed_tool_call_json" =>
               IF fault = NoFault THEN body = upstream /\ NoPlace(upstream)
               ELSE Unusable(body) /\ ~NoPlace(upstream)
      PROVE  BInv'
  <2>1. /\ UNCHANGED <<decision, upstream>>
        /\ answer'[call] = body /\ injected'[call] = fault
        /\ \A other \in Calls \ {call} : /\ step'[other] = step[other]
                                        /\ answer'[other] = answer[other]
                                        /\ injected'[other] = injected[other]
        /\ DOMAIN answer' = Calls /\ DOMAIN injected' = Calls
    BY <1>0, <1>3 DEF Answers, BInv, EngineTypeOK
  <2>2. FaultsBite'
    <3> SUFFICES ASSUME NEW other \in Calls, step'[other] = "answered",
                        decision[other] = "malformed_tool_call_json"
                 PROVE  IF injected'[other] = NoFault
                        THEN answer'[other] = upstream /\ NoPlace(upstream)
                        ELSE Unusable(answer'[other]) /\ ~NoPlace(upstream)
      BY <2>1 DEF FaultsBite
    <3>1. CASE other = call
      BY <1>3, <2>1, <3>1
    <3>2. CASE other # call
      BY <2>1, <3>2 DEF BInv, FaultsBite
    <3> QED BY <3>1, <3>2
  <2> QED BY <1>0, <2>1, <2>2 DEF BInv
<1>4. ASSUME NEW call \in Calls, Forward(call) \/ ShortCircuit(call) PROVE BInv'
  BY <1>3, <1>4 DEF Forward, ShortCircuit
<1>5. ASSUME NEW call \in Calls, MutateAfter(call) PROVE BInv'
  <2> DEFINE mutated == MalformToolCallJson(upstream)
             fault   == IF mutated.changed THEN decision[call] ELSE NoFault
  <2>1. Answers(call, mutated.value, fault) /\ decision[call] = "malformed_tool_call_json"
    BY <1>5 DEF MutateAfter
  <2>2. upstream \in ResponseBodies /\ NoFault # "malformed_tool_call_json"
    BY EngineAssumption DEF BInv
  <2>3. IF mutated.changed THEN Unusable(mutated.value) /\ ~NoPlace(upstream)
        ELSE mutated.value = upstream /\ NoPlace(upstream)
    BY <2>2, BodyCorrupted
  <2>4. IF fault = NoFault THEN mutated.value = upstream /\ NoPlace(upstream)
        ELSE Unusable(mutated.value) /\ ~NoPlace(upstream)
    <3> HIDE DEF mutated
    <3> QED BY <2>1, <2>2, <2>3
  <2> HIDE DEF mutated, fault
  <2> QED BY <1>3, <2>1, <2>4
<1>6. CASE UNCHANGED vars
  BY <1>0, <1>6 DEF vars, engineVars, answerVars, BInv, FaultsBite
<1> QED BY <1>2, <1>4, <1>5, <1>6 DEF Next

\* For any body an upstream sends, any decisions and any number of calls: an injected fault has
\* made the answer unusable, and a fault that is not injected had no place in it.
THEOREM InjectedFaultsBite == Spec => []FaultsBite
<1>1. Init => BInv
  BY InitInvariant DEF Init, IInv, BInv, FaultsBite
<1>2. BInv => FaultsBite
  BY DEF BInv
<1> QED BY <1>1, <1>2, FaultsBiteStep, Invariance, PTL DEF Spec
==============================================================================
