------------------------- MODULE BudgetTrackerProofs -------------------------
(***************************************************************************)
(* Proofs about BudgetTracker, for any finite set of requests, any caps    *)
(* and any width of the counters.                                          *)
(*                                                                         *)
(* The inductive invariant adds to the properties the facts that they rest *)
(* on: a commit under way knows its cost, a local copy of calls_reserved   *)
(* never runs ahead of the counter (so an early return on a stale copy is  *)
(* still justified), and every permit carries a number that the counter    *)
(* has passed.                                                             *)
(***************************************************************************)
EXTENDS BudgetTracker, Foundations

CostsKnown ==
    \A r \in Requests : pc[r] \in {"commit_cas", "committed"} => cost[r] \in Costs

TInv == TypeOK /\ CostsKnown

CopiesNotAhead ==
    \A r \in Requests : pc[r] = "reserve_cas" => current[r] <= calls_reserved

NumbersHandedOut ==
    \A r \in Permitted : call_number[r] \in 1..calls_reserved

IInv ==
    /\ TInv
    /\ CallCapHeld
    /\ PermitsDistinct
    /\ RefusalJustified
    /\ CopiesNotAhead
    /\ NumbersHandedOut
------------------------------------------------------------------------------
\* Saturating addition stays in the width of the counter and never decreases it, so a spend
\* cap that has been reached stays reached.
LEMMA SaturatingAddFacts ==
    ASSUME NEW a \in 0..MaxU64, NEW b \in 0..MaxU64
    PROVE  /\ SaturatingAdd(a, b) \in 0..MaxU64
           /\ a <= SaturatingAdd(a, b)
           /\ CostCapReached(a) => CostCapReached(SaturatingAdd(a, b))
BY BudgetAssumption DEF SaturatingAdd, CostCapReached

\* The holders of a permit are finitely many.
LEMMA PermittedFinite == IsFiniteSet(Permitted)
<1>1. Permitted \subseteq Requests
  BY DEF Permitted
<1>2. QED
  BY <1>1, FS_Subset, BudgetAssumption

------------------------------------------------------------------------------
\* Every variable stays in its range, a step at a time.
LEMMA TypeStep == TInv /\ [Next]_vars => TInv'
<1> SUFFICES ASSUME TInv, [Next]_vars
             PROVE  TInv'
  OBVIOUS
<1> USE BudgetAssumption
    DEF TInv, TypeOK, CostsKnown, Places, Reserving, HasPermit, Refused
<1>1. ASSUME NEW r \in Requests, AdmitLoadCost(r)
      PROVE  TInv'
  BY <1>1 DEF AdmitLoadCost
<1>2. ASSUME NEW r \in Requests, ReserveLoad(r)
      PROVE  TInv'
  BY <1>2 DEF ReserveLoad
<1>3. ASSUME NEW r \in Requests, ReserveFull(r)
      PROVE  TInv'
  BY <1>3 DEF ReserveFull
<1>4. ASSUME NEW r \in Requests, ReserveCas(r)
      PROVE  TInv'
  BY <1>4 DEF ReserveCas
<1>5. ASSUME NEW r \in Requests, ReserveRetry(r)
      PROVE  TInv'
  BY <1>5 DEF ReserveRetry
<1>6. ASSUME NEW r \in Requests, NEW c \in Costs, CommitLoad(r, c)
      PROVE  TInv'
  BY <1>6 DEF CommitLoad
<1>7. ASSUME NEW r \in Requests, CommitCas(r)
      PROVE  TInv'
  <2>1. observed_cost_usd' \in 0..MaxU64
    BY <1>7, SaturatingAddFacts DEF CommitCas
  <2>2. QED
    BY <1>7, <2>1 DEF CommitCas
<1>8. ASSUME NEW r \in Requests, CommitRetry(r)
      PROVE  TInv'
  BY <1>8 DEF CommitRetry
<1>9. CASE UNCHANGED vars
  BY <1>9 DEF vars
<1>10. QED
  BY <1>1, <1>2, <1>3, <1>4, <1>5, <1>6, <1>7, <1>8, <1>9
  DEF Next, ReserveStep, CommitStep

\* Every variable stays in its range: the reserved calls never pass the cap and the spend
\* never wraps.
THEOREM TypeCorrect == Spec => []TypeOK
<1>1. Init => TInv
  BY BudgetAssumption DEF Init, TInv, TypeOK, CostsKnown, Places
<1>2. TInv => TypeOK
  BY DEF TInv
<1>3. QED
  BY <1>1, <1>2, TypeStep, PTL DEF Spec
------------------------------------------------------------------------------
\* The inductive invariant holds at the start,
LEMMA InitIInv == Init => IInv
<1> SUFFICES ASSUME Init
             PROVE  IInv
  OBVIOUS
<1>1. Permitted = {}
  BY DEF Init, Permitted, HasPermit
<1>2. Cardinality(Permitted) = 0
  BY <1>1, FS_EmptySet
<1>3. TInv
  BY BudgetAssumption DEF Init, TInv, TypeOK, CostsKnown, Places
<1>4. QED
  BY <1>1, <1>2, <1>3, BudgetAssumption
  DEF Init, IInv, CallCapHeld, PermitsDistinct, RefusalJustified, CopiesNotAhead,
      NumbersHandedOut

\* and every step of every request keeps it.
LEMMA NextIInv == IInv /\ [Next]_vars => IInv'
<1> SUFFICES ASSUME IInv, [Next]_vars
             PROVE  IInv'
  OBVIOUS
<1>t. TInv /\ TInv'
  BY TypeStep DEF IInv
<1>p. ASSUME Permitted' = Permitted, calls_reserved' = calls_reserved,
             call_number' = call_number
      PROVE  (CallCapHeld /\ PermitsDistinct /\ NumbersHandedOut)'
  BY <1>p DEF IInv, CallCapHeld, PermitsDistinct, NumbersHandedOut
<1> USE BudgetAssumption
    DEF TInv, TypeOK, Places, Reserving, HasPermit, Refused
<1>1. ASSUME NEW r \in Requests, AdmitLoadCost(r)
      PROVE  IInv'
  <2>1. Permitted' = Permitted
    BY <1>t, <1>1 DEF AdmitLoadCost, Permitted
  <2>2. (RefusalJustified /\ CopiesNotAhead)'
    BY <1>t, <1>1 DEF AdmitLoadCost, IInv, RefusalJustified, CopiesNotAhead
  <2>3. QED
    BY <1>t, <1>1, <1>p, <2>1, <2>2 DEF AdmitLoadCost, IInv
<1>2. ASSUME NEW r \in Requests, ReserveLoad(r)
      PROVE  IInv'
  <2>1. Permitted' = Permitted
    BY <1>t, <1>2 DEF ReserveLoad, Permitted
  <2>2. (RefusalJustified /\ CopiesNotAhead)'
    BY <1>t, <1>2 DEF ReserveLoad, IInv, RefusalJustified, CopiesNotAhead
  <2>3. QED
    BY <1>t, <1>2, <1>p, <2>1, <2>2 DEF ReserveLoad, IInv
<1>3. ASSUME NEW r \in Requests, ReserveFull(r)
      PROVE  IInv'
  <2>1. Permitted' = Permitted
    BY <1>t, <1>3 DEF ReserveFull, Permitted
  <2>2. calls_reserved = MaxLlmCalls
    BY <1>t, <1>3 DEF ReserveFull, IInv, CopiesNotAhead
  <2>3. (RefusalJustified /\ CopiesNotAhead)'
    BY <1>t, <1>3, <2>2 DEF ReserveFull, IInv, RefusalJustified, CopiesNotAhead
  <2>4. QED
    BY <1>t, <1>3, <1>p, <2>1, <2>3 DEF ReserveFull, IInv
<1>4. ASSUME NEW r \in Requests, ReserveCas(r)
      PROVE  IInv'
  <2>1. Permitted' = Permitted \cup {r} /\ r \notin Permitted
    BY <1>t, <1>4 DEF ReserveCas, Permitted
  <2>2. Cardinality(Permitted') = Cardinality(Permitted) + 1
    BY <2>1, PermittedFinite, FS_AddElement
  <2>3. CallCapHeld'
    BY <1>t, <1>4, <2>2 DEF ReserveCas, IInv, CallCapHeld
  <2>4. \A s \in Permitted : call_number'[s] = call_number[s] /\ call_number[s] <= calls_reserved
    BY <1>t, <1>4, <2>1 DEF ReserveCas, IInv, NumbersHandedOut, Permitted
  <2>5. call_number'[r] = calls_reserved + 1 /\ calls_reserved' = calls_reserved + 1
    BY <1>t, <1>4 DEF ReserveCas
  <2>6. PermitsDistinct'
    BY <1>t, <2>1, <2>4, <2>5 DEF IInv, PermitsDistinct, Permitted
  <2>7. NumbersHandedOut'
    BY <1>t, <2>1, <2>4, <2>5 DEF IInv, NumbersHandedOut, Permitted
  <2>8. (RefusalJustified /\ CopiesNotAhead)'
    BY <1>t, <1>4 DEF ReserveCas, IInv, RefusalJustified, CopiesNotAhead
  <2>9. QED
    BY <1>t, <2>3, <2>6, <2>7, <2>8 DEF IInv
<1>5. ASSUME NEW r \in Requests, ReserveRetry(r)
      PROVE  IInv'
  <2>1. Permitted' = Permitted
    BY <1>5 DEF ReserveRetry, Permitted
  <2>2. (RefusalJustified /\ CopiesNotAhead)'
    BY <1>t, <1>5 DEF ReserveRetry, IInv, RefusalJustified, CopiesNotAhead
  <2>3. QED
    BY <1>t, <1>5, <1>p, <2>1, <2>2 DEF ReserveRetry, IInv
<1>6. ASSUME NEW r \in Requests, NEW c \in Costs, CommitLoad(r, c)
      PROVE  IInv'
  <2>1. Permitted' = Permitted
    BY <1>t, <1>6 DEF CommitLoad, Permitted
  <2>2. (RefusalJustified /\ CopiesNotAhead)'
    BY <1>t, <1>6 DEF CommitLoad, IInv, RefusalJustified, CopiesNotAhead
  <2>3. QED
    BY <1>t, <1>6, <1>p, <2>1, <2>2 DEF CommitLoad, IInv
<1>7. ASSUME NEW r \in Requests, CommitCas(r)
      PROVE  IInv'
  <2>1. Permitted' = Permitted
    BY <1>t, <1>7 DEF CommitCas, Permitted
  <2>2. CostCapReached(observed_cost_usd) => CostCapReached(observed_cost_usd')
    BY <1>t, <1>7, SaturatingAddFacts DEF CommitCas, CostsKnown
  <2>3. (RefusalJustified /\ CopiesNotAhead)'
    BY <1>t, <1>7, <2>2 DEF CommitCas, IInv, RefusalJustified, CopiesNotAhead
  <2>4. QED
    BY <1>t, <1>7, <1>p, <2>1, <2>3 DEF CommitCas, IInv
<1>8. ASSUME NEW r \in Requests, CommitRetry(r)
      PROVE  IInv'
  <2>1. Permitted' = Permitted
    BY <1>8 DEF CommitRetry, Permitted
  <2>2. (RefusalJustified /\ CopiesNotAhead)'
    BY <1>t, <1>8 DEF CommitRetry, IInv, RefusalJustified, CopiesNotAhead
  <2>3. QED
    BY <1>t, <1>8, <1>p, <2>1, <2>2 DEF CommitRetry, IInv
<1>9. CASE UNCHANGED vars
  <2>1. Permitted' = Permitted
    BY <1>9 DEF vars, Permitted
  <2>2. (RefusalJustified /\ CopiesNotAhead)'
    BY <1>9 DEF vars, IInv, RefusalJustified, CopiesNotAhead
  <2>3. QED
    BY <1>t, <1>9, <1>p, <2>1, <2>2 DEF vars, IInv
<1>10. QED
  BY <1>1, <1>2, <1>3, <1>4, <1>5, <1>6, <1>7, <1>8, <1>9
  DEF Next, ReserveStep, CommitStep

\* Hence every reachable state satisfies it.
THEOREM Invariance == Spec => []IInv
BY InitIInv, NextIInv, PTL DEF Spec

\* However the compare-exchange loops interleave, no more calls hold a permit than the cap
\* allows, and the counter counts exactly them.
THEOREM CallCap == Spec => []CallCapHeld
<1>1. IInv => CallCapHeld
  BY DEF IInv
<1>2. QED
  BY <1>1, Invariance, PTL

\* Two calls never share a call number.
THEOREM DistinctPermits == Spec => []PermitsDistinct
<1>1. IInv => PermitsDistinct
  BY DEF IInv
<1>2. QED
  BY <1>1, Invariance, PTL

\* No caller is turned away while the cap that is blamed is not used up.
THEOREM JustifiedRefusals == Spec => []RefusalJustified
<1>1. IInv => RefusalJustified
  BY DEF IInv
<1>2. QED
  BY <1>1, Invariance, PTL
------------------------------------------------------------------------------
\* A request that has not called admit() when the spend cap is reached, or has been
\* refused by it
Late(r) ==
    /\ CostCapReached(observed_cost_usd)
    /\ pc[r] \in {"idle", "CostCapExceeded"}

\* stays late for ever, because the committed spend never decreases.
LEMMA LateIsStable ==
    ASSUME NEW r \in Requests, IInv, Late(r), [Next]_vars
    PROVE  Late(r)'
<1> USE DEF IInv, TInv, TypeOK, Places, Reserving, HasPermit, Refused
<1>1. CASE observed_cost_usd' = observed_cost_usd
  <2>1. pc'[r] \in {"idle", "CostCapExceeded"}
    BY <1>1 DEF Late, Next, ReserveStep, CommitStep, AdmitLoadCost, ReserveLoad, ReserveFull,
                ReserveCas, ReserveRetry, CommitLoad, CommitCas, CommitRetry, vars
  <2>2. QED
    BY <1>1, <2>1 DEF Late
<1>2. ASSUME NEW s \in Requests, CommitCas(s)
      PROVE  Late(r)'
  <2>1. CostCapReached(observed_cost_usd')
    BY <1>2, SaturatingAddFacts, BudgetAssumption DEF CommitCas, CostsKnown, Late
  <2>2. pc'[r] = pc[r]
    BY <1>2 DEF CommitCas, Late
  <2>3. QED
    BY <2>1, <2>2 DEF Late
<1>3. QED
  BY <1>1, <1>2
  DEF Next, ReserveStep, CommitStep, AdmitLoadCost, ReserveLoad, ReserveFull, ReserveCas,
      ReserveRetry, CommitLoad, CommitRetry, vars

\* The spend cap closes admission for good: who calls admit() after it has been reached is
\* never given a permit.
THEOREM LateRefused == Spec => LateRequestsRefused
<1> SUFFICES ASSUME NEW r \in Requests
             PROVE  Spec => [](CostCapReached(observed_cost_usd) /\ pc[r] = "idle"
                                 => [](pc[r] \notin HasPermit))
  BY DEF LateRequestsRefused
<1>1. CostCapReached(observed_cost_usd) /\ pc[r] = "idle" => Late(r)
  BY DEF Late
<1>2. Late(r) => pc[r] \notin HasPermit
  BY DEF Late, HasPermit
<1>3. IInv /\ Late(r) /\ [Next]_vars => Late(r)'
  BY LateIsStable
<1>4. QED
  BY <1>1, <1>2, <1>3, Invariance, PTL DEF Spec
------------------------------------------------------------------------------
\* The sum that NoLostCost compares the counter with, and that sum cut off at u64::MAX.
CommittedSum == SumFunctionOnSet(cost, {r \in Requests : pc[r] = "committed"})
Capped(n)    == IF n > MaxU64 THEN MaxU64 ELSE n

\* A step that moves no request to or from "committed" and keeps the costs of those that are
\* there keeps the sum.
LEMMA SumRests ==
    ASSUME TInv, TInv',
           \A r \in Requests : pc'[r] = "committed" <=> pc[r] = "committed",
           \A r \in Requests : pc[r] = "committed" => cost'[r] = cost[r]
    PROVE  CommittedSum' = CommittedSum
<1> DEFINE S == {r \in Requests : pc[r] = "committed"}
<1>1. {r \in Requests : pc'[r] = "committed"} = S
  OBVIOUS
<1>2. IsFiniteSet(S) /\ MaxU64 \in Nat
  <2>1. S \subseteq Requests
    OBVIOUS
  <2> QED BY <2>1, BudgetAssumption, FS_Subset
<1>3. \A r \in S : cost[r] \in 0..MaxU64 /\ cost'[r] = cost[r]
  BY BudgetAssumption DEF TInv, CostsKnown
<1> HIDE DEF S
<1>4. SumFunctionOnSet(cost', S) = SumFunctionOnSet(cost, S)
  BY <1>2, <1>3, SumSame
<1>5. CommittedSum' = SumFunctionOnSet(cost', S) /\ CommittedSum = SumFunctionOnSet(cost, S)
  BY <1>1 DEF CommittedSum, S
<1> QED BY <1>4, <1>5

\* A compare-exchange of commit_cost() that succeeds adds one cost to both sides.
LEMMA SumGrows ==
    ASSUME TInv, NoLostCost, NEW r \in Requests, CommitCas(r)
    PROVE  NoLostCost'
<1> DEFINE S == {q \in Requests : pc[q] = "committed"}
<1>1. /\ {q \in Requests : pc'[q] = "committed"} = S \cup {r} /\ r \notin S
      /\ cost' = cost /\ cost[r] \in 0..MaxU64
      /\ observed_cost_usd' = SaturatingAdd(observed_cost_usd, cost[r])
  BY BudgetAssumption DEF CommitCas, TInv, TypeOK, CostsKnown, Places
<1>2. IsFiniteSet(S) /\ MaxU64 \in Nat
  <2>1. S \subseteq Requests
    OBVIOUS
  <2> QED BY <2>1, BudgetAssumption, FS_Subset
<1>3. \A q \in S \cup {r} : cost[q] \in 0..MaxU64
  BY <1>1, BudgetAssumption DEF TInv, CostsKnown
<1>4. CommittedSum' = SumFunctionOnSet(cost, S \cup {r})
  BY <1>1 DEF CommittedSum
<1>5. CommittedSum = SumFunctionOnSet(cost, S)
  BY DEF CommittedSum
<1> HIDE DEF S
<1>6. SumFunctionOnSet(cost, S \cup {r}) = SumFunctionOnSet(cost, S) + cost[r]
  BY <1>1, <1>2, <1>3, SumAdd
<1>7. SumFunctionOnSet(cost, S) \in Nat
  BY <1>2, <1>3, SumSame
<1>8. CommittedSum' = CommittedSum + cost[r] /\ CommittedSum \in Nat
  BY <1>4, <1>5, <1>6, <1>7
<1>9. observed_cost_usd = Capped(CommittedSum)
  BY DEF NoLostCost, Capped, CommittedSum
<1>10. observed_cost_usd' = Capped(CommittedSum')
  <2> DEFINE a == CommittedSum
             x == cost[r]
  <2>1. /\ a \in Nat /\ x \in 0..MaxU64 /\ MaxU64 \in Nat
        /\ observed_cost_usd = Capped(a) /\ CommittedSum' = a + x
    BY <1>1, <1>2, <1>8, <1>9
  <2> HIDE DEF a, x
  <2>2. SaturatingAdd(Capped(a), x) = Capped(a + x)
    BY <2>1 DEF SaturatingAdd, Capped
  <2> QED BY <1>1, <2>1, <2>2 DEF x
<1>11. NoLostCost' <=> observed_cost_usd' = Capped(CommittedSum')
  BY DEF NoLostCost, Capped, CommittedSum
<1> QED BY <1>10, <1>11

\* Every other step keeps both sides.
LEMMA NoLostCostStep == IInv /\ NoLostCost /\ [Next]_vars => NoLostCost'
<1> SUFFICES ASSUME IInv, NoLostCost, [Next]_vars
             PROVE  NoLostCost'
  OBVIOUS
<1>t. TInv /\ TInv'
  BY TypeStep DEF IInv
<1>1. ASSUME observed_cost_usd' = observed_cost_usd, CommittedSum' = CommittedSum
      PROVE  NoLostCost'
  BY <1>1 DEF NoLostCost, CommittedSum
<1>2. ASSUME observed_cost_usd' = observed_cost_usd,
             \A r \in Requests : pc'[r] = "committed" <=> pc[r] = "committed",
             \A r \in Requests : pc[r] = "committed" => cost'[r] = cost[r]
      PROVE  NoLostCost'
  <2>1. CommittedSum' = CommittedSum
    BY <1>t, <1>2, SumRests
  <2> QED BY <1>1, <1>2, <2>1
<1>3. CASE \E r \in Requests : CommitCas(r)
  BY <1>t, <1>3, SumGrows
<1>4. ASSUME NEW r \in Requests,
             AdmitLoadCost(r) \/ ReserveStep(r) \/ (\E c \in Costs : CommitLoad(r, c))
               \/ CommitRetry(r)
      PROVE  NoLostCost'
  <2>1. pc \in [Requests -> Places] /\ cost \in [Requests -> Costs \cup {NoCost}]
    BY <1>t DEF TInv, TypeOK
  <2>2. /\ observed_cost_usd' = observed_cost_usd /\ pc[r] # "committed" /\ pc'[r] # "committed"
        /\ \A q \in Requests \ {r} : pc'[q] = pc[q] /\ cost'[q] = cost[q]
    BY <1>4, <2>1 DEF AdmitLoadCost, ReserveStep, ReserveLoad, ReserveFull, ReserveCas,
                      ReserveRetry, CommitLoad, CommitRetry
  <2> QED BY <1>2, <2>2
<1>5. CASE UNCHANGED vars
  BY <1>2, <1>5 DEF vars
<1> QED BY <1>3, <1>4, <1>5 DEF Next, CommitStep

\* However the commits interleave, the observed spend is the saturated sum of what they commit.
THEOREM CostsSummed == Spec => []NoLostCost
<1>1. Init => NoLostCost
  <2> SUFFICES ASSUME Init PROVE NoLostCost
    OBVIOUS
  <2>1. {r \in Requests : pc[r] = "committed"} = {}
    BY DEF Init
  <2>2. CommittedSum = 0
    BY <2>1, SumNone DEF CommittedSum
  <2> QED BY <2>2, BudgetAssumption DEF Init, NoLostCost, CommittedSum
<1> QED BY <1>1, NoLostCostStep, Invariance, PTL DEF Spec
------------------------------------------------------------------------------
\* The tracker starts in the ledger's initial state,
LEMMA InitRefines == Init => Ledger!Init
BY DEF Init, Ledger!Init, VerdictOf, CommittedCost, Reserving, HasPermit

\* and each of its steps is a step of the ledger or changes nothing the ledger sees.
LEMMA StepRefines == IInv /\ [Next]_vars => [Ledger!Next]_(Ledger!ledgerVars)
<1> SUFFICES ASSUME IInv, [Next]_vars
             PROVE  [Ledger!Next]_(Ledger!ledgerVars)
  OBVIOUS
<1> DEFINE verdict == [q \in Requests |-> VerdictOf(pc[q])]
<1> USE DEF IInv, TInv, TypeOK, Places, Reserving, HasPermit, Refused
<1>s. ASSUME NEW r \in Requests, NEW p \in Places, pc' = [pc EXCEPT ![r] = p]
      PROVE  verdict' = [verdict EXCEPT ![r] = VerdictOf(p)]
  BY <1>s
<1>1. ASSUME NEW r \in Requests, AdmitLoadCost(r)
      PROVE  Ledger!CheckCost(r)
  <2>1. verdict[r] = "unseen"
    BY <1>1 DEF AdmitLoadCost, VerdictOf
  <2>2. verdict' = [verdict EXCEPT ![r] =
                      IF CostCapReached(observed_cost_usd) THEN "CostCapExceeded" ELSE "checked"]
    BY <1>1 DEF AdmitLoadCost, VerdictOf
  <2>3. CommittedCost' = CommittedCost
    BY <1>1 DEF AdmitLoadCost, CommittedCost
  <2>4. QED
    BY <1>1, <2>1, <2>2, <2>3 DEF AdmitLoadCost, Ledger!CheckCost, Ledger!CostCapReached,
                                  CostCapReached
<1>2. ASSUME NEW r \in Requests, ReserveLoad(r) \/ ReserveRetry(r) \/ CommitRetry(r)
      PROVE  UNCHANGED Ledger!ledgerVars
  <2>1. verdict' = verdict
    BY <1>2 DEF ReserveLoad, ReserveRetry, CommitRetry, VerdictOf
  <2>2. CommittedCost' = CommittedCost
    BY <1>2 DEF ReserveLoad, ReserveRetry, CommitRetry, CommittedCost
  <2>3. QED
    BY <1>2, <2>1, <2>2 DEF ReserveLoad, ReserveRetry, CommitRetry, Ledger!ledgerVars
<1>3. ASSUME NEW r \in Requests, ReserveFull(r)
      PROVE  Ledger!RefuseCall(r)
  <2>1. verdict[r] = "checked" /\ verdict' = [verdict EXCEPT ![r] = "CallCapExceeded"]
    BY <1>3 DEF ReserveFull, VerdictOf
  <2>2. calls_reserved >= MaxLlmCalls
    BY <1>3, BudgetAssumption DEF ReserveFull, CopiesNotAhead
  <2>3. CommittedCost' = CommittedCost
    BY <1>3 DEF ReserveFull, CommittedCost
  <2>4. QED
    BY <1>3, <2>1, <2>2, <2>3 DEF ReserveFull, Ledger!RefuseCall
<1>4. ASSUME NEW r \in Requests, ReserveCas(r)
      PROVE  Ledger!Reserve(r)
  <2>1. verdict[r] = "checked" /\ verdict' = [verdict EXCEPT ![r] = "Allowed"]
    BY <1>4 DEF ReserveCas, VerdictOf
  <2>2. CommittedCost' = CommittedCost
    BY <1>4 DEF ReserveCas, CommittedCost
  <2>3. QED
    BY <1>4, <2>1, <2>2 DEF ReserveCas, Ledger!Reserve
<1>5. ASSUME NEW r \in Requests, NEW c \in Costs, CommitLoad(r, c)
      PROVE  UNCHANGED Ledger!ledgerVars
  <2>1. verdict' = verdict
    BY <1>5 DEF CommitLoad, VerdictOf
  <2>2. CommittedCost' = CommittedCost
    BY <1>5 DEF CommitLoad, CommittedCost
  <2>3. QED
    BY <1>5, <2>1, <2>2 DEF CommitLoad, Ledger!ledgerVars
<1>6. ASSUME NEW r \in Requests, CommitCas(r)
      PROVE  \E c \in Costs : Ledger!CommitCost(r, c)
  <2>1. cost[r] \in Costs
    BY <1>6 DEF CommitCas, CostsKnown
  <2>2. verdict[r] = "Allowed" /\ verdict' = verdict
    BY <1>6 DEF CommitCas, VerdictOf
  <2>3. CommittedCost[r] = NoCost /\ CommittedCost' = [CommittedCost EXCEPT ![r] = cost[r]]
    BY <1>6 DEF CommitCas, CommittedCost
  <2>4. Ledger!CommitCost(r, cost[r])
    BY <1>6, <2>2, <2>3 DEF CommitCas, Ledger!CommitCost, Ledger!SaturatingAdd, SaturatingAdd
  <2>5. QED
    BY <2>1, <2>4
<1>7. CASE UNCHANGED vars
  BY <1>7 DEF vars, Ledger!ledgerVars, VerdictOf, CommittedCost
<1>8. QED
  BY <1>1, <1>2, <1>3, <1>4, <1>5, <1>6, <1>7
  DEF Next, ReserveStep, CommitStep, Ledger!Next

\* The compare-exchange loops implement the atomic ledger.
THEOREM TrackerImplementsLedger == Spec => ImplementsLedger
BY InitRefines, StepRefines, Invariance, PTL DEF Spec, ImplementsLedger, Ledger!Spec
==============================================================================
