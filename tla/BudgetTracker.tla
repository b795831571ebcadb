---------------------------- MODULE BudgetTracker ----------------------------
(***************************************************************************)
(* BudgetTracker of src/src/budget/mod.rs at the grain of its atomic       *)
(* operations: two AtomicU64 shared by all requests, updated by            *)
(* compare-exchange loops that any other thread may interleave with.       *)
(* pc[r] is the place of request r in admit(), reserve_call() and          *)
(* commit_cost(); current[r] is their local variable of that name.         *)
(*                                                                         *)
(* compare_exchange_weak may fail although the value is the expected one;  *)
(* it then returns that same value, current does not change, and the step  *)
(* is a stuttering step.  The fairness below says that one call does not   *)
(* fail that way for ever.                                                 *)
(***************************************************************************)
EXTENDS BudgetTypes, Functions

VARIABLES calls_reserved, observed_cost_usd, pc, current, call_number, cost

vars == <<calls_reserved, observed_cost_usd, pc, current, call_number, cost>>

Reserving  == {"reserve_load", "reserve_cas"}
HasPermit  == {"Allowed", "commit_cas", "committed"}
Refused    == {"CallCapExceeded", "CostCapExceeded"}
Places     == {"idle"} \cup Reserving \cup HasPermit \cup Refused

TypeOK ==
    /\ calls_reserved \in 0..MaxLlmCalls
    /\ observed_cost_usd \in 0..MaxU64
    /\ pc \in [Requests -> Places]
    /\ current \in [Requests -> 0..MaxU64]
    /\ call_number \in [Requests -> 0..MaxLlmCalls]
    /\ cost \in [Requests -> Costs \cup {NoCost}]

Init ==
    /\ calls_reserved = 0
    /\ observed_cost_usd = 0
    /\ pc = [r \in Requests |-> "idle"]
    /\ current = [r \in Requests |-> 0]
    /\ call_number = [r \in Requests |-> 0]
    /\ cost = [r \in Requests |-> NoCost]
------------------------------------------------------------------------------
(* Plausible bugs of the loops below, which the properties are run against. *)

\* load, then store: no compare-exchange
ReserveByStore(r) ==
    /\ pc[r] = "reserve_cas"
    /\ current[r] < MaxLlmCalls
    /\ calls_reserved' = current[r] + 1
    /\ call_number' = [call_number EXCEPT ![r] = current[r] + 1]
    /\ pc' = [pc EXCEPT ![r] = "Allowed"]
    /\ UNCHANGED <<observed_cost_usd, current, cost>>

CommitByStore(r) ==
    /\ pc[r] = "commit_cas"
    /\ observed_cost_usd' = SaturatingAdd(current[r], cost[r])
    /\ pc' = [pc EXCEPT ![r] = "committed"]
    /\ UNCHANGED <<calls_reserved, current, call_number, cost>>

\* the last call of the cap is never handed out
ReserveFullTooEarly(r) ==
    /\ pc[r] = "reserve_cas"
    /\ current[r] + 1 >= MaxLlmCalls
    /\ pc' = [pc EXCEPT ![r] = "CallCapExceeded"]
    /\ UNCHANGED <<calls_reserved, observed_cost_usd, current, call_number, cost>>

\* the actual value that a failed compare-exchange returns is dropped
RetryWithStaleValue(r) ==
    /\ pc[r] = "reserve_cas"
    /\ current[r] < MaxLlmCalls
    /\ calls_reserved # current[r]
    /\ UNCHANGED vars

\* observed > cap in place of observed >= cap
AdmitAtTheCap(r) ==
    /\ pc[r] = "idle"
    /\ pc' = [pc EXCEPT ![r] =
                IF MaxCostUsd # 0 /\ observed_cost_usd > MaxCostUsd
                THEN "CostCapExceeded" ELSE "reserve_load"]
    /\ UNCHANGED <<calls_reserved, observed_cost_usd, current, call_number, cost>>
------------------------------------------------------------------------------
\* admit(): load the spend; the test that follows it is local.
AdmitLoadCost(r) ==
    /\ pc[r] = "idle"
    /\ pc' = [pc EXCEPT ![r] =
                IF CostCapReached(observed_cost_usd) THEN "CostCapExceeded" ELSE "reserve_load"]
    /\ UNCHANGED <<calls_reserved, observed_cost_usd, current, call_number, cost>>

\* reserve_call(): the load in front of the loop.
ReserveLoad(r) ==
    /\ pc[r] = "reserve_load"
    /\ current' = [current EXCEPT ![r] = calls_reserved]
    /\ pc' = [pc EXCEPT ![r] = "reserve_cas"]
    /\ UNCHANGED <<calls_reserved, observed_cost_usd, call_number, cost>>

\* The early return of the loop, taken on the value read last, not on the counter.
ReserveFull(r) ==
    /\ pc[r] = "reserve_cas"
    /\ current[r] >= MaxLlmCalls
    /\ pc' = [pc EXCEPT ![r] = "CallCapExceeded"]
    /\ UNCHANGED <<calls_reserved, observed_cost_usd, current, call_number, cost>>

\* compare_exchange_weak(current, current + 1) succeeds.
ReserveCas(r) ==
    /\ pc[r] = "reserve_cas"
    /\ current[r] < MaxLlmCalls
    /\ calls_reserved = current[r]
    /\ calls_reserved' = current[r] + 1
    /\ call_number' = [call_number EXCEPT ![r] = current[r] + 1]
    /\ pc' = [pc EXCEPT ![r] = "Allowed"]
    /\ UNCHANGED <<observed_cost_usd, current, cost>>

\* It fails and returns the actual value: current = actual.
ReserveRetry(r) ==
    /\ pc[r] = "reserve_cas"
    /\ current[r] < MaxLlmCalls
    /\ calls_reserved # current[r]
    /\ current' = [current EXCEPT ![r] = calls_reserved]
    /\ UNCHANGED <<calls_reserved, observed_cost_usd, pc, call_number, cost>>

\* commit_cost(c): the load in front of the loop.
CommitLoad(r, c) ==
    /\ pc[r] = "Allowed"
    /\ current' = [current EXCEPT ![r] = observed_cost_usd]
    /\ cost' = [cost EXCEPT ![r] = c]
    /\ pc' = [pc EXCEPT ![r] = "commit_cas"]
    /\ UNCHANGED <<calls_reserved, observed_cost_usd, call_number>>

\* compare_exchange_weak(current, current.saturating_add(c)) succeeds.
CommitCas(r) ==
    /\ pc[r] = "commit_cas"
    /\ observed_cost_usd = current[r]
    /\ observed_cost_usd' = SaturatingAdd(current[r], cost[r])
    /\ pc' = [pc EXCEPT ![r] = "committed"]
    /\ UNCHANGED <<calls_reserved, current, call_number, cost>>

\* It fails and returns the actual value.
CommitRetry(r) ==
    /\ pc[r] = "commit_cas"
    /\ observed_cost_usd # current[r]
    /\ current' = [current EXCEPT ![r] = observed_cost_usd]
    /\ UNCHANGED <<calls_reserved, observed_cost_usd, pc, call_number, cost>>

ReserveStep(r) == ReserveLoad(r) \/ ReserveFull(r) \/ ReserveCas(r) \/ ReserveRetry(r)
CommitStep(r)  == CommitCas(r) \/ CommitRetry(r)

Next == \E r \in Requests :
    \/ AdmitLoadCost(r)
    \/ ReserveStep(r)
    \/ \E c \in Costs : CommitLoad(r, c)
    \/ CommitStep(r)

Spec == Init /\ [][Next]_vars

\* A thread inside reserve_call() or commit_cost() blocks on nothing, so it runs on.
Fairness == \A r \in Requests : WF_vars(ReserveStep(r)) /\ WF_vars(CommitStep(r))

FairSpec == Spec /\ Fairness
------------------------------------------------------------------------------
Permitted == {r \in Requests : pc[r] \in HasPermit}

\* However the compare-exchange loops interleave, the calls that hold a permit are
\* as many as the counter says and never more than the cap.
CallCapHeld ==
    /\ Cardinality(Permitted) = calls_reserved
    /\ Cardinality(Permitted) <= MaxLlmCalls

\* No two permits carry the same call number, which identifies a call in the report.
PermitsDistinct ==
    \A r, s \in Permitted : call_number[r] = call_number[s] => r = s

\* No update of the spend is lost: it is the saturated sum of the committed costs.
NoLostCost ==
    LET committed == {r \in Requests : pc[r] = "committed"}
        total     == SumFunctionOnSet(cost, committed)
    IN  observed_cost_usd = IF total > MaxU64 THEN MaxU64 ELSE total

\* A request is refused only by a cap that is used up, and stays used up: no interleaving
\* turns a caller away while a call is free.
RefusalJustified ==
    \A r \in Requests :
        /\ pc[r] = "CallCapExceeded" => calls_reserved = MaxLlmCalls
        /\ pc[r] = "CostCapExceeded" => CostCapReached(observed_cost_usd)

\* The spend cap is a cap on admission only: a request that calls admit() after the cap
\* has been reached never gets a permit, whatever is committed or saturates meanwhile.
LateRequestsRefused ==
    \A r \in Requests :
        [](CostCapReached(observed_cost_usd) /\ pc[r] = "idle" => [](pc[r] \notin HasPermit))

\* Contention never starves a caller: reserve_call() and commit_cost() return.
OperationsReturn ==
    \A r \in Requests :
        /\ pc[r] \in Reserving ~> pc[r] \in HasPermit \cup Refused
        /\ pc[r] = "commit_cas" ~> pc[r] = "committed"
------------------------------------------------------------------------------
\* The tracker implements the ledger: a compare-exchange that succeeds is the instant at
\* which the operation takes effect, and a cost counts from then on.
VerdictOf(place) ==
    CASE place = "idle"       -> "unseen"
      [] place \in Reserving  -> "checked"
      [] place \in HasPermit  -> "Allowed"
      [] OTHER                -> place

CommittedCost == [r \in Requests |-> IF pc[r] = "committed" THEN cost[r] ELSE NoCost]

Ledger == INSTANCE BudgetLedger WITH
    verdict <- [r \in Requests |-> VerdictOf(pc[r])],
    cost    <- CommittedCost

\* Every behaviour of the compare-exchange loops is one of the atomic ledger.
ImplementsLedger == Ledger!Spec
==============================================================================
