---------------------------- MODULE BudgetLedger ----------------------------
(***************************************************************************)
(* What the budget promises to the requests of the proxy: every operation  *)
(* on one of the two counters takes effect at one instant.  Admission is   *)
(* NOT one operation: the spend is checked first and a call is reserved    *)
(* afterwards, so spend committed in between is not seen by the caller     *)
(* that has been checked already.                                          *)
(***************************************************************************)
EXTENDS BudgetTypes

VARIABLES
    calls_reserved,     \* calls handed out so far
    observed_cost_usd,  \* spend committed so far
    verdict,            \* per request: how far admission has got, and its answer
    call_number,        \* per request: CallPermit.call_number, 0 before
    cost                \* per request: the cost it has committed, or NoCost

ledgerVars == <<calls_reserved, observed_cost_usd, verdict, call_number, cost>>

Verdicts == {"unseen", "checked", "Allowed", "CallCapExceeded", "CostCapExceeded"}

LedgerTypeOK ==
    /\ calls_reserved \in 0..MaxLlmCalls
    /\ observed_cost_usd \in 0..MaxU64
    /\ verdict \in [Requests -> Verdicts]
    /\ call_number \in [Requests -> 0..MaxLlmCalls]
    /\ cost \in [Requests -> Costs \cup {NoCost}]

Init ==
    /\ calls_reserved = 0
    /\ observed_cost_usd = 0
    /\ verdict = [r \in Requests |-> "unseen"]
    /\ call_number = [r \in Requests |-> 0]
    /\ cost = [r \in Requests |-> NoCost]

\* The first half of admit(): refuse a caller once the spend cap is reached.
CheckCost(r) ==
    /\ verdict[r] = "unseen"
    /\ verdict' = [verdict EXCEPT ![r] =
                     IF CostCapReached(observed_cost_usd) THEN "CostCapExceeded" ELSE "checked"]
    /\ UNCHANGED <<calls_reserved, observed_cost_usd, call_number, cost>>

\* The second half: hand out the next call number,
Reserve(r) ==
    /\ verdict[r] = "checked"
    /\ calls_reserved < MaxLlmCalls
    /\ calls_reserved' = calls_reserved + 1
    /\ call_number' = [call_number EXCEPT ![r] = calls_reserved + 1]
    /\ verdict' = [verdict EXCEPT ![r] = "Allowed"]
    /\ UNCHANGED <<observed_cost_usd, cost>>

\* or refuse, which only a fully used call cap justifies.
RefuseCall(r) ==
    /\ verdict[r] = "checked"
    /\ calls_reserved >= MaxLlmCalls
    /\ verdict' = [verdict EXCEPT ![r] = "CallCapExceeded"]
    /\ UNCHANGED <<calls_reserved, observed_cost_usd, call_number, cost>>

\* commit_cost: an admitted call adds what its response cost, once.
CommitCost(r, c) ==
    /\ verdict[r] = "Allowed"
    /\ cost[r] = NoCost
    /\ observed_cost_usd' = SaturatingAdd(observed_cost_usd, c)
    /\ cost' = [cost EXCEPT ![r] = c]
    /\ UNCHANGED <<calls_reserved, verdict, call_number>>

Next == \E r \in Requests :
    \/ CheckCost(r)
    \/ Reserve(r)
    \/ RefuseCall(r)
    \/ \E c \in Costs : CommitCost(r, c)

Spec == Init /\ [][Next]_ledgerVars
==============================================================================
