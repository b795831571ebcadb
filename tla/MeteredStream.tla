---------------------------- MODULE MeteredStream ----------------------------
(***************************************************************************)
(* What the proxy promises of one streamed response, however its bytes     *)
(* arrive and whoever gives up on it: its outcome is reported once, and    *)
(* what is charged to the budget is the cost that is reported.             *)
(***************************************************************************)
CONSTANTS
    Usages,   \* the token usages a provider may state
    CostOf,   \* Price::calculate: the cost of each, NoCost if it does not fit
    NoCost,
    Reasons   \* UsageUnavailableReason

VARIABLES
    priced,     \* whether the model has a price
    reported,   \* the calls of the completion
    committed   \* the costs passed to commit_cost

streamVars == <<priced, reported, committed>>

Init ==
    /\ priced \in BOOLEAN
    /\ reported = <<>>
    /\ committed = <<>>

Charge(usage) == IF priced THEN CostOf[usage] ELSE NoCost

Meter(usage) ==
    /\ reported = <<>>
    /\ reported' = <<[outcome |-> usage, cost |-> Charge(usage)]>>
    /\ committed' = IF Charge(usage) = NoCost THEN <<>> ELSE <<Charge(usage)>>
    /\ UNCHANGED priced

GiveUp(reason) ==
    /\ reported = <<>>
    /\ reported' = <<[outcome |-> reason, cost |-> NoCost]>>
    /\ UNCHANGED <<priced, committed>>

Next == (\E usage \in Usages : Meter(usage)) \/ (\E reason \in Reasons : GiveUp(reason))

Spec == Init /\ [][Next]_streamVars
==============================================================================
