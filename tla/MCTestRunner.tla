---------------------------- MODULE MCTestRunner -----------------------------
(* A small instance of TestRunner: the records that the three thresholds tell apart. *)
EXTENDS TestRunner, TLC

RecordOf(session, status, fault, decision) ==
    [session_id |-> session, status |-> status, fault_injected |-> fault, call_number |-> 1,
     budget_decision |-> decision, cost_usd |-> IF status = 200 THEN 1 ELSE NoCost]

MCRecords ==
    {RecordOf("A", 200, NoFault, "Allowed"),
     RecordOf("A", 500, "force_500", "Allowed"),
     RecordOf("A", 429, "budget_exceeded", "CallCapExceeded"),
     RecordOf(NoSession, 500, "force_500", "Allowed")}

MCFailOns == {<<>>, <<"resilience", "cost">>, <<"budget", "speed">>}
==============================================================================
