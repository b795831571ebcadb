-------------------------- MODULE MCReportCollector --------------------------
(* A small instance of ReportCollector: two sessions and unattributed traffic, the *)
(* records that the scoring rules tell apart, and two shutdown requests.           *)
EXTENDS ReportCollector, TLC

RecordOf(session, status, fault, number) ==
    [session_id |-> session, status |-> status, fault_injected |-> fault, call_number |-> number,
     budget_decision |-> "Allowed", cost_usd |-> NoCost]

MCRecords ==
    {RecordOf("A", 500, "force_500", 1),
     RecordOf("A", 200, "malformed_tool_call_json", 2),
     RecordOf("B", 200, NoFault, 3),
     RecordOf(NoSession, 500, "force_500", 4)}

MCSnapshots == {"first", "second"}
==============================================================================
