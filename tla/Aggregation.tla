----------------------------- MODULE Aggregation -----------------------------
(***************************************************************************)
(* The pure part of src/src/report.rs: how a list of request records is    *)
(* grouped by session, when a later record recovers an injected fault, and *)
(* the totals of the run.  A record keeps the fields that the totals read: *)
(* status, fault_injected, call_number (0 for None), budget_decision,      *)
(* usage, cost_usd and session_id.                                         *)
(***************************************************************************)
EXTENDS Naturals, Sequences, FiniteSets, SequencesExt

CONSTANTS
    NoFault,      \* fault_injected: None
    NoSession,    \* session_id: None
    NoCost,       \* cost_usd: None
    MaxU64        \* u64::MAX

Decisions ==
    {"NotBillable", "InvalidRequest", "ModelUnpriced", "Allowed", "CallCapExceeded",
     "CostCapExceeded"}

Indices(events, Test(_)) == {i \in DOMAIN events : Test(events[i])}
Count(events, Test(_))   == Cardinality(Indices(events, Test))

IsSuccessStatus(status) == status \in 200..299

IsFaulted(record)    == record.fault_injected # NoFault
IsAttributed(record) == record.session_id # NoSession

\* Whether `later` recovers an earlier fault of `scenario`: after a forced error any 2xx does,
\* after anything else (budget_exceeded is a scenario too) an un-faulted 2xx.
IsQualifyingRecovery(scenario, later) ==
    /\ IsSuccessStatus(later.status)
    /\ scenario \in {"force_500", "force_429"} \/ ~IsFaulted(later)

\* Plausible bug: every attributed event is looked at, whatever its session.
EventsOfAll(requests, session) == Indices(requests, IsAttributed)

\* The events of a session are the positions of its records.
EventsOf(requests, session) == {i \in DOMAIN requests : requests[i].session_id = session}

FaultIndices(requests, events) == {i \in events : IsFaulted(requests[i])}

\* Plausible bug: only the last event of the session is looked at.
LastRecovers(requests, events) ==
    {i \in FaultIndices(requests, events) : \E j \in events :
        /\ i < j /\ j = Max(events)
        /\ IsQualifyingRecovery(requests[i].fault_injected, requests[j])}

\* The faults of a session that some later event of the session recovers.
RecoveredIndices(requests, events) ==
    {i \in FaultIndices(requests, events) : \E j \in events :
        i < j /\ IsQualifyingRecovery(requests[i].fault_injected, requests[j])}

SummarizeSession(requests, session) ==
    LET events     == EventsOf(requests, session)
        faults     == Cardinality(FaultIndices(requests, events))
        recoveries == Cardinality(RecoveredIndices(requests, events))
    IN  [session_id      |-> session,
         request_count   |-> Cardinality(events),
         fault_events    |-> faults,
         recovery_events |-> recoveries,
         recovered       |-> IF faults = 0 THEN "None"
                             ELSE IF recoveries = faults THEN "Some(true)" ELSE "Some(false)"]

\* The sessions in the order of their first record.
SessionOrder(requests) ==
    FoldLeft(LAMBDA order, record :
               IF ~IsAttributed(record) \/ record.session_id \in Range(order) THEN order
               ELSE Append(order, record.session_id),
             <<>>, requests)

Total(amounts) == FoldLeft(+, 0, amounts)

AggregateSessions(requests) ==
    LET order      == SessionOrder(requests)
        sessions   == [k \in DOMAIN order |-> SummarizeSession(requests, order[k])]
        attributed == Total([k \in DOMAIN sessions |-> sessions[k].fault_events])
    IN  [sessions              |-> sessions,
         sessions_observed     |-> Len(sessions),
         recovered_sessions    |-> Count(sessions, LAMBDA session : session.recovered = "Some(true)"),
         unrecovered_sessions  |-> Count(sessions, LAMBDA session : session.recovered = "Some(false)"),
         unattributed_requests |-> Count(requests, LAMBDA record : ~IsAttributed(record)),
         fault_events          |-> attributed + Count(requests, LAMBDA record :
                                                  ~IsAttributed(record) /\ IsFaulted(record)),
         recovery_events       |-> Total([k \in DOMAIN sessions |-> sessions[k].recovery_events])]

\* The sum of the recorded costs, added one by one with saturating_add.
ObservedCost(requests) ==
    FoldLeft(LAMBDA total, record :
               IF record.cost_usd = NoCost THEN total
               ELSE IF total + record.cost_usd > MaxU64 THEN MaxU64 ELSE total + record.cost_usd,
             0, requests)

Summarize(requests) ==
    LET aggregation == AggregateSessions(requests)
        successful  == Count(requests, LAMBDA record : IsSuccessStatus(record.status))
    IN  [successful_requests   |-> successful,
         failed_requests       |-> Len(requests) - successful,
         budget_rejections     |-> Count(requests, LAMBDA record :
                                     record.budget_decision \in {"CallCapExceeded", "CostCapExceeded"}),
         recovery_events       |-> aggregation.recovery_events,
         fault_events          |-> aggregation.fault_events,
         sessions_observed     |-> aggregation.sessions_observed,
         recovered_sessions    |-> aggregation.recovered_sessions,
         unrecovered_sessions  |-> aggregation.unrecovered_sessions,
         unattributed_requests |-> aggregation.unattributed_requests,
         observed_cost_usd     |-> ObservedCost(requests)]
==============================================================================
