------------------------------ MODULE MaulProxy ------------------------------
(***************************************************************************)
(* The running proxy: every request handler of src/src/proxy, the shared   *)
(* budget (BudgetLedger, which BudgetTracker implements), the fault        *)
(* decisions, the report channel and its collector (ReportCollector), and  *)
(* the shutdown sequence of main().                                        *)
(*                                                                         *)
(* Handlers run on a multi-threaded runtime: what they do between two      *)
(* awaits may interleave at every access to shared state, so each such     *)
(* access is an action.  At an await a handler may be dropped, because its *)
(* client has gone; nothing after the await then happens.                  *)
(*                                                                         *)
(* stage[r] says where the handler of request r is:                        *)
(*   reading    waits for the request body                                 *)
(*   admitting, reserving    is inside BudgetTracker::admit()              *)
(*   admitted   has its permit and builds the upstream request             *)
(*   upstream   waits for the head of the upstream response                *)
(*   metering   waits for the body of a response it meters (non-streaming) *)
(*   mutating   waits for the body of a response it corrupts               *)
(*   streaming  has answered; the client pulls the body through the tap    *)
(*   reporting  has a complete record that it has not sent yet             *)
(*   answered, cancelled    is over                                        *)
(* and record[r] is the record as far as it is known.                      *)
(***************************************************************************)
EXTENDS BudgetTypes, Sequences

CONSTANTS
    Sessions,          \* valid session identifiers
    Inputs,            \* what agents send: see InputOK
    Scenarios,         \* the enabled fault scenarios
    UpstreamStatuses,  \* the statuses the upstream answers with
    NoFault, NoSession, NoInput, NoSnapshot, NoFile

VARIABLES
    stage, record, input,
    decision,          \* the fault decision of a request, "none" before
    before,            \* history: the requests that had arrived, and those that had been
                       \* answered, when a request arrived
    server             \* the main task

VARIABLES calls_reserved, observed_cost_usd, verdict, call_number, cost

VARIABLES channel, handles, collector, requests, next_sequence, budget_snapshot, report,
          sent, shutdowns

Ledger == INSTANCE BudgetLedger

Collector == INSTANCE ReportCollector WITH
    Records <- {}, Snapshots <- {}, MaxSent <- 0, MaxShutdowns <- 0

ledgerVars   == <<calls_reserved, observed_cost_usd, verdict, call_number, cost>>
reportVars   == <<channel, handles, collector, requests, next_sequence, budget_snapshot, report,
                  sent, shutdowns>>
handlerVars  == <<stage, record, input, decision, before>>
vars         == <<handlerVars, server, ledgerVars, reportVars>>

\* An input keeps what the handlers tell apart: the route, the body, the three sources of a
\* session ("invalid" is a header that is present and rejected), and the chat request itself.
InputOK(i) ==
    /\ {i.billable, i.stream, i.priced, i.options_ok} \subseteq BOOLEAN
    /\ i.body \in {"ok", "too_large", "not_json", "not_chat"}
    /\ i.header \in Sessions \cup {"absent", "invalid"}
    /\ {i.user, i.metadata} \subseteq Sessions \cup {NoSession}

ASSUME ProxyAssumption ==
    /\ \A i \in Inputs : InputOK(i)
    /\ Scenarios \subseteq {"force_500", "force_429", "malformed_tool_call_json"}
    /\ UpstreamStatuses \subseteq 100..599
    /\ NoFault \notin {"force_500", "force_429", "malformed_tool_call_json", "budget_exceeded"}

Over      == {"answered", "cancelled"}
Awaiting  == {"reading", "upstream", "metering", "mutating"}
Stages    == {"idle", "admitting", "reserving", "admitted", "streaming", "reporting"}
               \cup Awaiting \cup Over
Decisions == {"none", "Forward"} \cup Scenarios

TypeOK ==
    /\ Ledger!LedgerTypeOK
    /\ stage \in [Requests -> Stages]
    /\ input \in [Requests -> Inputs \cup {NoInput}]
    /\ decision \in [Requests -> Decisions]
    /\ before \in [Requests -> [arrived : SUBSET Requests, answered : SUBSET Requests]]
    /\ server \in {"serving", "draining", "flushing", "exited"}
    /\ \A r \in Requests :
        /\ record[r].status \in {0, 400, 413, 422, 429, 500, 502} \cup UpstreamStatuses
        /\ record[r].session_id \in Sessions \cup {NoSession}
        /\ record[r].call_number = call_number[r]

EmptyRecord(r) ==
    [id |-> r, status |-> 0, fault_injected |-> NoFault, call_number |-> 0,
     budget_decision |-> "NotBillable", usage |-> "None", cost_usd |-> NoCost,
     session_id |-> NoSession]

Init ==
    /\ Ledger!Init
    /\ Collector!Init
    /\ stage = [r \in Requests |-> "idle"]
    /\ record = [r \in Requests |-> EmptyRecord(r)]
    /\ input = [r \in Requests |-> NoInput]
    /\ decision = [r \in Requests |-> "none"]
    /\ before = [r \in Requests |-> [arrived |-> {}, answered |-> {}]]
    /\ server = "serving"
------------------------------------------------------------------------------
(* src/src/session.rs *)

\* from_headers: the dedicated header, or nothing.
FromHeaders(i) == IF i.header \in Sessions THEN i.header ELSE NoSession

FromBody(i) == IF i.user # NoSession THEN i.user ELSE i.metadata

\* from_headers_and_body: a header that is present decides, valid or not.
FromHeadersAndBody(i) == IF i.header # "absent" THEN FromHeaders(i) ELSE FromBody(i)
------------------------------------------------------------------------------
(* Steps of a handler. *)

GoTo(r, place)     == stage' = [stage EXCEPT ![r] = place]
IsSuccess(status)  == status \in 200..299

\* The record `rec` with some of its fields replaced by those of `changes`.
Updated(rec, changes) ==
    [field \in DOMAIN rec |-> IF field \in DOMAIN changes THEN changes[field] ELSE rec[field]]

\* The record of r is refined by `changes`, and r goes on at `place`.
Continues(r, place, changes) ==
    /\ GoTo(r, place)
    /\ record' = [record EXCEPT ![r] = Updated(@, changes)]

\* The record of r is complete with `changes`, and is sent next.
Reports(r, changes) == Continues(r, "reporting", changes)

\* handle: a request arrives and is classified.  While the server drains, a connection that was
\* accepted before may still bring one.
Arrive(r) ==
    /\ server \in {"serving", "draining"}
    /\ stage[r] = "idle"
    /\ input' \in {[input EXCEPT ![r] = i] : i \in Inputs}
    /\ before' = [before EXCEPT ![r] = [arrived  |-> {q \in Requests : stage[q] # "idle"},
                                        answered |-> {q \in Requests : stage[q] = "answered"}]]
    /\ GoTo(r, "reading")
    /\ UNCHANGED <<record, decision, server, ledgerVars, reportVars>>

\* The handler is dropped at an await: its client has gone.
Cancel(r) ==
    /\ stage[r] \in Awaiting
    /\ GoTo(r, "cancelled")
    /\ UNCHANGED <<record, input, decision, before, server, ledgerVars, reportVars>>
------------------------------------------------------------------------------
(* A request that is not billable: handle() and reverse_proxy(). *)

ReadForeignBody(r) ==
    /\ stage[r] = "reading" /\ ~input[r].billable
    /\ LET session == FromHeaders(input[r])
       IN  IF input[r].body = "too_large"
           THEN Reports(r, [session_id |-> session, status |-> 413])
           ELSE Continues(r, "upstream", [session_id |-> session])
    /\ UNCHANGED <<input, decision, before, server, ledgerVars, reportVars>>

RelayForeign(r) ==
    /\ stage[r] = "upstream" /\ ~input[r].billable
    /\ \E status \in UpstreamStatuses \cup {502} : Reports(r, [status |-> status])
    /\ UNCHANGED <<input, decision, before, server, ledgerVars, reportVars>>
------------------------------------------------------------------------------
(* The stages of handle_billable() up to the fault decision. *)

\* read_and_parse_body: an unusable body is recorded with the session of the header only.
RejectBody(r) ==
    /\ stage[r] = "reading" /\ input[r].billable
    /\ input[r].body # "ok"
    /\ Reports(r, [status          |-> IF input[r].body = "too_large" THEN 413 ELSE 400,
                   budget_decision |-> "InvalidRequest",
                   session_id      |-> FromHeaders(input[r])])
    /\ UNCHANGED <<input, decision, before, server, ledgerVars, reportVars>>

\* resolve_price: with a spend cap, a model without a price is refused.
AcceptBody(r) ==
    /\ stage[r] = "reading" /\ input[r].billable
    /\ input[r].body = "ok"
    /\ LET session == FromHeadersAndBody(input[r])
       IN  IF MaxCostUsd # 0 /\ ~input[r].priced
           THEN Reports(r, [session_id      |-> session,
                            status          |-> 422,
                            budget_decision |-> "ModelUnpriced"])
           ELSE Continues(r, "admitting", [session_id |-> session])
    /\ UNCHANGED <<input, decision, before, server, ledgerVars, reportVars>>

\* admit_call: a refusal counts as an injected fault named budget_exceeded.
Refuses(r, refusal) ==
    Reports(r, [status |-> 429, fault_injected |-> "budget_exceeded", budget_decision |-> refusal])

CheckCost(r) ==
    /\ stage[r] = "admitting"
    /\ Ledger!CheckCost(r)
    /\ IF verdict'[r] = "checked"
       THEN GoTo(r, "reserving") /\ UNCHANGED record
       ELSE Refuses(r, "CostCapExceeded")
    /\ UNCHANGED <<input, decision, before, server, reportVars>>

\* Plausible bug: the permit's number does not reach the record.
ReserveUnnumbered(r) ==
    /\ stage[r] = "reserving"
    /\ Ledger!Reserve(r)
    /\ Continues(r, "admitted", [budget_decision |-> "Allowed"])
    /\ UNCHANGED <<input, decision, before, server, reportVars>>

Reserve(r) ==
    /\ stage[r] = "reserving"
    /\ Ledger!Reserve(r)
    /\ Continues(r, "admitted", [call_number |-> call_number'[r], budget_decision |-> "Allowed"])
    /\ UNCHANGED <<input, decision, before, server, reportVars>>

\* Plausible bug: the refusal is recorded nowhere and the call goes on.
RefuseCallAndGoOn(r) ==
    /\ stage[r] = "reserving"
    /\ Ledger!RefuseCall(r)
    /\ Continues(r, "admitted", [budget_decision |-> "CallCapExceeded"])
    /\ UNCHANGED <<input, decision, before, server, reportVars>>

RefuseCall(r) ==
    /\ stage[r] = "reserving"
    /\ Ledger!RefuseCall(r)
    /\ Refuses(r, "CallCapExceeded")
    /\ UNCHANGED <<input, decision, before, server, reportVars>>

\* transform_outbound: stream_options that are not an object cost the call all the same.
BadOptions(r) == input[r].stream /\ ~input[r].options_ok

RejectOptions(r) ==
    /\ stage[r] = "admitted" /\ BadOptions(r)
    /\ Reports(r, [status |-> 400])
    /\ UNCHANGED <<input, decision, before, server, ledgerVars, reportVars>>

\* execute_and_meter: the fault engine decides; a forced error never reaches the upstream.
ForcedStatus(scenario) == IF scenario = "force_500" THEN 500 ELSE 429

Decide(r) ==
    /\ stage[r] = "admitted" /\ ~BadOptions(r)
    /\ decision' \in {[decision EXCEPT ![r] = d] : d \in Scenarios \cup {"Forward"}}
    /\ IF decision'[r] \in {"force_500", "force_429"}
       THEN Reports(r, [status         |-> ForcedStatus(decision'[r]),
                        fault_injected |-> decision'[r]])
       ELSE GoTo(r, "upstream") /\ UNCHANGED record
    /\ UNCHANGED <<input, before, server, ledgerVars, reportVars>>
------------------------------------------------------------------------------
(* execute_forward(), execute_mutate_after(), meter_response(), apply_mutate_after(). *)

Mutates(r) == decision[r] = "malformed_tool_call_json"

\* What the response of r is worth once its body is complete: a cost, tokens whose cost does not
\* fit or has no price, or no usable usage field.  A line of the proxy's own has no usage.
Meterings(r) ==
    LET priced  == IF input[r].priced THEN Costs \cup {NoCost} ELSE {NoCost}
        metered == IF record[r].status \in UpstreamStatuses THEN priced ELSE {}
    IN  {[usage |-> "Metered", cost_usd |-> c] : c \in metered}
          \cup {[usage |-> "Unavailable", cost_usd |-> NoCost]}

Commits(r, metering) ==
    IF metering.cost_usd = NoCost
    THEN UNCHANGED ledgerVars
    ELSE Ledger!CommitCost(r, metering.cost_usd)

\* A body that is corrupted is recorded as the fault; one that is neither JSON nor SSE is not.
Corruptions(r) == IF Mutates(r) THEN {decision[r], NoFault} ELSE {NoFault}

Corrupted(metering, fault) ==
    [usage |-> metering.usage, cost_usd |-> metering.cost_usd, fault_injected |-> fault]

\* The head of a response arrives.  A response that needs no metering is complete in a forwarded
\* call; MutateAfter has its body still to read.
TakeHead(r) ==
    /\ stage[r] = "upstream" /\ input[r].billable
    /\ \E status \in UpstreamStatuses :
         LET unmetered == input[r].priced /\ ~IsSuccess(status)
             plain     == ~input[r].priced /\ ~input[r].stream
             head      == [status |-> status, usage |-> IF unmetered THEN "UpstreamError" ELSE "None"]
         IN  IF unmetered \/ plain
             THEN IF Mutates(r) THEN Continues(r, "mutating", head) ELSE Reports(r, head)
             ELSE IF ~input[r].stream THEN Continues(r, "metering", head)
             ELSE Continues(r, IF Mutates(r) THEN "mutating" ELSE "streaming", head)
    /\ UNCHANGED <<input, decision, before, server, ledgerVars, reportVars>>

\* reverse_proxy answers itself, with a line of text: the upstream failed, or the request has
\* outgrown the limit since it was admitted.
FailUpstream(r) ==
    /\ stage[r] = "upstream" /\ input[r].billable
    /\ \E status \in {413, 502} :
         LET head(usage) == [status |-> status, usage |-> usage]
         IN  IF input[r].priced THEN Reports(r, head("UpstreamError"))
             ELSE IF ~input[r].stream THEN Reports(r, head("None"))
             ELSE IF Mutates(r) THEN Reports(r, head("Unavailable"))
             ELSE Continues(r, "streaming", head("None"))
    /\ UNCHANGED <<input, decision, before, server, ledgerVars, reportVars>>

\* meter_response reads the whole body, commits the cost, and MutateAfter corrupts the copy.
MeterBody(r) ==
    /\ stage[r] = "metering"
    /\ \E metering \in Meterings(r), fault \in Corruptions(r) :
         /\ Commits(r, metering)
         /\ Reports(r, Corrupted(metering, fault))
    /\ UNCHANGED <<input, decision, before, server, reportVars>>

\* Plausible bug: an error of the proxy's own counts as no fault, although it is corrupted.
MeterFailsUnrecorded(r) ==
    /\ stage[r] = "metering"
    /\ Reports(r, [status |-> 502, usage |-> "ResponseTooLarge"])
    /\ UNCHANGED <<input, decision, before, server, ledgerVars, reportVars>>

\* The body is too large or breaks off: the agent gets a JSON error, which MutateAfter corrupts.
MeterFails(r) ==
    /\ stage[r] = "metering"
    /\ Reports(r, [status         |-> 502,
                   usage          |-> "ResponseTooLarge",
                   fault_injected |-> IF Mutates(r) THEN decision[r] ELSE NoFault])
    /\ UNCHANGED <<input, decision, before, server, ledgerVars, reportVars>>

\* The body that MutateAfter drains runs through the usage tap if the request is a stream.
Tapped(r) == input[r].stream /\ record[r].usage # "UpstreamError"

MutateBody(r) ==
    /\ stage[r] = "mutating"
    /\ \E fault \in Corruptions(r) :
         IF Tapped(r)
         THEN \E metering \in Meterings(r) :
                /\ Commits(r, metering)
                /\ Reports(r, Corrupted(metering, fault))
         ELSE /\ UNCHANGED ledgerVars
              /\ Reports(r, [fault_injected |-> fault])
    /\ UNCHANGED <<input, decision, before, server, reportVars>>

MutateFails(r) ==
    /\ stage[r] = "mutating"
    /\ Reports(r, [status |-> 502,
                   usage  |-> IF Tapped(r) THEN "StreamInterrupted" ELSE record[r].usage])
    /\ UNCHANGED <<input, decision, before, server, ledgerVars, reportVars>>

\* The usage tap sees the end of the stream: finish_clean commits, then the completion reports.
StreamEnds(r) ==
    /\ stage[r] = "streaming"
    /\ \E metering \in Meterings(r) :
         /\ Commits(r, metering)
         /\ Reports(r, metering)
    /\ UNCHANGED <<input, decision, before, server, reportVars>>

\* Plausible bug: what has been parsed so far is charged.
ChargeBrokenStream(r) ==
    /\ stage[r] = "streaming"
    /\ \E metering \in Meterings(r) : Commits(r, metering)
    /\ Reports(r, [usage |-> "StreamInterrupted"])
    /\ UNCHANGED <<input, decision, before, server, reportVars>>

\* The upstream breaks off, or the client goes and the body is dropped: the completion reports
\* an interruption.
StreamBreaks(r) ==
    /\ stage[r] = "streaming"
    /\ Reports(r, [usage |-> "StreamInterrupted"])
    /\ UNCHANGED <<input, decision, before, server, ledgerVars, reportVars>>
------------------------------------------------------------------------------
\* Plausible bugs: the record is sent by a task of its own after the answer; the completion of a
\* refused stream fires and leaves the tap armed.
ReportAfterAnswer(r) ==
    /\ \/ /\ stage[r] = "reporting"
          /\ GoTo(r, "answered")
          /\ UNCHANGED reportVars
       \/ /\ stage[r] = "answered" /\ \A i \in DOMAIN sent : sent[i].id # r
          /\ Collector!Record(record[r])
          /\ UNCHANGED stage
    /\ UNCHANGED <<record, input, decision, before, server, ledgerVars>>

ReportTwice(r) ==
    /\ stage[r] = "reporting"
    /\ Collector!Record(record[r])
    /\ IF record[r].usage = "UpstreamError" /\ input[r].stream /\ sent = <<>>
       THEN GoTo(r, "streaming")
       ELSE GoTo(r, "answered")
    /\ UNCHANGED <<record, input, decision, before, server, ledgerVars>>

\* record_billable and its kin: the record is sent before the answer is complete.
Report(r) ==
    /\ stage[r] = "reporting"
    /\ Collector!Record(record[r])
    /\ GoTo(r, "answered")
    /\ UNCHANGED <<record, input, decision, before, server, ledgerVars>>
------------------------------------------------------------------------------
(* main(): with_graceful_shutdown accepts no more connections and waits for the handlers and  *)
(* the bodies under way; then the budget is read and the collector is told to write.          *)

ShutdownSignal ==
    /\ server = "serving"
    /\ server' = "draining"
    /\ UNCHANGED <<handlerVars, ledgerVars, reportVars>>

Snapshot == [calls_reserved |-> calls_reserved, observed_cost_usd |-> observed_cost_usd]

\* Plausible bug: a handler that has returned counts as finished, its body still streaming.
EndOfServeAtHead ==
    /\ server = "draining"
    /\ \A r \in Requests : stage[r] \in {"idle", "streaming"} \cup Over
    /\ server' = "flushing"
    /\ Collector!RequestShutdown(Snapshot)
    /\ UNCHANGED <<handlerVars, ledgerVars>>

EndOfServe ==
    /\ server = "draining"
    /\ \A r \in Requests : stage[r] \in {"idle"} \cup Over
    /\ server' = "flushing"
    /\ Collector!RequestShutdown(Snapshot)
    /\ UNCHANGED <<handlerVars, ledgerVars>>

\* Plausible bugs: main() does not wait for the collector task; main() waits for a report that
\* could be written.
ExitAtOnce ==
    /\ server = "flushing"
    /\ server' = "exited"
    /\ UNCHANGED <<handlerVars, ledgerVars, reportVars>>

ExitWhenWritten ==
    /\ server = "flushing"
    /\ report = "written"
    /\ server' = "exited"
    /\ UNCHANGED <<handlerVars, ledgerVars, reportVars>>

\* collector.await
Exit ==
    /\ server = "flushing"
    /\ collector = "done"
    /\ server' = "exited"
    /\ UNCHANGED <<handlerVars, ledgerVars, reportVars>>

\* The collector is a task of the same process: it runs until the process exits.
CollectorRuns ==
    /\ server # "exited"
    /\ Collector!CollectorStep
    /\ UNCHANGED <<handlerVars, server, ledgerVars>>
------------------------------------------------------------------------------
\* What a handler does without waiting for its client.
HandlerRuns(r) ==
    \/ CheckCost(r) \/ Reserve(r) \/ RefuseCall(r) \/ RejectOptions(r) \/ Decide(r)
    \/ RelayForeign(r) \/ TakeHead(r) \/ FailUpstream(r)
    \/ MeterBody(r) \/ MeterFails(r) \/ MutateBody(r) \/ MutateFails(r)
    \/ Report(r)

\* What its client sets the pace of: the request body, and the pulling of a streamed response.
ClientPaced(r) ==
    \/ Arrive(r) \/ Cancel(r)
    \/ ReadForeignBody(r) \/ RejectBody(r) \/ AcceptBody(r)
    \/ StreamEnds(r) \/ StreamBreaks(r)

Next ==
    \/ \E r \in Requests : HandlerRuns(r) \/ ClientPaced(r)
    \/ ShutdownSignal \/ EndOfServe \/ Exit
    \/ CollectorRuns

Spec == Init /\ [][Next]_vars

\* The runtime polls what is ready, and the HTTP client gives up on an upstream after 60 seconds.
\* Nothing in the code bounds a client that sends its body, or reads its stream, for ever.
Fairness ==
    /\ \A r \in Requests : WF_vars(HandlerRuns(r))
    /\ WF_vars(EndOfServe) /\ WF_vars(Exit) /\ WF_vars(CollectorRuns)

FairSpec == Spec /\ Fairness
------------------------------------------------------------------------------
FinalReport == Collector!Report
Written     == Collector!Written

\* A request is in the report log at most once, and it is there exactly if it has been answered to
\* its end, whichever of the handler, the tap and the drop of a body had to report it.
OneRecordEach ==
    \A r \in Requests :
        Cardinality({i \in DOMAIN sent : sent[i].id = r}) = IF stage[r] = "answered" THEN 1 ELSE 0

\* The written report is complete and agrees with the budget snapshot it carries, although the two
\* are gathered in different places: every answered request is in it, the costs of its records add
\* up to the committed spend, and the calls it misses are those of cancelled requests.
ReportMatchesBudget ==
    LET lost == {r \in Requests : stage[r] = "cancelled" /\ call_number[r] # 0}
    IN  Written =>
          /\ FinalReport.total_proxy_requests =
               Cardinality({r \in Requests : stage[r] = "answered"})
          /\ FinalReport.summary.observed_cost_usd = FinalReport.budget_snapshot.observed_cost_usd
          /\ FinalReport.billable_llm_calls + Cardinality(lost) =
               FinalReport.budget_snapshot.calls_reserved

\* The call cap bounds what reaches the provider, whatever the races and retries of the agents.
UpstreamWithinCap ==
    Cardinality({r \in Requests : decision[r] \in {"Forward", "malformed_tool_call_json"}})
      <= MaxLlmCalls

\* "Unknown or interrupted usage is reported as unavailable, never as zero cost": a record has a
\* cost only when its usage is metered, and it is the cost that has been charged for the request.
CostsAsCharged ==
    \A i \in DOMAIN sent :
        /\ sent[i].cost_usd = cost[sent[i].id]
        /\ sent[i].usage # "Metered" => sent[i].cost_usd = NoCost

\* A record blames the fault engine for what it has decided and for nothing else.  A forced error is
\* always recorded, budget_exceeded is what a refusal is called and nothing else is, and a corruption
\* is recorded only of a call it was decided for, always if the body is the proxy's own JSON error.
FaultsAsDecided ==
    \A i \in DOMAIN sent :
        LET decided == decision[sent[i].id]
            fault   == sent[i].fault_injected
        IN  /\ fault \in Scenarios => fault = decided
            /\ decided \in {"force_500", "force_429"} => fault = decided
            /\ fault = "budget_exceeded" <=>
                 sent[i].budget_decision \in {"CallCapExceeded", "CostCapExceeded"}
            /\ Mutates(sent[i].id) /\ sent[i].usage = "ResponseTooLarge" => fault = decided

\* The report keeps the order an agent has seen: a request made after the answer to another one
\* comes after it, so that the retry of a fault is scored as later than the fault.  "Answered" is
\* "recorded": an agent may take [DONE] for the end of a stream and go on before the tap has seen it
\* end.  A forced or corrupted answer is complete when it is recorded, so that no fault is
\* overtaken by its retry in this way.
RealTimeOrder ==
    \A i, j \in DOMAIN requests : requests[i].id \in before[requests[j].id].answered => i < j

\* main() in the eyes of the test runner: what is answered before the end of the drain, and nothing
\* later, is in the one report that is written before the process ends.  The file is what the
\* collector has gathered, the records what the handlers have sent; a file cut short counts as none.
Lifecycle == INSTANCE ProxyLifecycle WITH
    PartialFile <- NoFile,
    phase       <- IF server # "flushing" THEN server
                   ELSE IF report = "none" THEN "writing" ELSE "written",
    records     <- sent,
    file        <- IF Written THEN [i \in DOMAIN requests |-> Collector!Unnumbered(requests[i])]
                   ELSE NoFile

ImplementsLifecycle == Lifecycle!ServingSpec

\* If every client eventually finishes or goes away, a shutdown ends.
ClientsFinish == \A r \in Requests : []<>(stage[r] \notin {"reading", "streaming"})

ShutdownCompletes == ClientsFinish => (server = "draining" ~> server = "exited")
------------------------------------------------------------------------------
(* What the sources say of the program and the program does not do: see the findings. *)

\* "Entry point for each agent request: classify, admit, fault, execute, and report.": every call
\* that the budget has admitted is in the report.
EveryAdmittedCallReported ==
    Written => FinalReport.billable_llm_calls = FinalReport.budget_snapshot.calls_reserved

\* "A fault event is recovered only when a later request in the same session is a qualifying
\* success": the request that recovers a fault did not arrive before the faulted one.
RecoveryIsLater ==
    \A session \in Sessions :
        LET events == Collector!EventsOf(requests, session)
        IN  \A i \in Collector!RecoveredIndices(requests, events) :
              \E j \in events :
                /\ i < j
                /\ Collector!IsQualifyingRecovery(requests[i].fault_injected, requests[j])
                /\ requests[j].id \notin before[requests[i].id].arrived
==============================================================================
