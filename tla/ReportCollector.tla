--------------------------- MODULE ReportCollector ---------------------------
(***************************************************************************)
(* The reporting task of src/src/report.rs.  Request handlers send one     *)
(* record each through an unbounded FIFO channel and never wait; a single  *)
(* collector task numbers the records, stops at the first Shutdown event   *)
(* (or when every ReportHandle is gone), empties what is already in the    *)
(* channel without waiting, and writes the report.  Sends race with all of *)
(* this: one made after the last try_recv is lost.                         *)
(***************************************************************************)
EXTENDS Aggregation

CONSTANTS
    Records,      \* the records handlers may send
    Snapshots,    \* the budget snapshots that Shutdown events carry, one each
    NoSnapshot,   \* budget_snapshot: None
    MaxSent,      \* bound: how many records are sent
    MaxShutdowns  \* bound: how many times shutdown is requested

\* A RequestRecord without its sequence number, which the collector gives it.
Plain(record) ==
    /\ record = [field \in DOMAIN record |-> record[field]]
    /\ "sequence" \notin DOMAIN record

ASSUME RecordsAssumption == \A record \in Records : Plain(record)

VARIABLES
    channel,          \* the mpsc channel
    handles,          \* whether some ReportHandle is alive
    collector,        \* where run_collector is
    requests,         \* its Vec of records
    next_sequence,    \* its counter
    budget_snapshot,  \* its budget_snapshot
    report,           \* whether the report file has been written
    sent,             \* history: the records in the order of their sends
    shutdowns         \* history: the Shutdown events, each with the number of records sent before it

collectorVars == <<collector, requests, next_sequence, budget_snapshot, report>>
senderVars    == <<handles, sent, shutdowns>>
vars          == <<channel, collectorVars, senderVars>>

RequestEvent(record)    == [kind |-> "Request", record |-> record]
ShutdownEvent(snapshot) == [kind |-> "Shutdown", snapshot |-> snapshot]

Numbered(record, n) ==
    [field \in DOMAIN record \cup {"sequence"} |->
       IF field = "sequence" THEN n ELSE record[field]]

CollectorTypeOK ==
    /\ \A i \in DOMAIN channel : channel[i].kind \in {"Request", "Shutdown"}
    /\ handles \in {"alive", "dropped"}
    /\ collector \in {"receiving", "draining", "flushing", "done"}
    /\ next_sequence = Len(requests) + 1
    /\ budget_snapshot \in Snapshots \cup {NoSnapshot}
    /\ report \in {"none", "written", "write_failed"}

Init ==
    /\ channel = <<>>
    /\ handles = "alive"
    /\ collector = "receiving"
    /\ requests = <<>>
    /\ next_sequence = 1
    /\ budget_snapshot = NoSnapshot
    /\ report = "none"
    /\ sent = <<>>
    /\ shutdowns = <<>>
------------------------------------------------------------------------------
(* Plausible bugs of the collector, which the properties are run against. *)

\* a bounded channel that is full drops the event
SendToFullChannel(event) ==
    channel' = IF collector = "done" \/ Len(channel) > 1 THEN channel ELSE Append(channel, event)

\* the drain loop numbers its records from one again
CollectUnnumbered ==
    /\ collector \in {"receiving", "draining"}
    /\ channel # <<>> /\ Head(channel).kind = "Request"
    /\ requests' = Append(requests, Numbered(Head(channel).record, next_sequence))
    /\ next_sequence' = IF collector = "draining" THEN next_sequence ELSE next_sequence + 1
    /\ channel' = Tail(channel)
    /\ UNCHANGED <<collector, budget_snapshot, report, senderVars>>

\* the collector writes at once, without emptying the channel
ShutdownWithoutDrain ==
    /\ collector = "receiving"
    /\ channel # <<>> /\ Head(channel).kind = "Shutdown"
    /\ budget_snapshot' = Head(channel).snapshot
    /\ collector' = "flushing"
    /\ channel' = Tail(channel)
    /\ UNCHANGED <<requests, next_sequence, report, senderVars>>

\* a Shutdown met by the drain loop overwrites the snapshot
DrainTakesSnapshot ==
    /\ collector = "draining"
    /\ channel # <<>> /\ Head(channel).kind = "Shutdown"
    /\ budget_snapshot' = Head(channel).snapshot
    /\ channel' = Tail(channel)
    /\ UNCHANGED <<collector, requests, next_sequence, report, senderVars>>

\* the drain loop waits for the next event, as recv().await does
DrainUntilClosed ==
    /\ collector = "draining"
    /\ channel = <<>>
    /\ handles = "dropped"
    /\ collector' = "flushing"
    /\ UNCHANGED <<channel, requests, next_sequence, budget_snapshot, report, senderVars>>
------------------------------------------------------------------------------
\* `let _ = tx.send(event)`: it never blocks, and fails silently once the receiver is gone.
Send(event) ==
    channel' = IF collector = "done" THEN channel ELSE Append(channel, event)

\* ReportHandle::record
Record(record) ==
    /\ handles = "alive"
    /\ Send(RequestEvent(record))
    /\ sent' = Append(sent, record)
    /\ UNCHANGED <<collectorVars, handles, shutdowns>>

\* ReportHandle::request_shutdown_with_metadata
RequestShutdown(snapshot) ==
    /\ handles = "alive"
    /\ Send(ShutdownEvent(snapshot))
    /\ shutdowns' = Append(shutdowns, [snapshot |-> snapshot, after |-> Len(sent)])
    /\ UNCHANGED <<collectorVars, handles, sent>>

\* The last clone of the handle is dropped.
DropHandles ==
    /\ handles = "alive"
    /\ handles' = "dropped"
    /\ UNCHANGED <<channel, collectorVars, sent, shutdowns>>
------------------------------------------------------------------------------
\* recv() or try_recv() returns a Request: number it and keep it.
CollectRecord ==
    /\ collector \in {"receiving", "draining"}
    /\ channel # <<>> /\ Head(channel).kind = "Request"
    /\ requests' = Append(requests, Numbered(Head(channel).record, next_sequence))
    /\ next_sequence' = next_sequence + 1
    /\ channel' = Tail(channel)
    /\ UNCHANGED <<collector, budget_snapshot, report, senderVars>>

\* recv() returns a Shutdown: keep its snapshot and leave the loop.
RecvShutdown ==
    /\ collector = "receiving"
    /\ channel # <<>> /\ Head(channel).kind = "Shutdown"
    /\ budget_snapshot' = Head(channel).snapshot
    /\ collector' = "draining"
    /\ channel' = Tail(channel)
    /\ UNCHANGED <<requests, next_sequence, report, senderVars>>

\* recv() returns None: the channel is empty and no handle is left.
RecvClosed ==
    /\ collector = "receiving"
    /\ channel = <<>> /\ handles = "dropped"
    /\ collector' = "draining"
    /\ UNCHANGED <<channel, requests, next_sequence, budget_snapshot, report, senderVars>>

\* try_recv() returns another Shutdown, which is passed over.
DrainShutdown ==
    /\ collector = "draining"
    /\ channel # <<>> /\ Head(channel).kind = "Shutdown"
    /\ channel' = Tail(channel)
    /\ UNCHANGED <<collectorVars, senderVars>>

\* try_recv() returns Err: no further record is taken.
DrainEmpty ==
    /\ collector = "draining"
    /\ channel = <<>>
    /\ collector' = "flushing"
    /\ UNCHANGED <<channel, requests, next_sequence, budget_snapshot, report, senderVars>>

\* The ReliabilityReport: nothing it is built from changes once the collector is flushing.
Report ==
    [total_proxy_requests |-> Len(requests),
     billable_llm_calls   |-> Count(requests, LAMBDA record : record.call_number # 0),
     faults_injected      |-> Count(requests, IsFaulted),
     budget_snapshot      |-> budget_snapshot,
     summary              |-> Summarize(requests),
     sessions             |-> AggregateSessions(requests).sessions,
     requests             |-> requests]

\* Write the report; a failure to write is logged and nothing more.  The task
\* ends and drops the receiver.
Flush ==
    /\ collector = "flushing"
    /\ report' \in {"written", "write_failed"}
    /\ collector' = "done"
    /\ UNCHANGED <<channel, requests, next_sequence, budget_snapshot, senderVars>>

CollectorStep ==
    CollectRecord \/ RecvShutdown \/ RecvClosed \/ DrainShutdown \/ DrainEmpty \/ Flush

Next ==
    \/ Len(sent) < MaxSent /\ \E record \in Records : Record(record)
    \/ /\ Len(shutdowns) < MaxShutdowns
       /\ \E snapshot \in Snapshots \ {shutdowns[i].snapshot : i \in DOMAIN shutdowns} :
            RequestShutdown(snapshot)
    \/ DropHandles
    \/ CollectorStep

\* The runtime keeps polling a task that is ready.
Spec == Init /\ [][Next]_vars /\ WF_vars(CollectorStep)
------------------------------------------------------------------------------
Written == report = "written"

Unnumbered(record) == [field \in DOMAIN record \ {"sequence"} |-> record[field]]

\* Until the last try_recv no record is lost, duplicated or reordered: what has been collected
\* followed by what is still in the channel is what the handlers sent.
Conserved ==
    LET pending == {i \in DOMAIN channel : channel[i].kind = "Request"}
        Rank(i) == Len(requests) + Cardinality({j \in pending : j <= i})
    IN  collector \in {"receiving", "draining"} =>
          /\ Len(sent) = Len(requests) + Cardinality(pending)
          /\ \A i \in DOMAIN requests : sent[i] = Unnumbered(requests[i])
          /\ \A i \in pending : sent[Rank(i)] = channel[i].record

\* The report numbers its records 1, 2, ... in the order in which they were sent, across the
\* boundary between the receive loop and the drain loop.
SequenceDense ==
    /\ \A i \in DOMAIN requests : requests[i].sequence = i
    /\ IsPrefix([i \in DOMAIN requests |-> Unnumbered(requests[i])], sent)

\* The written report carries the snapshot of the first Shutdown, however many follow, and every
\* record that was sent before it.
FirstShutdownWins ==
    Written /\ shutdowns # <<>> =>
        /\ Report.budget_snapshot = shutdowns[1].snapshot
        /\ Report.total_proxy_requests >= shutdowns[1].after

\* When the collector starts to write, nothing that has been sent is missing: only a record
\* sent after the last try_recv can be lost.
NothingLeftBehind ==
    [][collector # "flushing" /\ collector' = "flushing" => Len(requests) = Len(sent)]_vars

\* The totals of the report agree with each other, although they are computed by separate passes:
\* the fault counts, and the requests of the sessions plus the unattributed ones.
TotalsAgree ==
    Written =>
        /\ Report.faults_injected = Report.summary.fault_events
        /\ Report.summary.recovery_events <= Report.summary.fault_events
        /\ Report.total_proxy_requests =
             Total([k \in DOMAIN Report.sessions |-> Report.sessions[k].request_count])
               + Report.summary.unattributed_requests

SummaryOf(session) == SummarizeSession(requests, session)

\* A record changes the score of its own session only: a success in one session never recovers
\* a fault of another one, nor does an unattributed success.
SessionsIsolated ==
    [][requests' # requests =>
         \A session \in {record.session_id : record \in Records} \ {NoSession} :
           SummaryOf(session)' # SummaryOf(session) => Last(requests').session_id = session]_vars

\* The positions of the faults that summarize_session counts as recovered.
Recovered(session) == RecoveredIndices(requests, EventsOf(requests, session))

\* A recovery is never taken back: later traffic may add a fault, but each fault that has been
\* recovered stays recovered.
RecoveryKept ==
    [][requests' # requests =>
         \A session \in {record.session_id : record \in Records} \ {NoSession} :
           Recovered(session) \subseteq Recovered(session)']_vars

\* In the run MaxSent sees to it.
SendingCeases == <>[][sent' = sent]_vars

\* A shutdown request ends in a finished collector, wherever the Shutdown stands among the records
\* and although the handles stay alive, provided that the handlers cease to send: the drain loop
\* goes on until it finds the channel empty.  main() grants that, for it requests the shutdown when
\* serve has returned and no handler is left; the other senders of this module need not.
ShutdownFlushes == SendingCeases => (shutdowns # <<>> ~> collector = "done")
==============================================================================
