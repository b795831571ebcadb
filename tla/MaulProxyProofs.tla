--------------------------- MODULE MaulProxyProofs ---------------------------
(***************************************************************************)
(* Proofs about MaulProxy, for any finite set of requests, any inputs,     *)
(* scenarios and limits.                                                   *)
(***************************************************************************)
EXTENDS MaulProxy, Foundations

\* What ReportCollectorProofs shows of the collector it shows of the one that is part of the proxy:
\* its lemmas hold for any set of records and of snapshots.
CP == INSTANCE ReportCollectorProofs WITH
    Records <- {}, Snapshots <- {}, MaxSent <- 0, MaxShutdowns <- 0

Fields == {"id", "status", "fault_injected", "call_number", "budget_decision", "usage",
           "cost_usd", "session_id"}

Statuses == {0, 400, 413, 422, 429, 500, 502} \cup UpstreamStatuses

Usages ==
    {"None", "Metered", "Unavailable", "UpstreamError", "ResponseTooLarge", "StreamInterrupted"}

RecordType ==
    [id              : Requests,
     status          : Statuses,
     fault_injected  : Scenarios \cup {NoFault, "budget_exceeded"},
     call_number     : 0..MaxLlmCalls,
     budget_decision : Collector!Decisions,
     usage           : Usages,
     cost_usd        : Costs \cup {NoCost},
     session_id      : Sessions \cup {NoSession}]

SnapshotType == [calls_reserved : 0..MaxLlmCalls, observed_cost_usd : 0..MaxU64]

Answered == {r \in Requests : stage[r] = "answered"}

Typed ==
    /\ Ledger!LedgerTypeOK
    /\ stage \in [Requests -> Stages]
    /\ record \in [Requests -> RecordType]
    /\ input \in [Requests -> Inputs \cup {NoInput}]
    /\ decision \in [Requests -> Decisions]
    /\ before \in [Requests -> [arrived : SUBSET Requests, answered : SUBSET Requests]]
    /\ server \in {"serving", "draining", "flushing", "exited"}

------------------------------------------------------------------------------
(* The ledger: its counters count what the requests hold. *)

Permitted == {r \in Requests : call_number[r] # 0}

\* A cost of c is c units; the units of all requests are as many as their costs add up to.
Units(c) == {u \in Requests \X (1..MaxU64) : c[u[1]] # NoCost /\ u[2] <= c[u[1]]}

Capped(n) == IF n > MaxU64 THEN MaxU64 ELSE n

LInv ==
    /\ Ledger!LedgerTypeOK
    /\ \A r \in Requests : verdict[r] = "Allowed" <=> call_number[r] # 0
    /\ calls_reserved = Cardinality(Permitted)
    /\ observed_cost_usd = Capped(Cardinality(Units(cost)))

\* The units are finitely many, and a request that commits a cost adds as many.
LEMMA UnitsFinite == \A c : IsFiniteSet(Units(c)) /\ Cardinality(Units(c)) \in Nat
<1> SUFFICES ASSUME NEW c PROVE IsFiniteSet(Units(c)) /\ Cardinality(Units(c)) \in Nat
  OBVIOUS
<1>1. IsFiniteSet(Requests \X (1..MaxU64))
  BY BudgetAssumption, OneTo, FS_Product
<1>2. Units(c) \subseteq Requests \X (1..MaxU64)
  BY DEF Units
<1> QED BY <1>1, <1>2, FS_Subset, FS_CardinalityType

\* Setting the cost of a request that has none adds as many units as the cost.
LEMMA UnitsAdd ==
    ASSUME NEW c \in [Requests -> Costs \cup {NoCost}], NEW r \in Requests, c[r] = NoCost,
           NEW x \in Costs
    PROVE  Cardinality(Units([c EXCEPT ![r] = x])) = Cardinality(Units(c)) + x
<1> DEFINE new == [c EXCEPT ![r] = x]
           A   == {r} \X (1..x)
<1>1. x \in 0..MaxU64 /\ MaxU64 \in Nat /\ NoCost \notin Nat
  BY BudgetAssumption
<1>2. Units(new) = Units(c) \cup A /\ Units(c) \cap A = {}
  BY <1>1 DEF Units
<1>3. IsFiniteSet(A) /\ Cardinality(A) = x
  <2>1. IsFiniteSet({r}) /\ Cardinality({r}) = 1
    BY FS_Singleton
  <2>2. IsFiniteSet(1..x) /\ Cardinality(1..x) = x
    BY <1>1, OneTo
  <2>3. IsFiniteSet(A) /\ Cardinality(A) = 1 * x
    <3> DEFINE B == 1..x
    <3> HIDE DEF B
    <3>1. /\ IsFiniteSet({r} \X B)
          /\ Cardinality({r} \X B) = Cardinality({r}) * Cardinality(B)
      BY <2>1, <2>2, FS_Product DEF B
    <3> QED BY <2>1, <2>2, <3>1 DEF B
  <2> QED BY <1>1, <2>3
<1> HIDE DEF A, new
<1>4. Cardinality(Units(c) \cup A) =
        Cardinality(Units(c)) + Cardinality(A) - Cardinality(Units(c) \cap A)
  BY <1>3, UnitsFinite, FS_Union
<1>5. Cardinality(Units(c) \cap A) = 0
  BY <1>2, FS_EmptySet
<1>6. Cardinality(Units(c)) \in Nat
  BY UnitsFinite
<1>7. Cardinality(Units(new)) = Cardinality(Units(c)) + x
  BY <1>1, <1>2, <1>3, <1>4, <1>5, <1>6
<1> QED BY <1>7 DEF new

\* A step of the ledger keeps its counters exact.
LEMMA LedgerStep == LInv /\ [Ledger!Next]_ledgerVars => LInv'
<1> SUFFICES ASSUME LInv, [Ledger!Next]_ledgerVars
             PROVE  LInv'
  OBVIOUS
<1>a. /\ MaxU64 \in Nat /\ MaxLlmCalls \in 0..MaxU64 /\ Costs \subseteq 0..MaxU64
      /\ NoCost \notin Nat /\ IsFiniteSet(Requests)
  BY BudgetAssumption
<1>b. IsFiniteSet(Permitted) /\ Cardinality(Permitted) \in Nat
  <2>1. Permitted \subseteq Requests
    BY DEF Permitted
  <2> QED BY <1>a, <2>1, FS_Subset, FS_CardinalityType
<1>1. ASSUME NEW r \in Requests, Ledger!CheckCost(r)
      PROVE  LInv'
  <2>1. /\ UNCHANGED <<calls_reserved, observed_cost_usd, call_number, cost>>
        /\ verdict' \in [Requests -> Ledger!Verdicts]
        /\ \A q \in Requests : verdict'[q] = "Allowed" <=> verdict[q] = "Allowed"
    BY <1>1 DEF LInv, Ledger!CheckCost, Ledger!LedgerTypeOK, Ledger!Verdicts
  <2> QED BY <2>1 DEF LInv, Ledger!LedgerTypeOK, Permitted
<1>2. ASSUME NEW r \in Requests, Ledger!Reserve(r)
      PROVE  LInv'
  <2>1. /\ UNCHANGED <<observed_cost_usd, cost>>
        /\ calls_reserved' = calls_reserved + 1 /\ calls_reserved' \in 0..MaxLlmCalls
        /\ calls_reserved' # 0
        /\ verdict' \in [Requests -> Ledger!Verdicts]
        /\ call_number' \in [Requests -> 0..MaxLlmCalls]
        /\ verdict[r] # "Allowed" /\ verdict'[r] = "Allowed" /\ call_number'[r] = calls_reserved'
        /\ \A q \in Requests \ {r} : verdict'[q] = verdict[q] /\ call_number'[q] = call_number[q]
    BY <1>a, <1>2 DEF LInv, Ledger!Reserve, Ledger!LedgerTypeOK, Ledger!Verdicts
  <2>2. Permitted' = Permitted \cup {r} /\ r \notin Permitted
    BY <2>1 DEF LInv, Permitted
  <2>3. Cardinality(Permitted') = Cardinality(Permitted) + 1
    BY <1>b, <2>2, FS_AddElement
  <2>4. \A q \in Requests : verdict'[q] = "Allowed" <=> call_number'[q] # 0
    BY <2>1 DEF LInv
  <2>5. Ledger!LedgerTypeOK'
    BY <2>1 DEF LInv, Ledger!LedgerTypeOK
  <2> QED BY <2>1, <2>3, <2>4, <2>5 DEF LInv
<1>3. ASSUME NEW r \in Requests, Ledger!RefuseCall(r)
      PROVE  LInv'
  <2>1. /\ UNCHANGED <<calls_reserved, observed_cost_usd, call_number, cost>>
        /\ verdict' \in [Requests -> Ledger!Verdicts]
        /\ \A q \in Requests : verdict'[q] = "Allowed" <=> verdict[q] = "Allowed"
    BY <1>3 DEF LInv, Ledger!RefuseCall, Ledger!LedgerTypeOK, Ledger!Verdicts
  <2> QED BY <2>1 DEF LInv, Ledger!LedgerTypeOK, Permitted
<1>4. ASSUME NEW r \in Requests, NEW c \in Costs, Ledger!CommitCost(r, c)
      PROVE  LInv'
  <2>1. /\ UNCHANGED <<calls_reserved, verdict, call_number>>
        /\ cost[r] = NoCost /\ cost' = [cost EXCEPT ![r] = c]
        /\ cost \in [Requests -> Costs \cup {NoCost}]
        /\ cost' \in [Requests -> Costs \cup {NoCost}]
        /\ observed_cost_usd' = SaturatingAdd(observed_cost_usd, c)
    BY <1>4 DEF LInv, Ledger!CommitCost, Ledger!LedgerTypeOK, SaturatingAdd, Ledger!SaturatingAdd
  <2>2. Cardinality(Units(cost')) = Cardinality(Units(cost)) + c
    BY <2>1, UnitsAdd
  <2>3. observed_cost_usd' = Capped(Cardinality(Units(cost)) + c)
    BY <1>a, <2>1, UnitsFinite DEF LInv, Capped, SaturatingAdd
  <2>4. observed_cost_usd' \in 0..MaxU64
    BY <1>a, <2>3, UnitsFinite DEF Capped
  <2>5. Units(cost)' = Units(cost')
    BY DEF Units
  <2> QED BY <2>1, <2>2, <2>3, <2>4, <2>5 DEF LInv, Ledger!LedgerTypeOK, Permitted
<1>5. CASE UNCHANGED ledgerVars
  BY <1>5 DEF LInv, ledgerVars, Ledger!LedgerTypeOK, Permitted, Units
<1> QED BY <1>1, <1>2, <1>3, <1>4, <1>5 DEF Ledger!Next

------------------------------------------------------------------------------
(* The invariant. *)

\* The record of r agrees with the ledger, and its cost comes with the last step before it is sent.
RequestInv(r) ==
    /\ record[r].id = r
    /\ record[r].call_number = call_number[r]
    /\ record[r].cost_usd = cost[r]
    /\ cost[r] # NoCost => record[r].usage = "Metered" /\ stage[r] \in {"reporting", "answered"}
    /\ stage[r] = "idle" => verdict[r] = "unseen"
    /\ stage[r] # "idle" => input[r] \in Inputs
    /\ stage[r] = "admitted" \/ decision[r] # "none" => verdict[r] = "Allowed"

\* The log holds the record of every answered request once.
SentInv ==
    /\ \A i \in DOMAIN sent : stage[sent[i].id] = "answered" /\ sent[i] = record[sent[i].id]
    /\ \A i, j \in DOMAIN sent : sent[i].id = sent[j].id => i = j
    /\ \A r \in Answered : \E i \in DOMAIN sent : sent[i].id = r
    /\ Len(sent) = Cardinality(Answered)

\* What was answered before a request arrived was logged before it.
BeforeInv ==
    /\ \A r \in Requests : before[r].answered \subseteq Answered
    /\ \A i, j \in DOMAIN sent : sent[i].id \in before[sent[j].id].answered => i < j

\* Once the server has stopped nothing is under way and nothing changes any more.
ServerInv ==
    /\ handles = "alive"
    /\ server \in {"serving", "draining"} => shutdowns = <<>>
    /\ server \in {"flushing", "exited"} =>
         /\ shutdowns # <<>>
         /\ shutdowns[1] = [snapshot |-> Snapshot, after |-> Len(sent)]
         /\ \A r \in Requests : stage[r] \in {"idle"} \cup Over
    /\ collector = "done" <=> report # "none"
    /\ server = "exited" => collector = "done"

IInv ==
    /\ Typed
    /\ LInv
    /\ CP!CInv(RecordType, SnapshotType)
    /\ \A r \in Requests : RequestInv(r)
    /\ SentInv
    /\ BeforeInv
    /\ ServerInv

\* What the collector's invariant says of the types of its variables.
LEMMA LogTypes ==
    ASSUME CP!CInv(RecordType, SnapshotType)
    PROVE  /\ sent \in Seq(RecordType) /\ Len(sent) \in Nat /\ DOMAIN sent = 1..Len(sent)
           /\ \A i \in DOMAIN sent : sent[i] \in RecordType /\ sent[i].id \in Requests
<1>1. sent \in Seq(RecordType)
  BY DEF CP!CInv, CP!Typed
<1>2. Len(sent) \in Nat /\ DOMAIN sent = 1..Len(sent) /\ \A i \in DOMAIN sent : sent[i] \in RecordType
  BY <1>1
<1>3. \A rec \in RecordType : rec.id \in Requests
  BY DEF RecordType
<1> QED BY <1>1, <1>2, <1>3
------------------------------------------------------------------------------
(* The steps of a handler between its arrival and its report. *)

\* What a handler may write into its record.
Fits(changes) ==
    /\ DOMAIN changes \subseteq Fields \ {"id"}
    /\ "status" \in DOMAIN changes => changes.status \in Statuses
    /\ "fault_injected" \in DOMAIN changes =>
         changes.fault_injected \in Scenarios \cup {NoFault, "budget_exceeded"}
    /\ "call_number" \in DOMAIN changes => changes.call_number \in 0..MaxLlmCalls
    /\ "budget_decision" \in DOMAIN changes => changes.budget_decision \in Collector!Decisions
    /\ "usage" \in DOMAIN changes => changes.usage \in Usages
    /\ "cost_usd" \in DOMAIN changes => changes.cost_usd \in Costs \cup {NoCost}
    /\ "session_id" \in DOMAIN changes => changes.session_id \in Sessions \cup {NoSession}

\* A record that is refined keeps its type and its other fields.
LEMMA UpdatedFits ==
    ASSUME NEW rec \in RecordType, NEW changes, Fits(changes)
    PROVE  /\ Updated(rec, changes) \in RecordType
           /\ \A field \in Fields : Updated(rec, changes)[field] =
                IF field \in DOMAIN changes THEN changes[field] ELSE rec[field]
<1> DEFINE new == Updated(rec, changes)
<1>1. DOMAIN rec = Fields
  BY DEF RecordType, Fields
<1>2. DOMAIN new = Fields /\ new = [field \in Fields |-> new[field]]
      /\ \A field \in Fields : new[field] =
                IF field \in DOMAIN changes THEN changes[field] ELSE rec[field]
  BY <1>1 DEF Updated
<1>3. /\ rec.id \in Requests /\ rec.status \in Statuses
      /\ rec.fault_injected \in Scenarios \cup {NoFault, "budget_exceeded"}
      /\ rec.call_number \in 0..MaxLlmCalls /\ rec.budget_decision \in Collector!Decisions
      /\ rec.usage \in Usages /\ rec.cost_usd \in Costs \cup {NoCost}
      /\ rec.session_id \in Sessions \cup {NoSession}
  BY DEF RecordType
<1> HIDE DEF new
<1>4. /\ new.id \in Requests /\ new.status \in Statuses
      /\ new.fault_injected \in Scenarios \cup {NoFault, "budget_exceeded"}
      /\ new.call_number \in 0..MaxLlmCalls /\ new.budget_decision \in Collector!Decisions
      /\ new.usage \in Usages /\ new.cost_usd \in Costs \cup {NoCost}
      /\ new.session_id \in Sessions \cup {NoSession}
  BY <1>2, <1>3 DEF Fits, Fields
<1>5. new \in RecordType
  BY <1>2, <1>4 DEF RecordType, Fields
<1> QED BY <1>2, <1>5 DEF new

\* The ledger does something for r, or nothing.
LedgerFrame(r) ==
    /\ [Ledger!Next]_ledgerVars
    /\ \A q \in Requests \ {r} :
         verdict'[q] = verdict[q] /\ call_number'[q] = call_number[q] /\ cost'[q] = cost[q]

\* The handler of r, which is neither new nor at its end, goes on at `place`.
Moves(r, place, changes) ==
    /\ stage[r] \notin {"idle", "reporting"} \cup Over
    /\ place \in Stages \ {"idle", "answered"}
    /\ Continues(r, place, changes)
    /\ Fits(changes)
    /\ \E d \in Decisions : decision' = [decision EXCEPT ![r] = d]
    /\ LedgerFrame(r)
    /\ UNCHANGED <<input, before, server, reportVars>>
    /\ call_number'[r] = IF "call_number" \in DOMAIN changes THEN changes.call_number
                         ELSE call_number[r]
    /\ cost'[r] = IF "cost_usd" \in DOMAIN changes THEN changes.cost_usd ELSE cost[r]
    /\ cost'[r] # NoCost =>
         place = "reporting" /\ "usage" \in DOMAIN changes /\ changes.usage = "Metered"
    /\ place = "admitted" \/ decision'[r] # "none" => verdict'[r] = "Allowed"

\* A step that moves one task within its serving, and leaves log, collector and budget alone.
LEMMA MoveStep ==
    ASSUME IInv, NEW r \in Requests, NEW place, NEW changes, Moves(r, place, changes)
    PROVE  IInv'
<1>1. /\ stage' = [stage EXCEPT ![r] = place] /\ place \in Stages \ {"idle", "answered"}
      /\ stage[r] \notin {"idle", "reporting", "answered", "cancelled"}
      /\ record' = [record EXCEPT ![r] = Updated(record[r], changes)]
      /\ UNCHANGED <<input, before, server, reportVars>>
      /\ LedgerFrame(r)
  BY DEF Moves, Continues, GoTo, Over, IInv, Typed
<1>2. UNCHANGED <<channel, handles, collector, requests, next_sequence, budget_snapshot, report,
                  sent, shutdowns>>
  BY <1>1 DEF reportVars
<1>3. /\ record[r] \in RecordType
      /\ Updated(record[r], changes) \in RecordType
      /\ \A field \in Fields : Updated(record[r], changes)[field] =
                IF field \in DOMAIN changes THEN changes[field] ELSE record[r][field]
  <2>1. record[r] \in RecordType
    BY DEF IInv, Typed
  <2> QED BY <2>1, UpdatedFits DEF Moves
<1>4. LInv'
  BY <1>1, LedgerStep DEF IInv, LedgerFrame
<1>5. Typed'
  <2>1. stage' \in [Requests -> Stages] /\ record' \in [Requests -> RecordType]
    BY <1>1, <1>3 DEF IInv, Typed
  <2>2. decision' \in [Requests -> Decisions]
    BY DEF IInv, Typed, Moves
  <2> QED BY <1>1, <1>4, <2>1, <2>2 DEF IInv, Typed, LInv
<1>6. CP!CInv(RecordType, SnapshotType)'
  <2>1. UNCHANGED CP!vars
    BY <1>2 DEF CP!vars, CP!collectorVars, CP!senderVars
  <2> QED BY <2>1, CP!StutterStep DEF IInv
<1>7. \A q \in Requests \ {r} :
        /\ stage'[q] = stage[q] /\ record'[q] = record[q] /\ decision'[q] = decision[q]
        /\ input'[q] = input[q] /\ verdict'[q] = verdict[q]
        /\ call_number'[q] = call_number[q] /\ cost'[q] = cost[q]
  BY <1>1 DEF IInv, Typed, Moves, LedgerFrame
<1>8. ASSUME NEW q \in Requests PROVE RequestInv(q)'
  <2>1. CASE q # r
    BY <1>7, <2>1 DEF IInv, RequestInv
  <2>2. CASE q = r
    <3>1. /\ stage'[r] = place /\ record'[r] = Updated(record[r], changes) /\ input'[r] = input[r]
          /\ RequestInv(r)
      BY <1>1 DEF IInv, Typed
    <3>2. record'[r].id = r
      BY <1>3, <3>1 DEF Moves, Fits, Fields, RequestInv
    <3>3. record'[r].call_number = call_number'[r] /\ record'[r].cost_usd = cost'[r]
      BY <1>3, <3>1 DEF Moves, Fields, RequestInv
    <3>4. cost'[r] # NoCost => record'[r].usage = "Metered" /\ stage'[r] = "reporting"
      BY <1>3, <3>1 DEF Moves, Fields
    <3>5. input'[r] \in Inputs
      BY <1>1, <3>1 DEF RequestInv
    <3>6. stage'[r] = "admitted" \/ decision'[r] # "none" => verdict'[r] = "Allowed"
      BY <3>1 DEF Moves
    <3>7. stage'[r] # "idle"
      BY <1>1, <3>1
    <3> QED BY <2>2, <3>2, <3>3, <3>4, <3>5, <3>6, <3>7 DEF RequestInv
  <2> QED BY <2>1, <2>2
<1>9. Answered' = Answered /\ r \notin Answered
  BY <1>1, <1>7 DEF Answered, IInv, Typed
<1>10. SentInv'
  <2>1. \A i \in DOMAIN sent : sent[i].id \in Answered
    BY LogTypes DEF IInv, SentInv, Answered
  <2>2. \A i \in DOMAIN sent : sent[i].id \in Requests \ {r}
    BY <1>9, <2>1, LogTypes DEF IInv
  <2> QED BY <1>2, <1>7, <1>9, <2>2 DEF IInv, SentInv
<1>11. BeforeInv'
  BY <1>1, <1>2, <1>9 DEF IInv, BeforeInv
<1>12. ServerInv'
  <2>1. server \notin {"flushing", "exited"}
    BY <1>1 DEF IInv, ServerInv, Over
  <2> QED BY <1>1, <1>2, <2>1 DEF IInv, ServerInv
<1> QED BY <1>4, <1>5, <1>6, <1>8, <1>10, <1>11, <1>12 DEF IInv

\* A step that leaves the budget and the decision alone.
LEMMA QuietMove ==
    ASSUME IInv, NEW r \in Requests, NEW place \in Stages \ {"idle", "answered", "admitted"},
           NEW changes, Continues(r, place, changes), Fits(changes),
           "call_number" \notin DOMAIN changes, "cost_usd" \notin DOMAIN changes,
           stage[r] \notin {"idle", "reporting"} \cup Over,
           UNCHANGED <<input, decision, before, server, ledgerVars, reportVars>>
    PROVE  IInv'
<1>1. UNCHANGED <<input, decision, before, server, reportVars, verdict, call_number, cost>>
      /\ UNCHANGED ledgerVars
  BY DEF ledgerVars
<1>2. \E d \in Decisions : decision' = [decision EXCEPT ![r] = d]
  <2>1. decision[r] \in Decisions /\ decision' = [decision EXCEPT ![r] = decision[r]]
    BY <1>1 DEF IInv, Typed
  <2> QED BY <2>1
<1>3. LedgerFrame(r)
  BY <1>1 DEF LedgerFrame
<1>4. RequestInv(r)
  BY DEF IInv
<1>5. cost'[r] = NoCost
  BY <1>1, <1>4 DEF RequestInv, Over
<1>6. decision'[r] # "none" => verdict'[r] = "Allowed"
  BY <1>1, <1>4 DEF RequestInv
<1>7. cost'[r] = cost[r] /\ call_number'[r] = call_number[r]
  BY <1>1
<1>8. Moves(r, place, changes)
  BY <1>1, <1>2, <1>3, <1>5, <1>6, <1>7 DEF Moves
<1> QED BY <1>8, MoveStep

\* A step that does not touch the record is one that changes none of its fields.
LEMMA NoChange ==
    ASSUME IInv, NEW r \in Requests, NEW place, GoTo(r, place), UNCHANGED record
    PROVE  Continues(r, place, <<>>) /\ Fits(<<>>) /\ DOMAIN <<>> = {}
<1>1. DOMAIN <<>> = {}
  OBVIOUS
<1>2. Fits(<<>>)
  BY <1>1 DEF Fits
<1>3. record[r] \in RecordType /\ record \in [Requests -> RecordType]
  BY DEF IInv, Typed
<1>4. Updated(record[r], <<>>) = record[r]
  BY <1>1, <1>3 DEF Updated, RecordType
<1>5. record' = [record EXCEPT ![r] = Updated(record[r], <<>>)]
  BY <1>3, <1>4
<1> QED BY <1>1, <1>2, <1>5 DEF Continues

\* The session that a request is attributed to is a session, or none.
LEMMA SessionTyped ==
    ASSUME NEW i \in Inputs
    PROVE  FromHeaders(i) \in Sessions \cup {NoSession} /\ FromHeadersAndBody(i) \in Sessions \cup {NoSession}
BY ProxyAssumption DEF InputOK, FromHeaders, FromBody, FromHeadersAndBody

\* Reading the body of a call that is not billable.
LEMMA ReadForeignBodyStep ==
    ASSUME IInv, NEW r \in Requests, ReadForeignBody(r) PROVE IInv'
<1> DEFINE session == FromHeaders(input[r])
<1>1. session \in Sessions \cup {NoSession}
  <2>1. input[r] \in Inputs
    BY DEF IInv, RequestInv, ReadForeignBody
  <2> QED BY <2>1, SessionTyped
<1>2. /\ stage[r] = "reading"
      /\ UNCHANGED <<input, decision, before, server, ledgerVars, reportVars>>
  BY DEF ReadForeignBody
<1> HIDE DEF session
<1>3. CASE Continues(r, "reporting", [session_id |-> session, status |-> 413])
  <2>1. Fits([session_id |-> session, status |-> 413])
    BY <1>1 DEF Fits, Fields, Statuses
  <2> QED BY <1>2, <1>3, <2>1, QuietMove DEF Stages, Over, Awaiting
<1>4. CASE Continues(r, "upstream", [session_id |-> session])
  <2>1. Fits([session_id |-> session])
    BY <1>1 DEF Fits, Fields
  <2> QED BY <1>2, <1>4, <2>1, QuietMove DEF Stages, Over, Awaiting
<1> QED BY <1>3, <1>4 DEF ReadForeignBody, Reports, session

\* Relaying such a call.
LEMMA RelayForeignStep ==
    ASSUME IInv, NEW r \in Requests, RelayForeign(r) PROVE IInv'
<1>1. PICK status \in UpstreamStatuses \cup {502} : Continues(r, "reporting", [status |-> status])
  BY DEF RelayForeign, Reports
<1>2. /\ stage[r] = "upstream"
      /\ UNCHANGED <<input, decision, before, server, ledgerVars, reportVars>>
  BY DEF RelayForeign
<1>3. Fits([status |-> status])
  BY DEF Fits, Fields, Statuses
<1> QED BY <1>1, <1>2, <1>3, QuietMove DEF Stages, Over, Awaiting

\* Refusing a body: the record is ready, and nothing is reserved.
LEMMA RejectBodyStep ==
    ASSUME IInv, NEW r \in Requests, RejectBody(r) PROVE IInv'
<1> DEFINE session == FromHeaders(input[r])
           status  == IF input[r].body = "too_large" THEN 413 ELSE 400
           changes == [status          |-> status,
                       budget_decision |-> "InvalidRequest",
                       session_id      |-> session]
<1>1. session \in Sessions \cup {NoSession} /\ status \in Statuses
  <2>1. input[r] \in Inputs
    BY DEF IInv, RequestInv, RejectBody
  <2> QED BY <2>1, SessionTyped DEF Statuses
<1>2. /\ stage[r] = "reading" /\ Continues(r, "reporting", changes)
      /\ UNCHANGED <<input, decision, before, server, ledgerVars, reportVars>>
  BY DEF RejectBody, Reports
<1> HIDE DEF session, status
<1>3. Fits(changes)
  BY <1>1 DEF Fits, Fields, Collector!Decisions
<1> QED BY <1>2, <1>3, QuietMove DEF Stages, Over, Awaiting

\* Reading a billable body.
LEMMA AcceptBodyStep ==
    ASSUME IInv, NEW r \in Requests, AcceptBody(r) PROVE IInv'
<1> DEFINE session == FromHeadersAndBody(input[r])
           refusal == [session_id      |-> session,
                       status          |-> 422,
                       budget_decision |-> "ModelUnpriced"]
<1>1. session \in Sessions \cup {NoSession}
  <2>1. input[r] \in Inputs
    BY DEF IInv, RequestInv, AcceptBody
  <2> QED BY <2>1, SessionTyped
<1>2. /\ stage[r] = "reading"
      /\ UNCHANGED <<input, decision, before, server, ledgerVars, reportVars>>
  BY DEF AcceptBody
<1> HIDE DEF session
<1>3. CASE Continues(r, "reporting", refusal)
  <2>1. Fits(refusal)
    BY <1>1 DEF Fits, Fields, Statuses, Collector!Decisions
  <2> QED BY <1>2, <1>3, <2>1, QuietMove DEF Stages, Over, Awaiting
<1>4. CASE Continues(r, "admitting", [session_id |-> session])
  <2>1. Fits([session_id |-> session])
    BY <1>1 DEF Fits, Fields
  <2> QED BY <1>2, <1>4, <2>1, QuietMove DEF Stages, Over, Awaiting
<1> QED BY <1>3, <1>4 DEF AcceptBody, Reports, session

\* The admission of r changes the ledger for r only, and leaves the costs alone.
LEMMA AdmissionFrame ==
    ASSUME IInv, NEW r \in Requests,
           Ledger!CheckCost(r) \/ Ledger!Reserve(r) \/ Ledger!RefuseCall(r)
    PROVE  LedgerFrame(r) /\ cost' = cost
<1>1. [Ledger!Next]_ledgerVars
  BY DEF Ledger!Next
<1> QED BY <1>1 DEF LedgerFrame, Ledger!CheckCost, Ledger!Reserve, Ledger!RefuseCall, IInv, Typed,
                    Ledger!LedgerTypeOK

\* A step of admission: no request that is being admitted has a decision or a cost.
LEMMA AdmissionMove ==
    ASSUME IInv, NEW r \in Requests,
           Ledger!CheckCost(r) \/ Ledger!Reserve(r) \/ Ledger!RefuseCall(r),
           stage[r] \in {"admitting", "reserving"},
           NEW place \in {"reserving", "admitted", "reporting"}, NEW changes,
           Continues(r, place, changes), Fits(changes), "cost_usd" \notin DOMAIN changes,
           UNCHANGED <<input, decision, before, server, reportVars>>,
           call_number'[r] = IF "call_number" \in DOMAIN changes THEN changes.call_number
                             ELSE call_number[r],
           place = "admitted" => verdict'[r] = "Allowed"
    PROVE  IInv'
<1>1. RequestInv(r)
  BY DEF IInv
<1>2. LedgerFrame(r) /\ cost' = cost
  BY AdmissionFrame
<1>3. verdict[r] # "Allowed"
  BY DEF Ledger!CheckCost, Ledger!Reserve, Ledger!RefuseCall
<1>4. cost[r] = NoCost /\ decision[r] = "none"
  BY <1>1, <1>3 DEF RequestInv
<1>5. \E d \in Decisions : decision' = [decision EXCEPT ![r] = d]
  <2>1. decision[r] \in Decisions /\ decision' = [decision EXCEPT ![r] = decision[r]]
    BY DEF IInv, Typed
  <2> QED BY <2>1
<1>6. decision'[r] = "none" /\ cost'[r] = cost[r]
  BY <1>2, <1>4
<1>7. place \in Stages \ {"idle", "answered"} /\ stage[r] \notin {"idle", "reporting"} \cup Over
  BY DEF Stages, Over
<1>8. Moves(r, place, changes)
  BY <1>2, <1>4, <1>5, <1>6, <1>7 DEF Moves
<1> QED BY <1>8, MoveStep

\* What a refusal writes.
LEMMA RefusalFits ==
    ASSUME NEW refusal \in Collector!Decisions
    PROVE  Fits([status |-> 429, fault_injected |-> "budget_exceeded", budget_decision |-> refusal])
BY DEF Fits, Fields, Statuses

\* The first look at the budget: the cost cap.
LEMMA CheckCostStep ==
    ASSUME IInv, NEW r \in Requests, CheckCost(r) PROVE IInv'
<1> DEFINE refusal == [status |-> 429, fault_injected |-> "budget_exceeded",
                       budget_decision |-> "CostCapExceeded"]
<1>1. /\ stage[r] = "admitting" /\ Ledger!CheckCost(r)
      /\ UNCHANGED <<input, decision, before, server, reportVars>>
  BY DEF CheckCost
<1>2. call_number'[r] = call_number[r]
  BY <1>1 DEF Ledger!CheckCost
<1>3. CASE GoTo(r, "reserving") /\ UNCHANGED record
  <2>1. Continues(r, "reserving", <<>>) /\ Fits(<<>>) /\ DOMAIN <<>> = {}
    BY <1>3, NoChange
  <2> QED BY <1>1, <1>2, <2>1, AdmissionMove
<1>4. CASE Continues(r, "reporting", refusal)
  <2>1. Fits(refusal)
    BY RefusalFits DEF Collector!Decisions
  <2> QED BY <1>1, <1>2, <1>4, <2>1, AdmissionMove
<1> QED BY <1>3, <1>4 DEF CheckCost, Refuses, Reports

\* Reserving a call: the permit and its number, in the ledger and in the record.
LEMMA ReserveStep ==
    ASSUME IInv, NEW r \in Requests, Reserve(r) PROVE IInv'
<1> DEFINE n       == call_number'[r]
           changes == [call_number |-> n, budget_decision |-> "Allowed"]
<1>1. /\ stage[r] = "reserving" /\ Ledger!Reserve(r)
      /\ UNCHANGED <<input, decision, before, server, reportVars>>
      /\ Continues(r, "admitted", changes)
  BY DEF Reserve
<1>2. n \in 0..MaxLlmCalls /\ verdict'[r] = "Allowed"
  <2>1. LInv'
    <3>1. [Ledger!Next]_ledgerVars
      BY <1>1 DEF Ledger!Next
    <3> QED BY <3>1, LedgerStep DEF IInv
  <2>2. verdict'[r] = "Allowed"
    BY <1>1 DEF Ledger!Reserve, IInv, Typed, Ledger!LedgerTypeOK
  <2> QED BY <2>1, <2>2 DEF LInv, Ledger!LedgerTypeOK
<1>3. call_number'[r] = n
  OBVIOUS
<1> HIDE DEF n
<1>4. Fits(changes)
  BY <1>2 DEF Fits, Fields, Collector!Decisions
<1> QED BY <1>1, <1>2, <1>3, <1>4, AdmissionMove

\* Refusing a call at the call cap.
LEMMA RefuseCallStep ==
    ASSUME IInv, NEW r \in Requests, RefuseCall(r) PROVE IInv'
<1> DEFINE refusal == [status |-> 429, fault_injected |-> "budget_exceeded",
                       budget_decision |-> "CallCapExceeded"]
<1>1. /\ stage[r] = "reserving" /\ Ledger!RefuseCall(r)
      /\ UNCHANGED <<input, decision, before, server, reportVars>>
      /\ Continues(r, "reporting", refusal)
  BY DEF RefuseCall, Refuses, Reports
<1>2. call_number'[r] = call_number[r]
  BY <1>1 DEF Ledger!RefuseCall
<1>3. Fits(refusal)
  BY RefusalFits DEF Collector!Decisions
<1> QED BY <1>1, <1>2, <1>3, AdmissionMove

\* Refusing stream options after a call was reserved.
LEMMA RejectOptionsStep ==
    ASSUME IInv, NEW r \in Requests, RejectOptions(r) PROVE IInv'
<1>1. /\ stage[r] = "admitted" /\ Continues(r, "reporting", [status |-> 400])
      /\ UNCHANGED <<input, decision, before, server, ledgerVars, reportVars>>
  BY DEF RejectOptions, Reports
<1>2. Fits([status |-> 400])
  BY DEF Fits, Fields, Statuses
<1> QED BY <1>1, <1>2, QuietMove DEF Stages, Over, Awaiting

\* Only a request that has been admitted gets a fault decision.
LEMMA DecideStep ==
    ASSUME IInv, NEW r \in Requests, Decide(r) PROVE IInv'
<1> DEFINE d == decision'[r]
<1>1. /\ stage[r] = "admitted"
      /\ UNCHANGED <<input, before, server, ledgerVars, reportVars>>
      /\ RequestInv(r)
  BY DEF Decide, IInv
<1>2. /\ d \in Scenarios \cup {"Forward"}
      /\ decision' = [decision EXCEPT ![r] = d]
  BY DEF Decide, IInv, Typed
<1>3. UNCHANGED <<verdict, call_number, cost>>
  BY <1>1 DEF ledgerVars
<1>4. cost'[r] = NoCost /\ verdict'[r] = "Allowed"
  BY <1>1, <1>3 DEF RequestInv
<1>5. cost'[r] = cost[r] /\ call_number'[r] = call_number[r]
  BY <1>3
<1>6. LedgerFrame(r)
  BY <1>1, <1>3 DEF LedgerFrame
<1>7. \E e \in Decisions : decision' = [decision EXCEPT ![r] = e]
  BY <1>2 DEF Decisions
<1> HIDE DEF d
<1>8. CASE d \in {"force_500", "force_429"}
  <2> DEFINE status  == ForcedStatus(d)
             changes == [status |-> status, fault_injected |-> d]
  <2>1. status \in Statuses /\ d \in Scenarios
    BY <1>2, <1>8 DEF ForcedStatus, Statuses
  <2>2. Continues(r, "reporting", changes)
    BY <1>8 DEF Decide, Reports, d
  <2> HIDE DEF status
  <2>3. Fits(changes) /\ "call_number" \notin DOMAIN changes /\ "cost_usd" \notin DOMAIN changes
    BY <2>1 DEF Fits, Fields
  <2> HIDE DEF changes
  <2>4. Moves(r, "reporting", changes)
    BY <1>1, <1>4, <1>5, <1>6, <1>7, <2>2, <2>3 DEF Moves, Stages, Over
  <2> QED BY <2>4, MoveStep
<1>9. CASE GoTo(r, "upstream") /\ UNCHANGED record
  <2>1. Continues(r, "upstream", <<>>) /\ Fits(<<>>) /\ DOMAIN <<>> = {}
    BY <1>9, NoChange
  <2>2. Moves(r, "upstream", <<>>)
    BY <1>1, <1>4, <1>5, <1>6, <1>7, <2>1 DEF Moves, Stages, Over, Awaiting
  <2> QED BY <2>2, MoveStep
<1> QED BY <1>8, <1>9 DEF Decide, d

\* The head of a response changes the status and the usage.
LEMMA HeadMove ==
    ASSUME IInv, NEW r \in Requests, stage[r] = "upstream", NEW status \in Statuses,
           NEW usage \in Usages, NEW place \in {"mutating", "reporting", "metering", "streaming"},
           Continues(r, place, [status |-> status, usage |-> usage]),
           UNCHANGED <<input, decision, before, server, ledgerVars, reportVars>>
    PROVE  IInv'
<1>1. Fits([status |-> status, usage |-> usage])
  BY DEF Fits, Fields
<1>2. place \in Stages \ {"idle", "answered", "admitted"}
  BY DEF Stages, Awaiting, Over
<1> QED BY <1>1, <1>2, QuietMove DEF Over

\* The head of the answer of the upstream.
LEMMA TakeHeadStep ==
    ASSUME IInv, NEW r \in Requests, TakeHead(r) PROVE IInv'
<1>1. /\ stage[r] = "upstream"
      /\ UNCHANGED <<input, decision, before, server, ledgerVars, reportVars>>
  BY DEF TakeHead
<1>2. \E status \in UpstreamStatuses, usage \in {"UpstreamError", "None"},
         place \in {"mutating", "reporting", "metering", "streaming"} :
           Continues(r, place, [status |-> status, usage |-> usage])
  BY DEF TakeHead, Reports
<1>3. UpstreamStatuses \subseteq Statuses /\ {"UpstreamError", "None"} \subseteq Usages
  BY DEF Statuses, Usages
<1> QED BY <1>1, <1>2, <1>3, HeadMove

\* An upstream that does not answer.
LEMMA FailUpstreamStep ==
    ASSUME IInv, NEW r \in Requests, FailUpstream(r) PROVE IInv'
<1>1. /\ stage[r] = "upstream"
      /\ UNCHANGED <<input, decision, before, server, ledgerVars, reportVars>>
  BY DEF FailUpstream
<1>2. \E status \in {413, 502}, usage \in {"UpstreamError", "None", "Unavailable"},
         place \in {"reporting", "streaming"} :
           Continues(r, place, [status |-> status, usage |-> usage])
  BY DEF FailUpstream, Reports
<1>3. {413, 502} \subseteq Statuses /\ {"UpstreamError", "None", "Unavailable"} \subseteq Usages
  BY DEF Statuses, Usages
<1> QED BY <1>1, <1>2, <1>3, HeadMove

\* A metered response is committed to the ledger and written into the record in one step.
LEMMA MeterMove ==
    ASSUME IInv, NEW r \in Requests, stage[r] \in {"metering", "mutating", "streaming"},
           NEW metering \in Meterings(r), Commits(r, metering), NEW changes,
           Continues(r, "reporting", changes), Fits(changes),
           "call_number" \notin DOMAIN changes, {"usage", "cost_usd"} \subseteq DOMAIN changes,
           changes.usage = metering.usage, changes.cost_usd = metering.cost_usd,
           UNCHANGED <<input, decision, before, server, reportVars>>
    PROVE  IInv'
<1>1. RequestInv(r) /\ cost[r] = NoCost
  BY DEF IInv, RequestInv
<1>2. metering.cost_usd \in Costs \cup {NoCost} /\ (metering.cost_usd # NoCost => metering.usage = "Metered")
  BY DEF Meterings
<1>3. LedgerFrame(r) /\ UNCHANGED <<verdict, call_number>> /\ cost'[r] = metering.cost_usd
  <2>1. CASE metering.cost_usd = NoCost
    BY <1>1, <2>1 DEF Commits, LedgerFrame, ledgerVars
  <2>2. CASE metering.cost_usd # NoCost
    <3>1. Ledger!CommitCost(r, metering.cost_usd) /\ metering.cost_usd \in Costs
      BY <1>2, <2>2 DEF Commits
    <3>2. [Ledger!Next]_ledgerVars
      BY <3>1 DEF Ledger!Next
    <3> QED BY <3>1, <3>2 DEF LedgerFrame, Ledger!CommitCost, IInv, Typed, Ledger!LedgerTypeOK
  <2> QED BY <2>1, <2>2
<1>4. \E d \in Decisions : decision' = [decision EXCEPT ![r] = d]
  <2>1. decision[r] \in Decisions /\ decision' = [decision EXCEPT ![r] = decision[r]]
    BY DEF IInv, Typed
  <2> QED BY <2>1
<1>5. decision'[r] # "none" => verdict'[r] = "Allowed"
  BY <1>1, <1>3 DEF RequestInv
<1>6. call_number'[r] = call_number[r]
  BY <1>3
<1>7. "reporting" \in Stages \ {"idle", "answered"} /\ stage[r] \notin {"idle", "reporting"} \cup Over
  BY DEF Stages, Over
<1>8. Moves(r, "reporting", changes)
  BY <1>2, <1>3, <1>4, <1>5, <1>6, <1>7 DEF Moves
<1> QED BY <1>8, MoveStep

\* What a metering, and a corruption of it, write.
LEMMA MeteringFits ==
    ASSUME NEW r \in Requests, IInv, NEW metering \in Meterings(r), NEW fault \in Corruptions(r)
    PROVE  /\ fault \in Scenarios \cup {NoFault, "budget_exceeded"}
           /\ Fits(metering) /\ DOMAIN metering = {"usage", "cost_usd"}
           /\ Fits(Corrupted(metering, fault))
           /\ DOMAIN Corrupted(metering, fault) = {"usage", "cost_usd", "fault_injected"}
<1>1. /\ metering.cost_usd \in Costs \cup {NoCost} /\ metering.usage \in Usages
      /\ DOMAIN metering = {"usage", "cost_usd"}
  BY DEF Meterings, Usages
<1>2. fault \in Scenarios \cup {NoFault, "budget_exceeded"}
  <2>1. decision[r] \in Decisions
    BY DEF IInv, Typed
  <2> QED BY <2>1 DEF Corruptions, Mutates, Decisions
<1>3. Fits(metering)
  BY <1>1 DEF Fits, Fields
<1>4. /\ Fits(Corrupted(metering, fault))
      /\ DOMAIN Corrupted(metering, fault) = {"usage", "cost_usd", "fault_injected"}
  BY <1>1, <1>2 DEF Fits, Fields, Corrupted
<1> QED BY <1>1, <1>2, <1>3, <1>4

\* Metering a whole answer: its cost goes to the ledger and to the record.
LEMMA MeterBodyStep ==
    ASSUME IInv, NEW r \in Requests, MeterBody(r) PROVE IInv'
<1>1. PICK metering \in Meterings(r), fault \in Corruptions(r) :
        Commits(r, metering) /\ Continues(r, "reporting", Corrupted(metering, fault))
  BY DEF MeterBody, Reports
<1>2. stage[r] = "metering" /\ UNCHANGED <<input, decision, before, server, reportVars>>
  BY DEF MeterBody
<1>3. /\ Corrupted(metering, fault).usage = metering.usage
      /\ Corrupted(metering, fault).cost_usd = metering.cost_usd
  BY DEF Corrupted
<1>4. /\ Fits(Corrupted(metering, fault))
      /\ "call_number" \notin DOMAIN Corrupted(metering, fault)
      /\ {"usage", "cost_usd"} \subseteq DOMAIN Corrupted(metering, fault)
  BY MeteringFits
<1> QED BY <1>1, <1>2, <1>3, <1>4, MeterMove

\* An answer without usable usage.
LEMMA MeterFailsStep ==
    ASSUME IInv, NEW r \in Requests, MeterFails(r) PROVE IInv'
<1> DEFINE fault   == IF Mutates(r) THEN decision[r] ELSE NoFault
           changes == [status |-> 502, usage |-> "ResponseTooLarge", fault_injected |-> fault]
<1>1. /\ stage[r] = "metering" /\ Continues(r, "reporting", changes)
      /\ UNCHANGED <<input, decision, before, server, ledgerVars, reportVars>>
  BY DEF MeterFails, Reports
<1>2. fault \in Scenarios \cup {NoFault}
  <2>1. decision[r] \in Decisions
    BY DEF IInv, Typed
  <2> QED BY <2>1 DEF Mutates, Decisions
<1> HIDE DEF fault
<1>3. Fits(changes)
  BY <1>2 DEF Fits, Fields, Statuses, Usages
<1> QED BY <1>1, <1>3, QuietMove DEF Stages, Over

\* Mutating a metered answer.
LEMMA MutateBodyStep ==
    ASSUME IInv, NEW r \in Requests, MutateBody(r) PROVE IInv'
<1>1. stage[r] = "mutating" /\ UNCHANGED <<input, decision, before, server, reportVars>>
  BY DEF MutateBody
<1>2. PICK fault \in Corruptions(r) :
        \/ \E metering \in Meterings(r) :
             Commits(r, metering) /\ Continues(r, "reporting", Corrupted(metering, fault))
        \/ UNCHANGED ledgerVars /\ Continues(r, "reporting", [fault_injected |-> fault])
  BY DEF MutateBody, Reports
<1>3. ASSUME NEW metering \in Meterings(r), Commits(r, metering),
             Continues(r, "reporting", Corrupted(metering, fault))
      PROVE  IInv'
  <2>1. /\ Corrupted(metering, fault).usage = metering.usage
        /\ Corrupted(metering, fault).cost_usd = metering.cost_usd
    BY DEF Corrupted
  <2>2. /\ Fits(Corrupted(metering, fault))
        /\ "call_number" \notin DOMAIN Corrupted(metering, fault)
        /\ {"usage", "cost_usd"} \subseteq DOMAIN Corrupted(metering, fault)
    BY MeteringFits
  <2> QED BY <1>1, <1>3, <2>1, <2>2, MeterMove
<1>4. CASE UNCHANGED ledgerVars /\ Continues(r, "reporting", [fault_injected |-> fault])
  <2>1. fault \in Scenarios \cup {NoFault}
    <3>1. decision[r] \in Decisions
      BY DEF IInv, Typed
    <3> QED BY <3>1 DEF Corruptions, Mutates, Decisions
  <2>2. Fits([fault_injected |-> fault])
    BY <2>1 DEF Fits, Fields
  <2> QED BY <1>1, <1>4, <2>2, QuietMove DEF Stages, Over
<1> QED BY <1>2, <1>3, <1>4

\* A mutation that fails.
LEMMA MutateFailsStep ==
    ASSUME IInv, NEW r \in Requests, MutateFails(r) PROVE IInv'
<1> DEFINE usage   == IF Tapped(r) THEN "StreamInterrupted" ELSE record[r].usage
           changes == [status |-> 502, usage |-> usage]
<1>1. /\ stage[r] = "mutating" /\ Continues(r, "reporting", changes)
      /\ UNCHANGED <<input, decision, before, server, ledgerVars, reportVars>>
  BY DEF MutateFails, Reports
<1>2. usage \in Usages
  <2>1. record[r] \in RecordType
    BY DEF IInv, Typed
  <2>2. record[r].usage \in Usages
    BY <2>1 DEF RecordType
  <2> QED BY <2>2 DEF Usages
<1> HIDE DEF usage
<1>3. Fits(changes)
  BY <1>2 DEF Fits, Fields, Statuses
<1> QED BY <1>1, <1>3, QuietMove DEF Stages, Over

\* A metered stream that ends.
LEMMA StreamEndsStep ==
    ASSUME IInv, NEW r \in Requests, StreamEnds(r) PROVE IInv'
<1>1. PICK metering \in Meterings(r) :
        Commits(r, metering) /\ Continues(r, "reporting", metering)
  BY DEF StreamEnds, Reports
<1>2. stage[r] = "streaming" /\ UNCHANGED <<input, decision, before, server, reportVars>>
  BY DEF StreamEnds
<1>3. NoFault \in Corruptions(r)
  BY DEF Corruptions
<1>4. Fits(metering) /\ DOMAIN metering = {"usage", "cost_usd"}
  BY <1>3, MeteringFits
<1> QED BY <1>1, <1>2, <1>4, MeterMove

\* A metered stream that breaks off.
LEMMA StreamBreaksStep ==
    ASSUME IInv, NEW r \in Requests, StreamBreaks(r) PROVE IInv'
<1>1. /\ stage[r] = "streaming" /\ Continues(r, "reporting", [usage |-> "StreamInterrupted"])
      /\ UNCHANGED <<input, decision, before, server, ledgerVars, reportVars>>
  BY DEF StreamBreaks, Reports
<1>2. Fits([usage |-> "StreamInterrupted"])
  BY DEF Fits, Fields, Usages
<1> QED BY <1>1, <1>2, QuietMove DEF Stages, Over

\* A call whose agent hangs up: no record, and the permit is kept.
LEMMA CancelStep ==
    ASSUME IInv, NEW r \in Requests, Cancel(r) PROVE IInv'
<1>1. /\ stage[r] \notin {"idle", "reporting"} \cup Over
      /\ GoTo(r, "cancelled") /\ UNCHANGED record
      /\ UNCHANGED <<input, decision, before, server, ledgerVars, reportVars>>
  BY DEF Cancel, Awaiting, Over
<1>2. Continues(r, "cancelled", <<>>) /\ Fits(<<>>) /\ DOMAIN <<>> = {}
  BY <1>1, NoChange
<1> QED BY <1>1, <1>2, QuietMove DEF Stages, Over
------------------------------------------------------------------------------
(* The other steps. *)

\* The arrival of a request: its task and its record begin.
LEMMA ArriveStep ==
    ASSUME IInv, NEW r \in Requests, Arrive(r) PROVE IInv'
<1>1. /\ stage[r] = "idle" /\ server \in {"serving", "draining"}
      /\ UNCHANGED <<record, decision, server, ledgerVars, reportVars>>
      /\ stage' = [stage EXCEPT ![r] = "reading"]
      /\ before' = [before EXCEPT ![r] = [arrived  |-> {q \in Requests : stage[q] # "idle"},
                                          answered |-> Answered]]
  BY DEF Arrive, GoTo, Answered
<1>2. PICK arrival \in Inputs : input' = [input EXCEPT ![r] = arrival]
  BY DEF Arrive
<1>3. /\ UNCHANGED <<channel, handles, collector, requests, next_sequence, budget_snapshot, report,
                     sent, shutdowns>>
      /\ UNCHANGED <<verdict, call_number, cost, calls_reserved, observed_cost_usd>>
  BY <1>1 DEF reportVars, ledgerVars
<1>4. LInv'
  BY <1>1, LedgerStep DEF IInv
<1>5. Typed'
  <2>1. stage' \in [Requests -> Stages] /\ input' \in [Requests -> Inputs \cup {NoInput}]
    BY <1>1, <1>2 DEF IInv, Typed, Stages, Awaiting
  <2>2. before' \in [Requests -> [arrived : SUBSET Requests, answered : SUBSET Requests]]
    BY <1>1 DEF IInv, Typed, Answered
  <2> QED BY <1>1, <1>4, <2>1, <2>2 DEF IInv, Typed, LInv
<1>6. CP!CInv(RecordType, SnapshotType)'
  <2>1. UNCHANGED CP!vars
    BY <1>3 DEF CP!vars, CP!collectorVars, CP!senderVars
  <2> QED BY <2>1, CP!StutterStep DEF IInv
<1>7. ASSUME NEW q \in Requests PROVE RequestInv(q)'
  <2>1. RequestInv(q)
    BY DEF IInv
  <2>2. CASE q # r
    <3>1. stage'[q] = stage[q] /\ input'[q] = input[q]
      BY <1>1, <1>2, <2>2 DEF IInv, Typed
    <3> QED BY <1>1, <1>3, <2>1, <3>1 DEF RequestInv
  <2>3. CASE q = r
    <3>1. stage'[r] = "reading" /\ input'[r] \in Inputs
      BY <1>1, <1>2 DEF IInv, Typed
    <3> QED BY <1>1, <1>3, <2>1, <2>3, <3>1 DEF RequestInv
  <2> QED BY <2>2, <2>3
<1>8. Answered' = Answered
  BY <1>1 DEF Answered, IInv, Typed
<1>9. \A q \in Answered : stage'[q] = "answered"
  BY <1>8 DEF Answered
<1>10. SentInv'
  <2>1. \A i \in DOMAIN sent : sent[i].id \in Answered
    BY LogTypes DEF IInv, SentInv, Answered
  <2> QED BY <1>1, <1>3, <1>8, <1>9, <2>1 DEF IInv, SentInv
<1>11. BeforeInv'
  <2>1. r \notin Answered
    BY <1>1 DEF Answered
  <2>2. before'[r].answered = Answered /\ \A q \in Requests \ {r} : before'[q] = before[q]
    BY <1>1 DEF IInv, Typed
  <2>3. \A q \in Requests : before'[q].answered \subseteq Answered
    BY <2>2 DEF IInv, BeforeInv
  <2>4. \A i \in DOMAIN sent : sent[i].id \in Answered
    BY LogTypes DEF IInv, SentInv, Answered
  <2>5. \A j \in DOMAIN sent : before'[sent[j].id] = before[sent[j].id]
    BY <2>1, <2>2, <2>4, LogTypes DEF IInv
  <2> QED BY <1>3, <1>8, <2>3, <2>5 DEF IInv, BeforeInv
<1>12. ServerInv'
  BY <1>1, <1>3 DEF IInv, ServerInv
<1> QED BY <1>4, <1>5, <1>6, <1>7, <1>10, <1>11, <1>12 DEF IInv

\* The records that handlers send are of the type that the collector's invariant is about.
LEMMA RecordSent ==
    ASSUME IInv, NEW r \in Requests, Report(r)
    PROVE  /\ CP!CInv(RecordType, SnapshotType)'
           /\ sent' = Append(sent, record[r])
           /\ UNCHANGED <<handles, collector, requests, report, shutdowns>>
<1>1. CP!Record(record[r])
  BY DEF Report, Collector!Record, Collector!Send, Collector!RequestEvent, Collector!collectorVars,
         CP!Record, CP!Send, CP!RequestEvent, CP!collectorVars
<1>2. record[r] \in RecordType
  BY DEF IInv, Typed
<1>3. CP!CInv(RecordType, SnapshotType)'
  BY <1>1, <1>2, CP!RecordStep DEF IInv
<1> QED BY <1>1, <1>3 DEF CP!Record, CP!collectorVars

\* Sending a record: it joins the log, and the queue of the collector unless it is gone.
LEMMA ReportStep ==
    ASSUME IInv, NEW r \in Requests, Report(r) PROVE IInv'
<1>1. /\ stage[r] = "reporting" /\ stage' = [stage EXCEPT ![r] = "answered"]
      /\ UNCHANGED <<record, input, decision, before, server, ledgerVars>>
  BY DEF Report, GoTo
<1>2. /\ CP!CInv(RecordType, SnapshotType)'
      /\ sent' = Append(sent, record[r])
      /\ UNCHANGED <<handles, collector, requests, report, shutdowns>>
  BY RecordSent
<1>3. UNCHANGED <<verdict, call_number, cost, calls_reserved, observed_cost_usd>>
  BY <1>1 DEF ledgerVars
<1>4. LInv'
  BY <1>1, LedgerStep DEF IInv
<1>5. Typed'
  <2>1. stage' \in [Requests -> Stages]
    BY <1>1 DEF IInv, Typed, Stages, Over
  <2> QED BY <1>1, <1>4, <2>1 DEF IInv, Typed, LInv
<1>6. ASSUME NEW q \in Requests PROVE RequestInv(q)'
  <2>1. RequestInv(q)
    BY DEF IInv
  <2>2. stage'[q] = IF q = r THEN "answered" ELSE stage[q]
    BY <1>1 DEF IInv, Typed
  <2> QED BY <1>1, <1>3, <2>1, <2>2 DEF RequestInv
<1>7. Answered' = Answered \cup {r} /\ r \notin Answered
  BY <1>1 DEF Answered, IInv, Typed
<1>8. /\ Len(sent) \in Nat /\ DOMAIN sent = 1..Len(sent)
      /\ Len(sent') = Len(sent) + 1 /\ DOMAIN sent' = 1..(Len(sent) + 1)
      /\ \A i \in 1..Len(sent) : sent'[i] = sent[i] /\ sent[i].id \in Answered
      /\ sent'[Len(sent) + 1] = record[r] /\ record[r].id = r
  <2>1. \A i \in DOMAIN sent : sent[i].id \in Answered
    BY LogTypes DEF IInv, SentInv, Answered
  <2>2. sent \in Seq(RecordType) /\ Len(sent) \in Nat /\ DOMAIN sent = 1..Len(sent)
    BY LogTypes DEF IInv
  <2>3. record[r].id = r
    BY DEF IInv, RequestInv
  <2> QED BY <1>2, <2>1, <2>2, <2>3
<1>9. 1..(Len(sent) + 1) = 1..Len(sent) \cup {Len(sent) + 1}
  BY <1>8
<1>10. SentInv'
  <2>1. \A i \in DOMAIN sent' : stage'[sent'[i].id] = "answered" /\ sent'[i] = record[sent'[i].id]
    <3>1. \A q \in Answered \cup {r} : stage'[q] = "answered"
      BY <1>7 DEF Answered
    <3> QED BY <1>8, <1>9, <3>1 DEF IInv, SentInv
  <2>2. \A i, j \in DOMAIN sent' : sent'[i].id = sent'[j].id => i = j
    <3>1. \A i \in 1..Len(sent) : sent'[i].id # r
      BY <1>7, <1>8
    <3> QED BY <1>8, <1>9, <3>1 DEF IInv, SentInv
  <2>3. \A q \in Answered' : \E i \in DOMAIN sent' : sent'[i].id = q
    <3>1. \A q \in Answered : \E i \in 1..Len(sent) : sent[i].id = q
      BY <1>8 DEF IInv, SentInv
    <3> QED BY <1>7, <1>8, <1>9, <3>1
  <2>4. Len(sent') = Cardinality(Answered')
    <3>1. IsFiniteSet(Answered)
      <4>1. Answered \subseteq Requests
        BY DEF Answered
      <4> QED BY <4>1, BudgetAssumption, FS_Subset
    <3> QED BY <1>7, <1>8, <3>1, FS_AddElement DEF IInv, SentInv
  <2> QED BY <1>1, <2>1, <2>2, <2>3, <2>4 DEF SentInv
<1>11. BeforeInv'
  <2>1. \A q \in Requests : before[q].answered \subseteq Answered
    BY DEF IInv, BeforeInv
  <2>2. \A q \in Requests : before'[q].answered \subseteq Answered'
    BY <1>1, <1>7, <2>1
  <2>3. ASSUME NEW i \in DOMAIN sent', NEW j \in DOMAIN sent',
               sent'[i].id \in before[sent'[j].id].answered
        PROVE  i < j
    <3>1. CASE i \in 1..Len(sent) /\ j \in 1..Len(sent)
      BY <1>8, <2>3, <3>1 DEF IInv, BeforeInv
    <3>2. CASE i = Len(sent) + 1
      <4>1. sent'[j].id \in Requests
        BY <1>7, <1>8, <1>9 DEF Answered
      <4> QED BY <1>7, <1>8, <2>1, <2>3, <3>2, <4>1
    <3>3. CASE i \in 1..Len(sent) /\ j = Len(sent) + 1
      BY <1>8, <3>3
    <3> QED BY <1>8, <1>9, <3>1, <3>2, <3>3
  <2> QED BY <1>1, <2>2, <2>3 DEF BeforeInv
<1>12. ServerInv'
  <2>1. server \notin {"flushing", "exited"}
    BY <1>1 DEF IInv, ServerInv, Over
  <2> QED BY <1>1, <1>2, <2>1 DEF IInv, ServerInv
<1> QED BY <1>2, <1>4, <1>5, <1>6, <1>10, <1>11, <1>12 DEF IInv

\* A step of the main task or of the collector is no step of a handler.
HandlersRest ==
    /\ UNCHANGED <<stage, record, input, decision, before, ledgerVars, sent>>
    /\ server' \in {"serving", "draining", "flushing", "exited"}

\* Steps of main and of the collector: what is said of the requests, the budget and the log rests.
LEMMA RestStep ==
    ASSUME IInv, HandlersRest
    PROVE  Typed' /\ LInv' /\ (\A r \in Requests : RequestInv(r)') /\ SentInv' /\ BeforeInv'
<1>1. UNCHANGED <<stage, record, input, decision, before, ledgerVars, sent>>
      /\ UNCHANGED <<verdict, call_number, cost, calls_reserved, observed_cost_usd>>
  BY DEF HandlersRest, ledgerVars
<1>2. LInv'
  BY <1>1, LedgerStep DEF IInv
<1>3. Typed'
  BY <1>1, <1>2 DEF IInv, Typed, LInv, HandlersRest
<1>4. \A r \in Requests : RequestInv(r)'
  BY <1>1 DEF IInv, RequestInv
<1>5. SentInv' /\ BeforeInv'
  BY <1>1 DEF IInv, SentInv, BeforeInv, Answered
<1> QED BY <1>2, <1>3, <1>4, <1>5

\* The steps of main that leave the collector alone: the signal and the exit.
LEMMA MainStep ==
    ASSUME IInv, ShutdownSignal \/ Exit PROVE IInv'
<1>1. /\ UNCHANGED <<handlerVars, ledgerVars, reportVars>>
      /\ HandlersRest
      /\ UNCHANGED <<channel, handles, collector, requests, next_sequence, budget_snapshot, report,
                     sent, shutdowns>>
  BY DEF ShutdownSignal, Exit, HandlersRest, handlerVars, reportVars
<1>2. CP!CInv(RecordType, SnapshotType)'
  <2>1. UNCHANGED CP!vars
    BY <1>1 DEF CP!vars, CP!collectorVars, CP!senderVars
  <2> QED BY <2>1, CP!StutterStep DEF IInv
<1>3. UNCHANGED <<stage, calls_reserved, observed_cost_usd>>
  BY <1>1 DEF handlerVars, ledgerVars
<1>4. ServerInv'
  BY <1>1, <1>3 DEF IInv, ServerInv, ShutdownSignal, Exit, Snapshot
<1> QED BY <1>1, <1>2, <1>4, RestStep DEF IInv

\* The end of serving: no request is under way, and main asks for the report.
LEMMA EndOfServeStep ==
    ASSUME IInv, EndOfServe PROVE IInv'
<1>1. /\ server = "draining" /\ server' = "flushing"
      /\ \A r \in Requests : stage[r] \in {"idle"} \cup Over
      /\ UNCHANGED <<handlerVars, ledgerVars>>
  BY DEF EndOfServe
<1>2. CP!RequestShutdown(Snapshot)
  BY DEF EndOfServe, Collector!RequestShutdown, Collector!Send, Collector!ShutdownEvent,
         Collector!collectorVars, CP!RequestShutdown, CP!Send, CP!ShutdownEvent, CP!collectorVars
<1>3. Snapshot \in SnapshotType
  BY DEF Snapshot, SnapshotType, IInv, LInv, Ledger!LedgerTypeOK
<1>4. CP!CInv(RecordType, SnapshotType)'
  BY <1>2, <1>3, CP!ShutdownStep DEF IInv
<1>5. UNCHANGED <<stage, calls_reserved, observed_cost_usd, sent, handles, collector, report>>
      /\ shutdowns' = Append(shutdowns, [snapshot |-> Snapshot, after |-> Len(sent)])
  BY <1>1, <1>2 DEF handlerVars, ledgerVars, CP!RequestShutdown, CP!collectorVars
<1>6. HandlersRest
  BY <1>1, <1>5 DEF HandlersRest, handlerVars
<1>7. shutdowns' # <<>> /\ shutdowns'[1] = [snapshot |-> Snapshot, after |-> Len(sent)]
  BY <1>1, <1>5 DEF IInv, ServerInv
<1>8. ServerInv'
  BY <1>1, <1>5, <1>7 DEF IInv, ServerInv, Snapshot
<1> QED BY <1>4, <1>6, <1>8, RestStep DEF IInv

\* The steps of the collector in the proxy are those that ReportCollectorProofs is about.
LEMMA CollectorSame == Collector!CollectorStep => CP!CollectorStep
BY DEF Collector!CollectorStep, Collector!CollectRecord, Collector!RecvShutdown,
       Collector!RecvClosed, Collector!DrainShutdown, Collector!DrainEmpty, Collector!Flush,
       Collector!Numbered, Collector!senderVars, Collector!collectorVars,
       CP!CollectorStep, CP!CollectRecord, CP!RecvShutdown, CP!RecvClosed, CP!DrainShutdown,
       CP!DrainEmpty, CP!Flush, CP!Numbered, CP!senderVars, CP!collectorVars

\* The steps of the collector task, by its own lemmas.
LEMMA CollectorRunsStep ==
    ASSUME IInv, CollectorRuns PROVE IInv'
<1>1. /\ server # "exited" /\ UNCHANGED <<handlerVars, server, ledgerVars>>
      /\ CP!CollectorStep
  BY CollectorSame DEF CollectorRuns
<1>2. CP!CInv(RecordType, SnapshotType)'
  <2>1. CASE CP!CollectRecord
    BY <2>1, CP!CollectStep DEF IInv
  <2>2. CASE CP!RecvShutdown \/ CP!DrainShutdown
    BY <2>2, CP!TakeShutdownStep DEF IInv
  <2>3. CASE CP!RecvClosed \/ CP!DrainEmpty \/ CP!Flush
    BY <2>3, CP!OtherStep DEF IInv
  <2> QED BY <1>1, <2>1, <2>2, <2>3 DEF CP!CollectorStep
<1>3. /\ UNCHANGED <<handles, sent, shutdowns>>
      /\ (collector = "done" <=> report # "none") => (collector' = "done" <=> report' # "none")
  BY <1>1 DEF CP!CollectorStep, CP!CollectRecord, CP!RecvShutdown, CP!RecvClosed,
              CP!DrainShutdown, CP!DrainEmpty, CP!Flush, CP!senderVars, CP!collectorVars
<1>4. HandlersRest
  BY <1>1, <1>3 DEF HandlersRest, handlerVars, IInv, Typed
<1>5. ServerInv'
  BY <1>1, <1>3 DEF IInv, ServerInv, Snapshot, handlerVars, ledgerVars
<1> QED BY <1>2, <1>4, <1>5, RestStep DEF IInv
------------------------------------------------------------------------------
(* The specification. *)

\* The invariant holds at the start.
LEMMA InitIInv == Init => IInv
<1> SUFFICES ASSUME Init PROVE IInv
  OBVIOUS
<1>1. /\ stage = [r \in Requests |-> "idle"]
      /\ record = [r \in Requests |-> EmptyRecord(r)]
      /\ input = [r \in Requests |-> NoInput]
      /\ decision = [r \in Requests |-> "none"]
      /\ before = [r \in Requests |-> [arrived |-> {}, answered |-> {}]]
      /\ server = "serving"
      /\ Ledger!Init
      /\ sent = <<>> /\ shutdowns = <<>> /\ handles = "alive" /\ collector = "receiving"
      /\ report = "none"
  BY DEF Init, Collector!Init
<1>2. CP!CInv(RecordType, SnapshotType)
  <2>1. CP!Init
    BY DEF Init, Collector!Init, CP!Init
  <2> QED BY <2>1, CP!InitInv
<1>3. LInv
  <2>1. Permitted = {} /\ Units(cost) = {}
    BY <1>1 DEF Permitted, Units, Ledger!Init
  <2>2. Cardinality(Permitted) = 0 /\ Cardinality(Units(cost)) = 0
    BY <2>1, FS_EmptySet
  <2> QED BY <1>1, <2>2, BudgetAssumption
          DEF LInv, Ledger!Init, Ledger!LedgerTypeOK, Ledger!Verdicts, Capped
<1>4. Typed
  <2>1. \A r \in Requests : EmptyRecord(r) \in RecordType
    BY BudgetAssumption DEF EmptyRecord, RecordType, Statuses, Usages, Collector!Decisions
  <2> QED BY <1>1, <1>3, <2>1 DEF Typed, LInv, Stages, Decisions
<1>5. ASSUME NEW r \in Requests PROVE RequestInv(r)
  BY <1>1 DEF RequestInv, EmptyRecord, Ledger!Init
<1>6. SentInv /\ BeforeInv
  <2>1. Answered = {}
    BY <1>1 DEF Answered
  <2>2. Cardinality(Answered) = 0
    BY <2>1, FS_EmptySet
  <2> QED BY <1>1, <2>1, <2>2 DEF SentInv, BeforeInv
<1>7. ServerInv
  BY <1>1 DEF ServerInv
<1> QED BY <1>2, <1>3, <1>4, <1>5, <1>6, <1>7 DEF IInv

\* Every step of the proxy keeps the invariant.
LEMMA NextIInv == IInv /\ [Next]_vars => IInv'
<1> SUFFICES ASSUME IInv, [Next]_vars PROVE IInv'
  OBVIOUS
<1>1. ASSUME NEW r \in Requests, HandlerRuns(r) PROVE IInv'
  BY <1>1, CheckCostStep, ReserveStep, RefuseCallStep, RejectOptionsStep, DecideStep,
     RelayForeignStep, TakeHeadStep, FailUpstreamStep, MeterBodyStep, MeterFailsStep,
     MutateBodyStep, MutateFailsStep, ReportStep DEF HandlerRuns
<1>2. ASSUME NEW r \in Requests, ClientPaced(r) PROVE IInv'
  BY <1>2, ArriveStep, CancelStep, ReadForeignBodyStep, RejectBodyStep, AcceptBodyStep,
     StreamEndsStep, StreamBreaksStep DEF ClientPaced
<1>3. CASE ShutdownSignal \/ EndOfServe \/ Exit \/ CollectorRuns
  BY <1>3, MainStep, EndOfServeStep, CollectorRunsStep
<1>4. CASE UNCHANGED vars
  <2>1. /\ UNCHANGED <<handlerVars, ledgerVars, reportVars, server>> /\ HandlersRest
        /\ UNCHANGED <<channel, handles, collector, requests, next_sequence, budget_snapshot,
                       report, sent, shutdowns>>
    BY <1>4 DEF vars, HandlersRest, handlerVars, reportVars, IInv, Typed
  <2>2. CP!CInv(RecordType, SnapshotType)'
    <3>1. UNCHANGED CP!vars
      BY <2>1 DEF CP!vars, CP!collectorVars, CP!senderVars
    <3> QED BY <3>1, CP!StutterStep DEF IInv
  <2>3. ServerInv'
    BY <2>1 DEF IInv, ServerInv, Snapshot, handlerVars, ledgerVars
  <2> QED BY <2>1, <2>2, <2>3, RestStep DEF IInv
<1> QED BY <1>1, <1>2, <1>3, <1>4 DEF Next

\* The invariant is inductive.
LEMMA Invariance == Spec => []IInv
BY InitIInv, NextIInv, PTL DEF Spec

\* Every variable of the proxy stays in its range, and a record carries the number of its permit.
THEOREM TypeCorrect == Spec => []TypeOK
<1>1. IInv => TypeOK
  <2> SUFFICES ASSUME IInv PROVE TypeOK
    OBVIOUS
  <2>1. ASSUME NEW r \in Requests
        PROVE  /\ record[r].status \in Statuses
               /\ record[r].session_id \in Sessions \cup {NoSession}
               /\ record[r].call_number = call_number[r]
    <3>1. record[r] \in RecordType /\ RequestInv(r)
      BY DEF IInv, Typed
    <3> QED BY <3>1 DEF RecordType, RequestInv
  <2> QED BY <2>1 DEF IInv, Typed, TypeOK, Statuses
<1> QED BY Invariance, <1>1, PTL

\* A request is in the report log exactly once if it has been answered, and otherwise not at all.
THEOREM OnceInTheLog == Spec => []OneRecordEach
<1>1. IInv => OneRecordEach
  <2> SUFFICES ASSUME IInv, NEW r \in Requests
               PROVE  Cardinality({i \in DOMAIN sent : sent[i].id = r}) =
                        IF stage[r] = "answered" THEN 1 ELSE 0
    BY DEF OneRecordEach
  <2>1. CASE stage[r] = "answered"
    <3>1. PICK i \in DOMAIN sent : sent[i].id = r
      BY <2>1 DEF IInv, SentInv, Answered
    <3>2. {j \in DOMAIN sent : sent[j].id = r} = {i}
      BY <3>1 DEF IInv, SentInv
    <3> QED BY <2>1, <3>2, FS_Singleton
  <2>2. CASE stage[r] # "answered"
    <3>1. {j \in DOMAIN sent : sent[j].id = r} = {}
      BY <2>2 DEF IInv, SentInv
    <3> QED BY <2>2, <3>1, FS_EmptySet
  <2> QED BY <2>1, <2>2
<1> QED BY Invariance, <1>1, PTL

------------------------------------------------------------------------------
(* What the records blame on the fault engine. *)

Forced   == {"force_500", "force_429"}
Refusals == {"CallCapExceeded", "CostCapExceeded"}

\* What FaultsAsDecided says, of a record and a decision.
Blames(rec, decided) ==
    /\ rec.fault_injected \in Scenarios => rec.fault_injected = decided
    /\ decided \in Forced => rec.fault_injected = decided
    /\ rec.fault_injected = "budget_exceeded" <=> rec.budget_decision \in Refusals
    /\ decided = "malformed_tool_call_json" /\ rec.usage = "ResponseTooLarge" =>
         rec.fault_injected = decided

\* A record blames nothing while its request is under way.
Blameless(rec, decided) ==
    /\ rec.fault_injected = NoFault
    /\ decided \notin Forced
    /\ rec.budget_decision \notin Refusals
    /\ rec.usage # "ResponseTooLarge"

BlameInv ==
    \A r \in Requests :
        /\ Blames(record[r], decision[r])
        /\ stage[r] \notin {"reporting", "answered"} => Blameless(record[r], decision[r])

\* To blame nothing is no wrong blame.
LEMMA BlamelessIsFine ==
    ASSUME NEW rec, NEW decided, Blameless(rec, decided) PROVE Blames(rec, decided)
BY ProxyAssumption DEF Blameless, Blames

\* The handler of r goes on at `place`, and its record has been refined by `changes`.
LEMMA BlameMove ==
    ASSUME IInv, BlameInv, NEW r \in Requests, NEW place, NEW changes,
           Continues(r, place, changes),
           \A q \in Requests \ {r} : decision'[q] = decision[q],
           \A rec : (\A field \in Fields : rec[field] = IF field \in DOMAIN changes THEN changes[field]
                                                       ELSE record[r][field])
                   => /\ Blames(rec, decision'[r])
                      /\ place \notin {"reporting", "answered"} => Blameless(rec, decision'[r])
    PROVE  BlameInv'
<1> DEFINE new == Updated(record[r], changes)
<1>1. /\ stage' = [stage EXCEPT ![r] = place]
      /\ record' = [record EXCEPT ![r] = new]
      /\ record \in [Requests -> RecordType] /\ stage \in [Requests -> Stages]
  BY DEF Continues, GoTo, IInv, Typed
<1>2. \A field \in Fields : new[field] =
        IF field \in DOMAIN changes THEN changes[field] ELSE record[r][field]
  <2>1. DOMAIN record[r] = Fields
    BY <1>1 DEF RecordType, Fields
  <2> QED BY <2>1 DEF Updated
<1> HIDE DEF new
<1>3. Blames(new, decision'[r]) /\ (place \notin {"reporting", "answered"} => Blameless(new, decision'[r]))
  BY <1>2
<1>4. record'[r] = new /\ stage'[r] = place
  BY <1>1
<1>5. \A q \in Requests \ {r} : record'[q] = record[q] /\ stage'[q] = stage[q]
  BY <1>1
<1>6. ASSUME NEW q \in Requests
      PROVE  /\ Blames(record'[q], decision'[q])
             /\ stage'[q] \notin {"reporting", "answered"} => Blameless(record'[q], decision'[q])
  <2>1. CASE q = r
    BY <1>3, <1>4, <2>1
  <2>2. CASE q # r
    <3>1. record'[q] = record[q] /\ stage'[q] = stage[q] /\ decision'[q] = decision[q]
      BY <1>5, <2>2
    <3> QED BY <3>1 DEF BlameInv
  <2> QED BY <2>1, <2>2
<1> QED BY <1>6 DEF BlameInv, Blames, Blameless

\* Most steps neither blame anything nor have anything to blame.
LEMMA BlamelessMove ==
    ASSUME IInv, BlameInv, NEW r \in Requests, NEW place, NEW changes,
           Continues(r, place, changes),
           stage[r] \notin {"reporting", "answered"},
           \A q \in Requests \ {r} : decision'[q] = decision[q],
           decision'[r] \notin Forced,
           "fault_injected" \notin DOMAIN changes,
           "budget_decision" \in DOMAIN changes => changes.budget_decision \notin Refusals,
           "usage" \in DOMAIN changes => changes.usage # "ResponseTooLarge"
    PROVE  BlameInv'
<1>1. Blameless(record[r], decision[r])
  BY DEF BlameInv
<1>2. ASSUME NEW rec,
             \A field \in Fields : rec[field] = IF field \in DOMAIN changes THEN changes[field]
                                               ELSE record[r][field]
      PROVE  Blameless(rec, decision'[r])
  <2>1. rec.fault_injected = record[r].fault_injected
    BY <1>2 DEF Fields
  <2>2. rec.budget_decision = IF "budget_decision" \in DOMAIN changes THEN changes.budget_decision
                              ELSE record[r].budget_decision
    BY <1>2 DEF Fields
  <2>3. rec.usage = IF "usage" \in DOMAIN changes THEN changes.usage ELSE record[r].usage
    BY <1>2 DEF Fields
  <2> QED BY <1>1, <2>1, <2>2, <2>3 DEF Blameless
<1>3. \A rec : (\A field \in Fields : rec[field] = IF field \in DOMAIN changes THEN changes[field]
                                                   ELSE record[r][field])
              => /\ Blames(rec, decision'[r])
                 /\ place \notin {"reporting", "answered"} => Blameless(rec, decision'[r])
  BY <1>2, BlamelessIsFine
<1> QED BY <1>3, BlameMove

\* The steps that complete a record and blame a fault that was decided for it, or a refusal.
LEMMA BlamingMove ==
    ASSUME IInv, BlameInv, NEW r \in Requests, NEW changes,
           Continues(r, "reporting", changes),
           stage[r] \notin {"reporting", "answered"},
           \A q \in Requests \ {r} : decision'[q] = decision[q],
           "fault_injected" \in DOMAIN changes,
           LET fault   == changes.fault_injected
               usage   == IF "usage" \in DOMAIN changes THEN changes.usage ELSE "None"
               refused == "budget_decision" \in DOMAIN changes /\ changes.budget_decision \in Refusals
           IN  /\ fault \in Scenarios => fault = decision'[r]
               /\ decision'[r] \in Forced => fault = decision'[r]
               /\ fault = "budget_exceeded" <=> refused
               /\ decision'[r] = "malformed_tool_call_json" /\ usage = "ResponseTooLarge" =>
                    fault = decision'[r]
    PROVE  BlameInv'
<1>1. Blameless(record[r], decision[r])
  BY DEF BlameInv
<1>2. ASSUME NEW rec,
             \A field \in Fields : rec[field] = IF field \in DOMAIN changes THEN changes[field]
                                               ELSE record[r][field]
      PROVE  Blames(rec, decision'[r])
  <2>1. rec.fault_injected = changes.fault_injected
    BY <1>2 DEF Fields
  <2>2. rec.budget_decision = IF "budget_decision" \in DOMAIN changes THEN changes.budget_decision
                              ELSE record[r].budget_decision
    BY <1>2 DEF Fields
  <2>3. rec.usage = IF "usage" \in DOMAIN changes THEN changes.usage ELSE record[r].usage
    BY <1>2 DEF Fields
  <2> QED BY <1>1, <2>1, <2>2, <2>3 DEF Blameless, Blames
<1>3. \A rec : (\A field \in Fields : rec[field] = IF field \in DOMAIN changes THEN changes[field]
                                                   ELSE record[r][field])
              => /\ Blames(rec, decision'[r])
                 /\ "reporting" \notin {"reporting", "answered"} => Blameless(rec, decision'[r])
  BY <1>2
<1> QED BY <1>3, BlameMove

\* The steps up to the fault decision, and the relaying of a request that is not billable.
LEMMA AdmissionBlames ==
    ASSUME IInv, BlameInv, NEW r \in Requests,
           \/ ReadForeignBody(r) \/ RelayForeign(r) \/ RejectBody(r) \/ AcceptBody(r)
           \/ CheckCost(r) \/ Reserve(r) \/ RefuseCall(r) \/ RejectOptions(r)
    PROVE  BlameInv'
<1>1. UNCHANGED decision /\ stage[r] \notin {"reporting", "answered"}
  BY DEF ReadForeignBody, RelayForeign, RejectBody, AcceptBody, CheckCost, Reserve, RefuseCall,
         RejectOptions
<1>2. decision'[r] \notin Forced /\ \A q \in Requests : decision'[q] = decision[q]
  BY <1>1 DEF BlameInv, Blameless
<1>3. ASSUME NEW refusal \in Refusals, Refuses(r, refusal)
      PROVE  BlameInv'
  <2> DEFINE changes == [status |-> 429, fault_injected |-> "budget_exceeded",
                         budget_decision |-> refusal]
  <2>1. Continues(r, "reporting", changes)
    BY <1>3 DEF Refuses, Reports
  <2>2. /\ DOMAIN changes = {"status", "fault_injected", "budget_decision"}
        /\ changes.fault_injected = "budget_exceeded" /\ changes.budget_decision = refusal
    OBVIOUS
  <2>3. "budget_exceeded" \notin Scenarios
    BY ProxyAssumption
  <2> HIDE DEF changes
  <2> QED BY <1>1, <1>2, <2>1, <2>2, <2>3, BlamingMove
<1>4. ASSUME \E place, changes :
               /\ Continues(r, place, changes)
               /\ "fault_injected" \notin DOMAIN changes /\ "usage" \notin DOMAIN changes
               /\ "budget_decision" \in DOMAIN changes => changes.budget_decision \notin Refusals
      PROVE  BlameInv'
  BY <1>1, <1>2, <1>4, BlamelessMove
<1>5. CASE ReadForeignBody(r)
  <2> DEFINE session == FromHeaders(input[r])
  <2>1. CASE Continues(r, "reporting", [session_id |-> session, status |-> 413])
    <3> HIDE DEF session
    <3> QED BY <1>4, <2>1
  <2>2. CASE Continues(r, "upstream", [session_id |-> session])
    <3> HIDE DEF session
    <3> QED BY <1>4, <2>2
  <2> QED BY <1>5, <2>1, <2>2 DEF ReadForeignBody, Reports
<1>6. CASE RelayForeign(r)
  BY <1>4, <1>6 DEF RelayForeign, Reports
<1>7. CASE RejectBody(r)
  <2> DEFINE session == FromHeaders(input[r])
             status  == IF input[r].body = "too_large" THEN 413 ELSE 400
  <2>1. Continues(r, "reporting", [status |-> status, budget_decision |-> "InvalidRequest",
                                   session_id |-> session])
    BY <1>7 DEF RejectBody, Reports
  <2> HIDE DEF session, status
  <2> QED BY <1>4, <2>1 DEF Refusals
<1>8. CASE AcceptBody(r)
  <2> DEFINE session == FromHeadersAndBody(input[r])
  <2>1. CASE Continues(r, "reporting", [session_id |-> session, status |-> 422,
                                        budget_decision |-> "ModelUnpriced"])
    <3> HIDE DEF session
    <3> QED BY <1>4, <2>1 DEF Refusals
  <2>2. CASE Continues(r, "admitting", [session_id |-> session])
    <3> HIDE DEF session
    <3> QED BY <1>4, <2>2
  <2> QED BY <1>8, <2>1, <2>2 DEF AcceptBody, Reports
<1>9. CASE CheckCost(r)
  <2>1. CASE GoTo(r, "reserving") /\ UNCHANGED record
    <3>1. Continues(r, "reserving", <<>>) /\ DOMAIN <<>> = {}
      BY <2>1, NoChange
    <3> QED BY <1>4, <3>1
  <2>2. CASE Refuses(r, "CostCapExceeded")
    BY <1>3, <2>2 DEF Refusals
  <2> QED BY <1>9, <2>1, <2>2 DEF CheckCost
<1>10. CASE Reserve(r)
  <2> DEFINE n == call_number'[r]
  <2>1. Continues(r, "admitted", [call_number |-> n, budget_decision |-> "Allowed"])
    BY <1>10 DEF Reserve
  <2> HIDE DEF n
  <2> QED BY <1>4, <2>1 DEF Refusals
<1>11. CASE RefuseCall(r)
  BY <1>3, <1>11 DEF RefuseCall, Refusals
<1>12. CASE RejectOptions(r)
  BY <1>4, <1>12 DEF RejectOptions, Reports
<1> QED BY <1>5, <1>6, <1>7, <1>8, <1>9, <1>10, <1>11, <1>12

\* The fault decision: a forced error is blamed at once.
LEMMA DecisionBlames ==
    ASSUME IInv, BlameInv, NEW r \in Requests, Decide(r) PROVE BlameInv'
<1> DEFINE d == decision'[r]
<1>1. /\ stage[r] = "admitted" /\ d \in Scenarios \cup {"Forward"}
      /\ \A q \in Requests \ {r} : decision'[q] = decision[q]
  BY DEF Decide, IInv, Typed
<1>2. "budget_exceeded" \notin Scenarios
  BY ProxyAssumption
<1> HIDE DEF d
<1>3. CASE d \in Forced
  <2> DEFINE status  == ForcedStatus(d)
             changes == [status |-> status, fault_injected |-> d]
  <2>1. Continues(r, "reporting", changes)
    BY <1>3 DEF Decide, Reports, d, Forced
  <2> HIDE DEF status
  <2>2. DOMAIN changes = {"status", "fault_injected"} /\ changes.fault_injected = d
    OBVIOUS
  <2>3. d # "malformed_tool_call_json" /\ d # "budget_exceeded"
    BY <1>3 DEF Forced
  <2> HIDE DEF changes
  <2> QED BY <1>1, <2>1, <2>2, <2>3, BlamingMove DEF d
<1>4. CASE d \notin Forced
  <2>1. GoTo(r, "upstream") /\ UNCHANGED record
    BY <1>4 DEF Decide, d, Forced
  <2>2. Continues(r, "upstream", <<>>) /\ DOMAIN <<>> = {}
    BY <2>1, NoChange
  <2> QED BY <1>1, <1>4, <2>2, BlamelessMove DEF d
<1> QED BY <1>3, <1>4

\* From the head of the response on: only a call that is to be corrupted blames anything.
LEMMA ResponseBlames ==
    ASSUME IInv, BlameInv, NEW r \in Requests,
           \/ TakeHead(r) \/ FailUpstream(r) \/ MeterBody(r) \/ MeterFails(r) \/ MutateBody(r)
           \/ MutateFails(r) \/ StreamEnds(r) \/ StreamBreaks(r)
    PROVE  BlameInv'
<1>1. UNCHANGED decision /\ stage[r] \notin {"reporting", "answered"}
  BY DEF TakeHead, FailUpstream, MeterBody, MeterFails, MutateBody, MutateFails, StreamEnds,
         StreamBreaks
<1>2. /\ decision'[r] = decision[r] /\ decision[r] \notin Forced
      /\ record[r].usage # "ResponseTooLarge"
      /\ \A q \in Requests : decision'[q] = decision[q]
  BY <1>1 DEF BlameInv, Blameless
<1>3. ASSUME \E place, changes :
               /\ Continues(r, place, changes)
               /\ "fault_injected" \notin DOMAIN changes /\ "budget_decision" \notin DOMAIN changes
               /\ "usage" \in DOMAIN changes => changes.usage # "ResponseTooLarge"
      PROVE  BlameInv'
  BY <1>1, <1>2, <1>3, BlamelessMove
<1>4. ASSUME NEW changes, Continues(r, "reporting", changes),
             "fault_injected" \in DOMAIN changes, "budget_decision" \notin DOMAIN changes,
             changes.fault_injected \in Corruptions(r),
             "usage" \in DOMAIN changes /\ changes.usage = "ResponseTooLarge" =>
               changes.fault_injected = (IF Mutates(r) THEN decision[r] ELSE NoFault)
      PROVE  BlameInv'
  <2>1. changes.fault_injected \in Scenarios => changes.fault_injected = decision'[r]
    BY <1>2, <1>4, ProxyAssumption DEF Corruptions
  <2>2. changes.fault_injected # "budget_exceeded"
    BY <1>4, ProxyAssumption DEF Corruptions, Mutates
  <2> QED BY <1>1, <1>2, <1>4, <2>1, <2>2, BlamingMove DEF Mutates
<1>5. CASE TakeHead(r)
  <2>1. PICK status \in UpstreamStatuses, usage \in {"UpstreamError", "None"},
              place \in {"mutating", "reporting", "metering", "streaming"} :
          Continues(r, place, [status |-> status, usage |-> usage])
    BY <1>5 DEF TakeHead, Reports
  <2> QED BY <1>3, <2>1
<1>6. CASE FailUpstream(r)
  <2>1. PICK status \in {413, 502}, usage \in {"UpstreamError", "None", "Unavailable"},
              place \in {"reporting", "streaming"} :
          Continues(r, place, [status |-> status, usage |-> usage])
    BY <1>6 DEF FailUpstream, Reports
  <2> QED BY <1>3, <2>1
<1>7. ASSUME NEW metering \in Meterings(r), NEW fault \in Corruptions(r),
             Continues(r, "reporting", Corrupted(metering, fault))
      PROVE  BlameInv'
  <2> DEFINE changes == Corrupted(metering, fault)
  <2>1. /\ DOMAIN changes = {"usage", "cost_usd", "fault_injected"}
        /\ changes.fault_injected = fault /\ changes.usage = metering.usage
    BY DEF Corrupted
  <2>2. metering.usage # "ResponseTooLarge"
    BY DEF Meterings
  <2>3. Continues(r, "reporting", changes)
    BY <1>7
  <2> HIDE DEF changes
  <2> QED BY <1>4, <2>1, <2>2, <2>3
<1>8. CASE MeterBody(r)
  BY <1>7, <1>8 DEF MeterBody, Reports
<1>9. CASE MeterFails(r)
  <2> DEFINE fault   == IF Mutates(r) THEN decision[r] ELSE NoFault
             changes == [status |-> 502, usage |-> "ResponseTooLarge", fault_injected |-> fault]
  <2>1. Continues(r, "reporting", changes)
    BY <1>9 DEF MeterFails, Reports
  <2>2. fault \in Corruptions(r)
    BY DEF Corruptions
  <2> HIDE DEF fault
  <2>3. DOMAIN changes = {"status", "usage", "fault_injected"} /\ changes.fault_injected = fault
    OBVIOUS
  <2> HIDE DEF changes
  <2> QED BY <1>4, <2>1, <2>2, <2>3 DEF fault
<1>10. CASE MutateBody(r)
  <2>1. PICK fault \in Corruptions(r) :
          \/ \E metering \in Meterings(r) : Continues(r, "reporting", Corrupted(metering, fault))
          \/ Continues(r, "reporting", [fault_injected |-> fault])
    BY <1>10 DEF MutateBody, Reports
  <2>2. CASE Continues(r, "reporting", [fault_injected |-> fault])
    BY <1>4, <2>2
  <2> QED BY <1>7, <2>1, <2>2
<1>11. CASE MutateFails(r)
  <2> DEFINE usage == IF Tapped(r) THEN "StreamInterrupted" ELSE record[r].usage
  <2>1. Continues(r, "reporting", [status |-> 502, usage |-> usage])
    BY <1>11 DEF MutateFails, Reports
  <2>2. usage # "ResponseTooLarge"
    BY <1>2
  <2> HIDE DEF usage
  <2> QED BY <1>3, <2>1, <2>2
<1>12. CASE StreamEnds(r)
  <2>1. PICK metering \in Meterings(r) : Continues(r, "reporting", metering)
    BY <1>12 DEF StreamEnds, Reports
  <2>2. DOMAIN metering = {"usage", "cost_usd"} /\ metering.usage # "ResponseTooLarge"
    BY DEF Meterings
  <2> QED BY <1>3, <2>1, <2>2
<1>13. CASE StreamBreaks(r)
  BY <1>3, <1>13 DEF StreamBreaks, Reports
<1> QED BY <1>5, <1>6, <1>8, <1>9, <1>10, <1>11, <1>12, <1>13

\* The other steps leave the records and the decisions alone.
LEMMA QuietBlames ==
    ASSUME IInv, BlameInv,
           \/ \E r \in Requests : Arrive(r) \/ Cancel(r) \/ Report(r)
           \/ ShutdownSignal \/ EndOfServe \/ Exit \/ CollectorRuns \/ UNCHANGED vars
    PROVE  BlameInv'
<1>1. UNCHANGED <<record, decision>>
  BY DEF Arrive, Cancel, Report, ShutdownSignal, EndOfServe, Exit, CollectorRuns, vars, handlerVars
<1>2. \A q \in Requests : stage'[q] \notin {"reporting", "answered"} =>
                            stage[q] \notin {"reporting", "answered"}
  BY DEF Arrive, Cancel, Report, GoTo, ShutdownSignal, EndOfServe, Exit, CollectorRuns, vars,
         handlerVars, Awaiting, IInv, Typed
<1> QED BY <1>1, <1>2 DEF BlameInv, Blames, Blameless

\* A record blames the fault engine for what it has decided and for nothing else: every forced error
\* is recorded, budget_exceeded is the name of a refusal, and a corruption was decided for its call.
THEOREM BlameIsRight == Spec => []FaultsAsDecided
<1>1. Init => BlameInv
  <2> SUFFICES ASSUME Init, NEW r \in Requests
               PROVE  Blameless(record[r], decision[r])
    BY BlamelessIsFine DEF BlameInv
  <2>1. record[r] = EmptyRecord(r) /\ decision[r] = "none"
    BY DEF Init
  <2> QED BY <2>1 DEF Blameless, EmptyRecord, Forced, Refusals
<1>2. IInv /\ BlameInv /\ [Next]_vars => BlameInv'
  BY AdmissionBlames, DecisionBlames, ResponseBlames, QuietBlames DEF Next, HandlerRuns, ClientPaced
<1>3. IInv /\ BlameInv => FaultsAsDecided
  <2> SUFFICES ASSUME IInv, BlameInv, NEW i \in DOMAIN sent
               PROVE  /\ sent[i] = record[sent[i].id]
                      /\ Blames(record[sent[i].id], decision[sent[i].id])
    BY DEF FaultsAsDecided, Blames, Forced, Refusals, Mutates
  <2>1. sent[i].id \in Requests
    BY LogTypes DEF IInv
  <2> QED BY <2>1 DEF IInv, SentInv, BlameInv
<1> QED BY Invariance, <1>1, <1>2, <1>3, PTL DEF Spec

------------------------------------------------------------------------------
(* The other properties. *)

\* However the agents race and retry, no more calls than the cap allows reach the provider.
THEOREM CapAtTheProvider == Spec => []UpstreamWithinCap
<1>1. IInv => UpstreamWithinCap
  <2> SUFFICES ASSUME IInv PROVE UpstreamWithinCap
    OBVIOUS
  <2> DEFINE Passed == {r \in Requests : decision[r] \in {"Forward", "malformed_tool_call_json"}}
  <2>1. Passed \subseteq Permitted
    BY DEF IInv, RequestInv, LInv, Permitted
  <2>2. IsFiniteSet(Permitted)
    <3>1. Permitted \subseteq Requests
      BY DEF Permitted
    <3> QED BY <3>1, BudgetAssumption, FS_Subset
  <2>3. Cardinality(Permitted) \in 0..MaxLlmCalls
    BY DEF IInv, LInv, Ledger!LedgerTypeOK
  <2> HIDE DEF Passed
  <2>4. Cardinality(Passed) <= Cardinality(Permitted) /\ Cardinality(Passed) \in Nat
    BY <2>1, <2>2, FS_Subset, FS_CardinalityType
  <2>5. MaxLlmCalls \in Nat
    BY BudgetAssumption
  <2>6. Cardinality(Passed) <= MaxLlmCalls
    BY <2>3, <2>4, <2>5
  <2> QED BY <2>6 DEF UpstreamWithinCap, Passed
<1> QED BY Invariance, <1>1, PTL

\* A record has the cost that its request has been charged, and none if its usage is not metered.
THEOREM CostsTrue == Spec => []CostsAsCharged
<1>1. IInv => CostsAsCharged
  <2> SUFFICES ASSUME IInv, NEW i \in DOMAIN sent
               PROVE  /\ sent[i].cost_usd = cost[sent[i].id]
                      /\ sent[i].usage # "Metered" => sent[i].cost_usd = NoCost
    BY DEF CostsAsCharged
  <2>1. sent[i].id \in Requests /\ sent[i] = record[sent[i].id]
    BY LogTypes DEF IInv, SentInv
  <2>2. RequestInv(sent[i].id)
    BY <2>1 DEF IInv
  <2> QED BY <2>1, <2>2 DEF RequestInv
<1> QED BY Invariance, <1>1, PTL

\* What the collector has gathered is the beginning of the log.
LEMMA GatheredRecords ==
    ASSUME IInv
    PROVE  /\ Len(requests) \in Nat /\ Len(requests) <= Len(sent) /\ Len(sent) \in Nat
           /\ DOMAIN requests = 1..Len(requests)
           /\ \A i \in 1..Len(requests) :
                /\ sent[i] \in RecordType
                /\ CP!Unnumbered(requests[i]) = sent[i]
                /\ \A field \in Fields : requests[i][field] = sent[i][field]
<1>1. \A rec \in RecordType : CP!Plain(rec) /\ DOMAIN rec = Fields
  BY DEF RecordType, CP!Plain, Fields
<1>2. CP!CInv(RecordType, SnapshotType)
  BY DEF IInv
<1> QED BY <1>1, <1>2, CP!CollectedRecords

\* The report keeps the order that an agent has seen: what was answered before a request arrived
\* comes before it.
THEOREM AgentOrder == Spec => []RealTimeOrder
<1>1. IInv => RealTimeOrder
  <2> SUFFICES ASSUME IInv, NEW i \in DOMAIN requests, NEW j \in DOMAIN requests,
                      requests[i].id \in before[requests[j].id].answered
               PROVE  i < j
    BY DEF RealTimeOrder
  <2>1. /\ i \in DOMAIN sent /\ j \in DOMAIN sent
        /\ requests[i].id = sent[i].id /\ requests[j].id = sent[j].id
    BY GatheredRecords, LogTypes DEF IInv, Fields
  <2> QED BY <2>1 DEF IInv, BeforeInv
<1> QED BY Invariance, <1>1, PTL
------------------------------------------------------------------------------
(* The proxy implements the life of a process that the test runner relies on. *)

\* Once the collector has left its receive loop, which it does for the Shutdown of main() only,
\* nothing is sent any more, and what has been sent before has been gathered.
LEMMA NothingMissing ==
    ASSUME IInv, collector # "receiving"
    PROVE  /\ server \in {"flushing", "exited"}
           /\ Len(requests) = Len(sent)
           /\ budget_snapshot = Snapshot
           /\ \A r \in Requests : stage[r] \in {"idle"} \cup Over
<1>1. CP!FirstShutdown /\ handles = "alive"
  BY DEF IInv, CP!CInv, ServerInv
<1>2. /\ shutdowns # <<>>
      /\ budget_snapshot = shutdowns[1].snapshot
      /\ shutdowns[1].after <= Len(requests)
  BY <1>1 DEF CP!FirstShutdown
<1>3. server \in {"flushing", "exited"}
  BY <1>2 DEF IInv, ServerInv, Typed
<1>4. /\ shutdowns[1] = [snapshot |-> Snapshot, after |-> Len(sent)]
      /\ \A r \in Requests : stage[r] \in {"idle"} \cup Over
  BY <1>3 DEF IInv, ServerInv
<1>5. Len(requests) = Len(sent)
  BY <1>2, <1>4, GatheredRecords
<1> QED BY <1>2, <1>3, <1>4, <1>5

\* The phase and the file as Lifecycle sees them.
Phase == IF server # "flushing" THEN server
         ELSE IF report = "none" THEN "writing" ELSE "written"

Stripped == [i \in DOMAIN requests |-> Collector!Unnumbered(requests[i])]

File == IF Written THEN Stripped ELSE NoFile

\* The file that is written holds exactly what has been sent.
LEMMA FileComplete == ASSUME IInv, collector # "receiving" PROVE Stripped = sent
<1>1. /\ Len(requests) = Len(sent) /\ Len(sent) \in Nat /\ DOMAIN requests = 1..Len(sent)
      /\ \A i \in 1..Len(sent) : CP!Unnumbered(requests[i]) = sent[i]
  BY NothingMissing, GatheredRecords
<1>2. \A i \in 1..Len(sent) : Collector!Unnumbered(requests[i]) = sent[i]
  BY <1>1 DEF Collector!Unnumbered, CP!Unnumbered
<1>3. sent = [i \in 1..Len(sent) |-> sent[i]]
  BY LogTypes DEF IInv
<1> QED BY <1>1, <1>2, <1>3 DEF Stripped

\* What a handler does before its report, the process's environment does not see.
LEMMA HandlerHidden ==
    ASSUME NEW r \in Requests, HandlerRuns(r) \/ ClientPaced(r), ~Report(r)
    PROVE  UNCHANGED <<server, reportVars>>
<1>1. CASE CheckCost(r) \/ Reserve(r) \/ RefuseCall(r) \/ RejectOptions(r) \/ Decide(r)
  BY <1>1 DEF CheckCost, Reserve, RefuseCall, RejectOptions, Decide
<1>2. CASE RelayForeign(r) \/ TakeHead(r) \/ FailUpstream(r)
  BY <1>2 DEF RelayForeign, TakeHead, FailUpstream
<1>3. CASE MeterBody(r) \/ MeterFails(r) \/ MutateBody(r) \/ MutateFails(r)
  BY <1>3 DEF MeterBody, MeterFails, MutateBody, MutateFails
<1>4. CASE ClientPaced(r)
  BY <1>4 DEF ClientPaced, Arrive, Cancel, ReadForeignBody, RejectBody, AcceptBody, StreamEnds,
              StreamBreaks
<1> QED BY <1>1, <1>2, <1>3, <1>4 DEF HandlerRuns

\* A record that is sent is an answer of a process that serves or drains.
LEMMA ReportRefines ==
    ASSUME IInv, NEW r \in Requests, Report(r) PROVE Lifecycle!Answer
<1>1. /\ stage[r] = "reporting" /\ UNCHANGED server
      /\ sent' = Append(sent, record[r]) /\ UNCHANGED <<requests, report>>
  BY RecordSent DEF Report
<1>2. server \in {"serving", "draining"}
  BY <1>1 DEF IInv, ServerInv, Over, Typed
<1>3. sent \in Seq(RecordType) /\ record[r] \in RecordType
  BY LogTypes DEF IInv, Typed
<1>4. Len(sent') = Len(sent) + 1 /\ IsStrictPrefix(sent, sent')
  <2>1. /\ Len(sent) \in Nat /\ Len(sent') = Len(sent) + 1
        /\ SubSeq(sent', 1, Len(sent)) = sent /\ sent # sent'
    BY <1>1, <1>3
  <2> QED BY <2>1, <1>3 DEF IsStrictPrefix, IsPrefix
<1>5. Phase' = Phase /\ File' = File /\ Phase \in {"serving", "draining"}
  BY <1>1, <1>2 DEF Phase, File, Written, Collector!Written, Stripped
<1> QED BY <1>4, <1>5 DEF Lifecycle!Answer, Lifecycle!Listening, Phase, File, Stripped,
                          IsStrictPrefix, IsPrefix, Lifecycle!IsStrictPrefix, Lifecycle!IsPrefix

\* Each step of the proxy is a step of the process, or hidden.
LEMMA StepRefines == IInv /\ [Next]_vars => [Lifecycle!Next]_(Lifecycle!vars)
<1> SUFFICES ASSUME IInv, [Next]_vars
             PROVE  Lifecycle!Next \/ UNCHANGED Lifecycle!vars
  OBVIOUS
<1>h. ASSUME UNCHANGED <<server, reportVars>>
      PROVE  UNCHANGED Lifecycle!vars
  BY <1>h DEF reportVars, Lifecycle!vars, Written, Collector!Written, Collector!Unnumbered
<1>1. ASSUME NEW r \in Requests, HandlerRuns(r) \/ ClientPaced(r)
      PROVE  Lifecycle!Next \/ UNCHANGED Lifecycle!vars
  <2>1. CASE Report(r)
    BY <2>1, ReportRefines DEF Lifecycle!Next
  <2>2. CASE ~Report(r)
    BY <1>1, <1>h, <2>2, HandlerHidden
  <2> QED BY <2>1, <2>2
<1>2. CASE ShutdownSignal
  <2>1. /\ server = "serving" /\ server' = "draining"
        /\ UNCHANGED <<sent, requests, report>>
    BY <1>2 DEF ShutdownSignal, reportVars
  <2>2. Lifecycle!Sigterm
    BY <2>1 DEF Lifecycle!Sigterm, Lifecycle!GoTo, Written, Collector!Written,
                Collector!Unnumbered
  <2> QED BY <2>2 DEF Lifecycle!Next
<1>3. CASE EndOfServe
  <2>1. /\ server = "draining" /\ server' = "flushing"
        /\ UNCHANGED <<sent, requests, report>>
    BY <1>3 DEF EndOfServe, Collector!RequestShutdown, Collector!collectorVars
  <2>2. report = "none"
    <3>1. collector = "receiving"
      BY <2>1, NothingMissing
    <3> QED BY <3>1 DEF IInv, ServerInv
  <2>3. Lifecycle!Drained
    BY <2>1, <2>2 DEF Lifecycle!Drained, Lifecycle!GoTo, Written, Collector!Written
  <2> QED BY <2>3 DEF Lifecycle!Next
<1>4. CASE Exit
  <2>1. /\ server = "flushing" /\ server' = "exited" /\ collector = "done"
        /\ UNCHANGED <<sent, requests, report>>
    BY <1>4 DEF Exit, reportVars
  <2>2. report # "none"
    BY <2>1 DEF IInv, ServerInv
  <2>3. Lifecycle!Exit
    BY <2>1, <2>2 DEF Lifecycle!Exit, Lifecycle!GoTo, Written, Collector!Written,
                      Collector!Unnumbered
  <2> QED BY <2>3 DEF Lifecycle!Next
<1>5. CASE CollectorRuns
  <2>1. CP!CollectorStep /\ UNCHANGED server /\ server # "exited"
    BY <1>5, CollectorSame DEF CollectorRuns
  <2>2. report = "none" /\ UNCHANGED sent
    <3>1. collector # "done" /\ UNCHANGED sent
      BY <2>1 DEF CP!CollectorStep, CP!CollectRecord, CP!RecvShutdown, CP!RecvClosed,
                  CP!DrainShutdown, CP!DrainEmpty, CP!Flush, CP!senderVars
    <3> QED BY <3>1 DEF IInv, ServerInv
  <2>3. CASE CP!Flush
    <3>1. /\ collector = "flushing" /\ report' \in {"written", "write_failed"}
          /\ UNCHANGED requests
      BY <2>3 DEF CP!Flush
    <3>2. server = "flushing" /\ Stripped = sent
      BY <2>1, <3>1, NothingMissing, FileComplete
    <3>3. Phase = "writing" /\ Phase' = "written" /\ File' \in {sent, NoFile}
      <4>1. Stripped' = Stripped
        BY <3>1 DEF Stripped
      <4> QED BY <2>1, <2>2, <3>1, <3>2, <4>1 DEF Phase, File, Written, Collector!Written
    <3>4. Lifecycle!WriteReport
      BY <2>2, <3>3 DEF Lifecycle!WriteReport, Phase, File, Stripped
    <3> QED BY <3>4 DEF Lifecycle!Next
  <2>4. CASE ~CP!Flush
    <3>1. UNCHANGED report
      BY <2>1, <2>4 DEF CP!CollectorStep, CP!CollectRecord, CP!RecvShutdown, CP!RecvClosed,
                        CP!DrainShutdown, CP!DrainEmpty, CP!collectorVars
    <3>2. UNCHANGED Lifecycle!vars
      BY <2>1, <2>2, <3>1 DEF Lifecycle!vars, Written, Collector!Written
    <3> QED BY <3>2
  <2> QED BY <2>3, <2>4
<1>6. CASE UNCHANGED vars
  BY <1>6, <1>h DEF vars
<1> QED BY <1>1, <1>2, <1>3, <1>4, <1>5, <1>6 DEF Next

\* The proxy keeps the promise that the test runner is composed with: whatever is answered before
\* the end of the drain, and nothing later, is in the one report written before the process ends.
THEOREM LifecycleImplemented == Spec => ImplementsLifecycle
<1>1. Init => Phase = "serving" /\ sent = <<>> /\ File = NoFile
  BY DEF Init, Collector!Init, Phase, File, Written, Collector!Written
<1> QED BY <1>1, Invariance, StepRefines, PTL
        DEF Spec, ImplementsLifecycle, Lifecycle!ServingSpec, Phase, File, Stripped
------------------------------------------------------------------------------
(* The report and the budget count the same things in different places. *)

\* One turn of the loop of build_report that adds the costs up.
CostStep(q, total, i) ==
    IF q[i].cost_usd = NoCost THEN total
    ELSE IF total + q[i].cost_usd > MaxU64 THEN MaxU64 ELSE total + q[i].cost_usd

IsCostLoop(t, q, n) ==
    /\ t[0] = 0
    /\ \A k \in 1..n : t[k] = CostStep(q, t[k - 1], k)
    /\ Collector!ObservedCost(q) = t[n]

\* ObservedCost is that loop, turn by turn.
LEMMA CostLoop ==
    ASSUME NEW q, NEW n \in Nat, DOMAIN q = 1..n,
           \A i \in 1..n : q[i].cost_usd \in Costs \cup {NoCost}
    PROVE  \E t \in [0..n -> 0..MaxU64] : IsCostLoop(t, q, n)
<1> DEFINE h == [i \in 1..n |-> [total \in 0..MaxU64 |-> CostStep(q, total, i)]]
           Is(f) == f = [z \in SUBSET DOMAIN q |->
                           IF z = {} THEN 0
                           ELSE LET x == Max(z) IN CostStep(q, f[z \ {x}], x)]
           Iter == CHOOSE f : Is(f)
           t == [k \in 0..n |-> Iter[1..k]]
<1>0. \A i \in 1..n, total \in 0..MaxU64 : CostStep(q, total, i) \in 0..MaxU64
  <2> SUFFICES ASSUME NEW i \in 1..n, NEW total \in 0..MaxU64
               PROVE  CostStep(q, total, i) \in 0..MaxU64
    OBVIOUS
  <2>1. q[i].cost_usd \in Costs \cup {NoCost} /\ MaxU64 \in Nat /\ Costs \subseteq 0..MaxU64
    BY BudgetAssumption
  <2> DEFINE x == q[i].cost_usd
  <2>2. CASE x = NoCost
    BY <2>2 DEF CostStep
  <2>3. CASE x # NoCost
    <3>1. x \in 0..MaxU64
      BY <2>1, <2>3
    <3>2. CostStep(q, total, i) = IF total + x > MaxU64 THEN MaxU64 ELSE total + x
      BY <2>3 DEF CostStep
    <3> HIDE DEF x
    <3> QED BY <2>1, <3>1, <3>2
  <2> QED BY <2>2, <2>3
<1>1. h \in [1..n -> [0..MaxU64 -> 0..MaxU64]] /\ 0 \in 0..MaxU64
  BY <1>0, BudgetAssumption
<1>2. \E f : Is(f)
  <2>1. PICK g \in [SUBSET (1..n) -> 0..MaxU64] : IsFold(g, 0, h, n)
    <3> HIDE DEF h
    <3> QED BY <1>1, FoldExists
  <2>2. ASSUME NEW z \in SUBSET (1..n), z # {}
        PROVE  g[z] = CostStep(q, g[z \ {Max(z)}], Max(z))
    <3>1. Max(z) \in z
      BY <2>2, MaxIn
    <3>2. z \ {Max(z)} \in SUBSET (1..n) /\ Max(z) \in 1..n
      BY <3>1
    <3>3. h[Max(z)][g[z \ {Max(z)}]] = CostStep(q, g[z \ {Max(z)}], Max(z))
      BY <3>2
    <3> QED BY <3>3, <2>1, <2>2 DEF IsFold
  <2>3. Is(g)
    <3> HIDE DEF h
    <3> QED BY <2>1, <2>2 DEF IsFold
  <2> QED BY <2>3
<1>3. Is(Iter)
  BY <1>2
<1>4. Collector!ObservedCost(q) = Iter[DOMAIN q]
  BY DEF Collector!ObservedCost, Collector!FoldLeft, Collector!MapThenFoldSet, Collector!Max,
         Max, CostStep
<1> HIDE DEF Iter
<1>5. \A z \in SUBSET (1..n) :
        Iter[z] = IF z = {} THEN 0 ELSE CostStep(q, Iter[z \ {Max(z)}], Max(z))
  BY <1>3
<1> HIDE DEF Is, h
<1>6. t[0] = 0
  <2>1. 1..0 = {} /\ {} \in SUBSET (1..n)
    OBVIOUS
  <2>2. t[0] = Iter[{}]
    BY <2>1
  <2> QED BY <1>5, <2>1, <2>2
<1>7. \A k \in 1..n : t[k] = CostStep(q, t[k - 1], k)
  <2> SUFFICES ASSUME NEW k \in 1..n  PROVE t[k] = CostStep(q, t[k - 1], k)
    OBVIOUS
  <2>1. k \in Nat \ {0} /\ 1..k \in SUBSET (1..n)
    OBVIOUS
  <2>2. Iter[1..k] = CostStep(q, Iter[1..(k - 1)], k)
    BY <1>5, <2>1, LastOfUpTo
  <2>3. k \in 0..n /\ k - 1 \in 0..n
    OBVIOUS
  <2> QED BY <2>2, <2>3
<1> DEFINE Good == {k \in 0..n : t[k] \in 0..MaxU64}
<1>8. \A k \in 0..n : k \in Good
  <2>1. 0 \in Good
    <3>1. 0 \in 0..n
      OBVIOUS
    <3> HIDE DEF t
    <3> QED BY <1>1, <1>6, <3>1
  <2>2. ASSUME NEW k \in 0..(n - 1), k \in Good
        PROVE  k + 1 \in Good
    <3>1. k + 1 \in 1..n /\ (k + 1) - 1 = k /\ k + 1 \in 0..n
      OBVIOUS
    <3>2. t[k] \in 0..MaxU64
      BY <2>2
    <3> HIDE DEF t
    <3>3. t[k + 1] = CostStep(q, t[(k + 1) - 1], k + 1)
      BY <1>7, <3>1
    <3>4. CostStep(q, t[k], k + 1) \in 0..MaxU64
      BY <1>0, <3>1, <3>2
    <3> QED BY <3>1, <3>3, <3>4
  <2> HIDE DEF Good
  <2> QED BY <2>1, <2>2, UpTo
<1>9. t \in [0..n -> 0..MaxU64] /\ t[n] = Iter[DOMAIN q]
  BY <1>8
<1> HIDE DEF t
<1>10. IsCostLoop(t, q, n)
  BY <1>4, <1>6, <1>7, <1>9 DEF IsCostLoop
<1> QED BY <1>9, <1>10

\* The costs of some of the requests.
Partial(c, S) == [r \in Requests |-> IF r \in S THEN c[r] ELSE NoCost]

IdsOf(q, S)   == {q[i].id : i \in S}
IdsUpTo(q, k) == IdsOf(q, 1..k)

\* In whatever order the costs of the requests are added up, the saturating sum is the same: it is
\* the cardinality of their units, up to u64::MAX.
LEMMA CostOfLog ==
    ASSUME NEW q, NEW n \in Nat, DOMAIN q = 1..n, NEW c \in [Requests -> Costs \cup {NoCost}],
           \A i \in 1..n : q[i].id \in Requests /\ q[i].cost_usd = c[q[i].id],
           \A i, j \in 1..n : q[i].id = q[j].id => i = j
    PROVE  Collector!ObservedCost(q) = Capped(Cardinality(Units(Partial(c, IdsUpTo(q, n)))))
<1>0. PICK t \in [0..n -> 0..MaxU64] : IsCostLoop(t, q, n)
  BY CostLoop
<1>1. /\ t[0] = 0
      /\ \A k \in 1..n : t[k] = CostStep(q, t[k - 1], k)
      /\ Collector!ObservedCost(q) = t[n]
  BY <1>0 DEF IsCostLoop
<1> DEFINE Part(k) == Partial(c, IdsUpTo(q, k))
           Fine(k) == t[k] = Capped(Cardinality(Units(Part(k))))
           Good    == {k \in 0..n : Fine(k)}
<1>2. Fine(0)
  <2>1. Units(Part(0)) = {}
    <3>1. IdsUpTo(q, 0) = {}
      BY DEF IdsUpTo, IdsOf
    <3> QED BY <3>1 DEF Units, Partial
  <2>2. Cardinality(Units(Part(0))) = 0
    BY <2>1, FS_EmptySet
  <2> HIDE DEF Part
  <2> QED BY <1>1, <2>2, BudgetAssumption DEF Capped
<1>3. ASSUME NEW k \in 0..(n - 1), Fine(k)
      PROVE  Fine(k + 1)
  <2> DEFINE r == q[k + 1].id
             x == c[r]
             a == Cardinality(Units(Part(k)))
  <2>1. /\ k + 1 \in 1..n /\ (k + 1) - 1 = k /\ r \in Requests /\ q[k + 1].cost_usd = x
        /\ 1..(k + 1) = (1..k) \cup {k + 1} /\ \A i \in 1..k : i \in 1..n /\ i # k + 1
    OBVIOUS
  <2>2. IdsUpTo(q, k + 1) = IdsUpTo(q, k) \cup {r} /\ r \notin IdsUpTo(q, k)
    BY <2>1 DEF IdsUpTo, IdsOf
  <2>3. Part(k + 1) = [Part(k) EXCEPT ![r] = x] /\ Part(k)[r] = NoCost
        /\ Part(k) \in [Requests -> Costs \cup {NoCost}]
    BY <2>1, <2>2 DEF Partial
  <2>4. t[k + 1] = CostStep(q, t[k], k + 1) /\ t[k] = Capped(a)
    BY <1>1, <1>3, <2>1
  <2>5. a \in Nat
    BY UnitsFinite
  <2>6. x \in Costs \cup {NoCost}
    BY <2>1
  <2> HIDE DEF Part, r, x, a
  <2>7. CASE x = NoCost
    <3>1. Part(k + 1) = Part(k)
      BY <2>3, <2>7
    <3> QED BY <2>1, <2>4, <2>7, <3>1 DEF CostStep, a
  <2>8. CASE x # NoCost
    <3>0. x \in Costs /\ x \in 0..MaxU64 /\ MaxU64 \in Nat
      BY <2>6, <2>8, BudgetAssumption
    <3>1. Cardinality(Units(Part(k + 1))) = a + x
      <4> DEFINE p == Part(k)
      <4>1. p \in [Requests -> Costs \cup {NoCost}] /\ p[r] = NoCost /\ r \in Requests
        BY <2>1, <2>3
      <4>2. Part(k + 1) = [p EXCEPT ![r] = x]
        BY <2>3
      <4>3. a = Cardinality(Units(p))
        BY DEF a
      <4> HIDE DEF p, Fine
      <4>4. Cardinality(Units([p EXCEPT ![r] = x])) = Cardinality(Units(p)) + x
        BY <3>0, <4>1, UnitsAdd
      <4> QED BY <4>2, <4>3, <4>4
    <3>2. CostStep(q, t[k], k + 1) = Capped(a + x)
      BY <2>1, <2>4, <2>5, <2>8, <3>0 DEF CostStep, Capped
    <3> QED BY <2>4, <3>1, <3>2
  <2> QED BY <2>7, <2>8
<1>4. \A k \in 0..n : k \in Good
  <2>1. 0 \in Good
    <3>1. 0 \in 0..n
      OBVIOUS
    <3> HIDE DEF Fine
    <3> QED BY <1>2, <3>1
  <2>2. \A k \in 0..(n - 1) : k \in Good => k + 1 \in Good
    <3>1. \A k \in 0..(n - 1) : k + 1 \in 0..n
      OBVIOUS
    <3> HIDE DEF Fine
    <3> QED BY <1>3, <3>1
  <2> HIDE DEF Good
  <2> QED BY <2>1, <2>2, UpTo
<1>5. Fine(n)
  <2>1. n \in 0..n
    OBVIOUS
  <2> HIDE DEF Fine
  <2> QED BY <1>4, <2>1
<1> QED BY <1>1, <1>5

\* Records with different requests are as many as their requests.
LEMMA AsManyIds ==
    ASSUME NEW q, NEW n \in Nat, NEW S \in SUBSET (1..n),
           \A i, j \in 1..n : q[i].id = q[j].id => i = j
    PROVE  Cardinality(IdsOf(q, S)) = Cardinality(S)
<1> DEFINE T == IdsOf(q, S)
           f == [i \in S |-> q[i].id]
<1>1. f \in Bijection(S, T)
  BY DEF Bijection, Injection, Surjection, IsInjective, IdsOf
<1>2. ExistsBijection(S, T)
  BY <1>1 DEF ExistsBijection
<1>3. IsFiniteSet(S)
  BY OneTo, FS_Subset
<1> HIDE DEF T
<1>4. Cardinality(T) = Cardinality(S)
  BY <1>2, <1>3, FS_Bijection
<1> QED BY <1>4 DEF T

\* The written report is complete and agrees with the snapshot of the budget that it carries.
THEOREM ReportAgreesWithBudget == Spec => []ReportMatchesBudget
<1> DEFINE lost   == {r \in Requests : stage[r] = "cancelled" /\ call_number[r] # 0}
           billed == {i \in 1..Len(requests) : requests[i].call_number # 0}
           kept   == {r \in Answered : call_number[r] # 0}
<1>1. ASSUME IInv, Written PROVE ReportMatchesBudget
  <2>0. collector # "receiving"
    BY <1>1 DEF Written, Collector!Written, IInv, ServerInv
  <2>1. /\ Len(requests) = Len(sent) /\ Len(sent) = Cardinality(Answered)
        /\ budget_snapshot = Snapshot
        /\ \A r \in Requests : stage[r] \in {"idle", "answered", "cancelled"}
    BY <1>1, <2>0, NothingMissing DEF IInv, SentInv, Over
  <2>2. /\ Len(requests) \in Nat /\ DOMAIN requests = 1..Len(requests)
        /\ \A i \in 1..Len(requests) :
             /\ requests[i].id \in Answered
             /\ requests[i].cost_usd = cost[requests[i].id]
             /\ requests[i].call_number = call_number[requests[i].id]
        /\ \A i, j \in 1..Len(requests) : requests[i].id = requests[j].id => i = j
        /\ IdsUpTo(requests, Len(requests)) = Answered
    <3>1. /\ Len(requests) \in Nat /\ DOMAIN requests = 1..Len(requests)
          /\ DOMAIN sent = 1..Len(requests)
          /\ \A i \in 1..Len(requests) :
               /\ requests[i].id = sent[i].id /\ requests[i].cost_usd = sent[i].cost_usd
               /\ requests[i].call_number = sent[i].call_number
      BY <1>1, <2>1, GatheredRecords, LogTypes DEF IInv, Fields
    <3>2. \A i \in 1..Len(requests) : sent[i].id \in Answered /\ sent[i] = record[sent[i].id]
      BY <1>1, <3>1, LogTypes DEF IInv, SentInv, Answered
    <3>3. \A r \in Answered : record[r].cost_usd = cost[r] /\ record[r].call_number = call_number[r]
      BY <1>1 DEF IInv, RequestInv, Answered
    <3>4. \A i, j \in 1..Len(requests) : requests[i].id = requests[j].id => i = j
      BY <1>1, <3>1 DEF IInv, SentInv
    <3>5. \A r \in Answered : \E i \in 1..Len(requests) : requests[i].id = r
      BY <1>1, <3>1 DEF IInv, SentInv
    <3>6. IdsUpTo(requests, Len(requests)) = Answered
      BY <3>1, <3>2, <3>5 DEF IdsUpTo, IdsOf
    <3> QED BY <3>1, <3>2, <3>3, <3>4, <3>6
  <2>3. Collector!ObservedCost(requests) = observed_cost_usd
    <3>1. cost \in [Requests -> Costs \cup {NoCost}]
      BY <1>1 DEF IInv, Typed, Ledger!LedgerTypeOK
    <3>2. \A i \in 1..Len(requests) : requests[i].id \in Requests
      BY <2>2 DEF Answered
    <3>3. Collector!ObservedCost(requests) = Capped(Cardinality(Units(Partial(cost, Answered))))
      BY <2>2, <3>1, <3>2, CostOfLog
    <3>4. Partial(cost, Answered) = cost
      <4>1. \A r \in Requests : cost[r] # NoCost => r \in Answered
        BY <1>1, <2>1 DEF IInv, RequestInv, Answered
      <4> QED BY <3>1, <4>1 DEF Partial
    <3> QED BY <1>1, <3>3, <3>4 DEF IInv, LInv
  <2>4. Cardinality(billed) = Cardinality(kept)
    <3>1. kept = IdsOf(requests, billed)
      BY <2>2 DEF IdsUpTo, IdsOf
    <3>2. billed \in SUBSET (1..Len(requests))
      OBVIOUS
    <3> HIDE DEF kept, billed
    <3> QED BY <2>2, <3>1, <3>2, AsManyIds
  <2>5. Cardinality(kept) + Cardinality(lost) = calls_reserved /\ Cardinality(kept) \in Nat
    <3>1. kept \cup lost = Permitted /\ kept \cap lost = {}
      <4>1. \A r \in Requests : stage[r] = "idle" => call_number[r] = 0
        BY <1>1 DEF IInv, RequestInv, LInv
      <4> QED BY <2>1, <4>1 DEF Permitted, Answered
    <3>2. IsFiniteSet(kept) /\ IsFiniteSet(lost)
      <4>1. kept \subseteq Requests /\ lost \subseteq Requests
        BY DEF Answered
      <4> HIDE DEF kept, lost
      <4> QED BY <4>1, BudgetAssumption, FS_Subset
    <3> HIDE DEF kept, lost
    <3>3. /\ Cardinality(kept \cup lost) =
               Cardinality(kept) + Cardinality(lost) - Cardinality(kept \cap lost)
          /\ Cardinality(kept \cap lost) = 0
          /\ Cardinality(kept) \in Nat /\ Cardinality(lost) \in Nat
      BY <3>1, <3>2, FS_Union, FS_EmptySet, FS_CardinalityType
    <3> DEFINE a == Cardinality(kept)
               b == Cardinality(lost)
    <3>a. Cardinality(Permitted) = a + b - 0 /\ a \in Nat /\ b \in Nat
      BY <3>1, <3>3
    <3> HIDE DEF a, b
    <3>b. Cardinality(Permitted) = a + b
      BY <3>a
    <3>4. Cardinality(kept) + Cardinality(lost) = Cardinality(Permitted)
      BY <3>b DEF a, b
    <3> QED BY <1>1, <3>3, <3>4 DEF IInv, LInv
  <2>6. /\ FinalReport.total_proxy_requests = Len(requests)
        /\ FinalReport.summary.observed_cost_usd = Collector!ObservedCost(requests)
        /\ FinalReport.budget_snapshot = budget_snapshot
    BY DEF FinalReport, Collector!Report, Collector!Summarize
  <2>7. FinalReport.billable_llm_calls = Cardinality(billed)
    <3>1. {i \in DOMAIN requests : requests[i].call_number # 0} = billed
      BY <2>2
    <3>2. FinalReport.billable_llm_calls =
            Collector!Count(requests, LAMBDA rec : rec.call_number # 0)
      BY DEF FinalReport, Collector!Report
    <3>3. Collector!Count(requests, LAMBDA rec : rec.call_number # 0) =
            Cardinality({i \in DOMAIN requests : requests[i].call_number # 0})
      BY DEF Collector!Count, Collector!Indices, Collector!Cardinality, Cardinality,
             Collector!IsFiniteSet, IsFiniteSet
    <3> QED BY <3>1, <3>2, <3>3
  <2>8. /\ budget_snapshot.observed_cost_usd = observed_cost_usd
        /\ budget_snapshot.calls_reserved = calls_reserved
    BY <2>1 DEF Snapshot
  <2> HIDE DEF lost, billed, kept
  <2>9. /\ FinalReport.total_proxy_requests = Cardinality(Answered)
        /\ FinalReport.summary.observed_cost_usd = FinalReport.budget_snapshot.observed_cost_usd
        /\ FinalReport.billable_llm_calls + Cardinality(lost) =
             FinalReport.budget_snapshot.calls_reserved
    BY <2>1, <2>3, <2>4, <2>5, <2>6, <2>7, <2>8
  <2> QED BY <2>9 DEF ReportMatchesBudget, Answered, lost
<1>2. IInv => ReportMatchesBudget
  <2>1. ~Written => ReportMatchesBudget
    BY DEF ReportMatchesBudget
  <2> QED BY <1>1, <2>1
<1> QED BY Invariance, <1>2, PTL
==============================================================================
