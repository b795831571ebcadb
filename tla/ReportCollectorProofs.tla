------------------------ MODULE ReportCollectorProofs ------------------------
(***************************************************************************)
(* Proofs about ReportCollector, for any records, any snapshots and any    *)
(* number of sends and of shutdown requests.                               *)
(***************************************************************************)
EXTENDS ReportCollector, Foundations

\* What the handlers may have put into the channel, and the collector into its Vec.
Events(R, S)  == [kind : {"Request"}, record : R] \cup [kind : {"Shutdown"}, snapshot : S]
NumberedOf(R) == {Numbered(record, n) : record \in R, n \in Nat}

Typed(R, S) ==
    /\ channel \in Seq(Events(R, S))
    /\ handles \in {"alive", "dropped"}
    /\ collector \in {"receiving", "draining", "flushing", "done"}
    /\ requests \in Seq(NumberedOf(R))
    /\ next_sequence = Len(requests) + 1
    /\ budget_snapshot \in S \cup {NoSnapshot}
    /\ report \in {"none", "written", "write_failed"}
    /\ sent \in Seq(R)
    /\ shutdowns \in Seq([snapshot : S, after : Nat])

\* What has been collected is the beginning of what was sent, numbered from one.
Collected ==
    /\ Len(requests) <= Len(sent)
    /\ \A i \in DOMAIN requests : requests[i] = Numbered(sent[i], i)

Pending == {i \in DOMAIN channel : channel[i].kind = "Request"}
Ahead(i) == {j \in Pending : j <= i}

\* The rest of what was sent is in the channel, in the same order.
Queued ==
    collector \in {"receiving", "draining"} =>
      /\ Len(sent) = Len(requests) + Cardinality(Pending)
      /\ \A i \in Pending : sent[Len(requests) + Cardinality(Ahead(i))] = channel[i].record

\* Where the first Shutdown is: not yet sent, in the channel behind Requests only, or taken.
AtShutdown(i) ==
    /\ channel[i] = ShutdownEvent(shutdowns[1].snapshot)
    /\ \A j \in 1..(i - 1) : channel[j].kind = "Request"
    /\ Len(requests) + i = shutdowns[1].after + 1

FirstShutdown ==
    IF collector = "receiving"
    THEN IF shutdowns = <<>> THEN Pending = DOMAIN channel
         ELSE \E i \in DOMAIN channel : AtShutdown(i)
    ELSE \/ shutdowns = <<>> /\ handles = "dropped"
         \/ /\ shutdowns # <<>>
            /\ budget_snapshot = shutdowns[1].snapshot
            /\ shutdowns[1].after <= Len(requests)

\* A report is written once the collector is past its loops.
WrittenIsLate == report = "written" => collector = "done"

CInv(R, S) == Typed(R, S) /\ Collected /\ Queued /\ FirstShutdown
------------------------------------------------------------------------------
(* Lemmas about the data. *)

\* The collector's number can be taken off again.
LEMMA NumberedFacts ==
    ASSUME NEW record, Plain(record), NEW n
    PROVE  /\ Numbered(record, n).sequence = n
           /\ Unnumbered(Numbered(record, n)) = record
           /\ \A field \in DOMAIN record : Numbered(record, n)[field] = record[field]
BY DEF Plain, Numbered, Unnumbered

\* The elements of a queue other than its head, before and after the head has gone: they are
\* as many, in the same order.
LEMMA Shift ==
    ASSUME NEW n \in Nat, NEW P \in SUBSET (1..(n + 1)), NEW Q,
           Q = {i \in 1..n : i + 1 \in P}
    PROVE  /\ IsFiniteSet(P) /\ IsFiniteSet(Q)
           /\ Cardinality(P) = Cardinality(Q) + IF 1 \in P THEN 1 ELSE 0
<1>1. IsFiniteSet(1..(n + 1)) /\ IsFiniteSet(1..n)
  BY FS_Interval
<1>2. IsFiniteSet(P) /\ IsFiniteSet(Q)
  BY <1>1, FS_Subset
<1> DEFINE f == [i \in Q |-> i + 1]
<1>3. f \in Bijection(Q, P \ {1})
  <2>1. f \in Injection(Q, P \ {1})
    BY DEF Injection, IsInjective
  <2>2. \A j \in P \ {1} : j - 1 \in Q /\ f[j - 1] = j
    OBVIOUS
  <2>3. f \in Surjection(Q, P \ {1})
    BY <2>1, <2>2 DEF Surjection, Injection
  <2> QED BY <2>1, <2>3 DEF Bijection
<1>4. Cardinality(P \ {1}) = Cardinality(Q)
  BY <1>2, <1>3, FS_Bijection DEF ExistsBijection
<1>5. Cardinality(P) \in Nat /\ Cardinality(Q) \in Nat
  BY <1>2, FS_CardinalityType
<1>6. Cardinality(P \ {1}) = IF 1 \in P THEN Cardinality(P) - 1 ELSE Cardinality(P)
  BY <1>2, FS_RemoveElement
<1> HIDE DEF f
<1> QED BY <1>2, <1>4, <1>5, <1>6
------------------------------------------------------------------------------
(* The senders. *)

\* A channel event is a Request or a Shutdown.
LEMMA EventFacts ==
    ASSUME NEW R, NEW S
    PROVE  /\ \A record \in R : /\ RequestEvent(record) \in Events(R, S)
                                /\ RequestEvent(record).kind = "Request"
                                /\ RequestEvent(record).record = record
           /\ \A snapshot \in S : /\ ShutdownEvent(snapshot) \in Events(R, S)
                                  /\ ShutdownEvent(snapshot).kind = "Shutdown"
                                  /\ ShutdownEvent(snapshot).snapshot = snapshot
           /\ \A event \in Events(R, S) :
                \/ event.kind = "Request" /\ event.record \in R
                \/ event.kind = "Shutdown" /\ event.snapshot \in S
                     /\ event = ShutdownEvent(event.snapshot)
BY DEF Events, RequestEvent, ShutdownEvent

\* The requests in the channel are finitely many.
LEMMA PendingFinite ==
    ASSUME NEW E, channel \in Seq(E)
    PROVE  /\ IsFiniteSet(Pending) /\ Cardinality(Pending) \in Nat
           /\ \A i : IsFiniteSet(Ahead(i)) /\ Cardinality(Ahead(i)) \in 0..Cardinality(Pending)
<1>1. Len(channel) \in Nat /\ DOMAIN channel = 1..Len(channel)
  OBVIOUS
<1>2. IsFiniteSet(Pending)
  <2>1. Pending \in SUBSET (1..Len(channel))
    BY <1>1 DEF Pending
  <2>2. IsFiniteSet(1..Len(channel))
    BY <1>1, FS_Interval
  <2> QED BY <2>1, <2>2, FS_Subset
<1>3. \A i : Ahead(i) \in SUBSET Pending
  BY DEF Ahead
<1> QED BY <1>2, <1>3, FS_Subset, FS_CardinalityType

\* A shutdown request that has been made has a position in the order of the sends.
LEMMA ShutdownAfter ==
    ASSUME NEW R, NEW S, Typed(R, S), shutdowns # <<>>
    PROVE  shutdowns[1].after \in Nat /\ shutdowns[1].snapshot \in S
<1>1. shutdowns \in Seq([snapshot : S, after : Nat])
  BY DEF Typed
<1>2. shutdowns[1] \in [snapshot : S, after : Nat]
  BY <1>1, FirstElement
<1> QED BY <1>2

\* What is pushed into the channel comes after what is in it.
LEMMA PushPending ==
    ASSUME NEW R, NEW S, channel \in Seq(Events(R, S)), NEW event \in Events(R, S),
           channel' = Append(channel, event)
    PROVE  /\ Pending' = IF event.kind = "Request" THEN Pending \cup {Len(channel) + 1}
                         ELSE Pending
           /\ \A i \in Pending : Ahead(i)' = Ahead(i) /\ channel'[i] = channel[i]
           /\ \A i : i = Len(channel) + 1 => Ahead(i)' = Pending'
<1>1. /\ Len(channel) \in Nat /\ DOMAIN channel = 1..Len(channel)
      /\ DOMAIN channel' = 1..(Len(channel) + 1)
      /\ \A i \in DOMAIN channel : channel'[i] = channel[i]
      /\ channel'[Len(channel) + 1] = event
  OBVIOUS
<1>2. Pending' = IF event.kind = "Request" THEN Pending \cup {Len(channel) + 1} ELSE Pending
  BY <1>1 DEF Pending
<1> QED BY <1>1, <1>2 DEF Ahead, Pending

\* ReportHandle::record keeps the invariant, whether the collector is still there or not.
LEMMA RecordStep ==
    ASSUME NEW R, NEW S, CInv(R, S), NEW record \in R, Record(record)
    PROVE  CInv(R, S)'
<1> DEFINE event == RequestEvent(record)
<1> USE DEF CInv, Record, Send, collectorVars
<1>1. /\ Len(sent) \in Nat /\ Len(requests) \in Nat /\ Len(sent') = Len(sent) + 1
      /\ \A i \in 1..Len(sent) : sent'[i] = sent[i]
      /\ sent'[Len(sent) + 1] = record
      /\ DOMAIN requests = 1..Len(requests)
      /\ UNCHANGED <<collector, requests, next_sequence, budget_snapshot, report, shutdowns>>
      /\ handles' = handles
  BY DEF Typed
<1>2. event \in Events(R, S) /\ event.kind = "Request" /\ event.record = record
  BY EventFacts
<1> HIDE DEF event
<1>3. Typed(R, S)'
  BY <1>1, <1>2 DEF Typed, event
<1>4. Collected'
  BY <1>1 DEF Collected
<1>5. ASSUME collector # "done"
      PROVE  /\ Pending' = Pending \cup {Len(channel) + 1} /\ Len(channel) + 1 \notin Pending
             /\ \A i \in Pending : Ahead(i)' = Ahead(i) /\ channel'[i] = channel[i]
             /\ channel'[Len(channel) + 1] = event
             /\ \A i : i = Len(channel) + 1 => Ahead(i)' = Pending'
  <2>1. channel' = Append(channel, event) /\ channel \in Seq(Events(R, S))
    BY <1>5 DEF event, Typed
  <2>2. Len(channel) \in Nat /\ Len(channel) + 1 \notin Pending
           /\ channel'[Len(channel) + 1] = event
    BY <2>1 DEF Pending
  <2> QED BY <1>2, <2>1, <2>2, PushPending
<1>6. /\ IsFiniteSet(Pending) /\ Cardinality(Pending) \in Nat
      /\ \A i : IsFiniteSet(Ahead(i)) /\ Cardinality(Ahead(i)) \in 0..Cardinality(Pending)
  BY PendingFinite DEF Typed
<1>7. Queued'
  <2> SUFFICES ASSUME collector \in {"receiving", "draining"}
               PROVE  /\ Len(sent') = Len(requests) + Cardinality(Pending')
                      /\ \A i \in Pending' :
                           sent'[Len(requests) + Cardinality(Ahead(i)')] = channel'[i].record
    BY <1>1 DEF Queued
  <2>1. Cardinality(Pending') = Cardinality(Pending) + 1
    BY <1>5, <1>6, FS_AddElement
  <2>2. Len(sent) = Len(requests) + Cardinality(Pending)
    BY DEF Queued
  <2>3. ASSUME NEW i \in Pending
        PROVE  sent'[Len(requests) + Cardinality(Ahead(i)')] = channel'[i].record
    <3>1. sent[Len(requests) + Cardinality(Ahead(i))] = channel[i].record
      BY DEF Queued
    <3>2. Ahead(i)' = Ahead(i) /\ channel'[i] = channel[i]
      BY <1>5
    <3>3. Cardinality(Ahead(i)) # 0
      <4>1. i \in Ahead(i)
        BY <2>3, PendingFinite DEF Ahead, Pending, Typed
      <4> QED BY <4>1, <1>6, FS_EmptySet
    <3>4. Len(requests) + Cardinality(Ahead(i)) \in 1..Len(sent)
      BY <1>1, <1>6, <2>2, <3>3
    <3> QED BY <1>1, <3>1, <3>2, <3>4
  <2>4. sent'[Len(requests) + Cardinality(Pending')] = channel'[Len(channel) + 1].record
    BY <1>1, <1>2, <1>5, <1>6, <2>1, <2>2
  <2>5. Len(sent') = Len(requests) + Cardinality(Pending')
    BY <1>1, <1>6, <2>1, <2>2
  <2>6. ASSUME NEW i \in Pending'
        PROVE  sent'[Len(requests) + Cardinality(Ahead(i)')] = channel'[i].record
    <3>1. CASE i \in Pending
      BY <2>3, <3>1
    <3>2. CASE i = Len(channel) + 1
      BY <1>5, <2>4, <3>2
    <3> QED BY <1>5, <3>1, <3>2
  <2> QED BY <2>5, <2>6
<1>8. FirstShutdown'
  <2>1. CASE collector # "receiving"
    BY <1>1, <2>1 DEF FirstShutdown
  <2>2. CASE collector = "receiving" /\ shutdowns = <<>>
    <3>1. DOMAIN channel' = DOMAIN channel \cup {Len(channel) + 1}
      BY <2>2 DEF Typed
    <3> QED BY <1>1, <1>5, <2>2, <3>1 DEF FirstShutdown
  <2>3. CASE collector = "receiving" /\ shutdowns # <<>>
    <3>1. PICK i \in DOMAIN channel : AtShutdown(i)
      BY <2>3 DEF FirstShutdown
    <3>2. i \in DOMAIN channel' /\ \A j \in 1..i : channel'[j] = channel[j]
      BY <2>3 DEF Typed
    <3>3. AtShutdown(i)'
      BY <1>1, <3>1, <3>2 DEF AtShutdown, Typed
    <3> QED BY <1>1, <2>3, <3>2, <3>3 DEF FirstShutdown
  <2> QED BY <2>1, <2>2, <2>3
<1> QED BY <1>3, <1>4, <1>7, <1>8

\* A Shutdown does not disturb the records that wait; the first one has them all before it.
LEMMA ShutdownStep ==
    ASSUME NEW R, NEW S, CInv(R, S), NEW snapshot \in S, RequestShutdown(snapshot)
    PROVE  CInv(R, S)'
<1> DEFINE event == ShutdownEvent(snapshot)
<1> USE DEF CInv, RequestShutdown, Send, collectorVars
<1>1. /\ Len(sent) \in Nat /\ Len(requests) \in Nat
      /\ UNCHANGED <<collector, requests, next_sequence, budget_snapshot, report, sent>>
      /\ handles = "alive" /\ handles' = handles
      /\ shutdowns' # <<>>
      /\ shutdowns'[1] = IF shutdowns = <<>> THEN [snapshot |-> snapshot, after |-> Len(sent)]
                         ELSE shutdowns[1]
  BY DEF Typed
<1>2. event \in Events(R, S) /\ event.kind = "Shutdown" /\ event = ShutdownEvent(snapshot)
  BY EventFacts
<1> HIDE DEF event
<1>3. Typed(R, S)'
  BY <1>1, <1>2 DEF Typed
<1>4. Collected'
  BY <1>1 DEF Collected
<1>5. ASSUME collector # "done"
      PROVE  /\ Pending' = Pending
             /\ \A i \in Pending : Ahead(i)' = Ahead(i) /\ channel'[i] = channel[i]
             /\ \A i \in DOMAIN channel : i \in DOMAIN channel' /\ channel'[i] = channel[i]
             /\ Len(channel) + 1 \in DOMAIN channel'
             /\ channel'[Len(channel) + 1] = event
  <2>1. channel' = Append(channel, event) /\ channel \in Seq(Events(R, S))
    BY <1>2, <1>5 DEF Typed
  <2>2. /\ \A i \in DOMAIN channel : i \in DOMAIN channel' /\ channel'[i] = channel[i]
        /\ Len(channel) + 1 \in DOMAIN channel'
        /\ channel'[Len(channel) + 1] = event
    BY <2>1
  <2> QED BY <1>2, <2>1, <2>2, PushPending
<1>6. Queued'
  <2> SUFFICES ASSUME collector \in {"receiving", "draining"}
               PROVE  Queued'
    BY <1>1 DEF Queued
  <2> QED BY <1>1, <1>5 DEF Queued
<1>7. FirstShutdown'
  <2>1. CASE collector # "receiving"
    BY <1>1, <2>1 DEF FirstShutdown
  <2>2. CASE collector = "receiving" /\ shutdowns = <<>>
    <3> DEFINE last == Len(channel) + 1
    <3>1. Pending = DOMAIN channel
      BY <2>2 DEF FirstShutdown
    <3>2. Len(sent) = Len(requests) + Cardinality(Pending)
      BY <2>2 DEF Queued
    <3>3. Len(channel) \in Nat /\ DOMAIN channel = 1..Len(channel)
      BY DEF Typed
    <3>4. Cardinality(1..Len(channel)) = Len(channel)
      BY <3>3, OneTo
    <3>5. shutdowns'[1].snapshot = snapshot /\ shutdowns'[1].after = Len(requests) + Len(channel)
      BY <1>1, <2>2, <3>1, <3>2, <3>3, <3>4
    <3>6. \A j \in 1..Len(channel) : channel'[j].kind = "Request"
      BY <1>5, <2>2, <3>1, <3>3 DEF Pending
    <3>7. ASSUME NEW i, i = last
          PROVE  AtShutdown(i)'
      <4>1. channel'[i] = ShutdownEvent(snapshot) /\ i - 1 = Len(channel)
        BY <1>2, <1>5, <2>2, <3>3, <3>7
      <4>2. Len(requests) + i = shutdowns'[1].after + 1
        BY <1>1, <3>3, <3>5, <3>7
      <4> QED BY <1>1, <3>5, <3>6, <4>1, <4>2 DEF AtShutdown
    <3> QED BY <1>1, <1>5, <2>2, <3>7 DEF FirstShutdown
  <2>3. CASE collector = "receiving" /\ shutdowns # <<>>
    <3>1. PICK i \in DOMAIN channel : AtShutdown(i)
      BY <2>3 DEF FirstShutdown
    <3>2. i \in DOMAIN channel' /\ \A j \in 1..i : channel'[j] = channel[j]
      BY <1>5, <2>3 DEF Typed
    <3>3. AtShutdown(i)'
      BY <1>1, <2>3, <3>1, <3>2 DEF AtShutdown, Typed
    <3> QED BY <1>1, <2>3, <3>2, <3>3 DEF FirstShutdown
  <2> QED BY <2>1, <2>2, <2>3
<1> QED BY <1>3, <1>4, <1>6, <1>7
------------------------------------------------------------------------------
(* The collector. *)

\* What is behind the head of the channel moves up by one when the head is taken.
LEMMA PopPending ==
    ASSUME NEW E, channel \in Seq(E), channel # <<>>, channel' = Tail(channel)
    PROVE  /\ \A i \in DOMAIN channel' : i + 1 \in DOMAIN channel /\ channel'[i] = channel[i + 1]
           /\ Cardinality(Pending) = Cardinality(Pending') + IF 1 \in Pending THEN 1 ELSE 0
           /\ \A i \in Pending' :
                /\ i + 1 \in Pending
                /\ Cardinality(Ahead(i + 1)) =
                     Cardinality(Ahead(i)') + IF 1 \in Pending THEN 1 ELSE 0
<1> DEFINE n == Len(channel) - 1
<1>1. /\ n \in Nat /\ DOMAIN channel = 1..(n + 1) /\ DOMAIN channel' = 1..n
      /\ \A i \in 1..n : channel'[i] = channel[i + 1]
  OBVIOUS
<1> HIDE DEF n
<1>2. Pending \in SUBSET (1..(n + 1)) /\ Pending' = {i \in 1..n : i + 1 \in Pending}
  BY <1>1 DEF Pending
<1>3. Cardinality(Pending) = Cardinality(Pending') + IF 1 \in Pending THEN 1 ELSE 0
  BY <1>1, <1>2, Shift
<1>4. ASSUME NEW i \in Pending'
      PROVE  /\ i + 1 \in Pending
             /\ Cardinality(Ahead(i + 1)) = Cardinality(Ahead(i)') + IF 1 \in Pending THEN 1 ELSE 0
  <2>1. i \in 1..n /\ i + 1 \in Pending
    BY <1>2, <1>4
  <2> DEFINE P == Ahead(i + 1)
             Q == Ahead(i)'
  <2>2. P \in SUBSET (1..(n + 1)) /\ Q = {j \in 1..n : j + 1 \in P}
    <3>1. P = {j \in Pending : j <= i + 1} /\ Q = {j \in Pending' : j <= i}
      BY DEF Ahead
    <3>2. P \in SUBSET (1..(n + 1))
      BY <1>2, <3>1
    <3>3. \A j \in 1..n : j <= i <=> j + 1 <= i + 1
      BY <1>1, <2>1
    <3>4. Q = {j \in 1..n : j + 1 \in P}
      <4> HIDE DEF P, Q
      <4> QED BY <1>1, <1>2, <3>1, <3>3
    <3> QED BY <3>2, <3>4
  <2>3. 1 \in P <=> 1 \in Pending
    BY <1>2, <2>1 DEF Ahead
  <2> HIDE DEF P, Q
  <2>4. Cardinality(P) = Cardinality(Q) + IF 1 \in P THEN 1 ELSE 0
    BY <1>1, <2>2, Shift
  <2> QED BY <2>1, <2>3, <2>4 DEF P, Q
<1> QED BY <1>1, <1>3, <1>4

\* Taking a Request keeps the invariant, in the receive loop and in the drain loop.
LEMMA CollectStep ==
    ASSUME NEW R, NEW S, CInv(R, S), CollectRecord
    PROVE  CInv(R, S)'
<1> DEFINE record == Head(channel).record
           n == Len(requests)
<1> USE DEF CInv
<1>1. /\ collector \in {"receiving", "draining"}
      /\ next_sequence = n + 1 /\ next_sequence' = n + 2
      /\ Len(sent) \in Nat /\ n \in Nat /\ DOMAIN requests = 1..n
      /\ DOMAIN requests' = 1..(n + 1) /\ Len(requests') = n + 1
      /\ \A i \in 1..n : requests'[i] = requests[i]
      /\ requests'[n + 1] = Numbered(record, n + 1)
      /\ UNCHANGED <<collector, budget_snapshot, report, handles, sent, shutdowns>>
      /\ channel # <<>> /\ channel' = Tail(channel)
      /\ Head(channel) = channel[1] /\ 1 \in DOMAIN channel
      /\ Head(channel).kind = "Request"
  BY DEF Typed, CollectRecord, senderVars
<1>2. 1 \in Pending /\ record \in R
  BY <1>1, EventFacts DEF Pending, Typed
<1>3. /\ IsFiniteSet(Pending) /\ Cardinality(Pending) \in Nat
      /\ \A i : IsFiniteSet(Ahead(i)) /\ Cardinality(Ahead(i)) \in 0..Cardinality(Pending)
  BY PendingFinite DEF Typed
<1>4. /\ \A i \in DOMAIN channel' : i + 1 \in DOMAIN channel /\ channel'[i] = channel[i + 1]
      /\ Cardinality(Pending) = Cardinality(Pending') + 1
      /\ \A i \in Pending' : /\ i + 1 \in Pending
                             /\ Cardinality(Ahead(i + 1)) = Cardinality(Ahead(i)') + 1
  BY <1>1, <1>2, PopPending DEF Typed
<1>5. Cardinality(Pending') \in Nat /\ \A i : Cardinality(Ahead(i)') \in Nat
  <2>1. channel' \in Seq(Events(R, S))
    BY <1>1 DEF Typed
  <2>2. IsFiniteSet(Pending)' /\ \A i : Ahead(i)' \in SUBSET Pending'
    <3>1. Pending' \in SUBSET (1..Len(channel')) /\ Len(channel') \in Nat
      BY <2>1 DEF Pending
    <3>2. IsFiniteSet(1..Len(channel'))
      BY <3>1, FS_Interval
    <3> QED BY <3>1, <3>2, FS_Subset DEF Ahead
  <2> QED BY <2>2, FS_Subset, FS_CardinalityType
<1>6. sent[n + 1] = record /\ n < Len(sent)
  <2>1. Ahead(1) = {1}
    BY <1>1, <1>2 DEF Ahead, Pending, Typed
  <2>2. Cardinality(Ahead(1)) = 1
    BY <2>1, FS_Singleton
  <2> QED BY <1>1, <1>2, <1>4, <1>5, <2>2 DEF Queued
<1> HIDE DEF record, n
<1>7. Typed(R, S)'
  <2>1. Numbered(record, n + 1) \in NumberedOf(R)
    BY <1>1, <1>2 DEF NumberedOf
  <2>2. channel' \in Seq(Events(R, S)) /\ requests' \in Seq(NumberedOf(R))
    <3>1. requests' = Append(requests, Numbered(record, n + 1))
      BY <1>1 DEF CollectRecord, record
    <3> QED BY <1>1, <2>1, <3>1 DEF Typed
  <2> QED BY <1>1, <2>2 DEF Typed, n
<1>8. Collected'
  BY <1>1, <1>6 DEF Collected, n
<1>9. Queued'
  <2>0. Len(sent) = n + Cardinality(Pending)
    BY <1>1 DEF Queued, n
  <2>4. Len(sent) = Len(requests') + Cardinality(Pending')
    BY <1>1, <1>4, <1>5, <2>0
  <2> SUFFICES ASSUME NEW i \in Pending'
               PROVE  sent[Len(requests') + Cardinality(Ahead(i)')] = channel'[i].record
    BY <1>1, <2>4 DEF Queued
  <2>1. sent[n + Cardinality(Ahead(i + 1))] = channel[i + 1].record
    BY <1>1, <1>4 DEF Queued, n
  <2>2. channel'[i] = channel[i + 1]
    BY <1>4 DEF Pending
  <2>3. Len(requests') + Cardinality(Ahead(i)') = n + Cardinality(Ahead(i + 1))
    BY <1>1, <1>4, <1>5
  <2> QED BY <2>1, <2>2, <2>3
<1>10. FirstShutdown'
  <2>0. shutdowns # <<>> => shutdowns[1].after \in Nat
    BY ShutdownAfter
  <2>1. CASE collector = "draining"
    BY <1>1, <2>0, <2>1 DEF FirstShutdown, n
  <2>2. CASE collector = "receiving" /\ shutdowns = <<>>
    <3>1. Pending' = DOMAIN channel'
      BY <1>4, <2>2 DEF FirstShutdown, Pending
    <3> QED BY <1>1, <2>2, <3>1 DEF FirstShutdown
  <2>3. CASE collector = "receiving" /\ shutdowns # <<>>
    <3>1. PICK i \in DOMAIN channel : AtShutdown(i)
      BY <2>3 DEF FirstShutdown
    <3>2. i # 1
      BY <1>1, <1>2, <3>1, EventFacts DEF AtShutdown, Pending, ShutdownEvent
    <3>3. i - 1 \in DOMAIN channel'
      BY <1>1, <3>1, <3>2 DEF Typed
    <3>4. i \in Nat /\ (i - 1) + 1 = i /\ shutdowns[1].after \in Nat
      BY <2>0, <2>3 DEF Typed
    <3>5. ASSUME NEW k, k = i - 1
          PROVE  AtShutdown(k)'
      <4>1. channel'[k] = ShutdownEvent(shutdowns[1].snapshot)
        BY <1>4, <3>1, <3>3, <3>4, <3>5 DEF AtShutdown
      <4>2. ASSUME NEW j \in 1..(k - 1)
            PROVE  channel'[j].kind = "Request"
        <5>1. DOMAIN channel' = 1..Len(channel')
          BY <1>1 DEF Typed
        <5>2. j \in DOMAIN channel' /\ j + 1 \in 1..(i - 1)
          BY <3>3, <3>4, <3>5, <5>1
        <5> QED BY <1>4, <3>1, <5>2 DEF AtShutdown
      <4>3. Len(requests') + k = shutdowns'[1].after + 1
        BY <1>1, <3>1, <3>4, <3>5 DEF AtShutdown, n
      <4> QED BY <1>1, <4>1, <4>2, <4>3 DEF AtShutdown
    <3> QED BY <1>1, <2>3, <3>3, <3>5 DEF FirstShutdown
  <2> QED BY <1>1, <2>1, <2>2, <2>3
<1> QED BY <1>7, <1>8, <1>9, <1>10

\* Taking a Shutdown does not disturb the records that wait: the first one ends the receive loop,
\* the drain loop passes over the others.
LEMMA TakeShutdownStep ==
    ASSUME NEW R, NEW S, CInv(R, S), RecvShutdown \/ DrainShutdown
    PROVE  CInv(R, S)'
<1> USE DEF CInv
<1>1. /\ Len(sent) \in Nat /\ Len(requests) \in Nat
      /\ UNCHANGED <<requests, next_sequence, report, handles, sent, shutdowns>>
      /\ channel # <<>> /\ channel' = Tail(channel) /\ channel' \in Seq(Events(R, S))
      /\ Head(channel) = channel[1] /\ 1 \in DOMAIN channel /\ channel[1] \in Events(R, S)
      /\ channel[1].kind = "Shutdown"
      /\ collector \in {"receiving", "draining"} /\ collector' = "draining"
      /\ budget_snapshot' = IF collector = "receiving" THEN channel[1].snapshot
                            ELSE budget_snapshot
  <2>1. Len(sent) \in Nat /\ Len(requests) \in Nat /\ channel \in Seq(Events(R, S))
    BY DEF Typed
  <2>2. channel # <<>> /\ channel' = Tail(channel)
    BY DEF RecvShutdown, DrainShutdown
  <2>3. /\ Head(channel) = channel[1] /\ 1 \in DOMAIN channel /\ channel[1] \in Events(R, S)
        /\ channel' \in Seq(Events(R, S))
    BY <2>1, <2>2, FirstElement
  <2>4. /\ UNCHANGED <<requests, next_sequence, report, handles, sent, shutdowns>>
        /\ Head(channel).kind = "Shutdown"
        /\ collector \in {"receiving", "draining"} /\ collector' = "draining"
        /\ budget_snapshot' = IF collector = "receiving" THEN Head(channel).snapshot
                              ELSE budget_snapshot
    BY DEF RecvShutdown, DrainShutdown, senderVars, collectorVars
  <2> QED BY <2>1, <2>2, <2>3, <2>4
<1>2. 1 \notin Pending /\ channel[1].snapshot \in S
  BY <1>1, EventFacts DEF Pending
<1>3. /\ IsFiniteSet(Pending) /\ Cardinality(Pending) \in Nat
      /\ \A i : IsFiniteSet(Ahead(i)) /\ Cardinality(Ahead(i)) \in 0..Cardinality(Pending)
  BY PendingFinite DEF Typed
<1>4. /\ \A i \in DOMAIN channel' : i + 1 \in DOMAIN channel /\ channel'[i] = channel[i + 1]
      /\ Cardinality(Pending) = Cardinality(Pending') + 0
      /\ \A i \in Pending' : /\ i + 1 \in Pending
                             /\ Cardinality(Ahead(i + 1)) = Cardinality(Ahead(i)') + 0
  BY <1>1, <1>2, PopPending DEF Typed
<1>5. Cardinality(Pending') \in Nat /\ \A i : Cardinality(Ahead(i)') \in Nat
  <2>1. IsFiniteSet(Pending)' /\ \A i : Ahead(i)' \in SUBSET Pending'
    <3>1. Pending' \in SUBSET (1..Len(channel')) /\ Len(channel') \in Nat
      BY <1>1 DEF Pending
    <3>2. IsFiniteSet(1..Len(channel'))
      BY <3>1, OneTo
    <3> QED BY <3>1, <3>2, FS_Subset DEF Ahead
  <2> QED BY <2>1, FS_Subset, FS_CardinalityType
<1>6. Typed(R, S)'
  BY <1>1, <1>2 DEF Typed
<1>7. Collected'
  BY <1>1 DEF Collected
<1>8. Queued'
  <2>1. Len(sent) = Len(requests) + Cardinality(Pending')
    BY <1>1, <1>4, <1>5 DEF Queued
  <2>2. ASSUME NEW i \in Pending'
        PROVE  sent[Len(requests) + Cardinality(Ahead(i)')] = channel'[i].record
    <3>1. sent[Len(requests) + Cardinality(Ahead(i + 1))] = channel[i + 1].record
      BY <1>1, <1>4 DEF Queued
    <3>2. channel'[i] = channel[i + 1]
      BY <1>4 DEF Pending
    <3>3. Cardinality(Ahead(i)') = Cardinality(Ahead(i + 1))
      BY <1>4, <1>5
    <3> QED BY <3>1, <3>2, <3>3
  <2> QED BY <1>1, <2>1, <2>2 DEF Queued
<1>9. FirstShutdown'
  <2>1. CASE collector = "draining"
    BY <1>1, <2>1 DEF FirstShutdown
  <2>2. CASE collector = "receiving"
    <3>1. shutdowns # <<>>
      BY <1>1, <1>2, <2>2 DEF FirstShutdown
    <3>2. PICK i \in DOMAIN channel : AtShutdown(i)
      BY <2>2, <3>1 DEF FirstShutdown
    <3>3. i = 1
      <4>1. i \in Nat \ {0}
        BY DEF Typed
      <4> QED BY <1>1, <3>2, <4>1 DEF AtShutdown
    <3>4. channel[1].snapshot = shutdowns[1].snapshot
      BY <3>2, <3>3 DEF AtShutdown, ShutdownEvent
    <3>5. shutdowns[1].after <= Len(requests)
      BY <1>1, <3>1, <3>2, <3>3, ShutdownAfter DEF AtShutdown
    <3> QED BY <1>1, <2>2, <3>1, <3>4, <3>5 DEF FirstShutdown
  <2> QED BY <1>1, <2>1, <2>2
<1> QED BY <1>6, <1>7, <1>8, <1>9

\* The steps that take nothing from the channel: the last handle goes, the channel is found
\* closed or empty, the report is written.
LEMMA OtherStep ==
    ASSUME NEW R, NEW S, CInv(R, S), DropHandles \/ RecvClosed \/ DrainEmpty \/ Flush
    PROVE  CInv(R, S)'
<1> USE DEF CInv
<1>1. UNCHANGED <<channel, requests, next_sequence, budget_snapshot, sent, shutdowns>>
  BY DEF DropHandles, RecvClosed, DrainEmpty, Flush, senderVars, collectorVars
<1>2. Typed(R, S)'
  BY <1>1 DEF Typed, DropHandles, RecvClosed, DrainEmpty, Flush, senderVars, collectorVars
<1>3. Collected'
  BY <1>1 DEF Collected
<1>4. Queued'
  <2>1. collector' \in {"receiving", "draining"} => collector \in {"receiving", "draining"}
    BY DEF DropHandles, RecvClosed, DrainEmpty, Flush, collectorVars
  <2>2. Pending' = Pending /\ \A i : Ahead(i)' = Ahead(i)
    BY <1>1 DEF Pending, Ahead
  <2> QED BY <1>1, <2>1, <2>2 DEF Queued
<1>5. FirstShutdown'
  <2>1. CASE DropHandles
    BY <1>1, <2>1 DEF DropHandles, collectorVars, FirstShutdown, Pending, AtShutdown
  <2>2. CASE RecvClosed
    <3>1. shutdowns = <<>>
      BY <2>2 DEF RecvClosed, FirstShutdown
    <3> QED BY <1>1, <2>2, <3>1 DEF RecvClosed, FirstShutdown, senderVars
  <2>3. CASE DrainEmpty \/ Flush
    BY <1>1, <2>3 DEF DrainEmpty, Flush, FirstShutdown, senderVars
  <2> QED BY <2>1, <2>2, <2>3
<1> QED BY <1>2, <1>3, <1>4, <1>5
\* Nor does a step of anything else.
LEMMA StutterStep ==
    ASSUME NEW R, NEW S, CInv(R, S), UNCHANGED vars
    PROVE  CInv(R, S)'
BY DEF vars, collectorVars, senderVars, CInv, Typed, Collected, Queued, FirstShutdown, Pending,
       Ahead, AtShutdown
------------------------------------------------------------------------------
(* The specification. *)

Inv == CInv(Records, Snapshots)

\* The invariant holds before the first send,
LEMMA InitInv == ASSUME NEW R, NEW S, Init PROVE CInv(R, S)
<1>1. Pending = {} /\ Cardinality(Pending) = 0
  <2>1. Pending = {}
    BY DEF Init, Pending
  <2> QED BY <2>1, FS_EmptySet
<1>2. Typed(R, S)
  BY DEF Init, Typed
<1>3. Collected /\ Queued /\ FirstShutdown
  BY <1>1 DEF Init, Collected, Queued, FirstShutdown, Pending
<1> QED BY <1>2, <1>3 DEF CInv

\* and therefore always.
LEMMA Invariance == Spec => []Inv
<1>1. Init => Inv
  BY InitInv DEF Inv
<1>2. Inv /\ [Next]_vars => Inv'
  <2> SUFFICES ASSUME CInv(Records, Snapshots), [Next]_vars
               PROVE  CInv(Records, Snapshots)'
    BY DEF Inv
  <2>1. ASSUME NEW record \in Records, Record(record)
        PROVE  CInv(Records, Snapshots)'
    BY <2>1, RecordStep
  <2>2. ASSUME NEW snapshot \in Snapshots, RequestShutdown(snapshot)
        PROVE  CInv(Records, Snapshots)'
    BY <2>2, ShutdownStep
  <2>3. CASE CollectRecord
    BY <2>3, CollectStep
  <2>4. CASE RecvShutdown \/ DrainShutdown
    BY <2>4, TakeShutdownStep
  <2>5. CASE DropHandles \/ RecvClosed \/ DrainEmpty \/ Flush
    BY <2>5, OtherStep
  <2>6. CASE UNCHANGED vars
    BY <2>6, StutterStep
  <2> QED BY <2>1, <2>2, <2>3, <2>4, <2>5, <2>6 DEF Next, CollectorStep
<1> QED BY <1>1, <1>2, PTL DEF Spec
------------------------------------------------------------------------------
\* What the collector has kept is what was sent, with a number.
LEMMA CollectedRecords ==
    ASSUME NEW R, NEW S, \A record \in R : Plain(record), CInv(R, S)
    PROVE  /\ Len(requests) \in Nat /\ Len(sent) \in Nat /\ Len(requests) <= Len(sent)
           /\ DOMAIN requests = 1..Len(requests)
           /\ \A i \in 1..Len(requests) :
                /\ sent[i] \in R
                /\ requests[i].sequence = i
                /\ Unnumbered(requests[i]) = sent[i]
                /\ \A field \in DOMAIN sent[i] : requests[i][field] = sent[i][field]
<1>1. /\ Len(requests) \in Nat /\ Len(sent) \in Nat
      /\ DOMAIN requests = 1..Len(requests)
      /\ \A i \in 1..Len(sent) : sent[i] \in R
  BY DEF CInv, Typed
<1>2. Len(requests) <= Len(sent) /\ \A i \in DOMAIN requests : requests[i] = Numbered(sent[i], i)
  BY DEF CInv, Collected
<1>3. ASSUME NEW i \in 1..Len(requests)
      PROVE  /\ sent[i] \in R
             /\ requests[i].sequence = i
             /\ Unnumbered(requests[i]) = sent[i]
             /\ \A field \in DOMAIN sent[i] : requests[i][field] = sent[i][field]
  <2>1. sent[i] \in R /\ requests[i] = Numbered(sent[i], i)
    BY <1>1, <1>2
  <2> QED BY <2>1, NumberedFacts
<1> QED BY <1>1, <1>2, <1>3

\* Every variable of the collector stays in its range; its counter is one ahead of its Vec.
THEOREM CollectorTypeCorrect == Spec => []CollectorTypeOK
<1>1. Inv => CollectorTypeOK
  <2> SUFFICES ASSUME CInv(Records, Snapshots)  PROVE CollectorTypeOK
    BY DEF Inv
  <2>1. \A i \in DOMAIN channel : channel[i] \in Events(Records, Snapshots)
    BY DEF CInv, Typed
  <2>2. \A i \in DOMAIN channel : channel[i].kind \in {"Request", "Shutdown"}
    BY <2>1, EventFacts
  <2> QED BY <2>2 DEF CInv, Typed, CollectorTypeOK
<1> QED BY <1>1, Invariance, PTL

\* Until the last try_recv of run_collector no record that ReportHandle::record has sent is lost,
\* duplicated or reordered.
THEOREM NothingLost == Spec => []Conserved
<1>1. Inv => Conserved
  <2> SUFFICES ASSUME CInv(Records, Snapshots), collector \in {"receiving", "draining"}
               PROVE  /\ Len(sent) = Len(requests) + Cardinality(Pending)
                      /\ \A i \in DOMAIN requests : sent[i] = Unnumbered(requests[i])
                      /\ \A i \in Pending :
                           sent[Len(requests) + Cardinality({j \in Pending : j <= i})]
                             = channel[i].record
    BY DEF Inv, Conserved, Pending
  <2>1. Queued
    BY DEF CInv
  <2> QED BY <2>1, CollectedRecords, RecordsAssumption DEF Queued, Ahead
<1> QED BY <1>1, Invariance, PTL

\* The records of the report are numbered 1, 2, ... in the order of their sends, across the end
\* of the receive loop.
THEOREM NumbersDense == Spec => []SequenceDense
<1>1. Inv => SequenceDense
  <2> SUFFICES ASSUME CInv(Records, Snapshots)  PROVE SequenceDense
    BY DEF Inv
  <2> DEFINE kept == [i \in DOMAIN requests |-> Unnumbered(requests[i])]
             n == Len(requests)
  <2>1. /\ n \in Nat /\ Len(sent) \in Nat /\ n <= Len(sent) /\ DOMAIN requests = 1..n
        /\ \A i \in 1..n : requests[i].sequence = i /\ Unnumbered(requests[i]) = sent[i]
    BY CollectedRecords, RecordsAssumption
  <2>2. sent \in Seq(Records)
    BY DEF CInv, Typed
  <2> HIDE DEF n
  <2>3. /\ kept = [i \in 1..n |-> sent[i]]
        /\ kept \in Seq(Records) /\ Len(kept) = n
    BY <2>1, <2>2
  <2>4. SubSeq(kept, 1, n) = SubSeq(sent, 1, n)
    BY <2>1, <2>2, <2>3
  <2> QED BY <2>1, <2>3, <2>4 DEF SequenceDense, IsPrefix
<1> QED BY <1>1, Invariance, PTL

\* The written report carries the snapshot of the first Shutdown and every record sent before
\* it, whatever the drain loop of run_collector still finds.
THEOREM FirstShutdownDecides == Spec => []FirstShutdownWins
<1>1. Inv /\ WrittenIsLate => FirstShutdownWins
  <2> SUFFICES ASSUME CInv(Records, Snapshots), WrittenIsLate, report = "written",
                      shutdowns # <<>>
               PROVE  budget_snapshot = shutdowns[1].snapshot /\ Len(requests) >= shutdowns[1].after
    BY DEF Inv, FirstShutdownWins, Written, Report
  <2>1. Len(requests) \in Nat /\ shutdowns[1].after \in Nat
    BY ShutdownAfter DEF CInv, Typed
  <2> QED BY <2>1 DEF CInv, FirstShutdown, WrittenIsLate
<1>2. Init => WrittenIsLate
  BY DEF Init, WrittenIsLate
<1>3. WrittenIsLate /\ [Next]_vars => WrittenIsLate'
  BY DEF WrittenIsLate, Next, CollectorStep, Record, RequestShutdown, DropHandles, CollectRecord,
         RecvShutdown, RecvClosed, DrainShutdown, DrainEmpty, Flush, vars, collectorVars, senderVars
<1> QED BY <1>1, <1>2, <1>3, Invariance, PTL DEF Spec

\* When run_collector starts to write, nothing that has been sent by then is missing.
THEOREM DrainComplete == Spec => NothingLeftBehind
<1> DEFINE Complete == collector # "flushing" /\ collector' = "flushing" =>
                         Len(requests) = Len(sent)
<1>1. Inv /\ [Next]_vars => Complete
  <2> SUFFICES ASSUME CInv(Records, Snapshots), [Next]_vars,
                      collector # "flushing", collector' = "flushing"
               PROVE  Len(requests) = Len(sent)
    BY DEF Inv
  <2>1. DrainEmpty
    BY DEF Next, CollectorStep, Record, RequestShutdown, DropHandles, CollectRecord, RecvShutdown,
           RecvClosed, DrainShutdown, Flush, vars, collectorVars, senderVars
  <2>2. Pending = {} /\ collector = "draining"
    BY <2>1 DEF DrainEmpty, Pending
  <2>3. Len(sent) = Len(requests) + 0
    BY <2>2, FS_EmptySet DEF CInv, Queued
  <2> QED BY <2>3 DEF CInv, Typed
<1>2. Complete => [Complete]_vars
  OBVIOUS
<1> QED BY <1>1, Invariance, PTL DEF Spec, NothingLeftBehind
------------------------------------------------------------------------------
(* The scores of the sessions. *)

\* A record changes the score of its own session only, and takes no recovery back.
LEMMA OneMoreScore ==
    ASSUME NEW T, NEW q \in Seq(T), NEW x \in T, NEW session
    PROVE  /\ x.session_id # session =>
                SummarizeSession(Append(q, x), session) = SummarizeSession(q, session)
           /\ RecoveredIndices(q, EventsOf(q, session))
                \subseteq RecoveredIndices(Append(q, x), EventsOf(Append(q, x), session))
<1> DEFINE p      == Append(q, x)
           before == EventsOf(q, session)
           after  == EventsOf(p, session)
<1>1. /\ after = before \cup (IF x.session_id = session THEN {Len(q) + 1} ELSE {})
      /\ \A i \in before : p[i] = q[i]
  <2>1. /\ Len(q) \in Nat /\ DOMAIN q = 1..Len(q) /\ DOMAIN p = 1..(Len(q) + 1)
        /\ \A i \in 1..Len(q) : p[i] = q[i]
        /\ p[Len(q) + 1] = x
    OBVIOUS
  <2> HIDE DEF p
  <2> QED BY <2>1 DEF EventsOf
<1> HIDE DEF p, before, after
<1>2. RecoveredIndices(q, before) \in SUBSET RecoveredIndices(p, after)
  BY <1>1 DEF RecoveredIndices, FaultIndices
<1>3. ASSUME x.session_id # session
      PROVE  SummarizeSession(p, session) = SummarizeSession(q, session)
  <2>1. after = before /\ \A i \in before : p[i] = q[i]
    BY <1>1, <1>3
  <2>2. FaultIndices(p, after) = FaultIndices(q, before)
    BY <2>1 DEF FaultIndices
  <2>3. RecoveredIndices(p, after) = RecoveredIndices(q, before)
    BY <2>1, <2>2 DEF RecoveredIndices, FaultIndices
  <2> QED BY <2>1, <2>2, <2>3 DEF SummarizeSession, before, after
<1> QED BY <1>2, <1>3 DEF p, before, after

\* Only run_collector adds to its Vec, one record at a time.
LEMMA OneRecordAtATime ==
    ASSUME CInv(Records, Snapshots), [Next]_vars, requests' # requests
    PROVE  \E T : /\ requests \in Seq(T)
                  /\ \E x \in T : requests' = Append(requests, x) /\ Last(requests') = x
<1>1. CollectRecord
  BY DEF Next, CollectorStep, Record, RequestShutdown, DropHandles, RecvShutdown, RecvClosed,
         DrainShutdown, DrainEmpty, Flush, vars, collectorVars, senderVars
<1>2. CInv(Records, Snapshots)'
  BY <1>1, CollectStep
<1> DEFINE T == NumberedOf(Records)
           x == Numbered(Head(channel).record, next_sequence)
<1>3. requests \in Seq(T) /\ requests' \in Seq(T) /\ requests' = Append(requests, x)
  BY <1>1, <1>2 DEF CInv, Typed, CollectRecord
<1> HIDE DEF T, x
<1>4. Last(requests') = x
  BY <1>3 DEF Last
<1>5. x \in T
  <2>1. Len(requests) + 1 \in DOMAIN requests' /\ requests'[Len(requests) + 1] = x
    BY <1>3
  <2> QED BY <1>3, <2>1
<1> QED BY <1>3, <1>4, <1>5

\* summarize_session looks at the records of its own session only: a success in one session
\* never recovers a fault of another one, nor does an unattributed success.
THEOREM ScoresIsolated == Spec => SessionsIsolated
<1> DEFINE Others == {record.session_id : record \in Records} \ {NoSession}
           Isolated == requests' # requests =>
             \A session \in Others :
               SummaryOf(session)' # SummaryOf(session) => Last(requests').session_id = session
<1>1. Inv /\ [Next]_vars => Isolated
  <2> SUFFICES ASSUME CInv(Records, Snapshots), [Next]_vars, requests' # requests,
                      NEW session \in Others, Last(requests').session_id # session
               PROVE  SummaryOf(session)' = SummaryOf(session)
    BY DEF Inv
  <2>1. PICK T : /\ requests \in Seq(T)
                 /\ \E x \in T : requests' = Append(requests, x) /\ Last(requests') = x
    BY OneRecordAtATime
  <2>2. PICK x \in T : requests' = Append(requests, x) /\ Last(requests') = x
    BY <2>1
  <2>3. SummarizeSession(Append(requests, x), session) = SummarizeSession(requests, session)
    BY <2>1, <2>2, OneMoreScore
  <2> QED BY <2>2, <2>3 DEF SummaryOf
<1>2. Isolated => [Isolated]_vars
  OBVIOUS
<1> QED BY <1>1, Invariance, PTL DEF Spec, SessionsIsolated

\* Each fault that summarize_session has scored as recovered stays recovered.
THEOREM RecoveriesKept == Spec => RecoveryKept
<1> DEFINE Others == {record.session_id : record \in Records} \ {NoSession}
           Kept == requests' # requests =>
             \A session \in Others : Recovered(session) \subseteq Recovered(session)'
<1>1. Inv /\ [Next]_vars => Kept
  <2> SUFFICES ASSUME CInv(Records, Snapshots), [Next]_vars, requests' # requests,
                      NEW session \in Others
               PROVE  Recovered(session) \subseteq Recovered(session)'
    BY DEF Inv
  <2>1. PICK T : /\ requests \in Seq(T)
                 /\ \E x \in T : requests' = Append(requests, x) /\ Last(requests') = x
    BY OneRecordAtATime
  <2>2. PICK x \in T : requests' = Append(requests, x) /\ Last(requests') = x
    BY <2>1
  <2>3. RecoveredIndices(requests, EventsOf(requests, session))
          \subseteq RecoveredIndices(Append(requests, x), EventsOf(Append(requests, x), session))
    BY <2>1, <2>2, OneMoreScore
  <2> QED BY <2>2, <2>3 DEF Recovered
<1>2. Kept => [Kept]_vars
  OBVIOUS
<1> QED BY <1>1, Invariance, PTL DEF Spec, RecoveryKept
------------------------------------------------------------------------------
(* The totals of the report: the two folds of aggregate_sessions. *)

\* Iterator::sum, from its loop.
LEMMA TotalLoop ==
    ASSUME NEW s \in Seq(Nat)
    PROVE  \E t \in [0..Len(s) -> Nat] :
              /\ t[0] = 0
              /\ \A k \in 1..Len(s) : t[k] = t[k - 1] + s[k]
              /\ Total(s) = t[Len(s)]
<1> DEFINE n == Len(s)
           h == [i \in 1..n |-> [x \in Nat |-> x + s[i]]]
           Is(f) == f = [z \in SUBSET DOMAIN s |->
                           IF z = {} THEN 0
                           ELSE LET x == Max(z) IN f[z \ {x}] + s[x]]
           Iter == CHOOSE f : Is(f)
           t == [k \in 0..n |-> Iter[1..k]]
<1>1. /\ n \in Nat /\ DOMAIN s = 1..n /\ \A i \in 1..n : s[i] \in Nat
      /\ h \in [1..n -> [Nat -> Nat]]
  OBVIOUS
<1>2. \E f : Is(f)
  <2>1. PICK g \in [SUBSET (1..n) -> Nat] : IsFold(g, 0, h, n)
    <3> HIDE DEF h, n
    <3> QED BY <1>1, FoldExists
  <2>2. ASSUME NEW z \in SUBSET (1..n), z # {}
        PROVE  g[z] = g[z \ {Max(z)}] + s[Max(z)]
    <3>1. Max(z) \in z
      <4> HIDE DEF n
      <4> QED BY <1>1, <2>2, MaxIn
    <3>2. z \ {Max(z)} \in SUBSET (1..n) /\ Max(z) \in 1..n
      BY <3>1
    <3>3. h[Max(z)][g[z \ {Max(z)}]] = g[z \ {Max(z)}] + s[Max(z)]
      BY <3>2
    <3> QED BY <3>3, <2>1, <2>2 DEF IsFold
  <2>3. Is(g)
    <3> HIDE DEF h, n
    <3> QED BY <1>1, <2>1, <2>2 DEF IsFold
  <2> QED BY <2>3
<1>3. Is(Iter)
  BY <1>2
<1>4. Total(s) = Iter[DOMAIN s]
  BY DEF Total, FoldLeft, MapThenFoldSet
<1> HIDE DEF Iter
<1>9. \A z \in SUBSET DOMAIN s :
        Iter[z] = IF z = {} THEN 0 ELSE Iter[z \ {Max(z)}] + s[Max(z)]
  BY <1>3
<1> HIDE DEF Is, h, n
<1>5. t[0] = 0
  <2>1. 1..0 = {} /\ {} \in SUBSET DOMAIN s
    OBVIOUS
  <2>2. t[0] = Iter[{}]
    BY <1>1, <2>1
  <2> QED BY <1>9, <2>1, <2>2
<1>6. \A k \in 1..n : t[k] = t[k - 1] + s[k]
  <2> SUFFICES ASSUME NEW k \in 1..n  PROVE t[k] = t[k - 1] + s[k]
    OBVIOUS
  <2>1. k \in Nat \ {0} /\ 1..k \in SUBSET DOMAIN s /\ k \in 1..k
    BY <1>1
  <2>4. Iter[1..k] = Iter[1..(k - 1)] + s[k]
    BY <1>9, <2>1, LastOfUpTo
  <2>5. k \in 0..n /\ k - 1 \in 0..n
    BY <1>1, <2>1
  <2> QED BY <2>4, <2>5
<1> DEFINE Good == {k \in 0..n : t[k] \in Nat}
<1>7. \A k \in 0..n : k \in Good
  <2>1. 0 \in Good
    BY <1>1, <1>5
  <2>2. ASSUME NEW k \in 0..(n - 1), k \in Good
        PROVE  k + 1 \in Good
    <3>1. k + 1 \in 1..n /\ t[k + 1] = t[k] + s[k + 1]
      <4>1. k + 1 \in 1..n /\ (k + 1) - 1 = k
        BY <1>1
      <4> HIDE DEF t
      <4> QED BY <1>6, <4>1
    <3>2. s[k + 1] \in Nat /\ t[k] \in Nat
      <4>1. t[k] \in Nat
        BY <2>2
      <4> HIDE DEF t, Good
      <4> QED BY <1>1, <3>1, <4>1
    <3>3. k + 1 \in 0..n
      BY <1>1, <3>1
    <3> HIDE DEF t
    <3> QED BY <3>1, <3>2, <3>3
  <2> HIDE DEF Good
  <2> QED BY <1>1, <2>1, <2>2, UpTo
<1>8. t \in [0..n -> Nat] /\ t[n] = Iter[DOMAIN s]
  BY <1>1, <1>7
<1> HIDE DEF t
<1> QED BY <1>4, <1>5, <1>6, <1>8 DEF n

\* One turn of the loop of aggregate_sessions that collects the sessions: the i-th record adds
\* its session, unless it has none or the session is already listed.
OrderStep(q, order, i) ==
    IF ~IsAttributed(q[i]) \/ q[i].session_id \in Range(order) THEN order
    ELSE Append(order, q[i].session_id)

IsOrderLoop(t, q, n) ==
    /\ t[0] = <<>>
    /\ \A k \in 1..n : t[k] = OrderStep(q, t[k - 1], k)
    /\ SessionOrder(q) = t[n]

\* SessionOrder is that loop, turn by turn.
LEMMA OrderLoop ==
    ASSUME NEW q, NEW n \in Nat, DOMAIN q = 1..n, NEW Ids,
           \A i \in 1..n : q[i].session_id \in Ids
    PROVE  \E t \in [0..n -> Seq(Ids)] : IsOrderLoop(t, q, n)
<1> DEFINE h == [i \in 1..n |-> [order \in Seq(Ids) |-> OrderStep(q, order, i)]]
           Is(f) == f = [z \in SUBSET DOMAIN q |->
                           IF z = {} THEN <<>>
                           ELSE LET x == Max(z) IN OrderStep(q, f[z \ {x}], x)]
           Iter == CHOOSE f : Is(f)
           t == [k \in 0..n |-> Iter[1..k]]
<1>0. \A i \in 1..n, order \in Seq(Ids) : OrderStep(q, order, i) \in Seq(Ids)
  BY DEF OrderStep
<1>1. h \in [1..n -> [Seq(Ids) -> Seq(Ids)]] /\ <<>> \in Seq(Ids)
  BY <1>0
<1>2. \E f : Is(f)
  <2>1. PICK g \in [SUBSET (1..n) -> Seq(Ids)] : IsFold(g, <<>>, h, n)
    <3> HIDE DEF h
    <3> QED BY <1>1, FoldExists
  <2>2. ASSUME NEW z \in SUBSET (1..n), z # {}
        PROVE  g[z] = OrderStep(q, g[z \ {Max(z)}], Max(z))
    <3>1. Max(z) \in z
      BY <2>2, MaxIn
    <3>2. z \ {Max(z)} \in SUBSET (1..n) /\ Max(z) \in 1..n
      BY <3>1
    <3>3. h[Max(z)][g[z \ {Max(z)}]] = OrderStep(q, g[z \ {Max(z)}], Max(z))
      BY <3>2
    <3> QED BY <3>3, <2>1, <2>2 DEF IsFold
  <2>3. Is(g)
    <3> HIDE DEF h
    <3> QED BY <2>1, <2>2 DEF IsFold
  <2> QED BY <2>3
<1>3. Is(Iter)
  BY <1>2
<1>4. SessionOrder(q) = Iter[DOMAIN q]
  BY DEF SessionOrder, FoldLeft, MapThenFoldSet, OrderStep
<1> HIDE DEF Iter
<1>5. \A z \in SUBSET (1..n) :
        Iter[z] = IF z = {} THEN <<>> ELSE OrderStep(q, Iter[z \ {Max(z)}], Max(z))
  BY <1>3
<1> HIDE DEF Is, h
<1>6. t[0] = <<>>
  <2>1. 1..0 = {} /\ {} \in SUBSET (1..n)
    OBVIOUS
  <2>2. t[0] = Iter[{}]
    BY <2>1
  <2> QED BY <1>5, <2>1, <2>2
<1>7. \A k \in 1..n : t[k] = OrderStep(q, t[k - 1], k)
  <2> SUFFICES ASSUME NEW k \in 1..n  PROVE t[k] = OrderStep(q, t[k - 1], k)
    OBVIOUS
  <2>1. k \in Nat \ {0} /\ 1..k \in SUBSET (1..n)
    OBVIOUS
  <2>2. Iter[1..k] = OrderStep(q, Iter[1..(k - 1)], k)
    BY <1>5, <2>1, LastOfUpTo
  <2>3. k \in 0..n /\ k - 1 \in 0..n
    OBVIOUS
  <2> QED BY <2>2, <2>3
<1> DEFINE Good == {k \in 0..n : t[k] \in Seq(Ids)}
<1>8. \A k \in 0..n : k \in Good
  <2>1. 0 \in Good
    <3>1. 0 \in 0..n
      OBVIOUS
    <3> HIDE DEF t
    <3> QED BY <1>1, <1>6, <3>1
  <2>2. ASSUME NEW k \in 0..(n - 1), k \in Good
        PROVE  k + 1 \in Good
    <3>1. k + 1 \in 1..n /\ (k + 1) - 1 = k /\ k + 1 \in 0..n
      OBVIOUS
    <3>2. t[k] \in Seq(Ids)
      BY <2>2
    <3> HIDE DEF t
    <3>3. t[k + 1] = OrderStep(q, t[(k + 1) - 1], k + 1)
      BY <1>7, <3>1
    <3>4. OrderStep(q, t[k], k + 1) \in Seq(Ids)
      BY <1>0, <3>1, <3>2
    <3> QED BY <3>1, <3>3, <3>4
  <2> HIDE DEF Good
  <2> QED BY <2>1, <2>2, UpTo
<1>9. t \in [0..n -> Seq(Ids)] /\ t[n] = Iter[DOMAIN q]
  BY <1>8
<1> HIDE DEF t
<1>10. IsOrderLoop(t, q, n)
  BY <1>4, <1>6, <1>7, <1>9 DEF IsOrderLoop
<1> QED BY <1>9, <1>10

\* The records that name a session.
Attributed(q) == {i \in DOMAIN q : IsAttributed(q[i])}

SessionsUpTo(q, k) == {q[i].session_id : i \in {j \in 1..k : IsAttributed(q[j])}}

NoRepeats(order) == \A i, j \in DOMAIN order : order[i] = order[j] => i = j

\* One turn of the loop keeps the list free of repeats and adds the session of its record.
LEMMA OneTurn ==
    ASSUME NEW q, NEW n \in Nat, NEW Ids, \A i \in 1..n : q[i].session_id \in Ids,
           NEW k \in 0..(n - 1), NEW order \in Seq(Ids),
           NoRepeats(order), Range(order) = SessionsUpTo(q, k)
    PROVE  /\ NoRepeats(OrderStep(q, order, k + 1))
           /\ Range(OrderStep(q, order, k + 1)) = SessionsUpTo(q, k + 1)
<1> DEFINE id   == q[k + 1].session_id
           m    == Len(order)
           next == OrderStep(q, order, k + 1)
<1>1. k + 1 \in 1..(k + 1) /\ 1..(k + 1) = (1..k) \cup {k + 1}
  OBVIOUS
<1>2. SessionsUpTo(q, k + 1) =
        SessionsUpTo(q, k) \cup (IF IsAttributed(q[k + 1]) THEN {id} ELSE {})
  BY <1>1 DEF SessionsUpTo
<1>3. CASE ~IsAttributed(q[k + 1]) \/ id \in Range(order)
  <2>1. next = order
    BY <1>3 DEF OrderStep
  <2> HIDE DEF id, next
  <2>2. NoRepeats(next) /\ Range(next) = SessionsUpTo(q, k + 1)
    BY <1>2, <1>3, <2>1
  <2> QED BY <2>2 DEF next
<1>4. CASE ~(~IsAttributed(q[k + 1]) \/ id \in Range(order))
  <2>1. next = Append(order, id)
    BY <1>4 DEF OrderStep
  <2>2. /\ m \in Nat /\ DOMAIN order = 1..m /\ DOMAIN next = 1..(m + 1)
        /\ \A i \in 1..m : next[i] = order[i]
        /\ next[m + 1] = id
    BY <2>1
  <2> HIDE DEF m, id, next
  <2>3. \A i \in 1..m : order[i] # id
    BY <1>4, <2>2 DEF Range
  <2>4. 1..(m + 1) = (1..m) \cup {m + 1}
    BY <2>2
  <2>5. NoRepeats(next)
    <3> SUFFICES ASSUME NEW i \in 1..(m + 1), NEW j \in 1..(m + 1), next[i] = next[j]
                 PROVE  i = j
      BY <2>2 DEF NoRepeats
    <3>1. CASE i \in 1..m /\ j \in 1..m
      BY <2>2, <3>1 DEF NoRepeats
    <3>2. CASE i = m + 1 \/ j = m + 1
      BY <2>2, <2>3, <2>4, <3>2
    <3> QED BY <2>4, <3>1, <3>2
  <2>6. Range(next) = Range(order) \cup {id}
    <3>1. Range(next) = {next[i] : i \in 1..(m + 1)} /\ Range(order) = {order[i] : i \in 1..m}
      BY <2>2 DEF Range
    <3> QED BY <2>2, <2>4, <3>1
  <2>7. NoRepeats(next) /\ Range(next) = SessionsUpTo(q, k + 1)
    BY <1>2, <1>4, <2>5, <2>6
  <2> QED BY <2>7 DEF next
<1> QED BY <1>3, <1>4

\* aggregate_sessions lists every session of the records once, and nothing else.
LEMMA OrderFacts ==
    ASSUME NEW q, NEW n \in Nat, DOMAIN q = 1..n, NEW Ids,
           \A i \in 1..n : q[i].session_id \in Ids
    PROVE  /\ SessionOrder(q) \in Seq(Ids)
           /\ NoRepeats(SessionOrder(q))
           /\ Range(SessionOrder(q)) = SessionsUpTo(q, n)
<1>0. PICK t \in [0..n -> Seq(Ids)] : IsOrderLoop(t, q, n)
  BY OrderLoop
<1>1. /\ t[0] = <<>>
      /\ \A k \in 1..n : t[k] = OrderStep(q, t[k - 1], k)
      /\ SessionOrder(q) = t[n]
  BY <1>0 DEF IsOrderLoop
<1> DEFINE Fine(k) == NoRepeats(t[k]) /\ Range(t[k]) = SessionsUpTo(q, k)
           Good    == {k \in 0..n : Fine(k)}
<1>2. Fine(0)
  <2>1. DOMAIN t[0] = {} /\ 1..0 = {}
    BY <1>1
  <2> QED BY <2>1 DEF Range, NoRepeats, SessionsUpTo
<1>3. ASSUME NEW k \in 0..(n - 1), Fine(k)
      PROVE  Fine(k + 1)
  <2>1. k + 1 \in 1..n /\ k \in 0..n /\ (k + 1) - 1 = k
    OBVIOUS
  <2>2. t[k + 1] = OrderStep(q, t[k], k + 1) /\ t[k] \in Seq(Ids)
    BY <1>1, <2>1
  <2>3. NoRepeats(t[k]) /\ Range(t[k]) = SessionsUpTo(q, k)
    BY <1>3
  <2>4. /\ NoRepeats(OrderStep(q, t[k], k + 1))
        /\ Range(OrderStep(q, t[k], k + 1)) = SessionsUpTo(q, k + 1)
    BY <2>2, <2>3, OneTurn
  <2> QED BY <2>2, <2>4
<1>4. \A k \in 0..n : k \in Good
  <2>1. 0 \in Good
    <3>1. 0 \in 0..n
      OBVIOUS
    <3> HIDE DEF Fine
    <3> QED BY <1>2, <3>1
  <2>2. \A k \in 0..(n - 1) : k \in Good => k + 1 \in Good
    <3>1. \A k \in 0..(n - 1) : k + 1 \in 0..n
      OBVIOUS
    <3> HIDE DEF Fine
    <3> QED BY <1>3, <3>1
  <2> HIDE DEF Good
  <2> QED BY <2>1, <2>2, UpTo
<1>5. Fine(n)
  <2>1. n \in 0..n
    OBVIOUS
  <2> HIDE DEF Fine
  <2> QED BY <1>4, <2>1
<1>6. n \in 0..n
  OBVIOUS
<1> QED BY <1>1, <1>5, <1>6

\* A sum of numbers is a number.
LEMMA TotalIsNat == \A s \in Seq(Nat) : Total(s) \in Nat
<1> SUFFICES ASSUME NEW s \in Seq(Nat) PROVE Total(s) \in Nat
  OBVIOUS
<1>1. PICK t \in [0..Len(s) -> Nat] :
              t[0] = 0 /\ (\A k \in 1..Len(s) : t[k] = t[k - 1] + s[k]) /\ Total(s) = t[Len(s)]
  BY TotalLoop
<1> QED BY <1>1

\* A sum does not exceed another one that is larger term by term.
LEMMA TotalMonotone ==
    ASSUME NEW s \in Seq(Nat), NEW r \in Seq(Nat), Len(s) = Len(r),
           \A k \in 1..Len(s) : s[k] <= r[k]
    PROVE  Total(s) <= Total(r)
<1>1. PICK t \in [0..Len(s) -> Nat] :
              t[0] = 0 /\ (\A k \in 1..Len(s) : t[k] = t[k - 1] + s[k]) /\ Total(s) = t[Len(s)]
  BY TotalLoop
<1>2. PICK u \in [0..Len(r) -> Nat] :
              u[0] = 0 /\ (\A k \in 1..Len(r) : u[k] = u[k - 1] + r[k]) /\ Total(r) = u[Len(r)]
  BY TotalLoop
<1> DEFINE n == Len(s)
           Good == {k \in 0..n : t[k] <= u[k]}
<1>3. n \in Nat /\ n = Len(r) /\ \A k \in 1..n : s[k] \in Nat /\ r[k] \in Nat
  OBVIOUS
<1> HIDE DEF n
<1>4. 0 \in Good
  BY <1>1, <1>2, <1>3
<1>5. ASSUME NEW k \in 0..(n - 1), k \in Good
      PROVE  k + 1 \in Good
  <2>1. k + 1 \in 1..n /\ (k + 1) - 1 = k /\ k \in 0..n /\ k + 1 \in 0..n /\ t[k] <= u[k]
    BY <1>3, <1>5
  <2>2. t[k + 1] = t[k] + s[k + 1] /\ u[k + 1] = u[k] + r[k + 1]
    BY <1>1, <1>2, <1>3, <2>1 DEF n
  <2>3. t[k] \in Nat /\ u[k] \in Nat /\ s[k + 1] <= r[k + 1] /\ s[k + 1] \in Nat /\ r[k + 1] \in Nat
    BY <1>3, <2>1 DEF n
  <2> QED BY <2>1, <2>2, <2>3
<1>6. n \in Good
  <2>1. \A k \in 0..n : k \in Good
    <3> HIDE DEF Good
    <3> QED BY <1>3, <1>4, <1>5, UpTo
  <2> QED BY <1>3, <2>1
<1> QED BY <1>1, <1>2, <1>3, <1>6 DEF n

\* The sizes of sets that do not overlap add up to the size of their union.
LEMMA TotalOfDisjoint ==
    ASSUME NEW s \in Seq(Nat), NEW U, IsFiniteSet(U), NEW E \in [1..Len(s) -> SUBSET U],
           \A k \in 1..Len(s) : s[k] = Cardinality(E[k]),
           \A j, k \in 1..Len(s) : j # k => E[j] \cap E[k] = {}
    PROVE  Total(s) = Cardinality(UNION Range(E))
<1>1. PICK t \in [0..Len(s) -> Nat] :
              t[0] = 0 /\ (\A k \in 1..Len(s) : t[k] = t[k - 1] + s[k]) /\ Total(s) = t[Len(s)]
  BY TotalLoop
<1> DEFINE n == Len(s)
           First(k) == UNION {E[j] : j \in 1..k}
           Good == {k \in 0..n : t[k] = Cardinality(First(k))}
<1>2. n \in Nat
  OBVIOUS
<1> HIDE DEF n
<1>3. 0 \in Good
  <2>1. 1..0 = {} /\ 0 \in 0..n
    BY <1>2
  <2>2. First(0) = {}
    BY <2>1
  <2>3. Cardinality(First(0)) = 0
    BY <2>2, FS_EmptySet
  <2> HIDE DEF First
  <2> QED BY <1>1, <2>1, <2>3
<1>4. ASSUME NEW k \in 0..(n - 1), k \in Good
      PROVE  k + 1 \in Good
  <2>1. k + 1 \in 1..n /\ (k + 1) - 1 = k /\ k \in 0..n /\ k + 1 \in 0..n
    BY <1>2
  <2>2. t[k + 1] = t[k] + Cardinality(E[k + 1]) /\ t[k] = Cardinality(First(k))
    BY <1>1, <1>4, <2>1 DEF n
  <2>3. First(k) \in SUBSET U /\ E[k + 1] \in SUBSET U
    BY <2>1 DEF n
  <2>4. First(k + 1) = First(k) \cup E[k + 1]
    <3>1. 1..(k + 1) = (1..k) \cup {k + 1}
      BY <2>1
    <3> QED BY <3>1
  <2>5. First(k) \cap E[k + 1] = {}
    <3>1. \A j \in 1..k : j \in 1..n /\ j # k + 1
      BY <1>2, <2>1
    <3> QED BY <2>1, <3>1 DEF n
  <2> HIDE DEF First
  <2>6. Cardinality(First(k + 1)) = Cardinality(First(k)) + Cardinality(E[k + 1])
    <3>1. IsFiniteSet(First(k)) /\ IsFiniteSet(E[k + 1])
      BY <2>3, FS_Subset
    <3>2. /\ Cardinality(First(k)) \in Nat /\ Cardinality(E[k + 1]) \in Nat
      BY <3>1, FS_CardinalityType
    <3>3. Cardinality(First(k) \cap E[k + 1]) = 0
      BY <2>5, FS_EmptySet
    <3>4. Cardinality(First(k) \cup E[k + 1]) =
            Cardinality(First(k)) + Cardinality(E[k + 1]) - Cardinality(First(k) \cap E[k + 1])
      BY <3>1, FS_Union
    <3> DEFINE a == Cardinality(First(k))
               b == Cardinality(E[k + 1])
    <3>5. Cardinality(First(k + 1)) = a + b - 0 /\ a \in Nat /\ b \in Nat
      BY <2>4, <3>2, <3>3, <3>4
    <3> HIDE DEF a, b
    <3>6. a + b - 0 = a + b
      BY <3>5
    <3> QED BY <3>5, <3>6 DEF a, b
  <2> QED BY <2>1, <2>2, <2>6
<1>5. n \in Good
  <2>1. \A k \in 0..n : k \in Good
    <3> HIDE DEF Good
    <3> QED BY <1>2, <1>3, <1>4, UpTo
  <2> QED BY <1>2, <2>1
<1>6. First(n) = UNION Range(E)
  BY DEF Range, n
<1> QED BY <1>1, <1>5, <1>6 DEF n

\* How many of the records P each listed session has.
PerSession(q, P) ==
    [k \in DOMAIN SessionOrder(q) |-> Cardinality(EventsOf(q, SessionOrder(q)[k]) \cap P)]

\* Whichever records are counted, the counts of the listed sessions and the count of the
\* unattributed records add up to the count over all records: every record belongs to exactly
\* one listed session, or to none.
LEMMA SessionTotals ==
    ASSUME NEW q, NEW n \in Nat, DOMAIN q = 1..n, NEW P \in SUBSET (1..n)
    PROVE  /\ PerSession(q, P) \in Seq(Nat)
           /\ Total(PerSession(q, P)) + Cardinality(P \ Attributed(q)) = Cardinality(P)
<1> DEFINE s   == PerSession(q, P)
           Ids == {q[i].session_id : i \in 1..n}
           o   == SessionOrder(q)
           m   == Len(o)
           E   == [k \in 1..m |-> EventsOf(q, o[k]) \cap P]
<1>1. o \in Seq(Ids) /\ NoRepeats(o) /\ Range(o) = SessionsUpTo(q, n)
  <2>1. \A i \in 1..n : q[i].session_id \in Ids
    OBVIOUS
  <2> HIDE DEF Ids
  <2> QED BY <2>1, OrderFacts
<1>2. /\ m \in Nat /\ DOMAIN o = 1..m
      /\ \A j, k \in 1..m : o[j] = o[k] => j = k
      /\ SessionsUpTo(q, n) = {o[k] : k \in 1..m}
  <2>1. m \in Nat /\ DOMAIN o = 1..m
    BY <1>1
  <2> QED BY <1>1, <2>1 DEF NoRepeats, Range
<1> HIDE DEF o, m, Ids
<1>3. s = [k \in 1..m |-> Cardinality(E[k])]
  BY <1>2 DEF o, PerSession
<1> HIDE DEF s
<1>4. IsFiniteSet(P) /\ IsFiniteSet(1..n)
  BY OneTo, FS_Subset
<1>5. E \in [1..m -> SUBSET P]
  OBVIOUS
<1>6. \A k \in 1..m : Cardinality(E[k]) \in Nat
  BY <1>4, <1>5, FS_Subset, FS_CardinalityType
<1>7. s \in Seq(Nat) /\ Len(s) = m
  <2>1. s \in [1..m -> Nat]
    <3> HIDE DEF E
    <3> QED BY <1>3, <1>6
  <2> QED BY <1>2, <2>1
<1>8. \A j, k \in 1..m : j # k => E[j] \cap E[k] = {}
  BY <1>2 DEF EventsOf
<1>9. UNION Range(E) = P \cap Attributed(q)
  <2>1. ASSUME NEW k \in 1..m, NEW i \in E[k]
        PROVE  i \in P \cap Attributed(q)
    <3>1. i \in DOMAIN q /\ q[i].session_id = o[k] /\ i \in P
      BY <2>1 DEF EventsOf
    <3>2. o[k] \in SessionsUpTo(q, n)
      BY <1>2
    <3>3. o[k] # NoSession
      BY <3>2 DEF SessionsUpTo, IsAttributed
    <3> QED BY <3>1, <3>3 DEF Attributed, IsAttributed
  <2>2. ASSUME NEW i \in P, i \in Attributed(q)
        PROVE  \E k \in 1..m : i \in E[k]
    <3>1. q[i].session_id \in SessionsUpTo(q, n)
      BY <2>2 DEF SessionsUpTo, Attributed
    <3>2. PICK k \in 1..m : q[i].session_id = o[k]
      BY <1>2, <3>1
    <3> QED BY <3>2 DEF EventsOf
  <2>3. DOMAIN E = 1..m
    OBVIOUS
  <2> HIDE DEF E
  <2> QED BY <2>1, <2>2, <2>3 DEF Range
<1>10. Total(s) = Cardinality(P \cap Attributed(q))
  <2> HIDE DEF E
  <2>1. /\ E \in [1..Len(s) -> SUBSET P]
        /\ \A k \in 1..Len(s) : s[k] = Cardinality(E[k])
        /\ \A j, k \in 1..Len(s) : j # k => E[j] \cap E[k] = {}
    BY <1>3, <1>5, <1>7, <1>8
  <2>2. Total(s) = Cardinality(UNION Range(E))
    BY <1>4, <1>7, <2>1, TotalOfDisjoint
  <2> QED BY <1>7, <1>9, <2>2
<1>11. Cardinality(P \cap Attributed(q)) + Cardinality(P \ Attributed(q)) = Cardinality(P)
  <2> DEFINE A == P \cap Attributed(q)
             B == P \ Attributed(q)
  <2>1. IsFiniteSet(A) /\ IsFiniteSet(B) /\ A \cup B = P /\ A \cap B = {}
    BY <1>4, FS_Subset
  <2> HIDE DEF A, B
  <2>2. /\ Cardinality(A \cup B) = Cardinality(A) + Cardinality(B) - Cardinality(A \cap B)
        /\ Cardinality(A) \in Nat /\ Cardinality(B) \in Nat /\ Cardinality(A \cap B) = 0
    BY <2>1, FS_Union, FS_CardinalityType, FS_EmptySet
  <2> DEFINE a == Cardinality(A)
             b == Cardinality(B)
  <2>3. Cardinality(P) = a + b - 0 /\ a \in Nat /\ b \in Nat
    BY <2>1, <2>2
  <2> HIDE DEF a, b
  <2>4. Cardinality(P) = a + b
    BY <2>3
  <2> QED BY <2>4 DEF a, b, A, B
<1> QED BY <1>7, <1>10, <1>11 DEF s

\* The totals of any list of records agree.
LEMMA SummaryAgrees ==
    ASSUME NEW q, NEW n \in Nat, q = [i \in 1..n |-> q[i]]
    PROVE  LET aggregation == AggregateSessions(q)
               sessions    == aggregation.sessions
           IN  /\ Count(q, IsFaulted) = aggregation.fault_events
               /\ aggregation.recovery_events <= aggregation.fault_events
               /\ n = Total([k \in DOMAIN sessions |-> sessions[k].request_count])
                        + aggregation.unattributed_requests
<1> DEFINE o        == SessionOrder(q)
           sessions == [k \in DOMAIN o |-> SummarizeSession(q, o[k])]
           all      == PerSession(q, 1..n)
           Faults   == {i \in 1..n : IsFaulted(q[i])}
           faults   == PerSession(q, Faults)
           saved    == [k \in DOMAIN o |-> Cardinality(RecoveredIndices(q, EventsOf(q, o[k])))]
<1>1. DOMAIN q = 1..n
  OBVIOUS
<1>2. \A session : /\ EventsOf(q, session) \cap (1..n) = EventsOf(q, session)
                   /\ EventsOf(q, session) \cap Faults = FaultIndices(q, EventsOf(q, session))
                   /\ RecoveredIndices(q, EventsOf(q, session)) \subseteq
                        EventsOf(q, session) \cap Faults
  BY <1>1 DEF EventsOf, FaultIndices, RecoveredIndices
<1>3. /\ [k \in DOMAIN sessions |-> sessions[k].request_count] = all
      /\ [k \in DOMAIN sessions |-> sessions[k].fault_events] = faults
      /\ [k \in DOMAIN sessions |-> sessions[k].recovery_events] = saved
  <2>0. /\ all = [k \in DOMAIN o |-> Cardinality(EventsOf(q, o[k]) \cap (1..n))]
        /\ faults = [k \in DOMAIN o |-> Cardinality(EventsOf(q, o[k]) \cap Faults)]
    BY DEF PerSession
  <2> HIDE DEF o, Faults
  <2>1. \A k \in DOMAIN o : /\ sessions[k].request_count = all[k]
                            /\ sessions[k].fault_events = faults[k]
                            /\ sessions[k].recovery_events = saved[k]
    BY <1>2, <2>0 DEF SummarizeSession
  <2>2. DOMAIN sessions = DOMAIN o
    OBVIOUS
  <2> HIDE DEF sessions, all, faults
  <2> QED BY <2>0, <2>1, <2>2
<1>4. all \in Seq(Nat) /\ Total(all) + Cardinality((1..n) \ Attributed(q)) = n
  <2>1. /\ all \in Seq(Nat)
        /\ Total(all) + Cardinality((1..n) \ Attributed(q)) = Cardinality(1..n)
    <3>1. 1..n \in SUBSET (1..n)
      OBVIOUS
    <3> QED BY <1>1, <3>1, SessionTotals
  <2> HIDE DEF all
  <2> QED BY <2>1, OneTo
<1>5. faults \in Seq(Nat) /\ Total(faults) + Cardinality(Faults \ Attributed(q)) = Cardinality(Faults)
  <2>1. Faults \in SUBSET (1..n)
    OBVIOUS
  <2> HIDE DEF Faults
  <2> QED BY <1>1, <2>1, SessionTotals
<1>6. /\ saved \in Seq(Nat) /\ Len(saved) = Len(faults)
      /\ \A k \in 1..Len(saved) : saved[k] <= faults[k]
  <2>0. faults = [k \in DOMAIN o |-> Cardinality(EventsOf(q, o[k]) \cap Faults)]
    BY DEF PerSession
  <2>1. Len(faults) \in Nat /\ DOMAIN faults = DOMAIN o /\ DOMAIN faults = 1..Len(faults)
    <3>1. DOMAIN faults = DOMAIN o
      BY <2>0
    <3> HIDE DEF faults, o
    <3> QED BY <1>5, <3>1
  <2>2. \A k \in DOMAIN o : /\ Cardinality(RecoveredIndices(q, EventsOf(q, o[k]))) \in Nat
                            /\ Cardinality(RecoveredIndices(q, EventsOf(q, o[k])))
                                 <= Cardinality(EventsOf(q, o[k]) \cap Faults)
    <3> SUFFICES ASSUME NEW k \in DOMAIN o
                 PROVE  /\ Cardinality(RecoveredIndices(q, EventsOf(q, o[k]))) \in Nat
                        /\ Cardinality(RecoveredIndices(q, EventsOf(q, o[k])))
                             <= Cardinality(EventsOf(q, o[k]) \cap Faults)
      OBVIOUS
    <3> DEFINE A == RecoveredIndices(q, EventsOf(q, o[k]))
               B == EventsOf(q, o[k]) \cap Faults
    <3>1. A \subseteq B /\ B \subseteq 1..n
      BY <1>2
    <3> HIDE DEF A, B
    <3>2. IsFiniteSet(B) /\ IsFiniteSet(A)
      BY <3>1, OneTo, FS_Subset
    <3>3. Cardinality(A) \in Nat /\ Cardinality(A) <= Cardinality(B)
      BY <3>1, <3>2, FS_Subset, FS_CardinalityType
    <3> QED BY <3>3 DEF A, B
  <2>3. \A k \in 1..Len(faults) : saved[k] \in Nat /\ saved[k] <= faults[k]
    <3> HIDE DEF o, Faults
    <3> QED BY <2>0, <2>1, <2>2
  <2>4. saved = [k \in 1..Len(faults) |-> saved[k]]
    BY <2>1
  <2> HIDE DEF faults, saved
  <2> QED BY <2>1, <2>3, <2>4
<1>7. Total(saved) <= Total(faults)
  <2> HIDE DEF faults, saved
  <2> QED BY <1>5, <1>6, TotalMonotone
<1>8. /\ Count(q, IsFaulted) = Cardinality(Faults)
      /\ Count(q, LAMBDA record : ~IsAttributed(record)) = Cardinality((1..n) \ Attributed(q))
      /\ Count(q, LAMBDA record : ~IsAttributed(record) /\ IsFaulted(record))
           = Cardinality(Faults \ Attributed(q))
  <2>1. /\ {i \in DOMAIN q : IsFaulted(q[i])} = Faults
        /\ {i \in DOMAIN q : ~IsAttributed(q[i])} = (1..n) \ Attributed(q)
        /\ {i \in DOMAIN q : ~IsAttributed(q[i]) /\ IsFaulted(q[i])} = Faults \ Attributed(q)
    BY <1>1 DEF Attributed
  <2> QED BY <2>1 DEF Count, Indices
<1>9. Total(saved) \in Nat /\ Total(faults) \in Nat /\ Cardinality(Faults \ Attributed(q)) \in Nat
  <2>1. \A s \in Seq(Nat) : Total(s) \in Nat
    BY TotalIsNat
  <2>2. IsFiniteSet(Faults \ Attributed(q))
    BY OneTo, FS_Subset
  <2> HIDE DEF saved, faults, Faults
  <2> QED BY <1>5, <1>6, <2>1, <2>2, FS_CardinalityType
<1>10. /\ AggregateSessions(q).sessions = sessions
       /\ AggregateSessions(q).fault_events = Total(faults) + Cardinality(Faults \ Attributed(q))
       /\ AggregateSessions(q).recovery_events = Total(saved)
       /\ AggregateSessions(q).unattributed_requests = Cardinality((1..n) \ Attributed(q))
  <2> HIDE DEF saved, faults, Faults
  <2> QED BY <1>3, <1>8 DEF AggregateSessions
<1>11. /\ Count(q, IsFaulted) = AggregateSessions(q).fault_events
       /\ AggregateSessions(q).recovery_events <= AggregateSessions(q).fault_events
       /\ n = Total(all) + AggregateSessions(q).unattributed_requests
  <2> HIDE DEF saved, faults, Faults, all, sessions
  <2> QED BY <1>4, <1>5, <1>7, <1>8, <1>9, <1>10
<1> QED BY <1>3, <1>10, <1>11

\* The totals of the written report agree with each other.
THEOREM ReportTotalsAgree == Spec => []TotalsAgree
<1>1. Inv => TotalsAgree
  <2> SUFFICES ASSUME Inv PROVE TotalsAgree
    OBVIOUS
  <2> DEFINE n == Len(requests)
  <2>1. n \in Nat /\ requests = [i \in 1..n |-> requests[i]]
    BY DEF Inv, CInv, Typed
  <2> DEFINE sessions == AggregateSessions(requests).sessions
  <2> HIDE DEF n
  <2>2. /\ Count(requests, IsFaulted) = AggregateSessions(requests).fault_events
        /\ AggregateSessions(requests).recovery_events <= AggregateSessions(requests).fault_events
        /\ n = Total([k \in DOMAIN sessions |-> sessions[k].request_count])
                 + AggregateSessions(requests).unattributed_requests
    BY <2>1, SummaryAgrees
  <2>3. /\ Report.faults_injected = Count(requests, IsFaulted)
        /\ Report.summary.fault_events = AggregateSessions(requests).fault_events
        /\ Report.summary.recovery_events = AggregateSessions(requests).recovery_events
        /\ Report.summary.unattributed_requests = AggregateSessions(requests).unattributed_requests
        /\ Report.sessions = sessions
        /\ Report.total_proxy_requests = n
    BY DEF Report, Summarize, n
  <2> HIDE DEF sessions
  <2>4. /\ Report.faults_injected = Report.summary.fault_events
        /\ Report.summary.recovery_events <= Report.summary.fault_events
        /\ Report.total_proxy_requests =
             Total([k \in DOMAIN Report.sessions |-> Report.sessions[k].request_count])
               + Report.summary.unattributed_requests
    BY <2>2, <2>3
  <2> QED BY <2>4 DEF TotalsAgree
<1> QED BY Invariance, <1>1, PTL
==============================================================================
