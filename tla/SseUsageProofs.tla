--------------------------- MODULE SseUsageProofs ----------------------------
(***************************************************************************)
(* Proofs about SseUsage, for any bodies, any limit and any way of cutting *)
(* a body into chunks.                                                     *)
(*                                                                         *)
(* The inductive invariant adds to the types two facts.  Latched: until    *)
(* something is reported the tap is neither finished nor dropped and has   *)
(* charged nothing.  Drained: the buffer of a parser that is still parsing *)
(* holds no newline, so a line that a chunk completes ends in that chunk.  *)
(***************************************************************************)
EXTENDS SseUsage, WellFoundedInduction, TLAPS

ParserOK == buffered \in 0..delivered /\ usage \in Usages \cup {NoUsage} /\ malformed \in BOOLEAN

Latched ==
    /\ finished <=> inner # "open"
    /\ reported = <<>> <=> ~finished /\ tap = "polled"
    /\ reported = <<>> => committed = <<>>

Limit == Max({MaxEventBytes, MaxChunk})

Drained ==
    IF malformed THEN buffered <= Limit + MaxChunk
    ELSE Completed(delivered) = {} /\ buffered <= Limit

IInv == TypeOK /\ stream \in Streams /\ Latched /\ Drained
------------------------------------------------------------------------------
\* A nonempty set of naturals has a least element, and one with a bound a largest.
LEMMA LeastNatural ==
    ASSUME NEW S, S \subseteq Nat, S # {}
    PROVE  \E m \in S : \A x \in S : m <= x
<1>1. PICK m \in S : \A x \in S : ~(<<x, m>> \in OpToRel(<, Nat))
  BY WFMin, NatLessThanWellFounded, Zenon
<1>2. \A x \in S : ~(x < m)
  BY <1>1, Zenon DEF OpToRel
<1>3. \A x \in S : x \in Nat
  OBVIOUS
<1>4. QED
  BY <1>2, <1>3

\* Min is an element of a nonempty set of numbers, and the least.
LEMMA MinMember ==
    ASSUME NEW S, S \subseteq Nat, S # {}
    PROVE  Min(S) \in S /\ \A x \in S : Min(S) <= x
BY LeastNatural DEF Min

\* Max is an element of a nonempty bounded set of numbers, and the greatest.
LEMMA MaxMember ==
    ASSUME NEW n \in Nat, NEW S, S \subseteq 1..n, S # {}
    PROVE  Max(S) \in S /\ \A x \in S : x <= Max(S)
<1> DEFINE T == {n - x : x \in S}
<1>1. \A x \in S : x \in 1..n
  OBVIOUS
<1>2. \A y \in T : y \in Nat
  BY <1>1
<1>3. T # {}
  OBVIOUS
<1>4. PICK m \in T : \A y \in T : m <= y
  BY <1>2, <1>3, LeastNatural
<1>5. PICK x \in S : m = n - x
  OBVIOUS
<1>6. \A y \in S : m <= n - y
  BY <1>4
<1>7. \A y \in S : x >= y
  BY <1>1, <1>5, <1>6
<1>8. QED
  BY <1>7 DEF Max

\* Limit is at least an event and at least a chunk.
LEMMA LimitFacts == Limit \in Nat /\ MaxEventBytes <= Limit /\ MaxChunk <= Limit
BY SseAssumption DEF Limit, Max
------------------------------------------------------------------------------
\* What StreamOK says of the lines of the body.
LEMMA LineFacts ==
    ASSUME stream \in Streams, NEW d \in Nat
    PROVE  /\ stream.size \in Nat
           /\ \A line \in Terminated(stream) :
                stream.newlines[line] \in 1..stream.size /\ line \in Lines(stream)
           /\ \A line \in Lines(stream) : stream.kinds[line] \in Kinds
           /\ Completed(d) \in SUBSET (1..Len(stream.newlines))
           /\ Terminated(stream) = 1..Len(stream.newlines)
           /\ Lines(stream) = 1..Len(stream.kinds)
           /\ \A i, j \in Terminated(stream) : i < j => stream.newlines[i] < stream.newlines[j]
           /\ Len(stream.newlines) \in Nat /\ Len(stream.kinds) \in Nat
<1>1. StreamOK(stream)
  BY SseAssumption
<1>2. QED
  BY <1>1 DEF StreamOK, Completed, Terminated, Lines

\* UsageAfter takes a usage from the lines or keeps the one it has.
LEMMA UsageAfterType ==
    ASSUME stream \in Streams, ParserOK, NEW lines \in SUBSET Lines(stream)
    PROVE  UsageAfter(lines) \in Usages \cup {NoUsage}
<1> DEFINE stated == {line \in Accepted(lines) : stream.kinds[line] \in Usages}
<1>1. stated \in SUBSET (1..Len(stream.kinds)) /\ Len(stream.kinds) \in Nat
  BY LineFacts DEF Accepted
<1>2. CASE stated = {}
  BY <1>2 DEF UsageAfter, ParserOK
<1>3. CASE stated # {}
  <2>1. Max(stated) \in stated
    BY <1>1, <1>3, MaxMember
  <2>2. QED
    BY <1>3, <2>1 DEF UsageAfter
<1>4. QED
  BY <1>2, <1>3

\* The line up to which the buffer is drained is one of those that the chunk completes.
LEMMA CompletedFacts ==
    ASSUME stream \in Streams, TypeOK, NEW n \in Nat, Completed(delivered + n) # {}
    PROVE  /\ Max(Completed(delivered + n)) \in Completed(delivered + n)
           /\ \A line \in Completed(delivered + n) : line <= Max(Completed(delivered + n))
           /\ Rejected(Completed(delivered + n)) # {} =>
                Min(Rejected(Completed(delivered + n))) \in Completed(delivered + n)
<1>1. Completed(delivered + n) \in SUBSET (1..Len(stream.newlines)) /\ Len(stream.newlines) \in Nat
  BY LineFacts DEF TypeOK
<1>2. Rejected(Completed(delivered + n)) \subseteq Completed(delivered + n)
  BY DEF Rejected
<1>3. Rejected(Completed(delivered + n)) # {} =>
        Min(Rejected(Completed(delivered + n))) \in Rejected(Completed(delivered + n))
  BY <1>1, <1>2, MinMember
<1>4. QED
  BY <1>1, <1>2, <1>3, MaxMember
------------------------------------------------------------------------------
\* A chunk leaves the parser in order, and its buffer within the limit or given up.
LEMMA PushStep ==
    ASSUME TypeOK, stream \in Streams, Drained, NEW n \in 1..MaxChunk, PollData(n)
    PROVE  TypeOK' /\ Drained'
<1> USE SseAssumption, LimitFacts
<1>1. /\ delivered' = delivered + n /\ delivered' \in 0..stream.size /\ delivered \in Nat
      /\ stream' = stream /\ n \in Nat /\ StreamOK(stream)
      /\ UNCHANGED <<inner, tap, priced, finished>>
  BY LineFacts DEF PollData, TypeOK, outcomeVars
<1>2. CASE malformed
  BY <1>1, <1>2 DEF PollData, Push, parserVars, TypeOK, Drained
<1>3. CASE ~malformed /\ Completed(delivered + n) = {}
  <2>1. /\ buffered' = buffered + n /\ UNCHANGED usage
        /\ malformed' = (buffered + n > MaxEventBytes)
    BY <1>3 DEF PollData, Push, Overflow
  <2>2. buffered \in Nat /\ buffered <= Limit /\ buffered' \in 0..delivered'
    BY <1>1, <1>3, <2>1 DEF TypeOK, Drained
  <2>3. TypeOK'
    BY <1>1, <2>1, <2>2 DEF TypeOK
  <2>4. Completed(delivered)' = {}
    <3>1. delivered' - buffered' = delivered - buffered
      BY <1>1, <2>1, <2>2
    <3>2. QED
      BY <1>1, <1>3, <3>1 DEF Completed, Terminated
  <2>5. Limit' = Limit
    BY DEF Limit
  <2>6. CASE malformed'
    BY <1>1, <2>1, <2>2, <2>3, <2>5, <2>6 DEF Drained
  <2>7. CASE ~malformed'
    <3>1. buffered' <= MaxEventBytes
      <4>1. ~(buffered + n > MaxEventBytes)
        BY <2>1, <2>7, Zenon
      <4>2. QED
        BY <1>1, <2>1, <2>2, <4>1
    <3>2. buffered' <= Limit /\ buffered' \in Nat
      BY <2>1, <2>2, <3>1
    <3>3. QED
      BY <2>3, <2>4, <2>5, <2>7, <3>2 DEF Drained
  <2>8. QED
    BY <2>6, <2>7
<1>4. CASE ~malformed /\ Completed(delivered + n) # {}
  <2> DEFINE lines == Completed(delivered + n)
             last  == IF Rejected(lines) = {} THEN Max(lines) ELSE Min(Rejected(lines))
  <2>1. /\ buffered' = delivered + n - stream.newlines[last]
        /\ usage' = UsageAfter(lines)
        /\ malformed' = (Rejected(lines) # {})
    BY <1>4 DEF PollData, Push, ParseLines
  <2>2. last \in lines
    BY <1>1, <1>4, CompletedFacts
  <2> HIDE DEF last
  <2>3. /\ last \in Terminated(stream) /\ stream.newlines[last] \in Nat
        /\ delivered - buffered < stream.newlines[last] /\ stream.newlines[last] <= delivered + n
    BY <2>2, <1>1, LineFacts DEF Completed
  <2>4. delivered < stream.newlines[last]
    BY <1>1, <1>4, <2>3 DEF Drained, Completed
  <2>5. buffered' \in 0..n
    BY <1>1, <2>1, <2>3, <2>4
  <2>6. usage' \in Usages \cup {NoUsage}
    <3>1. lines \in SUBSET Lines(stream)
      BY <1>1, LineFacts DEF Completed
    <3>2. QED
      BY <2>1, <3>1, UsageAfterType DEF TypeOK, ParserOK
  <2>7. TypeOK'
    BY <1>1, <2>1, <2>5, <2>6 DEF TypeOK
  <2>8. CASE Rejected(lines) # {}
    <3>1. malformed'
      BY <2>1, <2>8, Zenon
    <3>2. n <= Limit + MaxChunk /\ n \in Nat /\ Limit' = Limit
      BY <1>1 DEF Limit
    <3>3. buffered' <= Limit' + MaxChunk
      BY <2>5, <3>2
    <3>4. QED
      BY <2>7, <3>1, <3>3 DEF Drained
  <2>9. CASE Rejected(lines) = {}
    <3>1. ~malformed' /\ buffered' <= Limit
      <4>1. ~malformed'
        BY <2>1, <2>9, Zenon
      <4>2. n <= Limit /\ n \in Nat
        OBVIOUS
      <4>3. buffered' <= Limit
        BY <2>5, <4>2
      <4>4. QED
        BY <4>1, <4>3
    <3>2. last = Max(lines) /\ \A line \in lines : line <= last
      BY <1>1, <1>4, <2>9, CompletedFacts DEF last
    <3>3. ASSUME NEW line \in Terminated(stream),
                 stream.newlines[last] < stream.newlines[line],
                 stream.newlines[line] <= delivered + n
          PROVE  FALSE
      <4>1. /\ Terminated(stream) = 1..Len(stream.newlines) /\ Len(stream.newlines) \in Nat
            /\ stream.newlines[line] \in Nat
            /\ line < last => stream.newlines[line] < stream.newlines[last]
        BY <2>3, LineFacts
      <4>2. line \in lines
        BY <4>1, <1>1, <2>3, <3>3 DEF Completed, TypeOK
      <4>3. line <= last
        BY <3>2, <4>2
      <4>4. line \in Nat /\ last \in Nat
        BY <2>3, <4>1
      <4>5. CASE line = last
        BY <4>5, <3>3, <4>1
      <4>6. CASE line < last
        BY <4>6, <3>3, <4>1, <2>3
      <4>7. QED
        BY <4>3, <4>4, <4>5, <4>6
    <3>4. Completed(delivered)' = {}
      <4>1. Completed(delivered)' =
              {line \in Terminated(stream) : /\ stream.newlines[last] < stream.newlines[line]
                                             /\ stream.newlines[line] <= delivered + n}
        <5>1. delivered' - buffered' = stream.newlines[last]
          BY <1>1, <2>1, <2>3
        <5>2. QED
          BY <1>1, <5>1 DEF Completed, Terminated
      <4>2. QED
        BY <4>1, <3>3
    <3>5. Limit' = Limit
      BY DEF Limit
    <3>6. QED
      BY <2>7, <3>1, <3>4, <3>5 DEF Drained
  <2>10. QED
    BY <2>7, <2>8, <2>9
<1>5. QED
  BY <1>2, <1>3, <1>4 DEF TypeOK

\* The outcome of a clean end is one that a stream may have.
LEMMA FinishType ==
    ASSUME TypeOK, stream \in Streams
    PROVE  Finish \in Usages \cup Reasons
<1> DEFINE remnant == IF buffered = 0 THEN {} ELSE Remnant(stream)
<1>1. remnant \in SUBSET Lines(stream)
  BY DEF Remnant
<1>2. UsageAfter(remnant) \in Usages \cup {NoUsage}
  BY <1>1, UsageAfterType DEF TypeOK, ParserOK
<1>3. QED
  BY <1>2 DEF Finish, Reasons

\* The first report is the last.
LEMMA FireFacts ==
    ASSUME NEW outcome, NEW paid, Fire(outcome, paid)
    PROVE  reported' # <<>> /\ (reported # <<>> => reported' = reported)
BY DEF Fire
------------------------------------------------------------------------------
\* The invariant holds at the start.
LEMMA InitIInv == Init => IInv
<1> SUFFICES ASSUME Init
             PROVE  IInv
  OBVIOUS
<1> USE SseAssumption, LimitFacts
<1>1. StreamOK(stream) /\ stream.size \in Nat /\ stream \in Streams
  BY LineFacts DEF Init
<1>2. TypeOK
  <2>1. delivered \in 0..stream.size /\ buffered \in 0..delivered
    BY <1>1 DEF Init
  <2>2. malformed \in BOOLEAN /\ finished \in BOOLEAN /\ priced \in BOOLEAN
    BY Zenon DEF Init
  <2>3. QED
    BY <1>1, <2>1, <2>2 DEF Init, TypeOK
<1>3. Latched
  BY DEF Init, Latched
<1>4. Completed(delivered) = {}
  BY <1>1, LineFacts DEF Init, Completed
<1>5. Drained
  BY <1>4 DEF Init, Drained
<1>6. QED
  BY <1>1, <1>2, <1>3, <1>5 DEF IInv

\* Every step keeps the invariant.
LEMMA NextIInv == IInv /\ [Next]_vars => IInv'
<1> SUFFICES ASSUME IInv, [Next]_vars
             PROVE  IInv'
  OBVIOUS
<1> USE DEF IInv
<1>1. stream' \in Streams
  BY DEF Next, vars, PollData, PollError, PollEnd, Drop
<1>2. ASSUME NEW n \in 1..MaxChunk, PollData(n)
      PROVE  IInv'
  <2>1. TypeOK' /\ Drained'
    BY <1>2, PushStep
  <2>2. Latched'
    BY <1>2 DEF PollData, Latched, outcomeVars
  <2>3. QED
    BY <1>1, <2>1, <2>2
<1>3. ASSUME UNCHANGED <<stream, delivered, parserVars>>
      PROVE  Drained'
  BY <1>3 DEF Drained, Completed, Limit, Terminated, parserVars
<1>4. CASE PollError
  <2>1. ~finished /\ finished' /\ Fire("StreamInterrupted", NoCost)
    BY <1>4 DEF PollError, FinishInterrupted, Latched
  <2>2. TypeOK'
    BY <1>4, <2>1 DEF PollError, TypeOK, parserVars
  <2>3. Latched'
    BY <1>4, <2>1, FireFacts DEF PollError, Latched
  <2>4. QED
    BY <1>1, <1>3, <1>4, <2>2, <2>3 DEF PollError
<1>5. CASE PollEnd
  <2>1. finished' /\ inner' # "open" /\ reported' # <<>>
    BY <1>5, FireFacts DEF PollEnd, FinishClean, outcomeVars, Latched
  <2>2. TypeOK'
    BY <1>5, <2>1 DEF PollEnd, FinishClean, outcomeVars, TypeOK, parserVars
  <2>3. Latched'
    BY <1>5, <2>1 DEF PollEnd, Latched
  <2>4. QED
    BY <1>1, <1>3, <1>5, <2>2, <2>3 DEF PollEnd
<1>6. CASE Drop
  <2>1. TypeOK'
    BY <1>6 DEF Drop, TypeOK, parserVars
  <2>2. Latched'
    BY <1>6, FireFacts DEF Drop, Latched
  <2>3. QED
    BY <1>1, <1>3, <1>6, <2>1, <2>2 DEF Drop
<1>7. CASE UNCHANGED vars
  <2>1. TypeOK'
    BY <1>7 DEF vars, parserVars, outcomeVars, TypeOK
  <2>2. Latched'
    BY <1>7 DEF vars, parserVars, outcomeVars, Latched
  <2>3. QED
    BY <1>1, <1>3, <1>7, <2>1, <2>2 DEF vars
<1>8. QED
  BY <1>2, <1>4, <1>5, <1>6, <1>7 DEF Next

\* The invariant holds in every state of every behaviour.
THEOREM Invariance == Spec => []IInv
<1>1. QED
  BY InitIInv, NextIInv, PTL DEF Spec

\* Every variable of the parser and the tap stays in its range.
THEOREM TypeCorrect == Spec => []TypeOK
<1>1. IInv => TypeOK
  BY DEF IInv
<1>2. QED
  BY <1>1, Invariance, PTL

\* The buffer is bounded, for any body and any chunks.
THEOREM BoundedBuffer == Spec => []BufferBounded
<1>1. IInv => BufferBounded
  <2> SUFFICES ASSUME IInv
               PROVE  BufferBounded
    OBVIOUS
  <2>1. buffered \in Nat
    BY LineFacts DEF IInv, TypeOK
  <2>2. Limit \in Nat /\ MaxChunk \in Nat
    BY LimitFacts, SseAssumption
  <2>3. buffered <= Limit + MaxChunk
    BY <2>1, <2>2 DEF IInv, Drained
  <2>4. QED
    BY <2>3 DEF BufferBounded, Limit
<1>2. QED
  BY <1>1, Invariance, PTL

\* A response that has ended in any way has been reported.
THEOREM ReportedByThen == Spec => []ReportedAtTheEnd
<1>1. IInv => ReportedAtTheEnd
  BY DEF IInv, Latched, ReportedAtTheEnd, TypeOK
<1>2. QED
  BY <1>1, Invariance, PTL
------------------------------------------------------------------------------
\* A stream starts as a metered stream starts.
LEMMA InitRefines == Init => Metered!Init
BY DEF Init, Metered!Init

\* Every step is a step of a metered stream, or a stutter.
LEMMA StepRefines == IInv /\ [Next]_vars => [Metered!Next]_(Metered!streamVars)
<1> SUFFICES ASSUME IInv, [Next]_vars
             PROVE  [Metered!Next]_(Metered!streamVars)
  OBVIOUS
<1> USE DEF IInv
<1>1. ASSUME UNCHANGED <<priced, reported, committed>>
      PROVE  UNCHANGED Metered!streamVars
  BY <1>1 DEF Metered!streamVars
<1>2. ASSUME NEW n \in 1..MaxChunk, PollData(n)
      PROVE  UNCHANGED Metered!streamVars
  BY <1>1, <1>2 DEF PollData, outcomeVars
<1>3. ASSUME reported = <<>>, Fire("StreamInterrupted", NoCost), UNCHANGED <<priced, committed>>
      PROVE  Metered!Next
  <2>1. Metered!GiveUp("StreamInterrupted")
    BY <1>3 DEF Fire, Metered!GiveUp
  <2>2. QED
    BY <2>1 DEF Metered!Next, Reasons
<1>4. CASE PollError
  <2>1. reported = <<>>
    BY <1>4 DEF PollError, Latched
  <2>2. QED
    BY <1>3, <1>4, <2>1 DEF PollError, FinishInterrupted, Latched
<1>5. CASE PollEnd /\ finished
  BY <1>1, <1>5 DEF PollEnd, FinishClean, outcomeVars
<1>6. CASE PollEnd /\ ~finished
  <2>1. reported = <<>> /\ committed = <<>>
    BY <1>6 DEF PollEnd, Latched
  <2>2. /\ reported' = <<[outcome |-> Finish, cost |-> CostFor(Finish)]>>
        /\ committed' = IF CostFor(Finish) = NoCost THEN <<>> ELSE <<CostFor(Finish)>>
        /\ priced' = priced
    BY <1>6, <2>1 DEF PollEnd, FinishClean, Fire
  <2>3. CASE Finish \in Usages
    <3>1. CostFor(Finish) = Metered!Charge(Finish)
      BY <2>3 DEF CostFor, Metered!Charge
    <3>2. Metered!Meter(Finish)
      BY <2>1, <2>2, <3>1 DEF Metered!Meter
    <3>3. QED
      BY <2>3, <3>2 DEF Metered!Next
  <2>4. CASE Finish \in Reasons
    <3>1. CostFor(Finish) = NoCost
      BY <2>4, SseAssumption DEF CostFor
    <3>2. Metered!GiveUp(Finish)
      BY <2>1, <2>2, <3>1 DEF Metered!GiveUp
    <3>3. QED
      BY <2>4, <3>2 DEF Metered!Next
  <2>5. QED
    BY <2>3, <2>4, FinishType
<1>7. CASE Drop /\ reported = <<>>
  BY <1>3, <1>7 DEF Drop
<1>8. CASE Drop /\ reported # <<>>
  BY <1>1, <1>8, FireFacts DEF Drop
<1>9. CASE UNCHANGED vars
  BY <1>1, <1>9 DEF vars, outcomeVars
<1>10. QED
  BY <1>2, <1>4, <1>5, <1>6, <1>7, <1>8, <1>9 DEF Next

\* The tap and the parser implement a stream that is reported once and charged what is reported.
THEOREM TapImplementsMeteredStream == Spec => ImplementsMeteredStream
<1>1. QED
  BY Invariance, InitRefines, StepRefines, PTL DEF Spec, ImplementsMeteredStream, Metered!Spec
------------------------------------------------------------------------------
(***************************************************************************)
(* Proof that the outcome of a clean stream does not depend on how its     *)
(* body was cut into chunks.  While the parser parses, its buffer begins   *)
(* where a line begins (AtLine), and what it knows is what the lines that  *)
(* have ended by now say together (Read); the remnant adds the rest.       *)
(***************************************************************************)

Ended(position) == {line \in Terminated(stream) : stream.newlines[line] <= position}
Stated(lines)   == {line \in lines : stream.kinds[line] \in Usages}
SaidBy(lines)   == IF Stated(lines) = {} THEN NoUsage ELSE stream.kinds[Max(Stated(lines))]

EndOf(line) == IF line = 0 THEN 0 ELSE stream.newlines[line]
AtLine == ~malformed => \E line \in 0..Len(stream.newlines) : delivered - buffered = EndOf(line)

Read ==
    WithinLimit(stream) =>
      IF malformed THEN Rejected(Lines(stream)) # {}
      ELSE Rejected(Ended(delivered)) = {} /\ usage = SaidBy(Ended(delivered))

CInv == IInv /\ AtLine /\ Read /\ ChunkingInvisible
------------------------------------------------------------------------------
\* Later lines overrule earlier ones.
LEMMA SaidByUnion ==
    ASSUME stream \in Streams,
           NEW A \in SUBSET Lines(stream), NEW B \in SUBSET Lines(stream),
           \A a \in A, b \in B : a < b
    PROVE  SaidBy(A \cup B) = IF Stated(B) = {} THEN SaidBy(A) ELSE stream.kinds[Max(Stated(B))]
<1>1. Stated(A \cup B) = Stated(A) \cup Stated(B)
  BY DEF Stated
<1>2. CASE Stated(B) = {}
  BY <1>1, <1>2 DEF SaidBy
<1>3. CASE Stated(B) # {}
  <2> DEFINE m == Max(Stated(B))
             u == Max(Stated(A \cup B))
  <2>1. Len(stream.kinds) \in Nat /\ Lines(stream) = 1..Len(stream.kinds)
    BY LineFacts
  <2>2. m \in Stated(B) /\ \A x \in Stated(B) : x <= m
    BY <1>3, <2>1, MaxMember DEF Stated
  <2>3. u \in Stated(A \cup B) /\ \A x \in Stated(A \cup B) : x <= u
    <3>1. Stated(A \cup B) \subseteq 1..Len(stream.kinds) /\ Stated(A \cup B) # {}
      BY <1>1, <1>3, <2>1 DEF Stated
    <3>2. QED
      BY <2>1, <3>1, MaxMember
  <2> HIDE DEF m, u
  <2>4. m <= u /\ u \in Nat /\ m \in Nat
    BY <1>1, <2>1, <2>2, <2>3 DEF Stated
  <2>5. u \notin A
    BY <2>2, <2>4 DEF Stated
  <2>6. u <= m
    BY <1>1, <2>2, <2>3, <2>5 DEF Stated
  <2>7. u = m
    BY <2>4, <2>6
  <2>8. QED
    BY <1>1, <1>3, <2>7 DEF SaidBy, u, m
<1>4. QED
  BY <1>2, <1>3

\* If none of its lines is rejected, a chunk is read to its end.
LEMMA NothingRejected ==
    ASSUME NEW lines, Rejected(lines) = {}
    PROVE  UsageAfter(lines) = IF Stated(lines) = {} THEN usage ELSE stream.kinds[Max(Stated(lines))]
<1>1. Accepted(lines) = lines
  BY DEF Accepted
<1>2. QED
  BY <1>1 DEF UsageAfter, Stated

\* What is in the buffer belongs to one line, so a line within the limit never overflows it.
LEMMA OneLine ==
    ASSUME TypeOK, stream \in Streams, AtLine, ~malformed, WithinLimit(stream),
           NEW n \in Nat, delivered + n <= stream.size, buffered + n > 0,
           Completed(delivered + n) = {}
    PROVE  buffered + n <= MaxEventBytes
<1> USE SseAssumption
<1>1. /\ StreamOK(stream) /\ stream.size \in Nat /\ delivered \in Nat /\ buffered \in 0..delivered
      /\ Len(stream.newlines) \in Nat /\ Len(stream.kinds) \in Nat
      /\ Terminated(stream) = 1..Len(stream.newlines) /\ Lines(stream) = 1..Len(stream.kinds)
      /\ \A i \in 1..Len(stream.newlines) : stream.newlines[i] \in 1..stream.size
      /\ \A i, j \in 1..Len(stream.newlines) : i < j => stream.newlines[i] < stream.newlines[j]
      /\ Len(stream.kinds) \in {Len(stream.newlines), Len(stream.newlines) + 1}
  <2>1. StreamOK(stream) /\ Len(stream.kinds) \in {Len(stream.newlines), Len(stream.newlines) + 1}
    BY DEF TypeOK, StreamOK
  <2>2. /\ stream.size \in Nat /\ Len(stream.newlines) \in Nat /\ Len(stream.kinds) \in Nat
        /\ Terminated(stream) = 1..Len(stream.newlines) /\ Lines(stream) = 1..Len(stream.kinds)
        /\ \A i \in Terminated(stream) : stream.newlines[i] \in 1..stream.size
        /\ \A i, j \in Terminated(stream) : i < j => stream.newlines[i] < stream.newlines[j]
    BY LineFacts
  <2>3. delivered \in Nat /\ buffered \in 0..delivered
    BY <2>2 DEF TypeOK
  <2>4. QED
    BY <2>1, <2>2, <2>3
<1>2. PICK before \in 0..Len(stream.newlines) : delivered - buffered = EndOf(before)
  BY DEF AtLine
<1> DEFINE line == before + 1
<1>3. Start(stream, line) = EndOf(before) /\ EndOf(before) \in Nat
  BY <1>1, <1>2 DEF Start, EndOf
<1>4. CASE before < Len(stream.newlines)
  <2>1. line \in Terminated(stream) /\ line \in Lines(stream)
    BY <1>1, <1>4
  <2>2. stream.newlines[line] \in Nat /\ EndOf(before) < stream.newlines[line]
    BY <1>1, <1>2, <1>4 DEF EndOf
  <2>3. delivered + n < stream.newlines[line]
    BY <1>1, <1>2, <2>1, <2>2 DEF Completed
  <2>4. Content(stream, line) = stream.newlines[line] - 1 - EndOf(before)
    BY <1>3, <2>1 DEF Content
  <2>5. buffered + n <= Content(stream, line)
    BY <1>1, <1>2, <1>3, <2>2, <2>3, <2>4
  <2>6. Content(stream, line) <= MaxEventBytes /\ Content(stream, line) \in Int
    BY <1>3, <2>1, <2>2, <2>4 DEF WithinLimit
  <2>7. QED
    BY <1>1, <2>5, <2>6
<1>5. CASE before = Len(stream.newlines) /\ Remnant(stream) # {}
  <2>1. line \in Lines(stream) /\ line \notin Terminated(stream)
    BY <1>1, <1>5 DEF Remnant
  <2>2. Content(stream, line) = stream.size - EndOf(before)
    BY <1>3, <2>1 DEF Content
  <2>3. Content(stream, line) <= MaxEventBytes
    BY <2>1 DEF WithinLimit
  <2>4. buffered + n <= stream.size - EndOf(before)
    BY <1>1, <1>2, <1>3
  <2>5. QED
    BY <1>1, <1>3, <2>2, <2>3, <2>4
<1>6. CASE before = Len(stream.newlines) /\ Remnant(stream) = {}
  <2>1. stream.size = EndOf(before)
    BY <1>1, <1>6 DEF StreamOK, EndOf
  <2>2. QED
    BY <1>1, <1>2, <2>1
<1>7. QED
  BY <1>4, <1>5, <1>6

\* At the end of the body the buffer holds the remnant.
LEMMA AtTheEnd ==
    ASSUME TypeOK, stream \in Streams, AtLine, ~malformed, delivered = stream.size,
           Completed(delivered) = {}
    PROVE  /\ buffered = 0 <=> Remnant(stream) = {}
           /\ Ended(delivered) = Terminated(stream)
<1>1. /\ stream.size \in Nat /\ Len(stream.newlines) \in Nat /\ Len(stream.kinds) \in Nat
      /\ Terminated(stream) = 1..Len(stream.newlines) /\ Lines(stream) = 1..Len(stream.kinds)
      /\ \A i \in Terminated(stream) : stream.newlines[i] \in 1..stream.size
      /\ \A i, j \in Terminated(stream) : i < j => stream.newlines[i] < stream.newlines[j]
  BY LineFacts
<1>2. StreamOK(stream) /\ Len(stream.kinds) \in {Len(stream.newlines), Len(stream.newlines) + 1}
  BY DEF TypeOK, StreamOK
<1>3. Ended(delivered) = Terminated(stream)
  BY <1>1 DEF Ended
<1>4. PICK before \in 0..Len(stream.newlines) : delivered - buffered = EndOf(before)
  BY DEF AtLine
<1>5. before = Len(stream.newlines)
  <2>1. SUFFICES ASSUME before < Len(stream.newlines)
                 PROVE  FALSE
    BY <1>1
  <2>2. before + 1 \in Terminated(stream) /\ EndOf(before) < stream.newlines[before + 1]
    BY <1>1, <2>1 DEF EndOf
  <2>3. QED
    BY <1>1, <1>4, <2>2 DEF Completed
<1>6. buffered = stream.size - EndOf(before) /\ EndOf(before) \in Nat /\ buffered \in Nat
  BY <1>1, <1>4 DEF TypeOK, EndOf
<1>7. CASE Remnant(stream) = {}
  <2>1. stream.size = EndOf(before)
    BY <1>1, <1>2, <1>5, <1>7 DEF StreamOK, EndOf
  <2>2. QED
    BY <1>3, <1>6, <1>7, <2>1
<1>8. CASE Remnant(stream) # {}
  <2>1. PICK line \in Remnant(stream) : Content(stream, line) > 0
    BY <1>2, <1>8 DEF StreamOK
  <2>2. line = before + 1 /\ line \notin Terminated(stream)
    BY <1>1, <1>2, <1>5, <2>1 DEF Remnant
  <2>3. Content(stream, line) = stream.size - EndOf(before)
    BY <1>1, <1>5, <2>2 DEF Content, Start, EndOf
  <2>4. QED
    BY <1>3, <1>6, <1>8, <2>1, <2>3
<1>9. QED
  BY <1>7, <1>8

\* A clean end finds what the body says in one piece.
LEMMA FinishIsVerdict ==
    ASSUME IInv, AtLine, Read, delivered = stream.size, WithinLimit(stream)
    PROVE  Finish = Verdict(stream)
<1> USE DEF IInv
<1>1. CASE malformed
  <2>1. Rejected(Lines(stream)) # {}
    BY <1>1 DEF Read
  <2>2. Verdict(stream) = "MalformedSse"
    BY <2>1 DEF Verdict, Rejected
  <2>3. QED
    BY <1>1, <2>2 DEF Finish
<1>2. CASE ~malformed
  <2>1. Completed(delivered) = {}
    BY <1>2 DEF Drained
  <2>2. (buffered = 0 <=> Remnant(stream) = {}) /\ Ended(delivered) = Terminated(stream)
    BY <1>2, <2>1, AtTheEnd
  <2>3. buffered \in Nat /\ delivered \in Nat
    BY LineFacts DEF TypeOK
  <2>4. ~(buffered > MaxEventBytes)
    <3>1. CASE buffered = 0
      BY <3>1, SseAssumption
    <3>2. CASE buffered > 0
      <4>1. delivered + 0 = delivered /\ buffered + 0 = buffered
        BY <2>3
      <4>2. buffered <= MaxEventBytes
        BY <1>2, <2>1, <2>3, <3>2, <4>1, OneLine
      <4>3. QED
        BY <2>3, <4>2, SseAssumption
    <3>3. QED
      BY <2>3, <3>1, <3>2
  <2> DEFINE T == Terminated(stream)
             R == Remnant(stream)
  <2>5. (IF buffered = 0 THEN {} ELSE R) = R
    BY <2>2
  <2>6. /\ Lines(stream) = T \cup R /\ T \in SUBSET Lines(stream) /\ R \in SUBSET Lines(stream)
        /\ \A a \in T, b \in R : a < b
    BY LineFacts DEF Remnant
  <2>7. Rejected(T) = {} /\ usage = SaidBy(T)
    BY <1>2, <2>2 DEF Read
  <2>8. CASE Rejected(R) # {}
    <3>1. Finish = "MalformedSse"
      BY <2>5, <2>8 DEF Finish
    <3>2. Verdict(stream) = "MalformedSse"
      BY <2>6, <2>8 DEF Verdict, Rejected
    <3>3. QED
      BY <3>1, <3>2
  <2>9. CASE Rejected(R) = {}
    <3>1. UsageAfter(R) = SaidBy(Lines(stream))
      <4>1. UsageAfter(R) = IF Stated(R) = {} THEN usage ELSE stream.kinds[Max(Stated(R))]
        BY <2>9, NothingRejected
      <4>2. SaidBy(T \cup R) = IF Stated(R) = {} THEN SaidBy(T) ELSE stream.kinds[Max(Stated(R))]
        BY <2>6, SaidByUnion
      <4>3. QED
        BY <2>6, <2>7, <4>1, <4>2
    <3>2. Finish = IF SaidBy(Lines(stream)) = NoUsage THEN "MissingUsage" ELSE SaidBy(Lines(stream))
      BY <1>2, <2>4, <2>5, <2>9, <3>1 DEF Finish
    <3>3. ~\E line \in Lines(stream) : stream.kinds[line] = "broken"
      BY <2>6, <2>7, <2>9 DEF Rejected
    <3>4. Verdict(stream) = IF Stated(Lines(stream)) = {} THEN "MissingUsage"
                            ELSE stream.kinds[Max(Stated(Lines(stream)))]
      BY <3>3 DEF Verdict, Stated
    <3>5. Stated(Lines(stream)) # {} => SaidBy(Lines(stream)) # NoUsage
      <4>1. SUFFICES ASSUME Stated(Lines(stream)) # {}
                     PROVE  SaidBy(Lines(stream)) # NoUsage
        OBVIOUS
      <4>2. Stated(Lines(stream)) \subseteq 1..Len(stream.kinds) /\ Len(stream.kinds) \in Nat
        BY LineFacts DEF Stated
      <4>3. Max(Stated(Lines(stream))) \in Stated(Lines(stream))
        BY <4>1, <4>2, MaxMember
      <4>4. SaidBy(Lines(stream)) \in Usages
        BY <4>1, <4>3 DEF SaidBy, Stated
      <4>5. QED
        BY <4>4, SseAssumption
    <3>6. QED
      BY <3>2, <3>4, <3>5 DEF SaidBy
  <2>10. QED
    BY <2>8, <2>9
<1>3. QED
  BY <1>1, <1>2
------------------------------------------------------------------------------
\* A chunk keeps what the parser knows in step with the lines that have ended.
LEMMA ChunkStep ==
    ASSUME IInv, AtLine, Read, NEW n \in 1..MaxChunk, PollData(n)
    PROVE  AtLine' /\ Read'
<1> USE DEF IInv
<1>1. /\ stream' = stream /\ delivered' = delivered + n /\ delivered + n <= stream.size
      /\ Push(n) /\ n \in Nat /\ n > 0 /\ delivered \in Nat /\ buffered \in 0..delivered
  BY SseAssumption, LineFacts DEF PollData, TypeOK
<1>2. /\ Terminated(stream) = 1..Len(stream.newlines) /\ Len(stream.newlines) \in Nat
      /\ \A i \in Terminated(stream) : stream.newlines[i] \in Nat
      /\ \A i, j \in Terminated(stream) : i < j => stream.newlines[i] < stream.newlines[j]
      /\ Terminated(stream) \subseteq Lines(stream)
  BY LineFacts
<1>3. /\ Rejected(Lines(stream))' = Rejected(Lines(stream))
      /\ WithinLimit(stream)' = WithinLimit(stream)
      /\ Rejected(Ended(delivered))' = Rejected(Ended(delivered + n))
      /\ SaidBy(Ended(delivered))' = SaidBy(Ended(delivered + n))
  BY <1>1 DEF Rejected, Lines, WithinLimit, Content, Start, Terminated, Ended, SaidBy, Stated
<1>4. CASE malformed
  BY <1>1, <1>3, <1>4 DEF Push, parserVars, AtLine, Read
<1>5. CASE ~malformed /\ Completed(delivered + n) = {}
  <2>1. /\ buffered' = buffered + n /\ usage' = usage
        /\ malformed' = (buffered + n > MaxEventBytes)
    BY <1>1, <1>5 DEF Push, Overflow
  <2>2. AtLine'
    <3>1. delivered' - buffered' = delivered - buffered
      BY <1>1, <2>1
    <3>2. QED
      BY <1>1, <1>5, <3>1 DEF AtLine, EndOf
  <2>3. Ended(delivered + n) = Ended(delivered)
    <3>1. ASSUME NEW line \in Terminated(stream), stream.newlines[line] <= delivered + n
          PROVE  stream.newlines[line] <= delivered
      BY <1>1, <1>2, <1>5, <3>1 DEF Completed
    <3>2. ASSUME NEW line \in Terminated(stream), stream.newlines[line] <= delivered
          PROVE  stream.newlines[line] <= delivered + n
      BY <1>1, <1>2, <3>2
    <3>3. QED
      BY <3>1, <3>2 DEF Ended
  <2>4. CASE WithinLimit(stream)
    <3>1. buffered + n <= MaxEventBytes
      BY <1>1, <1>5, <2>4, OneLine
    <3>2. ~malformed'
      <4>1. ~(buffered + n > MaxEventBytes)
        BY <1>1, <3>1, SseAssumption
      <4>2. QED
        BY <2>1, <4>1, Zenon
    <3>3. QED
      BY <1>3, <1>5, <2>1, <2>2, <2>3, <2>4, <3>2 DEF Read
  <2>5. CASE ~WithinLimit(stream)
    BY <1>3, <2>2, <2>5 DEF Read
  <2>6. QED
    BY <2>4, <2>5
<1>6. CASE ~malformed /\ Completed(delivered + n) # {}
  <2> DEFINE lines == Completed(delivered + n)
             last  == IF Rejected(lines) = {} THEN Max(lines) ELSE Min(Rejected(lines))
  <2>1. /\ buffered' = delivered + n - stream.newlines[last]
        /\ usage' = UsageAfter(lines)
        /\ malformed' = (Rejected(lines) # {})
    BY <1>1, <1>6 DEF Push, ParseLines
  <2>2. last \in lines
    BY <1>1, <1>6, CompletedFacts
  <2> HIDE DEF last
  <2>3. last \in Terminated(stream) /\ stream.newlines[last] \in Nat
    BY <1>2, <2>2 DEF Completed
  <2>4. AtLine'
    <3>1. delivered' - buffered' = stream.newlines[last]
      BY <1>1, <2>1, <2>3
    <3>2. PICK line \in 1..Len(stream.newlines) : line = last
      BY <1>2, <2>3
    <3>3. /\ delivered' - buffered' = stream'.newlines[line]
          /\ line \in 0..Len(stream'.newlines) /\ line # 0
      BY <1>1, <1>2, <3>1, <3>2
    <3>4. QED
      BY <3>3 DEF AtLine, EndOf
  <2>5. CASE Rejected(lines) # {}
    <3>1. malformed'
      BY <2>1, <2>5, Zenon
    <3>2. Rejected(Lines(stream)) # {}
      BY <1>2, <2>5 DEF Rejected, Completed
    <3>3. QED
      BY <1>3, <2>4, <3>1, <3>2 DEF Read
  <2>6. CASE Rejected(lines) = {}
    <3>1. ~malformed'
      BY <2>1, <2>6, Zenon
    <3>2. \A line \in lines : line \in Terminated(stream) /\ delivered < stream.newlines[line]
                              /\ stream.newlines[line] <= delivered + n
      BY <1>1, <1>2, <1>6 DEF Drained, Completed
    <3>3. Ended(delivered + n) = Ended(delivered) \cup lines
      <4>1. ASSUME NEW line \in Ended(delivered + n), line \notin Ended(delivered)
            PROVE  line \in lines
        BY <1>1, <1>2, <4>1 DEF Ended, Completed
      <4>2. ASSUME NEW line \in Ended(delivered)
            PROVE  line \in Ended(delivered + n)
        BY <1>1, <1>2, <4>2 DEF Ended
      <4>3. lines \subseteq Ended(delivered + n)
        BY <3>2 DEF Ended
      <4>4. QED
        BY <4>1, <4>2, <4>3
    <3>4. \A a \in Ended(delivered), b \in lines : a < b
      <4> SUFFICES ASSUME NEW a \in Ended(delivered), NEW b \in lines
                   PROVE  a < b
        OBVIOUS
      <4>1. a \in Terminated(stream) /\ b \in Terminated(stream)
            /\ stream.newlines[a] < stream.newlines[b]
        BY <1>1, <1>2, <3>2 DEF Ended
      <4>2. a \in Nat /\ b \in Nat /\ ~(b < a) /\ a # b
        BY <1>2, <4>1
      <4>3. QED
        BY <4>2
    <3>5. Ended(delivered) \in SUBSET Lines(stream) /\ lines \in SUBSET Lines(stream)
      BY <1>2, <3>2 DEF Ended
    <3>6. CASE WithinLimit(stream)
      <4>1. Rejected(Ended(delivered)) = {} /\ usage = SaidBy(Ended(delivered))
        BY <1>6, <3>6 DEF Read
      <4>2. Rejected(Ended(delivered + n)) = {}
        BY <2>6, <3>3, <4>1 DEF Rejected
      <4>3. UsageAfter(lines) = IF Stated(lines) = {} THEN usage ELSE stream.kinds[Max(Stated(lines))]
        BY <2>6, NothingRejected
      <4>4. SaidBy(Ended(delivered + n)) =
              IF Stated(lines) = {} THEN SaidBy(Ended(delivered))
              ELSE stream.kinds[Max(Stated(lines))]
        BY <3>3, <3>4, <3>5, SaidByUnion
      <4>5. usage' = SaidBy(Ended(delivered + n))
        BY <2>1, <4>1, <4>3, <4>4
      <4>6. QED
        BY <1>3, <2>4, <3>1, <4>2, <4>5 DEF Read
    <3>7. CASE ~WithinLimit(stream)
      BY <1>3, <2>4, <3>7 DEF Read
    <3>8. QED
      BY <3>6, <3>7
  <2>7. QED
    BY <2>5, <2>6
<1>7. QED
  BY <1>4, <1>5, <1>6 DEF TypeOK
------------------------------------------------------------------------------
\* The invariant of the chunking holds at the start.
LEMMA InitCInv == Init => CInv
<1> SUFFICES ASSUME Init
             PROVE  CInv
  OBVIOUS
<1>1. IInv
  BY InitIInv
<1>2. AtLine
  <2>1. 0 \in 0..Len(stream.newlines) /\ delivered - buffered = 0
    BY LineFacts DEF Init
  <2>2. QED
    BY <2>1 DEF AtLine, EndOf
<1>3. Read
  <2>1. Ended(delivered) = {}
    BY LineFacts DEF Init, Ended
  <2>2. QED
    BY <2>1 DEF Init, Read, Rejected, SaidBy, Stated
<1>4. ChunkingInvisible
  BY DEF Init, ChunkingInvisible
<1>5. QED
  BY <1>1, <1>2, <1>3, <1>4 DEF CInv

\* Every step keeps the invariant of the chunking.
LEMMA NextCInv == CInv /\ [Next]_vars => CInv'
<1> SUFFICES ASSUME CInv, [Next]_vars
             PROVE  CInv'
  OBVIOUS
<1> USE DEF CInv
<1>1. IInv'
  BY NextIInv
<1>2. ASSUME UNCHANGED <<stream, delivered, parserVars>>
      PROVE  AtLine' /\ Read'
  BY <1>2 DEF AtLine, EndOf, Read, WithinLimit, Content, Start, Terminated, Lines, Rejected, Ended,
              SaidBy, Stated, parserVars
<1>3. ASSUME UNCHANGED <<stream, inner>>, inner = "ended" => reported' = reported
      PROVE  ChunkingInvisible'
  BY <1>3 DEF ChunkingInvisible, WithinLimit, Verdict, Content, Start, Terminated, Lines
<1>4. ASSUME NEW n \in 1..MaxChunk, PollData(n)
      PROVE  CInv'
  <2>1. AtLine' /\ Read'
    BY <1>4, ChunkStep
  <2>2. ChunkingInvisible'
    BY <1>3, <1>4 DEF PollData, outcomeVars
  <2>3. QED
    BY <1>1, <2>1, <2>2
<1>5. CASE PollError
  <2>1. ChunkingInvisible'
    BY <1>5 DEF PollError, ChunkingInvisible
  <2>2. QED
    BY <1>1, <1>2, <1>5, <2>1 DEF PollError
<1>6. CASE PollEnd /\ inner = "open"
  <2>1. delivered = stream.size /\ ~finished /\ reported = <<>>
    BY <1>6 DEF PollEnd, IInv, Latched
  <2>2. reported' = <<[outcome |-> Finish, cost |-> CostFor(Finish)]>>
    BY <1>6, <2>1 DEF PollEnd, FinishClean, Fire
  <2>3. reported'[1].outcome = Finish
    BY <2>2
  <2>4. WithinLimit(stream) => Finish = Verdict(stream)
    BY <2>1, FinishIsVerdict
  <2>5. WithinLimit(stream)' = WithinLimit(stream) /\ Verdict(stream)' = Verdict(stream)
    BY <1>6 DEF PollEnd, WithinLimit, Verdict, Content, Start, Terminated, Lines
  <2>6. ChunkingInvisible'
    BY <2>3, <2>4, <2>5 DEF ChunkingInvisible
  <2>7. QED
    BY <1>1, <1>2, <1>6, <2>6 DEF PollEnd
<1>7. CASE PollEnd /\ inner # "open"
  <2>1. UNCHANGED <<stream, inner, reported>>
    BY <1>7 DEF PollEnd, FinishClean, outcomeVars, IInv, Latched
  <2>2. QED
    BY <1>1, <1>2, <1>3, <1>7, <2>1 DEF PollEnd
<1>8. CASE Drop
  <2>1. inner = "ended" => reported' = reported
    BY <1>8, FireFacts DEF Drop, IInv, Latched
  <2>2. QED
    BY <1>1, <1>2, <1>3, <1>8, <2>1 DEF Drop
<1>9. CASE UNCHANGED vars
  BY <1>1, <1>2, <1>3, <1>9 DEF vars, outcomeVars
<1>10. QED
  BY <1>4, <1>5, <1>6, <1>7, <1>8, <1>9 DEF Next

\* For any body whose lines are within the limit, a clean stream has the outcome of the body read
\* in one piece, wherever its chunks were cut.
THEOREM ChunksDoNotShow == Spec => []ChunkingInvisible
<1>1. Spec => []CInv
  BY InitCInv, NextCInv, PTL DEF Spec
<1>2. CInv => ChunkingInvisible
  BY DEF CInv
<1>3. QED
  BY <1>1, <1>2, PTL
==============================================================================
