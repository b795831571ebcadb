------------------------------ MODULE SseUsage -------------------------------
(***************************************************************************)
(* SseUsageTap and SseUsageParser of src/src/usage/sse.rs: the body of a   *)
(* streamed response is passed on chunk by chunk, as its consumer polls,   *)
(* and read for a usage field on the way.  The chunks are cut anywhere,    *)
(* the stream may fail or be dropped at any point, and a consumer may poll *)
(* again after a failure or the end.                                       *)
(*                                                                         *)
(* A byte is only its position.  stream says where the newlines are and    *)
(* what each line holds; there may be a remnant after the last newline.    *)
(***************************************************************************)
EXTENDS Naturals, Sequences, FiniteSetsExt

CONSTANTS
    Streams,        \* the bodies a provider may send: see StreamOK
    Usages, CostOf, NoCost,
    NoUsage,        \* usage: None
    MaxEventBytes,
    MaxChunk        \* the most bytes that one poll yields

VARIABLES
    stream,
    inner,          \* the upstream's stream: "open", "failed" or "ended"
    delivered,      \* how many of its bytes have been passed on
    buffered,       \* parser.buffer.len()
    usage,          \* parser.usage
    malformed,      \* parser.malformed
    tap,            \* "polled", or "dropped"
    finished,
    priced, reported, committed    \* see MeteredStream

parserVars  == <<buffered, usage, malformed>>
outcomeVars == <<finished, reported, committed>>
vars        == <<stream, inner, delivered, parserVars, tap, priced, outcomeVars>>

Reasons == {"MalformedSse", "MissingUsage", "StreamInterrupted"}

\* What parse_line tells apart: a line without usage (a comment, an empty or [DONE] payload, JSON
\* without a usage field or with a null one), one that it rejects, and one with a usage.
Kinds == {"plain", "broken"} \cup Usages

Terminated(s) == DOMAIN s.newlines
Lines(s)      == DOMAIN s.kinds
Remnant(s)    == Lines(s) \ Terminated(s)

\* Where the line starts and where its content ends.
Start(s, line) == IF line = 1 THEN 0 ELSE s.newlines[line - 1]
Content(s, line) ==
    (IF line \in Terminated(s) THEN s.newlines[line] - 1 ELSE s.size) - Start(s, line)

StreamOK(s) ==
    /\ s.size \in Nat
    /\ s.newlines \in Seq(1..s.size)
    /\ \A i, j \in Terminated(s) : i < j => s.newlines[i] < s.newlines[j]
    /\ s.kinds \in Seq(Kinds)
    /\ Len(s.kinds) \in {Len(s.newlines), Len(s.newlines) + 1}
    /\ \A line \in Lines(s) : s.kinds[line] # "plain" => Content(s, line) > 0
    /\ IF Remnant(s) # {} THEN \A line \in Remnant(s) : Content(s, line) > 0
       ELSE s.size = (IF s.newlines = <<>> THEN 0 ELSE s.newlines[Len(s.newlines)])

ASSUME SseAssumption ==
    /\ {MaxEventBytes, MaxChunk} \subseteq Nat
    /\ Usages \cap ({"plain", "broken", NoUsage} \cup Reasons) = {}
    /\ \A s \in Streams : StreamOK(s)

TypeOK ==
    /\ StreamOK(stream)
    /\ inner \in {"open", "failed", "ended"}
    /\ delivered \in 0..stream.size
    /\ buffered \in 0..delivered
    /\ usage \in Usages \cup {NoUsage}
    /\ malformed \in BOOLEAN /\ finished \in BOOLEAN /\ priced \in BOOLEAN
    /\ tap \in {"polled", "dropped"}

Init ==
    /\ stream \in Streams
    /\ inner = "open"
    /\ delivered = 0
    /\ buffered = 0
    /\ usage = NoUsage
    /\ malformed = FALSE
    /\ tap = "polled"
    /\ finished = FALSE
    /\ priced \in BOOLEAN
    /\ reported = <<>>
    /\ committed = <<>>
------------------------------------------------------------------------------
(* The parser. *)

\* parse_line, over `lines` in their order: the first that it rejects ends the parsing.
Rejected(lines) == {line \in lines : stream.kinds[line] = "broken"}
Accepted(lines) == {line \in lines : \A broken \in Rejected(lines) : line < broken}

\* Plausible bug: a null usage field is taken for a usage.
NullUsageAccepted(lines) ==
    LET stated == Accepted(lines)
    IN  IF stated = {} THEN usage ELSE stream.kinds[Max(stated)]

UsageAfter(lines) ==
    LET stated == {line \in Accepted(lines) : stream.kinds[line] \in Usages}
    IN  IF stated = {} THEN usage ELSE stream.kinds[Max(stated)]

\* The lines that are in the buffer as a whole once it extends to `position`.
Completed(position) ==
    {line \in Terminated(stream) :
       delivered - buffered < stream.newlines[line] /\ stream.newlines[line] <= position}

Overflow(n) ==
    /\ buffered' = buffered + n
    /\ malformed' = (buffered + n > MaxEventBytes)
    /\ UNCHANGED usage

ParseLines(n) ==
    LET lines == Completed(delivered + n)
        last  == IF Rejected(lines) = {} THEN Max(lines) ELSE Min(Rejected(lines))
    IN  /\ buffered' = delivered + n - stream.newlines[last]
        /\ usage' = UsageAfter(lines)
        /\ malformed' = (Rejected(lines) # {})

\* Plausible bugs: the limit is checked at the end only; one line is parsed for each chunk.
PushUnbounded(n) ==
    IF malformed THEN UNCHANGED parserVars
    ELSE IF Completed(delivered + n) # {} THEN ParseLines(n)
    ELSE /\ buffered' = buffered + n
         /\ UNCHANGED <<usage, malformed>>

PushOneLine(n) ==
    LET lines == Completed(delivered + n)
    IN  IF malformed THEN UNCHANGED parserVars
        ELSE IF lines = {} THEN Overflow(n)
        ELSE /\ buffered' = delivered + n - stream.newlines[Min(lines)]
             /\ usage' = UsageAfter({Min(lines)})
             /\ malformed' = (Rejected({Min(lines)}) # {})

Push(n) ==
    IF malformed THEN UNCHANGED parserVars
    ELSE IF Completed(delivered + n) = {} THEN Overflow(n)
    ELSE ParseLines(n)

\* finish: the remnant is parsed like a line.
Finish ==
    LET remnant == IF buffered = 0 THEN {} ELSE Remnant(stream)
    IN  IF malformed \/ buffered > MaxEventBytes \/ Rejected(remnant) # {} THEN "MalformedSse"
        ELSE IF UsageAfter(remnant) = NoUsage THEN "MissingUsage"
        ELSE UsageAfter(remnant)
------------------------------------------------------------------------------
(* The tap. *)

\* CompletionSlot::fire
Fire(outcome, cost) ==
    reported' = IF reported = <<>> THEN <<[outcome |-> outcome, cost |-> cost]>> ELSE reported

\* Plausible bug: an interruption does not latch, so that a later end is taken for a clean one.
FinishInterruptedUnlatched ==
    /\ Fire("StreamInterrupted", NoCost)
    /\ UNCHANGED <<finished, committed>>

FinishInterrupted ==
    IF finished THEN UNCHANGED outcomeVars
    ELSE /\ finished' = TRUE
         /\ Fire("StreamInterrupted", NoCost)
         /\ UNCHANGED committed

\* price.calculate(usage).ok()
CostFor(outcome) == IF priced /\ outcome \in Usages THEN CostOf[outcome] ELSE NoCost

FinishClean ==
    IF finished THEN UNCHANGED outcomeVars
    ELSE /\ finished' = TRUE
         /\ Fire(Finish, CostFor(Finish))
         /\ committed' = IF CostFor(Finish) = NoCost THEN committed
                         ELSE Append(committed, CostFor(Finish))

PollData(n) ==
    /\ tap = "polled" /\ inner = "open"
    /\ delivered + n <= stream.size
    /\ delivered' = delivered + n
    /\ Push(n)
    /\ UNCHANGED <<stream, inner, tap, priced, outcomeVars>>

PollError ==
    /\ tap = "polled" /\ inner = "open"
    /\ inner' = "failed"
    /\ FinishInterrupted
    /\ UNCHANGED <<stream, delivered, parserVars, tap, priced>>

\* A stream that has failed yields nothing more.
PollEnd ==
    /\ tap = "polled"
    /\ inner = "open" => delivered = stream.size
    /\ inner' = IF inner = "open" THEN "ended" ELSE inner
    /\ FinishClean
    /\ UNCHANGED <<stream, delivered, parserVars, tap, priced>>

\* Plausible bug: a response that nobody reads any more is not reported.
DropInSilence ==
    /\ tap = "polled"
    /\ tap' = "dropped"
    /\ UNCHANGED <<stream, inner, delivered, parserVars, priced, outcomeVars>>

\* The tap is dropped, and CompletionSlot with it.
Drop ==
    /\ tap = "polled"
    /\ tap' = "dropped"
    /\ Fire("StreamInterrupted", NoCost)
    /\ UNCHANGED <<stream, inner, delivered, parserVars, priced, finished, committed>>

Next ==
    \/ \E n \in 1..MaxChunk : PollData(n)
    \/ PollError \/ PollEnd \/ Drop

Spec == Init /\ [][Next]_vars
------------------------------------------------------------------------------
\* A stream is reported once, and charged exactly what is reported for it: no failure, drop or
\* further poll adds a report or a charge, and an interrupted stream is not charged.
Metered == INSTANCE MeteredStream
ImplementsMeteredStream == Metered!Spec

\* Whichever way a response ends, it has been reported by then.
ReportedAtTheEnd == inner # "open" \/ tap = "dropped" => reported # <<>>

\* What the whole body says, read in one piece.
Verdict(s) ==
    LET stated == {line \in Lines(s) : s.kinds[line] \in Usages}
    IN  IF \E line \in Lines(s) : s.kinds[line] = "broken" THEN "MalformedSse"
        ELSE IF stated = {} THEN "MissingUsage"
        ELSE s.kinds[Max(stated)]

WithinLimit(s) == \A line \in Lines(s) : Content(s, line) <= MaxEventBytes

\* The way a body is cut into chunks does not show in its outcome, if no line exceeds the limit.
ChunkingInvisible ==
    inner = "ended" /\ WithinLimit(stream) => reported[1].outcome = Verdict(stream)

\* Whatever a provider sends, the memory of the parser stays within the limit and two chunks: what
\* follows the last newline of one chunk is held against the limit when the next one arrives.
BufferBounded == buffered <= Max({MaxEventBytes, MaxChunk}) + MaxChunk

\* "sse_parser_reports_malformed_events_and_oversized_lines": a body with a line over the limit is
\* malformed.
OversizedReported ==
    inner = "ended" /\ ~WithinLimit(stream) => reported[1].outcome = "MalformedSse"
==============================================================================
