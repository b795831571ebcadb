------------------------------ MODULE Mutators -------------------------------
(***************************************************************************)
(* src/src/fault/mutate.rs: how a response body is rewritten so that the   *)
(* arguments of its tool calls are no JSON.  Of a body there remain the    *)
(* places a tool call can be in:                                           *)
(*   a call       "valid" or "malformed" arguments, or "none": the call    *)
(*                has no function.arguments                                *)
(*   a message    [tool_calls |-> Absent or a sequence of calls] (Absent   *)
(*                also if it is no array), Scalar if it is no object, or   *)
(*                Absent; a delta of a chunk likewise                      *)
(*   a choice     [message, delta], or Scalar                              *)
(*   a body       [kind |-> "json", choices |-> Absent or a sequence],     *)
(*                [kind |-> "sse", events |-> a sequence] or "opaque"      *)
(*   an event     "done", "raw" (no JSON), "other" (no data line), or      *)
(*                "json" with its choices                                  *)
(***************************************************************************)
EXTENDS Naturals, Sequences, FiniteSets

CONSTANTS Absent, Scalar

ToolCalls == {"valid", "malformed", "none"}
Messages  == {Absent, Scalar} \cup [tool_calls : {Absent} \cup Seq(ToolCalls)]
Choices   == {Scalar} \cup [message : Messages, delta : Messages]
Events    == [type : {"json"}, choices : {Absent} \cup Seq(Choices)]
               \cup [type : {"done", "raw", "other"}, choices : {Absent}]

\* What a provider sends; the choices of a completion have no delta.
ResponseBodies ==
    [kind : {"opaque"}]
      \cup [kind : {"json"},
            choices : {Absent} \cup Seq({Scalar} \cup [message : Messages, delta : {Absent}])]
      \cup [kind : {"sse"}, events : Seq(Events)]

\* What is absent or scalar is neither an object nor an array.
ASSUME MutatorsAssumption ==
    {Absent, Scalar} \cap ([tool_calls : {Absent} \cup Seq(ToolCalls)] \cup Seq(ToolCalls)
                             \cup [message : Messages, delta : Messages] \cup Seq(Choices)) = {}

IsObject(value)     == value \notin {Absent, Scalar}
HasCalls(message)   == IsObject(message) /\ message.tool_calls \notin {Absent, <<>>}
HasArguments(calls) == \E i \in DOMAIN calls : calls[i] # "none"

\* A rewriting yields the new value, and whether anything has changed.
Rewritten(value, changed) == [value |-> value, changed |-> changed]

\* The values of a sequence are rewritten one by one, and it has changed if one of them has.
RewriteAll(rewritings) ==
    Rewritten([i \in DOMAIN rewritings |-> rewritings[i].value],
              \E i \in DOMAIN rewritings : rewritings[i].changed)
------------------------------------------------------------------------------
\* Plausible bug: only the first call is corrupted.
CorruptFirstCall(calls) ==
    Rewritten([i \in DOMAIN calls |-> IF calls[i] # "none" /\ i = 1 THEN "malformed" ELSE calls[i]],
              HasArguments(calls))

\* corrupt_tool_calls_array, corrupt_arguments
CorruptToolCallsArray(calls) ==
    Rewritten([i \in DOMAIN calls |-> IF calls[i] # "none" THEN "malformed" ELSE calls[i]],
              HasArguments(calls))

\* corrupt_tool_calls_on_message_like
CorruptMessageLike(message) ==
    IF HasCalls(message)
    THEN LET calls == CorruptToolCallsArray(message.tool_calls)
         IN  Rewritten([tool_calls |-> calls.value], calls.changed)
    ELSE Rewritten(message, FALSE)

SyntheticMessage == [tool_calls |-> <<"malformed">>]
SyntheticChoice  == [message |-> SyntheticMessage, delta |-> Absent]
SyntheticChunk   == [message |-> Absent, delta |-> SyntheticMessage]

\* corrupt_choice, insert_synthetic_message, inject_malformed_tool_call.  A value that is no object
\* has no field and takes none.
CorruptChoice(choice) ==
    IF choice = Scalar \/ choice.message = Scalar THEN Rewritten(choice, FALSE)
    ELSE IF HasCalls(choice.message)
    THEN LET message == CorruptMessageLike(choice.message)
         IN  Rewritten([choice EXCEPT !.message = message.value], message.changed)
    ELSE Rewritten([choice EXCEPT !.message = SyntheticMessage], TRUE)

\* corrupt_completion
CorruptCompletion(choices) ==
    IF choices \in {Absent, <<>>} THEN Rewritten(<<SyntheticChoice>>, TRUE)
    ELSE RewriteAll([i \in DOMAIN choices |-> CorruptChoice(choices[i])])
------------------------------------------------------------------------------
\* corrupt_sse_chunk, for one choice of a chunk and for all.
CorruptChunkChoice(choice) ==
    IF choice = Scalar THEN Rewritten(choice, FALSE)
    ELSE LET delta   == CorruptMessageLike(choice.delta)
             message == CorruptMessageLike(choice.message)
         IN  Rewritten([delta |-> delta.value, message |-> message.value],
                       delta.changed \/ message.changed)

CorruptSseChunk(event) ==
    IF event.type # "json" \/ event.choices = Absent THEN Rewritten(event, FALSE)
    ELSE LET choices == RewriteAll([i \in DOMAIN event.choices |->
                                      CorruptChunkChoice(event.choices[i])])
         IN  Rewritten([event EXCEPT !.choices = choices.value], choices.changed)

DoneEvent == [type |-> "done", choices |-> Absent]
HasDone(events) == \E i \in DOMAIN events : events[i].type = "done"

\* ensure_sse_done
EnsureSseDone(events) == IF HasDone(events) THEN events ELSE Append(events, DoneEvent)

\* Plausible bug: a stream without tool calls is passed on.
MalformOnlyToolCalls(events) ==
    EnsureSseDone(RewriteAll([i \in DOMAIN events |-> CorruptSseChunk(events[i])]).value)

\* malform_sse: a stream in which nothing could be corrupted is replaced.
MalformSse(events) ==
    LET rewritten == RewriteAll([i \in DOMAIN events |-> CorruptSseChunk(events[i])])
    IN  IF rewritten.changed THEN EnsureSseDone(rewritten.value)
        ELSE <<[type |-> "json", choices |-> <<SyntheticChunk>>], DoneEvent>>

\* malform_tool_call_json: the body to send on, and whether the fault has been injected (None, and
\* the upstream's body, if not).
MalformToolCallJson(body) ==
    CASE body.kind = "json" ->
           LET choices == CorruptCompletion(body.choices)
           IN  IF choices.changed THEN Rewritten([body EXCEPT !.choices = choices.value], TRUE)
               ELSE Rewritten(body, FALSE)
      [] body.kind = "sse"    -> Rewritten([body EXCEPT !.events = MalformSse(body.events)], TRUE)
      [] body.kind = "opaque" -> Rewritten(body, FALSE)
------------------------------------------------------------------------------
(* What a reader of a body finds in it. *)

CallsOf(message)    == IF HasCalls(message) THEN {message.tool_calls[i] : i \in DOMAIN message.tool_calls}
                       ELSE {}
CallsOfChoice(choice) ==
    IF choice = Scalar THEN {} ELSE CallsOf(choice.message) \cup CallsOf(choice.delta)

CallsOfChoices(choices) ==
    IF choices = Absent THEN {} ELSE UNION {CallsOfChoice(choices[i]) : i \in DOMAIN choices}

CallsIn(body) ==
    CASE body.kind = "json"   -> CallsOfChoices(body.choices)
      [] body.kind = "sse"    -> UNION {CallsOfChoices(body.events[i].choices) : i \in DOMAIN body.events}
      [] body.kind = "opaque" -> {}

\* An agent that reads the body meets a malformed call and no valid one, and the stream ends.
Unusable(body) ==
    /\ "malformed" \in CallsIn(body) /\ "valid" \notin CallsIn(body)
    /\ body.kind = "sse" => HasDone(body.events)

\* Nothing in the body can be rewritten, and nothing can be put into it.
NoPlace(body) ==
    \/ body.kind = "opaque"
    \/ /\ body.kind = "json" /\ body.choices \notin {Absent, <<>>}
       /\ \A i \in DOMAIN body.choices :
            LET choice == body.choices[i]
            IN  \/ choice = Scalar \/ choice.message = Scalar
                \/ HasCalls(choice.message) /\ ~HasArguments(choice.message.tool_calls)
==============================================================================
