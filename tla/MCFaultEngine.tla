---------------------------- MODULE MCFaultEngine ----------------------------
(* A small instance of FaultEngine: a generator with eight states, and bodies of every shape. *)
EXTENDS FaultEngine

CONSTANTS c1, c2, c3

MCGenerators == 0..7
Step(g)    == (5 * g + 3) % 8

MCRollOf(g)       == g \div 2
MCAfterRoll(g)    == Step(g)
MCPickOf(g, n)    == 1 + (g % n)
MCAfterPick(g, n) == (Step(g) + n) % 8

ConfigOf(scenarios, p, seed) == [scenarios |-> scenarios, probability |-> p, seed |-> seed]

\* All scenarios at half probability from two seeds; an unknown name; certainty; never.
MCConfigs ==
    {ConfigOf(<<"force_429", "malformed_tool_call_json", "force_500">>, 2, seed) : seed \in {0, 3}}
      \cup {ConfigOf(<<"force_300", "malformed_tool_call_json">>, 5, 1),
            ConfigOf(<<"force_500">>, 0, 1), ConfigOf(<<>>, 4, 2)}

MCToolCalls == {<<>>, <<"none">>, <<"valid">>, <<"valid", "valid">>, <<"none", "valid">>}
MCMessages  == {Absent, Scalar} \cup {[tool_calls |-> calls] : calls \in {Absent} \cup MCToolCalls}
MCDeltas    == {Absent, [tool_calls |-> <<"valid">>]}

MCChoices == {Scalar} \cup {[message |-> message, delta |-> Absent] : message \in MCMessages}
MCChunkChoices == {Scalar} \cup {[message |-> message, delta |-> delta] :
                                   message \in {Absent, [tool_calls |-> <<"valid">>]}, delta \in MCMessages}

UpTo(n, values) == UNION {[1..k -> values] : k \in 0..n}

MCEvents ==
    {[type |-> type, choices |-> Absent] : type \in {"done", "raw", "json"}}
      \cup {[type |-> "json", choices |-> choices] : choices \in UpTo(1, MCChunkChoices)}

MCBodies ==
    {[kind |-> "opaque"]}
      \cup {[kind |-> "json", choices |-> choices] : choices \in {Absent} \cup UpTo(2, MCChoices)}
      \cup {[kind |-> "sse", events |-> events] : events \in UpTo(2, MCEvents)}
==============================================================================
