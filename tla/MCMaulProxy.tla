----------------------------- MODULE MCMaulProxy -----------------------------
(* Small instances of MaulProxy: the requests that agents send in each run. *)
EXTENDS MaulProxy, TLC

CONSTANTS r1, r2, r3

\* A chat completion that nothing is wrong with.
Chat(session, stream) ==
    [billable |-> TRUE, body |-> "ok", header |-> session, user |-> NoSession,
     metadata |-> NoSession, stream |-> stream, priced |-> TRUE, options_ok |-> TRUE]

Broken(body) == [body |-> body, user |-> "B", header |-> "absent"] @@ Chat("A", FALSE)

\* Every path through the handlers: streamed and not, priced and not, each way of being refused,
\* each source of a session, and a request that is not billable.
PathInputs ==
    {Chat("A", FALSE),
     Chat("A", TRUE),
     [priced |-> FALSE] @@ Chat("A", FALSE),
     [priced |-> FALSE] @@ Chat("invalid", TRUE),
     [options_ok |-> FALSE] @@ Chat("A", TRUE),
     Broken("too_large"),
     [user |-> "B", metadata |-> "A"] @@ Chat("absent", FALSE),
     [billable |-> FALSE] @@ Chat("A", FALSE),
     [billable |-> FALSE, body |-> "too_large"] @@ Chat("A", FALSE)}

\* Streams that compete for the budget, and a request whose model has no price.
RaceInputs == {Chat("A", TRUE), [priced |-> FALSE] @@ Chat("A", FALSE)}

\* Requests that name their session in the JSON body.
SessionInputs == {Broken("ok"), Broken("not_chat"), Broken("not_json"), Chat("A", FALSE)}

\* The requests are alike, and no property of the race names one.
Symmetric == Permutations(Requests)
==============================================================================
