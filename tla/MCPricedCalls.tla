---------------------------- MODULE MCPricedCalls ----------------------------
(* A small instance of PricedCalls: tenths instead of millionths, and files that differ from a
   sound one in a field or two. *)
EXTENDS PricedCalls, TLC

Amount(mantissa, scale) == [mantissa |-> mantissa, scale |-> scale, negative |-> FALSE]
Price(input, output)    == [input |-> input, output |-> output]
Usage(prompt, completion) ==
    [prompt |-> prompt, completion |-> completion, total |-> prompt + completion]

MCBuiltinPrices == [gpt |-> Price(2, 7)]

\* Whole, with as many places as there are and more, the largest, too large, and too large to
\* scale; and what is negative too.
MCAmounts ==
    {Amount(0, 0), Amount(1, 1), Amount(3, 1), Amount(20, 2), Amount(40, 1), Amount(5, 2),
     Amount(41, 1), Amount(14, 0), Amount(16, 0), Amount(150, 2), Amount(149, 2)}
      \cup {[Amount(n, 0) EXCEPT !.negative = TRUE] : n \in {3, 16}}

SoundFile ==
    [proxy_listen |-> "127.0.0.1:0", upstream_base_url |-> "http://upstream",
     scenarios |-> <<"force_500", "force_429">>, probability |-> 1, max_llm_calls |-> 4,
     max_cost_usd |-> Amount(1, 1), model_prices |-> [gpt |-> Price(Amount(3, 1), Amount(30, 2))]]

\* The files that serve: caps, and prices for gpt or for own; gpt has a built-in price too.
Serving ==
    {[SoundFile EXCEPT !.max_cost_usd = cap, !.model_prices = overrides] :
       cap \in {Amount(0, 0), Amount(1, 1), Amount(20, 2), Amount(40, 1)},
       overrides \in {SoundFile.model_prices, [own |-> Price(Amount(40, 1), Amount(0, 0))]}}

\* One field that is wrong, two that are, and all amounts in all places.
Broken ==
    {[SoundFile EXCEPT !.proxy_listen = Blank], [SoundFile EXCEPT !.upstream_base_url = Blank],
     [SoundFile EXCEPT !.max_llm_calls = 0],
     [SoundFile EXCEPT !.max_llm_calls = 0, !.max_cost_usd = Amount(16, 0)]}
      \cup {[SoundFile EXCEPT !.probability = p] : p \in {-1, 0, Resolution, Resolution + 1, NotFinite}}
      \cup {[SoundFile EXCEPT !.scenarios = s] :
              s \in {<<>>, <<"force_500", "force_300", "force_500">>,
                     <<"force_500", "force_500", "force_300">>}}
      \cup {[SoundFile EXCEPT !.max_cost_usd = amount] : amount \in MCAmounts}
      \cup {[SoundFile EXCEPT !.model_prices = [gpt |-> Price(a, b)]] : a \in MCAmounts, b \in MCAmounts}
      \cup {[SoundFile EXCEPT !.model_prices = (name :> Price(a, Amount(0, 0))) @@ @] :
              name \in {"", "g pt", "own"}, a \in {Amount(1, 1), Amount(16, 0), Amount(5, 2)}}

\* Files that differ in what is accepted need no more than one call.
MCFiles ==
    {Missing, Unparsable} \cup Serving
      \cup {[raw EXCEPT !.max_llm_calls = IF @ = 0 THEN 0 ELSE 1] : raw \in Broken}

\* Costs that round up, down and to zero, and one that does not fit; a total that is wrong, and one
\* that does not fit.
MCStatedUsages ==
    {NoUsage, NotUsage}
      \cup {Usage(0, 0), Usage(3, 0), Usage(1, 1), Usage(9, 3), Usage(40, 0),
            [Usage(9, 3) EXCEPT !.total = 13], [Usage(40, 40) EXCEPT !.total = 40]}
==============================================================================
