---------------------------- MODULE Configuration ----------------------------
(***************************************************************************)
(* src/src/config.rs: what load() and RawConfig::validate make of a file,  *)
(* and PricingRegistry::with_overrides of src/src/pricing/mod.rs.          *)
(* A raw configuration has the fields of RawConfig; an address is Blank or *)
(* not, a probability is in parts of Resolution or NotFinite, an amount is *)
(* a Decimal, and the seed, which is only handed on, is left out.          *)
(***************************************************************************)
EXTENDS Amounts, Sequences, FiniteSets

CONSTANTS
    Missing, Unparsable,      \* a file that cannot be read, and one that is no RawConfig
    Blank,                    \* an address of white space
    Resolution, NotFinite,
    SpacedModels,             \* model names with white space in them
    BuiltinPrices,            \* builtin_prices()
    NoPrice

IsSupportedScenario(name) == name \in {"force_500", "force_429", "malformed_tool_call_json"}

\* ModelId::try_from; a chat request is rejected for the same reasons.
IsModelId(name) == name # "" /\ name \notin SpacedModels

\* The first scenario that is unknown, or the repetition of an earlier one.
ScenarioErrors(scenarios) ==
    LET Unknown(i)  == ~IsSupportedScenario(scenarios[i])
        Repeated(i) == \E j \in 1..(i - 1) : scenarios[j] = scenarios[i]
        bad         == {i \in DOMAIN scenarios : Unknown(i) \/ Repeated(i)}
        first       == CHOOSE i \in bad : \A j \in bad : i <= j
    IN  IF bad = {} THEN {}
        ELSE {IF Unknown(first) THEN "UnknownScenario" ELSE "DuplicateScenario"}

AmountErrors(amount) == {TryFrom(amount).error} \ {"none"}

PriceErrors(model, price) ==
    IF ~IsModelId(model) THEN {"InvalidModelId"}
    ELSE IF AmountErrors(price.input) # {} THEN AmountErrors(price.input)
    ELSE AmountErrors(price.output)

\* What each check of validate() may find.  The prices are in a HashMap: any of their errors may
\* be the one that ends the iteration.
Checks(raw) ==
    LET When(condition, error) == IF condition THEN {error} ELSE {}
    IN  << When(raw.proxy_listen = Blank, "EmptyListenAddress"),
           When(raw.upstream_base_url = Blank, "EmptyUpstreamUrl"),
           When(raw.probability = NotFinite \/ raw.probability \notin 0..Resolution,
                "InvalidProbability"),
           When(raw.max_llm_calls = 0, "InvalidCallLimit"),
           ScenarioErrors(raw.scenarios),
           UNION {PriceErrors(model, raw.model_prices[model]) : model \in DOMAIN raw.model_prices},
           AmountErrors(raw.max_cost_usd) >>

\* The first check that finds an error returns; {}: the configuration is valid.
Errors(file) ==
    IF file = Missing THEN {"Read"}
    ELSE IF file = Unparsable THEN {"Parse"}
    ELSE LET found == {i \in DOMAIN Checks(file) : Checks(file)[i] # {}}
         IN  IF found = {} THEN {}
             ELSE Checks(file)[CHOOSE i \in found : \A j \in found : i <= j]

ConvertedPrice(price) ==
    [input |-> TryFrom(price.input).micro, output |-> TryFrom(price.output).micro]

\* The Config of a valid RawConfig.
Validated(raw) ==
    [proxy_listen |-> raw.proxy_listen, upstream_base_url |-> raw.upstream_base_url,
     scenarios |-> raw.scenarios, probability |-> raw.probability,
     max_llm_calls |-> raw.max_llm_calls, max_cost_usd |-> TryFrom(raw.max_cost_usd).micro,
     model_prices |-> [model \in DOMAIN raw.model_prices |-> ConvertedPrice(raw.model_prices[model])]]
------------------------------------------------------------------------------
\* PricingRegistry: extend() replaces the built-in price of a model that is configured.
WithOverrides(overrides) ==
    [model \in DOMAIN overrides \cup DOMAIN BuiltinPrices |->
       IF model \in DOMAIN overrides THEN overrides[model] ELSE BuiltinPrices[model]]

Lookup(prices, model) == IF model \in DOMAIN prices THEN prices[model] ELSE NoPrice
==============================================================================
