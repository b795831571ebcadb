----------------------------- MODULE PricedCalls -----------------------------
(***************************************************************************)
(* From the amounts of maul.yaml to the spend cap: main() loads and        *)
(* validates the file and builds the limits and the price table; calls are *)
(* then admitted under the limits (BudgetTracker::admit, one step here;    *)
(* BudgetTracker has the detail) and their usage is priced and committed   *)
(* when their answers are in, in any order.                                *)
(*   phase: loading -> rejected | panicked | loaded -> validated | serving *)
(* `exact` and `charged` are history: what the calls that were charged     *)
(* have cost at the prices of the file and of the built-in table, without  *)
(* any rounding, and how many those calls are.                             *)
(***************************************************************************)
EXTENDS Configuration

CONSTANTS
    Files,          \* the files that main() is started with
    Models,         \* the models that agents ask for
    StatedUsages,   \* the `usage` of a body: UsageFields, NoUsage or NotUsage
    NoUsage,        \* there is none, it is null, or there is no body
    NotUsage,       \* it is something else, or the body is no JSON
    NoConfig

Prices == [input : 0..MaxU64, output : 0..MaxU64]

ASSUME PricedAssumption ==
    /\ \A model \in DOMAIN BuiltinPrices : BuiltinPrices[model] \in Prices
    /\ \A stated \in StatedUsages \ {NoUsage, NotUsage} :
         {stated.prompt, stated.completion, stated.total} \subseteq 0..MaxU64
    /\ \A raw \in Files \ {Missing, Unparsable} :
         /\ raw.max_llm_calls \in 0..MaxU64 /\ IsAmount(raw.max_cost_usd)
         /\ raw.scenarios \in Seq(STRING)
         /\ \A model \in DOMAIN raw.model_prices :
              IsAmount(raw.model_prices[model].input) /\ IsAmount(raw.model_prices[model].output)

VARIABLES
    phase, file, config, prices,
    calls_reserved, observed_cost_usd,
    waiting,        \* the calls that have been admitted and not metered: number and model
    exact, charged

loadVars  == <<phase, file, config, prices>>
spendVars == <<calls_reserved, observed_cost_usd, waiting, exact, charged>>
vars      == <<loadVars, spendVars>>

Init ==
    /\ phase = "loading" /\ file \in Files
    /\ config = NoConfig /\ prices = NoConfig
    /\ calls_reserved = 0 /\ observed_cost_usd = 0
    /\ waiting = {}
    /\ exact = 0 /\ charged = 0

\* load() returns an error, and so does main(); or the multiplication in try_from panics.
Reject ==
    /\ phase = "loading"
    /\ \E error \in Errors(file) : phase' = IF error = "panic" THEN "panicked" ELSE "rejected"
    /\ UNCHANGED <<file, config, prices, spendVars>>

Load ==
    /\ phase = "loading" /\ Errors(file) = {}
    /\ phase' = "loaded"
    /\ config' = Validated(file)
    /\ UNCHANGED <<file, prices, spendVars>>

\* maul --validate
ValidateOnly ==
    /\ phase = "loaded"
    /\ phase' = "validated"
    /\ UNCHANGED <<file, config, prices, spendVars>>

Serve ==
    /\ phase = "loaded"
    /\ phase' = "serving"
    /\ prices' = WithOverrides(config.model_prices)
    /\ UNCHANGED <<file, config, spendVars>>
------------------------------------------------------------------------------
\* resolve_price: a spend cap is not compatible with a model that has no price.
Priced(model) == config.max_cost_usd = 0 \/ Lookup(prices, model) # NoPrice

CostCapReached == config.max_cost_usd # 0 /\ observed_cost_usd >= config.max_cost_usd

Admit(model) ==
    /\ phase = "serving" /\ Priced(model)
    /\ ~CostCapReached /\ calls_reserved < config.max_llm_calls
    /\ calls_reserved' = calls_reserved + 1
    /\ waiting' = waiting \cup {[number |-> calls_reserved + 1, model |-> model]}
    /\ UNCHANGED <<loadVars, observed_cost_usd, exact, charged>>

\* Amounts in the smallest unit a Decimal can have.
Units(amount)  == amount.mantissa * Radix ^ (MaxScale - amount.scale)
UnitsPerMicro  == Radix ^ (MaxScale - Digits)

StatedPrice(model) ==
    IF model \in DOMAIN file.model_prices
    THEN [input |-> Units(file.model_prices[model].input),
          output |-> Units(file.model_prices[model].output)]
    ELSE [input |-> UnitsPerMicro * BuiltinPrices[model].input,
          output |-> UnitsPerMicro * BuiltinPrices[model].output]

SaturatingAdd(a, b) == IF a + b > MaxU64 THEN MaxU64 ELSE a + b

\* extract_usage, TokenUsage::try_from
Outcome(stated) ==
    IF stated = NoUsage THEN "MissingUsage"
    ELSE IF stated = NotUsage THEN "MalformedUsage"
    ELSE IF stated.prompt + stated.completion > MaxU64 THEN "MalformedUsage"
    ELSE IF stated.total # stated.prompt + stated.completion THEN "MalformedUsage"
    ELSE "Metered"

\* The cost of an answer: none without a usage, without a price, or if it does not fit.
CostOf(model, stated) ==
    IF Outcome(stated) # "Metered" \/ Lookup(prices, model) = NoPrice THEN NoCost
    ELSE Calculate(Lookup(prices, model), stated)

Meter(call, stated) ==
    LET cost == CostOf(call.model, stated)
    IN  /\ call \in waiting /\ cost # NoCost
        /\ waiting' = waiting \ {call}
        /\ observed_cost_usd' = SaturatingAdd(observed_cost_usd, cost)
        /\ exact' = exact + Total(StatedPrice(call.model), stated)
        /\ charged' = charged + 1
        /\ UNCHANGED <<loadVars, calls_reserved>>

\* The call failed, or what it returned cannot be metered or costed.
Unmetered(call, stated) ==
    /\ call \in waiting /\ CostOf(call.model, stated) = NoCost
    /\ waiting' = waiting \ {call}
    /\ UNCHANGED <<loadVars, calls_reserved, observed_cost_usd, exact, charged>>

Next ==
    \/ Reject \/ Load \/ ValidateOnly \/ Serve
    \/ \E model \in Models : Admit(model)
    \/ \E call \in waiting, stated \in StatedUsages : Meter(call, stated) \/ Unmetered(call, stated)

Spec == Init /\ [][Next]_vars
------------------------------------------------------------------------------
\* An amount is worth this many micro-USD exactly.
IsWorth(amount, micro) ==
    ~amount.negative /\ micro * Radix ^ amount.scale = amount.mantissa * Million

Representable(amount) == \E micro \in 0..MaxU64 : IsWorth(amount, micro)

Sound(raw) ==
    /\ Blank \notin {raw.proxy_listen, raw.upstream_base_url}
    /\ raw.probability # NotFinite /\ raw.probability \in 0..Resolution
    /\ raw.max_llm_calls > 0
    /\ Cardinality({i \in DOMAIN raw.scenarios : IsSupportedScenario(raw.scenarios[i])})
         = Len(raw.scenarios)
    /\ Cardinality({raw.scenarios[i] : i \in DOMAIN raw.scenarios}) = Len(raw.scenarios)
    /\ Representable(raw.max_cost_usd)
    /\ \A model \in DOMAIN raw.model_prices :
         /\ IsModelId(model)
         /\ Representable(raw.model_prices[model].input)
         /\ Representable(raw.model_prices[model].output)

\* RawConfig::validate and MicroUsd::try_from: a file is accepted exactly if all of it is sound,
\* whatever the order of the checks and the step that fails, and then every amount of it is kept
\* to the last digit; nothing is served from a file that is not sound.
ConvertedExactly ==
    /\ phase \in {"rejected", "panicked"} =>
         file \in {Missing, Unparsable} \/ ~Sound(file)
    /\ phase \in {"loaded", "validated", "serving"} =>
         /\ file \notin {Missing, Unparsable} /\ Sound(file)
         /\ IsWorth(file.max_cost_usd, config.max_cost_usd)
         /\ \A model \in DOMAIN file.model_prices :
              /\ IsWorth(file.model_prices[model].input, config.model_prices[model].input)
              /\ IsWorth(file.model_prices[model].output, config.model_prices[model].output)

\* BudgetTracker::admit and Price::calculate: when a call is admitted, what the calls charged so
\* far have cost at the stated prices is less than the cap of the file plus half a micro-USD for
\* each of them.  Rounding is not corrected later, so the bound grows with their number, and not
\* faster.
CapWithinRounding ==
    [][calls_reserved' > calls_reserved /\ config.max_cost_usd # 0 =>
         2 * exact < 2 * Million * Units(file.max_cost_usd) + charged * Million * UnitsPerMicro]_vars
==============================================================================
