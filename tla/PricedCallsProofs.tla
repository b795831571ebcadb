-------------------------- MODULE PricedCallsProofs ---------------------------
(***************************************************************************)
(* The spend cap of the configuration file, for every file, price, usage   *)
(* and number of calls: amounts are converted exactly, a cost is off by    *)
(* half a micro-USD at most, and admission adds no other error.            *)
(***************************************************************************)
EXTENDS PricedCalls, Foundations

\* Division with a remainder.
LEMMA Division ==
    ASSUME NEW a \in Nat, NEW b \in Nat, b > 0
    PROVE  /\ a \div b \in Nat /\ a % b \in 0..(b - 1)
           /\ a = b * (a \div b) + (a % b)
<1>1. a % b \in 0..(b - 1)
  BY SMT
<1>2. a \div b \in Nat
  BY SMT
<1>3. a = b * (a \div b) + (a % b)
  BY SMT
<1> QED
  BY <1>1, <1>2, <1>3

\* Half a million is exact.
LEMMA Halves == Million \in Nat /\ Million > 0 /\ Half \in Nat /\ 2 * Half = Million
<1>1. Million \in Nat /\ Million > 0
  BY AmountsAssumption, PowersAssumption DEF Million
<1>2. Million % 2 = 0
  BY AmountsAssumption
<1> QED
  BY <1>1, <1>2 DEF Half

\* The place value of a micro-USD.
LEMMA Places == UnitsPerMicro \in Nat /\ UnitsPerMicro > 0
<1>1. MaxScale - Digits \in 0..MaxScale
  BY AmountsAssumption
<1> QED
  BY <1>1, PowersAssumption DEF UnitsPerMicro

\* MicroUsd::try_from: an amount that is accepted is kept to the last digit.
LEMMA AmountKept ==
    ASSUME NEW amount, IsAmount(amount), TryFrom(amount).error = "none"
    PROVE  /\ TryFrom(amount).micro \in 0..MaxU64
           /\ Units(amount) = UnitsPerMicro * TryFrom(amount).micro
<1> DEFINE m == amount.mantissa
           s == amount.scale
<1>0. /\ m \in Nat /\ s \in 0..MaxScale /\ Digits \in Nat /\ MaxU64 \in Nat /\ MaxScale \in Nat
      /\ Digits <= MaxScale
  BY AmountsAssumption DEF IsAmount
<1>1. /\ ~HasFraction(amount) /\ ~(Scaled(amount) > MaxU64)
      /\ TryFrom(amount).micro = Scaled(amount)
  <2>1. ~amount.negative /\ ~Unscalable(amount) /\ ~HasFraction(amount) /\ ~(Scaled(amount) > MaxU64)
    BY DEF TryFrom, Failed
  <2> QED BY <2>1 DEF TryFrom, Converted
<1>2. CASE s <= Digits
  <2>0. Digits - s \in 0..MaxScale /\ MaxScale - Digits \in 0..MaxScale
        /\ (MaxScale - Digits) + (Digits - s) <= MaxScale
    BY <1>0, <1>2
  <2>1. /\ Radix ^ (Digits - s) \in Nat /\ Radix ^ (MaxScale - Digits) \in Nat
        /\ Radix ^ ((MaxScale - Digits) + (Digits - s)) = Radix ^ (MaxScale - Digits) * Radix ^ (Digits - s)
    BY <2>0, PowersAssumption
  <2>2. (MaxScale - Digits) + (Digits - s) = MaxScale - s
    BY <1>0
  <2>3. Scaled(amount) = m * Radix ^ (Digits - s)
    BY <1>0, <1>2 DEF Scaled
  <2>4. Units(amount) = m * (Radix ^ (MaxScale - Digits) * Radix ^ (Digits - s))
    BY <2>1, <2>2 DEF Units
  <2> HIDE DEF m, s
  <2> QED
    BY <1>0, <1>1, <2>1, <2>3, <2>4 DEF UnitsPerMicro
<1>3. CASE s > Digits
  <2>0. s - Digits \in 0..MaxScale /\ MaxScale - s \in 0..MaxScale
        /\ (s - Digits) + (MaxScale - s) <= MaxScale
    BY <1>0, <1>3
  <2>1. /\ Radix ^ (s - Digits) \in Nat /\ Radix ^ (s - Digits) > 0
        /\ Radix ^ (MaxScale - s) \in Nat
        /\ Radix ^ ((s - Digits) + (MaxScale - s)) = Radix ^ (s - Digits) * Radix ^ (MaxScale - s)
    BY <2>0, PowersAssumption
  <2>2. (s - Digits) + (MaxScale - s) = MaxScale - Digits
    BY <1>0
  <2>3. /\ Scaled(amount) = m \div Radix ^ (s - Digits)
        /\ m % Radix ^ (s - Digits) = 0
    BY <1>0, <1>1, <1>3 DEF Scaled, HasFraction
  <2>4. Scaled(amount) \in Nat /\ m = Radix ^ (s - Digits) * Scaled(amount)
    <3> DEFINE b == Radix ^ (s - Digits)
    <3> HIDE DEF m, s, b
    <3>1. m \in Nat /\ b \in Nat /\ b > 0
      BY <1>0, <2>1 DEF b
    <3>2. m \div b \in Nat /\ m = b * (m \div b) + (m % b)
      BY <3>1, Division, Zenon
    <3>3. m \div b = Scaled(amount) /\ m % b = 0
      BY <2>3 DEF b
    <3> QED BY <3>1, <3>2, <3>3 DEF b
  <2>5. Units(amount) = m * Radix ^ (MaxScale - s)
    BY DEF Units
  <2>6. UnitsPerMicro = Radix ^ (s - Digits) * Radix ^ (MaxScale - s)
    BY <2>1, <2>2 DEF UnitsPerMicro
  <2> HIDE DEF m, s
  <2> QED
    BY <1>0, <1>1, <2>1, <2>4, <2>5, <2>6
<1> QED
  BY <1>0, <1>2, <1>3

\* Price::calculate: a cost that fits differs by half a micro-USD at most from what the tokens cost.
LEMMA CostRounded ==
    ASSUME NEW price \in Prices, NEW usage,
           usage.prompt \in Nat, usage.completion \in Nat,
           Calculate(price, usage) # NoCost
    PROVE  /\ Total(price, usage) \in Nat
           /\ Calculate(price, usage) \in 0..MaxU64
           /\ 2 * Total(price, usage) < (2 * Calculate(price, usage) + 1) * Million
<1> DEFINE total == Total(price, usage)
           sum   == total + Half
           cost  == sum \div Million
           rest  == sum % Million
<1>1. total \in Nat
  BY AmountsAssumption DEF Total, Prices
<1>2. Calculate(price, usage) = cost /\ ~(cost > MaxU64)
  BY DEF Calculate
<1>3. cost \in Nat /\ rest \in 0..(Million - 1) /\ sum \in Nat /\ sum = Million * cost + rest
  <2>1. sum \in Nat
    BY <1>1, Halves
  <2>2. cost \in Nat
    BY <2>1, Halves, Division
  <2>3. rest \in 0..(Million - 1)
    BY <2>1, Halves, Division
  <2>4. sum = Million * cost + rest
    BY <2>1, Halves, Division
  <2> HIDE DEF cost, sum, rest
  <2> QED BY <2>1, <2>2, <2>3, <2>4
<1>4. total + Half < cost * Million + Million
  <2>1. sum < cost * Million + Million
    <3> HIDE DEF cost, sum, rest
    <3> QED BY <1>3, Halves
  <2> QED BY <2>1
<1>5. 2 * total < (2 * cost + 1) * Million
  <2> HIDE DEF cost, total, rest
  <2> QED BY <1>1, <1>3, <1>4, Halves
<1> QED
  BY <1>1, <1>2, <1>3, <1>5, AmountsAssumption
------------------------------------------------------------------------------
(* Two steps of arithmetic. *)

\* One more call: its error is added to the errors so far.
LEMMA Accumulates ==
    ASSUME NEW e \in Nat, NEW o \in Nat, NEW n \in Nat, NEW t \in Nat, NEW c \in Nat,
           NEW M \in Nat, NEW U \in Nat,
           2 * e <= (2 * o + n) * (M * U),
           2 * t < (2 * c + 1) * M
    PROVE  2 * (e + U * t) <= (2 * (o + c) + (n + 1)) * (M * U)
<1> DEFINE x == 2 * t
           y == (2 * c + 1) * M
<1>1. x \in Nat /\ y \in Nat /\ x <= y
  OBVIOUS
<1>2. U * x <= U * y
  <2> HIDE DEF x, y
  <2> QED BY <1>1
<1>3. U * x = 2 * (U * t)
  OBVIOUS
<1>4. U * y = (2 * c + 1) * (M * U)
  OBVIOUS
<1>5. (2 * (o + c) + (n + 1)) * (M * U) = (2 * o + n) * (M * U) + (2 * c + 1) * (M * U)
  OBVIOUS
<1>6. 2 * (e + U * t) = 2 * e + 2 * (U * t)
  OBVIOUS
<1> QED
  <2> DEFINE a == 2 * (U * t)
             d == (2 * c + 1) * (M * U)
             f == (2 * o + n) * (M * U)
  <2>1. a \in Nat /\ d \in Nat /\ f \in Nat /\ a <= d /\ 2 * e <= f
    BY <1>2, <1>3, <1>4
  <2>2. 2 * e + a <= f + d
    <3> HIDE DEF a, d, f
    <3> QED BY <2>1
  <2> QED BY <2>2, <1>5, <1>6

\* A spend under the cap.
LEMMA UnderTheCap ==
    ASSUME NEW e \in Nat, NEW o \in Nat, NEW n \in Nat, NEW m \in Nat,
           NEW K \in Nat, K > 0,
           2 * e <= (2 * o + n) * K, o < m
    PROVE  2 * e < 2 * (m * K) + n * K
<1>1. (2 * o + n) * K = 2 * (o * K) + n * K
  OBVIOUS
<1>2. o * K + K <= m * K
  <2>1. o + 1 <= m
    OBVIOUS
  <2>2. (o + 1) * K <= m * K
    BY <2>1
  <2> QED BY <2>2
<1> QED
  BY <1>1, <1>2
------------------------------------------------------------------------------
(* What load() accepts. *)

Files0 == Files \ {Missing, Unparsable}

\* A file without errors has passed every check.
LEMMA NoError ==
    ASSUME NEW raw \in Files0, Errors(raw) = {}
    PROVE  \A i \in 1..7 : Checks(raw)[i] = {}
<1> DEFINE found == {i \in DOMAIN Checks(raw) : Checks(raw)[i] # {}}
<1>1. DOMAIN Checks(raw) = 1..7
  BY DEF Checks
<1>2. SUFFICES ASSUME found # {} PROVE FALSE
  BY <1>1
<1>3. \E i \in found : \A j \in found : i <= j
  <2>1. \A i \in found : i = 1 \/ i = 2 \/ i = 3 \/ i = 4 \/ i = 5 \/ i = 6 \/ i = 7
    BY <1>1
  <2> HIDE DEF found
  <2> QED BY <1>2, <2>1
<1>4. (CHOOSE i \in found : \A j \in found : i <= j) \in found
  <2> HIDE DEF found
  <2> QED BY <1>3
<1>5. Checks(raw)[CHOOSE i \in found : \A j \in found : i <= j] # {}
  BY <1>4
<1>6. Errors(raw) = Checks(raw)[CHOOSE i \in found : \A j \in found : i <= j]
  BY <1>2 DEF Errors, Files0
<1> QED
  BY <1>5, <1>6

\* Every amount of such a file is accepted.
LEMMA AcceptedAmounts ==
    ASSUME NEW raw \in Files0, Errors(raw) = {}
    PROVE  /\ TryFrom(raw.max_cost_usd).error = "none"
           /\ \A model \in DOMAIN raw.model_prices :
                /\ TryFrom(raw.model_prices[model].input).error = "none"
                /\ TryFrom(raw.model_prices[model].output).error = "none"
<1>1. Checks(raw)[7] = {} /\ Checks(raw)[6] = {}
  BY NoError
<1>2. AmountErrors(raw.max_cost_usd) = {}
  BY <1>1 DEF Checks
<1>3. UNION {PriceErrors(model, raw.model_prices[model]) : model \in DOMAIN raw.model_prices} = {}
  BY <1>1 DEF Checks
<1>4. ASSUME NEW model \in DOMAIN raw.model_prices
      PROVE  /\ AmountErrors(raw.model_prices[model].input) = {}
             /\ AmountErrors(raw.model_prices[model].output) = {}
  <2>1. PriceErrors(model, raw.model_prices[model]) = {}
    BY <1>3
  <2> QED BY <2>1 DEF PriceErrors
<1> QED
  BY <1>2, <1>4 DEF AmountErrors

\* A price that is looked up is the stated one.
LEMMA LookedUp ==
    ASSUME NEW raw \in Files0, Errors(raw) = {}, NEW model,
           NEW table, table = WithOverrides(Validated(raw).model_prices),
           file = raw, Lookup(table, model) # NoPrice
    PROVE  /\ Lookup(table, model) \in Prices
           /\ StatedPrice(model).input = UnitsPerMicro * Lookup(table, model).input
           /\ StatedPrice(model).output = UnitsPerMicro * Lookup(table, model).output
<1> DEFINE overrides == Validated(raw).model_prices
<1>1. /\ DOMAIN overrides = DOMAIN raw.model_prices
      /\ \A name \in DOMAIN overrides : overrides[name] = ConvertedPrice(raw.model_prices[name])
  BY DEF Validated
<1>2. /\ model \in DOMAIN table /\ Lookup(table, model) = table[model]
      /\ DOMAIN table = DOMAIN overrides \cup DOMAIN BuiltinPrices
      /\ \A name \in DOMAIN table : table[name] = IF name \in DOMAIN overrides THEN overrides[name]
                                                 ELSE BuiltinPrices[name]
  BY DEF Lookup, WithOverrides
<1>3. CASE model \in DOMAIN raw.model_prices
  <2> DEFINE price == raw.model_prices[model]
  <2>1. Lookup(table, model) = [input |-> TryFrom(price.input).micro, output |-> TryFrom(price.output).micro]
    BY <1>1, <1>2, <1>3 DEF ConvertedPrice
  <2>2. IsAmount(price.input) /\ IsAmount(price.output)
    BY <1>3, PricedAssumption DEF Files0
  <2>3. TryFrom(price.input).error = "none" /\ TryFrom(price.output).error = "none"
    BY <1>3, AcceptedAmounts
  <2>4. StatedPrice(model) = [input |-> Units(price.input), output |-> Units(price.output)]
    BY <1>3 DEF StatedPrice
  <2> HIDE DEF price
  <2>5. /\ TryFrom(price.input).micro \in 0..MaxU64
        /\ Units(price.input) = UnitsPerMicro * TryFrom(price.input).micro
    BY <2>2, <2>3, AmountKept
  <2>6. /\ TryFrom(price.output).micro \in 0..MaxU64
        /\ Units(price.output) = UnitsPerMicro * TryFrom(price.output).micro
    BY <2>2, <2>3, AmountKept
  <2> QED BY <2>1, <2>4, <2>5, <2>6 DEF Prices
<1>4. CASE model \notin DOMAIN raw.model_prices
  <2>1. model \in DOMAIN BuiltinPrices /\ Lookup(table, model) = BuiltinPrices[model]
    BY <1>1, <1>2, <1>4
  <2>2. BuiltinPrices[model] \in Prices
    BY <2>1, PricedAssumption
  <2> QED BY <1>4, <2>1, <2>2 DEF StatedPrice
<1> QED
  BY <1>3, <1>4
------------------------------------------------------------------------------
(* The inductive invariant. *)

Unit == Million * UnitsPerMicro

\* What the calls charged so far have cost is at most what was observed, and half a micro-USD for
\* each of them; unless the counter is saturated, and then no cap is above it.
ErrorBounded ==
    observed_cost_usd = MaxU64 \/ 2 * exact <= (2 * observed_cost_usd + charged) * Unit

IInv ==
    /\ phase \in {"loading", "rejected", "panicked", "loaded", "validated", "serving"}
    /\ observed_cost_usd \in 0..MaxU64 /\ exact \in Nat /\ charged \in Nat /\ calls_reserved \in Nat
    /\ file \in Files
    /\ phase \in {"loaded", "serving"} =>
         file \in Files0 /\ Errors(file) = {} /\ config = Validated(file)
    /\ phase = "serving" => prices = WithOverrides(config.model_prices)
    /\ waiting # {} => phase = "serving"
    /\ ErrorBounded

\* The unit of the scaled amounts is a positive number.
LEMMA UnitFacts == Unit \in Nat /\ Unit > 0
  BY Halves, Places DEF Unit

\* The invariant holds at the start.
LEMMA InitInvariant == Init => IInv
<1>1. Init => ErrorBounded
  BY UnitFacts DEF Init, ErrorBounded
<1> QED
  BY <1>1, AmountsAssumption DEF Init, IInv

\* A cost that is charged is off by half a micro-USD at most, whatever the model and the usage.
LEMMA Charge ==
    ASSUME IInv, phase = "serving", NEW model, NEW stated \in StatedUsages,
           CostOf(model, stated) # NoCost
    PROVE  LET cost  == CostOf(model, stated)
               total == Total(Lookup(prices, model), stated)
           IN  /\ cost \in 0..MaxU64 /\ total \in Nat
               /\ Total(StatedPrice(model), stated) = UnitsPerMicro * total
               /\ 2 * total < (2 * cost + 1) * Million
<1> DEFINE price == Lookup(prices, model)
<1>1. /\ Outcome(stated) = "Metered" /\ price # NoPrice
      /\ CostOf(model, stated) = Calculate(price, stated)
  BY DEF CostOf
<1>2. stated \notin {NoUsage, NotUsage}
  BY <1>1 DEF Outcome
<1>3. stated.prompt \in Nat /\ stated.completion \in Nat
  BY <1>2, PricedAssumption, AmountsAssumption
<1>4. /\ price \in Prices
      /\ StatedPrice(model).input = UnitsPerMicro * price.input
      /\ StatedPrice(model).output = UnitsPerMicro * price.output
  BY <1>1, LookedUp DEF IInv
<1>5. /\ Total(price, stated) \in Nat
      /\ Calculate(price, stated) \in 0..MaxU64
      /\ 2 * Total(price, stated) < (2 * Calculate(price, stated) + 1) * Million
  <2> HIDE DEF price
  <2> QED BY <1>1, <1>3, <1>4, CostRounded
<1>6. Total(StatedPrice(model), stated) = UnitsPerMicro * Total(price, stated)
  <2> DEFINE p == stated.prompt
             c == stated.completion
             a == price.input
             b == price.output
             u == UnitsPerMicro
  <2>1. p \in Nat /\ c \in Nat /\ a \in Nat /\ b \in Nat /\ u \in Nat
    BY <1>3, <1>4, AmountsAssumption, Places DEF Prices
  <2>2. Total(StatedPrice(model), stated) = p * (u * a) + c * (u * b)
    BY <1>4 DEF Total
  <2>3. p * (u * a) + c * (u * b) = u * (p * a + c * b)
    <3> HIDE DEF p, c, a, b, u
    <3> QED BY <2>1
  <2> QED BY <2>2, <2>3 DEF Total
<1> QED
  BY <1>1, <1>5, <1>6

\* Each step keeps the invariant.
LEMMA StepInvariant == IInv /\ [Next]_vars => IInv'
<1> SUFFICES ASSUME IInv, [Next]_vars PROVE IInv'
  OBVIOUS
<1> USE DEF IInv
<1>1. CASE Reject
  BY <1>1 DEF Reject, spendVars, ErrorBounded
<1>2. CASE Load
  <2>1. file \in Files0
    BY <1>2 DEF Load, Files0, Errors
  <2> QED
    BY <1>2, <2>1 DEF Load, spendVars, ErrorBounded
<1>3. CASE ValidateOnly
  BY <1>3 DEF ValidateOnly, spendVars, ErrorBounded
<1>4. CASE Serve
  BY <1>4 DEF Serve, spendVars, ErrorBounded
<1>5. ASSUME NEW model \in Models, Admit(model) PROVE IInv'
  BY <1>5 DEF Admit, loadVars, ErrorBounded
<1>6. ASSUME NEW call \in waiting, NEW stated \in StatedUsages, Meter(call, stated) PROVE IInv'
  <2> DEFINE cost  == CostOf(call.model, stated)
             total == Total(Lookup(prices, call.model), stated)
  <2>0. phase = "serving" /\ cost # NoCost
    BY <1>6 DEF Meter
  <2>1. /\ observed_cost_usd' = SaturatingAdd(observed_cost_usd, cost)
        /\ exact' = exact + Total(StatedPrice(call.model), stated)
        /\ charged' = charged + 1
    BY <1>6 DEF Meter
  <2>2. /\ cost \in 0..MaxU64 /\ total \in Nat
        /\ Total(StatedPrice(call.model), stated) = UnitsPerMicro * total
        /\ 2 * total < (2 * cost + 1) * Million
    BY <2>0, Charge
  <2>3. observed_cost_usd' \in 0..MaxU64 /\ exact' \in Nat /\ charged' \in Nat
    <3>1. UnitsPerMicro * total \in Nat
      BY <2>2, Places
    <3> HIDE DEF cost, total
    <3> QED BY <2>1, <2>2, <3>1, AmountsAssumption DEF SaturatingAdd
  <2>4. ErrorBounded'
    <3> SUFFICES ASSUME observed_cost_usd' # MaxU64
                 PROVE  2 * exact' <= (2 * observed_cost_usd' + charged') * Unit
      BY DEF ErrorBounded, Unit, Million, UnitsPerMicro
    <3> HIDE DEF cost, total
    <3>1. observed_cost_usd' = observed_cost_usd + cost /\ observed_cost_usd # MaxU64
      BY <2>1, <2>2, AmountsAssumption DEF SaturatingAdd
    <3>2. 2 * exact <= (2 * observed_cost_usd + charged) * (Million * UnitsPerMicro)
      BY <3>1 DEF ErrorBounded, Unit
    <3>3. 2 * (exact + UnitsPerMicro * total)
            <= (2 * (observed_cost_usd + cost) + (charged + 1)) * (Million * UnitsPerMicro)
      <4>1. /\ exact \in Nat /\ observed_cost_usd \in Nat /\ charged \in Nat
            /\ total \in Nat /\ cost \in Nat /\ Million \in Nat /\ UnitsPerMicro \in Nat
        BY <2>2, Halves, Places, AmountsAssumption
      <4> HIDE DEF IInv
      <4> QED BY <4>1, <3>2, <2>2, Accumulates
    <3> QED BY <2>1, <2>2, <3>1, <3>3 DEF Unit
  <2> QED
    BY <1>6, <2>0, <2>3, <2>4 DEF Meter, loadVars
<1>7. ASSUME NEW call \in waiting, NEW stated \in StatedUsages, Unmetered(call, stated) PROVE IInv'
  BY <1>7 DEF Unmetered, loadVars, ErrorBounded
<1>8. CASE UNCHANGED vars
  BY <1>8 DEF vars, loadVars, spendVars, ErrorBounded
<1> QED
  BY <1>1, <1>2, <1>3, <1>4, <1>5, <1>6, <1>7, <1>8 DEF Next

\* The inductive invariant of the charging of calls, from the loading of the file on.
THEOREM Invariance == Spec => []IInv
<1>1. Init => IInv
  BY InitInvariant
<1>2. IInv /\ [Next]_vars => IInv'
  BY StepInvariant
<1> QED
  BY <1>1, <1>2, PTL DEF Spec

\* A call is admitted only while what has been charged is within rounding of the cap of the file.
LEMMA AdmissionWithinRounding ==
    ASSUME IInv, [Next]_vars, calls_reserved' > calls_reserved, config.max_cost_usd # 0
    PROVE  2 * exact < 2 * Million * Units(file.max_cost_usd) + charged * Million * UnitsPerMicro
<1>1. PICK model \in Models : Admit(model)
  <2>1. calls_reserved' # calls_reserved
    BY DEF IInv
  <2> QED
    BY <2>1 DEF Next, vars, spendVars, loadVars, Reject, Load, ValidateOnly, Serve, Meter, Unmetered
<1>2. phase = "serving" /\ ~(observed_cost_usd >= config.max_cost_usd)
  BY <1>1 DEF Admit, CostCapReached
<1>3. file \in Files0 /\ Errors(file) = {} /\ config.max_cost_usd = TryFrom(file.max_cost_usd).micro
  BY <1>2 DEF IInv, Validated
<1> DEFINE micro == TryFrom(file.max_cost_usd).micro
<1>4. micro \in 0..MaxU64 /\ Units(file.max_cost_usd) = UnitsPerMicro * micro
  <2>1. IsAmount(file.max_cost_usd)
    BY <1>3, PricedAssumption DEF Files0
  <2>2. TryFrom(file.max_cost_usd).error = "none"
    BY <1>3, AcceptedAmounts
  <2> QED BY <2>1, <2>2, AmountKept
<1>5. /\ exact \in Nat /\ observed_cost_usd \in Nat /\ charged \in Nat /\ micro \in Nat
      /\ observed_cost_usd < micro /\ observed_cost_usd # MaxU64
  <2> HIDE DEF micro
  <2>1. config.max_cost_usd = micro
    BY <1>3 DEF micro
  <2> QED BY <1>2, <1>4, <2>1, AmountsAssumption DEF IInv
<1>6. 2 * exact <= (2 * observed_cost_usd + charged) * Unit
  BY <1>5 DEF IInv, ErrorBounded
<1>7. 2 * exact < 2 * (micro * Unit) + charged * Unit
  <2> HIDE DEF micro
  <2> QED BY <1>5, <1>6, UnitFacts, UnderTheCap
<1>8. 2 * (micro * Unit) = 2 * Million * Units(file.max_cost_usd)
  <2> HIDE DEF micro
  <2> QED BY <1>4, <1>5, Halves, Places DEF Unit
<1>9. charged * Unit = charged * Million * UnitsPerMicro
  BY <1>5, Halves, Places DEF Unit
<1> QED
  BY <1>7, <1>8, <1>9

\* BudgetTracker::admit and Price::calculate: the spend cap of the file holds up to half a
\* micro-USD for each call that was charged, however many calls there are, at whatever prices.
THEOREM CapHolds == Spec => CapWithinRounding
<1>1. IInv /\ [Next]_vars =>
        [calls_reserved' > calls_reserved /\ config.max_cost_usd # 0 =>
           2 * exact < 2 * Million * Units(file.max_cost_usd) + charged * Million * UnitsPerMicro]_vars
  BY AdmissionWithinRounding
<1> QED
  BY <1>1, Invariance, PTL DEF Spec, CapWithinRounding
------------------------------------------------------------------------------
(* What load() accepts and what it rejects. *)

\* A factor that both sides have is left out.
LEMMA Cancel ==
    ASSUME NEW a \in Nat, NEW b \in Nat, NEW k \in Nat, k > 0, a * k = b * k
    PROVE  a = b
<1>1. ASSUME a < b PROVE FALSE
  <2>1. PICK d \in Nat : b = a + 1 + d
    <3>1. b - a - 1 \in Nat /\ b = a + 1 + (b - a - 1)
      BY <1>1
    <3> QED BY <3>1
  <2>2. b * k = a * k + k + d * k /\ d * k \in Nat
    BY <2>1
  <2> QED BY <2>2
<1>2. ASSUME b < a PROVE FALSE
  <2>1. PICK d \in Nat : a = b + 1 + d
    <3>1. a - b - 1 \in Nat /\ a = b + 1 + (a - b - 1)
      BY <1>2
    <3> QED BY <3>1
  <2>2. a * k = b * k + k + d * k /\ d * k \in Nat
    BY <2>1
  <2> QED BY <2>2
<1> QED BY <1>1, <1>2

\* The quotient of a multiple.
LEMMA Multiple ==
    ASSUME NEW a \in Nat, NEW k \in Nat, k > 0
    PROVE  (a * k) \div k = a /\ (a * k) % k = 0
OBVIOUS

\* The powers of ten that relate an amount of at most six places to micro-USD, and one of more.
LEMMA FewPlaces ==
    ASSUME NEW s \in 0..MaxScale, s <= Digits
    PROVE  /\ Radix ^ (Digits - s) \in Nat /\ Radix ^ s \in Nat /\ Radix ^ s > 0
           /\ Million = Radix ^ (Digits - s) * Radix ^ s
<1>1. Digits - s \in 0..MaxScale /\ (Digits - s) + s = Digits /\ Digits <= MaxScale
  BY AmountsAssumption
<1> QED BY <1>1, PowersAssumption DEF Million

LEMMA ManyPlaces ==
    ASSUME NEW s \in 0..MaxScale, s > Digits
    PROVE  /\ Radix ^ (s - Digits) \in Nat /\ Radix ^ (s - Digits) > 0
           /\ Radix ^ s = Radix ^ (s - Digits) * Million
<1>1. s - Digits \in 0..MaxScale /\ Digits \in 0..MaxScale /\ (s - Digits) + Digits = s
  BY AmountsAssumption
<1> QED BY <1>1, PowersAssumption DEF Million

\* MicroUsd::try_from accepts every amount that is worth a number of micro-USD that fits,
LEMMA WorthAccepted ==
    ASSUME NEW amount, IsAmount(amount), NEW micro \in 0..MaxU64, IsWorth(amount, micro)
    PROVE  TryFrom(amount).error = "none"
<1> DEFINE m == amount.mantissa
           s == amount.scale
<1>0. /\ m \in Nat /\ s \in 0..MaxScale /\ Digits \in Nat /\ MaxU64 \in Nat /\ micro \in Nat
      /\ MaxMantissa \in Nat /\ micro <= MaxU64 /\ micro <= MaxMantissa
  BY AmountsAssumption DEF IsAmount
<1>1. ~amount.negative /\ micro * Radix ^ s = m * Million
  BY DEF IsWorth
<1>2. CASE s <= Digits
  <2> DEFINE p == Radix ^ (Digits - s)
             q == Radix ^ s
  <2>1. p \in Nat /\ q \in Nat /\ q > 0 /\ Million = p * q
    BY <1>0, <1>2, FewPlaces
  <2>2. micro * q = m * (p * q)
    BY <1>1, <2>1
  <2> HIDE DEF m, p, q
  <2>3. micro * q = (m * p) * q /\ m * p \in Nat
    BY <1>0, <2>1, <2>2
  <2>4. micro = m * p
    <3> DEFINE n == m * p
    <3> HIDE DEF n
    <3>1. micro * q = n * q /\ n \in Nat
      BY <2>3 DEF n
    <3>2. micro = n
      BY <1>0, <2>1, <3>1, Cancel
    <3> QED BY <3>2 DEF n
  <2>5. ~Unscalable(amount) /\ ~HasFraction(amount) /\ Scaled(amount) = micro
    <3>1. ~(s > Digits)
      BY <1>0, <1>2
    <3>2. ~(m * p > MaxMantissa)
      BY <1>0, <2>4
    <3> QED BY <2>4, <3>1, <3>2 DEF Unscalable, HasFraction, Scaled, m, p
  <2> QED BY <1>0, <1>1, <2>5 DEF TryFrom, Converted
<1>3. CASE s > Digits
  <2> DEFINE p == Radix ^ (s - Digits)
  <2>1. p \in Nat /\ p > 0 /\ Radix ^ s = p * Million
    BY <1>0, <1>3, ManyPlaces
  <2>2. Million \in Nat /\ Million > 0
    BY Halves
  <2>3. micro * (p * Million) = m * Million
    BY <1>1, <2>1
  <2> HIDE DEF m, p
  <2>4. m = micro * p
    <3> DEFINE n == micro * p
               k == Million
    <3>1. n \in Nat /\ n * k = m * k
      BY <1>0, <2>1, <2>2, <2>3
    <3>2. k \in Nat /\ k > 0
      BY <2>2
    <3> HIDE DEF n, k
    <3>3. n = m
      BY <1>0, <3>1, <3>2, Cancel
    <3> QED BY <3>3 DEF n
  <2>5. m \div p = micro /\ m % p = 0
    BY <1>0, <2>1, <2>4, Multiple
  <2>6. ~Unscalable(amount) /\ ~HasFraction(amount) /\ Scaled(amount) = micro
    <3>1. ~(s < Digits)
      BY <1>0, <1>3
    <3> QED BY <1>3, <2>5, <3>1 DEF Unscalable, HasFraction, Scaled, m, p
  <2> QED BY <1>0, <1>1, <2>6 DEF TryFrom, Converted
<1> QED BY <1>0, <1>2, <1>3

\* and makes of it just that number.
LEMMA AcceptedWorth ==
    ASSUME NEW amount, IsAmount(amount), TryFrom(amount).error = "none"
    PROVE  TryFrom(amount).micro \in 0..MaxU64 /\ IsWorth(amount, TryFrom(amount).micro)
<1> DEFINE m == amount.mantissa
           s == amount.scale
           micro == TryFrom(amount).micro
<1>0. m \in Nat /\ s \in 0..MaxScale /\ Digits \in Nat
  BY AmountsAssumption DEF IsAmount
<1>1. micro \in 0..MaxU64
  BY AmountKept
<1>2. ~amount.negative /\ ~HasFraction(amount) /\ micro = Scaled(amount)
  <2>1. ~amount.negative /\ ~Unscalable(amount) /\ ~HasFraction(amount) /\ ~(Scaled(amount) > MaxU64)
    BY DEF TryFrom, Failed
  <2> QED BY <2>1 DEF TryFrom, Converted
<1>3. micro * Radix ^ s = m * Million
  <2>1. CASE s <= Digits
    <3> DEFINE p == Radix ^ (Digits - s)
               q == Radix ^ s
    <3>1. p \in Nat /\ q \in Nat /\ Million = p * q
      BY <1>0, <2>1, FewPlaces
    <3>2. micro = m * p
      BY <1>0, <1>2, <2>1 DEF Scaled
    <3> HIDE DEF m, p, q, micro
    <3>3. micro * q = m * Million
      BY <1>0, <3>1, <3>2
    <3> QED BY <3>3 DEF q
  <2>2. CASE s > Digits
    <3> DEFINE p == Radix ^ (s - Digits)
    <3>1. p \in Nat /\ p > 0 /\ Radix ^ s = p * Million
      BY <1>0, <2>2, ManyPlaces
    <3>2. micro = m \div p /\ m % p = 0
      BY <1>0, <1>2, <2>2 DEF Scaled, HasFraction
    <3>3. Million \in Nat
      BY Halves
    <3> HIDE DEF m, p, micro
    <3>4. micro \in Nat /\ m = p * micro
      <4>1. m \div p \in Nat /\ m = p * (m \div p) + (m % p)
        BY <1>0, <3>1, Division, Zenon
      <4> QED BY <3>1, <3>2, <4>1
    <3>5. micro * (p * Million) = m * Million
      BY <1>0, <3>1, <3>3, <3>4
    <3> QED BY <3>1, <3>5
  <2> QED BY <1>0, <2>1, <2>2
<1> QED BY <1>1, <1>2, <1>3 DEF IsWorth

\* So an amount is accepted exactly if it can be represented.
LEMMA Acceptance ==
    ASSUME NEW amount, IsAmount(amount)
    PROVE  AmountErrors(amount) = {} <=> Representable(amount)
<1>1. AmountErrors(amount) = {} <=> TryFrom(amount).error = "none"
  BY DEF AmountErrors
<1> QED BY <1>1, WorthAccepted, AcceptedWorth DEF Representable

\* Scenarios are accepted exactly if all of them are known and no two are the same.
LEMMA ScenariosSound ==
    ASSUME NEW scenarios \in Seq(STRING)
    PROVE  ScenarioErrors(scenarios) = {} <=>
             /\ Cardinality({i \in DOMAIN scenarios : IsSupportedScenario(scenarios[i])})
                  = Len(scenarios)
             /\ Cardinality({scenarios[i] : i \in DOMAIN scenarios}) = Len(scenarios)
<1> DEFINE n     == Len(scenarios)
           D     == DOMAIN scenarios
           known == {i \in D : IsSupportedScenario(scenarios[i])}
           names == {scenarios[i] : i \in D}
           Unknown(i)  == ~IsSupportedScenario(scenarios[i])
           Repeated(i) == \E j \in 1..(i - 1) : scenarios[j] = scenarios[i]
           bad         == {i \in D : Unknown(i) \/ Repeated(i)}
<1>1. n \in Nat /\ D = 1..n /\ IsFiniteSet(D) /\ Cardinality(D) = n
  BY OneTo
<1>2. ScenarioErrors(scenarios) = {} <=> bad = {}
  BY DEF ScenarioErrors
<1>3. Cardinality(known) = n <=> \A i \in D : ~Unknown(i)
  <2>1. known \in SUBSET D
    OBVIOUS
  <2>2. Cardinality(known) = n <=> known = D
    <3> HIDE DEF known, D, n
    <3> QED BY <1>1, <2>1, FS_Subset
  <2> QED BY <2>2
<1>4. Cardinality(names) = n <=> \A i \in D : ~Repeated(i)
  <2> DEFINE f == [i \in D |-> scenarios[i]]
  <2>1. f \in Surjection(D, names)
    BY DEF Surjection
  <2>2. Cardinality(names) = n <=> f \in Injection(D, names)
    <3> HIDE DEF names, D, n, f
    <3> QED BY <1>1, <2>1, FS_Surjection
  <2>3. f \in Injection(D, names) <=> \A i, j \in D : scenarios[i] = scenarios[j] => i = j
    BY DEF Injection, IsInjective
  <2>4. (\A i, j \in D : scenarios[i] = scenarios[j] => i = j) <=> \A i \in D : ~Repeated(i)
    <3>1. ASSUME \A i \in D : ~Repeated(i), NEW i \in D, NEW j \in D, scenarios[i] = scenarios[j],
                 i # j
          PROVE  FALSE
      <4>1. i \in 1..(j - 1) \/ j \in 1..(i - 1)
        BY <1>1, <3>1
      <4> QED BY <3>1, <4>1
    <3>2. ASSUME \A i, j \in D : scenarios[i] = scenarios[j] => i = j, NEW i \in D, Repeated(i)
          PROVE  FALSE
      <4>1. PICK j \in 1..(i - 1) : scenarios[j] = scenarios[i]
        BY <3>2
      <4>2. j \in D /\ j # i
        BY <1>1
      <4> QED BY <3>2, <4>1, <4>2
    <3> QED BY <3>1, <3>2
  <2> QED BY <2>2, <2>3, <2>4
<1> QED BY <1>2, <1>3, <1>4

\* validate() finds something in a file exactly if one of its checks does.
LEMMA NoErrorFound ==
    ASSUME NEW raw \in Files0
    PROVE  Errors(raw) = {} <=> \A i \in 1..7 : Checks(raw)[i] = {}
<1>1. DOMAIN Checks(raw) = 1..7
  BY DEF Checks
<1>2. ASSUME \A i \in 1..7 : Checks(raw)[i] = {} PROVE Errors(raw) = {}
  <2>1. {i \in DOMAIN Checks(raw) : Checks(raw)[i] # {}} = {}
    BY <1>1, <1>2
  <2> QED BY <2>1 DEF Errors, Files0
<1> QED BY <1>2, NoError

\* RawConfig::validate: a file is accepted exactly if it is sound.
LEMMA AcceptedSound ==
    ASSUME NEW raw \in Files0
    PROVE  Errors(raw) = {} <=> Sound(raw)
<1>1. /\ raw.max_llm_calls \in 0..MaxU64 /\ raw.scenarios \in Seq(STRING) /\ IsAmount(raw.max_cost_usd)
      /\ \A model \in DOMAIN raw.model_prices :
           IsAmount(raw.model_prices[model].input) /\ IsAmount(raw.model_prices[model].output)
  BY PricedAssumption DEF Files0
<1>2. /\ Checks(raw)[1] = {} <=> raw.proxy_listen # Blank
      /\ Checks(raw)[2] = {} <=> raw.upstream_base_url # Blank
      /\ Checks(raw)[3] = {} <=> raw.probability # NotFinite /\ raw.probability \in 0..Resolution
      /\ Checks(raw)[4] = {} <=> raw.max_llm_calls # 0
      /\ Checks(raw)[5] = ScenarioErrors(raw.scenarios)
      /\ Checks(raw)[6] =
           UNION {PriceErrors(model, raw.model_prices[model]) : model \in DOMAIN raw.model_prices}
      /\ Checks(raw)[7] = AmountErrors(raw.max_cost_usd)
  BY DEF Checks
<1>3. Checks(raw)[6] = {} <=>
        \A model \in DOMAIN raw.model_prices : PriceErrors(model, raw.model_prices[model]) = {}
  <2> DEFINE found == {PriceErrors(model, raw.model_prices[model]) : model \in DOMAIN raw.model_prices}
  <2>1. UNION found = {} <=> \A errors \in found : errors = {}
    <3> HIDE DEF found
    <3> QED BY Zenon
  <2>2. (\A errors \in found : errors = {}) <=>
          \A model \in DOMAIN raw.model_prices : PriceErrors(model, raw.model_prices[model]) = {}
    BY Zenon
  <2>3. Checks(raw)[6] = UNION found
    BY <1>2
  <2> HIDE DEF found
  <2> QED BY <2>1, <2>2, <2>3
<1>4. ASSUME NEW model \in DOMAIN raw.model_prices
      PROVE  PriceErrors(model, raw.model_prices[model]) = {} <=>
               /\ IsModelId(model)
               /\ Representable(raw.model_prices[model].input)
               /\ Representable(raw.model_prices[model].output)
  BY <1>1, Acceptance DEF PriceErrors
<1>5. Checks(raw)[7] = {} <=> Representable(raw.max_cost_usd)
  BY <1>1, <1>2, Acceptance
<1>6. Checks(raw)[5] = {} <=>
        /\ Cardinality({i \in DOMAIN raw.scenarios : IsSupportedScenario(raw.scenarios[i])})
             = Len(raw.scenarios)
        /\ Cardinality({raw.scenarios[i] : i \in DOMAIN raw.scenarios}) = Len(raw.scenarios)
  BY <1>1, <1>2, ScenariosSound
<1>7. raw.max_llm_calls # 0 <=> raw.max_llm_calls > 0
  BY <1>1, AmountsAssumption
<1>8. Errors(raw) = {} <=> /\ Checks(raw)[1] = {} /\ Checks(raw)[2] = {} /\ Checks(raw)[3] = {}
                           /\ Checks(raw)[4] = {} /\ Checks(raw)[5] = {} /\ Checks(raw)[6] = {}
                           /\ Checks(raw)[7] = {}
  <2>1. \A i \in 1..7 : i = 1 \/ i = 2 \/ i = 3 \/ i = 4 \/ i = 5 \/ i = 6 \/ i = 7
    OBVIOUS
  <2> QED BY <2>1, NoErrorFound
<1> QED BY <1>2, <1>3, <1>4, <1>5, <1>6, <1>7, <1>8 DEF Sound

\* What has become of the file: it was rejected for its errors, or is kept without any.
Judged ==
    /\ file \in Files
    /\ phase \in {"rejected", "panicked"} => Errors(file) # {}
    /\ phase \in {"loaded", "validated", "serving"} =>
         file \in Files0 /\ Errors(file) = {} /\ config = Validated(file)

\* What is served or validated is a sound file, to the last digit of every amount, and what is
\* rejected is not.
THEOREM AmountsConvertedExactly == Spec => []ConvertedExactly
<1>1. Init => Judged
  BY DEF Init, Judged
<1>2. Judged /\ [Next]_vars => Judged'
  <2>1. \A f \in Files : Errors(f) = {} => f \in Files0
    BY DEF Errors, Files0
  <2> QED
    BY <2>1 DEF Judged, Next, vars, loadVars, Reject, Load, ValidateOnly, Serve, Admit, Meter, Unmetered
<1>3. Judged => ConvertedExactly
  <2> SUFFICES ASSUME Judged PROVE ConvertedExactly
    OBVIOUS
  <2>1. ASSUME phase \in {"rejected", "panicked"}
        PROVE  file \in {Missing, Unparsable} \/ ~Sound(file)
    BY <2>1, AcceptedSound DEF Judged, Files0
  <2>2. ASSUME phase \in {"loaded", "validated", "serving"}
        PROVE  /\ file \notin {Missing, Unparsable} /\ Sound(file)
               /\ IsWorth(file.max_cost_usd, config.max_cost_usd)
               /\ \A model \in DOMAIN file.model_prices :
                    /\ IsWorth(file.model_prices[model].input, config.model_prices[model].input)
                    /\ IsWorth(file.model_prices[model].output, config.model_prices[model].output)
    <3>1. file \in Files0 /\ Errors(file) = {} /\ config = Validated(file)
      BY <2>2 DEF Judged
    <3>2. /\ config.max_cost_usd = TryFrom(file.max_cost_usd).micro
          /\ \A model \in DOMAIN file.model_prices :
               /\ config.model_prices[model].input = TryFrom(file.model_prices[model].input).micro
               /\ config.model_prices[model].output = TryFrom(file.model_prices[model].output).micro
      BY <3>1 DEF Validated, ConvertedPrice
    <3>3. /\ IsAmount(file.max_cost_usd) /\ TryFrom(file.max_cost_usd).error = "none"
          /\ \A model \in DOMAIN file.model_prices :
               /\ IsAmount(file.model_prices[model].input)
               /\ IsAmount(file.model_prices[model].output)
               /\ TryFrom(file.model_prices[model].input).error = "none"
               /\ TryFrom(file.model_prices[model].output).error = "none"
      BY <3>1, PricedAssumption, AcceptedAmounts DEF Files0
    <3>4. IsWorth(file.max_cost_usd, config.max_cost_usd)
      BY <3>2, <3>3, AcceptedWorth
    <3>5. ASSUME NEW model \in DOMAIN file.model_prices
          PROVE  /\ IsWorth(file.model_prices[model].input, config.model_prices[model].input)
                 /\ IsWorth(file.model_prices[model].output, config.model_prices[model].output)
      BY <3>2, <3>3, AcceptedWorth
    <3> QED BY <3>1, <3>4, <3>5, AcceptedSound DEF Files0
  <2> QED BY <2>1, <2>2 DEF ConvertedExactly
<1> QED BY <1>1, <1>2, <1>3, PTL DEF Spec
==============================================================================
