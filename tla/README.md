# Maul in TLA+

[Maul](../src/README.md) is a reverse proxy for tests of LLM agents. It sits between an agent and
an OpenAI-compatible provider, injects faults, enforces a budget of calls and money, and writes a
report when it is stopped. This directory holds TLA+ models of its Rust sources (`src/src/`), the
TLC configurations that check them on small instances, and proofs that the TLA+ proof system
checks for all instances.

- [Inventory](#inventory): the parts of the system and what is hard about each
- [Modules](#modules): which module models which part, and how
- [Runs](#runs): what TLC checks, in which bounds, and what it shows
- [Proofs](#proofs): what is proved, from which assumptions, along which argument
- [Divergences](#divergences): where a document says one thing and the code does another
- [Limits](#limits): what is abstracted, assumed, only model-checked, or not modelled
- [Plan](#plan): what comes next

## Inventory

| Part | Source | State | Operations | Hard about it | What makes it correct |
|---|---|---|---|---|---|
| Budget tracker | `budget/mod.rs` | two `AtomicU64`: calls reserved, spend observed (micro-USD) | `admit`, `commit_cost`, `snapshot` | threads race through compare-exchange loops; the check of the spend and the reservation of the call are two steps; saturation | no permit or cost lost or doubled; refusals justified; a reached cap stays reached; the loops end |
| Amounts and prices | `budget/mod.rs`, `pricing/mod.rs` | the price table | `MicroUsd::try_from`, `Price::calculate`, `with_overrides`, `lookup` | scales, rounding, three widths | amounts are kept to the last digit; rounding opens a cap by a known amount at most |
| Billable pipeline | `proxy/pipeline.rs`, `proxy/request_transform.rs` | one future per request | parse, price, admit, transform, execute, record | many early returns; three awaits at which the client may go and the future be dropped | one record for each answered request, with the right number, decision and cost |
| Proxy and metering | `proxy/mod.rs` | none | `handle`, `reverse_proxy`, `meter_response`, `apply_mutate_after` | commit and record are two steps; a streamed body outlives its handler | costs charged are the costs recorded |
| Streamed usage | `usage/sse.rs` | buffer, usage, `malformed`, `finished`, the completion slot | `push`, `finish`, `poll_next`, `drop` | chunks cut anywhere; errors; polls after an error; drop at any point | the outcome depends on the body only; one completion, at most one charge |
| JSON usage | `usage/json.rs`, `usage/mod.rs` | none | `extract_usage` | inconsistent totals | never a usage that was not stated |
| Fault engine | `fault/mod.rs` | a seeded generator behind a mutex | `from_config`, `decide` | one or two draws for a decision; they follow the order of the mutex, not of the calls | the decisions are the seed's sequence, one each |
| Mutators | `fault/mutate.rs` | none | `malform_tool_call_json` | every shape of body, several calls in it | a recorded fault has made the body unusable, an unrecorded one has left it alone |
| Session attribution | `session.rs` | none | `from_headers`, `from_headers_and_body` | priority of three sources | a record falls into one session or none |
| Report collector | `report.rs` | an unbounded channel; the task's records, counter, snapshot | `record`, `request_shutdown`, receive, drain, write | sends race with shutdown and drain; failure to write | what is sent before the end is in the report, once, in order |
| Session scores | `report.rs` | none | `summarize`, `aggregate_sessions` | "later" recoveries, several passes that must agree | sessions do not influence each other; totals agree |
| Server and shutdown | `main.rs` | the main task | serve, drain, snapshot, flush, exit | the order of drain, snapshot and flush; no deadline | report and budget describe the same requests; a shutdown ends |
| Test runner | `main.rs`, `test_runner.rs` | two child processes, a port it has given back, the artifacts | `run_test`, `wait_for_listener`, `terminate_child`, `publish_generated_report`, thresholds | timeouts, kills, partial and earlier reports, a stranger on the port | a verdict is about the report of this run; the runner returns and cleans up |
| Configuration | `config.rs` | none | `load`, `validate` | checks in an order, the first that fails decides | a file is accepted exactly if all of it is sound |
| Headers, URLs | `proxy/headers.rs`, `proxy/upstream.rs` | none | filters | - | - |

The parts meet in four places. Handlers share the budget and the fault engine by reference, and
run on several threads. Handlers, and the bodies of streamed responses after their handlers have
returned, send records to the collector through the channel and never wait for it. The main task
waits for all of them to end, reads the budget, sends it to the collector as the `Shutdown` event
and waits for the collector. The test runner sees all of that from outside: a port that answers, a
process that ends or does not, a file. `PROJECT.json` lists, under `hazards`, each line at which one of these
meetings can go wrong, and the property that would notice.

## Modules

```
BudgetTypes ---- BudgetLedger <----implements---- BudgetTracker ---- BudgetTrackerProofs
                      |
Aggregation ---- ReportCollector ---- ReportCollectorProofs
     |                |     both INSTANCEd      |  its lemmas INSTANCEd
     |            MaulProxy ---- MaulProxyProofs
     |                |
     |                +----implements----> ProxyLifecycle
     |                                          |  INSTANCEd
     +------------------------------------- TestRunner ---- TestRunnerProofs

MeteredStream <----implements---- SseUsage ---- SseUsageProofs

FaultPlan <----implements---- FaultEngine ---- FaultEngineProofs
                                   |
                               Mutators

Amounts ---- Configuration ---- PricedCalls ---- PricedCallsProofs
```

**BudgetTracker** has one action for each atomic operation of `budget/mod.rs`: the load in `admit`
with the test that follows it, the load in front of each loop, the early return of `reserve_call`,
and a compare-exchange that succeeds or fails. `pc[r]` is the place in the code, `current[r]` the
local variable. A spurious failure of `compare_exchange_weak` returns the expected value, changes
nothing and is a stuttering step. **BudgetLedger** is what the tracker promises: each operation on
a counter takes effect at once. It keeps the one non-atomicity that callers can see: the spend is
checked in one step and the call reserved in another. **BudgetTypes** holds their constants.

**ReportCollector** models `ReportHandle` and `run_collector`: an unbounded FIFO channel, the
receive loop, the drain loop with `try_recv`, the numbering, the write that may fail. `sent` and
`shutdowns` are histories that the properties compare the report with. **Aggregation** holds the
scores of `report.rs` as operators on sequences of records.

**MaulProxy** is the whole running process. `stage[r]` is where the handler of request `r` is,
`record[r]` what it knows of the record it will send. There is one action for each way a stage of
`handle_billable` can end, the non-billable path, the two bodies `reverse_proxy` answers itself,
each branch of `meter_response` and `apply_mutate_after`, the end, breaking off or drop of a
streamed body, and the main task's steps. Every access to shared state (reading the spend, reserving,
committing, sending) is an action of its own; everything between two such accesses is part of
one of them. `Cancel` drops a handler at an await. The budget is the ledger, by the
refinement proved below; the collector is the one of `ReportCollector`, under the same variables. In
a record, `call_number` 0 and the model values `NoFault`, `NoSession`, `NoCost` stand for `None`.

**SseUsage** models the parser and the tap. A byte is only its position: `stream` says where the
newlines are and what each line holds. `parse_line` distinguishes four kinds of line: without usage,
rejected, or with one of the usages. `PollData(n)` delivers the next `n` bytes, so that every way
of cutting a body occurs. **MeteredStream** is what it promises: one report, and a charge that
equals the cost reported.

**ProxyLifecycle** is what a Maul process is to whoever starts and stops it: it binds, serves, drains
after a SIGTERM, writes one report, ends, and may be killed at any time. The socket answers from the
bind on, but the handler of SIGTERM exists only once `shutdown_signal` is polled, so the module tells
`bound` from `serving`. `MaulProxy` implements it from `serving` on; **TestRunner** is composed with
it. `runner` is where `run_test` is; every `?` of it is an action that returns. The agent, what the
agent leaves running (`orphans`), a stranger that takes the loopback port (`foreign`) and the child
Maul move at any time, and a timer may fire as long as what it limits has not happened. `failures` is a
history of the operations of the runner that have failed: `"wait"` is the one whose error `terminate_child`
discards (`WaitIgnored`), after which the runner looks for a report (`Found`) that its child may still be writing. The
thresholds are operators on the records, with the scores of `Aggregation`.

**FaultEngine** has a step for each draw from the generator, since other threads run between the two
draws of a fault, and one for taking the mutex. **FaultPlan** is what a seed promises: each call takes
the next decision of a sequence that the configuration determines. Under the refinement mapping a
fault is decided by its first draw: `PlannedRng` and `PlannedDecision` count the second one as made. The
generator is a parameter. The engine's decisions are then applied to the answer of an upstream, by
**Mutators**: `fault/mutate.rs` on bodies of which only the places for tool calls remain, in choices, messages,
deltas and events.

**Amounts** is the integer arithmetic: a `Decimal` is a mantissa and a scale, and the multiplication, the
test for a fraction and the conversions keep their widths. **Configuration** holds the checks of
`validate` in their order and what they make of a file; **PricedCalls** the life of a configuration in
`main()`, and calls that are admitted under it and charged in any order. Its histories `exact` and `charged` are what
the charged calls have cost without any rounding, and how many they are. In `PricedCalls` admission is one step;
`BudgetTracker` has the detail.

**Foundations** models nothing: it holds the lemmas on numbers, finite sets, folds and sums that the
proof modules share.

The `MC...` modules give the constants their values. Operators introduced by "Plausible bug" are
never used by a specification: they are mistakes that each property is shown to detect, when put in
the place of the correct definition (`mutants` in `PROJECT.json`).

## Runs

| Run | Bounds | Distinct states | Properties |
|---|---|---|---|
| `budget_tracker` | 4 requests, 3 calls, spend cap 2, costs {1, 2}, `u64` up to 3 | 88 k | `CallCapHeld`, `PermitsDistinct`, `NoLostCost`, `RefusalJustified`, `LateRequestsRefused`, `OperationsReturn`, `ImplementsLedger` |
| `report_collector` | 3 sends of 4 kinds of records, 2 shutdown requests | 105 k | `Conserved`, `SequenceDense`, `FirstShutdownWins`, `TotalsAgree`, `NothingLeftBehind`, `SessionsIsolated`, `RecoveryKept`, `ShutdownFlushes` |
| `proxy_paths` | 2 requests of 9 kinds, 1 call, no spend cap, 2 fault scenarios, upstream answers 200, 500 or fails | 418 k | `OneRecordEach`, `ReportMatchesBudget`, `CostsAsCharged`, `FaultsAsDecided`, `ImplementsLifecycle`, `ShutdownCompletes` |
| `proxy_race` | 3 requests (a stream, an unpriced call), 2 calls, spend cap 2 with a cost of 2 | 372 k | `UpstreamWithinCap`, `RealTimeOrder`, `ReportMatchesBudget` |
| `sse_usage` | every body of up to 2 lines of up to 3 bytes and a remnant of up to 7; limit 2, chunks of up to 3 | 416 k | `ChunkingInvisible`, `BufferBounded`, `ReportedAtTheEnd`, `ImplementsMeteredStream` |
| `test_runner` | 2 requests of 4 kinds, 2 probes, 3 values of `--fail-on`, an earlier report at the destination | 57 k | `VerdictFromEvidence`, `EvidencePublished`, `NothingLeftRunning`, `RunReturns` |
| `fault_engine` | 3 calls, 5 configurations, a generator of 8 states, bodies of up to 2 choices or events with up to 2 calls each | 203 k | `FaultsBite`, `ImplementsPlan` |
| `priced_calls` | 213 files, up to 4 calls at 2 models, 9 usages; base 10, one place instead of six, mantissas up to 150, `u64` up to 40 | 18 k | `ConvertedExactly`, `CapWithinRounding` |
| `proxy_lost_call`, `proxy_recovery`, `sse_oversized`, `mutate_none` | as above, smaller | - | one each, violated: see [Divergences](#divergences) |

Four runs check a type invariant too (`TypeOK`); those of `ReportCollector`, `FaultEngine` and `PricedCalls`
are part of the invariants that are proved. The bounds are the smallest in which the interesting cases occur:

- *Budget.* With more requests than calls the last ones meet a used-up counter both by their first
  load and by a failed compare-exchange. A sum of costs passes both the spend cap and `u64::MAX`, which
  are different values, so that a sum that wrapped around would open the cap again.
- *Collector.* Three records suffice for a fault, its recovery and a record of another session or
  of none between them; two shutdown requests for one that the receive loop takes and one that the
  drain loop meets.
- *Paths.* Two requests of each kind of input, one call: every early return, each
  branch of the metering for streamed and unstreamed, priced and unpriced calls, each
  fault. There is no spend cap in this run because with one an unpriced model is refused; `proxy_race`
  has one.
- *Race.* Three requests: two that commit and report while the third is between the check of the
  spend and the reservation. The requests are interchangeable and no property of this run names one, so
  symmetry is sound; it has no liveness property.
- *Streams.* A limit of 2 bytes and lines of up to 3 bytes give lines under, at and over it; two lines
  and a remnant give a later usage that overrules an earlier one and a broken line before or after it.
  A chunk of 3 bytes may hold the end of one line and the whole of the next; a remnant of 7 is longer
  than the bound of `BufferBounded`.

- *Runner.* Two records suffice for a fault with its recovery, a refusal, or costs that reach the limit; two probes
  for one that is refused and followed by another. `--fail-on` is empty, names two thresholds, or a known and an
  unknown one.
- *Faults.* Two calls that draw while a third waits for the mutex; all three scenarios, an
  unknown name, a probability over one and one of zero. The upstream answers every call with the same
  body, of any shape: two choices, of which one has a place for a call and the other has none, or
  two calls of which one has no arguments.
- *Prices.* One decimal place stands for six. The amounts lie below, at and above every limit: the
  places, the width of the result, the width of the product. Files are wrong in one field, or in two,
  so that the order of the checks shows. Four calls accumulate rounding errors in one direction up to
  a cap of one, of two and of `u64::MAX`.

`CHECK_DEADLOCK FALSE` is set because every one of these systems may stop: all calls have returned,
the stream is at its end, the process has exited.

**Fairness.** `BudgetTracker`: a thread inside a loop takes its next step; it waits for nothing.
That excludes a compare-exchange that fails spuriously for ever, which the hardware does
not promise in so many words. `ReportCollector`: the runtime polls a task that is ready. The drain loop
ends only on an empty channel, so `ShutdownFlushes` has the premise that sends cease (`SendingCeases`). In the run
`MaxSent` makes it true; in the program `main()` does, which requests the shutdown after
`serve` has returned: in `MaulProxy` no handler is left by then, and `ShutdownCompletes` has no such premise. `MaulProxy`:
handlers proceed on their own wherever they wait for no client (`HandlerRuns`), the upstream
included, since the HTTP client gives up after 60 seconds (`main.rs:308-311`); so do the
collector and the main task. What a client does is not fair: requests may stay half sent and streams
half read for ever, and `ShutdownCompletes` says so in its premise. `main.rs` sets no
deadline for that, so the premise cannot be dropped. `TestRunner`: the runner is scheduled and its timers
fire (`RunTest`); its children may do nothing for ever, and no wait for them has to fail (`WaitFails`,
`WaitIgnored`). It has weak fairness on its own steps only,
and they suffice, because it waits for nothing without a deadline.

## Proofs

`tlapm` checks the eight modules that hold theorems. The theorems hold for every value of the
constants that the named assumptions admit. Each invariant that a run checks, each action property and
each refinement is a theorem; only the four liveness properties are not.

**Foundations.** The library states induction with a predicate as its parameter, which the provers
cannot instantiate. `LeastNumber` derives that a set of numbers has a least one from a theorem that takes
sets only, that finite sets are well-founded under strict inclusion; a statement about all prefixes of a log,
or all subsets of the requests, is then proved by looking at the least counterexample (`UpTo`). `FoldExists`
says that the recursive function behind a fold of the community modules exists, which they define by
`CHOOSE`; what a loop of the code computes is then a fact about that function from one index to the next.
A sum over a set is the number of its `Coins`, pairs of a member and a unit of its cost, so that adding a
cost is the cardinality of a union (`SumAdd`).

**BudgetTrackerProofs**, from `BudgetAssumption` (finitely many requests; caps and costs within the
width of the counters; a zero call cap, which the configuration excludes, is allowed). `TypeCorrect`,
`CallCap`, `DistinctPermits` and `JustifiedRefusals` follow from the inductive invariant `IInv`. The
properties alone are not inductive. `reserve_call` decides on a copy, and only because a copy never
runs ahead of the counter (`CopiesNotAhead`) does a copy at the cap mean a counter at the cap.
A new permit is distinct from the old ones only because these are numbered within the counter
(`NumbersHandedOut`). `Invariance` proves `IInv` action by action, and
the number of permits by the cardinality of a set with one more element. `LateRefused` proves the
temporal property that once the spend has reached the cap a request that still has to call `admit()` never
obtains a permit: the cap stays reached under saturating addition (`SaturatingAddFacts`), and such a
request is either idle or refused. `CostsSummed` adds up the committed costs: a compare-exchange that
succeeds adds one cost to the sum, and saturating step by step is saturating once. `TrackerImplementsLedger`
is the refinement: loads and retries stutter, a compare-exchange that succeeds is the ledger's operation, an
early return its refusal, by `IInv`.

**ReportCollectorProofs**, from `RecordsAssumption` (records have no number before they are collected).
The invariant `CInv` describes one log that is cut in three: what is `Collected` is the beginning of
`sent`, numbered from one, what is `Queued` in the channel is the rest, in the same order; `FirstShutdown`
says where the first Shutdown event is: not yet sent, in the channel behind as many records as had been
sent before it, or taken. It is needed because neither loop sees `sent`: that the drain ends with nothing left
is a fact about the channel at that moment only. `CInv` has the sets of records and snapshots as parameters, and
its step lemmas no assumption on the sender, so that the whole proxy uses them as they are. From it: `NothingLost`, `NumbersDense`,
`FirstShutdownDecides`, `DrainComplete`. `ScoresIsolated` and `RecoveriesKept` compare a session's score and its recovered faults
before and after a record (`OneMoreScore`): the indices of a session grow by one at most, and whether a
fault has a later success cannot become false, so that the set of recovered faults loses none. `ReportTotalsAgree` is about loops over a
log of any length. `OrderFacts` shows that `aggregate_sessions` lists each attributed session once and no other,
`SessionTotals` that counts per listed session and the unattributed count add up to the count over the log.

**MaulProxyProofs**, from `BudgetAssumption` and `ProxyAssumption` (what an input, a scenario and a
status is, and that no fault is called what stands for none). The invariant `IInv` joins the ledger's (`LInv`: counters are the number of permits
and the saturated sum of the costs), the collector's `CInv` for the records and snapshots that the
proxy really sends, and what holds them together: `RequestInv` (the record that a handler carries agrees with the
ledger at every stage, and a cost is committed only on the way to a report), `SentInv` (the log
holds the record of each answered request, once), `BeforeInv` (what a request saw answered was sent before it), and
`ServerInv` (after the drain no handler is left, so the snapshot that is sent is the budget as it stays).
`MoveStep` is the lemma that carries most of the proof: an action of a handler that refines its
own record and touches neither counter, log nor channel keeps `IInv` if the new record fits. Then
`OnceInTheLog`, `CapAtTheProvider`, `CostsTrue` and `AgentOrder` are consequences. `BlameIsRight` needs an invariant of
its own (`BlameInv`): until something is decided a record blames nothing (`Blameless`), and what a record carries to
its report blames what was decided or refused (`Blames`).
`LifecycleImplemented` proves that the whole proxy implements what the test runner assumes of its child:
steps of handlers before their report stutter, a report is an answer, the write of the collector is
the lifecycle's, and what it writes is everything that was sent (`FileComplete`). `ReportAgreesWithBudget` adds up the costs along the
log (`CostOfLog`): the loop of `summarize` reaches the sum over the requests, because each of them is in the log
at most once and none that has been charged is missing.

**TestRunnerProofs**, from `RunnerAssumption`. The invariant follows the agent (`AgentFollows`), the child Maul
(`ProxyFollows`) and its report file (`FileFollows`) along the places of `run_test`. `VerdictSound` and
`EvidenceKept` are parts of it. A verdict other than an error needs that the process has ended, that its file is
there and whole, and that it was not a stranger that answered the probe, each of which an
earlier step has established; or that waiting for the process has failed, and then `Found` bounds what is read. `OkMeansNoneBreached` shows that the search for the first breached
threshold of `--fail-on` misses none. `ChildrenEnded` follows from where the runner may return and from
what has failed by then.

**SseUsageProofs**, from `SseAssumption` (what a body and a usage are; nothing about the limit or
the chunks but that they are numbers). The invariant is `TypeOK` with `Latched` (until something is
reported the tap is neither finished nor dropped and has charged nothing) and `Drained` (the buffer of
a parser that is still parsing holds no newline and is within the limit or a chunk). From it:
`TypeCorrect`, `BoundedBuffer`, `ReportedByThen`, and the refinement
`TapImplementsMeteredStream`: the first of an end, an error and a drop is the abstract step,
whatever follows stutters. `ChunksDoNotShow` is for all bodies whose lines are within the limit, all
limits and all ways of cutting. Its invariant adds that the buffer begins where a line begins
(`AtLine`), and that the parser knows what the lines that have ended say together (`Read`). The lemmas
about `SaidBy` state that the verdict on a sequence of lines is the verdict on its beginning, overruled by
that on its continuation; pushing a chunk is the case where the continuation is the lines the chunk
completes, finishing the case where it is the remnant.

**FaultEngineProofs**, from `EngineAssumption` (a generator yields what is asked of it). The invariant says
that exactly the call that holds the mutex is between its draws (`MutexHeld`), that it has something to draw
from (`SomethingToDraw`) and has not decided (`NotYetDecided`). The refinement
`EngineImplementsPlan` follows: the first draw of a fault is the abstract decision, which nobody
can come between, so that its second draw stutters; every other call's decision leaves the mapping
of the one that draws alone, because that one holds the mutex. `InjectedFaultsBite` also rests on
`MutatorsAssumption` (what is absent or scalar is neither an object nor an array) and on what a
provider sends (`ResponseBodies`: a completion's choices have messages and no deltas). Its lemmas go up the
structure of a body, from the calls of a message to the events of a stream: a rewriting leaves no
valid call behind, has changed something exactly if there was a place for a change, and is the identity
otherwise.

**PricedCallsProofs**: `CapHolds` is the promise of a spend cap for every file, price, usage, number of calls and
order of charging. It rests on `AmountsAssumption` (a million is even and a cap fits into the
mantissa), `PricedAssumption` (the ranges of what is read) and `PowersAssumption`, the laws of
powers of ten, which the provers do not know. The argument: an amount that is accepted is kept exactly
(`AmountKept`), so prices in use are the stated ones (`LookedUp`); a cost that is rounded half up is off by
half a micro-USD at most (`CostRounded`); those errors add up, one for each charged call
(`Accumulates`); and saturation is harmless, since no cap is above `u64::MAX` (`ErrorBounded` in `IInv`).
`AmountsConvertedExactly` has two directions. An amount that is accepted is worth what it becomes
(`AcceptedWorth`), and an amount that is worth a whole number of micro-USD within the width is accepted (`WorthAccepted`),
however many places it is written with (`FewPlaces`, `ManyPlaces`); `Acceptance` puts them together, and
`AcceptedSound` does so for all checks of a file.

**Only model-checked.** Liveness under fairness is out of the prover's reach: `OperationsReturn`,
`ShutdownFlushes`, `ShutdownCompletes` and `RunReturns` have no theorem. The four properties that expect a
violation have none either.

## Divergences

Four runs expect a violation of what the repository says of itself; the counterexamples are short.

1. `proxy_lost_call`: *classify, admit, fault, execute, and report* (`proxy/mod.rs:57`). A client that
   goes away while its call is under way takes the handler with it: the call is in `calls_reserved`, no
   record has its number. `ReportMatchesBudget` states the exact relation that remains: the missing
   calls are those of dropped handlers, and no cost is missing.
2. `proxy_recovery`: *a later request in the same session* (`report.rs:372-373`). Later means answered
   later. A slow request that arrived before the faulted one recovers it, without any retry.
   `RealTimeOrder` states what does hold: a request made after the answer to a faulted one is later. (An answer
   counts from its record on. An agent that goes on at `[DONE]` may overtake the record of that stream,
   since the tap reports at the end of the body; the answers of injected faults are complete when they are recorded.)
3. `sse_oversized`: *oversized lines* are malformed (`tests/usage.rs:106`). A line over the limit is
   accepted if its newline is in the chunk that passes the limit. `BufferBounded` states what
   does bound the parser's memory.
4. `mutate_none`: *Returns `None` only when the body is neither JSON nor SSE* (`fault/mutate.rs:15`): JSON whose calls
   all lack arguments, or whose choices are no objects, returns `None` as well (`NoPlace` in `Mutators`).
   Nothing is recorded as injected then, which `FaultsBite` checks.

Some more behaviours are as modelled, with no run that expects a violation; the first three differ from a document:

- *Maul attributes requests with this priority* (`README.md:257`): header, JSON user, JSON metadata. JSON that is
  not a chat request is rejected before its body is asked for a session (`proxy/pipeline.rs:149`), and recorded with
  the header's session only.
- *Amount is too large for micro-USD representation* (`budget/mod.rs:120`): an amount too large to be multiplied by
  a million panics in the multiplication (`budget/mod.rs:132`) instead. The process ends in both cases;
  `ConvertedExactly` takes the panic for a rejection, and would notice one at an amount that is representable.
- *Buffer the upstream body, corrupt tool_calls JSON when possible* (`proxy/mod.rs:235`): when the upstream's body is
  over the metering limit, it is the proxy's own error that is corrupted, and recorded as a fault. `FaultsAsDecided`
  states that the record blames the decision for the call all the same.
- A budget refusal counts as an injected fault `budget_exceeded`, which needs a recovery like any
  other. A streamed answer that breaks off keeps the status 200 of its head, so that it counts as a success.
- *Same seed → same decisions* (`README.md:137`) holds for the sequence of decisions (`ImplementsPlan`);
  which of several concurrent calls takes which decision depends on who gets the mutex first.
- `maul test` *flushes the same report artifact* (`README.md:251`): not when its agent ends before
  the child has installed the handler of SIGTERM, nor when the drain takes over five seconds. Then the
  verdict is an error (`VerdictFromEvidence`), never Ok.
- A call that costs less than half a micro-USD is free, as is every further one: the bound of `CapWithinRounding`
  has to grow with the number of calls.
- `maul test` leaves the proxy and its directory behind when the agent cannot be spawned or waited for
  (`main.rs:175`, `178`), and the proxy when waiting for it fails (`main.rs:259`); `NothingLeftRunning` states that
  it does so on no other return.

## Limits

*Abstracted.* The content of bodies, headers and error envelopes; candidate
session identifiers (a valid one, an invalid one, none); latencies and identifiers in the report. `MaulProxy` knows of a
model only whether it is priced, of a usage only its cost, allows any decision of the fault engine, and leaves it
open whether a body is corrupted; `PricedCalls`, `FaultEngine` and `Mutators` have the
detail of those. A body the proxy wrote as JSON itself always is corrupted. `TestRunner` has no clock.
The built-in price table and the random generator are parameters. The number that the library reads from a YAML
scalar is the amount the model begins with.

*Assumed of libraries.* Sending on an unbounded tokio channel never blocks, and fails once the
receiver is gone; its order is FIFO. A future or body is dropped when its connection closes, only
where it waits. `axum::serve` with graceful shutdown returns only after every handler and every
response body has been dropped or finished; a connection accepted before the signal may still bring a
request. A stream that has failed yields nothing more (in
`SseUsage` it may be polled again and then ends). The memory orderings of the atomics suffice for each counter
to behave as one variable; no property relates unsynchronised reads of both.

*Bounded.* `MaxSent` and `MaxShutdowns` bound the senders of the collector in TLC; in `MaulProxy`
each request is one member of `Requests`.

*Not modelled.* Header filters and URLs (pure, and read by nothing else), the format of error
envelopes, the scripts of `ci/`; the temporary directory of a run, which stays behind on some errors;
an interrupt from the keyboard, which reaches the whole process group of a runner; two runners that
share one `--report`. `PROJECT.json` gives the status of each part.

## Plan

What can be modelled faithfully is, and what the runs check is proved, except for liveness. What is left:

1. State what a proof now shows and no run asks: that the tracker, put in the place of the ledger, makes
   the whole proxy keep its properties (by `TrackerImplementsLedger`, a composition of `MaulProxy` with
   `BudgetTracker`).
2. The refinement between `MaulProxy` and the children of `TestRunner` covers the life of the process; that
   of its streamed answers (`MeteredStream`) is stated by the two modules separately.
3. Safety lemmas behind the liveness properties, such as the number of records that a drain has still to take.
