----------------------------- MODULE TestRunner ------------------------------
(***************************************************************************)
(* `maul test` (run_test in src/src/main.rs, src/src/test_runner.rs): one  *)
(* agent command against one Maul process, and a verdict on the report     *)
(* that the process leaves.  Three processes run at once: the runner, its  *)
(* child Maul (ProxyLifecycle) and its child `sh -c <agent>`; a fourth one *)
(* may take the loopback port between its reservation and Maul's bind.     *)
(*                                                                         *)
(* Time is left out: a timer may fire whenever what it limits has not      *)
(* happened yet.  runner says where run_test is:                           *)
(*   start        nothing has been spawned                                 *)
(*   probing      wait_for_listener, after `tries` refused connections     *)
(*   spawning     the port answers; the agent is spawned next              *)
(*   waiting      for the agent, at most timeout_secs                      *)
(*   terminating, grace    terminate_child, before and after the SIGTERM   *)
(*   publishing   publish_generated_report and the verdict                 *)
(*   returned     with `verdict`                                           *)
(***************************************************************************)
EXTENDS Aggregation

CONSTANTS
    RequestRecords,   \* the records of the requests that an agent may make
    MaxRecords,       \* bound: how many it makes
    MaxTries,         \* wait_for_listener: 100 in the code
    MaxCostUsd,       \* cost_limit_usd of the budget snapshot
    FailOns,          \* the values of --fail-on
    EarlierReport,    \* what an earlier run has left at --report
    NoFile, PartialFile

VARIABLES
    runner, verdict, tries, fail_on,
    agent,            \* the `sh` child; "killed" once it has timed out
    orphans,          \* whether descendants of the agent outlive it
    foreign,          \* whether another process has taken the port
    phase, records, file,   \* the child Maul
    destination, summary,   \* --report, and the Markdown file next to it
    failures          \* history: the I/O that has failed: "wait" for the child Maul, or "other"

Proxy == INSTANCE ProxyLifecycle

proxyVars    == <<phase, records, file>>
worldVars    == <<agent, orphans, foreign>>
artifactVars == <<destination, summary, failures>>
vars == <<runner, verdict, tries, fail_on, worldVars, proxyVars, artifactVars>>

ASSUME RunnerAssumption ==
    /\ MaxTries \in Nat \ {0} /\ MaxRecords \in Nat /\ MaxCostUsd \in Nat
    /\ FailOns \subseteq Seq(STRING)
    /\ {NoFile, PartialFile} \cap Seq(RequestRecords) = {}

Thresholds == {"budget", "cost", "resilience"}
Judgements == {"Ok", "AgentFailed", "UnsupportedThreshold"} \cup Thresholds
Errors     == {"Config", "Io", "Json", "MissingReport", "ProxyNotReady", "AgentTimedOut"}

TypeOK ==
    /\ runner \in {"start", "probing", "spawning", "waiting", "terminating", "grace",
                   "publishing", "returned"}
    /\ verdict \in {"none"} \cup Judgements \cup Errors
    /\ runner = "returned" <=> verdict # "none"
    /\ tries \in 0..MaxTries
    /\ fail_on \in FailOns
    /\ agent \in {"none", "running", "succeeded", "failed", "killed"}
    /\ phase \in Proxy!Phases
    /\ {orphans, foreign} \subseteq BOOLEAN
    /\ failures \subseteq {"wait", "other"}

Init ==
    /\ Proxy!Init
    /\ runner = "start"
    /\ verdict = "none"
    /\ tries = 0
    /\ fail_on \in FailOns
    /\ agent = "none"
    /\ orphans = FALSE
    /\ foreign = FALSE
    /\ destination = EarlierReport
    /\ summary = EarlierReport
    /\ failures = {}
------------------------------------------------------------------------------
(* evaluate_thresholds *)

Breached(requests, threshold) ==
    CASE threshold = "budget"     -> Summarize(requests).budget_rejections > 0
      [] threshold = "cost"       -> /\ MaxCostUsd # 0
                                     /\ Summarize(requests).observed_cost_usd >= MaxCostUsd
      [] threshold = "resilience" -> AggregateSessions(requests).unrecovered_sessions > 0

\* The first name that is unknown or breached decides; a name after it is not looked at.
EvaluateThresholds(requests) ==
    LET Decides(name) == name \notin Thresholds \/ Breached(requests, name)
        deciding      == SelectInSeq(fail_on, Decides)
    IN  IF deciding = 0 THEN "Ok"
        ELSE IF fail_on[deciding] \in Thresholds THEN fail_on[deciding]
        ELSE "UnsupportedThreshold"
------------------------------------------------------------------------------
(* run_test *)

Continues(place) == runner' = place /\ UNCHANGED <<verdict, fail_on>>
Returns(result)  == runner' = "returned" /\ verdict' = result /\ UNCHANGED fail_on

Fails(operation) == failures' = failures \cup {operation}

\* A `?` on an I/O result.
FailsWithIo ==
    /\ Returns("Io")
    /\ Fails("other")
    /\ UNCHANGED <<tries, worldVars, proxyVars, destination, summary>>

RejectConfig ==
    /\ runner = "start"
    /\ Returns("Config")
    /\ UNCHANGED <<tries, worldVars, proxyVars, artifactVars>>

\* The directory, the port, the configuration file or the child cannot be had.
SetupFails == runner = "start" /\ FailsWithIo

SpawnProxy ==
    /\ runner = "start"
    /\ Proxy!Spawn
    /\ Continues("probing")
    /\ UNCHANGED <<tries, worldVars, artifactVars>>

\* The probe asks whether something listens, not what.
PortAnswers == foreign \/ phase \in Proxy!Listening

ProbeAnswered ==
    /\ runner = "probing" /\ PortAnswers
    /\ Continues("spawning")
    /\ UNCHANGED <<tries, worldVars, proxyVars, artifactVars>>

\* Plausible bug: the probe is repeated until it succeeds.
ProbeForEver ==
    /\ runner = "probing" /\ ~PortAnswers
    /\ tries' = tries + 1
    /\ UNCHANGED <<runner, verdict, fail_on, worldVars, proxyVars, artifactVars>>

ProbeRefused ==
    /\ runner = "probing" /\ ~PortAnswers
    /\ tries' = tries + 1
    /\ Continues(IF tries' = MaxTries THEN "terminating" ELSE "probing")
    /\ UNCHANGED <<worldVars, proxyVars, artifactVars>>

SpawnAgent ==
    /\ runner = "spawning"
    /\ agent' = "running"
    /\ Continues("waiting")
    /\ UNCHANGED <<tries, orphans, foreign, proxyVars, artifactVars>>

\* The `?` after spawn() and after wait(): the child Maul is left to itself.
SpawnAgentFails == runner = "spawning" /\ FailsWithIo
WaitFails       == runner = "waiting"  /\ FailsWithIo

AgentWaited ==
    /\ runner = "waiting" /\ agent \in {"succeeded", "failed"}
    /\ Continues("terminating")
    /\ UNCHANGED <<tries, worldVars, proxyVars, artifactVars>>

\* timeout_secs are over: agent.kill() reaches the shell, not what the shell has started.
AgentTimesOut ==
    /\ runner = "waiting" /\ agent = "running"
    /\ agent' = "killed" /\ orphans' \in BOOLEAN
    /\ Continues("terminating")
    /\ UNCHANGED <<tries, foreign, proxyVars, artifactVars>>
------------------------------------------------------------------------------
(* terminate_child, and what follows each of its three calls *)

\* kill(1) is run, and whether it could be is not looked at.
SendSigterm ==
    /\ runner = "terminating"
    /\ \/ Proxy!Sigterm /\ UNCHANGED failures
       \/ Fails("other") /\ UNCHANGED proxyVars
    /\ Continues("grace")
    /\ UNCHANGED <<tries, worldVars, destination, summary>>

\* Plausible bug: an agent that has timed out leaves nothing to publish.
ReturnAtTimeout ==
    IF agent = "none" THEN Returns("ProxyNotReady")
    ELSE IF agent = "killed" THEN Returns("AgentTimedOut")
    ELSE Continues("publishing")

AfterTerminate ==
    IF agent = "none" THEN Returns("ProxyNotReady") ELSE Continues("publishing")

ProxyReaped ==
    /\ runner = "grace" /\ phase \in Proxy!Ended
    /\ AfterTerminate
    /\ UNCHANGED <<tries, worldVars, proxyVars, artifactVars>>

\* wait() itself fails.  Only the timeout is looked at, so that the child passes for ended.
WaitIgnored ==
    /\ runner = "grace"
    /\ Fails("wait")
    /\ AfterTerminate
    /\ UNCHANGED <<tries, worldVars, proxyVars, destination, summary>>

\* Plausible bugs: the grace period ends without a kill; there is no grace period.
GraceOverUnkilled ==
    /\ runner = "grace" /\ phase \in Proxy!Alive
    /\ AfterTerminate
    /\ UNCHANGED <<tries, worldVars, proxyVars, artifactVars>>

WaitForDrain ==
    /\ runner = "grace" /\ phase = "written"
    /\ Proxy!Exit
    /\ AfterTerminate
    /\ UNCHANGED <<tries, worldVars, artifactVars>>

\* Five seconds are over.  A child that has not been reaped can be killed; waiting for it may fail.
GraceOver ==
    /\ runner = "grace"
    /\ Proxy!Kill
    /\ \/ AfterTerminate /\ UNCHANGED failures
       \/ Returns("Io") /\ Fails("other")
    /\ UNCHANGED <<tries, worldVars, destination, summary>>
------------------------------------------------------------------------------
(* publish_generated_report, publish_report and the end of run_test *)

\* After a timeout every outcome of publishing is logged, and the error is the timeout.
Concludes(result) == Returns(IF agent = "killed" THEN "AgentTimedOut" ELSE result)

\* The exit status of the agent comes before the thresholds.
Judge(requests) ==
    Concludes(IF agent = "failed" THEN "AgentFailed" ELSE EvaluateThresholds(requests))

\* What is in place of the report, which a child that passes for ended may still be writing.
Found == IF phase = "writing" THEN {NoFile, PartialFile, records} ELSE {file}

\* Plausible bug: whatever is at the destination is read.
JudgeStaleReport ==
    /\ runner = "publishing" /\ NoFile \in Found
    /\ Judge(<<>>)
    /\ UNCHANGED <<tries, worldVars, proxyVars, artifactVars>>

NothingToPublish ==
    /\ runner = "publishing" /\ NoFile \in Found
    /\ Concludes("MissingReport")
    /\ UNCHANGED <<tries, worldVars, proxyVars, artifactVars>>

\* A report cut short is copied, and then cannot be parsed.
PublishTruncated ==
    /\ runner = "publishing" /\ PartialFile \in Found
    /\ destination' = PartialFile
    /\ Concludes("Json")
    /\ UNCHANGED <<tries, worldVars, proxyVars, summary, failures>>

PublishWhole ==
    /\ runner = "publishing"
    /\ \E report \in Found \ {NoFile, PartialFile} :
         /\ destination' = report
         /\ summary' = report
         /\ Judge(report)
    /\ UNCHANGED <<tries, worldVars, proxyVars, failures>>

\* The copy fails, or the summary cannot be written after it, or, unless the agent has timed out,
\* the published report cannot be read again.
PublishFails ==
    /\ runner = "publishing"
    /\ \E report \in Found \ {NoFile} :
         \/ destination' \in {destination, PartialFile} /\ UNCHANGED summary
         \/ destination' = report /\ summary' \in {summary, PartialFile}
         \/ destination' = report /\ summary' = report /\ report # PartialFile /\ agent # "killed"
    /\ Fails("other")
    /\ Concludes("Io")
    /\ UNCHANGED <<tries, worldVars, proxyVars>>
------------------------------------------------------------------------------
(* The child Maul, the agent, and the rest of the machine. *)

runnerVars == <<runner, verdict, tries, fail_on>>

ProxyStarts ==
    /\ \/ ~foreign /\ Proxy!Bind
       \/ Proxy!FailToStart
       \/ Proxy!InstallHandler
    /\ UNCHANGED <<runnerVars, worldVars, artifactVars>>

\* A request that has reached this Maul, also one of an orphan, is answered.
ProxyAnswers ==
    /\ agent # "none" /\ Len(records) < MaxRecords
    /\ \E record \in RequestRecords : records' = Append(records, record)
    /\ Proxy!Answer
    /\ UNCHANGED <<runnerVars, worldVars, artifactVars>>

\* The drain waits for every connection: for the agent's, and for those of what it has started.
ProxyDrains ==
    /\ agent # "running" /\ ~orphans
    /\ Proxy!Drained
    /\ UNCHANGED <<runnerVars, worldVars, artifactVars>>

ProxyEnds ==
    /\ \/ Proxy!WriteReport /\ IF file' = records THEN UNCHANGED failures ELSE Fails("other")
       \/ Proxy!Exit /\ UNCHANGED failures
    /\ UNCHANGED <<runnerVars, worldVars, destination, summary>>

AgentExits ==
    /\ agent = "running"
    /\ agent' \in {"succeeded", "failed"}
    /\ orphans' \in BOOLEAN
    /\ UNCHANGED <<runnerVars, foreign, proxyVars, artifactVars>>

OrphansExit ==
    /\ orphans
    /\ orphans' = FALSE
    /\ UNCHANGED <<runnerVars, agent, foreign, proxyVars, artifactVars>>

\* reserve_loopback_address has released the port, and Maul does not hold it.
PortTaken ==
    /\ phase \in {"starting", "failed"} /\ ~foreign
    /\ foreign' = TRUE
    /\ UNCHANGED <<runnerVars, agent, orphans, proxyVars, artifactVars>>
------------------------------------------------------------------------------
RunTest ==
    \/ RejectConfig \/ SetupFails \/ SpawnProxy
    \/ ProbeAnswered \/ ProbeRefused
    \/ SpawnAgent \/ SpawnAgentFails \/ AgentWaited \/ AgentTimesOut
    \/ SendSigterm \/ ProxyReaped \/ GraceOver
    \/ NothingToPublish \/ PublishTruncated \/ PublishFails \/ PublishWhole

Next ==
    \/ RunTest \/ WaitFails \/ WaitIgnored
    \/ ProxyStarts \/ ProxyAnswers \/ ProxyDrains \/ ProxyEnds
    \/ AgentExits \/ OrphansExit \/ PortTaken

\* The runner is scheduled and its timers fire.  Nothing is assumed of its children, nor that a wait
\* for one of them fails in the end.
Spec == Init /\ [][Next]_vars /\ WF_vars(RunTest)
------------------------------------------------------------------------------
\* A verdict other than an error is about this run: the artifacts hold the records of exactly the
\* requests that this run's Maul has answered, neither an earlier report nor a truncated one nor
\* the silence of a foreign process on the port.  A failed agent is told from failed thresholds,
\* and Ok means that the agent has succeeded and that no named threshold is breached.
VerdictFromEvidence ==
    verdict \in Judgements =>
        /\ destination = records /\ summary = records
        /\ ~foreign
        /\ agent = IF verdict = "AgentFailed" THEN "failed" ELSE "succeeded"
        /\ verdict = "Ok" =>
             \A i \in DOMAIN fail_on : fail_on[i] \in Thresholds /\ ~Breached(records, fail_on[i])

\* "Still publish whatever evidence the proxy flushed before exit": if the Maul process has come to
\* its own end, its report is published whole, though the agent has failed or timed out, unless an
\* I/O operation has failed.
EvidencePublished ==
    /\ runner = "returned" /\ agent \notin {"none", "running"}
    /\ phase = "exited" /\ failures = {}
    => destination = records /\ summary = records

\* run_test leaves a Maul behind only by returning before it has called terminate_child, or if
\* wait() has failed there, and the agent only if it could not be waited for: on every other path
\* both have ended when it returns, drained or not.
NothingLeftRunning ==
    [][runner # "returned" /\ runner' = "returned" =>
         /\ phase' \in Proxy!Alive => runner \in {"spawning", "waiting"} \/ "wait" \in failures'
         /\ agent' = "running" => runner = "waiting"]_vars

\* run_test returns, though the agent hangs, the proxy does not start, and the drain never ends.
RunReturns == <>(runner = "returned")
==============================================================================
