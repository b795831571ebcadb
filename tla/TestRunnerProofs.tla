-------------------------- MODULE TestRunnerProofs ---------------------------
(***************************************************************************)
(* Proofs about TestRunner, for any requests, any --fail-on and any number *)
(* of probes.                                                              *)
(*                                                                         *)
(* The inductive invariant follows three things through the run: where the *)
(* agent is when the runner is somewhere (AgentFollows), how far the child *)
(* Maul must have got (ProxyFollows), and what its report file can hold    *)
(* (FileFollows).                                                          *)
(***************************************************************************)
EXTENDS TestRunner, Foundations, TLAPS

AgentFollows ==
    /\ runner \in {"start", "probing", "spawning"} => agent = "none"
    /\ runner = "waiting" => agent \in {"running", "succeeded", "failed"}
    /\ runner \in {"terminating", "grace"} => agent # "running"
    /\ runner = "publishing" => agent \notin {"none", "running"}
    /\ runner = "returned" /\ agent = "running" => failures # {}

ProbesLeft == runner \in {"start", "probing"} => tries < MaxTries

ProxyFollows ==
    /\ runner = "start" => phase = "absent"
    /\ runner = "publishing" => phase \in Proxy!Ended \/ "wait" \in failures
    /\ verdict \in Judgements => phase \in {"writing", "written", "exited", "killed"}
    /\ runner = "returned" /\ agent # "none" /\ failures = {} => phase \in Proxy!Ended

FileFollows ==
    /\ records \in Seq(RequestRecords)
    /\ file \in {NoFile, PartialFile, records}
    /\ phase \notin {"written", "exited", "killed"} => file = NoFile
    /\ phase \in {"bound", "serving", "draining", "writing", "written", "exited"} => ~foreign
    /\ file # NoFile => ~foreign
    /\ phase \in {"written", "exited"} /\ failures = {} => file = records

IInv ==
    /\ TypeOK
    /\ ProbesLeft
    /\ AgentFollows
    /\ ProxyFollows
    /\ FileFollows
    /\ VerdictFromEvidence
    /\ EvidencePublished
------------------------------------------------------------------------------
\* A nonempty set of positions has a least one, which is what SelectInSeq selects.
LEMMA SelectedDecides ==
    ASSUME NEW s \in Seq(STRING), NEW I \in SUBSET DOMAIN s, I # {}
    PROVE  Min(I) \in I
<1>1. I \subseteq Nat
  OBVIOUS
<1>2. PICK n \in I : \A m \in I : n <= m
  BY <1>1, LeastNumber
<1> QED BY <1>1, <1>2 DEF Min

\* The thresholds let a run pass only if they name nothing that is unknown or breached.
LEMMA OkMeansNoneBreached ==
    ASSUME NEW sent, fail_on \in Seq(STRING), EvaluateThresholds(sent) = "Ok"
    PROVE  \A i \in DOMAIN fail_on : fail_on[i] \in Thresholds /\ ~Breached(sent, fail_on[i])
<1> DEFINE Decides(name) == name \notin Thresholds \/ Breached(sent, name)
           Deciding == {i \in 1..Len(fail_on) : Decides(fail_on[i])}
<1> SUFFICES Deciding = {}
  OBVIOUS
<1>1. SUFFICES ASSUME Deciding # {}  PROVE FALSE
  OBVIOUS
<1>2. Min(Deciding) \in Deciding
  <2>1. Deciding \in SUBSET DOMAIN fail_on
    OBVIOUS
  <2> HIDE DEF Deciding
  <2> QED BY <1>1, <2>1, SelectedDecides
<1>3. SelectInSeq(fail_on, Decides) = Min(Deciding)
  BY <1>1 DEF SelectInSeq
<1>4. Min(Deciding) # 0
  <2>1. 0 \notin Deciding
    OBVIOUS
  <2> HIDE DEF Deciding
  <2> QED BY <1>2, <2>1
<1> HIDE DEF Deciding
<1>5. EvaluateThresholds(sent) =
        IF fail_on[Min(Deciding)] \in Thresholds THEN fail_on[Min(Deciding)]
        ELSE "UnsupportedThreshold"
  BY <1>3, <1>4 DEF EvaluateThresholds
<1> QED BY <1>5 DEF Thresholds
------------------------------------------------------------------------------
\* Every step of the runner, of its children and of the machine keeps the invariant.
LEMMA StepKeepsIInv == IInv /\ [Next]_vars => IInv'
<1> SUFFICES ASSUME IInv, [Next]_vars
             PROVE  IInv'
  OBVIOUS
<1> USE RunnerAssumption
    DEF IInv, TypeOK, ProbesLeft, AgentFollows, ProxyFollows, FileFollows, VerdictFromEvidence,
        EvidencePublished, Judgements, Thresholds, Errors, Continues, Returns, Proxy!GoTo,
        Proxy!Listening, Proxy!Ended, Proxy!Alive, Proxy!Phases,
        Fails, worldVars, proxyVars, artifactVars, runnerVars
<1>1. CASE RejectConfig
  BY <1>1 DEF RejectConfig
<1>2. CASE SetupFails
  BY <1>2 DEF SetupFails, FailsWithIo
<1>3. CASE SpawnProxy
  BY <1>3 DEF SpawnProxy, Proxy!Spawn
<1>4. CASE ProbeAnswered
  BY <1>4 DEF ProbeAnswered
<1>5. CASE ProbeRefused
  BY <1>5 DEF ProbeRefused
<1>6. CASE SpawnAgent
  BY <1>6 DEF SpawnAgent
<1>7. CASE SpawnAgentFails
  BY <1>7 DEF SpawnAgentFails, FailsWithIo
<1>8. CASE WaitFails
  BY <1>8 DEF WaitFails, FailsWithIo
<1>9. CASE AgentWaited
  BY <1>9 DEF AgentWaited
<1>10. CASE AgentTimesOut
  BY <1>10 DEF AgentTimesOut
<1>11. CASE SendSigterm
  BY <1>11 DEF SendSigterm, Proxy!Sigterm
<1>12. CASE ProxyReaped
  BY <1>12 DEF ProxyReaped, AfterTerminate
<1>13. CASE GraceOver
  BY <1>13 DEF GraceOver, AfterTerminate, Proxy!Kill
<1>14. CASE NothingToPublish
  BY <1>14 DEF NothingToPublish, Found, Concludes
<1>15. CASE PublishTruncated
  BY <1>15 DEF PublishTruncated, Found, Concludes
<1>16. CASE PublishWhole
  <2>1. /\ runner = "publishing" /\ Judge(records)
        /\ destination' = records /\ summary' = records
        /\ UNCHANGED <<tries, worldVars, proxyVars, failures>>
        /\ phase \in {"writing", "written", "exited", "killed"} /\ ~foreign
    BY <1>16 DEF PublishWhole, Found
  <2>2. CASE Concludes("AgentFailed") /\ agent = "failed"
    BY <2>1, <2>2 DEF Concludes
  <2>3. CASE Concludes(EvaluateThresholds(records)) /\ agent # "failed"
    <3>1. EvaluateThresholds(records) \in Thresholds \cup {"Ok", "UnsupportedThreshold"}
      BY DEF EvaluateThresholds
    <3>2. EvaluateThresholds(records) = "Ok" =>
            \A i \in DOMAIN fail_on :
              fail_on[i] \in Thresholds /\ ~Breached(records, fail_on[i])
      BY OkMeansNoneBreached
    <3> QED BY <2>1, <2>3, <3>1, <3>2 DEF Concludes
  <2> QED BY <2>1, <2>2, <2>3 DEF Judge
<1>17. CASE PublishFails
  BY <1>17 DEF PublishFails, Found, Concludes
<1>18. CASE ProxyStarts
  BY <1>18 DEF ProxyStarts, Proxy!Bind, Proxy!FailToStart, Proxy!InstallHandler
<1>19. CASE ProxyAnswers
  BY <1>19 DEF ProxyAnswers, Proxy!Answer
<1>20. CASE ProxyDrains
  BY <1>20 DEF ProxyDrains, Proxy!Drained
<1>21. CASE ProxyEnds
  <2>1. CASE Proxy!Exit /\ UNCHANGED failures
    BY <1>21, <2>1 DEF ProxyEnds, Proxy!Exit
  <2>2. CASE Proxy!WriteReport /\ UNCHANGED failures /\ file' = records
    BY <1>21, <2>2 DEF ProxyEnds, Proxy!WriteReport
  <2>3. CASE Proxy!WriteReport /\ Fails("other")
    <3>1. "other" \in failures' /\ failures' # {} /\ failures \subseteq failures'
      BY <2>3
    <3> QED BY <1>21, <2>3, <3>1 DEF ProxyEnds, Proxy!WriteReport
  <2> QED BY <1>21, <2>1, <2>2, <2>3 DEF ProxyEnds
<1>22. CASE AgentExits
  <2>1. orphans' \in BOOLEAN /\ agent' \in {"succeeded", "failed"} /\ agent = "running"
    BY <1>22 DEF AgentExits
  <2>2. UNCHANGED <<runner, verdict, tries, fail_on, foreign, phase, records, file, destination,
                    summary, failures>>
    BY <1>22 DEF AgentExits
  <2>3. TypeOK'
    BY <2>1, <2>2
  <2>4. AgentFollows' /\ ProbesLeft'
    BY <2>1, <2>2
  <2>5. ProxyFollows' /\ FileFollows'
    BY <2>1, <2>2
  <2>6. VerdictFromEvidence' /\ EvidencePublished'
    BY <2>1, <2>2
  <2> QED BY <2>3, <2>4, <2>5, <2>6
<1>23. CASE OrphansExit
  <2>1. {orphans', foreign'} \subseteq BOOLEAN
    BY <1>23 DEF OrphansExit
  <2> QED BY <1>23, <2>1 DEF OrphansExit
<1>24. CASE PortTaken
  <2>1. {orphans', foreign'} \subseteq BOOLEAN
    BY <1>24 DEF PortTaken
  <2>2. FileFollows'
    <3>1. UNCHANGED <<phase, records, file, failures>> /\ file = NoFile
      BY <1>24 DEF PortTaken
    <3>2. phase \in {"starting", "failed"}
      BY <1>24 DEF PortTaken
    <3> QED BY <3>1, <3>2
  <2>3. VerdictFromEvidence'
    BY <1>24 DEF PortTaken
  <2>4. TypeOK'
    BY <1>24, <2>1 DEF PortTaken
  <2>5. AgentFollows' /\ ProbesLeft' /\ ProxyFollows'
    BY <1>24 DEF PortTaken
  <2>6. EvidencePublished'
    BY <1>24 DEF PortTaken
  <2> QED BY <2>2, <2>3, <2>4, <2>5, <2>6
<1>25. CASE UNCHANGED vars
  BY <1>25 DEF vars
<1>26. CASE WaitIgnored
  BY <1>26 DEF WaitIgnored, AfterTerminate
<1> QED
  BY <1>1, <1>2, <1>3, <1>4, <1>5, <1>6, <1>7, <1>8, <1>9, <1>10, <1>11, <1>12, <1>13,
     <1>14, <1>15, <1>16, <1>17, <1>18, <1>19, <1>20, <1>21, <1>22, <1>23, <1>24, <1>25, <1>26
  DEF Next, RunTest

\* It holds when nothing has been spawned, and therefore always.
LEMMA Invariance == Spec => []IInv
<1>1. Init => IInv
  <2> SUFFICES ASSUME Init  PROVE IInv
    OBVIOUS
  <2> USE RunnerAssumption DEF Init, Proxy!Init
  <2>1. TypeOK
    <3>1. {orphans, foreign} \subseteq BOOLEAN
      OBVIOUS
    <3> QED BY <3>1 DEF TypeOK, Judgements, Thresholds, Errors, Proxy!Phases
  <2>2. ProbesLeft /\ AgentFollows
    BY DEF ProbesLeft, AgentFollows
  <2>3. ProxyFollows /\ VerdictFromEvidence /\ EvidencePublished
    BY DEF ProxyFollows, VerdictFromEvidence, EvidencePublished, Judgements, Thresholds
  <2>4. FileFollows
    BY DEF FileFollows
  <2> QED BY <2>1, <2>2, <2>3, <2>4 DEF IInv
<1> QED
  BY <1>1, StepKeepsIInv, PTL DEF Spec
------------------------------------------------------------------------------
\* Every variable stays in its range: run_test has a verdict exactly when it has returned, and
\* wait_for_listener never probes more often than it may.
THEOREM TypeCorrect == Spec => []TypeOK
<1>1. IInv => TypeOK
  BY DEF IInv
<1> QED BY <1>1, Invariance, PTL

\* A verdict other than an error is about this run: evaluate_thresholds has seen the records of
\* exactly the requests that this run's Maul has answered, whatever else is on the port or at
\* the destination.
THEOREM VerdictSound == Spec => []VerdictFromEvidence
<1>1. IInv => VerdictFromEvidence
  BY DEF IInv
<1> QED BY <1>1, Invariance, PTL

\* The evidence of a Maul that has come to its own end is published whole by
\* publish_generated_report, after a failed agent and after a timeout as well.
THEOREM EvidenceKept == Spec => []EvidencePublished
<1>1. IInv => EvidencePublished
  BY DEF IInv
<1> QED BY <1>1, Invariance, PTL

\* run_test leaves a child behind only on the two paths that return before terminate_child, and when
\* terminate_child cannot wait for it.
THEOREM ChildrenEnded == Spec => NothingLeftRunning
<1> DEFINE Ends == runner # "returned" /\ runner' = "returned" =>
                     /\ phase' \in Proxy!Alive => runner \in {"spawning", "waiting"} \/ "wait" \in failures'
                     /\ agent' = "running" => runner = "waiting"
<1>1. IInv /\ [Next]_vars => Ends
  <2> SUFFICES ASSUME IInv, [Next]_vars, runner # "returned", runner' = "returned"
               PROVE  /\ phase' \in Proxy!Alive => runner \in {"spawning", "waiting"} \/ "wait" \in failures'
                      /\ agent' = "running" => runner = "waiting"
    OBVIOUS
  <2> USE DEF IInv, TypeOK, AgentFollows, ProxyFollows, Proxy!Alive, Proxy!Ended,
              Proxy!Listening, Returns, Continues, Fails
  <2>1. CASE RejectConfig \/ SetupFails
    BY <2>1 DEF RejectConfig, SetupFails, FailsWithIo, proxyVars, worldVars
  <2>2. CASE SpawnAgentFails \/ WaitFails
    BY <2>2 DEF SpawnAgentFails, WaitFails, FailsWithIo, proxyVars, worldVars
  <2>3. CASE ProxyReaped \/ WaitIgnored \/ GraceOver
    BY <2>3 DEF ProxyReaped, WaitIgnored, GraceOver, AfterTerminate, Proxy!Kill, proxyVars, worldVars
  <2>4. CASE NothingToPublish \/ PublishTruncated \/ PublishWhole \/ PublishFails
    <3>1. runner = "publishing" /\ UNCHANGED <<agent, phase>> /\ failures \subseteq failures'
      BY <2>4 DEF NothingToPublish, PublishTruncated, PublishWhole, PublishFails, proxyVars,
                  worldVars, artifactVars
    <3> QED BY <3>1
  <2>5. CASE SpawnProxy \/ ProbeAnswered \/ ProbeRefused \/ SpawnAgent \/ AgentWaited
                \/ AgentTimesOut \/ SendSigterm
    BY <2>5 DEF SpawnProxy, ProbeAnswered, ProbeRefused, SpawnAgent, AgentWaited,
                AgentTimesOut, SendSigterm
  <2>6. CASE UNCHANGED runner
    BY <2>6
  <2>7. runner' = runner \/ RunTest \/ WaitFails \/ WaitIgnored
    BY DEF Next, vars, runnerVars, ProxyStarts, ProxyAnswers, ProxyDrains, ProxyEnds,
           AgentExits, OrphansExit, PortTaken
  <2> QED BY <2>1, <2>2, <2>3, <2>4, <2>5, <2>6, <2>7 DEF RunTest
<1>2. Ends => [Ends]_vars
  OBVIOUS
<1> QED
  BY <1>1, Invariance, PTL DEF Spec, NothingLeftRunning
==============================================================================
