--------------------------- MODULE ProxyLifecycle ----------------------------
(***************************************************************************)
(* What a Maul process is to whoever starts and stops it (src/src/main.rs, *)
(* main): it binds its port, serves, and after a SIGTERM finishes what is  *)
(* under way, writes one report and ends.  The test runner is composed     *)
(* with this module; MaulProxy implements it from `serving` on.            *)
(*                                                                         *)
(* The socket listens, and a connection to it succeeds, from the bind on,  *)
(* but the handler of SIGTERM exists only once shutdown_signal is polled:  *)
(* in between, in the phase `bound`, the signal has its default action.    *)
(***************************************************************************)
EXTENDS Naturals, Sequences, SequencesExt

CONSTANTS
    NoFile,        \* there is no report file
    PartialFile    \* the file has been created, and not written to its end

VARIABLES
    phase,         \* see Phases
    records,       \* the records of the requests answered so far
    file           \* reliability_report.json: NoFile, PartialFile or the records in it

vars == <<phase, records, file>>

Listening == {"bound", "serving"}
Ended     == {"exited", "failed", "terminated", "killed"}
Alive     == {"starting", "draining", "writing", "written"} \cup Listening
Phases    == {"absent"} \cup Alive \cup Ended

Init ==
    /\ phase = "absent"
    /\ records = <<>>
    /\ file = NoFile

GoTo(next) == phase' = next /\ UNCHANGED <<records, file>>

Spawn == phase = "absent" /\ GoTo("starting")

Bind == phase = "starting" /\ GoTo("bound")

\* A `?` of main() before the socket is bound, or in binding it.
FailToStart == phase = "starting" /\ GoTo("failed")

\* shutdown_signal is polled for the first time.
InstallHandler == phase = "bound" /\ GoTo("serving")

\* One more request has been answered and recorded.
Answer ==
    /\ phase \in Listening \cup {"draining"}
    /\ IsStrictPrefix(records, records') /\ Len(records') = Len(records) + 1
    /\ UNCHANGED <<phase, file>>

\* SIGTERM arrives; a process that drains, writes or has ended takes no notice.
Sigterm ==
    GoTo(IF phase = "serving" THEN "draining"
         ELSE IF phase \in {"starting", "bound"} THEN "terminated" ELSE phase)

\* The graceful shutdown is over: no handler, and no body, is under way.
Drained == phase = "draining" /\ GoTo("writing")

\* write_report: File::create, then the records; either may fail, which is logged.
WriteReport ==
    /\ phase = "writing"
    /\ file' \in {records, PartialFile, NoFile}
    /\ phase' = "written"
    /\ UNCHANGED records

Exit == phase = "written" /\ GoTo("exited")

\* SIGKILL, which may come between any two writes to the file.
Kill ==
    /\ phase \in Alive
    /\ phase' = "killed"
    /\ file' \in IF phase = "writing" THEN {file, PartialFile, records} ELSE {file}
    /\ UNCHANGED records

Next ==
    \/ Spawn \/ Bind \/ FailToStart \/ InstallHandler \/ Answer
    \/ Sigterm \/ Drained \/ WriteReport \/ Exit \/ Kill

\* The life of a process that already serves.
ServingSpec ==
    /\ phase = "serving" /\ records = <<>> /\ file = NoFile
    /\ [][Next]_vars
==============================================================================
