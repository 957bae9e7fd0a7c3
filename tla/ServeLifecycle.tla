--------------------------- MODULE ServeLifecycle --------------------------
(***************************************************************************)
(* A runtime of the dialogue server inside a process: opening a data       *)
(* directory, the start-up sequence up to the one-shot gate, serving,      *)
(* shutdown, and the administration controller that starts and stops it    *)
(* and keeps finite commands apart from it.                                *)
(***************************************************************************)
EXTENDS Publication, EventHub

VARIABLES runtime       \* the runtime a process owns

NoProof == [head |-> 0, session |-> "none"]
NoRuntime == [phase |-> "none", dir |-> "source", step |-> "none", gate |-> "closed",
    proven |-> NoProof, store |-> FALSE, paused |-> FALSE, workers |-> "none", handlers |-> "none",
    projection |-> "none", speech |-> "none", cancelled |-> FALSE, drained |-> TRUE,
    restart |-> FALSE]

R(p) == runtime[p]
With(p, r) == runtime' = [runtime EXCEPT ![p] = r]
Untouched == UNCHANGED <<artifactVars, space, hub>>
NoHub == Closed(NewHub)

Service(p) == CaptureServiceReadiness(dirs[R(p).dir].service, dirs[R(p).dir].head)

---------------------------------------------------------------------------
(* Opening a data directory *)

\* Start of the controller: never beside a finite command of the process, a
\* runtime it owns, or one that could not be cleaned up.  The host lock creates
\* a data directory that is missing.
Start(p, d) ==
    /\ Spend("starts")
    /\ Idle(p) /\ R(p).phase = "none" /\ ~R(p).restart
    /\ Acquire(p, d)
    /\ dirs' = IF dirs[d].exists THEN dirs ELSE
         [dirs EXCEPT ![d].exists = TRUE]
    /\ With(p, [NoRuntime EXCEPT !.phase = "opening", !.dir = d])
    /\ Touched(d)
    /\ UNCHANGED <<job, reported, space, hub>>

\* Store, MinimumCheck, writer, and the commit that registers the current
\* dialogue pipeline in a directory that has a resident; then a new hub.
openRuntime(p) ==
    /\ R(p).phase = "opening"
    /\ RuntimeOpened(R(p).dir)
    /\ With(p, [R(p) EXCEPT !.phase = "starting", !.step = "StartTTSGated", !.store = TRUE])
    /\ WithHub(p, NewHub)
    /\ UNCHANGED <<artifactVars, lockVars, budget>>

\* Every error of opening closes what was opened, the lock last.
openRuntimeFails(p) ==
    /\ R(p).phase = "opening" /\ Spend("faults")
    /\ With(p, NoRuntime)
    /\ hostlock' = Unlocked(hostlock, p)
    /\ UNCHANGED dirs /\ Untouched

---------------------------------------------------------------------------
(* The start-up sequence *)

Phase(p, name, r, next) ==
    /\ R(p).phase = "starting" /\ R(p).step = name
    /\ With(p, [r EXCEPT !.step = next])
    /\ UNCHANGED <<hostlock, budget>> /\ Untouched

StartTTSGated(p) ==
    /\ Phase(p, "StartTTSGated", [R(p) EXCEPT !.speech = "started"], "PreflightMandatory")
    /\ UNCHANGED dirs

PreflightMandatory(p) ==
    Phase(p, "PreflightMandatory", R(p), "TerminalizeRunning") /\ UNCHANGED dirs

\* Recovery and the integrity scan commit what they find before anything is
\* proved about the head.
Recovers(p, name, next) ==
    /\ Phase(p, name, R(p), next)
    /\ Commits(R(p).dir) \/ UNCHANGED dirs

Scans(p, name, next) ==
    /\ Phase(p, name, R(p), next)
    /\ IntegrityRun(R(p).dir) \/ UNCHANGED dirs

TerminalizeRunning(p) == Recovers(p, "TerminalizeRunning", "ScanIntegrity")
ScanIntegrity(p) == Scans(p, "ScanIntegrity", "TerminalizeMandatory")

\* An envelope that cannot be reconstructed is scanned again.
TerminalizeMandatory(p) ==
    \E next \in {"Rescan", "PreflightEligibility"} : Recovers(p, "TerminalizeMandatory", next)
Rescan(p) == Scans(p, "Rescan", "PreflightEligibility")

PreflightEligibility(p) ==
    /\ ProjectionApplicable(Service(p))
    /\ Phase(p, "PreflightEligibility", [R(p) EXCEPT !.proven.session = Service(p).session],
             "PauseAdmissions")
    /\ UNCHANGED dirs

PauseAdmissions(p) ==
    /\ Phase(p, "PauseAdmissions", [R(p) EXCEPT !.paused = TRUE], "PreflightContentRefs")
    /\ UNCHANGED dirs

PreflightContentRefs(p) ==
    /\ Phase(p, "PreflightContentRefs", R(p), "PreflightProjection")
    /\ dirs' = [dirs EXCEPT ![R(p).dir].refs = dirs[R(p).dir].head]

\* The projections of the service are brought to the head: the proof.
PreflightProjection(p) ==
    /\ Phase(p, "PreflightProjection", [R(p) EXCEPT !.proven.head = dirs[R(p).dir].head],
             "EvaluateFinalReadiness")
    /\ UNCHANGED dirs

EvaluateFinalReadiness(p) ==
    /\ Bound(R(p).proven, Service(p))
    /\ EvaluateServiceReadiness(Service(p), TRUE, TRUE, FALSE) = {}
    /\ Phase(p, "EvaluateFinalReadiness", R(p), "BindHTTP") /\ UNCHANGED dirs

BindHTTP(p) == Phase(p, "BindHTTP", R(p), "StartProjection") /\ UNCHANGED dirs

StartProjection(p) ==
    /\ Phase(p, "StartProjection", [R(p) EXCEPT !.projection = "running"], "WaitProjectionReady")
    /\ UNCHANGED dirs

WaitProjectionReady(p) ==
    Phase(p, "WaitProjectionReady", R(p), "StartWorkersGated") /\ UNCHANGED dirs

StartWorkersUngated(p) ==
    /\ Phase(p, "StartWorkersGated", [R(p) EXCEPT !.workers = "active"], "StartHTTPGated")
    /\ UNCHANGED dirs

\* The workers exist and wait at the gate.
StartWorkersGated(p) ==
    /\ Phase(p, "StartWorkersGated", [R(p) EXCEPT !.workers = "gated"], "StartHTTPGated")
    /\ UNCHANGED dirs

StartHTTPGated(p) ==
    Phase(p, "StartHTTPGated", R(p), "RequireCanonicalHead") /\ UNCHANGED dirs

RequireCanonicalHead(p) ==
    /\ dirs[R(p).dir].head = R(p).proven.head
    /\ Phase(p, "RequireCanonicalHead", R(p), "ResumeAdmissions") /\ UNCHANGED dirs

ResumeAdmissions(p) ==
    /\ Phase(p, "ResumeAdmissions", [R(p) EXCEPT !.paused = FALSE], "OpenGate")
    /\ UNCHANGED dirs

\* resolve(nil, true): the gate opens once, and whoever waits at it goes on.
OpenGate(p) ==
    /\ R(p).gate = "closed"
    /\ Phase(p, "OpenGate", [R(p) EXCEPT !.gate = "open", !.phase = "serving"], "done")
    /\ UNCHANGED dirs

\* An error, a cancelled context or a service that is not ready ends the
\* sequence at any of its operations; the gate fails and is never reopened.
NotReady(p) ==
    \/ R(p).step = "PreflightEligibility" /\ ~ProjectionApplicable(Service(p))
    \/ /\ R(p).step = "EvaluateFinalReadiness"
       /\ EvaluateServiceReadiness(Service(p), TRUE, TRUE, FALSE) # {}

FailGate(p) ==
    /\ R(p).phase = "starting"
    /\ R(p).cancelled \/ NotReady(p) \/ budget["faults"] > 0
    /\ budget' = IF R(p).cancelled \/ NotReady(p) THEN budget
                 ELSE [budget EXCEPT !["faults"] = @ - 1]
    /\ With(p, [R(p) EXCEPT !.gate = "failed", !.phase = "closing",
                            !.speech = IF @ = "started" THEN "stopping" ELSE @])
    /\ UNCHANGED <<dirs, hostlock>> /\ Untouched

StartupStep(p) ==
    \/ StartTTSGated(p) \/ PreflightMandatory(p) \/ TerminalizeRunning(p) \/ ScanIntegrity(p)
    \/ TerminalizeMandatory(p) \/ Rescan(p) \/ PreflightEligibility(p) \/ PauseAdmissions(p)
    \/ PreflightContentRefs(p) \/ PreflightProjection(p) \/ EvaluateFinalReadiness(p)
    \/ BindHTTP(p) \/ StartProjection(p) \/ WaitProjectionReady(p) \/ StartWorkersGated(p)
    \/ StartHTTPGated(p) \/ RequireCanonicalHead(p) \/ ResumeAdmissions(p) \/ OpenGate(p)

---------------------------------------------------------------------------
(* Serving *)

Stays(p) == UNCHANGED <<dirs, hostlock, budget>> /\ Untouched

WorkersPassGate(p) ==
    /\ R(p).workers = "gated" /\ R(p).gate = "open"
    /\ With(p, [R(p) EXCEPT !.workers = "active"])
    /\ Stays(p)

\* A failed gate, or Stop, ends the workers, once their callbacks returned.
WorkersExit(p) ==
    /\ R(p).workers \in {"gated", "active"} /\ Quiet(p)
    /\ R(p).gate = "failed" \/ R(p).phase \in {"draining", "closing", "kept"}
    /\ With(p, [R(p) EXCEPT !.workers = "exited"])
    /\ Stays(p)

\* The coordinator brings the content references to the head behind the writer.
ProjectionCatchesUp(p) ==
    LET d == R(p).dir IN
    /\ R(p).projection = "running" /\ dirs[d].refs # dirs[d].head
    /\ dirs' = [dirs EXCEPT ![d].refs = dirs[d].head]
    /\ UNCHANGED <<runtime, hostlock, budget>> /\ Untouched

RequestArrives(p) ==
    /\ R(p).phase = "serving" /\ R(p).handlers = "none"
    /\ Spend("requests")
    /\ With(p, [R(p) EXCEPT !.handlers = "active"])
    /\ UNCHANGED <<dirs, hostlock>> /\ Untouched

RequestEnds(p) ==
    /\ R(p).handlers = "active"
    /\ With(p, [R(p) EXCEPT !.handlers = "none"])
    /\ Stays(p)

\* Work that is submitted to the Canonical Writer by a worker or a handler.
Admits(p) == R(p).store /\ ~R(p).paused
Submit(p) ==
    /\ Admits(p) /\ (R(p).workers = "active" \/ R(p).handlers = "active")
    /\ Commits(R(p).dir)
    /\ UNCHANGED <<runtime, hostlock, budget>> /\ Untouched

---------------------------------------------------------------------------
(* Shutdown *)

\* Stop of the controller, or a signal: the context of the runtime is cancelled.
Stop(p) ==
    /\ R(p).phase \in {"starting", "serving"} /\ ~R(p).cancelled
    /\ Spend("stops")
    /\ With(p, [R(p) EXCEPT !.cancelled = TRUE])
    /\ UNCHANGED <<dirs, hostlock>> /\ Untouched

\* Voice stops, health says shutdown, requests are cancelled, the application
\* is told to stop; then the server drains its handlers.
BeginShutdown(p) ==
    /\ R(p).phase = "serving"
    /\ R(p).cancelled \/ budget["faults"] > 0
    /\ budget' = IF R(p).cancelled THEN budget ELSE [budget EXCEPT !["faults"] = @ - 1]
    /\ With(p, [R(p) EXCEPT !.phase = "draining",
                            !.speech = IF @ = "started" THEN "stopping" ELSE @])
    /\ UNCHANGED <<dirs, hostlock>> /\ Untouched

Drained(p) ==
    /\ R(p).phase = "draining" /\ H(p).closed /\ R(p).handlers = "none"
    /\ With(p, [R(p) EXCEPT !.phase = "closing"])
    /\ Stays(p)

\* server.Shutdown gives up and leaves its handlers running.
DrainTimesOut(p) ==
    /\ R(p).phase = "draining" /\ H(p).closed /\ R(p).handlers = "active" /\ Spend("faults")
    /\ With(p, [R(p) EXCEPT !.phase = "closing", !.drained = FALSE])
    /\ UNCHANGED <<dirs, hostlock>> /\ Untouched

SpeechExits(p) ==
    /\ R(p).speech = "stopping" /\ Voiced(H(p)) = {}
    /\ With(p, [R(p) EXCEPT !.speech = "exited"])
    /\ Stays(p)

\* A wait for the voice workers that times out makes the cleanup incomplete
\* but holds nothing of the data directory.
SpeechWaitTimesOut(p) ==
    /\ R(p).phase = "closing" /\ R(p).speech = "stopping" /\ Spend("faults")
    /\ With(p, [R(p) EXCEPT !.speech = "abandoned", !.restart = TRUE])
    /\ UNCHANGED <<dirs, hostlock>> /\ Untouched

Waited(p) == R(p).phase = "closing" /\ R(p).speech # "stopping"

\* Shutdown closes the hub before it drains, so that no event stream holds it
\* up; a start-up that failed closes it after the voice workers.
CloseHub(p) ==
    /\ R(p).phase = "draining" \/ Waited(p)
    /\ ~H(p).closed /\ Released(H(p))
    /\ WithHub(p, Closed(H(p)))
    /\ UNCHANGED <<runtime, dirs, artifactVars, lockVars, budget>>

Silent(p) == Waited(p) /\ H(p).closed
Live(p) == R(p).workers \in {"gated", "active"}

Keep(p) == With(p, [R(p) EXCEPT !.phase = "kept", !.restart = TRUE])
         /\ UNCHANGED <<dirs, hostlock>> /\ Untouched

\* Handlers that did not drain may still write: persistence and the host lock
\* stay with the process.
closeRuntimeAfterHTTPDrain(p) ==
    Silent(p) /\ ~R(p).drained /\ UNCHANGED budget /\ Keep(p)

\* runtime.Close: a worker or a projection that does not end in time, or a
\* writer that cannot close, keeps everything.
CloseTimesOut(p) ==
    /\ Silent(p) /\ R(p).drained /\ Spend("faults")
    /\ Keep(p)

CloseProjections(p) ==
    /\ Silent(p) /\ R(p).drained /\ ~Live(p) /\ R(p).projection = "running"
    /\ With(p, [R(p) EXCEPT !.projection = "stopped"])
    /\ Stays(p)

CloseUnchecked(p) ==
    /\ Silent(p)
    /\ With(p, [R(p) EXCEPT !.phase = "none", !.store = FALSE, !.projection = "stopped"])
    /\ hostlock' = Unlocked(hostlock, p)
    /\ UNCHANGED <<dirs, budget>> /\ Untouched

\* Writer, store, boundary, and the host lock last.
CloseRuntime(p) ==
    /\ Silent(p) /\ R(p).drained /\ ~Live(p) /\ R(p).projection # "running"
    /\ With(p, [NoRuntime EXCEPT !.restart = R(p).restart])
    /\ WithHub(p, NoHub)
    /\ dirs' = Flushed(R(p).dir)
    /\ hostlock' = Unlocked(hostlock, p)
    /\ UNCHANGED <<space, artifactVars, budget>>

\* A process that could not clean up is restarted; one may die at any time.
\* The operating system releases its locks.
Exit(p) ==
    /\ \/ R(p).restart /\ R(p).phase \in {"none", "kept"} /\ Idle(p) /\ UNCHANGED budget
       \/ (~Idle(p) \/ R(p).phase # "none") /\ Spend("faults")
    /\ job' = [job EXCEPT ![p] = NoJob]
    /\ With(p, NoRuntime) /\ WithHub(p, NoHub)
    /\ hostlock' = Unlocked(hostlock, p)
    /\ space' = Unlocked(space, p)
    /\ UNCHANGED <<dirs, pubs, reported>>

RuntimeStep(p) ==
    \/ \E d \in Dirs : Start(p, d)
    \/ openRuntime(p) \/ openRuntimeFails(p) \/ StartupStep(p) \/ FailGate(p)
    \/ WorkersPassGate(p) \/ WorkersExit(p) \/ RequestArrives(p) \/ RequestEnds(p)
    \/ ProjectionCatchesUp(p) \/ Stop(p) \/ BeginShutdown(p) \/ Drained(p) \/ DrainTimesOut(p) \/ SpeechExits(p)
    \/ SpeechWaitTimesOut(p) \/ CloseHub(p) \/ closeRuntimeAfterHTTPDrain(p) \/ CloseTimesOut(p)
    \/ CloseProjections(p) \/ CloseRuntime(p)

\* AllowCommand, with the admission token held: an offline command is refused
\* while the process owns a runtime or could not clean one up.  A restore is
\* not offline; one beside a server is the restore of another process here,
\* as it shares nothing with the runtime but the locks of the host.
AllowCommand(p) == R(p).phase = "none" /\ ~R(p).restart

---------------------------------------------------------------------------
(* What the lifecycle promises *)

Writing(p, d) ==
    \/ R(p).dir = d /\ (R(p).store \/ R(p).projection = "running"
                         \/ R(p).workers = "active" \/ R(p).handlers = "active")
    \/ job[p].dir = d /\ job[p].step \in {"open", "apply", "rebuilt"}

\* No two processes have a data directory open for writing, however the first
\* was shut down; and the head a command captured to publish is the head of
\* its source until the command ends.
SourceHeld ==
    /\ \A d \in Dirs : Cardinality({p \in Proc : Writing(p, d)}) <= 1
    /\ \A p \in Proc : job[p].cmd \in {"backup", "export", "plan", "decide"}
            /\ job[p].step # "check" =>
         /\ job[p].input = [dir |-> job[p].dir, commit |-> HeadCommit(job[p].dir)]
         /\ \A other \in Proc \ {p} : ~Writing(other, job[p].dir)

\* The gate opens on the head the readiness proof was made for, with admissions
\* resumed and every worker and handler still waiting.
OpensProven ==
    [][\A p \in Proc : R(p).gate = "closed" /\ runtime'[p].gate = "open" =>
         /\ dirs[R(p).dir].head = R(p).proven.head /\ dirs' = dirs
         /\ ~R(p).paused /\ R(p).projection = "running"
         /\ R(p).workers = "gated" /\ R(p).handlers = "none"]_<<runtime, dirs>>
============================================================================
