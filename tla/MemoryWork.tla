------------------------------ MODULE MemoryWork ------------------------------
(***************************************************************************)
(* The memory work of one resident: the mandatory extraction of every      *)
(* evidence event, the re-extractions an Admin asks for, and the optional  *)
(* work (alignment, persona, derivation, autonomy) that may start only     *)
(* behind them.  Everything that executes work holds residentLock, so      *)
(* there is one turn at a time; ingress, selection and archive interleave  *)
(* with its steps and reach it only through the epoch, the fence and the   *)
(* reset of the Operational cursors.  Discovery is bounded: a scan resumes *)
(* at a cursor below a ceiling fixed when its cycle began, and the proof   *)
(* that nothing is left is put together from several turns.                *)
(* Leases are modelled in BackgroundLease and the dialogue in              *)
(* DialogueObligations; here an admission and a landing are one step each. *)
(***************************************************************************)
EXTENDS Integers, Sequences, FiniteSets, SequencesExt

CONSTANTS
    Optional,      \* kinds of optional work: alignment, persona, derive, autonomy
    MaxAttempts,
    MaxEvents,     \* bound: evidence events
    MaxMessages,   \* bound: ingress calls
    MaxRequests,   \* bound: re-extraction requests
    MaxCalls,      \* bound: Admin calls (re-extraction, persona, derivation)
    MaxDue,        \* bound: optional obligations that come due
    MaxFaults      \* bound: selections, archives, scans that stop at their
                   \* budget, errors, provider failures, crashes

Kinds == {"alignment", "persona", "derive", "autonomy"}

ASSUME MemoryAssumption ==
    /\ Optional \subseteq Kinds
    /\ MaxAttempts \in Nat \ {0}
    /\ {MaxEvents, MaxMessages, MaxRequests, MaxCalls, MaxDue, MaxFaults}
           \subseteq Nat

VARIABLES
    events,       \* evidence events in seq order: their dialogue, their content
    requests,     \* the source event of each re-extraction, in commit order
    run,          \* the latest outcome of each obligation, charged failures
    active, selected,
    up,           \* the process runs
    epoch, clean, \* foregroundEpoch, dialogueCleanEpoch
    fenced,       \* backgroundBlocked or backgroundSelectionBlocked
    fair,         \* memoryDiscoveryCursors
    normal,       \* normalMemoryDiscoveryCursors, memoryNormalCycleEpochs, ...Dirty
    complete,     \* memoryNormalCompleteEpochs
    rx,           \* memoryReextraction: Cycles, Cursors, CycleEpochs, ...Dirty, RescanPending
    scans,        \* memoryExtractionScansComplete
    turn,         \* the holder of residentLock
    arriving,     \* a message is durable, its preemption has not run
    boundary,     \* a selection or an archive between its fence and its commit
    cleaning,     \* the phase of completeArchivedResident
    uncovered,    \* the events the present sweep says nothing of (history)
    used          \* the bounds consumed

durable == <<events, requests, run>>
resident == <<active, selected, up>>
proof == <<epoch, clean, fenced>>
cursors == <<fair, normal, complete, rx, scans>>
outside == <<arriving, boundary, cleaning>>
vars == <<durable, resident, proof, cursors, turn, outside, uncovered, used>>

Unset == -1
Event == [type : {"user", "self_talk"}, dialogue : {"open", "prepared", "closed"}, erased : BOOLEAN]
Mandatory(i) == <<"event", i>>
Reextraction(i) == <<"request", i>>
OptionalKey(kind) == <<"optional", kind>>
Key == {Mandatory(i) : i \in 1 .. MaxEvents} \cup {Reextraction(i) : i \in 1 .. MaxRequests}
          \cup {OptionalKey(kind) : kind \in Optional}
RunState == {"absent", "none", "running", "retry", "preempted", "ended"}
Code == {"", "source_content_erased", "resident_inactive"}

Seqs == 0 .. MaxEvents
EpochOrUnset == Unset .. MaxMessages + MaxFaults
Cursor == [after : Seqs, through : Unset .. MaxEvents]
RxCursor == [after : 0 .. MaxRequests, through : Unset .. MaxRequests]
NoCursor == [after |-> 0, through |-> Unset]

NoWork == [key |-> <<>>, state |-> "absent", code |-> ""]
Found(key, state, code) == [key |-> key, state |-> state, code |-> code]
NoResult == [work |-> NoWork, next |-> NoCursor, complete |-> FALSE]

Point == {"idle", "scan", "queue", "normalStart", "normalDiscover", "normalUpdate",
          "rxStart", "rxDiscover", "rxUpdate", "verified", "align", "persona", "complete",
          "fairDiscover", "fairUpdate", "process", "admit", "register", "call", "land", "fail",
          "autonomyGate"}
\* epoch: captured by the queue or the fair quantum; cycle: the epoch of the
\* scan or cursor cycle; lease: the epoch of the call; by: who took residentLock.
Idle == [at |-> "idle", by |-> "turn", epoch |-> 0, cycle |-> 0, cursor |-> NoCursor,
         result |-> NoResult, work |-> NoWork, through |-> 0, pass |-> 0,
         fair |-> FALSE, lease |-> 0, failure |-> "", exit |-> "idle"]

-----------------------------------------------------------------------------
(* What the records say.                                                   *)

Available == active /\ selected

Exists(key) == run[key].state # "absent"
Source(key) == IF key[1] = "event" THEN key[2] ELSE requests[key[2]]
IsMemory(key) == key[1] \in {"event", "request"}

\* The code under which an obligation is closed without a provider.
CancellationCode(i) ==
    IF events[i].erased THEN "source_content_erased"
    ELSE IF ~active THEN "resident_inactive" ELSE ""

\* A preempted attempt is taken for an ended one.
NeedsAttentionOnceOnly(key) == run[key].state \in {"none", "running", "retry"}

memoryWorkNeedsAttention(key) == run[key].state \in {"none", "running", "retry", "preempted"}

\* classifyMemoryExtractionWorkForKey: a terminal outcome clears the code.
classify(key) ==
    Found(key, run[key].state,
          IF memoryWorkNeedsAttention(key) THEN CancellationCode(Source(key)) ELSE "")

\* An outcome, charged to the retry budget unless the foreground caused it.
Outcome(key, failure) ==
    LET charged == run[key].fails + 1 IN
    [run EXCEPT ![key] =
        CASE failure = "foreground_preempted" -> [@ EXCEPT !.state = "preempted"]
          [] failure = "terminal" -> [@ EXCEPT !.state = "ended"]
          [] OTHER -> [state |-> IF charged < MaxAttempts THEN "retry" ELSE "ended", fails |-> charged]]

Ended(key) == [run EXCEPT ![key].state = "ended"]
Running(key) == [run EXCEPT ![key].state = "running"]

Use(bound) == used' = [used EXCEPT ![bound] = @ + 1]
Fault == used.faults < MaxFaults /\ Use("faults")

Goto(point) == turn' = [turn EXCEPT !.at = point]
EndTurn == turn' = Idle

-----------------------------------------------------------------------------
(* Bounded discovery, memory_work_reads.go.                                *)

\* Candidates above the cursor and at most at its ceiling that need attention.
\* A user message without its dialogue Commit B is deferred, not reported.
Deferred(i) == events[i].type = "user" /\ events[i].dialogue = "open"
Attention(cursor) ==
    {i \in cursor.after + 1 .. cursor.through :
        ~Deferred(i) /\ memoryWorkNeedsAttention(Mandatory(i))}

Least(S) == CHOOSE i \in S : \A j \in S : i <= j

startMemoryDiscoveryCursor(cursor, through) ==
    IF cursor # NoCursor /\ (through = Unset \/ cursor.through <= through) THEN cursor
    ELSE [after |-> 0, through |-> IF through # Unset THEN through ELSE Len(events)]

\* The first item that needs attention, the end of the cycle, or, when the
\* budget of the pass ends first, the place to resume at.
DiscoverMemoryExtractionWork(start, through) ==
    LET cursor == startMemoryDiscoveryCursor(start, through)
        todo == Attention(cursor)
        stop == IF todo = {} THEN cursor.through ELSE Least(todo) IN
    [whole |-> IF todo = {}
               THEN [NoResult EXCEPT !.complete = TRUE]
               ELSE [work |-> classify(Mandatory(Least(todo))),
                     next |-> [cursor EXCEPT !.after = Least(todo)], complete |-> FALSE],
     partial |-> {[NoResult EXCEPT !.next = [cursor EXCEPT !.after = j]] :
                    j \in cursor.after + 1 .. stop - 1}]

\* Commits are searched for runs of re-extraction requests.  Commits without
\* one are left out: a pass that only crosses those stops where it began.
DiscoverMemoryReextractionWork(start) ==
    LET cursor == IF start = NoCursor THEN [after |-> 0, through |-> Len(requests)] ELSE start
        todo == {i \in cursor.after + 1 .. cursor.through : memoryWorkNeedsAttention(Reextraction(i))}
        stop == IF todo = {} THEN cursor.through ELSE Least(todo) - 1 IN
    [whole |-> IF todo = {}
               THEN [NoResult EXCEPT !.complete = TRUE]
               ELSE [work |-> classify(Reextraction(Least(todo))),
                     next |-> [cursor EXCEPT !.after = Least(todo)], complete |-> FALSE],
     partial |-> {[NoResult EXCEPT !.next = [cursor EXCEPT !.after = j]] : j \in cursor.after .. stop}]

\* One pass: the whole answer, a budget stop, or an error that ends the turn.
Discover(answer, point) ==
    \/ turn' = [turn EXCEPT !.at = point, !.result = answer.whole] /\ UNCHANGED used
    \/ /\ Fault
       /\ \E result \in answer.partial : turn' = [turn EXCEPT !.at = point, !.result = result]
    \/ Fault /\ EndTurn

-----------------------------------------------------------------------------
(* The dialogue scan in front of the memory work, dialogue.go.             *)

TurnStart ==
    /\ up /\ turn = Idle
    /\ turn' = [Idle EXCEPT !.at = "scan", !.cycle = epoch]
    /\ UNCHANGED <<durable, resident, proof, cursors, outside, uncovered, used>>

Unclosed(i) == events[i].type = "user" /\ events[i].dialogue # "closed"
Dialogue(i, state) == events' = [events EXCEPT ![i].dialogue = state]

\* handoffDialogueToFairMemory: one fair quantum for evidence up to event i.
\* Work of a resident that is only unselected stays pending.
handoffDialogueToFairMemory(i) ==
    IF ~events[i].erased /\ active /\ ~selected
    THEN EndTurn
    ELSE turn' = [turn EXCEPT !.at = "fairDiscover", !.epoch = epoch, !.cursor = fair,
                              !.through = i, !.pass = 0, !.fair = TRUE]

\* A source that cannot be answered is cancelled, any other one is processed;
\* processing may fail after Commit B and end the turn.
ScanDialogue ==
    /\ turn.at = "scan"
    /\ \E i \in DOMAIN events :
         /\ Unclosed(i)
         /\ \/ Dialogue(i, "closed") /\ handoffDialogueToFairMemory(i) /\ UNCHANGED used
            \/ Available /\ ~events[i].erased /\ Dialogue(i, "prepared") /\ Fault /\ EndTurn
    /\ UNCHANGED <<requests, run, resident, proof, cursors, outside, uncovered>>

\* recordDialogueCleanAtEpoch, then processMemoryExtractionQueue.
ScanClean ==
    /\ turn.at = "scan"
    /\ \A i \in DOMAIN events : ~Unclosed(i)
    /\ IF epoch = turn.cycle
       THEN clean' = epoch /\ Goto("queue")
       ELSE EndTurn /\ UNCHANGED clean
    /\ UNCHANGED <<durable, resident, epoch, fenced, cursors, outside, uncovered, used>>

-----------------------------------------------------------------------------
(* processFairMandatoryMemory.                                             *)

FairDiscover ==
    /\ turn.at = "fairDiscover"
    /\ Discover(DiscoverMemoryExtractionWork(turn.cursor, turn.through), "fairUpdate")
    /\ UNCHANGED <<durable, resident, proof, cursors, outside, uncovered>>

\* updateFairMemoryDiscoveryAtEpoch.
FairCursor(result) ==
    IF result.complete THEN NoCursor
    ELSE IF result.next # NoCursor THEN result.next ELSE fair

\* A foreground that advanced takes the quantum back, except what needs no
\* provider (a cancellation) or must be closed (a running attempt).
FairUpdate ==
    LET found == turn.result.work
        stays == found.code # "" \/ found.state = "running" IN
    /\ turn.at = "fairUpdate"
    /\ fair' = IF epoch = turn.epoch THEN FairCursor(turn.result) ELSE fair
    /\ turn' = IF found # NoWork /\ (epoch = turn.epoch \/ stays)
               THEN [Idle EXCEPT !.at = "process", !.work = found, !.fair = TRUE, !.lease = turn.epoch]
               ELSE IF found # NoWork \/ epoch # turn.epoch THEN Idle
               ELSE IF turn.result.complete /\ turn.pass = 0
               THEN [turn EXCEPT !.at = "fairDiscover", !.pass = 1, !.cursor = NoCursor]
               ELSE [Idle EXCEPT !.at = "scan", !.cycle = turn.cycle]
    /\ UNCHANGED <<durable, resident, proof, normal, complete, rx, scans, outside, uncovered, used>>

-----------------------------------------------------------------------------
(* processMemoryExtractionQueue: the normal cycle.                         *)

QueueStart ==
    /\ turn.at = "queue"
    /\ scans' = FALSE
    /\ turn' = [Idle EXCEPT !.at = IF rx.active THEN "rxStart" ELSE "normalStart", !.epoch = epoch]
    /\ UNCHANGED <<durable, resident, proof, fair, normal, complete, rx, outside, uncovered, used>>

\* startOrResumeNormalMemoryCycleAtEpoch: a cycle keeps the epoch it began at.
NormalStart ==
    LET cycle == IF normal.epoch = Unset THEN turn.epoch ELSE normal.epoch IN
    /\ turn.at = "normalStart"
    /\ IF epoch # turn.epoch
       THEN EndTurn /\ UNCHANGED normal
       ELSE /\ normal' = [normal EXCEPT !.epoch = cycle]
            /\ turn' = [turn EXCEPT !.at = "normalDiscover", !.cycle = cycle, !.cursor = normal.cursor]
    /\ UNCHANGED <<durable, resident, proof, fair, complete, rx, scans, outside, uncovered, used>>

\* The messages a pass crosses although their dialogue has no Commit B yet.
Crossed(cursor, result) ==
    {i \in cursor.after + 1 .. IF result.complete THEN cursor.through ELSE result.next.after :
        Deferred(i)}

NormalDiscover ==
    LET cursor == startMemoryDiscoveryCursor(turn.cursor, Unset)
        before == IF cursor.after = 0 THEN {} ELSE uncovered IN
    /\ turn.at = "normalDiscover"
    /\ Discover(DiscoverMemoryExtractionWork(turn.cursor, Unset), "normalUpdate")
    /\ uncovered' = IF turn' = Idle THEN uncovered ELSE before \cup Crossed(cursor, turn'.result)
    /\ UNCHANGED <<durable, resident, proof, cursors, outside>>

\* What the queue does with a pass: an item is executed unless the foreground
\* advanced, a cancellation is applied even when the cursor was taken away.
Dispatch(updated, onward) ==
    LET found == turn.result.work IN
    turn' = CASE found.code # "" \/ (found # NoWork /\ updated /\ epoch = turn.epoch) ->
                   [Idle EXCEPT !.at = "process", !.work = found]
              [] found = NoWork /\ onward ->
                   [Idle EXCEPT !.at = IF turn.at = "normalUpdate" THEN "rxStart" ELSE "verified",
                                !.epoch = turn.epoch]
              [] OTHER -> Idle

NoRx == [active |-> FALSE, cursor |-> NoCursor, epoch |-> Unset, dirty |-> FALSE, pending |-> FALSE]
NoNormal == [cursor |-> NoCursor, epoch |-> Unset, dirty |-> FALSE]

\* Work of an earlier pass, or of this one.
DirtyOfEarlier(was, result) == was
Dirty(was, result) == was \/ result.work # NoWork

\* updateNormalMemoryDiscoveryAtEpoch.  A cycle that returned work is walked
\* again below the same ceiling; a clean one opens the re-extraction phase,
\* if the foreground stood still since it began.
NormalUpdate ==
    LET result == turn.result
        updated == normal.epoch = turn.cycle
        dirty == Dirty(normal.dirty, result)
        current == epoch = turn.cycle
        kept == IF result.next = NoCursor THEN normal.cursor ELSE result.next
        closed == result.complete /\ ~dirty IN
    /\ turn.at = "normalUpdate"
    /\ IF ~updated
       THEN UNCHANGED <<normal, complete, rx>>
       ELSE /\ normal' = IF closed THEN NoNormal
                         ELSE IF result.complete
                         THEN [cursor |-> [kept EXCEPT !.after = 0], epoch |-> normal.epoch, dirty |-> FALSE]
                         ELSE [cursor |-> kept, epoch |-> normal.epoch, dirty |-> dirty]
            /\ complete' = IF closed /\ current THEN turn.cycle ELSE Unset
            /\ rx' = IF closed /\ current THEN [rx EXCEPT !.active = TRUE, !.epoch = turn.cycle]
                     ELSE IF result.complete THEN [rx EXCEPT !.active = FALSE, !.epoch = Unset]
                     ELSE rx
    /\ Dispatch(updated, updated /\ closed /\ current)
    /\ UNCHANGED <<durable, resident, proof, fair, scans, outside, uncovered, used>>

-----------------------------------------------------------------------------
(* The re-extraction cycle and the proof.                                  *)

\* startOrResumeMemoryReextractionCycleAtEpoch: without a ceiling yet, every
\* request admitted so far will be below it.
RxStart ==
    LET cycle == IF rx.epoch = Unset THEN turn.epoch ELSE rx.epoch IN
    /\ turn.at = "rxStart"
    /\ IF epoch # turn.epoch \/ ~rx.active
       THEN EndTurn /\ UNCHANGED rx
       ELSE /\ rx' = [rx EXCEPT !.epoch = cycle, !.pending = @ /\ rx.cursor # NoCursor]
            /\ turn' = [turn EXCEPT !.at = "rxDiscover", !.cycle = cycle, !.cursor = rx.cursor]
    /\ UNCHANGED <<durable, resident, proof, fair, normal, complete, scans, outside, uncovered, used>>

RxDiscover ==
    /\ turn.at = "rxDiscover"
    /\ Discover(DiscoverMemoryReextractionWork(turn.cursor), "rxUpdate")
    /\ UNCHANGED <<durable, resident, proof, cursors, outside, uncovered>>

\* A clean cycle is forgotten; what was asked for above its ceiling is not.
RxStaysActive == [rx EXCEPT !.cursor = NoCursor, !.dirty = FALSE]
RxClosed == [NoRx EXCEPT !.pending = rx.pending]

\* updateMemoryReextractionAtEpoch: a request admitted above the ceiling
\* voids the proof of the cycle that ends below it.
RxUpdate ==
    LET result == turn.result
        updated == rx.epoch = turn.cycle
        dirty == Dirty(rx.dirty, result)
        kept == IF result.next = NoCursor THEN rx.cursor ELSE result.next
        closed == result.complete /\ ~dirty IN
    /\ turn.at = "rxUpdate"
    /\ IF ~updated
       THEN UNCHANGED <<complete, rx>>
       ELSE /\ rx' = IF closed THEN RxClosed
                     ELSE IF result.complete
                     THEN [rx EXCEPT !.cursor = [kept EXCEPT !.after = 0], !.dirty = FALSE, !.active = TRUE]
                     ELSE [rx EXCEPT !.cursor = kept, !.dirty = dirty, !.active = TRUE]
            /\ complete' = IF closed /\ rx.pending THEN Unset ELSE complete
    /\ Dispatch(updated, updated /\ closed /\ ~rx.pending /\ epoch = turn.cycle)
    /\ UNCHANGED <<durable, resident, proof, fair, normal, scans, outside, uncovered, used>>

\* memoryNormalDiscoveryCompleteAtEpoch, then the optional queues if selected.
Verified ==
    /\ turn.at = "verified"
    /\ IF complete # turn.epoch THEN EndTurn ELSE Goto(IF Available THEN "align" ELSE "complete")
    /\ UNCHANGED <<durable, resident, proof, cursors, outside, uncovered, used>>

\* setMemoryExtractionScansCompleteAtEpoch.
SetComplete ==
    /\ turn.at = "complete"
    /\ scans' = (scans \/ epoch = turn.epoch)
    /\ EndTurn
    /\ UNCHANGED <<durable, resident, proof, fair, normal, complete, rx, outside, uncovered, used>>

-----------------------------------------------------------------------------
(* One item of work: admission, provider call, landing.                    *)

Kind(key) == IF IsMemory(key) THEN "extraction" ELSE key[2]

\* Where the holder goes on after an attempt that landed, failed, was refused
\* by the Writer, yielded to the foreground, or whose envelope was rejected.
Exits(landed, failed, refused, preempted, rejected) ==
    [landed |-> landed, failed |-> failed, refused |-> refused,
     preempted |-> preempted, rejected |-> rejected]

\* A turn executes one extraction.
callAndLandMemoryExtraction == Exits("idle", "idle", "idle", "idle", "idle")
\* The alignment queue looks for more, and stops for the foreground.
callAndLandMemoryAlignment == Exits("align", "align", "idle", "complete", "align")
\* The persona queue looks for more until one revision landed.
callAndLandPersonaRevision ==
    LET back == IF turn.by = "align" THEN "complete" ELSE "idle" IN
    Exits(back, "persona", "idle", back, "persona")
\* A derivation retries its own attempt.
callAndLandMemoryDerivation == Exits("idle", "retry", "idle", "idle", "idle")
callAndLandAutonomous == Exits("idle", "idle", "idle", "idle", "idle")

Exit(why) ==
    CASE Kind(turn.work.key) = "extraction" -> callAndLandMemoryExtraction[why]
      [] Kind(turn.work.key) = "alignment" -> callAndLandMemoryAlignment[why]
      [] Kind(turn.work.key) = "persona" -> callAndLandPersonaRevision[why]
      [] Kind(turn.work.key) = "derive" -> callAndLandMemoryDerivation[why]
      [] OTHER -> callAndLandAutonomous[why]

\* Only a failure that left the run waiting for its retry is retried.
Leave(point, outcomes) ==
    turn' = CASE point = "idle" -> Idle
              [] point = "retry" ->
                   IF outcomes[turn.work.key].state = "retry"
                   THEN [turn EXCEPT !.at = "process", !.work.state = "retry"] ELSE Idle
              [] OTHER -> [turn EXCEPT !.at = point]

\* A running attempt is taken up, any other one is admitted.
Enter ==
    turn' = [turn EXCEPT !.at = IF turn.work.state = "running" THEN "register" ELSE "admit",
                         !.lease = IF turn.fair THEN @ ELSE epoch]
Entering(kind) ==
    /\ turn.at = "process" /\ Kind(turn.work.key) = kind /\ Enter
    /\ UNCHANGED <<durable, resident, proof, cursors, outside, uncovered, used>>

\* processQueuedMemoryExtraction and processMemoryExtractionWorkWithAdmission.
\* Work of an unselected resident waits, unless a fair quantum has to close a
\* running attempt.
processMemoryExtractionWork ==
    /\ turn.work.code = ""
    /\ Available \/ (turn.fair /\ turn.work.state = "running" /\ epoch # turn.lease)
    /\ Entering("extraction")

processQueuedMemoryExtraction ==
    /\ turn.at = "process" /\ Kind(turn.work.key) = "extraction" /\ turn.work.code = ""
    /\ ~Available /\ ~(turn.fair /\ turn.work.state = "running" /\ epoch # turn.lease)
    /\ EndTurn
    /\ UNCHANGED <<durable, resident, proof, cursors, outside, uncovered, used>>

\* cancelMemoryExtraction is idempotent; a closed obligation stays closed.
cancelMemoryExtraction ==
    /\ turn.at = "process" /\ turn.work.code # ""
    /\ \/ run' = Ended(turn.work.key) /\ UNCHANGED used
       \/ Fault /\ UNCHANGED run
    /\ EndTurn
    /\ UNCHANGED <<events, requests, resident, proof, cursors, outside, uncovered>>

processMemoryAlignmentWork == Entering("alignment")
processPersonaRevisionWork == Entering("persona")
processMemoryDerivation == Entering("derive")

\* The source of a mandatory extraction or of a request may be gone.
assembleMemoryExtraction(key) == active /\ (Exists(key) => ~events[Source(key)].erased)
\* The optional kinds read claims and revisions of an active resident.
assembleMemoryAlignment == active
assemblePersonaRevision == active
PrepareMemoryDerivation == active

\* Only a run that does not exist yet is assembled.
Assembles(key) ==
    run[key].state \in {"absent", "none"} =>
        CASE Kind(key) = "extraction" -> assembleMemoryExtraction(key)
          [] Kind(key) = "alignment" -> assembleMemoryAlignment
          [] Kind(key) = "persona" -> assemblePersonaRevision
          [] OTHER -> PrepareMemoryDerivation

\* registerBackgroundCallAtEpochWithHook at the frozen epoch.
Registers == ~fenced /\ epoch = turn.lease /\ (turn.fair \/ clean = turn.lease)

\* The Writer's own condition: no run yet, or one that waits for its retry.
Startable(key) == run[key].state \in {"absent", "none", "retry", "preempted"}

\* submitBackgroundMutationAndBeginCall: selection, registration and the
\* Canonical step are one section of the landing lock.
Admit ==
    LET key == turn.work.key IN
    /\ turn.at = "admit" /\ ~arriving
    /\ \/ /\ ~(Available /\ Registers) /\ Leave(Exit("preempted"), run) /\ UNCHANGED <<run, requests, used>>
       \/ /\ Available /\ Registers /\ Startable(key) /\ Assembles(key)
          /\ run' = Running(key)
          /\ requests' = IF key[1] = "request" /\ ~Exists(key)
                         THEN Append(requests, turn.through) ELSE requests
          /\ Goto("call") /\ UNCHANGED used
       \/ /\ Available /\ Registers
          /\ IF Startable(key) /\ Assembles(key) THEN Fault ELSE UNCHANGED used
          /\ EndTurn /\ UNCHANGED <<run, requests>>
    /\ UNCHANGED <<events, resident, proof, cursors, outside, uncovered>>

\* An attempt found running is registered at the current epoch, a fair one at
\* its own; without a registration it is recorded as preempted.
Register ==
    /\ turn.at = "register" /\ ~arriving
    /\ LET lease == IF turn.fair \/ turn.by = "autonomy" THEN turn.lease ELSE epoch IN
       turn' = IF ~fenced /\ epoch = lease /\ (turn.fair \/ clean = lease)
               THEN [turn EXCEPT !.at = "call", !.lease = lease]
               ELSE [turn EXCEPT !.at = "fail", !.failure = "foreground_preempted", !.exit = Exit("preempted")]
    /\ UNCHANGED <<durable, resident, proof, cursors, outside, uncovered, used>>

Fails(failure, why) == turn' = [turn EXCEPT !.at = "fail", !.failure = failure, !.exit = Exit(why)]

\* generator.Stream and backgroundCallPreempted behind it.  The answer may be
\* unusable, which is one more failure of the attempt.
Provider ==
    /\ turn.at = "call"
    /\ \/ epoch # turn.lease /\ Fails("foreground_preempted", "preempted") /\ UNCHANGED used
       \/ epoch = turn.lease /\ Goto("land") /\ UNCHANGED used
       \/ epoch = turn.lease /\ Fault /\ \E failure \in {"retryable", "terminal"} : Fails(failure, "failed")
    /\ UNCHANGED <<durable, resident, proof, cursors, outside, uncovered>>

\* submitBackgroundLandingWithContent.  A self_talk is a new evidence event.
Land ==
    LET key == turn.work.key
        speaks == key = OptionalKey("autonomy") /\ Len(events) < MaxEvents
        lands == Available /\ ~fenced /\ epoch = turn.lease /\ run[key].state = "running" IN
    /\ turn.at = "land" /\ ~arriving
    /\ \/ /\ lands /\ UNCHANGED used
          /\ IF speaks
             THEN /\ events' = Append(events, [type |-> "self_talk", dialogue |-> "closed", erased |-> FALSE])
                  /\ run' = [Ended(key) EXCEPT ![Mandatory(Len(events) + 1)].state = "none"]
                  /\ uncovered' = uncovered \cup {Len(events) + 1}
             ELSE run' = Ended(key) /\ UNCHANGED <<events, uncovered>>
          /\ Leave(Exit("landed"), run)
       \/ ~lands /\ Fails("foreground_preempted", "preempted") /\ UNCHANGED <<events, run, uncovered, used>>
       \/ /\ lands /\ Fault /\ UNCHANGED <<events, run, uncovered>>
          /\ \E failure \in {"retryable", "terminal"} : Fails(failure, "refused")
    /\ UNCHANGED <<requests, resident, proof, cursors, outside>>

\* recordMemoryExtractionFailure, recordBackgroundAttemptFailure: an archive
\* owns the attempt from its commit on.
Fail ==
    LET key == turn.work.key
        owned == active /\ run[key].state = "running" IN
    /\ turn.at = "fail" /\ ~arriving
    /\ \/ /\ run' = IF owned THEN Outcome(key, turn.failure) ELSE run
          /\ Leave(turn.exit, run')
          /\ UNCHANGED used
       \/ owned /\ Fault /\ EndTurn /\ UNCHANGED run
    /\ UNCHANGED <<events, requests, resident, proof, cursors, outside, uncovered>>

\* rejectGenerationEnvelopeAtResidentBoundary: a run whose envelope cannot be
\* read or does not fit ends for good; an archive owns it from its commit on.
Reject ==
    LET key == turn.work.key IN
    /\ turn.at \in {"admit", "register", "call"} /\ ~arriving
    /\ run[key].state \in {"running", "retry", "preempted"}
    /\ Fault
    /\ run' = IF active THEN Ended(key) ELSE run
    /\ Leave(Exit("rejected"), run)
    /\ UNCHANGED <<events, requests, resident, proof, cursors, outside, uncovered>>

-----------------------------------------------------------------------------
(* Optional work.                                                          *)

\* A claim pair, a settled transition, a trigger or an Admin call asks for it.
\* Only a turn looks, so it may as well come due between two turns.
ComesDue ==
    /\ up /\ turn = Idle /\ used.due < MaxDue /\ Use("due")
    /\ \E kind \in Optional :
         /\ run[OptionalKey(kind)].state = "absent"
         /\ run' = [run EXCEPT ![OptionalKey(kind)].state = "none"]
    /\ UNCHANGED <<events, requests, resident, proof, cursors, turn, outside, uncovered>>

Due(kind) == kind \in Optional /\ memoryWorkNeedsAttention(OptionalKey(kind))
OptionalWork(kind) == Found(OptionalKey(kind), run[OptionalKey(kind)].state, "")

\* processMemoryAlignmentQueue, and processPersonaRevisionQueue behind it.
processMemoryAlignmentQueue ==
    /\ turn.at = "align"
    /\ turn' = IF Due("alignment")
               THEN [turn EXCEPT !.at = "process", !.by = "align", !.work = OptionalWork("alignment")]
               ELSE [turn EXCEPT !.at = "persona", !.by = "align"]
    /\ UNCHANGED <<durable, resident, proof, cursors, outside, uncovered, used>>

processPersonaRevisionQueue ==
    /\ turn.at = "persona"
    /\ turn' = IF Due("persona") THEN [turn EXCEPT !.at = "process", !.work = OptionalWork("persona")]
               ELSE IF turn.by = "align" THEN [turn EXCEPT !.at = "complete"]
               ELSE Idle
    /\ UNCHANGED <<durable, resident, proof, cursors, outside, uncovered, used>>

AdminCall == up /\ turn = Idle /\ used.calls < MaxCalls /\ Use("calls")

\* ProposeMemoryPersona.
ProposeMemoryPersona ==
    /\ AdminCall
    /\ selected \/ ~active
    /\ scans /\ Due("persona")
    /\ turn' = [Idle EXCEPT !.at = "persona", !.by = "admin"]
    /\ UNCHANGED <<durable, resident, proof, cursors, outside, uncovered>>

\* DeriveMemoryClaim: every call is a new run.
DeriveMemoryClaim ==
    /\ AdminCall
    /\ selected \/ ~active
    /\ scans /\ Due("derive") /\ run[OptionalKey("derive")].state = "none"
    /\ turn' = [Idle EXCEPT !.at = "process", !.by = "derive", !.work = OptionalWork("derive")]
    /\ UNCHANGED <<durable, resident, proof, cursors, outside, uncovered>>

\* processAutonomyResidentAfterMandatory: both proofs are read again under
\* the resident lock.
AutonomyStart ==
    /\ up /\ turn = Idle
    /\ clean = epoch /\ scans /\ Available
    /\ Due("autonomy")
    /\ turn' = [Idle EXCEPT !.at = "autonomyGate", !.by = "autonomy", !.work = OptionalWork("autonomy")]
    /\ UNCHANGED <<durable, resident, proof, cursors, outside, uncovered, used>>

\* processAutonomousTrigger: the run is prepared outside any lease; behind the
\* gate (the scheduler, the clean proof) a retry starts its attempt.  A gate
\* that is shut leaves the attempt as it is.
AutonomyGate ==
    LET key == turn.work.key IN
    /\ turn.at = "autonomyGate"
    /\ \/ /\ run[key].state = "none"
          /\ IF active THEN run' = Running(key) /\ UNCHANGED turn ELSE EndTurn /\ UNCHANGED run
       \/ /\ run[key].state \in {"running", "retry", "preempted"} /\ clean = epoch /\ active
          /\ run' = Running(key)
          /\ turn' = IF selected THEN [turn EXCEPT !.at = "register", !.lease = epoch] ELSE Idle
       \/ run[key].state # "none" /\ EndTurn /\ UNCHANGED run
    /\ UNCHANGED <<events, requests, resident, proof, cursors, outside, uncovered, used>>

\* cancelAutonomousResidentWork, from the safety scan.
CancelAutonomous ==
    /\ up /\ ~Available /\ "autonomy" \in Optional
    /\ run[OptionalKey("autonomy")].state \in {"running", "retry", "preempted"}
    /\ run' = Ended(OptionalKey("autonomy"))
    /\ UNCHANGED <<events, requests, resident, proof, cursors, turn, outside, uncovered, used>>

-----------------------------------------------------------------------------
(* ReextractMemoryEvent.                                                   *)

\* invalidateMemoryExtractionScansForReextraction.
invalidateScans ==
    /\ scans' = FALSE
    /\ rx' = [rx EXCEPT !.pending = TRUE]
    /\ UNCHANGED <<fair, normal, complete>>

ReextractNew ==
    LET key == Reextraction(Len(requests) + 1) IN
    /\ AdminCall /\ Len(requests) < MaxRequests
    /\ \E i \in DOMAIN events :
         \/ /\ CancellationCode(i) # ""
            /\ requests' = Append(requests, i) /\ run' = Ended(key) /\ UNCHANGED turn
         \/ /\ CancellationCode(i) = "" /\ Available
            /\ turn' = [Idle EXCEPT !.at = "admit", !.by = "reextract", !.through = i,
                                    !.work = Found(key, "absent", ""), !.lease = epoch]
            /\ UNCHANGED <<requests, run>>
    /\ invalidateScans
    /\ UNCHANGED <<events, resident, proof, outside, uncovered>>

\* The same request asked for again; the attempts of its run bound it.
ReextractAgain ==
    /\ up /\ turn = Idle /\ UNCHANGED used
    /\ \E k \in DOMAIN requests :
         /\ memoryWorkNeedsAttention(Reextraction(k))
         /\ CancellationCode(requests[k]) # "" \/ Available
         /\ turn' = [Idle EXCEPT !.at = "process", !.by = "reextract", !.work = classify(Reextraction(k))]
    /\ invalidateScans
    /\ UNCHANGED <<durable, resident, proof, outside, uncovered>>

-----------------------------------------------------------------------------
(* Ingress, selection, archive, crash.                                     *)

\* The message is durable before its preemption advances the epoch.
Accept ==
    /\ up /\ Available /\ ~arriving
    /\ Len(events) < MaxEvents /\ used.messages < MaxMessages /\ Use("messages")
    /\ events' = Append(events, [type |-> "user", dialogue |-> "open", erased |-> FALSE])
    /\ run' = [run EXCEPT ![Mandatory(Len(events) + 1)].state = "none"]
    /\ arriving' = TRUE
    /\ UNCHANGED <<requests, resident, proof, cursors, turn, boundary, cleaning, uncovered>>

preemptBackground ==
    /\ arriving /\ arriving' = FALSE
    /\ epoch' = epoch + 1
    /\ UNCHANGED <<durable, resident, clean, fenced, cursors, turn, boundary, cleaning, uncovered, used>>

\* resetMemoryDiscovery.
resetMemoryDiscovery ==
    /\ fair' = NoCursor /\ normal' = NoNormal /\ complete' = Unset /\ rx' = NoRx
    /\ scans' = FALSE

\* The fence and invalidateResidentRuntimeLocked, in front of the commit.
BoundaryBegin ==
    /\ up /\ boundary = "none" /\ Fault
    /\ \E kind \in {"select", "deselect", "archive"} :
         /\ kind = "select" => ~selected
         /\ kind # "select" => Available
         /\ active
         /\ boundary' = kind
    /\ fenced' = TRUE /\ epoch' = epoch + 1 /\ clean' = Unset
    /\ resetMemoryDiscovery
    /\ UNCHANGED <<durable, resident, turn, arriving, cleaning, uncovered>>

BoundaryEnd ==
    /\ boundary # "none" /\ ~arriving /\ boundary' = "none"
    /\ \/ /\ selected' = (boundary = "select")
          /\ active' = (boundary # "archive")
          /\ cleaning' = IF boundary = "archive" THEN "running" ELSE cleaning
          /\ UNCHANGED used
       \/ Fault /\ UNCHANGED <<active, selected, cleaning>>
    /\ fenced' = ~(active' /\ selected')
    /\ UNCHANGED <<durable, up, epoch, clean, cursors, turn, arriving, uncovered>>

Phase == <<"running", "dialogue", "memory", "reextract", "autonomy">>
NextPhase(phase) ==
    LET n == CHOOSE n \in 1 .. Len(Phase) : Phase[n] = phase IN
    IF n = Len(Phase) THEN "none" ELSE Phase[n + 1]

\* The obligations a phase of completeArchivedResident drains.
Open(phase) ==
    {key \in Key :
        CASE phase = "running" -> run[key].state = "running"
          [] phase = "memory" -> key \in {Mandatory(i) : i \in Attention([after |-> 0, through |-> Len(events)])}
          [] phase = "reextract" -> key[1] = "request" /\ memoryWorkNeedsAttention(key)
          [] phase = "autonomy" -> key = OptionalKey("autonomy") /\ run[key].state \in {"running", "retry", "preempted"}
          [] OTHER -> FALSE}

\* It does not take the resident lock: the turn may be at any point.
CompleteArchived ==
    /\ up /\ cleaning # "none"
    /\ \/ \E key \in Open(cleaning) : run' = Ended(key) /\ UNCHANGED <<events, cleaning, used>>
       \/ /\ cleaning = "dialogue" /\ UNCHANGED <<run, cleaning, used>>
          /\ \E i \in DOMAIN events : Unclosed(i) /\ Dialogue(i, "closed")
       \/ /\ Open(cleaning) = {} /\ (cleaning = "dialogue" => \A i \in DOMAIN events : ~Unclosed(i))
          /\ cleaning' = NextPhase(cleaning) /\ UNCHANGED <<events, run, used>>
       \/ Fault /\ cleaning' = "none" /\ UNCHANGED <<events, run>>
    /\ UNCHANGED <<requests, resident, proof, cursors, turn, arriving, boundary, uncovered>>

\* Everything Operational is lost.
Crash ==
    /\ up /\ Fault /\ up' = FALSE
    /\ epoch' = 0 /\ clean' = Unset /\ fenced' = FALSE
    /\ resetMemoryDiscovery
    /\ EndTurn
    /\ arriving' = FALSE /\ boundary' = "none" /\ cleaning' = "none" /\ uncovered' = {}
    /\ UNCHANGED <<durable, active, selected>>

\* RecoverRunning, and RecoverMandatory for what is no longer available.
\* Offline commands may have erased content before.
Restart ==
    /\ ~up /\ up' = TRUE
    /\ \E erased \in {{}} \cup {{i} : i \in DOMAIN events} :
         LET gone(i) == i \in erased \/ events[i].erased
             answerable(i) == ~gone(i) /\ Available IN
         /\ events' = [i \in DOMAIN events |->
              [events[i] EXCEPT !.erased = gone(i),
                                !.dialogue = IF answerable(i) THEN @ ELSE "closed"]]
         /\ run' = [key \in Key |->
              IF key[1] = "event" /\ memoryWorkNeedsAttention(key) /\ (gone(key[2]) \/ ~active)
              THEN [run[key] EXCEPT !.state = "ended"]
              ELSE IF run[key].state = "running" THEN Outcome(key, "runtime_interrupted")[key]
              ELSE run[key]]
    /\ UNCHANGED <<requests, active, selected, proof, cursors, turn, outside, uncovered, used>>

-----------------------------------------------------------------------------

Init ==
    /\ events = <<>> /\ requests = <<>>
    /\ run = [key \in Key |-> [state |-> "absent", fails |-> 0]]
    /\ active = TRUE /\ selected = TRUE /\ up = TRUE
    /\ epoch = 0 /\ clean = Unset /\ fenced = FALSE
    /\ fair = NoCursor /\ normal = NoNormal /\ complete = Unset /\ rx = NoRx /\ scans = FALSE
    /\ turn = Idle
    /\ arriving = FALSE /\ boundary = "none" /\ cleaning = "none" /\ uncovered = {}
    /\ used = [messages |-> 0, calls |-> 0, due |-> 0, faults |-> 0]

QueueStep == QueueStart \/ NormalStart \/ NormalDiscover \/ NormalUpdate
                \/ RxStart \/ RxDiscover \/ RxUpdate \/ Verified \/ SetComplete
                \/ processMemoryAlignmentQueue \/ processPersonaRevisionQueue
Process == processMemoryExtractionWork \/ processQueuedMemoryExtraction \/ cancelMemoryExtraction
              \/ processMemoryAlignmentWork \/ processPersonaRevisionWork \/ processMemoryDerivation
WorkStep == Process \/ Reject \/ Admit \/ Register \/ Provider \/ Land \/ Fail
TurnStep == ScanDialogue \/ ScanClean \/ FairDiscover \/ FairUpdate \/ QueueStep \/ WorkStep \/ AutonomyGate
AdminStep == ProposeMemoryPersona \/ DeriveMemoryClaim \/ ReextractNew \/ ReextractAgain
Boundary == BoundaryBegin \/ BoundaryEnd

Next ==
    \/ TurnStart \/ TurnStep \/ AutonomyStart \/ CancelAutonomous
    \/ ComesDue \/ AdminStep
    \/ Accept \/ preemptBackground \/ Boundary \/ CompleteArchived
    \/ Crash \/ Restart

Spec == Init /\ [][Next]_vars

\* The safety scan ticks for every resident and takes a sync.Mutex, which is
\* handed over after a while (strong fairness); each holder, ingress, boundary
\* and clean-up runs to its end; a service is started again.
FairSpec ==
    /\ Spec
    /\ SF_vars(TurnStart) /\ WF_vars(TurnStep) /\ WF_vars(preemptBackground)
    /\ WF_vars(BoundaryEnd) /\ WF_vars(CompleteArchived) /\ WF_vars(Restart)

-----------------------------------------------------------------------------

TypeOK ==
    /\ events \in Seq(Event) /\ Len(events) <= MaxEvents
    /\ requests \in Seq(1 .. MaxEvents) /\ Len(requests) <= MaxRequests
    /\ run \in [Key -> [state : RunState, fails : 0 .. MaxAttempts]]
    /\ {active, selected, up, fenced, scans, arriving} \subseteq BOOLEAN
    /\ epoch \in EpochOrUnset \ {Unset} /\ {clean, complete} \subseteq EpochOrUnset
    /\ fair \in Cursor /\ uncovered \subseteq 1 .. MaxEvents
    /\ normal \in [cursor : Cursor, epoch : EpochOrUnset, dirty : BOOLEAN]
    /\ rx \in [active : BOOLEAN, cursor : RxCursor, epoch : EpochOrUnset,
               dirty : BOOLEAN, pending : BOOLEAN]
    /\ turn.at \in Point
    /\ boundary \in {"none", "select", "deselect", "archive"}
    /\ cleaning \in Range(Phase) \cup {"none"}

Pending(key) == run[key].state \notin {"absent", "ended"}

\* Optional work is under way, and nothing has arrived since it was admitted.
OptionalCall ==
    turn.at = "call" /\ turn.work.key[1] = "optional" /\ epoch = turn.lease /\ ~arriving

\* Optional work is admitted to the provider only when the mandatory work the
\* sweep covered is done: every dialogue is closed, every extraction and every
\* re-extraction has ended.  The sweep does not cover a user message whose
\* dialogue had no Commit B yet when a pass crossed it, nor a self_talk that
\* landed after it.
\* (processMemoryExtractionQueue: the cycles, dirty flags, fixed ceilings and
\* rescanPending of several turns have to add up to that.)
MandatoryFirst ==
    OptionalCall =>
        /\ \A i \in DOMAIN events :
             ~Unclosed(i) /\ (i \in uncovered \/ ~Pending(Mandatory(i)))
        /\ \A k \in DOMAIN requests : ~Pending(Reextraction(k))

\* What processAutonomyTurn and the queue say of it: no older mandatory memory
\* work remains when optional work starts (autonomy.go, memory_extraction.go).
NoOlderMandatory ==
    OptionalCall =>
        \A i \in DOMAIN events :
            events[i].type = "user" => ~Pending(Mandatory(i))

\* Every extraction and re-extraction is eventually closed, through dirty
\* cycles, budget stops, preemptions, failures and crashes, unless its resident
\* is left active and unselected (its work then waits).
MemoryReached ==
    \A key \in {k \in Key : IsMemory(k)} :
        Pending(key) ~> (~Pending(key) \/ (active /\ ~selected))

\* The proof is found again and again once the resident stays selected: no
\* combination of cursors and flags locks the optional work out.
ScansComplete == <>[](up /\ Available) => []<>scans
=============================================================================
