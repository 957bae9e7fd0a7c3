--------------------------- MODULE BackgroundLease ---------------------------
(***************************************************************************)
(* Background generation (memory, autonomy) against the foreground and the *)
(* resident boundaries.  A background call works under a lease: an epoch,  *)
(* frozen before the last durable check, and a place in the resident's     *)
(* slot, where an ingress, a selection or an archive finds it and cancels  *)
(* it.  Three kinds of lock order these actors: residentBoundaryMu (one    *)
(* boundary at a time), the landing lock of each resident (held around a   *)
(* durable step, never around a provider call) and backgroundMu (each      *)
(* critical section of it is one action).  One worker per resident:        *)
(* every turn holds residentLock.                                          *)
(***************************************************************************)
EXTENDS Integers, FiniteSets

CONSTANTS
    Resident,     \* resident ids; landing locks are taken in their order
    None,
    Working,      \* bound: the residents with messages and background work
    MaxMessages,  \* bound: ingress calls per resident
    MaxCalls,     \* bound: background calls per resident
    MaxBounds,    \* bound: selections and archives
    MaxFaults     \* bound: failed reads and submissions

ASSUME LeaseAssumption ==
    /\ Resident \subseteq Nat \ {0} /\ IsFiniteSet(Resident)
    /\ None \notin Resident /\ Working \subseteq Resident
    /\ MaxMessages \in Nat /\ MaxCalls \in Nat
    /\ MaxBounds \in Nat /\ MaxFaults \in Nat

VARIABLES
    status, selected,   \* durable: the status of a resident, the selection
    msgs, open,         \* messages accepted and messages not yet closed
    attempt,            \* the latest attempt of the background obligation
    poisoned,           \* the Writer refuses everything
    epoch, clean,       \* foregroundEpoch, dialogueCleanEpoch
    blocked, selectionBlocked,  \* backgroundBlocked, backgroundSelectionBlocked
    slot, calls,        \* background, and the calls registered so far
    lock,               \* backgroundLandings: who holds the landing lock
    worker, ingress, boundary,
    cleaning,           \* archived residents whose clean-up has not run yet
    work,               \* the residents whose residentLock exists
    unread,             \* a boundary could not read its own outcome
    omitted,            \* a selection fenced without its former resident
    bounds, faults

durableVars == <<status, selected, msgs, open, attempt>>
fenceVars == <<epoch, clean, blocked, selectionBlocked, slot, calls>>
boundVars == <<boundary, cleaning, unread, omitted, bounds>>
vars == <<durableVars, poisoned, fenceVars, lock, work, worker, ingress, boundVars, faults>>

Unproved == -1
Epoch == 0 .. MaxMessages + MaxBounds
Call == 0 .. MaxCalls   \* 0: no call

WorkerPoint == {"idle", "scan", "proof", "fair", "admit", "captureStage", "captureRegister",
                "stage", "beginSelected", "beginRegister", "beginSubmit", "begun",
                "register", "provider", "check", "land", "landCheck", "landSelected", "landSubmit", "fail"}
\* epoch, fair, call, cancelled: the lease.  seen: messages accepted when its
\* epoch was captured.
Worker == [at : WorkerPoint, epoch : Epoch, fair : BOOLEAN, call : Call,
           cancelled : BOOLEAN, seen : 0 .. MaxMessages]
Resting == [at |-> "idle", epoch |-> 0, fair |-> FALSE, call |-> 0,
            cancelled |-> FALSE, seen |-> 0]

Ingress == [at : {"idle", "waiting", "checked", "submit", "preempt", "cancel"}, call : Call]
NoIngress == [at |-> "idle", call |-> 0]

Boundary == [at : {"idle", "selectLock", "selectEnd", "archiveLock"},
             of : Resident \cup {None}, targets : SUBSET Resident,
             known : BOOLEAN, was : BOOLEAN]
NoBoundary == [at |-> "idle", of |-> None, targets |-> {}, known |-> TRUE, was |-> FALSE]

TypeOK ==
    /\ status \in [Resident -> {"active", "archived"}]
    /\ selected \in Resident \cup {None}
    /\ msgs \in [Resident -> 0 .. MaxMessages]
    /\ open \in [Resident -> 0 .. MaxMessages]
    /\ attempt \in [Resident -> {"none", "running", "ended"}]
    /\ poisoned \in BOOLEAN
    /\ epoch \in [Resident -> Epoch]
    /\ clean \in [Resident -> Epoch \cup {Unproved}]
    /\ blocked \subseteq Resident /\ selectionBlocked \in BOOLEAN
    /\ slot \in [Resident -> Call] /\ calls \in [Resident -> Call]
    /\ lock \in [Resident -> {"free", "worker", "ingress", "boundary"}]
    /\ worker \in [Resident -> Worker]
    /\ ingress \in [Resident -> Ingress]
    /\ boundary \in Boundary
    /\ work \subseteq Resident /\ cleaning \subseteq Resident
    /\ unread \in BOOLEAN /\ omitted \in BOOLEAN
    /\ bounds \in 0 .. MaxBounds /\ faults \in 0 .. MaxFaults

Fault == faults < MaxFaults /\ faults' = faults + 1

Available(r) == status[r] = "active" /\ selected = r

Take(r, who) == lock[r] = "free" /\ lock' = [lock EXCEPT ![r] = who]
Free(r) == lock' = [lock EXCEPT ![r] = "free"]

Become(r, w) == worker' = [worker EXCEPT ![r] = w]
Goto(r, point) == Become(r, [worker[r] EXCEPT !.at = point])

-----------------------------------------------------------------------------
(* backgroundMu.                                                           *)

\* registerBackgroundCallAtEpochWithHook: no fence, the expected epoch, and for
\* normal work the clean proof of that epoch.
Admitted(r, w) ==
    /\ ~selectionBlocked /\ r \notin blocked
    /\ w.epoch = epoch[r]
    /\ w.fair \/ clean[r] = w.epoch

\* Mutant: a call that finds the slot taken does not enter it.
SlotAfterRegisterKept(r, call) ==
    IF slot[r] = 0 THEN [slot EXCEPT ![r] = call] ELSE slot

\* The newest call takes the slot, also over one that was never finished.
SlotAfterRegister(r, call) == [slot EXCEPT ![r] = call]

Register(r, point) ==
    LET call == calls[r] + 1 IN
    /\ calls' = [calls EXCEPT ![r] = call]
    /\ slot' = SlotAfterRegister(r, call)
    /\ Become(r, [worker[r] EXCEPT !.at = point, !.call = call, !.cancelled = FALSE])
    /\ UNCHANGED <<epoch, clean, blocked, selectionBlocked>>

\* lease.finish empties the slot if it still holds this call.
Finish(r) ==
    /\ slot' = [slot EXCEPT ![r] = IF @ = worker[r].call THEN 0 ELSE @]
    /\ UNCHANGED <<epoch, clean, blocked, selectionBlocked, calls>>

\* call.cancel: it reaches the worker if the call is still its own.
CancelCalls(victim) ==
    worker' = [r \in Resident |->
        IF victim[r] # 0 /\ worker[r].call = victim[r]
        THEN [worker[r] EXCEPT !.cancelled = TRUE] ELSE worker[r]]

Victims(targets) == [r \in Resident |-> IF r \in targets THEN slot[r] ELSE 0]

\* invalidateResidentRuntimeLocked and the fence, for the targets of a boundary.
Invalidate(targets) ==
    /\ epoch' = [r \in Resident |-> IF r \in targets THEN epoch[r] + 1 ELSE epoch[r]]
    /\ clean' = [r \in Resident |-> IF r \in targets THEN Unproved ELSE clean[r]]
    /\ blocked' = blocked \cup targets
    /\ CancelCalls(Victims(targets))
    /\ UNCHANGED <<slot, calls>>

-----------------------------------------------------------------------------
(* The foreground: submitForegroundWithContent.                            *)

ingressFrame == <<status, selected, attempt, blocked, selectionBlocked, slot, calls, clean,
                  work, boundVars>>

\* Every call that reaches the Writer advances the epoch, accepted or not: the
\* guard bounds those calls by MaxMessages too.
IngressStart(r) ==
    /\ ingress[r].at = "idle"
    /\ msgs[r] < MaxMessages /\ epoch[r] < MaxMessages + bounds
    /\ ingress' = [ingress EXCEPT ![r].at = "waiting"]
    /\ UNCHANGED <<ingressFrame, msgs, open, poisoned, epoch, lock, worker, faults>>

IngressLock(r) ==
    /\ ingress[r].at = "waiting" /\ Take(r, "ingress")
    /\ ingress' = [ingress EXCEPT ![r].at = "checked"]
    /\ UNCHANGED <<ingressFrame, msgs, open, poisoned, epoch, worker, faults>>

\* The fence and the durable selection, read one after the other.
IngressCheck(r) ==
    /\ ingress[r].at = "checked"
    /\ \/ /\ ~selectionBlocked /\ r \notin blocked /\ Available(r)
          /\ ingress' = [ingress EXCEPT ![r].at = "submit"] /\ UNCHANGED lock
       \/ /\ selectionBlocked \/ r \in blocked \/ ~Available(r)
          /\ ingress' = [ingress EXCEPT ![r] = NoIngress] /\ Free(r)
    /\ UNCHANGED <<ingressFrame, msgs, open, poisoned, epoch, worker, faults>>

\* AppendEvent reads the selection again.  The message is there after success;
\* after an error it may be.
IngressSubmit(r) ==
    LET accepted == msgs' = [msgs EXCEPT ![r] = @ + 1] /\ open' = [open EXCEPT ![r] = @ + 1]
        admissible == ~poisoned /\ Available(r) IN
    /\ ingress[r].at = "submit"
    /\ \/ admissible /\ accepted /\ UNCHANGED <<poisoned, faults>>
       \/ ~admissible /\ UNCHANGED <<msgs, open, poisoned, faults>>
       \/ /\ admissible /\ Fault
          /\ \/ UNCHANGED <<msgs, open>> /\ poisoned' \in BOOLEAN
             \/ accepted /\ poisoned' = TRUE
    /\ ingress' = [ingress EXCEPT ![r].at = "preempt"]
    /\ UNCHANGED <<ingressFrame, epoch, lock, worker>>

\* preemptBackground advances the epoch and picks up the call ...
IngressPreempt(r) ==
    /\ ingress[r].at = "preempt"
    /\ epoch' = [epoch EXCEPT ![r] = @ + 1]
    /\ ingress' = [ingress EXCEPT ![r] = [at |-> "cancel", call |-> slot[r]]]
    /\ UNCHANGED <<ingressFrame, msgs, open, poisoned, lock, worker, faults>>

\* ... which it cancels outside backgroundMu; then the landing lock is released.
IngressCancel(r) ==
    /\ ingress[r].at = "cancel"
    /\ CancelCalls([x \in Resident |-> IF x = r THEN ingress[r].call ELSE 0])
    /\ ingress' = [ingress EXCEPT ![r] = NoIngress] /\ Free(r)
    /\ UNCHANGED <<ingressFrame, msgs, open, poisoned, epoch, faults>>

IngressStep(r) ==
    \/ IngressLock(r) \/ IngressCheck(r) \/ IngressSubmit(r)
    \/ IngressPreempt(r) \/ IngressCancel(r)

-----------------------------------------------------------------------------
(* The worker of a resident.                                               *)

workerFrame == <<status, selected, msgs, work, ingress, boundVars>>
\* What a step that neither submits nor registers leaves alone.
readFrame == <<workerFrame, open, attempt, poisoned, fenceVars, faults>>

\* A dialogue turn takes residentLock; startOrResumeDialogueScanCycle captures
\* the epoch.
TurnStart(r) ==
    /\ worker[r].at = "idle"
    /\ work' = work \cup {r}
    /\ Become(r, [Resting EXCEPT !.at = "scan", !.epoch = epoch[r]])
    /\ UNCHANGED <<status, selected, msgs, ingress, boundVars, open, attempt, poisoned,
                   fenceVars, lock, faults>>

\* The turn closes a message, then goes on or hands over to the message's memory;
\* a scan without open messages is a proof.
TurnScan(r) ==
    /\ worker[r].at = "scan"
    /\ \/ /\ open[r] > 0 /\ open' = [open EXCEPT ![r] = @ - 1]
          /\ UNCHANGED worker \/ Goto(r, "fair")
       \/ open[r] = 0 /\ Goto(r, "proof") /\ UNCHANGED open
    /\ UNCHANGED <<workerFrame, attempt, poisoned, fenceVars, lock, faults>>

\* recordDialogueCleanAtEpoch, then the normal queues.
TurnRecord(r) ==
    /\ worker[r].at = "proof"
    /\ \/ /\ epoch[r] = worker[r].epoch
          /\ clean' = [clean EXCEPT ![r] = epoch[r]] /\ Goto(r, "admit")
       \/ epoch[r] # worker[r].epoch /\ Become(r, Resting) /\ UNCHANGED clean
    /\ UNCHANGED <<workerFrame, open, attempt, poisoned, epoch, blocked, selectionBlocked,
                   slot, calls, lock, faults>>

\* processFairMandatoryMemory freezes its epoch before it looks for the work ...
FairCapture(r) ==
    /\ worker[r].at = "fair"
    /\ Become(r, [worker[r] EXCEPT !.at = "admit", !.fair = TRUE,
                                   !.epoch = epoch[r], !.seen = msgs[r]])
    /\ UNCHANGED <<readFrame, lock>>

\* The work item and the selection.  An attempt that is already running needs a
\* lease only, the others start one.
WorkAdmit(r) ==
    LET fair == worker[r].fair IN
    /\ worker[r].at = "admit"
    /\ \/ /\ Available(r) /\ calls[r] < MaxCalls
          /\ \/ attempt[r] = "running" /\ Goto(r, IF fair THEN "register" ELSE "captureRegister")
             \/ attempt[r] # "running" /\ Goto(r, IF fair THEN "stage" ELSE "captureStage")
       \/ Become(r, Resting)   \* unselected, no work, or a failed read
    /\ UNCHANGED <<readFrame, lock>>

\* ... normal work captures its own after it found it.
NormalCapture(r) ==
    /\ worker[r].at \in {"captureStage", "captureRegister"}
    /\ Become(r, [worker[r] EXCEPT
           !.at = IF @ = "captureStage" THEN "stage" ELSE "register",
           !.epoch = epoch[r], !.seen = msgs[r]])
    /\ UNCHANGED <<readFrame, lock>>

\* submitBackgroundMutationAndBeginCall: under the landing lock, read the
\* selection, register the lease, submit.
BeginLock(r) ==
    /\ worker[r].at = "stage" /\ Take(r, "worker") /\ Goto(r, "beginSelected")
    /\ UNCHANGED readFrame

BeginSelected(r) ==
    /\ worker[r].at = "beginSelected"
    /\ \/ Available(r) /\ Goto(r, "beginRegister") /\ UNCHANGED lock
       \/ ~Available(r) /\ Become(r, Resting) /\ Free(r)
    /\ UNCHANGED readFrame

BeginRegister(r) ==
    /\ worker[r].at = "beginRegister"
    /\ \/ Admitted(r, worker[r]) /\ Register(r, "beginSubmit") /\ UNCHANGED lock
       \/ /\ ~Admitted(r, worker[r]) /\ Become(r, Resting) /\ Free(r)
          /\ UNCHANGED fenceVars
    /\ UNCHANGED <<workerFrame, open, attempt, poisoned, faults>>

\* Mutant: the landing lock is kept during the provider call.
AfterBeginHeld(r) == UNCHANGED lock

AfterBegin(r) == Free(r)

\* The Writer asks for an active resident, of memory work not for a selected one.
BeginSubmit(r) ==
    LET started == attempt' = [attempt EXCEPT ![r] = "running"]
        admissible == ~poisoned /\ status[r] = "active" IN
    /\ worker[r].at = "beginSubmit"
    /\ \/ /\ admissible /\ started /\ Goto(r, "begun") /\ AfterBegin(r)
          /\ UNCHANGED <<poisoned, faults, fenceVars>>
       \/ /\ ~admissible /\ Become(r, Resting) /\ Free(r) /\ Finish(r)
          /\ UNCHANGED <<attempt, poisoned, faults>>
       \/ /\ admissible /\ Fault /\ Become(r, Resting) /\ Free(r) /\ Finish(r)
          /\ \/ UNCHANGED attempt /\ poisoned' \in BOOLEAN
             \/ started /\ poisoned' = TRUE
    /\ UNCHANGED <<workerFrame, open>>

\* Reload the run and check its envelope.  An error return comes before the
\* deferred finish: the dead call stays in the slot.
Begun(r) ==
    /\ worker[r].at = "begun"
    /\ \/ Goto(r, "provider") /\ UNCHANGED faults
       \/ Fault /\ (Become(r, Resting) \/ Become(r, [worker[r] EXCEPT !.at = "fail", !.call = 0]))
    /\ UNCHANGED <<workerFrame, open, attempt, poisoned, fenceVars, lock>>

\* beginBackgroundCall or beginFairBackgroundCallAtEpoch, without the lock.
RegisterResumed(r) ==
    /\ worker[r].at = "register"
    /\ \/ Admitted(r, worker[r]) /\ Register(r, "provider")
       \/ ~Admitted(r, worker[r]) /\ Goto(r, "fail") /\ UNCHANGED fenceVars
    /\ UNCHANGED <<workerFrame, open, attempt, poisoned, lock, faults>>

\* generator.Stream returns, in its own time.
Provider(r) ==
    /\ worker[r].at = "provider" /\ Goto(r, "check")
    /\ UNCHANGED <<readFrame, lock>>

\* backgroundCallPreempted, then the provider's result or error.
Check(r) ==
    /\ worker[r].at = "check"
    /\ \/ Goto(r, "fail")
       \/ ~worker[r].cancelled /\ epoch[r] = worker[r].epoch /\ Goto(r, "land")
    /\ UNCHANGED <<readFrame, lock>>

LandLock(r) ==
    /\ worker[r].at = "land" /\ Take(r, "worker") /\ Goto(r, "landCheck")
    /\ UNCHANGED readFrame

\* Mutant: a landing looks at the fence only.
LeaseCurrentUncompared(r, w) == ~selectionBlocked /\ r \notin blocked

LeaseCurrent(r, w) ==
    /\ ~selectionBlocked /\ r \notin blocked
    /\ epoch[r] = w.epoch /\ ~w.cancelled

\* submitBackgroundLandingWithContent: the lease, then the selection, then submit.
LandCheck(r) ==
    /\ worker[r].at = "landCheck"
    /\ \/ LeaseCurrent(r, worker[r]) /\ Goto(r, "landSelected") /\ UNCHANGED lock
       \/ ~LeaseCurrent(r, worker[r]) /\ Goto(r, "fail") /\ Free(r)
    /\ UNCHANGED readFrame

LandSelected(r) ==
    /\ worker[r].at = "landSelected"
    /\ \/ Available(r) /\ Goto(r, "landSubmit") /\ UNCHANGED lock
       \/ ~Available(r) /\ Goto(r, "fail") /\ Free(r)
    /\ UNCHANGED readFrame

LandSubmit(r) ==
    LET landed == attempt' = [attempt EXCEPT ![r] = "ended"]
        admissible == ~poisoned /\ status[r] = "active" /\ attempt[r] = "running" IN
    /\ worker[r].at = "landSubmit" /\ Free(r)
    /\ \/ /\ admissible /\ landed /\ Become(r, Resting) /\ Finish(r)
          /\ UNCHANGED <<poisoned, faults>>
       \/ /\ ~admissible /\ UNCHANGED <<attempt, poisoned, fenceVars, faults>> /\ Goto(r, "fail")
       \/ /\ admissible /\ Fault
          /\ \/ UNCHANGED <<attempt, poisoned, fenceVars>> /\ Goto(r, "fail")
             \/ /\ poisoned' = TRUE /\ (landed \/ UNCHANGED attempt)
                /\ Become(r, Resting) /\ Finish(r)
    /\ UNCHANGED <<workerFrame, open>>

\* recordBackgroundAttemptFailure, one step under the landing lock: an archived
\* resident's attempt belongs to the archive, an attempt that is over is left alone.
Fail(r) ==
    LET free == lock[r] = "free" /\ UNCHANGED lock
        ended == attempt' = [attempt EXCEPT ![r] = "ended"]
        admissible == status[r] = "active" /\ ~poisoned /\ attempt[r] = "running" IN
    /\ worker[r].at = "fail" /\ free /\ Become(r, Resting) /\ Finish(r)
    /\ \/ admissible /\ ended /\ UNCHANGED <<poisoned, faults>>
       \/ ~admissible /\ UNCHANGED <<attempt, poisoned, faults>>
       \/ /\ admissible /\ Fault
          /\ \/ UNCHANGED attempt /\ poisoned' \in BOOLEAN
             \/ ended /\ poisoned' = TRUE
    /\ UNCHANGED <<workerFrame, open>>

WorkerStep(r) ==
    \/ TurnScan(r) \/ TurnRecord(r) \/ FairCapture(r) \/ WorkAdmit(r) \/ NormalCapture(r)
    \/ BeginLock(r) \/ BeginSelected(r) \/ BeginRegister(r) \/ BeginSubmit(r) \/ Begun(r)
    \/ RegisterResumed(r) \/ Check(r)
    \/ LandLock(r) \/ LandCheck(r) \/ LandSelected(r) \/ LandSubmit(r) \/ Fail(r)

-----------------------------------------------------------------------------
(* SelectResident and ArchiveResident, serialized by residentBoundaryMu.   *)

boundaryFrame == <<msgs, work, ingress, slot, calls>>

Bound == boundary.at = "idle" /\ bounds < MaxBounds /\ bounds' = bounds + 1

\* The residents a selection may take something from: the former one, or all
\* that are known to the worker map when it cannot be read.
SelectTargets(r, previous) ==
    {r} \cup (IF previous = None THEN work ELSE {previous})

SelectStart(r) ==
    /\ Bound
    /\ \E previous \in {selected, None} :
        LET targets == SelectTargets(r, previous) IN
        /\ IF previous = selected THEN UNCHANGED faults ELSE Fault
        /\ Invalidate(targets)
        /\ selectionBlocked' = (selectionBlocked \/ previous = None)
        /\ omitted' = (omitted \/ selected \notin targets \cup {None})
        /\ boundary' = [NoBoundary EXCEPT !.at = "selectLock", !.of = r, !.targets = targets]
    /\ UNCHANGED <<boundaryFrame, status, selected, open, attempt, poisoned, lock,
                   cleaning, unread>>

\* lockBackgroundLandingTargets, in id order.
SelectLock ==
    /\ boundary.at = "selectLock"
    /\ \E r \in boundary.targets :
        /\ \A x \in boundary.targets : x < r => lock[x] = "boundary"
        /\ Take(r, "boundary")
    /\ UNCHANGED <<durableVars, poisoned, fenceVars, work, worker, ingress, boundVars, faults>>

\* SelectActiveResident: an archived resident is refused; after an error the
\* selection is read back.
SelectCommit ==
    LET known(k) == boundary' = [boundary EXCEPT !.at = "selectEnd", !.known = k] IN
    /\ boundary.at = "selectLock"
    /\ \A r \in boundary.targets : lock[r] = "boundary"
    /\ \/ /\ status[boundary.of] = "active" /\ selected' = boundary.of
          /\ known(TRUE) /\ UNCHANGED faults
       \/ /\ status[boundary.of] # "active" /\ UNCHANGED <<selected, faults>>
          /\ known(selected # None)
       \/ /\ Fault /\ status[boundary.of] = "active"
          /\ selected' \in {selected, boundary.of}
          /\ \E k \in BOOLEAN : (k => selected' # None) /\ known(k)
    /\ UNCHANGED <<boundaryFrame, status, open, attempt, poisoned, epoch, clean, blocked,
                   selectionBlocked, lock, worker, cleaning, unread, omitted, bounds>>

\* Mutant: every target stays fenced.
UnfencedNone(targets) == blocked \cup targets

\* Only the resident that is selected now is opened again.
Unfenced(targets) == (blocked \cup targets) \ {selected}

SelectEnd ==
    /\ boundary.at = "selectEnd"
    /\ IF boundary.known
       THEN selectionBlocked' = FALSE /\ blocked' = Unfenced(boundary.targets)
       ELSE UNCHANGED <<selectionBlocked, blocked>>
    /\ unread' = ~boundary.known
    /\ lock' = [r \in Resident |-> IF r \in boundary.targets THEN "free" ELSE lock[r]]
    /\ boundary' = NoBoundary
    /\ UNCHANGED <<boundaryFrame, status, selected, open, attempt, poisoned, epoch, clean,
                   worker, cleaning, omitted, bounds, faults>>

\* The fence first, then the landing lock.
ArchiveStart(r) ==
    /\ Bound
    /\ Invalidate({r})
    /\ boundary' = [NoBoundary EXCEPT !.at = "archiveLock", !.of = r, !.was = (r \in blocked)]
    /\ UNCHANGED <<boundaryFrame, status, selected, selectionBlocked, open, attempt, poisoned,
                   lock, cleaning, unread, omitted, faults>>

\* One step under the landing lock: the status transition, which also clears the
\* selection, and after an error the status read back.  A transition that did not
\* happen restores the fence; an unreadable status keeps it closed.
ArchiveCommit ==
    LET r == boundary.of
        archived == /\ status' = [status EXCEPT ![r] = "archived"]
                    /\ selected' = IF selected = r THEN None ELSE selected
                    /\ cleaning' = cleaning \cup {r}
        kept == UNCHANGED <<status, selected, cleaning>>
        reopen == blocked' = IF boundary.was THEN blocked ELSE blocked \ {r} IN
    /\ boundary.at = "archiveLock" /\ lock[r] = "free"
    /\ \/ /\ (~poisoned \/ status[r] = "archived") /\ archived
          /\ UNCHANGED <<blocked, unread, poisoned, faults>>
       \/ /\ poisoned /\ status[r] = "active" /\ kept /\ reopen
          /\ UNCHANGED <<unread, poisoned, faults>>
       \/ /\ ~poisoned /\ status[r] = "active" /\ Fault
          /\ \/ kept /\ reopen /\ UNCHANGED unread /\ poisoned' \in BOOLEAN
             \/ archived /\ UNCHANGED <<blocked, unread>> /\ poisoned' = TRUE
             \/ kept /\ UNCHANGED blocked /\ unread' = TRUE /\ poisoned' \in BOOLEAN
    /\ boundary' = NoBoundary
    /\ UNCHANGED <<boundaryFrame, open, attempt, epoch, clean, selectionBlocked, lock, worker,
                   omitted, bounds>>

\* completeArchivedResident, after residentBoundaryMu is released: the running
\* attempts, then what is open; it stops at the first error.
Cleanup(r) ==
    LET ended == attempt' = [attempt EXCEPT ![r] = IF @ = "running" THEN "ended" ELSE @] IN
    /\ r \in cleaning /\ cleaning' = cleaning \ {r}
    /\ \/ ~poisoned /\ ended /\ open' = [open EXCEPT ![r] = 0] /\ UNCHANGED faults
       \/ poisoned /\ UNCHANGED <<open, attempt, faults>>
       \/ ~poisoned /\ Fault /\ (ended \/ UNCHANGED attempt) /\ UNCHANGED open
    /\ UNCHANGED <<boundaryFrame, status, selected, poisoned, epoch, clean, blocked,
                   selectionBlocked, lock, worker, boundary, unread, omitted, bounds>>

BoundaryStep == SelectLock \/ SelectCommit \/ SelectEnd \/ ArchiveCommit

-----------------------------------------------------------------------------

Init ==
    /\ status = [r \in Resident |-> "active"] /\ selected \in Resident \cup {None}
    /\ msgs = [r \in Resident |-> 0] /\ open = [r \in Resident |-> 0]
    /\ attempt = [r \in Resident |-> "none"] /\ poisoned = FALSE
    /\ epoch = [r \in Resident |-> 0] /\ clean = [r \in Resident |-> Unproved]
    /\ blocked = {} /\ selectionBlocked = FALSE
    /\ slot = [r \in Resident |-> 0] /\ calls = [r \in Resident |-> 0]
    /\ lock = [r \in Resident |-> "free"]
    /\ worker = [r \in Resident |-> Resting] /\ ingress = [r \in Resident |-> NoIngress]
    /\ boundary = NoBoundary /\ work = {} /\ cleaning = {}
    /\ unread = FALSE /\ omitted = FALSE
    /\ bounds = 0 /\ faults = 0

Next ==
    \/ \E r \in Working : IngressStart(r) \/ IngressStep(r)
    \/ \E r \in Working : TurnStart(r) \/ WorkerStep(r) \/ Provider(r)
    \/ \E r \in Resident : SelectStart(r) \/ ArchiveStart(r) \/ Cleanup(r)
    \/ BoundaryStep

Spec == Init /\ [][Next]_vars

\* Goroutines run, and sync.Mutex hands the landing lock to whoever waits long
\* enough: an ingress or a boundary beside a worker that takes it again and again.
\* Nothing makes a provider answer.
FairSpec ==
    /\ Spec
    /\ \A r \in Working :
        WF_vars(WorkerStep(r)) /\ WF_vars(IngressStep(r)) /\ SF_vars(IngressLock(r))
    /\ WF_vars(BoundaryStep) /\ SF_vars(SelectLock) /\ SF_vars(ArchiveCommit)

-----------------------------------------------------------------------------
(* Properties.                                                             *)

Landing(r) == worker[r].at = "landSubmit" /\ attempt[r] = "running" /\ attempt'[r] = "ended"
Starting(r) == worker[r].at = "beginSubmit" /\ attempt[r] # "running" /\ attempt'[r] = "running"

\* Every durable step of a background call falls inside its lease: no message was
\* accepted since the epoch was captured, normal work finds no open message at
\* all, and the resident is active and selected, though ingress, selection and
\* archive run beside it and cancel nothing in the Writer.  A start is exempt from
\* the last part after a selection that could not fence its former resident.
StepsInsideLease ==
    [][\A r \in Resident : Landing(r) \/ Starting(r) =>
          /\ Available(r) \/ (Starting(r) /\ status[r] = "active" /\ omitted)
          /\ msgs[r] = worker[r].seen
          /\ ~worker[r].fair => open[r] = 0]_vars

\* A provider call that outlived its epoch has been cancelled: preemptBackground
\* and the boundaries always find the live call in the single slot.
PreemptionReaches ==
    \A r \in Resident :
        worker[r].at = "provider" /\ worker[r].epoch # epoch[r] =>
            worker[r].cancelled \/ ingress[r] = [at |-> "cancel", call |-> worker[r].call]

\* Between boundaries the selected resident is open for messages and background
\* work, whichever selections and archives succeeded, were refused or failed
\* before, as long as the last outcome could be read.
FenceReleased ==
    boundary.at = "idle" /\ ~unread /\ selected # None =>
        selected \notin blocked /\ ~selectionBlocked

\* A selection, an archive and an ingress end although providers never answer:
\* no landing lock is held around a call and the locks are taken in one order.
\* (Finitely many are begun, so all of them have ended at the same time.)
BoundaryReturns ==
    []<>(boundary.at = "idle" /\ \A r \in Resident : ingress[r].at = "idle")

=============================================================================
