------------------------- MODULE DialogueObligations -------------------------
(***************************************************************************)
(* The dialogue obligations of internal/app over internal/store/sqlite:    *)
(* every accepted user message is owed a reply, and the debt is paid by a  *)
(* reply, a final failure or a cancellation, recorded in an append-only    *)
(* history of attempts.                                                    *)
(*                                                                         *)
(* One worker per resident (residentLock) discovers the oldest open        *)
(* obligation, prepares a run, calls the provider and lands the reply.     *)
(* Between any two of its steps the resident may be archived or lose the   *)
(* selection, the message may be erased, the process may stop or crash,    *)
(* and the Writer may fail, also ambiguously.  Each Canonical transaction  *)
(* is one step; what the worker read before it is kept in its record.      *)
(***************************************************************************)
EXTENDS Integers, Sequences, FiniteSets

CONSTANTS
    Resident,
    Event,           \* user messages
    ResidentOf,      \* the resident each message is sent to
    None,
    MaxAttempts,     \* Options.MaxAttempts
    MaxDisruptions,  \* bound: crashes, stops, Writer errors and lost revisions together
    MaxMoves         \* bound: selections, archives and erasures together

ASSUME ObligationAssumption ==
    /\ ResidentOf \in [Event -> Resident]
    /\ None \notin Resident \cup Event
    /\ MaxAttempts \in Nat \ {0}
    /\ MaxDisruptions \in Nat
    /\ MaxMoves \in Nat

VARIABLES
    accepted,     \* user_message events in seq order
    erased,       \* messages whose content is erased
    stale,        \* messages whose run used a claim that was erased since
    unresolvable, \* messages whose event-time revisions are gone
    status,       \* the latest status transition of each resident
    selected,     \* runtime_config.active_resident_id
    rows,         \* generation_run_outcomes of each message's run
    phase,        \* the process
    poisoned,     \* the Writer refuses everything until a restart
    unsupported,  \* runs whose frozen envelope this process cannot dispatch
    launched,     \* residents with a worker launched by an ingress
    worker,       \* the resident turn of each resident
    archiver,     \* the archive clean-up
    archivedOk,   \* residents whose ArchiveResident returned nil
    disruptions, moves

durableVars == <<accepted, erased, stale, unresolvable, status, selected, rows>>
processVars == <<phase, poisoned, unsupported, launched>>
vars == <<durableVars, processVars, worker, archiver, archivedOk,
          disruptions, moves>>

Code == {"none", "retryable", "provider", "unsupported",
         "erased", "inactive", "unselected"}
Row == [no : 0 .. MaxAttempts + 1,
        state : {"running", "succeeded", "failed", "cancelled"},
        code : Code]

\* idle: no turn; turn: about to discover; the others name what comes next.
WorkerPoint == {"idle", "turn", "cancel", "prepare", "resume", "retry", "reload",
                "reject", "before", "provider", "after", "stop", "land",
                "fail", "failLanding", "cancelBound"}
Turn == [at : WorkerPoint, event : Event \cup {None}, no : 0 .. MaxAttempts + 1,
         code : Code]
Idle == [at |-> "idle", event |-> None, no |-> 0, code |-> "none"]
InTurn == [Idle EXCEPT !.at = "turn"]

ArchivePoint == {"idle", "running", "dialogues", "cancel"}
Archiver == [at : ArchivePoint, resident : Resident \cup {None},
             event : Event \cup {None}, code : Code]
NoArchive == [at |-> "idle", resident |-> None, event |-> None, code |-> "none"]

Phase == {"down", "startRunning", "startMandatory", "serving",
          "stopping", "stopRunning", "stopMandatory", "stopped"}

Accepted == {accepted[i] : i \in DOMAIN accepted}

TypeOK ==
    /\ accepted \in Seq(Event)
    /\ erased \subseteq Event
    /\ stale \subseteq Event
    /\ unresolvable \subseteq Event
    /\ status \in [Resident -> {"active", "archived"}]
    /\ selected \in Resident \cup {None}
    /\ rows \in [Event -> Seq(Row)]
    /\ phase \in Phase
    /\ poisoned \in BOOLEAN
    /\ unsupported \subseteq Event
    /\ launched \subseteq Resident
    /\ worker \in [Resident -> Turn]
    /\ archiver \in Archiver
    /\ archivedOk \subseteq Resident
    /\ disruptions \in 0 .. MaxDisruptions
    /\ moves \in 0 .. MaxMoves

-----------------------------------------------------------------------------
(* Reading a history.                                                      *)

Retryable(code) == code = "retryable"

HasRun(e) == rows[e] # <<>>

\* The latest outcome: highest attempt, its terminal row before its running
\* row.  Rows are appended in that order (HistoryWellFormed).
Latest(e) == rows[e][Len(rows[e])]

\* Mutant: the retry budget is not compared.
RetryEligibleAlways(e) == Retryable(Latest(e).code)

\* Classify: a retryable failure is retried while the charged attempts stay
\* below the limit.
RetryEligible(e) == Retryable(Latest(e).code) /\ Latest(e).no < MaxAttempts

\* classifyDialogueWork without the cancellation code.
WorkState(e) ==
    CASE ~HasRun(e) -> "pending"
      [] HasRun(e) /\ Latest(e).state = "running" -> "running"
      [] HasRun(e) /\ Latest(e).state = "succeeded" -> "succeeded"
      [] OTHER -> IF RetryEligible(e) THEN "retryPending" ELSE "terminalFailed"

NeedsAttention(e) == WorkState(e) \in {"pending", "running", "retryPending"}

Available(r) == status[r] = "active" /\ selected = r

\* dialogueRecoveryReason: why a message can no longer be answered.
RecoveryReason(e) ==
    LET r == ResidentOf[e] IN
    CASE e \in erased -> "erased"
      [] e \notin erased /\ status[r] # "active" -> "inactive"
      [] e \notin erased /\ status[r] = "active" /\ selected # r -> "unselected"
      [] OTHER -> "none"

-----------------------------------------------------------------------------
(* Canonical transactions: the rows each command appends.                  *)

Running(no) == [no |-> no, state |-> "running", code |-> "none"]
Ended(no, state, code) == [no |-> no, state |-> state, code |-> code]

\* A retryable outcome gets one more attempt that ends at once; used to turn
\* it into a final one.
Close(e, state, code) ==
    LET no == Latest(e).no IN
    IF Latest(e).state = "running" THEN <<Ended(no, state, code)>>
    ELSE <<Running(no + 1), Ended(no + 1, state, code)>>

\* ResolveMandatoryCancellationEnvelope: an existing run brings its envelope; a
\* message without one needs the revisions that held when it was accepted.
Resolvable(e) == HasRun(e) \/ e \notin unresolvable

\* CancelDialogue without an expected attempt: an error unless there is an
\* envelope and the reason is still the one that counts; a finished run gets no
\* row.
CancelAllowed(e, code) == Resolvable(e) /\ code # "none" /\ code = RecoveryReason(e)

\* Mutant: a retryable failure is cancelled in place.
CancelRowsInPlace(e, code) ==
    CASE ~HasRun(e) -> <<Ended(0, "cancelled", code)>>
      [] HasRun(e) /\ (Latest(e).state = "running" \/ Retryable(Latest(e).code)) ->
             <<Ended(Latest(e).no, "cancelled", code)>>
      [] OTHER -> <<>>

CancelRows(e, code) ==
    CASE ~HasRun(e) -> <<Ended(0, "cancelled", code)>>
      [] HasRun(e) /\ (Latest(e).state = "running" \/ Retryable(Latest(e).code)) ->
             Close(e, "cancelled", code)
      [] OTHER -> <<>>

\* FailAttempt and LandDialogue terminate the latest running attempt only.
Terminates(e, no) ==
    HasRun(e) /\ Latest(e).state = "running" /\ Latest(e).no = no

\* StartAttempt follows a failed or cancelled attempt of an available resident;
\* a synthetic cancellation is never retried.
StartAllowed(e, no) ==
    /\ Available(ResidentOf[e])
    /\ HasRun(e) /\ Latest(e).state \in {"failed", "cancelled"}
    /\ Latest(e).no # 0 /\ no = Latest(e).no + 1

\* Mutant: the landing trusts what the worker saw before the provider call.
LandAllowedUnchecked(e, no) == HasRun(e)

\* LandDialogue revalidates resident, selection and source in its transaction.
LandAllowed(e, no) ==
    Available(ResidentOf[e]) /\ Terminates(e, no) /\ e \notin erased \cup stale

Apply(e, new) == rows' = [rows EXCEPT ![e] = @ \o new]

Disrupt == disruptions < MaxDisruptions /\ disruptions' = disruptions + 1

\* One Writer.Submit as its caller sees it: the rows are there and the call
\* succeeded; or it failed and they are not; or the answer is an error although
\* they may be there: the Writer is poisoned, or the caller's context ended
\* while the process stops.
Submitted(e, new) ==
    ~poisoned /\ Apply(e, new) /\ UNCHANGED <<poisoned, disruptions>>
Refused ==
    UNCHANGED <<rows, poisoned, disruptions>>
Lost(e, new) ==
    /\ ~poisoned /\ Disrupt
    /\ \/ rows' = rows /\ poisoned' \in BOOLEAN
       \/ Apply(e, new) /\ poisoned' = TRUE
       \/ phase = "stopping" /\ Apply(e, new) /\ UNCHANGED poisoned
\* The same for a call under context.WithoutCancel.
LostHard(e, new) ==
    /\ ~poisoned /\ Disrupt
    /\ \/ rows' = rows /\ poisoned' \in BOOLEAN
       \/ Apply(e, new) /\ poisoned' = TRUE

-----------------------------------------------------------------------------
(* Ingress and the owner's operations.                                     *)

\* IngressWithMetadata: accepted only while serving, under the landing lock of
\* an available resident; then a worker is launched.
Ingress(e) ==
    /\ phase = "serving" /\ e \notin Accepted /\ Available(ResidentOf[e]) /\ ~poisoned
    /\ accepted' = Append(accepted, e)
    /\ \/ /\ launched' = launched \cup {ResidentOf[e]}
          /\ UNCHANGED <<poisoned, disruptions>>
       \/ /\ Disrupt /\ poisoned' = TRUE   \* committed, but the caller has an error
          /\ UNCHANGED launched
    /\ UNCHANGED <<erased, stale, unresolvable, status, selected, rows, phase,
                   unsupported, worker, archiver, archivedOk, moves>>

Move == moves < MaxMoves /\ moves' = moves + 1

\* SelectActiveResident refuses an archived resident.
SelectResident(r) ==
    /\ phase \in {"serving", "down", "stopped"} /\ archiver.at = "idle"
    /\ Move /\ selected # r /\ status[r] = "active"
    /\ selected' = r
    /\ UNCHANGED <<accepted, erased, stale, unresolvable, status, rows, processVars,
                   worker, archiver, archivedOk, disruptions>>

\* Event erasure does not wait for a run of the event to end.
EraseEvent(e) ==
    /\ ~poisoned /\ phase \in {"serving", "stopping"}
    /\ Move /\ e \in Accepted \ erased
    /\ erased' = erased \cup {e}
    /\ UNCHANGED <<accepted, stale, unresolvable, status, selected, rows, processVars,
                   worker, archiver, archivedOk, disruptions>>

\* A claim that the frozen inputs of e's run quote is erased.
EraseClaim(e) ==
    /\ ~poisoned /\ phase \in {"serving", "stopping"}
    /\ Move /\ HasRun(e) /\ Latest(e).no # 0 /\ e \notin stale
    /\ stale' = stale \cup {e}
    /\ UNCHANGED <<accepted, erased, unresolvable, status, selected, rows, processVars,
                   worker, archiver, archivedOk, disruptions>>

\* The bytes of a superseded revision of r, the one that held when its messages
\* so far were accepted, are gone (the state the recovery tests set up).
LoseRevision(r) ==
    LET lost == {e \in Accepted : ResidentOf[e] = r} IN
    /\ Disrupt /\ ~ lost \subseteq unresolvable
    /\ unresolvable' = unresolvable \cup lost
    /\ UNCHANGED <<accepted, erased, stale, status, selected, rows, processVars,
                   worker, archiver, archivedOk, moves>>

-----------------------------------------------------------------------------
(* The resident turn: processResidentLocked, processWork, callAndLand.     *)

\* What no step of a turn changes.
turnFrame == <<accepted, erased, stale, unresolvable, status, selected, phase,
               unsupported, archiver, archivedOk, moves>>
\* What a step of a turn that submits nothing leaves alone.
readFrame == <<turnFrame, rows, poisoned, disruptions>>

Become(r, w) == worker' = [worker EXCEPT ![r] = w]
Goto(r, point) == Become(r, [worker[r] EXCEPT !.at = point])

\* The turn ends, or goes on to the next discovery: handoffDialogueToFairMemory
\* decides by whether a memory item was worked.
Carry(r) == \E w \in {Idle, InTurn} : Become(r, w)

\* The messages of r that the scan reports, oldest first.
Attention(r) ==
    {i \in DOMAIN accepted : ResidentOf[accepted[i]] = r /\ NeedsAttention(accepted[i])}

PointFor(e) ==
    IF RecoveryReason(e) # "none" THEN "cancel"
    ELSE CASE WorkState(e) = "pending" -> "prepare"
           [] WorkState(e) = "running" -> "resume"
           [] OTHER -> "retry"

\* Mutant: the safety scan visits the selected resident only.
ScannedSelectedOnly(r) == selected = r

\* The safety scan visits the selected resident and, for cancellation, all the
\* others; it gives up before listing them when none is selected.
Scanned(r) == selected # None

\* DiscoverDialogueWork inside a turn that an ingress or the scan started.
Discover(r) ==
    /\ phase = "serving"
    /\ \/ worker[r].at = "turn" /\ UNCHANGED launched
       \/ worker[r].at = "idle" /\ r \in launched /\ launched' = launched \ {r}
       \/ worker[r].at = "idle" /\ r \notin launched /\ Scanned(r) /\ UNCHANGED launched
    /\ \/ Attention(r) = {} /\ Become(r, Idle)
       \/ \E i \in Attention(r) :
             /\ \A j \in Attention(r) : i <= j
             /\ LET e == accepted[i] IN
                Become(r, [at |-> PointFor(e), event |-> e,
                           no |-> IF HasRun(e) THEN Latest(e).no ELSE 0,
                           code |-> RecoveryReason(e)])
    /\ UNCHANGED readFrame

\* cancelDialogueWork for discovered work; resident_unselected ends the turn.
\* Without an envelope the turn fails, now and at every later scan.
TurnCancel(r) ==
    LET w == worker[r] IN
    /\ w.at = "cancel"
    /\ \/ /\ CancelAllowed(w.event, w.code) /\ Submitted(w.event, CancelRows(w.event, w.code))
          /\ IF w.code = "unselected" THEN Become(r, Idle) ELSE Carry(r)
       \/ /\ poisoned \/ ~CancelAllowed(w.event, w.code)
          /\ Refused /\ Become(r, Idle)
       \/ /\ CancelAllowed(w.event, w.code) /\ Lost(w.event, CancelRows(w.event, w.code))
          /\ Become(r, Idle)
    /\ UNCHANGED <<turnFrame, launched>>

\* A new run may be prepared for a present message of an available resident
\* that has none.  An existing run is read, not rewritten; the only run a
\* pending message can have got meanwhile is a synthetic one, which is refused.
PrepareAllowed(e) ==
    ~HasRun(e) /\ Available(ResidentOf[e]) /\ e \notin erased

\* preparePendingDialogue: PrepareDialogue commits the run with attempt 1.
TurnPrepare(r) ==
    LET w == worker[r] IN
    /\ w.at = "prepare"
    /\ \/ PrepareAllowed(w.event) /\ Submitted(w.event, <<Running(1)>>) /\ Goto(r, "reload")
       \/ (poisoned \/ ~PrepareAllowed(w.event)) /\ Refused /\ Become(r, Idle)
       \/ PrepareAllowed(w.event) /\ Lost(w.event, <<Running(1)>>) /\ Become(r, Idle)
    /\ UNCHANGED <<turnFrame, launched>>

\* A running attempt found by the scan is taken up only for the selection.
TurnResume(r) ==
    /\ worker[r].at = "resume"
    /\ \/ Available(r) /\ Goto(r, "reload")
       \/ ~Available(r) /\ Carry(r)
    /\ UNCHANGED <<readFrame, launched>>

\* The frozen envelope is validated before the attempt is started.
TurnRetry(r) ==
    LET w == worker[r]
        new == <<Running(w.no + 1)>> IN
    /\ w.at = "retry"
    /\ \/ w.event \in unsupported /\ Refused /\ Goto(r, "reject")
       \/ /\ w.event \notin unsupported /\ StartAllowed(w.event, w.no + 1)
          /\ Submitted(w.event, new) /\ Goto(r, "reload")
       \/ /\ w.event \notin unsupported /\ (poisoned \/ ~StartAllowed(w.event, w.no + 1))
          /\ Refused /\ Become(r, Idle)
       \/ /\ w.event \notin unsupported /\ StartAllowed(w.event, w.no + 1)
          /\ Lost(w.event, new) /\ Become(r, Idle)
    /\ UNCHANGED <<turnFrame, launched>>

\* repository.Generation, then dispatch unless the run ended meanwhile.
TurnReload(r) ==
    LET e == worker[r].event IN
    /\ worker[r].at = "reload"
    /\ \/ Latest(e).state # "running" /\ Carry(r)
       \/ Latest(e).state = "running" /\ e \in unsupported /\ Goto(r, "reject")
       \/ /\ Latest(e).state = "running" /\ e \notin unsupported
          /\ Become(r, [worker[r] EXCEPT !.at = "before", !.no = Latest(e).no])
    /\ UNCHANGED <<readFrame, launched>>

\* rejectGenerationEnvelopeAtResidentBoundary, under the landing lock: an
\* archived resident's runs belong to the archive.
RejectAllowed(e) ==
    HasRun(e) /\ (Latest(e).state = "running" \/ Retryable(Latest(e).code))

TurnReject(r) ==
    LET e == worker[r].event IN
    /\ worker[r].at = "reject"
    /\ \/ status[r] # "active" /\ Refused /\ Carry(r)
       \/ /\ status[r] = "active" /\ RejectAllowed(e)
          /\ Submitted(e, Close(e, "failed", "unsupported")) /\ Become(r, Idle)
       \/ /\ status[r] = "active" /\ (poisoned \/ ~RejectAllowed(e))
          /\ Refused /\ Become(r, Idle)
       \/ /\ status[r] = "active" /\ RejectAllowed(e)
          /\ LostHard(e, Close(e, "failed", "unsupported")) /\ Become(r, Idle)
    /\ UNCHANGED <<turnFrame, launched>>

\* stopDialogueAtResidentBoundary, before and after the provider call.  With
\* nobody selected ActiveResident fails, and the turn with it.
TurnBoundary(r) ==
    LET w == worker[r] IN
    /\ w.at \in {"before", "after"}
    /\ \/ Latest(w.event).state # "running" /\ Carry(r)
       \/ /\ Latest(w.event).state = "running" /\ ~Available(r)
          /\ Become(r, CASE status[r] # "active" -> [w EXCEPT !.at = "stop", !.code = "inactive"]
                         [] status[r] = "active" /\ selected # None ->
                                [w EXCEPT !.at = "stop", !.code = "unselected"]
                         [] OTHER -> Idle)
       \/ /\ Latest(w.event).state = "running" /\ Available(r)
          /\ Goto(r, IF w.at = "before" THEN "provider" ELSE "land")
    /\ UNCHANGED <<readFrame, launched>>

\* Its cancellation; the reason that counts may be another one by now.
TurnStop(r) ==
    LET w == worker[r] IN
    /\ w.at = "stop"
    /\ \/ /\ CancelAllowed(w.event, w.code) /\ Submitted(w.event, CancelRows(w.event, w.code))
          /\ Carry(r)
       \/ /\ poisoned \/ ~CancelAllowed(w.event, w.code)
          /\ Refused /\ Become(r, Idle)
       \/ /\ CancelAllowed(w.event, w.code)
          /\ LostHard(w.event, CancelRows(w.event, w.code)) /\ Become(r, Idle)
    /\ UNCHANGED <<turnFrame, launched>>

\* generator.Stream returns: text, a retryable error, a final one.  A stopped
\* process only sees its own cancellation, which is retryable.
TurnProvider(r) ==
    LET w == worker[r] IN
    /\ w.at = "provider"
    /\ \/ Goto(r, "after")
       \/ Become(r, [w EXCEPT !.at = "fail", !.code = "retryable"])
       \/ /\ phase # "stopping"
          /\ Become(r, [w EXCEPT !.at = "fail", !.code = "provider"])
    /\ UNCHANGED <<readFrame, launched>>

\* LandDialogue, up to three submissions of the same command.  A claim that
\* became ineligible cancels the attempt, any other refusal fails it; after a
\* poisoned Writer the attempt is left to the next start.
TurnLand(r) ==
    LET w == worker[r]
        new == <<Ended(w.no, "succeeded", "none")>>
        failed == [w EXCEPT !.at = "failLanding", !.code = "retryable"] IN
    /\ w.at = "land"
    /\ \/ LandAllowed(w.event, w.no) /\ Submitted(w.event, new) /\ Carry(r)
       \/ /\ ~poisoned /\ ~LandAllowed(w.event, w.no) /\ Refused
          /\ IF Available(r) /\ Terminates(w.event, w.no)
                   /\ w.event \in stale \ erased
             THEN Become(r, [w EXCEPT !.at = "cancelBound", !.code = "erased"])
             ELSE Become(r, failed)
       \/ poisoned /\ Refused /\ Become(r, Idle)
       \/ /\ LandAllowed(w.event, w.no) /\ Lost(w.event, new)
          /\ Become(r, IF poisoned' THEN Idle ELSE failed)
    /\ UNCHANGED <<turnFrame, launched>>

\* recordOutcome under the landing lock: nothing for an archived resident,
\* otherwise FailAttempt.  After a provider error the turn goes on, after a
\* landing failure it ends.
TurnFail(r) ==
    LET w == worker[r]
        new == <<Ended(w.no, "failed", w.code)>> IN
    /\ w.at \in {"fail", "failLanding"}
    /\ \/ status[r] # "active" /\ Refused /\ Carry(r)
       \/ /\ status[r] = "active" /\ Terminates(w.event, w.no) /\ Submitted(w.event, new)
          /\ IF w.at = "fail" THEN Carry(r) ELSE Become(r, Idle)
       \/ /\ status[r] = "active" /\ (poisoned \/ ~Terminates(w.event, w.no))
          /\ Refused /\ Become(r, Idle)
       \/ /\ status[r] = "active" /\ Terminates(w.event, w.no)
          /\ LostHard(w.event, new) /\ Become(r, Idle)
    /\ UNCHANGED <<turnFrame, launched>>

\* cancelDialogueForErasedSource: CancelDialogue bound to the attempt.
TurnCancelBound(r) ==
    LET w == worker[r]
        new == <<Ended(w.no, "cancelled", "erased")>> IN
    /\ w.at = "cancelBound"
    /\ \/ Terminates(w.event, w.no) /\ Submitted(w.event, new)
       \/ (poisoned \/ ~Terminates(w.event, w.no)) /\ Refused
       \/ Terminates(w.event, w.no) /\ LostHard(w.event, new)
    /\ Become(r, Idle)
    /\ UNCHANGED <<turnFrame, launched>>

\* A read under the run context fails: always while stopping, now and then
\* otherwise.  Nothing is recorded.
TurnAbandon(r) ==
    /\ worker[r].at \in {"turn", "cancel", "prepare", "resume", "retry", "reload"}
    /\ IF phase = "stopping" THEN UNCHANGED disruptions ELSE Disrupt
    /\ Become(r, Idle)
    /\ UNCHANGED <<turnFrame, launched, rows, poisoned>>

TurnStep(r) ==
    \/ Discover(r) \/ TurnCancel(r) \/ TurnPrepare(r) \/ TurnResume(r)
    \/ TurnRetry(r) \/ TurnReload(r) \/ TurnReject(r) \/ TurnBoundary(r)
    \/ TurnStop(r) \/ TurnProvider(r) \/ TurnLand(r) \/ TurnFail(r)
    \/ TurnCancelBound(r)

-----------------------------------------------------------------------------
(* ArchiveResident.  The boundary lock admits one at a time; the status       *)
(* transition is taken under the landing lock, the clean-up after it.         *)

\* What no step of the archive changes.
archiveFrame == <<accepted, erased, stale, unresolvable, phase, unsupported, launched, worker>>

\* The transition also clears the selection of the archived resident.  An
\* ambiguous answer is settled by reading the status back, but the call fails.
\* The Admin process archives while the server is down.
ArchiveResident(r) ==
    LET archived == /\ status' = [status EXCEPT ![r] = "archived"]
                    /\ selected' = IF selected = r THEN None ELSE selected
        cleanup == archiver' = [NoArchive EXCEPT !.at = "running", !.resident = r] IN
    /\ phase \in {"serving", "down", "stopped"} /\ archiver.at = "idle" /\ Move
    /\ \/ status[r] = "archived" /\ cleanup
          /\ UNCHANGED <<status, selected, poisoned, disruptions>>
       \/ /\ status[r] = "active" /\ ~poisoned /\ archived /\ cleanup
          /\ UNCHANGED <<poisoned, disruptions>>
       \/ /\ status[r] = "active" /\ ~poisoned /\ archived
          /\ Disrupt /\ poisoned' = TRUE /\ UNCHANGED archiver
    /\ UNCHANGED <<archiveFrame, rows, archivedOk>>

\* Mutant: the clean-up reports success without a second look.
OpenAfterArchiveNever(r) == {}

\* The messages of r the archive still has to close.
OpenAfterArchive(r) == {accepted[i] : i \in Attention(r)}

RunningOf(r) ==
    {e \in Event : ResidentOf[e] = r /\ HasRun(e) /\ Latest(e).state = "running"}

\* cancelArchivedResidentRunningAttempts: an error counts only while the attempt
\* is still running.
ArchiveRunning ==
    LET r == archiver.resident IN
    /\ archiver.at = "running"
    /\ \/ /\ RunningOf(r) = {}
          /\ archiver' = [archiver EXCEPT !.at = "dialogues"]
          /\ UNCHANGED <<rows, poisoned, disruptions>>
       \/ \E e \in RunningOf(r) :
             LET new == <<Ended(Latest(e).no, "cancelled", "inactive")>> IN
             \/ Submitted(e, new) /\ UNCHANGED archiver
             \/ poisoned /\ Refused /\ archiver' = NoArchive
             \/ /\ LostHard(e, new)
                /\ archiver' = IF rows' = rows THEN NoArchive ELSE archiver
    /\ UNCHANGED <<archiveFrame, status, selected, archivedOk, moves>>

\* cancelArchivedResidentDialogues discovers the next open message.
ArchiveDiscover ==
    LET r == archiver.resident IN
    /\ archiver.at = "dialogues"
    /\ \/ /\ OpenAfterArchive(r) = {}
          /\ archiver' = NoArchive /\ archivedOk' = archivedOk \cup {r}
       \/ /\ \E e \in OpenAfterArchive(r) :
                archiver' = [archiver EXCEPT !.at = "cancel", !.event = e,
                                             !.code = RecoveryReason(e)]
          /\ UNCHANGED archivedOk
    /\ UNCHANGED <<archiveFrame, status, selected, rows, poisoned, disruptions, moves>>

\* Its cancellation; a message erased since then, or without an envelope, makes
\* the archive call fail.
ArchiveCancel ==
    LET e == archiver.event
        new == CancelRows(e, archiver.code) IN
    /\ archiver.at = "cancel"
    /\ \/ /\ CancelAllowed(e, archiver.code) /\ Submitted(e, new)
          /\ archiver' = [archiver EXCEPT !.at = "dialogues", !.event = None, !.code = "none"]
       \/ (poisoned \/ ~CancelAllowed(e, archiver.code)) /\ Refused /\ archiver' = NoArchive
       \/ CancelAllowed(e, archiver.code) /\ LostHard(e, new) /\ archiver' = NoArchive
    /\ UNCHANGED <<archiveFrame, status, selected, archivedOk, moves>>

ArchiveStep == ArchiveRunning \/ ArchiveDiscover \/ ArchiveCancel

-----------------------------------------------------------------------------
(* The process: start, recovery, stop, crash.                              *)

ownerFrame == <<accepted, erased, stale, unresolvable, status, selected, archivedOk, moves>>

\* Prepare.  Another configuration may make frozen envelopes unsupported.
Start ==
    /\ phase \in {"down", "stopped"} /\ archiver.at = "idle"
    /\ phase' = "startRunning" /\ poisoned' = FALSE
    /\ unsupported' \in {{}, {e \in Event : HasRun(e)}}
    /\ UNCHANGED <<ownerFrame, rows, launched, worker, archiver, disruptions>>

RunningEvents == UNION {RunningOf(r) : r \in Resident}

\* Mutant: a recovery that only knows the retries that are still due.
MandatoryEventsEligible ==
    {e \in Accepted : RecoveryReason(e) # "none" /\ WorkState(e) = "retryPending"}

\* DiscoverMandatoryRecoveryWork: the open work that cannot be answered any
\* more, a retryable failure out of budget included.
MandatoryEvents ==
    {e \in Accepted :
        /\ RecoveryReason(e) # "none"
        /\ \/ ~HasRun(e)
           \/ Latest(e).state = "running"
           \/ Retryable(Latest(e).code)}

\* A failed submission ends the start or the shutdown with an error.
Recovered(e, new) ==
    \/ Submitted(e, new) /\ UNCHANGED phase
    \/ LostHard(e, new) /\ phase' = "down"
    \/ poisoned /\ Refused /\ phase' = "down"

\* TerminalizeRunning, in Prepare and at the end of Wait.
RecoverRunning ==
    /\ phase \in {"startRunning", "stopRunning"}
    /\ \/ /\ RunningEvents = {}
          /\ phase' = IF phase = "startRunning" THEN "startMandatory" ELSE "stopMandatory"
          /\ UNCHANGED <<rows, poisoned, disruptions>>
       \/ \E e \in RunningEvents :
             Recovered(e, <<Ended(Latest(e).no, "cancelled", "retryable")>>)
    /\ UNCHANGED <<ownerFrame, unsupported, launched, worker, archiver>>

\* StartWorkers needs a selected resident and launches its worker.
StartWorkers ==
    IF selected = None THEN phase' = "down" /\ UNCHANGED launched
    ELSE phase' = "serving" /\ launched' = {selected}

\* UnresolvedCandidates: what cancelMandatory passes over.
UnresolvedCandidates == {e \in MandatoryEvents : ~Resolvable(e)}

\* TerminalizeMandatory goes through the work and keeps the candidates; then the
\* start's readiness, which a candidate blocks, or the end of Wait, which takes
\* no notice of it.
RecoverMandatory ==
    /\ phase \in {"startMandatory", "stopMandatory"}
    /\ \/ /\ MandatoryEvents = {} /\ phase = "startMandatory"
          /\ StartWorkers
          /\ UNCHANGED <<rows, poisoned, disruptions>>
       \/ /\ MandatoryEvents = UnresolvedCandidates
          /\ \/ phase = "stopMandatory" /\ phase' = "stopped"
             \/ phase = "startMandatory" /\ UnresolvedCandidates # {} /\ phase' = "down"
          /\ UNCHANGED <<rows, poisoned, disruptions, launched>>
       \/ /\ \E e \in MandatoryEvents \ UnresolvedCandidates :
                Recovered(e, CancelRows(e, RecoveryReason(e)))
          /\ UNCHANGED launched
    /\ UNCHANGED <<ownerFrame, unsupported, worker, archiver>>

\* Stop closes acceptance and cancels the run context.
Stop ==
    /\ phase = "serving" /\ Disrupt
    /\ phase' = "stopping"
    /\ UNCHANGED <<ownerFrame, rows, poisoned, unsupported, launched, worker, archiver>>

\* Wait joins the workers; a turn launched and not begun ends at its first read.
Join ==
    /\ phase = "stopping" /\ archiver.at = "idle"
    /\ \A r \in Resident : worker[r].at = "idle"
    /\ phase' = "stopRunning" /\ launched' = {}
    /\ UNCHANGED <<ownerFrame, rows, poisoned, unsupported, worker, archiver, disruptions>>

\* The process dies; what is durable stays.
Crash ==
    /\ phase # "stopped" /\ (phase # "down" \/ archiver # NoArchive) /\ Disrupt
    /\ phase' = "down" /\ poisoned' = FALSE /\ unsupported' = {} /\ launched' = {}
    /\ worker' = [r \in Resident |-> Idle] /\ archiver' = NoArchive
    /\ UNCHANGED <<ownerFrame, rows>>

Recovery == RecoverRunning \/ RecoverMandatory

-----------------------------------------------------------------------------

Init ==
    /\ accepted = <<>> /\ erased = {} /\ stale = {} /\ unresolvable = {}
    /\ status = [r \in Resident |-> "active"]
    /\ selected \in Resident
    /\ rows = [e \in Event |-> <<>>]
    /\ phase = "down" /\ poisoned = FALSE /\ unsupported = {} /\ launched = {}
    /\ worker = [r \in Resident |-> Idle] /\ archiver = NoArchive
    /\ archivedOk = {} /\ disruptions = 0 /\ moves = 0

Next ==
    \/ \E e \in Event : Ingress(e) \/ EraseEvent(e) \/ EraseClaim(e)
    \/ \E r \in Resident : SelectResident(r) \/ ArchiveResident(r) \/ LoseRevision(r)
    \/ \E r \in Resident : TurnStep(r) \/ TurnAbandon(r)
    \/ ArchiveStep \/ Recovery
    \/ Start \/ Stop \/ Join \/ Crash

Spec == Init /\ [][Next]_vars

\* Turns, clean-up and recovery are goroutines with bounded provider calls, and
\* the safety scan is a ticker.  Nothing forces the owner or a restart.
FairSpec ==
    /\ Spec
    /\ \A r \in Resident : WF_vars(TurnStep(r))
    /\ WF_vars(ArchiveStep)
    /\ WF_vars(Recovery)

-----------------------------------------------------------------------------
(* Properties.                                                             *)

Terminal == {"succeeded", "failed", "cancelled"}

\* Every history alternates a running row and its terminal row with attempt
\* numbers 1, 2, ...; only a retryable end is followed by another attempt, and a
\* message cancelled before it had a run has its one synthetic attempt 0.
\* reduceGenerationOutcomeHistory refuses anything else at read time, for ever.
HistoryWellFormed ==
    \A e \in Event :
        LET h == rows[e] IN
        \/ Len(h) = 1 /\ h[1].no = 0 /\ h[1].state = "cancelled"
        \/ \A i \in 1 .. Len(h) :
              /\ h[i].no = (i + 1) \div 2
              /\ IF i % 2 = 1 THEN h[i].state = "running"
                 ELSE h[i].state \in Terminal
              /\ i % 2 = 0 /\ i < Len(h) => Retryable(h[i].code)

\* The boundary holds against what is in flight: an archived resident's history
\* gets nothing but cancellations, whatever its worker, a retry or a restart were
\* about to record, and a reply lands only for a message that is still there, of
\* a resident still active and selected, however long the provider took.
BoundaryHolds ==
    [][\A e \in Event : rows'[e] # rows[e] =>
          LET new == rows'[e][Len(rows'[e])] IN
          /\ status[ResidentOf[e]] = "archived" => new.state = "cancelled"
          /\ new.state = "succeeded" =>
                Available(ResidentOf[e]) /\ e \notin erased \cup stale]_vars

\* ArchiveResident returning nil means nothing of the resident is or will be
\* open, though its worker may still be inside a provider call.
ArchiveClosed ==
    \A e \in Accepted : ResidentOf[e] \in archivedOk => ~NeedsAttention(e)

\* Start and shutdown complete only with no running attempt, and what cannot be
\* answered any more is closed for good.  The one exception is a message that
\* never had a run and whose event-time revisions are gone: no run is invented
\* for it, a shutdown leaves it open, and the service does not open over it.
RecoveryComplete ==
    [][(phase \in {"startMandatory", "stopMandatory"} /\ phase' \in {"serving", "stopped"})
          => /\ RunningEvents = {}
             /\ \A e \in Accepted : RecoveryReason(e) # "none" =>
                    \/ HasRun(e) /\ ~Retryable(Latest(e).code)
                    \/ phase' = "stopped" /\ ~HasRun(e) /\ e \in unresolvable]_vars

\* The provider is never called beyond the retry budget, whatever recovery and
\* the archive add to the history between the calls.
ProviderBounded ==
    \A r \in Resident : worker[r].at = "provider" => worker[r].no <= MaxAttempts

\* While the process serves, with a healthy Writer and some resident selected,
\* every accepted message is closed: answered, failed or cancelled.  Nothing is
\* said once a message is owed a cancellation that cannot be built: its turn
\* fails each time, which holds up the later messages of its resident, and the
\* scan of the other residents stops at it.
ObligationCloses ==
    \A e \in Event :
        (e \in Accepted) ~> (\/ e \in Accepted /\ ~NeedsAttention(e)
                             \/ phase # "serving" \/ poisoned \/ selected = None
                             \/ UnresolvedCandidates # {})

=============================================================================
