--------------------------- MODULE CanonicalWriter ---------------------------
(***************************************************************************)
(* The Canonical Writer of internal/canonical: every durable mutation of   *)
(* the store goes through one bounded queue and one goroutine, which turns *)
(* a command into one row of canonical_commits or into nothing.            *)
(*                                                                         *)
(* A request is one call of Writer.Submit.  Its goroutine walks through    *)
(* the admission fence, the resident activity registry, the close gate and *)
(* the slot reservation before the queue send; each step is one critical   *)
(* section of the code, so all interleavings of submitters, the Writer     *)
(* goroutine, Close, PauseAdmissions and a crash are behaviours here.      *)
(***************************************************************************)
EXTENDS Integers, Sequences, FiniteSets

CONSTANTS
    Request,      \* submissions, one Submit call each
    Resident,     \* residents a command may be scoped to
    Global,       \* the scope of a command that names no resident
    ScopeOf,      \* the scope of every request
    Impatient,    \* requests whose caller's context may end (the others run
                  \* under context.WithoutCancel)
    Fence,        \* requests that answer RequiresResidentAdmissionFence
    None,         \* "no request"
    Capacity,     \* WriterOptions.QueueCapacity
    MaxSeq,       \* the largest CommitSeq (math.MaxInt64 in the code)
    MaxInstant,   \* the largest ledger time (math.MaxInt64 in the code)
    MaxCrashes    \* bound: process crashes in one behaviour

ASSUME CapacityAssumption == Capacity \in Nat \ {0}
ASSUME LimitAssumption ==
    /\ MaxSeq \in Nat
    /\ MaxInstant \in Nat
    /\ MaxCrashes \in Nat
ASSUME ScopeAssumption ==
    /\ Global \notin Resident
    /\ ScopeOf \in [Request -> Resident \cup {Global}]
    /\ Fence \subseteq {r \in Request : ScopeOf[r] # Global}
    /\ Impatient \subseteq Request
    /\ None \notin Request

VARIABLES
    pc,              \* where each Submit call stands
    answer,          \* what each Submit call returned
    response,        \* the one-slot response channel of each request
    cancelled,       \* requests whose context is done
    admissionOpen, admissionActive, admissionDrained,
    pauser,          \* the startup goroutine that pauses and resumes
    entry, contended, fences,           \* activityRegistry
    accept, pendingEnqueue, enqueueDone, \* the close gate
    slots, queue,    \* queueSlots and queue
    wpc, cur, meta, result,             \* the Writer goroutine
    head, poisoned,  \* the Writer's cached cursor and its poison
    ledger,          \* canonical_commits, the only durable state
    crashes          \* crashes so far

submitVars == <<pc, answer>>
admissionVars == <<admissionOpen, admissionActive, admissionDrained, pauser>>
activityVars == <<entry, contended, fences>>
gateVars == <<accept, pendingEnqueue, enqueueDone>>
queueVars == <<slots, queue>>
writerVars == <<response, wpc, cur, meta, result, head, poisoned, ledger>>
envVars == <<cancelled, crashes>>
vars == <<submitVars, admissionVars, activityVars, gateVars, queueVars,
          writerVars, envVars>>

\* The points of Submit between two critical sections.  The three "un" points
\* are the clean-up calls of an early return, in the order the code makes them.
SubmitPoint == {"idle", "admission", "accepted", "reserved",
                "slotted", "sent", "awaiting",
                "unreserve", "unregister", "unadmit", "returned"}

Answer == {"none", "committed", "nomutation", "failed", "paused", "fenced",
           "closed", "poisoned", "cancelled", "lost"}

WriterPoint == {"down", "select", "drain", "rest", "done",
                "execute", "uow", "commit", "rollback",
                "finish", "endAdmission", "respond"}

\* The Writer goroutine has a request in hand.
Handling == {"execute", "uow", "commit", "rollback",
             "finish", "endAdmission", "respond"}

\* A Canonical Commit head; seq 0 stands for Exists = false.
Cursor == [seq : 0 .. MaxSeq, at : 0 .. MaxInstant]
NoHead == [seq |-> 0, at |-> 0]

Commit == [seq : 1 .. MaxSeq, at : 0 .. MaxInstant, req : Request]

TypeOK ==
    /\ pc \in [Request -> SubmitPoint]
    /\ answer \in [Request -> Answer]
    /\ response \in [Request -> Answer]
    /\ cancelled \subseteq Request
    /\ admissionOpen \in BOOLEAN
    /\ admissionActive \in Int
    /\ admissionDrained \in BOOLEAN
    /\ pauser \in {"open", "waiting", "released", "stable", "gaveup"}
    /\ entry \in [Request -> {"none", "accepted", "queued", "inflight"}]
    /\ contended \subseteq Request
    /\ fences \in [Resident -> Request \cup {None}]
    /\ accept \in BOOLEAN
    /\ pendingEnqueue \in Int
    /\ enqueueDone \in BOOLEAN
    /\ slots \in Int
    /\ queue \in Seq(Request)
    /\ wpc \in WriterPoint
    /\ cur \in Request \cup {None}
    /\ meta \in Cursor
    /\ result \in Answer
    /\ head \in Cursor
    /\ poisoned \in BOOLEAN
    /\ ledger \in Seq(Commit)
    /\ crashes \in 0 .. MaxCrashes

-----------------------------------------------------------------------------
(* Critical sections shared by Submit and the Writer goroutine.            *)

\* activityRegistry.finish: forget the entry and lift the fence it owns.
ActivityFinish(r) ==
    /\ entry' = [entry EXCEPT ![r] = "none"]
    /\ contended' = contended \ {r}
    /\ fences' = [a \in Resident |-> IF fences[a] = r THEN None ELSE fences[a]]

\* endAdmission: the last active admission closes the drain channel, which
\* releases a PauseAdmissions that waits for it.
EndAdmission ==
    LET last == admissionDrained /\ admissionActive = 1 IN
    /\ admissionActive' = admissionActive - 1
    /\ admissionDrained' = (admissionDrained /\ ~last)
    /\ pauser' = IF last /\ pauser = "waiting" THEN "released" ELSE pauser
    /\ UNCHANGED admissionOpen

\* Mutant: a sender that leaves last never reports to a closed Writer.
FinishEnqueueSilent ==
    pendingEnqueue' = pendingEnqueue - 1 /\ UNCHANGED <<accept, enqueueDone>>

\* finishEnqueue: the last pending sender of a closed Writer closes enqueueDone.
FinishEnqueue ==
    /\ pendingEnqueue' = pendingEnqueue - 1
    /\ enqueueDone' = (enqueueDone \/ (~accept /\ pendingEnqueue = 1))
    /\ UNCHANGED accept

-----------------------------------------------------------------------------
(* Submit.                                                                 *)

Go(r, point) == pc' = [pc EXCEPT ![r] = point] /\ UNCHANGED answer

\* Leave towards the return, through the clean-up at point.
Leave(r, point, a) ==
    /\ pc' = [pc EXCEPT ![r] = point]
    /\ answer' = [answer EXCEPT ![r] = a]

\* Submit validates the command, reads the poison and calls beginAdmission,
\* which refuses while the runtime fence is closed.  The poison read is a
\* shortcut: execute reads it again.
SubmitAdmission(r) ==
    /\ wpc # "down" /\ pc[r] = "idle"
    /\ \/ /\ poisoned
          /\ Leave(r, "returned", "poisoned")
          /\ UNCHANGED admissionActive
       \/ /\ ~poisoned /\ admissionOpen
          /\ Go(r, "admission")
          /\ admissionActive' = admissionActive + 1
       \/ /\ ~poisoned /\ ~admissionOpen
          /\ Leave(r, "returned", "paused")
          /\ UNCHANGED admissionActive
    /\ UNCHANGED <<admissionOpen, admissionDrained, pauser, activityVars,
                   gateVars, queueVars, writerVars, envVars>>

\* Mutant: admit does not look for commands that are already active.
ContendedNever(r) == FALSE

\* A fence command finds another command of its resident active.
Contended(r) ==
    r \in Fence /\ \E o \in Request : entry[o] # "none" /\ ScopeOf[o] = ScopeOf[r]

\* activityRegistry.admit: a closed resident refuses; a fence command closes
\* its resident and remembers whether it was contended.  A global command
\* has no entry.
SubmitAdmit(r) ==
    /\ pc[r] = "admission"
    /\ LET a == ScopeOf[r] IN
       \/ /\ a = Global
          /\ Go(r, "accepted")
          /\ UNCHANGED activityVars
       \/ /\ a # Global /\ fences[a] = None
          /\ Go(r, "accepted")
          /\ entry' = [entry EXCEPT ![r] = "accepted"]
          /\ contended' = contended \cup {x \in {r} : Contended(x)}
          /\ fences' = IF r \in Fence THEN [fences EXCEPT ![a] = r] ELSE fences
       \/ /\ a # Global /\ fences[a] # None
          /\ Leave(r, "unadmit", "fenced")
          /\ UNCHANGED activityVars
    /\ UNCHANGED <<admissionVars, gateVars, queueVars, writerVars, envVars>>

\* reserveEnqueue: linearizes acceptance with Close.
SubmitReserve(r) ==
    /\ pc[r] = "accepted"
    /\ \/ /\ accept
          /\ Go(r, "reserved")
          /\ pendingEnqueue' = pendingEnqueue + 1
       \/ /\ ~accept
          /\ Leave(r, "unregister", "closed")
          /\ UNCHANGED pendingEnqueue
    /\ UNCHANGED <<admissionVars, activityVars, accept, enqueueDone, queueVars,
                   writerVars, envVars>>

SlotFree == slots < Capacity

\* The select on queueSlots and the caller's context.
SubmitSlot(r) ==
    /\ pc[r] = "reserved"
    /\ \/ SlotFree /\ slots' = slots + 1 /\ Go(r, "slotted")
       \/ r \in cancelled /\ Leave(r, "unreserve", "cancelled") /\ UNCHANGED slots
    /\ UNCHANGED <<admissionVars, activityVars, gateVars, queue, writerVars, envVars>>

\* transition(activity, activityQueued), then writer.queue <- request.  The
\* reserved slot guarantees there is room; the mark is read only by the fence
\* check of the request itself, so marking and sending are one step.
SubmitSend(r) ==
    /\ pc[r] = "slotted"
    /\ Len(queue) < Capacity
    /\ entry' = IF entry[r] = "accepted" THEN [entry EXCEPT ![r] = "queued"] ELSE entry
    /\ queue' = Append(queue, r)
    /\ Go(r, "sent")
    /\ UNCHANGED <<admissionVars, contended, fences, gateVars, slots, writerVars, envVars>>

SubmitSent(r) ==
    /\ pc[r] = "sent"
    /\ FinishEnqueue
    /\ Go(r, "awaiting")
    /\ UNCHANGED <<admissionVars, activityVars, queueVars, writerVars, envVars>>

\* The final select: the Writer's response, or the caller gives up while the
\* request stays queued.
SubmitAwait(r) ==
    /\ pc[r] = "awaiting"
    /\ \/ response[r] # "none" /\ Leave(r, "returned", response[r])
       \/ r \in cancelled /\ Leave(r, "returned", "cancelled")
    /\ UNCHANGED <<admissionVars, activityVars, gateVars, queueVars, writerVars, envVars>>

\* The clean-up of an early return: finishEnqueue, activities.finish,
\* endAdmission, as far back as the call had come.
SubmitUnreserve(r) ==
    /\ pc[r] = "unreserve"
    /\ FinishEnqueue
    /\ Go(r, "unregister")
    /\ UNCHANGED <<admissionVars, activityVars, queueVars, writerVars, envVars>>

SubmitUnregister(r) ==
    /\ pc[r] = "unregister"
    /\ ActivityFinish(r)
    /\ Go(r, "unadmit")
    /\ UNCHANGED <<admissionVars, gateVars, queueVars, writerVars, envVars>>

SubmitUnadmit(r) ==
    /\ pc[r] = "unadmit"
    /\ EndAdmission
    /\ Go(r, "returned")
    /\ UNCHANGED <<activityVars, gateVars, queueVars, writerVars, envVars>>

\* The caller's context is cancelled or times out.
Cancel(r) ==
    /\ r \in Impatient /\ pc[r] \notin {"idle", "returned"}
    /\ cancelled' = cancelled \cup {r}
    /\ UNCHANGED <<submitVars, admissionVars, activityVars, gateVars, queueVars,
                   writerVars, crashes>>

Submit(r) ==
    \/ SubmitAdmission(r) \/ SubmitAdmit(r)
    \/ SubmitReserve(r) \/ SubmitSlot(r) \/ SubmitSend(r)
    \/ SubmitSent(r) \/ SubmitAwait(r)
    \/ SubmitUnreserve(r) \/ SubmitUnregister(r) \/ SubmitUnadmit(r)

-----------------------------------------------------------------------------
(* PauseAdmissions, ResumeAdmissions, Close.                               *)

\* Mutant: PauseAdmissions does not wait for what was admitted before it.
PauseResultUndrained == "stable"

PauseResult == IF admissionActive = 0 THEN "stable" ELSE "waiting"

\* PauseAdmissions closes the fence; it returns at once when nothing is
\* active, otherwise it waits on the drain channel.
PauseAdmissions ==
    /\ wpc # "down" /\ pauser = "open"
    /\ admissionOpen' = FALSE
    /\ admissionDrained' = (admissionActive # 0)
    /\ pauser' = PauseResult
    /\ UNCHANGED <<submitVars, admissionActive, activityVars, gateVars, queueVars,
                   writerVars, envVars>>

\* The wait ends with the channel, or with the startup context: then the
\* fence stays closed and startup fails.
PauseReturns ==
    /\ \/ pauser = "released" /\ pauser' = "stable"
       \/ pauser = "waiting" /\ pauser' = "gaveup"
    /\ UNCHANGED <<submitVars, admissionOpen, admissionActive, admissionDrained,
                   activityVars, gateVars, queueVars, writerVars, envVars>>

\* ResumeAdmissions refuses while an admission is active.
ResumeAdmissions ==
    /\ pauser = "stable"
    /\ admissionActive = 0
    /\ admissionOpen' = TRUE
    /\ admissionDrained' = FALSE
    /\ pauser' = "open"
    /\ UNCHANGED <<submitVars, admissionActive, activityVars, gateVars, queueVars,
                   writerVars, envVars>>

\* Mutant: Close ignores submissions on their way to the queue.
NoPendingSenderAssumed == TRUE

NoPendingSender == pendingEnqueue = 0

\* Close, once: no new reservation, and enqueueDone closes now if no accepted
\* submission is still on its way to the queue.
Close ==
    /\ wpc # "down" /\ accept
    /\ accept' = FALSE
    /\ enqueueDone' = NoPendingSender
    /\ UNCHANGED <<submitVars, admissionVars, activityVars, pendingEnqueue, queueVars,
                   writerVars, envVars>>

-----------------------------------------------------------------------------
(* The Writer goroutine: run, drain, handle, execute.                      *)

\* run and drain: a closed Writer moves from its main select to the drain,
\* from the drain to the fixed remainder once no sender is left, and from
\* there to done.  A select with two ready cases picks either.
WriterAdvance ==
    /\ \/ wpc = "select" /\ ~accept /\ wpc' = "drain"
       \/ wpc = "drain" /\ enqueueDone /\ wpc' = "rest"
       \/ wpc = "rest" /\ queue = <<>> /\ wpc' = "done"
    /\ UNCHANGED <<submitVars, admissionVars, activityVars, gateVars, queueVars,
                   response, cur, meta, result, head, poisoned, ledger, envVars>>

\* handle: take the request, give its slot back (it panics without one) and
\* mark it in flight.  Afterwards the goroutine is back at "select"; accept and
\* enqueueDone never reopen, so the loop it came from is reached again at once.
WriterReceive ==
    /\ wpc \in {"select", "drain", "rest"}
    /\ queue # <<>> /\ slots > 0
    /\ cur' = Head(queue)
    /\ queue' = Tail(queue)
    /\ slots' = slots - 1
    /\ entry' = IF entry[cur'] = "queued" THEN [entry EXCEPT ![cur'] = "inflight"] ELSE entry
    /\ wpc' = "execute"
    /\ UNCHANGED <<submitVars, admissionVars, contended, fences, gateVars, response,
                   meta, result, head, poisoned, ledger, envVars>>

Finish(a) == wpc' = "finish" /\ result' = a

\* Mutant: the wall clock is trusted.
NextMetadataWallClock(clock) == [seq |-> head.seq + 1, at |-> clock]

\* nextMetadata: the next cursor, and a ledger time that never repeats or
\* goes back even when the wall clock does.
NextMetadata(clock) ==
    [seq |-> head.seq + 1,
     at  |-> IF head.seq # 0 /\ clock <= head.at THEN head.at + 1 ELSE clock]

\* Mutant: only the cursor is checked, the ledger time overflows.
CursorOverflowSeqOnly(clock) == head.seq = MaxSeq

\* The cursor or the ledger time is at the end of its range.
CursorOverflow(clock) ==
    \/ head.seq = MaxSeq
    \/ head.seq # 0 /\ clock <= head.at /\ head.at = MaxInstant

\* Begin inserts the canonical_commits row in its own transaction; commit_seq is
\* UNIQUE there.
CursorUnused(seq) == \A i \in DOMAIN ledger : ledger[i].seq # seq

\* execute up to Begin.
WriterBegin ==
    /\ wpc = "execute"
    /\ \/ poisoned /\ Finish("poisoned") /\ UNCHANGED meta
       \/ ~poisoned /\ cur \in cancelled /\ Finish("cancelled") /\ UNCHANGED meta
       \/ ~poisoned /\ cur \notin cancelled
          /\ Finish("failed") /\ UNCHANGED meta    \* overflow, or Begin fails
       \/ /\ ~poisoned /\ cur \notin cancelled
          /\ \E clock \in 0 .. MaxInstant :
                ~CursorOverflow(clock) /\ meta' = NextMetadata(clock)
          /\ CursorUnused(meta'.seq)
          /\ wpc' = "uow"
          /\ UNCHANGED result
    /\ UNCHANGED <<submitVars, admissionVars, activityVars, gateVars, queueVars,
                   response, cur, head, poisoned, ledger, envVars>>

\* RequireCurrentResidentFence, called by a fence command inside its UoW.
HoldsFence(r) ==
    /\ entry[r] = "inflight"
    /\ fences[ScopeOf[r]] = r
    /\ r \notin contended
    /\ \A o \in Request \ {r} : entry[o] # "none" => ScopeOf[o] # ScopeOf[r]

\* command.Execute: success, ErrNoMutation, an error, or a panic (or a UoW that
\* is not the one asked for) that is
\* recovered after the rollback and poisons the Writer.
WriterExecute ==
    /\ wpc = "uow"
    /\ \/ /\ cur \in Fence => HoldsFence(cur)
          /\ wpc' = "commit"
          /\ UNCHANGED <<result, poisoned>>
       \/ wpc' = "rollback" /\ result' \in {"nomutation", "failed"} /\ UNCHANGED poisoned
       \/ Finish("poisoned") /\ poisoned' = TRUE
    /\ UNCHANGED <<submitVars, admissionVars, activityVars, gateVars, queueVars,
                   response, cur, meta, head, ledger, envVars>>

\* uow.Rollback; its failure poisons the Writer.
WriterRollback ==
    /\ wpc = "rollback"
    /\ \/ Finish(result) /\ UNCHANGED poisoned
       \/ Finish("poisoned") /\ poisoned' = TRUE
    /\ UNCHANGED <<submitVars, admissionVars, activityVars, gateVars, queueVars,
                   response, cur, meta, head, ledger, envVars>>

\* Mutant: a commit error is an error like any other.
CommitErrorTrusted == Finish("failed") /\ UNCHANGED poisoned

\* A commit error is ambiguous: stop all later writes.
CommitError == Finish("poisoned") /\ poisoned' = TRUE

\* What a commit that reports an error leaves behind: a cancelled transaction
\* context and the boundary check before the commit leave nothing, the
\* boundary check after it leaves the row.
AfterCommitError(row) == {ledger, Append(ledger, row)}

\* uow.Commit.
WriterCommit ==
    /\ wpc = "commit"
    /\ LET row == [seq |-> meta.seq, at |-> meta.at, req |-> cur] IN
       \/ /\ ledger' = Append(ledger, row)
          /\ head' = meta
          /\ Finish("committed")
          /\ UNCHANGED poisoned
       \/ /\ ledger' \in AfterCommitError(row)
          /\ CommitError
          /\ UNCHANGED head
    /\ UNCHANGED <<submitVars, admissionVars, activityVars, gateVars, queueVars,
                   response, cur, meta, envVars>>

\* The deferred calls of handle, then the response.
WriterFinish ==
    /\ wpc = "finish"
    /\ ActivityFinish(cur)
    /\ wpc' = "endAdmission"
    /\ UNCHANGED <<submitVars, admissionVars, gateVars, queueVars, response, cur,
                   meta, result, head, poisoned, ledger, envVars>>

WriterEndAdmission ==
    /\ wpc = "endAdmission"
    /\ EndAdmission
    /\ wpc' = "respond"
    /\ UNCHANGED <<submitVars, activityVars, gateVars, queueVars, response, cur,
                   meta, result, head, poisoned, ledger, envVars>>

WriterRespond ==
    /\ wpc = "respond"
    /\ response' = [response EXCEPT ![cur] = result]
    /\ wpc' = "select" /\ cur' = None /\ meta' = NoHead /\ result' = "none"
    /\ UNCHANGED <<submitVars, admissionVars, activityVars, gateVars, queueVars,
                   head, poisoned, ledger, envVars>>

Writer ==
    \/ WriterAdvance \/ WriterReceive \/ WriterBegin
    \/ WriterExecute \/ WriterRollback \/ WriterCommit
    \/ WriterFinish \/ WriterEndAdmission \/ WriterRespond

-----------------------------------------------------------------------------
(* A crash loses everything but the ledger; OpenWriter reloads the head.   *)

\* LoadHead: the row with the largest commit_seq.
LoadHead ==
    IF ledger = <<>> THEN NoHead
    ELSE LET last == CHOOSE i \in DOMAIN ledger :
                         \A j \in DOMAIN ledger : ledger[j].seq <= ledger[i].seq
         IN [seq |-> ledger[last].seq, at |-> ledger[last].at]

Crash ==
    /\ wpc # "down"
    /\ crashes < MaxCrashes
    /\ crashes' = crashes + 1
    /\ pc' = [r \in Request |-> IF pc[r] = "idle" THEN "idle" ELSE "returned"]
    /\ answer' = [r \in Request |->
           IF pc[r] # "idle" /\ answer[r] = "none" THEN "lost" ELSE answer[r]]
    /\ response' = [r \in Request |-> "none"] /\ cancelled' = {}
    /\ admissionOpen' = TRUE /\ admissionActive' = 0 /\ admissionDrained' = FALSE
    /\ pauser' = "open"
    /\ entry' = [r \in Request |-> "none"] /\ contended' = {}
    /\ fences' = [a \in Resident |-> None]
    /\ accept' = TRUE /\ pendingEnqueue' = 0 /\ enqueueDone' = FALSE
    /\ slots' = 0 /\ queue' = <<>>
    /\ wpc' = "down" /\ cur' = None /\ meta' = NoHead /\ result' = "none"
    /\ head' = NoHead /\ poisoned' = FALSE
    /\ UNCHANGED ledger

OpenWriter ==
    /\ wpc = "down"
    /\ wpc' = "select"
    /\ head' = LoadHead
    /\ UNCHANGED <<submitVars, admissionVars, activityVars, gateVars, queueVars,
                   response, cur, meta, result, poisoned, ledger, envVars>>

Init ==
    /\ pc = [r \in Request |-> "idle"]
    /\ answer = [r \in Request |-> "none"]
    /\ response = [r \in Request |-> "none"] /\ cancelled = {}
    /\ admissionOpen = TRUE /\ admissionActive = 0 /\ admissionDrained = FALSE
    /\ pauser = "open"
    /\ entry = [r \in Request |-> "none"] /\ contended = {}
    /\ fences = [a \in Resident |-> None]
    /\ accept = TRUE /\ pendingEnqueue = 0 /\ enqueueDone = FALSE
    /\ slots = 0 /\ queue = <<>>
    /\ wpc = "down" /\ cur = None /\ meta = NoHead /\ result = "none"
    /\ head = NoHead /\ poisoned = FALSE
    /\ ledger = <<>>
    /\ crashes = 0

Next ==
    \/ \E r \in Request : Submit(r) \/ Cancel(r)
    \/ PauseAdmissions \/ PauseReturns \/ ResumeAdmissions
    \/ Close
    \/ Writer
    \/ Crash
    \/ OpenWriter

Spec == Init /\ [][Next]_vars

\* The Go scheduler runs every runnable goroutine; callers, operators and
\* crashes owe nothing.  A select whose cases are both ready picks at random,
\* so the Writer goroutine does not ignore its stop channel for ever.
Fairness ==
    /\ \A r \in Request : WF_vars(pc[r] # "idle" /\ Submit(r))
    /\ WF_vars(Writer)
    /\ WF_vars(OpenWriter)
    /\ WF_vars(pauser = "released" /\ PauseReturns)

FairSpec == Spec /\ Fairness

-----------------------------------------------------------------------------
(* Properties.                                                             *)

Committed == {ledger[i].req : i \in DOMAIN ledger}

CursorsAscend ==
    \A i \in DOMAIN ledger :
        /\ ledger[i].seq = i
        /\ i > 1 => ledger[i - 1].at < ledger[i].at

CursorsInRange ==
    \A i \in DOMAIN ledger : ledger[i].seq <= MaxSeq /\ ledger[i].at <= MaxInstant

\* Commit cursors are dense, ledger times strictly increase, and both stay
\* within their integers, across wall clock regressions, ambiguous commits and
\* restarts and up to the last cursor and instant (nextMetadata, poison,
\* LoadHead).
LedgerOrdered == CursorsAscend /\ CursorsInRange

\* While the Writer is up and not poisoned its cached head is the head of the
\* ledger: no commit is ever missing from the cursor the next one builds on.
HeadCurrent ==
    wpc # "down" /\ ~poisoned =>
        /\ head.seq = Len(ledger)
        /\ ledger # <<>> => head.at = ledger[Len(ledger)].at

\* A fence command that found its resident quiet keeps it quiet until it is
\* finished: no other command of that resident is accepted, queued or in
\* flight, and only such a command comes to its commit (activityRegistry.admit,
\* requireExclusive): an erasure never races a write of the same resident.
FenceExclusive ==
    /\ \A a \in Resident : fences[a] # None /\ fences[a] \notin contended =>
           \A o \in Request \ {fences[a]} : ScopeOf[o] = a => entry[o] = "none"
    /\ wpc = "commit" /\ cur \in Fence =>
           fences[ScopeOf[cur]] = cur /\ cur \notin contended

InQueue(r) == \E i \in DOMAIN queue : queue[i] = r

\* A request between beginAdmission and endAdmission.
Active(r) ==
    \/ pc[r] \in {"admission", "accepted", "reserved", "slotted",
                   "unreserve", "unregister", "unadmit"}
    \/ InQueue(r)
    \/ cur = r /\ wpc \in Handling \ {"respond"}

\* Between a successful PauseAdmissions and ResumeAdmissions the ledger does
\* not move: the startup sequence evaluates readiness on one stable head.
PausedLedgerStable ==
    [][(pauser \in {"released", "stable"}) => ledger' = ledger]_vars

\* Every Submit call returns, whatever Close and PauseAdmissions do.
SubmitReturns == \A r \in Request : pc[r] # "idle" ~> pc[r] = "returned"

\* A closed Writer finishes its drain.
ClosedWriterStops == ~accept ~> (wpc = "done" \/ accept)

-----------------------------------------------------------------------------
(* What callers may rely on: the Writer implements the atomic ledger.      *)

Reply(a) ==
    CASE a = "none" -> "pending"
      [] a = "committed" -> "committed"
      [] a \in {"nomutation", "failed", "paused", "fenced", "closed"} -> "rejected"
      [] a \in {"poisoned", "cancelled", "lost"} -> "unknown"

Atomic == INSTANCE AtomicLedger WITH
    log <- ledger, reply <- [r \in Request |-> Reply(answer[r])]

\* The Writer refines AtomicLedger: a caller told "committed" has its row, a
\* caller told of a rejection will never have one, only an ambiguous answer
\* leaves both open, and no request commits twice.
RefinesLedger == Atomic!Spec

=============================================================================
