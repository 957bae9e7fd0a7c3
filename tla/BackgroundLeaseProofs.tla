------------------------ MODULE BackgroundLeaseProofs ------------------------
(***************************************************************************)
(* Leases, preemption and resident boundaries for any residents, any       *)
(* number of messages, calls, boundaries and failures.                     *)
(***************************************************************************)
EXTENDS BackgroundLease, TLAPS

\* Who holds the landing lock is between taking and releasing it.
WorkerLocked == {"beginSelected", "beginRegister", "beginSubmit",
                 "landCheck", "landSelected", "landSubmit"}
IngressLocked == {"checked", "submit", "preempt", "cancel"}

LockOf(r) ==
    /\ lock[r] = "worker" <=> worker[r].at \in WorkerLocked
    /\ lock[r] = "ingress" <=> ingress[r].at \in IngressLocked
    /\ boundary.at = "selectEnd" /\ r \in boundary.targets => lock[r] = "boundary"

\* What bounds the counters: a message that is on its way still has room.
BoundOf(r) ==
    /\ open[r] <= msgs[r]
    /\ epoch[r] <= MaxMessages + bounds
    /\ ingress[r].at \in {"waiting", "checked", "submit"} => msgs[r] < MaxMessages
    /\ ingress[r].at \in {"waiting", "checked", "submit", "preempt"} =>
           epoch[r] < MaxMessages + bounds

\* A clean proof holds while its epoch is current and no accepted message is
\* still on its way to advance it.
CleanOf(r) ==
    /\ clean[r] <= epoch[r]
    /\ clean[r] = epoch[r] /\ ingress[r].at # "preempt" => open[r] = 0

\* Work that was admitted has a call left.
RoomFor(r, w) ==
    w.at \in {"captureStage", "captureRegister", "stage", "beginSelected",
              "beginRegister", "register"} => calls[r] < MaxCalls

\* A worker that read the selection under the landing lock still finds it when
\* it submits.
SelectionFor(r, w) ==
    /\ w.at \in {"landSelected", "landSubmit"} /\ boundary.at = "selectLock"
           /\ selected = r => r \in boundary.targets
    /\ w.at = "landSubmit" => Available(r)
    /\ w.at \in {"beginRegister", "beginSubmit"} =>
           status[r] = "active" /\ (selected = r \/ omitted)

\* The lease has been captured, and it has been registered.
Captured(w) ==
    \/ w.at = "admit" /\ w.fair
    \/ w.at \in {"stage", "beginSelected", "beginRegister", "begun", "register", "provider",
                 "check", "land", "landCheck"}
Registered == {"beginSubmit", "begun", "provider", "check", "land", "landCheck"}

\* An epoch stands for the messages accepted before it: while it is current, and
\* no accepted message is still on its way to advance it, none came since.
EpochFor(r, w) ==
    /\ w.epoch <= epoch[r]
    /\ w.at \in {"scan", "proof"} => ~w.fair
    /\ w.epoch = epoch[r] /\ ingress[r].at # "preempt" =>
           /\ Captured(w) => msgs[r] = w.seen
           /\ w.at = "proof" => open[r] = 0
    /\ w.at \in Registered /\ ~w.fair /\ w.epoch = epoch[r] => clean[r] = epoch[r]
    /\ w.at \in {"beginSubmit", "landSelected", "landSubmit"} =>
           msgs[r] = w.seen /\ (~w.fair => open[r] = 0)

\* The live call is in the slot, where whoever advances the epoch finds it.
CallFor(r, w) ==
    w.at \in {"beginSubmit", "begun", "provider"} =>
        /\ w.call # 0 /\ slot[r] = w.call
        /\ w.epoch # epoch[r] =>
               w.cancelled \/ ingress[r] = [at |-> "cancel", call |-> w.call]

\* What a worker w of r may rely on at the point it has come to.
Promise(r, w) == RoomFor(r, w) /\ SelectionFor(r, w) /\ EpochFor(r, w) /\ CallFor(r, w)

LeaseOf(r) ==
    /\ LockOf(r) /\ BoundOf(r) /\ CleanOf(r) /\ Promise(r, worker[r])
    /\ worker[r].at # "idle" => r \in work

\* A selection that has not committed yet fences the resident it takes the
\* selection from, or all of them.
BoundaryInv ==
    /\ boundary.at # "idle" => boundary.of \in Resident
    /\ boundary.at = "selectLock" /\ selected \notin boundary.targets \cup {None} =>
           selectionBlocked /\ omitted
    /\ \A r \in cleaning : status[r] = "archived"

\* An archive that has not committed yet fences its own resident only.
ArchiveInv ==
    boundary.at = "archiveLock" /\ ~unread /\ selected # None =>
        /\ ~selectionBlocked
        /\ selected \in blocked => selected = boundary.of /\ ~boundary.was

\* The inductive invariant.
LeaseInv ==
    TypeOK /\ (\A r \in Resident : LeaseOf(r)) /\ BoundaryInv /\ ArchiveInv /\ FenceReleased

USE LeaseAssumption

-----------------------------------------------------------------------------
(* The worker's record.                                                    *)

LEMMA RestingType ==
    Resting \in Worker /\ NoIngress \in Ingress /\ NoBoundary \in Boundary
  BY DEF Resting, Worker, WorkerPoint, Epoch, Call, NoIngress, Ingress, NoBoundary, Boundary

LEMMA BecomeOne ==
    ASSUME TypeOK, NEW r \in Resident, NEW w \in Worker, Become(r, w)
    PROVE  /\ worker' \in [Resident -> Worker] /\ worker'[r] = w
           /\ \A q \in Resident \ {r} : worker'[q] = worker[q]
  BY DEF TypeOK, Become

LEMMA GotoOne ==
    ASSUME TypeOK, NEW r \in Resident, NEW point \in WorkerPoint, Goto(r, point)
    PROVE  /\ worker' \in [Resident -> Worker]
           /\ worker'[r] = [worker[r] EXCEPT !.at = point]
           /\ \A q \in Resident \ {r} : worker'[q] = worker[q]
<1>1. worker[r] \in Worker BY DEF TypeOK
<1>2. [worker[r] EXCEPT !.at = point] \in Worker BY <1>1 DEF Worker
<1> QED BY <1>2, BecomeOne DEF Goto

\* A cancellation changes nothing but the flag, and of the calls it names only.
LEMMA CancelOne ==
    ASSUME TypeOK, NEW victim \in [Resident -> Call], CancelCalls(victim)
    PROVE  /\ worker' \in [Resident -> Worker]
           /\ \A r \in Resident :
                /\ worker'[r].at = worker[r].at /\ worker'[r].epoch = worker[r].epoch
                /\ worker'[r].fair = worker[r].fair /\ worker'[r].call = worker[r].call
                /\ worker'[r].seen = worker[r].seen
                /\ worker[r].cancelled => worker'[r].cancelled
                /\ victim[r] # 0 /\ worker[r].call = victim[r] => worker'[r].cancelled
<1>1. \A r \in Resident : worker[r] \in Worker BY DEF TypeOK
<1>2. \A r \in Resident : [worker[r] EXCEPT !.cancelled = TRUE] \in Worker
  BY <1>1 DEF Worker
<1> QED BY <1>1, <1>2 DEF CancelCalls, Worker

-----------------------------------------------------------------------------
(* Steps of one resident's worker and of its ingress.                      *)

Global == <<status, selected, boundary, cleaning, unread, omitted, bounds, blocked,
            selectionBlocked>>

\* The types of what a resident has, spelled out.
LEMMA Typed ==
    ASSUME TypeOK, NEW r \in Resident
    PROVE  /\ worker[r] \in Worker /\ ingress[r] \in Ingress
           /\ worker[r].at \in WorkerPoint /\ worker[r].epoch \in Nat
           /\ worker[r].fair \in BOOLEAN /\ worker[r].cancelled \in BOOLEAN
           /\ worker[r].call \in Nat /\ worker[r].seen \in Nat
           /\ epoch[r] \in Nat /\ clean[r] \in Int
           /\ msgs[r] \in Nat /\ open[r] \in Nat /\ slot[r] \in Nat /\ calls[r] \in Nat
           /\ bounds \in Nat
  BY DEF TypeOK, Worker, Epoch, Call, Unproved

\* A step of r's worker or ingress: only r's entries change.
Others(r) ==
    \A q \in Resident \ {r} :
        /\ worker'[q] = worker[q] /\ ingress'[q] = ingress[q] /\ lock'[q] = lock[q]
        /\ open'[q] = open[q] /\ msgs'[q] = msgs[q] /\ epoch'[q] = epoch[q]
        /\ clean'[q] = clean[q] /\ slot'[q] = slot[q] /\ calls'[q] = calls[q]

\* Such a step keeps the invariant when it keeps the types and r's part.
LEMMA LocalKeeps ==
    ASSUME LeaseInv, NEW r \in Resident, UNCHANGED Global, work \subseteq work', TypeOK',
           Others(r), LeaseOf(r)'
    PROVE  LeaseInv'
<1>1. ASSUME NEW q \in Resident \ {r} PROVE LeaseOf(q)'
  <2>1. LeaseOf(q) BY DEF LeaseInv
  <2>2. LockOf(q)' /\ BoundOf(q)' /\ CleanOf(q)'
    BY <2>1 DEF LeaseOf, LockOf, BoundOf, CleanOf, Others, Global
  <2>3. RoomFor(q, worker[q])' /\ SelectionFor(q, worker[q])' /\ CallFor(q, worker[q])'
    BY <2>1 DEF LeaseOf, Promise, RoomFor, SelectionFor, CallFor, Available, Others, Global
  <2>4. EpochFor(q, worker[q])' BY <2>1 DEF LeaseOf, Promise, EpochFor, Captured, Others
  <2>5. (worker[q].at # "idle" => q \in work)' BY <2>1 DEF LeaseOf, Others
  <2> QED BY <2>2, <2>3, <2>4, <2>5 DEF LeaseOf, Promise
<1>2. BoundaryInv' BY DEF LeaseInv, BoundaryInv, Global
<1>3. ArchiveInv' BY DEF LeaseInv, ArchiveInv, Global
<1>4. FenceReleased' BY DEF LeaseInv, FenceReleased, Global
<1> QED BY <1>1, <1>2, <1>3, <1>4 DEF LeaseInv

\* What a step does to the landing lock of r when its worker becomes w.
LockMoves(r, w) ==
    \/ lock'[r] = lock[r] /\ (w.at \in WorkerLocked <=> worker[r].at \in WorkerLocked)
    \/ lock[r] = "free" /\ lock'[r] = "worker" /\ w.at \in WorkerLocked
    \/ worker[r].at \in WorkerLocked /\ lock'[r] = "free" /\ w.at \notin WorkerLocked

\* A step that only moves the worker keeps r's part when the worker may rely on
\* what the new point promises.
LEMMA MoveKeeps ==
    ASSUME LeaseInv, NEW r \in Resident, NEW w \in Worker, worker'[r] = w,
           UNCHANGED Global, work \subseteq work', w.at # "idle" => r \in work',
           ingress'[r] = ingress[r], msgs'[r] = msgs[r], open'[r] = open[r],
           epoch'[r] = epoch[r], clean'[r] = clean[r], calls'[r] = calls[r],
           w.at \in {"beginSubmit", "begun", "provider"} => slot'[r] = slot[r],
           LockMoves(r, w), Promise(r, w)
    PROVE  LeaseOf(r)'
<1>1. LeaseOf(r) BY DEF LeaseInv
<1>2. LockOf(r)'
  BY <1>1 DEF LeaseOf, LockOf, LockMoves, WorkerLocked, IngressLocked, Global
<1>3. BoundOf(r)' /\ CleanOf(r)' BY <1>1 DEF LeaseOf, BoundOf, CleanOf, Global
<1>4. RoomFor(r, worker[r])' /\ SelectionFor(r, worker[r])' /\ CallFor(r, worker[r])'
  BY DEF Promise, RoomFor, SelectionFor, CallFor, Available, Global
<1>5. EpochFor(r, worker[r])' BY DEF Promise, EpochFor, Captured
<1> QED BY <1>2, <1>3, <1>4, <1>5 DEF LeaseOf, Promise

\* A worker that rests relies on nothing.
LEMMA RestPromise ==
    ASSUME LeaseInv, NEW r \in Resident
    PROVE  Promise(r, Resting) /\ Resting.at = "idle" /\ Resting \in Worker
<1>1. Resting.at = "idle" /\ Resting.epoch = 0 /\ epoch[r] \in Nat
  BY Typed DEF Resting, LeaseInv
<1> QED BY <1>1, RestingType
        DEF Promise, RoomFor, SelectionFor, EpochFor, CallFor, Captured, Registered

-----------------------------------------------------------------------------
(* The worker.                                                             *)

\* A step that reads, and takes or releases the landing lock at most.
LEMMA ReadKeeps ==
    ASSUME LeaseInv, NEW r \in Resident, NEW w \in Worker, Become(r, w), UNCHANGED readFrame,
           UNCHANGED lock \/ Take(r, "worker") \/ Free(r),
           LockMoves(r, w), Promise(r, w), w.at # "idle" => worker[r].at # "idle"
    PROVE  LeaseInv'
<1>1. TypeOK /\ (worker[r].at # "idle" => r \in work) BY DEF LeaseInv, LeaseOf
<1>2. /\ worker' \in [Resident -> Worker] /\ worker'[r] = w
      /\ \A q \in Resident \ {r} : worker'[q] = worker[q]
  BY <1>1, BecomeOne
<1>3. /\ lock' \in [Resident -> {"free", "worker", "ingress", "boundary"}]
      /\ \A q \in Resident \ {r} : lock'[q] = lock[q]
  BY <1>1 DEF TypeOK, Take, Free
<1>4. UNCHANGED <<Global, work, ingress, msgs, open, epoch, clean, slot, calls, attempt,
                  poisoned, faults>>
  BY DEF readFrame, workerFrame, boundVars, fenceVars, Global
<1>5. TypeOK' BY <1>1, <1>2, <1>3, <1>4 DEF TypeOK, Global
<1>6. Others(r) BY <1>2, <1>3, <1>4 DEF Others
<1>7. LeaseOf(r)' BY <1>1, <1>2, <1>4, MoveKeeps
<1> QED BY <1>4, <1>5, <1>6, <1>7, LocalKeeps

\* The same for a step to another point, and for one to the end of the turn.
LEMMA GotoKeeps ==
    ASSUME LeaseInv, NEW r \in Resident, NEW point \in WorkerPoint, Goto(r, point),
           UNCHANGED readFrame, UNCHANGED lock \/ Take(r, "worker") \/ Free(r),
           worker[r].at # "idle",
           LockMoves(r, [worker[r] EXCEPT !.at = point]),
           Promise(r, [worker[r] EXCEPT !.at = point])
    PROVE  LeaseInv'
<1>1. worker[r] \in Worker BY DEF LeaseInv, TypeOK
<1>2. [worker[r] EXCEPT !.at = point] \in Worker BY <1>1 DEF Worker
<1> QED BY <1>2, ReadKeeps DEF Goto

LEMMA RestKeeps ==
    ASSUME LeaseInv, NEW r \in Resident, Become(r, Resting), UNCHANGED readFrame,
           \/ UNCHANGED lock /\ worker[r].at \notin WorkerLocked
           \/ Free(r) /\ worker[r].at \in WorkerLocked
    PROVE  LeaseInv'
<1>1. Promise(r, Resting) /\ Resting.at = "idle" /\ Resting \in Worker BY RestPromise
<1>2. LockMoves(r, Resting)
  BY <1>1 DEF LockMoves, WorkerLocked, Free, LeaseInv, TypeOK
<1> QED BY <1>1, <1>2, ReadKeeps

\* The fields of a worker that only moved on.
LEMMA PointFields ==
    ASSUME TypeOK, NEW r \in Resident, NEW point
    PROVE  LET w == [worker[r] EXCEPT !.at = point] IN
           /\ w.at = point /\ w.epoch = worker[r].epoch /\ w.fair = worker[r].fair
           /\ w.call = worker[r].call /\ w.cancelled = worker[r].cancelled
           /\ w.seen = worker[r].seen
  BY DEF TypeOK, Worker

LEMMA FairCaptureKeeps ==
    ASSUME LeaseInv, NEW r \in Resident, FairCapture(r) PROVE LeaseInv'
<1> DEFINE w == [worker[r] EXCEPT !.at = "admit", !.fair = TRUE,
                                  !.epoch = epoch[r], !.seen = msgs[r]]
<1>1. /\ TypeOK /\ worker[r] \in Worker /\ epoch[r] \in Epoch /\ epoch[r] \in Nat
      /\ msgs[r] \in 0 .. MaxMessages
  BY Typed DEF LeaseInv, TypeOK
<1>2. /\ w \in Worker /\ w.at = "admit" /\ w.epoch = epoch[r] /\ w.seen = msgs[r]
  BY <1>1 DEF Worker, WorkerPoint
<1>3. Become(r, w) /\ worker[r].at = "fair" /\ UNCHANGED <<readFrame, lock>>
  BY DEF FairCapture
<1> HIDE DEF w
<1>4. Promise(r, w)
  BY <1>1, <1>2 DEF Promise, RoomFor, SelectionFor, EpochFor, CallFor, Captured, Registered
<1>5. LockMoves(r, w) BY <1>2, <1>3 DEF LockMoves, WorkerLocked
<1> QED BY <1>2, <1>3, <1>4, <1>5, ReadKeeps

LEMMA NormalCaptureKeeps ==
    ASSUME LeaseInv, NEW r \in Resident, NormalCapture(r) PROVE LeaseInv'
<1> DEFINE w == [worker[r] EXCEPT
                   !.at = IF @ = "captureStage" THEN "stage" ELSE "register",
                   !.epoch = epoch[r], !.seen = msgs[r]]
<1>1. /\ TypeOK /\ worker[r] \in Worker /\ epoch[r] \in Epoch /\ epoch[r] \in Nat
      /\ msgs[r] \in 0 .. MaxMessages /\ RoomFor(r, worker[r])
  BY Typed DEF LeaseInv, TypeOK, LeaseOf, Promise
<1>2. /\ w \in Worker /\ w.at \in {"stage", "register"} /\ w.epoch = epoch[r]
      /\ w.seen = msgs[r]
  BY <1>1 DEF Worker, WorkerPoint
<1>3. /\ Become(r, w) /\ worker[r].at \in {"captureStage", "captureRegister"}
      /\ UNCHANGED <<readFrame, lock>>
  BY DEF NormalCapture
<1> HIDE DEF w
<1>4. Promise(r, w)
  BY <1>1, <1>2, <1>3
     DEF Promise, RoomFor, SelectionFor, EpochFor, CallFor, Captured, Registered
<1>5. LockMoves(r, w) BY <1>2, <1>3 DEF LockMoves, WorkerLocked
<1> QED BY <1>2, <1>3, <1>4, <1>5, ReadKeeps

LEMMA WorkAdmitKeeps ==
    ASSUME LeaseInv, NEW r \in Resident, WorkAdmit(r) PROVE LeaseInv'
<1>1. /\ TypeOK /\ Promise(r, worker[r]) /\ worker[r].at = "admit"
      /\ UNCHANGED <<readFrame, lock>>
  BY DEF LeaseInv, LeaseOf, WorkAdmit
<1>2. ASSUME NEW point \in {"register", "stage", "captureRegister", "captureStage"},
             Goto(r, point), calls[r] < MaxCalls,
             point \in {"register", "stage"} => worker[r].fair
      PROVE  LeaseInv'
  <2> DEFINE w == [worker[r] EXCEPT !.at = point]
  <2>1. /\ w.at = point /\ w.epoch = worker[r].epoch /\ w.fair = worker[r].fair
        /\ w.seen = worker[r].seen
    BY <1>1, PointFields
  <2> HIDE DEF w
  <2>2. Promise(r, w)
    BY <1>1, <1>2, <2>1
       DEF Promise, RoomFor, SelectionFor, EpochFor, CallFor, Captured, Registered
  <2>3. LockMoves(r, w) BY <1>1, <2>1 DEF LockMoves, WorkerLocked
  <2> QED BY <1>1, <1>2, <2>2, <2>3, GotoKeeps DEF w, WorkerPoint
<1>3. CASE Become(r, Resting) BY <1>1, <1>3, RestKeeps DEF WorkerLocked
<1> QED BY <1>2, <1>3 DEF WorkAdmit

LEMMA BeginLockKeeps ==
    ASSUME LeaseInv, NEW r \in Resident, BeginLock(r) PROVE LeaseInv'
<1>1. /\ TypeOK /\ LeaseOf(r) /\ BoundaryInv /\ worker[r].at = "stage"
      /\ UNCHANGED readFrame
  BY DEF LeaseInv, BeginLock
<1>2. CASE Goto(r, "beginSelected") /\ Take(r, "worker")
  <2> DEFINE w == [worker[r] EXCEPT !.at = "beginSelected"]
  <2>1. /\ w.at = "beginSelected" /\ w.epoch = worker[r].epoch /\ w.fair = worker[r].fair
        /\ w.call = worker[r].call /\ w.seen = worker[r].seen
    BY <1>1, PointFields
  <2> HIDE DEF w
  <2>2. Promise(r, w)
    BY <1>1, <1>2, <2>1
       DEF LeaseOf, Promise, RoomFor, SelectionFor, EpochFor, CallFor, Captured, Registered
  <2>3. LockMoves(r, w)
    BY <1>1, <1>2, <2>1 DEF LockMoves, WorkerLocked, Take, Free, TypeOK
  <2> QED BY <1>1, <1>2, <2>2, <2>3, GotoKeeps DEF w, WorkerPoint
<1> QED BY <1>2 DEF BeginLock

LEMMA BeginSelectedKeeps ==
    ASSUME LeaseInv, NEW r \in Resident, BeginSelected(r) PROVE LeaseInv'
<1>1. /\ TypeOK /\ LeaseOf(r) /\ BoundaryInv /\ worker[r].at = "beginSelected"
      /\ UNCHANGED readFrame
  BY DEF LeaseInv, BeginSelected
<1>2. CASE Available(r) /\ Goto(r, "beginRegister") /\ UNCHANGED lock
  <2> DEFINE w == [worker[r] EXCEPT !.at = "beginRegister"]
  <2>1. /\ w.at = "beginRegister" /\ w.epoch = worker[r].epoch /\ w.fair = worker[r].fair
        /\ w.call = worker[r].call /\ w.seen = worker[r].seen
    BY <1>1, PointFields
  <2> HIDE DEF w
  <2>2. Promise(r, w)
    BY <1>1, <1>2, <2>1
       DEF LeaseOf, Promise, RoomFor, SelectionFor, EpochFor, CallFor, Captured, Registered, Available
  <2>3. LockMoves(r, w)
    BY <1>1, <1>2, <2>1 DEF LockMoves, WorkerLocked, Take, Free, TypeOK
  <2> QED BY <1>1, <1>2, <2>2, <2>3, GotoKeeps DEF w, WorkerPoint
<1>3. CASE Become(r, Resting) /\ Free(r)
  BY <1>1, <1>3, RestKeeps DEF WorkerLocked
<1> QED BY <1>2, <1>3 DEF BeginSelected

LEMMA ProviderKeeps ==
    ASSUME LeaseInv, NEW r \in Resident, Provider(r) PROVE LeaseInv'
<1>1. /\ TypeOK /\ LeaseOf(r) /\ BoundaryInv /\ worker[r].at = "provider"
      /\ UNCHANGED readFrame
  BY DEF LeaseInv, Provider
<1>2. CASE Goto(r, "check") /\ UNCHANGED lock
  <2> DEFINE w == [worker[r] EXCEPT !.at = "check"]
  <2>1. /\ w.at = "check" /\ w.epoch = worker[r].epoch /\ w.fair = worker[r].fair
        /\ w.call = worker[r].call /\ w.seen = worker[r].seen
    BY <1>1, PointFields
  <2> HIDE DEF w
  <2>2. Promise(r, w)
    BY <1>1, <1>2, <2>1
       DEF LeaseOf, Promise, RoomFor, SelectionFor, EpochFor, CallFor, Captured, Registered
  <2>3. LockMoves(r, w)
    BY <1>1, <1>2, <2>1 DEF LockMoves, WorkerLocked, Take, Free, TypeOK
  <2> QED BY <1>1, <1>2, <2>2, <2>3, GotoKeeps DEF w, WorkerPoint
<1> QED BY <1>2 DEF Provider

LEMMA CheckKeeps ==
    ASSUME LeaseInv, NEW r \in Resident, Check(r) PROVE LeaseInv'
<1>1. /\ TypeOK /\ LeaseOf(r) /\ BoundaryInv /\ worker[r].at = "check"
      /\ UNCHANGED readFrame
  BY DEF LeaseInv, Check
<1>2. CASE Goto(r, "fail") /\ UNCHANGED lock
  <2> DEFINE w == [worker[r] EXCEPT !.at = "fail"]
  <2>1. /\ w.at = "fail" /\ w.epoch = worker[r].epoch /\ w.fair = worker[r].fair
        /\ w.call = worker[r].call /\ w.seen = worker[r].seen
    BY <1>1, PointFields
  <2> HIDE DEF w
  <2>2. Promise(r, w)
    BY <1>1, <1>2, <2>1
       DEF LeaseOf, Promise, RoomFor, SelectionFor, EpochFor, CallFor, Captured, Registered
  <2>3. LockMoves(r, w)
    BY <1>1, <1>2, <2>1 DEF LockMoves, WorkerLocked, Take, Free, TypeOK
  <2> QED BY <1>1, <1>2, <2>2, <2>3, GotoKeeps DEF w, WorkerPoint
<1>3. CASE Goto(r, "land") /\ UNCHANGED lock
  <2> DEFINE w == [worker[r] EXCEPT !.at = "land"]
  <2>1. /\ w.at = "land" /\ w.epoch = worker[r].epoch /\ w.fair = worker[r].fair
        /\ w.call = worker[r].call /\ w.seen = worker[r].seen
    BY <1>1, PointFields
  <2> HIDE DEF w
  <2>2. Promise(r, w)
    BY <1>1, <1>3, <2>1
       DEF LeaseOf, Promise, RoomFor, SelectionFor, EpochFor, CallFor, Captured, Registered
  <2>3. LockMoves(r, w)
    BY <1>1, <1>3, <2>1 DEF LockMoves, WorkerLocked, Take, Free, TypeOK
  <2> QED BY <1>1, <1>3, <2>2, <2>3, GotoKeeps DEF w, WorkerPoint
<1> QED BY <1>2, <1>3 DEF Check

LEMMA LandLockKeeps ==
    ASSUME LeaseInv, NEW r \in Resident, LandLock(r) PROVE LeaseInv'
<1>1. /\ TypeOK /\ LeaseOf(r) /\ BoundaryInv /\ worker[r].at = "land"
      /\ UNCHANGED readFrame
  BY DEF LeaseInv, LandLock
<1>2. CASE Goto(r, "landCheck") /\ Take(r, "worker")
  <2> DEFINE w == [worker[r] EXCEPT !.at = "landCheck"]
  <2>1. /\ w.at = "landCheck" /\ w.epoch = worker[r].epoch /\ w.fair = worker[r].fair
        /\ w.call = worker[r].call /\ w.seen = worker[r].seen
    BY <1>1, PointFields
  <2> HIDE DEF w
  <2>2. Promise(r, w)
    BY <1>1, <1>2, <2>1
       DEF LeaseOf, Promise, RoomFor, SelectionFor, EpochFor, CallFor, Captured, Registered
  <2>3. LockMoves(r, w)
    BY <1>1, <1>2, <2>1 DEF LockMoves, WorkerLocked, Take, Free, TypeOK
  <2> QED BY <1>1, <1>2, <2>2, <2>3, GotoKeeps DEF w, WorkerPoint
<1> QED BY <1>2 DEF LandLock

\* A current lease: no message came since the epoch was captured, and normal
\* work still has its clean proof.
LEMMA LandCheckKeeps ==
    ASSUME LeaseInv, NEW r \in Resident, LandCheck(r) PROVE LeaseInv'
<1>1. /\ TypeOK /\ LeaseOf(r) /\ BoundaryInv /\ worker[r].at = "landCheck"
      /\ UNCHANGED readFrame
  BY DEF LeaseInv, LandCheck
<1>2. CASE LeaseCurrent(r, worker[r]) /\ Goto(r, "landSelected") /\ UNCHANGED lock
  <2> DEFINE w == [worker[r] EXCEPT !.at = "landSelected"]
  <2>1. /\ w.at = "landSelected" /\ w.epoch = worker[r].epoch /\ w.fair = worker[r].fair
        /\ w.call = worker[r].call /\ w.seen = worker[r].seen
    BY <1>1, PointFields
  <2> HIDE DEF w
  <2>2. Promise(r, w)
    BY <1>1, <1>2, <2>1
       DEF LeaseOf, Promise, RoomFor, SelectionFor, EpochFor, CallFor, Captured, Registered,
           LeaseCurrent, CleanOf, LockOf, WorkerLocked, IngressLocked, BoundaryInv
  <2>3. LockMoves(r, w)
    BY <1>1, <1>2, <2>1 DEF LockMoves, WorkerLocked, Take, Free, TypeOK
  <2> QED BY <1>1, <1>2, <2>2, <2>3, GotoKeeps DEF w, WorkerPoint
<1>3. CASE Goto(r, "fail") /\ Free(r)
  <2> DEFINE w == [worker[r] EXCEPT !.at = "fail"]
  <2>1. /\ w.at = "fail" /\ w.epoch = worker[r].epoch /\ w.fair = worker[r].fair
        /\ w.call = worker[r].call /\ w.seen = worker[r].seen
    BY <1>1, PointFields
  <2> HIDE DEF w
  <2>2. Promise(r, w)
    BY <1>1, <1>3, <2>1
       DEF LeaseOf, Promise, RoomFor, SelectionFor, EpochFor, CallFor, Captured, Registered
  <2>3. LockMoves(r, w)
    BY <1>1, <1>3, <2>1 DEF LockMoves, WorkerLocked, Take, Free, TypeOK
  <2> QED BY <1>1, <1>3, <2>2, <2>3, GotoKeeps DEF w, WorkerPoint
<1> QED BY <1>2, <1>3 DEF LandCheck

LEMMA LandSelectedKeeps ==
    ASSUME LeaseInv, NEW r \in Resident, LandSelected(r) PROVE LeaseInv'
<1>1. /\ TypeOK /\ LeaseOf(r) /\ BoundaryInv /\ worker[r].at = "landSelected"
      /\ UNCHANGED readFrame
  BY DEF LeaseInv, LandSelected
<1>2. CASE Available(r) /\ Goto(r, "landSubmit") /\ UNCHANGED lock
  <2> DEFINE w == [worker[r] EXCEPT !.at = "landSubmit"]
  <2>1. /\ w.at = "landSubmit" /\ w.epoch = worker[r].epoch /\ w.fair = worker[r].fair
        /\ w.call = worker[r].call /\ w.seen = worker[r].seen
    BY <1>1, PointFields
  <2> HIDE DEF w
  <2>2. Promise(r, w)
    BY <1>1, <1>2, <2>1
       DEF LeaseOf, Promise, RoomFor, SelectionFor, EpochFor, CallFor, Captured, Registered
  <2>3. LockMoves(r, w)
    BY <1>1, <1>2, <2>1 DEF LockMoves, WorkerLocked, Take, Free, TypeOK
  <2> QED BY <1>1, <1>2, <2>2, <2>3, GotoKeeps DEF w, WorkerPoint
<1>3. CASE Goto(r, "fail") /\ Free(r)
  <2> DEFINE w == [worker[r] EXCEPT !.at = "fail"]
  <2>1. /\ w.at = "fail" /\ w.epoch = worker[r].epoch /\ w.fair = worker[r].fair
        /\ w.call = worker[r].call /\ w.seen = worker[r].seen
    BY <1>1, PointFields
  <2> HIDE DEF w
  <2>2. Promise(r, w)
    BY <1>1, <1>3, <2>1
       DEF LeaseOf, Promise, RoomFor, SelectionFor, EpochFor, CallFor, Captured, Registered
  <2>3. LockMoves(r, w)
    BY <1>1, <1>3, <2>1 DEF LockMoves, WorkerLocked, Take, Free, TypeOK
  <2> QED BY <1>1, <1>3, <2>2, <2>3, GotoKeeps DEF w, WorkerPoint
<1> QED BY <1>2, <1>3 DEF LandSelected

\* A step that also writes: one entry of each table at most, and no message.
LEMMA WriteKeeps ==
    ASSUME LeaseInv, NEW r \in Resident, NEW w \in Worker, Become(r, w),
           UNCHANGED <<Global, ingress, msgs, epoch>>, UNCHANGED lock \/ Free(r),
           work' = work \cup {r} \/ UNCHANGED work,
           NEW o \in 0 .. MaxMessages, open' = [open EXCEPT ![r] = o],
           NEW c \in Epoch \cup {Unproved}, clean' = [clean EXCEPT ![r] = c],
           NEW l \in Call, slot' = [slot EXCEPT ![r] = l],
           NEW n \in Call, calls' = [calls EXCEPT ![r] = n],
           NEW t \in {"none", "running", "ended"}, attempt' = [attempt EXCEPT ![r] = t],
           poisoned' \in BOOLEAN, faults' \in 0 .. MaxFaults,
           LeaseOf(r)'
    PROVE  LeaseInv'
<1>1. TypeOK BY DEF LeaseInv
<1>2. /\ worker' \in [Resident -> Worker] /\ worker'[r] = w
      /\ \A q \in Resident \ {r} : worker'[q] = worker[q]
  BY <1>1, BecomeOne
<1>3. /\ lock' \in [Resident -> {"free", "worker", "ingress", "boundary"}]
      /\ \A q \in Resident \ {r} : lock'[q] = lock[q]
  BY <1>1 DEF TypeOK, Free
<1>4. /\ open' \in [Resident -> 0 .. MaxMessages] /\ clean' \in [Resident -> Epoch \cup {Unproved}]
      /\ slot' \in [Resident -> Call] /\ calls' \in [Resident -> Call]
      /\ attempt' \in [Resident -> {"none", "running", "ended"}]
      /\ \A q \in Resident \ {r} :
           open'[q] = open[q] /\ clean'[q] = clean[q] /\ slot'[q] = slot[q] /\ calls'[q] = calls[q]
  BY <1>1 DEF TypeOK
<1>5. work' \subseteq Resident /\ work \subseteq work' BY <1>1 DEF TypeOK
<1>6. TypeOK' BY <1>1, <1>2, <1>3, <1>4, <1>5 DEF TypeOK, Global
<1>7. Others(r) BY <1>2, <1>3, <1>4 DEF Others
<1> QED BY <1>5, <1>6, <1>7, LocalKeeps

\* An entry that is not written.
LEMMA Untouched ==
    ASSUME TypeOK, NEW r \in Resident
    PROVE  /\ open[r] \in 0 .. MaxMessages /\ open = [open EXCEPT ![r] = open[r]]
           /\ clean[r] \in Epoch \cup {Unproved} /\ clean = [clean EXCEPT ![r] = clean[r]]
           /\ slot[r] \in Call /\ slot = [slot EXCEPT ![r] = slot[r]]
           /\ calls[r] \in Call /\ calls = [calls EXCEPT ![r] = calls[r]]
           /\ attempt[r] \in {"none", "running", "ended"}
           /\ attempt = [attempt EXCEPT ![r] = attempt[r]]
           /\ poisoned \in BOOLEAN /\ faults \in 0 .. MaxFaults
           /\ Fault => faults' \in 0 .. MaxFaults
  BY DEF TypeOK, Fault

\* A turn or an attempt ends: whatever it wrote about the attempt, the worker
\* rests and the slot may be emptied.
LEMMA EndKeeps ==
    ASSUME LeaseInv, NEW r \in Resident, Become(r, Resting),
           UNCHANGED <<workerFrame, open, epoch, clean, blocked, selectionBlocked, calls>>,
           \/ UNCHANGED lock /\ worker[r].at \notin WorkerLocked
           \/ Free(r) /\ worker[r].at \in WorkerLocked,
           Finish(r) \/ UNCHANGED slot,
           NEW t \in {"none", "running", "ended"}, attempt' = [attempt EXCEPT ![r] = t],
           poisoned' \in BOOLEAN, UNCHANGED faults \/ Fault
    PROVE  LeaseInv'
<1>1. TypeOK BY DEF LeaseInv
<1>2. Promise(r, Resting) /\ Resting.at = "idle" /\ Resting \in Worker BY RestPromise
<1>3. LockMoves(r, Resting) BY <1>1, <1>2 DEF LockMoves, WorkerLocked, Free, TypeOK
<1>4. UNCHANGED <<Global, ingress, msgs, epoch, open, clean, calls, work>>
  BY DEF workerFrame, boundVars, Global
<1>5. worker'[r] = Resting BY <1>1, <1>2, BecomeOne
<1>6. LeaseOf(r)' BY <1>2, <1>3, <1>4, <1>5, MoveKeeps
<1>7. PICK l \in Call : slot' = [slot EXCEPT ![r] = l]
  BY <1>1, Untouched DEF Finish, Call
<1>8. faults' \in 0 .. MaxFaults BY <1>1, Untouched
<1>9. /\ open[r] \in 0 .. MaxMessages /\ open' = [open EXCEPT ![r] = open[r]]
      /\ clean[r] \in Epoch \cup {Unproved} /\ clean' = [clean EXCEPT ![r] = clean[r]]
      /\ calls[r] \in Call /\ calls' = [calls EXCEPT ![r] = calls[r]]
  BY <1>1, <1>4, Untouched
<1> QED BY <1>2, <1>4, <1>6, <1>7, <1>8, <1>9, WriteKeeps

LEMMA TurnStartKeeps ==
    ASSUME LeaseInv, NEW r \in Resident, TurnStart(r) PROVE LeaseInv'
<1> DEFINE w == [Resting EXCEPT !.at = "scan", !.epoch = epoch[r]]
<1>1. TypeOK /\ epoch[r] \in Epoch /\ epoch[r] \in Nat BY Typed DEF LeaseInv, TypeOK
<1>2. w \in Worker /\ w.at = "scan" /\ w.epoch = epoch[r] /\ ~w.fair
  BY <1>1, RestingType DEF Resting, Worker, WorkerPoint
<1>3. /\ Become(r, w) /\ worker[r].at = "idle" /\ work' = work \cup {r}
      /\ UNCHANGED <<Global, ingress, msgs, epoch, open, clean, slot, calls, attempt,
                     poisoned, faults, lock>>
  BY DEF TurnStart, boundVars, fenceVars, Global
<1> HIDE DEF w
<1>4. Promise(r, w)
  BY <1>1, <1>2 DEF Promise, RoomFor, SelectionFor, EpochFor, CallFor, Captured, Registered
<1>5. LockMoves(r, w) BY <1>2, <1>3 DEF LockMoves, WorkerLocked
<1>6. worker'[r] = w BY <1>1, <1>2, <1>3, BecomeOne
<1>7. LeaseOf(r)' BY <1>2, <1>3, <1>4, <1>5, <1>6, MoveKeeps
<1> QED BY <1>1, <1>2, <1>3, <1>7, Untouched, WriteKeeps

LEMMA TurnScanKeeps ==
    ASSUME LeaseInv, NEW r \in Resident, TurnScan(r) PROVE LeaseInv'
<1>1. /\ TypeOK /\ LeaseOf(r) /\ worker[r].at = "scan" /\ worker[r] \in Worker
      /\ UNCHANGED <<Global, work, ingress, msgs, epoch, clean, slot, calls, attempt,
                     poisoned, faults, lock>>
  BY DEF LeaseInv, TypeOK, TurnScan, workerFrame, boundVars, fenceVars, Global
<1>2. PICK point \in {"scan", "fair", "proof"}, o \in 0 .. MaxMessages :
         /\ Become(r, [worker[r] EXCEPT !.at = point])
         /\ open' = [open EXCEPT ![r] = o] /\ o <= open[r]
         /\ point = "proof" => o = 0
  <2>1. CASE open[r] > 0 /\ open' = [open EXCEPT ![r] = @ - 1] /\ UNCHANGED worker
    <3>1. Become(r, [worker[r] EXCEPT !.at = "scan"]) BY <1>1, <2>1 DEF Become, TypeOK, Worker
    <3>2. open[r] - 1 \in 0 .. MaxMessages /\ open[r] - 1 <= open[r]
      BY <1>1, <2>1, Untouched
    <3> QED BY <2>1, <3>1, <3>2
  <2>2. CASE open[r] > 0 /\ open' = [open EXCEPT ![r] = @ - 1] /\ Goto(r, "fair")
    <3>1. open[r] - 1 \in 0 .. MaxMessages /\ open[r] - 1 <= open[r]
      BY <1>1, <2>2, Untouched
    <3> QED BY <2>2, <3>1 DEF Goto
  <2>3. CASE open[r] = 0 /\ Goto(r, "proof") /\ UNCHANGED open
    BY <1>1, <2>3, Untouched DEF Goto
  <2> QED BY <2>1, <2>2, <2>3 DEF TurnScan
<1> DEFINE w == [worker[r] EXCEPT !.at = point]
<1>3. /\ w \in Worker /\ w.at = point /\ w.epoch = worker[r].epoch /\ w.fair = worker[r].fair
  BY <1>1 DEF Worker, WorkerPoint
<1> HIDE DEF w
<1>4. worker'[r] = w /\ open'[r] = o BY <1>1, <1>2, <1>3, BecomeOne DEF w, TypeOK
<1>5. LockOf(r)' /\ BoundOf(r)' /\ CleanOf(r)'
  BY <1>1, <1>2, <1>3, <1>4, Typed DEF LeaseOf, LockOf, BoundOf, CleanOf, WorkerLocked, Global
<1>6. Promise(r, worker[r])'
  BY <1>1, <1>2, <1>3, <1>4 DEF LeaseOf, Promise, RoomFor, SelectionFor, EpochFor, CallFor,
     Captured, Registered
<1>7. LeaseOf(r)' BY <1>1, <1>5, <1>6 DEF LeaseOf
<1>8. Become(r, w) /\ open' = [open EXCEPT ![r] = o] BY <1>2 DEF w
<1>9. /\ clean[r] \in Epoch \cup {Unproved} /\ clean' = [clean EXCEPT ![r] = clean[r]]
      /\ slot[r] \in Call /\ slot' = [slot EXCEPT ![r] = slot[r]]
      /\ calls[r] \in Call /\ calls' = [calls EXCEPT ![r] = calls[r]]
      /\ attempt[r] \in {"none", "running", "ended"} /\ attempt' = [attempt EXCEPT ![r] = attempt[r]]
      /\ poisoned' \in BOOLEAN /\ faults' \in 0 .. MaxFaults
  BY <1>1, Untouched
<1> QED BY <1>1, <1>3, <1>7, <1>8, <1>9, WriteKeeps

LEMMA TurnRecordKeeps ==
    ASSUME LeaseInv, NEW r \in Resident, TurnRecord(r) PROVE LeaseInv'
<1>1. /\ TypeOK /\ LeaseOf(r) /\ worker[r].at = "proof" /\ worker[r] \in Worker
      /\ UNCHANGED <<Global, work, ingress, msgs, epoch, open, slot, calls, attempt,
                     poisoned, faults, lock>>
  BY DEF LeaseInv, TypeOK, TurnRecord, workerFrame, boundVars, Global
<1>2. CASE /\ epoch[r] = worker[r].epoch
           /\ clean' = [clean EXCEPT ![r] = epoch[r]] /\ Goto(r, "admit")
  <2> DEFINE w == [worker[r] EXCEPT !.at = "admit"]
  <2>1. w \in Worker /\ w.at = "admit" /\ w.epoch = worker[r].epoch /\ w.fair = worker[r].fair
    BY <1>1 DEF Worker, WorkerPoint
  <2>2. Become(r, w) BY <1>2 DEF Goto
  <2> HIDE DEF w
  <2>3. worker'[r] = w /\ clean'[r] = epoch[r] /\ epoch[r] \in Epoch
    BY <1>1, <1>2, <2>1, <2>2, BecomeOne DEF TypeOK
  <2>4. LockOf(r)' /\ BoundOf(r)' /\ CleanOf(r)'
    BY <1>1, <1>2, <2>1, <2>3, Typed
       DEF LeaseOf, LockOf, BoundOf, CleanOf, Promise, EpochFor, WorkerLocked, Global
  <2>5. Promise(r, worker[r])'
    BY <1>1, <1>2, <2>1, <2>3 DEF LeaseOf, Promise, RoomFor, SelectionFor, EpochFor, CallFor,
       Captured, Registered
  <2>6. LeaseOf(r)' BY <1>1, <2>4, <2>5 DEF LeaseOf
  <2> QED BY <1>1, <1>2, <2>1, <2>2, <2>3, <2>6, Untouched, WriteKeeps
<1>3. CASE Become(r, Resting) /\ UNCHANGED clean
  BY <1>1, <1>3, Untouched, EndKeeps DEF WorkerLocked, TurnRecord
<1> QED BY <1>2, <1>3 DEF TurnRecord

\* A registration finds the lease current, and puts the call into the slot.
LEMMA RegisterKeeps ==
    ASSUME LeaseInv, NEW r \in Resident, NEW point, Register(r, point),
           \/ worker[r].at = "beginRegister" /\ point = "beginSubmit"
           \/ worker[r].at = "register" /\ point = "provider",
           Admitted(r, worker[r]), UNCHANGED <<workerFrame, open, attempt, poisoned, lock, faults>>
    PROVE  LeaseInv'
<1> DEFINE w == [worker[r] EXCEPT !.at = point, !.call = calls[r] + 1, !.cancelled = FALSE]
<1>1. /\ TypeOK /\ LeaseOf(r) /\ worker[r] \in Worker
      /\ UNCHANGED <<Global, work, ingress, msgs, epoch, open, clean, attempt, poisoned,
                     faults, lock>>
  BY DEF LeaseInv, TypeOK, Register, workerFrame, boundVars, Global
<1>2. calls[r] + 1 \in Call /\ calls[r] + 1 # 0
  <2>1. calls[r] < MaxCalls BY <1>1 DEF LeaseOf, Promise, RoomFor
  <2>2. calls[r] \in 0 .. MaxCalls BY <1>1 DEF TypeOK, Call
  <2> QED BY <2>1, <2>2 DEF Call
<1>3. /\ w \in Worker /\ w.at = point /\ w.call = calls[r] + 1 /\ w.epoch = worker[r].epoch
      /\ w.fair = worker[r].fair /\ w.seen = worker[r].seen
  BY <1>1, <1>2 DEF Worker, WorkerPoint
<1>4. /\ Become(r, w) /\ slot' = [slot EXCEPT ![r] = calls[r] + 1]
      /\ calls' = [calls EXCEPT ![r] = calls[r] + 1]
  BY DEF Register, SlotAfterRegister
<1> HIDE DEF w
<1>5. /\ worker'[r] = w /\ slot'[r] = calls[r] + 1 BY <1>1, <1>3, <1>4, BecomeOne DEF TypeOK
<1>6. LockOf(r)' /\ BoundOf(r)' /\ CleanOf(r)'
  BY <1>1, <1>3, <1>5 DEF LeaseOf, LockOf, BoundOf, CleanOf, WorkerLocked, Global
<1>7. RoomFor(r, worker[r])' BY <1>3, <1>5 DEF RoomFor
<1>8. SelectionFor(r, worker[r])'
  BY <1>1, <1>3, <1>5 DEF LeaseOf, Promise, SelectionFor, Global
<1>9. EpochFor(r, worker[r])'
  <2>1. point = "beginSubmit" => ingress[r].at # "preempt"
    BY <1>1 DEF LeaseOf, LockOf, WorkerLocked, IngressLocked
  <2> QED BY <1>1, <1>3, <1>5, <2>1
          DEF LeaseOf, Promise, EpochFor, CleanOf, Captured, Registered, Admitted
<1>10. CallFor(r, worker[r])'
  BY <1>1, <1>2, <1>3, <1>5 DEF CallFor, Admitted
<1>11. LeaseOf(r)' BY <1>1, <1>6, <1>7, <1>8, <1>9, <1>10 DEF LeaseOf, Promise
<1>12. /\ open[r] \in 0 .. MaxMessages /\ open' = [open EXCEPT ![r] = open[r]]
       /\ clean[r] \in Epoch \cup {Unproved} /\ clean' = [clean EXCEPT ![r] = clean[r]]
       /\ attempt[r] \in {"none", "running", "ended"}
       /\ attempt' = [attempt EXCEPT ![r] = attempt[r]]
       /\ poisoned' \in BOOLEAN /\ faults' \in 0 .. MaxFaults
  BY <1>1, Untouched
<1> QED BY <1>1, <1>2, <1>3, <1>4, <1>11, <1>12, WriteKeeps

LEMMA BeginRegisterKeeps ==
    ASSUME LeaseInv, NEW r \in Resident, BeginRegister(r) PROVE LeaseInv'
<1>1. worker[r].at = "beginRegister" BY DEF BeginRegister
<1>2. CASE Admitted(r, worker[r]) /\ Register(r, "beginSubmit") /\ UNCHANGED lock
  BY <1>1, <1>2, RegisterKeeps DEF BeginRegister
<1>3. CASE Become(r, Resting) /\ Free(r) /\ UNCHANGED fenceVars
  <2>1. UNCHANGED readFrame BY <1>3 DEF BeginRegister, readFrame
  <2> QED BY <1>1, <1>3, <2>1, RestKeeps DEF WorkerLocked
<1> QED BY <1>2, <1>3 DEF BeginRegister

LEMMA RegisterResumedKeeps ==
    ASSUME LeaseInv, NEW r \in Resident, RegisterResumed(r) PROVE LeaseInv'
<1>1. TypeOK /\ LeaseOf(r) /\ worker[r].at = "register" BY DEF LeaseInv, RegisterResumed
<1>2. CASE Admitted(r, worker[r]) /\ Register(r, "provider")
  BY <1>1, <1>2, RegisterKeeps DEF RegisterResumed
<1>3. CASE Goto(r, "fail") /\ UNCHANGED fenceVars
  <2> DEFINE w == [worker[r] EXCEPT !.at = "fail"]
  <2>1. w.at = "fail" /\ w.epoch = worker[r].epoch BY <1>1, PointFields
  <2>2. UNCHANGED <<readFrame, lock>> BY <1>3 DEF RegisterResumed, readFrame
  <2> HIDE DEF w
  <2>3. Promise(r, w) /\ LockMoves(r, w)
    BY <1>1, <2>1, <2>2 DEF LeaseOf, Promise, RoomFor, SelectionFor, EpochFor, CallFor,
       Captured, Registered, LockMoves, WorkerLocked
  <2> QED BY <1>1, <1>3, <2>2, <2>3, GotoKeeps DEF w, WorkerPoint
<1> QED BY <1>2, <1>3 DEF RegisterResumed

\* A worker that moves on to a point without the lock, whatever it wrote about
\* the attempt.
LEMMA WroteKeeps ==
    ASSUME LeaseInv, NEW r \in Resident, NEW w \in Worker, Become(r, w),
           UNCHANGED <<workerFrame, open, fenceVars>>, worker[r].at # "idle",
           UNCHANGED lock \/ Free(r), LockMoves(r, w), Promise(r, w),
           NEW t \in {"none", "running", "ended"}, attempt' = [attempt EXCEPT ![r] = t],
           poisoned' \in BOOLEAN, UNCHANGED faults \/ Fault
    PROVE  LeaseInv'
<1>1. /\ TypeOK /\ r \in work BY DEF LeaseInv, LeaseOf
<1>2. UNCHANGED <<Global, ingress, msgs, epoch, open, clean, slot, calls, work>>
  BY DEF workerFrame, boundVars, fenceVars, Global
<1>3. worker'[r] = w BY <1>1, BecomeOne
<1>4. LeaseOf(r)' BY <1>1, <1>2, <1>3, MoveKeeps
<1>5. /\ open[r] \in 0 .. MaxMessages /\ open' = [open EXCEPT ![r] = open[r]]
      /\ clean[r] \in Epoch \cup {Unproved} /\ clean' = [clean EXCEPT ![r] = clean[r]]
      /\ slot[r] \in Call /\ slot' = [slot EXCEPT ![r] = slot[r]]
      /\ calls[r] \in Call /\ calls' = [calls EXCEPT ![r] = calls[r]]
      /\ faults' \in 0 .. MaxFaults
  BY <1>1, <1>2, Untouched
<1> QED BY <1>2, <1>4, <1>5, WriteKeeps

LEMMA BeginSubmitKeeps ==
    ASSUME LeaseInv, NEW r \in Resident, BeginSubmit(r) PROVE LeaseInv'
<1>1. /\ TypeOK /\ LeaseOf(r) /\ worker[r].at = "beginSubmit" /\ worker[r] \in Worker
      /\ UNCHANGED <<workerFrame, open>>
  BY DEF LeaseInv, TypeOK, BeginSubmit
<1>2. /\ attempt[r] \in {"none", "running", "ended"}
      /\ attempt = [attempt EXCEPT ![r] = attempt[r]] /\ poisoned \in BOOLEAN
  BY <1>1, Untouched
<1>3. CASE /\ attempt' = [attempt EXCEPT ![r] = "running"] /\ Goto(r, "begun") /\ Free(r)
           /\ UNCHANGED <<poisoned, faults, fenceVars>>
  <2> DEFINE w == [worker[r] EXCEPT !.at = "begun"]
  <2>1. /\ w \in Worker /\ w.at = "begun" /\ w.epoch = worker[r].epoch
        /\ w.fair = worker[r].fair /\ w.call = worker[r].call /\ w.seen = worker[r].seen
        /\ w.cancelled = worker[r].cancelled
    BY <1>1 DEF Worker, WorkerPoint
  <2>2. Become(r, w) BY <1>3 DEF Goto
  <2> HIDE DEF w
  <2>3. Promise(r, w)
    BY <1>1, <2>1 DEF LeaseOf, Promise, RoomFor, SelectionFor, EpochFor, CallFor,
       Captured, Registered
  <2>4. LockMoves(r, w) BY <1>1, <1>3, <2>1 DEF LockMoves, WorkerLocked, Free, TypeOK
  <2> QED BY <1>1, <1>2, <1>3, <2>1, <2>2, <2>3, <2>4, WroteKeeps
<1>4. CASE /\ Become(r, Resting) /\ Free(r) /\ Finish(r)
           /\ UNCHANGED attempt \/ attempt' = [attempt EXCEPT ![r] = "running"]
           /\ poisoned' \in BOOLEAN /\ (UNCHANGED faults \/ Fault)
  <2>1. UNCHANGED <<epoch, clean, blocked, selectionBlocked, calls>> BY <1>4 DEF Finish
  <2>2. PICK t \in {"none", "running", "ended"} : attempt' = [attempt EXCEPT ![r] = t]
    BY <1>2, <1>4
  <2> QED BY <1>1, <1>4, <2>1, <2>2, EndKeeps DEF WorkerLocked
<1> QED BY <1>2, <1>3, <1>4 DEF BeginSubmit, AfterBegin

LEMMA BegunKeeps ==
    ASSUME LeaseInv, NEW r \in Resident, Begun(r) PROVE LeaseInv'
<1>1. /\ TypeOK /\ LeaseOf(r) /\ worker[r].at = "begun" /\ worker[r] \in Worker
      /\ UNCHANGED <<workerFrame, open, attempt, poisoned, fenceVars, lock>>
  BY DEF LeaseInv, TypeOK, Begun
<1>2. /\ attempt[r] \in {"none", "running", "ended"}
      /\ attempt' = [attempt EXCEPT ![r] = attempt[r]] /\ poisoned' \in BOOLEAN
  BY <1>1, Untouched
<1>3. ASSUME NEW w \in {[worker[r] EXCEPT !.at = "provider"],
                        [worker[r] EXCEPT !.at = "fail", !.call = 0]},
             Become(r, w), UNCHANGED faults \/ Fault
      PROVE  LeaseInv'
  <2>1. /\ w \in Worker /\ w.epoch = worker[r].epoch
        /\ w.fair = worker[r].fair /\ w.seen = worker[r].seen
        /\ \/ w.at = "provider" /\ w.call = worker[r].call
              /\ w.cancelled = worker[r].cancelled
           \/ w.at = "fail"
    <3>1. CASE w = [worker[r] EXCEPT !.at = "provider"] BY <1>1, <3>1 DEF Worker, WorkerPoint
    <3>2. CASE w = [worker[r] EXCEPT !.at = "fail", !.call = 0]
      <4>1. 0 \in Call /\ "fail" \in WorkerPoint BY DEF Call, WorkerPoint
      <4>2. /\ w \in Worker /\ w.epoch = worker[r].epoch /\ w.fair = worker[r].fair
            /\ w.seen = worker[r].seen /\ w.at = "fail"
        BY <1>1, <3>2, <4>1 DEF Worker
      <4> QED BY <4>2
    <3> QED BY <1>3, <3>1, <3>2
  <2>2. Promise(r, w)
    BY <1>1, <2>1 DEF LeaseOf, Promise, RoomFor, SelectionFor, EpochFor, CallFor,
       Captured, Registered
  <2>3. LockMoves(r, w) BY <1>1, <2>1 DEF LockMoves, WorkerLocked
  <2> QED BY <1>1, <1>2, <1>3, <2>1, <2>2, <2>3, WroteKeeps
<1>4. CASE Fault /\ Become(r, Resting)
  <2>1. UNCHANGED <<slot, epoch, clean, blocked, selectionBlocked, calls>>
    BY <1>1 DEF fenceVars
  <2> QED BY <1>1, <1>2, <1>4, <2>1, EndKeeps DEF WorkerLocked
<1> QED BY <1>3, <1>4 DEF Begun, Goto

LEMMA LandSubmitKeeps ==
    ASSUME LeaseInv, NEW r \in Resident, LandSubmit(r) PROVE LeaseInv'
<1>1. /\ TypeOK /\ LeaseOf(r) /\ worker[r].at = "landSubmit" /\ worker[r] \in Worker
      /\ UNCHANGED <<workerFrame, open>> /\ Free(r)
  BY DEF LeaseInv, TypeOK, LandSubmit
<1>2. /\ attempt[r] \in {"none", "running", "ended"}
      /\ attempt = [attempt EXCEPT ![r] = attempt[r]] /\ poisoned \in BOOLEAN
  BY <1>1, Untouched
<1>3. CASE UNCHANGED <<attempt, poisoned, fenceVars>> /\ Goto(r, "fail")
           /\ (UNCHANGED faults \/ Fault)
  <2> DEFINE w == [worker[r] EXCEPT !.at = "fail"]
  <2>1. w \in Worker /\ w.at = "fail" /\ w.epoch = worker[r].epoch
    BY <1>1 DEF Worker, WorkerPoint
  <2>2. Become(r, w) BY <1>3 DEF Goto
  <2> HIDE DEF w
  <2>3. Promise(r, w)
    BY <1>1, <2>1 DEF LeaseOf, Promise, RoomFor, SelectionFor, EpochFor, CallFor,
       Captured, Registered
  <2>4. LockMoves(r, w) BY <1>1, <2>1 DEF LockMoves, WorkerLocked, Free, TypeOK
  <2>5. attempt' = [attempt EXCEPT ![r] = attempt[r]] /\ poisoned' \in BOOLEAN BY <1>2, <1>3
  <2> QED BY <1>1, <1>2, <1>3, <2>1, <2>2, <2>3, <2>4, <2>5, WroteKeeps
<1>4. CASE /\ Become(r, Resting) /\ Finish(r)
           /\ UNCHANGED attempt \/ attempt' = [attempt EXCEPT ![r] = "ended"]
           /\ poisoned' \in BOOLEAN /\ (UNCHANGED faults \/ Fault)
  <2>1. UNCHANGED <<epoch, clean, blocked, selectionBlocked, calls>> BY <1>4 DEF Finish
  <2>2. PICK t \in {"none", "running", "ended"} : attempt' = [attempt EXCEPT ![r] = t]
    BY <1>2, <1>4
  <2> QED BY <1>1, <1>4, <2>1, <2>2, EndKeeps DEF WorkerLocked
<1> QED BY <1>2, <1>3, <1>4 DEF LandSubmit

LEMMA FailKeeps ==
    ASSUME LeaseInv, NEW r \in Resident, Fail(r) PROVE LeaseInv'
<1>1. /\ TypeOK /\ worker[r].at = "fail" /\ UNCHANGED <<workerFrame, open, lock>>
      /\ Become(r, Resting) /\ Finish(r)
  BY DEF LeaseInv, Fail
<1>2. /\ attempt[r] \in {"none", "running", "ended"}
      /\ attempt = [attempt EXCEPT ![r] = attempt[r]] /\ poisoned \in BOOLEAN
  BY <1>1, Untouched
<1>3. /\ UNCHANGED attempt \/ attempt' = [attempt EXCEPT ![r] = "ended"]
      /\ poisoned' \in BOOLEAN /\ (UNCHANGED faults \/ Fault)
  BY <1>2 DEF Fail
<1>4. UNCHANGED <<epoch, clean, blocked, selectionBlocked, calls>> BY <1>1 DEF Finish
<1>5. PICK t \in {"none", "running", "ended"} : attempt' = [attempt EXCEPT ![r] = t]
  BY <1>2, <1>3
<1> QED BY <1>1, <1>3, <1>4, <1>5, EndKeeps DEF WorkerLocked

-----------------------------------------------------------------------------
(* The ingress.                                                            *)

LEMMA IngressKeeps ==
    ASSUME LeaseInv, NEW r \in Resident, NEW i \in Ingress, ingress' = [ingress EXCEPT ![r] = i],
           UNCHANGED ingressFrame,
           NEW m \in 0 .. MaxMessages, msgs' = [msgs EXCEPT ![r] = m],
           NEW o \in 0 .. MaxMessages, open' = [open EXCEPT ![r] = o],
           NEW e \in Epoch, epoch' = [epoch EXCEPT ![r] = e],
           poisoned' \in BOOLEAN, faults' \in 0 .. MaxFaults,
           UNCHANGED lock \/ Take(r, "ingress") \/ Free(r),
           worker' \in [Resident -> Worker], \A q \in Resident \ {r} : worker'[q] = worker[q],
           LeaseOf(r)'
    PROVE  LeaseInv'
<1>1. TypeOK BY DEF LeaseInv
<1>2. /\ lock' \in [Resident -> {"free", "worker", "ingress", "boundary"}]
      /\ \A q \in Resident \ {r} : lock'[q] = lock[q]
  BY <1>1 DEF TypeOK, Free, Take
<1>3. /\ msgs' \in [Resident -> 0 .. MaxMessages] /\ open' \in [Resident -> 0 .. MaxMessages]
      /\ epoch' \in [Resident -> Epoch] /\ ingress' \in [Resident -> Ingress]
      /\ \A q \in Resident \ {r} : /\ msgs'[q] = msgs[q] /\ open'[q] = open[q]
                                   /\ epoch'[q] = epoch[q] /\ ingress'[q] = ingress[q]
  BY <1>1 DEF TypeOK
<1>4. UNCHANGED <<Global, work, clean, slot, calls, attempt>>
  BY DEF ingressFrame, boundVars, Global
<1>5. TypeOK' BY <1>1, <1>2, <1>3, <1>4 DEF TypeOK, Global
<1>6. Others(r) BY <1>2, <1>3, <1>4 DEF Others
<1> QED BY <1>4, <1>5, <1>6, LocalKeeps

\* Entries the ingress does not write.
LEMMA IngressUntouched ==
    ASSUME TypeOK, NEW r \in Resident
    PROVE  /\ msgs[r] \in 0 .. MaxMessages /\ msgs = [msgs EXCEPT ![r] = msgs[r]]
           /\ open[r] \in 0 .. MaxMessages /\ open = [open EXCEPT ![r] = open[r]]
           /\ epoch[r] \in Epoch /\ epoch = [epoch EXCEPT ![r] = epoch[r]]
           /\ poisoned \in BOOLEAN /\ faults \in 0 .. MaxFaults
           /\ Fault => faults' \in 0 .. MaxFaults
           /\ worker \in [Resident -> Worker]
  BY DEF TypeOK, Fault

\* A step of the ingress that accepts nothing and advances no epoch.
LEMMA IngressMoves ==
    ASSUME LeaseInv, NEW r \in Resident, NEW i \in Ingress, ingress' = [ingress EXCEPT ![r] = i],
           UNCHANGED <<ingressFrame, msgs, open, poisoned, epoch, worker, faults>>,
           ingress[r].at \notin {"preempt", "cancel"}, i.at # "preempt",
           \/ UNCHANGED lock /\ (i.at \in IngressLocked <=> ingress[r].at \in IngressLocked)
           \/ Take(r, "ingress") /\ i.at \in IngressLocked
           \/ Free(r) /\ ingress[r].at \in IngressLocked /\ i.at \notin IngressLocked,
           i.at \in {"waiting", "checked", "submit"} =>
               msgs[r] < MaxMessages /\ epoch[r] < MaxMessages + bounds
    PROVE  LeaseInv'
<1>1. TypeOK /\ LeaseOf(r) BY DEF LeaseInv
<1>2. ingress'[r] = i BY <1>1 DEF TypeOK
<1>3. UNCHANGED <<Global, work, clean, slot, calls, attempt>>
  BY DEF ingressFrame, boundVars, Global
<1>4. LockOf(r)'
  <2>1. CASE UNCHANGED lock /\ (i.at \in IngressLocked <=> ingress[r].at \in IngressLocked)
    BY <1>1, <1>2, <1>3, <2>1 DEF LeaseOf, LockOf, Global
  <2>2. CASE Take(r, "ingress") /\ i.at \in IngressLocked
    BY <1>1, <1>2, <1>3, <2>2 DEF LeaseOf, LockOf, Take, TypeOK, Global
  <2>3. CASE Free(r) /\ ingress[r].at \in IngressLocked /\ i.at \notin IngressLocked
    BY <1>1, <1>2, <1>3, <2>3 DEF LeaseOf, LockOf, Free, TypeOK, Global
  <2> QED BY <2>1, <2>2, <2>3
<1>5. BoundOf(r)' /\ CleanOf(r)' BY <1>1, <1>2, <1>3 DEF LeaseOf, BoundOf, CleanOf, Global
<1>6. RoomFor(r, worker[r])' /\ SelectionFor(r, worker[r])' /\ EpochFor(r, worker[r])'
  BY <1>1, <1>2, <1>3 DEF LeaseOf, Promise, RoomFor, SelectionFor, EpochFor, Captured,
     Available, Global
<1>7. CallFor(r, worker[r])' BY <1>1, <1>2, <1>3 DEF LeaseOf, Promise, CallFor
<1>8. LeaseOf(r)' BY <1>1, <1>3, <1>4, <1>5, <1>6, <1>7 DEF LeaseOf, Promise
<1>9. /\ msgs[r] \in 0 .. MaxMessages /\ msgs' = [msgs EXCEPT ![r] = msgs[r]]
      /\ open[r] \in 0 .. MaxMessages /\ open' = [open EXCEPT ![r] = open[r]]
      /\ epoch[r] \in Epoch /\ epoch' = [epoch EXCEPT ![r] = epoch[r]]
      /\ poisoned' \in BOOLEAN /\ faults' \in 0 .. MaxFaults
      /\ worker' \in [Resident -> Worker]
  BY <1>1, IngressUntouched
<1> QED BY <1>8, <1>9, IngressKeeps

LEMMA IngressReadKeeps ==
    ASSUME LeaseInv, NEW r \in Resident, IngressStart(r) \/ IngressLock(r) \/ IngressCheck(r)
    PROVE  LeaseInv'
<1>1. /\ LeaseOf(r) /\ ingress \in [Resident -> Ingress] /\ ingress[r] \in Ingress
      /\ NoIngress \in Ingress /\ NoIngress.at = "idle"
  BY RestingType DEF LeaseInv, TypeOK, NoIngress
<1>2. ASSUME NEW point \in {"waiting", "checked", "submit"}
      PROVE  /\ [ingress[r] EXCEPT !.at = point] \in Ingress
             /\ [ingress[r] EXCEPT !.at = point].at = point
  BY <1>1 DEF Ingress
<1>3. CASE IngressStart(r)
  BY <1>1, <1>2, <1>3, IngressMoves DEF IngressStart, IngressLocked
<1>4. CASE IngressLock(r)
  BY <1>1, <1>2, <1>4, IngressMoves DEF IngressLock, IngressLocked, LeaseOf, BoundOf
<1>5. CASE IngressCheck(r)
  <2>1. CASE ingress' = [ingress EXCEPT ![r].at = "submit"] /\ UNCHANGED lock
    BY <1>1, <1>2, <1>5, <2>1, IngressMoves DEF IngressCheck, IngressLocked, LeaseOf, BoundOf
  <2>2. CASE ingress' = [ingress EXCEPT ![r] = NoIngress] /\ Free(r)
    BY <1>1, <1>5, <2>2, IngressMoves DEF IngressCheck, IngressLocked
  <2> QED BY <1>5, <2>1, <2>2 DEF IngressCheck
<1> QED BY <1>3, <1>4, <1>5

\* An accepted message advances the epoch before the landing lock is released.
LEMMA IngressSubmitKeeps ==
    ASSUME LeaseInv, NEW r \in Resident, IngressSubmit(r) PROVE LeaseInv'
<1> DEFINE i == [ingress[r] EXCEPT !.at = "preempt"]
<1>1. /\ TypeOK /\ LeaseOf(r) /\ ingress[r] \in Ingress /\ ingress[r].at = "submit"
      /\ UNCHANGED <<Global, ingressFrame, work, clean, slot, calls, attempt, epoch, lock, worker>>
      /\ ingress' = [ingress EXCEPT ![r] = i]
  BY DEF LeaseInv, TypeOK, IngressSubmit, ingressFrame, boundVars, Global
<1>2. i \in Ingress /\ i.at = "preempt" BY <1>1 DEF Ingress
<1> HIDE DEF i
<1>3. /\ msgs[r] \in 0 .. MaxMessages /\ open[r] \in 0 .. MaxMessages
      /\ open[r] <= msgs[r] /\ msgs[r] < MaxMessages
      /\ lock[r] = "ingress"
      /\ worker[r].at \notin WorkerLocked
  BY <1>1, IngressUntouched DEF LeaseOf, BoundOf, LockOf, IngressLocked
<1>4. PICK n \in {0, 1} : /\ msgs' = [msgs EXCEPT ![r] = msgs[r] + n]
                          /\ open' = [open EXCEPT ![r] = open[r] + n]
  <2>1. CASE UNCHANGED <<msgs, open>>
    <3>1. msgs[r] + 0 = msgs[r] /\ open[r] + 0 = open[r] BY <1>3
    <3> QED BY <1>1, <2>1, <3>1, IngressUntouched
  <2>2. CASE msgs' = [msgs EXCEPT ![r] = @ + 1] /\ open' = [open EXCEPT ![r] = @ + 1]
    BY <2>2
  <2> QED BY <2>1, <2>2 DEF IngressSubmit
<1>5. msgs[r] + n \in 0 .. MaxMessages /\ open[r] + n \in 0 .. MaxMessages BY <1>3
<1>6. msgs'[r] = msgs[r] + n /\ open'[r] = open[r] + n /\ ingress'[r] = i
  BY <1>1, <1>4 DEF TypeOK
<1>7. LockOf(r)' BY <1>1, <1>2, <1>6 DEF LeaseOf, LockOf, IngressLocked, Global
<1>8. BoundOf(r)' /\ CleanOf(r)'
  <2>1. BoundOf(r) /\ CleanOf(r) BY <1>1 DEF LeaseOf
  <2>2. BoundOf(r)' BY <1>1, <1>2, <1>3, <1>6, <2>1 DEF BoundOf, Global
  <2>3. CleanOf(r)' BY <1>1, <1>2, <1>6, <2>1 DEF CleanOf
  <2> QED BY <2>2, <2>3
<1>9. RoomFor(r, worker[r])' /\ SelectionFor(r, worker[r])' /\ EpochFor(r, worker[r])'
  BY <1>1, <1>2, <1>3, <1>6 DEF LeaseOf, Promise, RoomFor, SelectionFor, EpochFor, Captured,
     Available, WorkerLocked, Global
<1>10. CallFor(r, worker[r])' BY <1>1, <1>6 DEF LeaseOf, Promise, CallFor
<1>11. LeaseOf(r)' BY <1>1, <1>7, <1>8, <1>9, <1>10 DEF LeaseOf, Promise
<1>12. poisoned' \in BOOLEAN /\ faults' \in 0 .. MaxFaults
  BY <1>1, IngressUntouched DEF IngressSubmit
<1>13. /\ epoch[r] \in Epoch /\ epoch' = [epoch EXCEPT ![r] = epoch[r]]
       /\ worker' \in [Resident -> Worker]
  BY <1>1, IngressUntouched
<1> QED BY <1>1, <1>2, <1>4, <1>5, <1>11, <1>12, <1>13, IngressKeeps

\* preemptBackground finds the live call in the slot ...
LEMMA IngressPreemptKeeps ==
    ASSUME LeaseInv, NEW r \in Resident, IngressPreempt(r) PROVE LeaseInv'
<1> DEFINE i == [at |-> "cancel", call |-> slot[r]]
<1>1. /\ TypeOK /\ LeaseOf(r) /\ ingress[r].at = "preempt"
      /\ UNCHANGED <<Global, ingressFrame, msgs, open, work, clean, slot, calls, attempt,
                     lock, worker, poisoned, faults>>
      /\ ingress' = [ingress EXCEPT ![r] = i]
      /\ epoch' = [epoch EXCEPT ![r] = epoch[r] + 1]
  BY DEF LeaseInv, IngressPreempt, ingressFrame, boundVars, Global
<1>2. i \in Ingress /\ i.at = "cancel" BY <1>1 DEF Ingress, TypeOK
<1>3. epoch[r] + 1 \in Epoch /\ epoch[r] < MaxMessages + bounds /\ epoch[r] \in Nat
  BY <1>1, Typed DEF LeaseOf, BoundOf, Epoch, TypeOK
<1>4. ingress'[r] = i /\ epoch'[r] = epoch[r] + 1 BY <1>1 DEF TypeOK
<1>5. worker[r].epoch \in Nat /\ clean[r] \in Int /\ bounds \in Nat BY <1>1, Typed
<1>6. LockOf(r)' BY <1>1, <1>2, <1>4 DEF LeaseOf, LockOf, IngressLocked, Global
<1>7. BoundOf(r)' /\ CleanOf(r)'
  <2>1. BoundOf(r) /\ CleanOf(r) BY <1>1 DEF LeaseOf
  <2>2. BoundOf(r)' BY <1>1, <1>2, <1>3, <1>4, <1>5, <2>1 DEF BoundOf, Global
  <2>3. CleanOf(r)' BY <1>1, <1>3, <1>4, <1>5, <2>1 DEF CleanOf
  <2> QED BY <2>2, <2>3
<1>8. RoomFor(r, worker[r])' /\ SelectionFor(r, worker[r])'
  BY <1>1 DEF LeaseOf, Promise, RoomFor, SelectionFor, Available, Global
<1>9. EpochFor(r, worker[r])'
  BY <1>1, <1>3, <1>4, <1>5 DEF LeaseOf, Promise, EpochFor
<1>10. CallFor(r, worker[r])' BY <1>1, <1>4 DEF LeaseOf, Promise, CallFor
<1>11. LeaseOf(r)' BY <1>1, <1>6, <1>7, <1>8, <1>9, <1>10 DEF LeaseOf, Promise
<1>12. /\ msgs[r] \in 0 .. MaxMessages /\ msgs' = [msgs EXCEPT ![r] = msgs[r]]
       /\ open[r] \in 0 .. MaxMessages /\ open' = [open EXCEPT ![r] = open[r]]
       /\ poisoned' \in BOOLEAN /\ faults' \in 0 .. MaxFaults
       /\ worker' \in [Resident -> Worker]
  BY <1>1, IngressUntouched
<1> QED BY <1>1, <1>2, <1>3, <1>11, <1>12, IngressKeeps

\* ... and its cancellation reaches the worker that still runs it.
LEMMA IngressCancelKeeps ==
    ASSUME LeaseInv, NEW r \in Resident, IngressCancel(r) PROVE LeaseInv'
<1> DEFINE victim == [x \in Resident |-> IF x = r THEN ingress[r].call ELSE 0]
<1>1. /\ TypeOK /\ LeaseOf(r) /\ ingress[r].at = "cancel" /\ ingress[r] \in Ingress
      /\ UNCHANGED <<Global, ingressFrame, msgs, open, work, clean, slot, calls, attempt,
                     epoch, poisoned, faults>>
      /\ ingress' = [ingress EXCEPT ![r] = NoIngress] /\ Free(r) /\ CancelCalls(victim)
  BY DEF LeaseInv, TypeOK, IngressCancel, ingressFrame, boundVars, Global
<1>2. victim \in [Resident -> Call] /\ victim[r] = ingress[r].call
  BY <1>1 DEF Ingress, Call
<1>3. \A q \in Resident \ {r} : worker'[q] = worker[q] BY <1>1 DEF CancelCalls
<1> HIDE DEF victim
<1>4. /\ worker' \in [Resident -> Worker]
      /\ worker'[r].at = worker[r].at /\ worker'[r].epoch = worker[r].epoch
      /\ worker'[r].fair = worker[r].fair /\ worker'[r].call = worker[r].call
      /\ worker'[r].seen = worker[r].seen
      /\ worker[r].cancelled => worker'[r].cancelled
      /\ ingress[r].call # 0 /\ worker[r].call = ingress[r].call => worker'[r].cancelled
  <2>1. TypeOK /\ CancelCalls(victim) BY <1>1
  <2>2. PICK v \in [Resident -> Call] : v = victim BY <1>2
  <2>3. CancelCalls(v) BY <2>1, <2>2
  <2>4. /\ worker' \in [Resident -> Worker]
        /\ worker'[r].at = worker[r].at /\ worker'[r].epoch = worker[r].epoch
        /\ worker'[r].fair = worker[r].fair /\ worker'[r].call = worker[r].call
        /\ worker'[r].seen = worker[r].seen
        /\ worker[r].cancelled => worker'[r].cancelled
        /\ v[r] # 0 /\ worker[r].call = v[r] => worker'[r].cancelled
    BY <2>1, <2>3, CancelOne
  <2>5. v[r] = ingress[r].call BY <1>2, <2>2
  <2> QED BY <2>4, <2>5
<1>5. ingress'[r] = NoIngress /\ NoIngress.at = "idle" /\ NoIngress \in Ingress
      /\ lock'[r] = "free"
  BY <1>1, RestingType DEF TypeOK, Free, NoIngress
<1>6. LockOf(r)' BY <1>1, <1>4, <1>5 DEF LeaseOf, LockOf, IngressLocked, Global
<1>7. BoundOf(r)' /\ CleanOf(r)' BY <1>1, <1>5 DEF LeaseOf, BoundOf, CleanOf, Global
<1>8. RoomFor(r, worker[r])' /\ SelectionFor(r, worker[r])'
  BY <1>1, <1>4 DEF LeaseOf, Promise, RoomFor, SelectionFor, Available, Global
<1>9. EpochFor(r, worker[r])'
  BY <1>1, <1>4, <1>5 DEF LeaseOf, Promise, EpochFor, Captured
<1>10. CallFor(r, worker[r])' BY <1>1, <1>4, <1>5 DEF LeaseOf, Promise, CallFor
<1>11. LeaseOf(r)' BY <1>1, <1>4, <1>6, <1>7, <1>8, <1>9, <1>10 DEF LeaseOf, Promise
<1>12. /\ msgs[r] \in 0 .. MaxMessages /\ msgs' = [msgs EXCEPT ![r] = msgs[r]]
       /\ open[r] \in 0 .. MaxMessages /\ open' = [open EXCEPT ![r] = open[r]]
       /\ epoch[r] \in Epoch /\ epoch' = [epoch EXCEPT ![r] = epoch[r]]
       /\ poisoned' \in BOOLEAN /\ faults' \in 0 .. MaxFaults
  BY <1>1, IngressUntouched
<1> QED BY <1>1, <1>3, <1>4, <1>5, <1>11, <1>12, IngressKeeps

-----------------------------------------------------------------------------
(* The boundaries.                                                         *)

\* A boundary that starts invalidates its targets: no lease of theirs is
\* current any more, and the live call of each is cancelled.
LEMMA InvalidateKeeps ==
    ASSUME LeaseInv, NEW targets \in SUBSET Resident, Invalidate(targets),
           Bound, UNCHANGED <<boundaryFrame, status, selected, open, attempt, poisoned, lock,
                              cleaning, unread>>,
           boundary' \in Boundary, boundary'.at \in {"selectLock", "archiveLock"},
           boundary'.at = "selectLock" =>
               \A q \in work : selected = q => q \in boundary'.targets,
           omitted' \in BOOLEAN, omitted => omitted', selectionBlocked' \in BOOLEAN,
           faults' \in 0 .. MaxFaults
    PROVE  TypeOK' /\ \A q \in Resident : LeaseOf(q)'
<1>1. /\ TypeOK /\ bounds \in Nat /\ bounds < MaxBounds /\ bounds' = bounds + 1
      /\ UNCHANGED <<msgs, work, ingress, slot, calls>>
  BY DEF LeaseInv, TypeOK, Bound, boundaryFrame
<1>2. Victims(targets) \in [Resident -> Call] /\ CancelCalls(Victims(targets))
      /\ \A q \in Resident : Victims(targets)[q] = IF q \in targets THEN slot[q] ELSE 0
  BY <1>1 DEF Victims, Invalidate, TypeOK, Call
<1>3. /\ worker' \in [Resident -> Worker]
      /\ \A r \in Resident :
           /\ worker'[r].at = worker[r].at /\ worker'[r].epoch = worker[r].epoch
           /\ worker'[r].fair = worker[r].fair /\ worker'[r].call = worker[r].call
           /\ worker'[r].seen = worker[r].seen
           /\ worker[r].cancelled => worker'[r].cancelled
           /\ Victims(targets)[r] # 0 /\ worker[r].call = Victims(targets)[r] =>
                worker'[r].cancelled
  BY <1>1, <1>2, CancelOne
<1>4. \A q \in Resident :
        /\ epoch'[q] = IF q \in targets THEN epoch[q] + 1 ELSE epoch[q]
        /\ clean'[q] = IF q \in targets THEN Unproved ELSE clean[q]
        /\ epoch[q] \in Nat /\ epoch[q] <= MaxMessages + bounds
  BY <1>1, Typed DEF Invalidate, LeaseInv, LeaseOf, BoundOf
<1>5. TypeOK'
  <2>1. \A q \in Resident : epoch'[q] \in Epoch BY <1>1, <1>4 DEF Epoch
  <2>2. epoch' \in [Resident -> Epoch] BY <2>1 DEF Invalidate
  <2>3. clean' \in [Resident -> Epoch \cup {Unproved}] BY <1>1 DEF Invalidate, TypeOK
  <2>4. blocked' \subseteq Resident BY <1>1 DEF Invalidate, TypeOK
  <2>5. bounds' \in 0 .. MaxBounds BY <1>1
  <2> QED BY <1>1, <1>3, <2>2, <2>3, <2>4, <2>5 DEF TypeOK
<1>6. ASSUME NEW q \in Resident PROVE LeaseOf(q)'
  <2>1. LeaseOf(q) BY DEF LeaseInv
  <2>2. /\ worker[q].epoch \in Nat /\ epoch[q] \in Nat /\ clean[q] \in Int BY <1>1, Typed
  <2>3. LockOf(q)' BY <1>3, <2>1, <1>1 DEF LeaseOf, LockOf
  <2>4. BoundOf(q)' /\ CleanOf(q)'
    <3>1. BoundOf(q) /\ CleanOf(q) BY <2>1 DEF LeaseOf
    <3>2. /\ epoch'[q] \in {epoch[q], epoch[q] + 1}
          /\ epoch'[q] = epoch[q] => clean'[q] = clean[q]
          /\ epoch'[q] = epoch[q] + 1 => clean'[q] = -1
          /\ msgs'[q] = msgs[q] /\ open'[q] = open[q] /\ ingress'[q] = ingress[q]
      BY <1>1, <1>4, <2>2 DEF Unproved
    <3>3. BoundOf(q)' BY <1>1, <2>2, <3>1, <3>2 DEF BoundOf
    <3>4. CleanOf(q)' BY <2>2, <3>1, <3>2 DEF CleanOf
    <3> QED BY <3>3, <3>4
  <2>6. RoomFor(q, worker[q])' BY <1>1, <1>3, <2>1 DEF LeaseOf, Promise, RoomFor
  <2>7. SelectionFor(q, worker[q])'
    BY <1>1, <1>3, <2>1 DEF LeaseOf, Promise, SelectionFor, Available
  <2>8. EpochFor(q, worker[q])'
    BY <1>1, <1>3, <1>4, <2>1, <2>2 DEF LeaseOf, Promise, EpochFor, Captured
  <2>9. CallFor(q, worker[q])'
    BY <1>1, <1>2, <1>3, <1>4, <2>1 DEF LeaseOf, Promise, CallFor
  <2> QED BY <1>1, <1>3, <2>1, <2>3, <2>4, <2>6, <2>7, <2>8, <2>9 DEF LeaseOf, Promise
<1> QED BY <1>5, <1>6

LEMMA SelectStartKeeps ==
    ASSUME LeaseInv, NEW r \in Resident, SelectStart(r) PROVE LeaseInv'
<1>1. TypeOK /\ BoundaryInv BY DEF LeaseInv
<1>2. PICK previous \in {selected, None} :
        /\ IF previous = selected THEN UNCHANGED faults ELSE Fault
        /\ Invalidate(SelectTargets(r, previous))
        /\ selectionBlocked' = (selectionBlocked \/ previous = None)
        /\ omitted' = (omitted \/ selected \notin SelectTargets(r, previous) \cup {None})
        /\ boundary' = [NoBoundary EXCEPT !.at = "selectLock", !.of = r,
                                          !.targets = SelectTargets(r, previous)]
  BY DEF SelectStart
<1> DEFINE targets == SelectTargets(r, previous)
<1>3. /\ targets \in SUBSET Resident
      /\ previous # None => selected \in targets
      /\ \A q \in work : selected = q => q \in targets
  BY <1>1, <1>2 DEF SelectTargets, TypeOK
<1>4. /\ boundary' \in Boundary /\ boundary'.at = "selectLock" /\ boundary'.of = r
      /\ boundary'.targets = targets
  BY <1>2, <1>3 DEF NoBoundary, Boundary
<1>5. omitted' \in BOOLEAN /\ (omitted => omitted') BY <1>2
<1>6. selectionBlocked' \in BOOLEAN BY <1>2
<1>7. faults' \in 0 .. MaxFaults BY <1>1, <1>2 DEF TypeOK, Fault
<1>8. /\ Bound /\ UNCHANGED <<boundaryFrame, status, selected, open, attempt, poisoned, lock,
                              cleaning, unread>>
  BY DEF SelectStart
<1>9. BoundaryInv'
  <2>1. selected \notin targets \cup {None} => selectionBlocked' /\ omitted'
    BY <1>2, <1>3
  <2> QED BY <1>1, <1>4, <1>8, <2>1 DEF BoundaryInv
<1> HIDE DEF targets
<1>10. TypeOK' /\ \A q \in Resident : LeaseOf(q)'
  BY <1>2, <1>3, <1>4, <1>5, <1>6, <1>7, <1>8, InvalidateKeeps DEF targets
<1>11. ArchiveInv' /\ FenceReleased' BY <1>4 DEF ArchiveInv, FenceReleased
<1> QED BY <1>9, <1>10, <1>11 DEF LeaseInv

LEMMA ArchiveStartKeeps ==
    ASSUME LeaseInv, NEW r \in Resident, ArchiveStart(r) PROVE LeaseInv'
<1>1. /\ TypeOK /\ BoundaryInv /\ FenceReleased /\ boundary.at = "idle"
      /\ Invalidate({r}) /\ Bound
      /\ boundary' = [NoBoundary EXCEPT !.at = "archiveLock", !.of = r, !.was = (r \in blocked)]
      /\ UNCHANGED <<boundaryFrame, status, selected, selectionBlocked, open, attempt, poisoned,
                     lock, cleaning, unread, omitted, faults>>
  BY DEF LeaseInv, ArchiveStart, Bound
<1>2. /\ boundary' \in Boundary /\ boundary'.at = "archiveLock" /\ boundary'.of = r
      /\ boundary'.was <=> r \in blocked
  <2> DEFINE b(was) == [NoBoundary EXCEPT !.at = "archiveLock", !.of = r, !.was = was]
  <2>1. \A was \in BOOLEAN : /\ b(was) \in Boundary /\ b(was).at = "archiveLock"
                             /\ b(was).of = r /\ b(was).was = was
    BY DEF NoBoundary, Boundary
  <2> HIDE DEF b
  <2>2. CASE r \in blocked
    <3>1. boundary' = b(TRUE) BY <1>1, <2>2 DEF b
    <3> QED BY <2>1, <2>2, <3>1
  <2>3. CASE r \notin blocked
    <3>1. (r \in blocked) = FALSE BY <2>3
    <3>2. boundary' = b(FALSE) BY <1>1, <3>1, Zenon DEF b
    <3> QED BY <2>1, <2>3, <3>2
  <2> QED BY <2>2, <2>3
<1>3. TypeOK' /\ \A q \in Resident : LeaseOf(q)'
  <2>1. /\ {r} \in SUBSET Resident /\ omitted' \in BOOLEAN /\ (omitted => omitted')
        /\ selectionBlocked' \in BOOLEAN /\ faults' \in 0 .. MaxFaults
    BY <1>1 DEF TypeOK
  <2>2. UNCHANGED <<boundaryFrame, status, selected, open, attempt, poisoned, lock,
                    cleaning, unread>>
    BY <1>1
  <2>3. boundary'.at \in {"selectLock", "archiveLock"} /\ boundary'.at # "selectLock" BY <1>2
  <2> QED BY <1>1, <1>2, <2>1, <2>2, <2>3, InvalidateKeeps
<1>4. BoundaryInv' BY <1>1, <1>2 DEF BoundaryInv
<1>5. blocked' = blocked \cup {r} BY <1>1 DEF Invalidate
<1>6. ArchiveInv' BY <1>1, <1>2, <1>5 DEF ArchiveInv, FenceReleased
<1>7. FenceReleased' BY <1>2 DEF FenceReleased
<1> QED BY <1>3, <1>4, <1>6, <1>7 DEF LeaseInv

\* A boundary that goes on changes locks, status, selection and fences only.
LEMMA BoundaryLease ==
    ASSUME LeaseInv, NEW q \in Resident,
           UNCHANGED <<msgs, open, work, ingress, slot, calls, epoch, clean, worker, omitted, bounds>>,
           LockOf(q)', SelectionFor(q, worker[q])'
    PROVE  LeaseOf(q)'
<1>1. LeaseOf(q) BY DEF LeaseInv
<1>2. BoundOf(q)' /\ CleanOf(q)' BY <1>1 DEF LeaseOf, BoundOf, CleanOf
<1>3. RoomFor(q, worker[q])' /\ EpochFor(q, worker[q])' /\ CallFor(q, worker[q])'
  BY <1>1 DEF LeaseOf, Promise, RoomFor, EpochFor, Captured, CallFor
<1> QED BY <1>1, <1>2, <1>3 DEF LeaseOf, Promise

LEMMA SelectLockKeeps ==
    ASSUME LeaseInv, SelectLock PROVE LeaseInv'
<1>1. /\ TypeOK /\ boundary.at = "selectLock"
      /\ UNCHANGED <<Global, msgs, open, work, ingress, slot, calls, epoch, clean, worker,
                     attempt, poisoned, faults>>
  BY DEF LeaseInv, SelectLock, durableVars, fenceVars, boundVars, Global
<1>2. PICK r \in boundary.targets : Take(r, "boundary") BY DEF SelectLock
<1>3. lock' \in [Resident -> {"free", "worker", "ingress", "boundary"}]
  BY <1>1, <1>2 DEF TypeOK, Take
<1>4. TypeOK' BY <1>1, <1>3 DEF TypeOK, Global
<1>5. ASSUME NEW q \in Resident PROVE LeaseOf(q)'
  <2>1. LeaseOf(q) BY DEF LeaseInv
  <2>2. LockOf(q)' BY <1>1, <1>2, <2>1 DEF LeaseOf, LockOf, Take, TypeOK, Global
  <2>3. SelectionFor(q, worker[q])'
    BY <1>1, <2>1 DEF LeaseOf, Promise, SelectionFor, Available, Global
  <2> QED BY <1>1, <2>2, <2>3, BoundaryLease DEF Global
<1>6. BoundaryInv' BY <1>1 DEF LeaseInv, BoundaryInv, Global
<1>7. ArchiveInv' /\ FenceReleased' BY <1>1 DEF LeaseInv, ArchiveInv, FenceReleased, Global
<1> QED BY <1>4, <1>5, <1>6, <1>7 DEF LeaseInv

\* The selection moves only when the landing locks of the targets are held: it
\* is not taken from a worker that is landing.
LEMMA SelectCommitKeeps ==
    ASSUME LeaseInv, SelectCommit PROVE LeaseInv'
<1>1. /\ TypeOK /\ BoundaryInv /\ boundary.at = "selectLock" /\ boundary \in Boundary
      /\ boundary.of \in Resident
      /\ \A r \in boundary.targets : lock[r] = "boundary"
      /\ UNCHANGED <<msgs, open, work, ingress, slot, calls, epoch, clean, worker,
                     attempt, poisoned, status, blocked, selectionBlocked, lock, cleaning,
                     unread, omitted, bounds>>
  BY DEF LeaseInv, TypeOK, BoundaryInv, SelectCommit, boundaryFrame
<1>2. /\ selected' \in {selected, boundary.of} /\ faults' \in 0 .. MaxFaults
  <2>1. selected' \in {selected, boundary.of} BY DEF SelectCommit
  <2>2. UNCHANGED faults \/ Fault BY DEF SelectCommit
  <2>3. faults' \in 0 .. MaxFaults BY <1>1, <2>2 DEF TypeOK, Fault
  <2> QED BY <2>1, <2>3
<1>3. PICK k \in BOOLEAN : boundary' = [boundary EXCEPT !.at = "selectEnd", !.known = k]
  <2> DEFINE known(k) == boundary' = [boundary EXCEPT !.at = "selectEnd", !.known = k]
  <2>1. known(TRUE) \/ known(selected # None) \/ \E k \in BOOLEAN : known(k)
    BY DEF SelectCommit
  <2>2. (selected # None) \in BOOLEAN OBVIOUS
  <2> QED BY <2>1, <2>2
<1>4. /\ boundary' \in Boundary /\ boundary'.at = "selectEnd" /\ boundary'.of = boundary.of
      /\ boundary'.targets = boundary.targets
  BY <1>1, <1>3 DEF Boundary
<1>5. selected' \in Resident \cup {None} BY <1>1, <1>2 DEF TypeOK
<1>6. TypeOK' BY <1>1, <1>2, <1>4, <1>5 DEF TypeOK
<1>7. ASSUME NEW q \in Resident PROVE LeaseOf(q)'
  <2>1. LeaseOf(q) /\ q # None BY DEF LeaseInv
  <2>2. LockOf(q)' BY <1>1, <1>4, <2>1 DEF LeaseOf, LockOf
  <2>3. worker[q].at \in WorkerLocked => q \notin boundary.targets
    BY <1>1, <2>1 DEF LeaseOf, LockOf
  <2>4. worker[q].at # "landSubmit"
    BY <1>1, <2>1, <2>3 DEF LeaseOf, Promise, SelectionFor, WorkerLocked, Available
  <2>5. worker[q].at \in {"beginRegister", "beginSubmit"} => status[q] = "active" /\ omitted
    BY <1>1, <2>1, <2>3 DEF LeaseOf, Promise, SelectionFor, WorkerLocked, BoundaryInv
  <2>6. SelectionFor(q, worker[q])' BY <1>1, <1>4, <2>4, <2>5 DEF SelectionFor
  <2> QED BY <1>1, <2>2, <2>6, BoundaryLease
<1>8. BoundaryInv' BY <1>1, <1>4 DEF BoundaryInv
<1>9. ArchiveInv' /\ FenceReleased' BY <1>4 DEF ArchiveInv, FenceReleased
<1> QED BY <1>6, <1>7, <1>8, <1>9 DEF LeaseInv

LEMMA SelectEndKeeps ==
    ASSUME LeaseInv, SelectEnd PROVE LeaseInv'
<1>1. /\ TypeOK /\ BoundaryInv /\ boundary.at = "selectEnd" /\ boundary \in Boundary
      /\ UNCHANGED <<msgs, open, work, ingress, slot, calls, epoch, clean, worker,
                     attempt, poisoned, status, selected, cleaning, omitted, bounds, faults>>
      /\ lock' = [r \in Resident |-> IF r \in boundary.targets THEN "free" ELSE lock[r]]
      /\ boundary' = NoBoundary
  BY DEF LeaseInv, TypeOK, SelectEnd, boundaryFrame
<1>2. NoBoundary \in Boundary /\ NoBoundary.at = "idle" BY RestingType DEF NoBoundary
<1>3. lock' \in [Resident -> {"free", "worker", "ingress", "boundary"}] BY <1>1 DEF TypeOK
<1>4. /\ blocked' \subseteq Resident /\ selectionBlocked' \in BOOLEAN /\ unread' \in BOOLEAN
      /\ ~unread' => selectionBlocked' = FALSE /\ selected \notin blocked'
  <2>1. CASE boundary.known
    <3>1. boundary.targets \subseteq Resident /\ blocked \subseteq Resident BY <1>1 DEF TypeOK, Boundary
    <3>2. selectionBlocked' = FALSE /\ blocked' = (blocked \cup boundary.targets) \ {selected}
      BY <2>1 DEF SelectEnd, Unfenced
    <3>3. unread' \in BOOLEAN BY DEF SelectEnd
    <3> QED BY <3>1, <3>2, <3>3
  <2>2. CASE ~boundary.known BY <1>1, <2>2 DEF SelectEnd, TypeOK
  <2> QED BY <2>1, <2>2
<1>5. TypeOK' BY <1>1, <1>2, <1>3, <1>4 DEF TypeOK
<1>6. ASSUME NEW q \in Resident PROVE LeaseOf(q)'
  <2>1. LeaseOf(q) BY DEF LeaseInv
  <2>2. LockOf(q)' BY <1>1, <1>2, <2>1 DEF LeaseOf, LockOf
  <2>3. SelectionFor(q, worker[q])'
    BY <1>1, <1>2, <2>1 DEF LeaseOf, Promise, SelectionFor, Available
  <2> QED BY <1>1, <2>2, <2>3, BoundaryLease
<1>7. BoundaryInv' BY <1>1, <1>2 DEF BoundaryInv
<1>8. ArchiveInv' BY <1>1, <1>2 DEF ArchiveInv
<1>9. FenceReleased' BY <1>1, <1>4 DEF FenceReleased
<1> QED BY <1>5, <1>6, <1>7, <1>8, <1>9 DEF LeaseInv

\* An archive commits when nobody holds the landing lock of its resident.
LEMMA ArchiveCommitKeeps ==
    ASSUME LeaseInv, ArchiveCommit PROVE LeaseInv'
<1> DEFINE r == boundary.of
<1>1. /\ TypeOK /\ BoundaryInv /\ ArchiveInv /\ boundary.at = "archiveLock"
      /\ r \in Resident /\ lock[r] = "free"
      /\ UNCHANGED <<msgs, open, work, ingress, slot, calls, epoch, clean, worker, lock,
                     attempt, selectionBlocked, omitted, bounds>>
      /\ boundary' = NoBoundary
  BY DEF LeaseInv, BoundaryInv, ArchiveCommit, boundaryFrame
<1>2. NoBoundary \in Boundary /\ NoBoundary.at = "idle" BY RestingType DEF NoBoundary
<1>3. /\ \/ /\ status' = [status EXCEPT ![r] = "archived"]
            /\ selected' = IF selected = r THEN None ELSE selected
            /\ cleaning' = cleaning \cup {r} /\ UNCHANGED <<blocked, unread>>
         \/ /\ UNCHANGED <<status, selected, cleaning>>
            /\ \/ blocked' = (IF boundary.was THEN blocked ELSE blocked \ {r})
                  /\ UNCHANGED unread
               \/ unread' = TRUE /\ UNCHANGED blocked
      /\ poisoned' \in BOOLEAN /\ faults' \in 0 .. MaxFaults
  <2>1. poisoned' \in BOOLEAN /\ faults' \in 0 .. MaxFaults
    <3>1. poisoned \in BOOLEAN /\ faults \in 0 .. MaxFaults BY <1>1 DEF TypeOK
    <3>2. \/ UNCHANGED <<poisoned, faults>>
          \/ faults < MaxFaults /\ faults' = faults + 1
             /\ (poisoned' \in BOOLEAN \/ poisoned' = TRUE)
      BY Zenon DEF ArchiveCommit, Fault
    <3>3. poisoned' \in BOOLEAN BY <3>1, <3>2, Zenon
    <3>4. faults' \in 0 .. MaxFaults BY <3>1, <3>2
    <3> QED BY <3>3, <3>4
  <2>2. CASE status' = [status EXCEPT ![r] = "archived"] /\ cleaning' = cleaning \cup {r}
             /\ selected' = (IF selected = r THEN None ELSE selected)
             /\ UNCHANGED <<blocked, unread>>
    BY <2>1, <2>2
  <2>3. CASE UNCHANGED <<status, selected, cleaning>>
             /\ blocked' = (IF boundary.was THEN blocked ELSE blocked \ {r}) /\ UNCHANGED unread
    BY <2>1, <2>3
  <2>4. CASE UNCHANGED <<status, selected, cleaning>> /\ UNCHANGED blocked /\ unread' = TRUE
    BY <2>1, <2>4
  <2> QED BY <2>2, <2>3, <2>4 DEF ArchiveCommit
<1> HIDE DEF r
<1>4. /\ status' \in [Resident -> {"active", "archived"}] /\ selected' \in Resident \cup {None}
      /\ cleaning' \subseteq Resident /\ blocked' \subseteq Resident /\ unread' \in BOOLEAN
  BY <1>1, <1>3 DEF TypeOK
<1>5. TypeOK' BY <1>1, <1>2, <1>3, <1>4 DEF TypeOK
<1>6. ASSUME NEW q \in Resident PROVE LeaseOf(q)'
  <2>1. LeaseOf(q) BY DEF LeaseInv
  <2>2. LockOf(q)' BY <1>1, <1>2, <2>1 DEF LeaseOf, LockOf
  <2>3. worker[q].at \in WorkerLocked =>
           q # r /\ status'[q] = status[q] /\ (selected = q => selected' = q)
    <3>1. ASSUME worker[q].at \in WorkerLocked PROVE q # r
      BY <1>1, <2>1, <3>1 DEF LeaseOf, LockOf
    <3>2. ASSUME q # r PROVE status'[q] = status[q] /\ (selected = q => selected' = q)
      BY <1>1, <1>3, <3>2 DEF TypeOK
    <3> QED BY <3>1, <3>2
  <2>4. SelectionFor(q, worker[q])'
    BY <1>1, <1>2, <2>1, <2>3 DEF LeaseOf, Promise, SelectionFor, Available, WorkerLocked
  <2> QED BY <1>1, <2>2, <2>4, BoundaryLease
<1>7. BoundaryInv'
  <2>1. ASSUME NEW q \in cleaning' PROVE status'[q] = "archived"
    <3>1. (\A c \in cleaning : status[c] = "archived") /\ cleaning \subseteq Resident
      BY <1>1 DEF BoundaryInv, TypeOK
    <3>2. CASE cleaning' = cleaning /\ status' = status BY <2>1, <3>1, <3>2
    <3>3. CASE cleaning' = cleaning \cup {r} /\ status' = [status EXCEPT ![r] = "archived"]
      BY <1>1, <2>1, <3>1, <3>3 DEF TypeOK
    <3> QED BY <1>3, <3>2, <3>3
  <2> QED BY <1>1, <1>2, <2>1 DEF BoundaryInv
<1>8. ArchiveInv' BY <1>1, <1>2 DEF ArchiveInv
<1>9. FenceReleased' BY <1>1, <1>3 DEF FenceReleased, ArchiveInv, r
<1> QED BY <1>5, <1>6, <1>7, <1>8, <1>9 DEF LeaseInv

LEMMA CleanupKeeps ==
    ASSUME LeaseInv, NEW r \in Resident, Cleanup(r) PROVE LeaseInv'
<1>1. /\ TypeOK /\ r \in cleaning /\ cleaning' = cleaning \ {r}
      /\ UNCHANGED <<msgs, work, ingress, slot, calls, epoch, clean, worker, lock, status,
                     selected, poisoned, blocked, selectionBlocked, boundary, unread, omitted, bounds>>
  BY DEF LeaseInv, Cleanup, boundaryFrame
<1>2. /\ UNCHANGED open \/ open' = [open EXCEPT ![r] = 0]
      /\ UNCHANGED attempt
         \/ attempt' = [attempt EXCEPT ![r] = IF @ = "running" THEN "ended" ELSE @]
      /\ faults' \in 0 .. MaxFaults
  BY <1>1 DEF Cleanup, Fault, TypeOK
<1>3. open' \in [Resident -> 0 .. MaxMessages] /\ attempt' \in [Resident -> {"none", "running", "ended"}]
  BY <1>1, <1>2 DEF TypeOK
<1>4. TypeOK' BY <1>1, <1>2, <1>3 DEF TypeOK
<1>5. ASSUME NEW q \in Resident PROVE LeaseOf(q)'
  <2>1. LeaseOf(q) /\ msgs[q] \in Nat BY <1>1, Typed DEF LeaseInv
  <2>2. open'[q] \in {open[q], 0} BY <1>1, <1>2 DEF TypeOK
  <2>3. LockOf(q)' /\ BoundOf(q)' /\ CleanOf(q)'
    BY <1>1, <2>1, <2>2 DEF LeaseOf, LockOf, BoundOf, CleanOf
  <2>4. RoomFor(q, worker[q])' /\ SelectionFor(q, worker[q])' /\ CallFor(q, worker[q])'
    BY <1>1, <2>1 DEF LeaseOf, Promise, RoomFor, SelectionFor, CallFor, Available
  <2>5. EpochFor(q, worker[q])'
    BY <1>1, <2>1, <2>2 DEF LeaseOf, Promise, EpochFor, Captured
  <2> QED BY <1>1, <2>1, <2>3, <2>4, <2>5 DEF LeaseOf, Promise
<1>6. BoundaryInv' BY <1>1 DEF LeaseInv, BoundaryInv
<1>7. ArchiveInv' /\ FenceReleased' BY <1>1 DEF LeaseInv, ArchiveInv, FenceReleased
<1> QED BY <1>4, <1>5, <1>6, <1>7 DEF LeaseInv

-----------------------------------------------------------------------------
(* The specification.                                                      *)

LEMMA InitLease == Init => LeaseInv
<1> SUFFICES ASSUME Init PROVE LeaseInv OBVIOUS
<1>1. TypeOK
  <2>1. Resting \in Worker /\ NoIngress \in Ingress /\ NoBoundary \in Boundary BY RestingType
  <2>2. 0 \in Epoch /\ 0 \in Call BY DEF Epoch, Call
  <2>3. 0 \in 0 .. MaxMessages /\ 0 \in 0 .. MaxBounds /\ 0 \in 0 .. MaxFaults OBVIOUS
  <2>4. /\ status \in [Resident -> {"active", "archived"}] /\ selected \in Resident \cup {None}
        /\ msgs \in [Resident -> 0 .. MaxMessages] /\ open \in [Resident -> 0 .. MaxMessages]
        /\ attempt \in [Resident -> {"none", "running", "ended"}] /\ poisoned \in BOOLEAN
    BY <2>3 DEF Init
  <2>5. /\ epoch \in [Resident -> Epoch] /\ clean \in [Resident -> Epoch \cup {Unproved}]
        /\ blocked \subseteq Resident /\ selectionBlocked \in BOOLEAN
        /\ slot \in [Resident -> Call] /\ calls \in [Resident -> Call]
    BY <2>2 DEF Init
  <2>6. /\ lock \in [Resident -> {"free", "worker", "ingress", "boundary"}]
        /\ worker \in [Resident -> Worker] /\ ingress \in [Resident -> Ingress]
        /\ boundary \in Boundary
    BY <2>1 DEF Init
  <2> QED BY <2>3, <2>4, <2>5, <2>6 DEF Init, TypeOK
<1>2. ASSUME NEW r \in Resident PROVE LeaseOf(r)
  <2>1. /\ worker[r] = Resting /\ Resting.at = "idle" /\ Resting.epoch = 0
        /\ ingress[r] = NoIngress /\ NoIngress.at = "idle"
        /\ boundary = NoBoundary /\ NoBoundary.at = "idle"
    BY DEF Init, Resting, NoIngress, NoBoundary
  <2>2. LockOf(r) BY <2>1 DEF Init, LockOf, WorkerLocked, IngressLocked
  <2>3. BoundOf(r) /\ CleanOf(r) BY <2>1 DEF Init, BoundOf, CleanOf, Unproved
  <2>4. Promise(r, worker[r])
    BY <2>1 DEF Init, Promise, RoomFor, SelectionFor, EpochFor, CallFor, Captured, Registered
  <2> QED BY <2>1, <2>2, <2>3, <2>4 DEF LeaseOf
<1>3. boundary = NoBoundary /\ NoBoundary.at = "idle" BY DEF Init, NoBoundary
<1>4. BoundaryInv /\ ArchiveInv /\ FenceReleased
  BY <1>3 DEF Init, BoundaryInv, ArchiveInv, FenceReleased
<1> QED BY <1>1, <1>2, <1>4 DEF LeaseInv

LEMMA WorkerKeeps ==
    ASSUME LeaseInv, NEW r \in Resident, WorkerStep(r) PROVE LeaseInv'
<1>1. CASE TurnScan(r) \/ TurnRecord(r) \/ FairCapture(r) \/ WorkAdmit(r) \/ NormalCapture(r)
  BY <1>1, TurnScanKeeps, TurnRecordKeeps, FairCaptureKeeps, WorkAdmitKeeps, NormalCaptureKeeps
<1>2. CASE BeginLock(r) \/ BeginSelected(r) \/ BeginRegister(r) \/ BeginSubmit(r) \/ Begun(r)
  BY <1>2, BeginLockKeeps, BeginSelectedKeeps, BeginRegisterKeeps, BeginSubmitKeeps, BegunKeeps
<1>3. CASE RegisterResumed(r) \/ Check(r) \/ Fail(r)
  BY <1>3, RegisterResumedKeeps, CheckKeeps, FailKeeps
<1>4. CASE LandLock(r) \/ LandCheck(r) \/ LandSelected(r) \/ LandSubmit(r)
  BY <1>4, LandLockKeeps, LandCheckKeeps, LandSelectedKeeps, LandSubmitKeeps
<1> QED BY <1>1, <1>2, <1>3, <1>4 DEF WorkerStep

LEMMA IngressStepKeeps ==
    ASSUME LeaseInv, NEW r \in Resident, IngressStart(r) \/ IngressStep(r) PROVE LeaseInv'
  BY IngressReadKeeps, IngressSubmitKeeps, IngressPreemptKeeps, IngressCancelKeeps
     DEF IngressStep

LEMMA StutterKeeps ==
    ASSUME LeaseInv, UNCHANGED vars PROVE LeaseInv'
<1>1. /\ UNCHANGED <<Global, work, ingress, msgs, open, epoch, clean, slot, calls, attempt,
                     poisoned, lock, worker, faults>>
  BY DEF vars, durableVars, fenceVars, boundVars, Global
<1>2. TypeOK' BY <1>1 DEF LeaseInv, TypeOK, Global
<1>3. ASSUME NEW q \in Resident PROVE LeaseOf(q)'
  <2>1. LeaseOf(q) BY DEF LeaseInv
  <2>2. LockOf(q)' BY <1>1, <2>1 DEF LeaseOf, LockOf, Global
  <2>3. SelectionFor(q, worker[q])'
    BY <1>1, <2>1 DEF LeaseOf, Promise, SelectionFor, Available, Global
  <2> QED BY <1>1, <2>2, <2>3, BoundaryLease DEF Global
<1>4. BoundaryInv' /\ ArchiveInv' /\ FenceReleased'
  BY <1>1 DEF LeaseInv, BoundaryInv, ArchiveInv, FenceReleased, Global
<1> QED BY <1>2, <1>3, <1>4 DEF LeaseInv

LEMMA LeaseStep == LeaseInv /\ [Next]_vars => LeaseInv'
<1> SUFFICES ASSUME LeaseInv, [Next]_vars PROVE LeaseInv' OBVIOUS
<1>1. CASE \E r \in Working : IngressStart(r) \/ IngressStep(r) BY <1>1, IngressStepKeeps
<1>2. CASE \E r \in Working : TurnStart(r) \/ WorkerStep(r) \/ Provider(r)
  BY <1>2, TurnStartKeeps, WorkerKeeps, ProviderKeeps
<1>3. CASE \E r \in Resident : SelectStart(r) \/ ArchiveStart(r) \/ Cleanup(r)
  BY <1>3, SelectStartKeeps, ArchiveStartKeeps, CleanupKeeps
<1>4. CASE BoundaryStep
  BY <1>4, SelectLockKeeps, SelectCommitKeeps, SelectEndKeeps, ArchiveCommitKeeps
     DEF BoundaryStep
<1>5. CASE UNCHANGED vars BY <1>5, StutterKeeps
<1> QED BY <1>1, <1>2, <1>3, <1>4, <1>5 DEF Next

\* Every state of the leases is well typed: the epochs and the call numbers stay
\* within the bounds that the guards of the model give them.
THEOREM LeaseTyped == Spec => []TypeOK
<1>1. LeaseInv => TypeOK BY DEF LeaseInv
<1> QED BY <1>1, InitLease, LeaseStep, PTL DEF Spec

\* preemptBackground and the boundaries always find the live provider call: a call
\* that outlived its epoch is cancelled, or the ingress that advanced the epoch is
\* about to cancel it.
THEOREM CallsPreempted == Spec => []PreemptionReaches
<1>1. LeaseInv => PreemptionReaches
  BY DEF LeaseInv, LeaseOf, Promise, CallFor, PreemptionReaches
<1> QED BY <1>1, InitLease, LeaseStep, PTL DEF Spec

\* Between boundaries the selected resident is never left fenced, unless the last
\* SelectResident or ArchiveResident could not read its own outcome.
THEOREM FencesReleased == Spec => []FenceReleased
<1>1. LeaseInv => FenceReleased BY DEF LeaseInv
<1> QED BY <1>1, InitLease, LeaseStep, PTL DEF Spec

\* A background call starts and lands durably inside its lease only: for a resident
\* that is active and selected, with no message accepted since the epoch was
\* captured and, for normal work, with none open.
THEOREM LandsInsideLease == Spec => StepsInsideLease
<1> DEFINE Inside ==
      \A r \in Resident : Landing(r) \/ Starting(r) =>
          /\ Available(r) \/ (Starting(r) /\ status[r] = "active" /\ omitted)
          /\ msgs[r] = worker[r].seen
          /\ ~worker[r].fair => open[r] = 0
<1>1. ASSUME LeaseInv PROVE Inside
  <2> SUFFICES ASSUME NEW r \in Resident, Landing(r) \/ Starting(r)
               PROVE  /\ Available(r) \/ (Starting(r) /\ status[r] = "active" /\ omitted)
                      /\ msgs[r] = worker[r].seen
                      /\ ~worker[r].fair => open[r] = 0
    OBVIOUS
  <2>1. SelectionFor(r, worker[r]) /\ EpochFor(r, worker[r])
    BY <1>1 DEF LeaseInv, LeaseOf, Promise
  <2>2. worker[r].at \in {"landSubmit", "beginSubmit"} BY DEF Landing, Starting
  <2>3. msgs[r] = worker[r].seen /\ (~worker[r].fair => open[r] = 0)
    BY <2>1, <2>2 DEF EpochFor
  <2>4. CASE Landing(r) BY <2>1, <2>3, <2>4 DEF Landing, SelectionFor
  <2>5. CASE Starting(r)
    <3>1. status[r] = "active" /\ (selected = r \/ omitted)
      BY <2>1, <2>5 DEF Starting, SelectionFor
    <3> QED BY <2>3, <2>5, <3>1 DEF Available
  <2> QED BY <2>4, <2>5
<1>2. LeaseInv /\ [Next]_vars => [Inside]_vars BY <1>1
<1> QED BY <1>2, InitLease, LeaseStep, PTL DEF Spec, StepsInsideLease

=============================================================================
