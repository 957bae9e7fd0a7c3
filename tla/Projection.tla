---------------------------- MODULE Projection -----------------------------
(***************************************************************************)
(* The projections of one resident: derived tables that the Coordinator    *)
(* brings towards the Canonical head, each with a watermark that says      *)
(* through which commit and as of which instant its body was evaluated.    *)
(* Every update runs under the resident's lock; the transaction that       *)
(* replaces body and watermark passes the write gate, where Canonical      *)
(* commits have priority.                                                  *)
(*                                                                         *)
(* claim_states and runtime_states depend on time and form a cohort: their *)
(* readers need both at one target.  claim_states also depends on the      *)
(* memory policy that is active at its target.                             *)
(***************************************************************************)
EXTENDS WriteGate, Sequences, FiniteSetsExt, SequencesExt

CONSTANTS
    None,
    Plain,        \* the projections that do not depend on time
    Required,     \* those of them a resident needs for its dialogue
    Activations,  \* the commits that activate a memory policy
    MaxCommits,   \* bound on the ledger
    MaxClock,     \* bound on the wall clock
    MaxOps,       \* bound on operational transactions
    MaxFaults     \* bound on errors, cancellations, clock set-backs, stops, crashes

\* Which side of the gate the transactions of this module enter by.
ASSUME GateSides == {"canonical", "operational"} \subseteq High /\ "projection" \in Low

\* A registry has finitely many projections, and those of a turn are among them.
ASSUME PlainAssumption ==
    /\ IsFiniteSet(Plain) /\ Plain \cap {"claim", "runtime"} = {}
    /\ Required \subseteq Plain

\* What stands for nothing is no failure and no watermark.
ASSUME NoneAssumption ==
    /\ None \notin [retryAt : Nat, refresh : BOOLEAN]
    /\ None \notin [seq : Nat, asOf : Nat, policy : Nat]

VARIABLES
    ledger,       \* canonical_commits: when, and whether a memory policy is activated
    clock,        \* the wall clock
    mark,         \* projection_watermarks: None or [seq, asOf, policy]
    body,         \* the projected rows, by what they were evaluated from
    phase,        \* how far the process that owns the Coordinator is
    job,          \* the holder of the resident lock and how far it is
    wanted,       \* a retry the run loop has accepted and will lock for
    hint,         \* a notification is queued
    failures,     \* coordinator.failures
    timers,       \* retry goroutines, by the signal they will deliver
    ops, faults

stored == <<ledger, mark, body>>
loop == <<wanted, hint>>
retrying == <<failures, timers>>
bounds == <<ops, faults>>
vars == <<gateVars, stored, clock, phase, job, loop, retrying, bounds>>

Timed == {"claim", "runtime"}
Definition == Timed \cup Plain
NoJob == [kind |-> "none"]   \* nobody holds the resident lock
GroupOf(d) == IF d \in Timed THEN Timed ELSE {d}

Fault == faults < MaxFaults /\ faults' = faults + 1
HeadSeq == Len(ledger)

\* captureTarget: the head, and an instant that is never before it.
captureTarget ==
    [seq |-> HeadSeq, asOf |-> Max({clock, ledger[HeadSeq].at})]

---------------------------------------------------------------------------
(* Planning an update *)

\* The last activation that is committed through the cursor and recorded by
\* the instant.
resolveMemoryPolicyDependency(seq, asOf) ==
    Max({i \in 1..seq : ledger[i].policy /\ ledger[i].at <= asOf} \cup {0})

ResolveDependencies(d, target) ==
    IF d = "claim" THEN resolveMemoryPolicyDependency(target.seq, target.asOf) ELSE 0

\* ResolveDependencies first holds the stored dependency against its own
\* target: a watermark that fails here can never be updated again.
validateStoredClaimStatesDependency(d) ==
    d = "claim" /\ mark[d] # None =>
        mark[d].policy = resolveMemoryPolicyDependency(mark[d].seq, mark[d].asOf)

DependencyActivated(d, after, through) ==
    d = "claim" /\ \E i \in (after + 1)..through : ledger[i].policy

Refused == [kind |-> "refused", commit |-> FALSE, asOf |-> FALSE]
UpToDate == [kind |-> "upToDate", commit |-> FALSE, asOf |-> FALSE]
Full(d, kind) == [kind |-> kind, commit |-> TRUE, asOf |-> d \in Timed]

\* The decision order of PlanUpdate: a target before the watermark is refused,
\* another policy or an activation in between rebuilds, otherwise the commits
\* and the instant are caught up independently.
PlanUpdate(d, old, target, policy) ==
    LET commit == old.seq < target.seq
        asOf == d \in Timed /\ old.asOf < target.asOf
    IN  IF target.asOf < old.asOf \/ target.seq < old.seq THEN Refused
        ELSE IF old.policy # policy \/ DependencyActivated(d, old.seq, target.seq)
        THEN Full(d, "rebuild")
        ELSE IF commit \/ asOf THEN [kind |-> "update", commit |-> commit, asOf |-> asOf]
        ELSE UpToDate

\* What an absent watermark and a forced rebuild make of it.
Plan(d, old, target, policy, force) ==
    IF old = None THEN Full(d, "build")
    ELSE LET plan == PlanUpdate(d, old, target, policy)
         IN  IF force /\ plan # Refused THEN Full(d, "rebuild") ELSE plan

\* targetWatermark: what is not caught up keeps its old value.
targetWatermark(old, target, policy, plan) ==
    [seq |-> IF plan.commit THEN target.seq ELSE old.seq,
     asOf |-> IF plan.asOf \/ plan.kind \in {"build", "rebuild"}
              THEN target.asOf ELSE old.asOf,
     policy |-> policy]

\* The rows of the claim tables that are committed through the cursor and
\* recorded by the instant.
loadClaimRows(target) == {i \in 1..target.seq : ledger[i].at <= target.asOf}

evaluateClaimStates(target, policy) ==
    [rows |-> loadClaimRows(target), asOf |-> target.asOf, policy |-> policy]

evaluateRuntimeState(target) ==
    [rows |-> 1..target.seq, asOf |-> target.asOf, policy |-> 0]

\* Status, revisions, view scopes and content references.
evaluateRows(target) == [rows |-> 1..target.seq, asOf |-> 0, policy |-> 0]

\* The Canonical tables only grow, so a body is determined by what it was
\* evaluated from, however long the evaluation takes.
Evaluate(d, target, policy) ==
    CASE d = "claim" -> evaluateClaimStates(target, policy)
      [] d = "runtime" -> evaluateRuntimeState(target)
      [] OTHER -> evaluateRows(target)

\* What Apply accepts before it opens its transaction.
validateProjectionApply(d, old, new, plan) ==
    /\ d = "claim" => new.policy # 0
    /\ old # None =>
         /\ new.asOf >= old.asOf /\ new.seq >= old.seq
         /\ plan.kind = "update" =>
              /\ IF plan.commit THEN new.seq > old.seq ELSE new.seq = old.seq
              /\ IF plan.asOf THEN new.asOf > old.asOf ELSE new.asOf = old.asOf

---------------------------------------------------------------------------
(* The lock of the resident, and the loop of its holder *)

\* Without a refresh the cohort keeps its instant; a cohort that is split meets
\* at the latest instant that is stored or captured, so that nobody regresses.
preservedCohortTarget(target) ==
    LET instants == {mark[d].asOf : d \in {e \in Timed : mark[e] # None}}
    IN  CASE instants = {} -> target
          [] Cardinality(instants) = 1 -> [target EXCEPT !.asOf = Max(instants)]
          [] OTHER -> [target EXCEPT !.asOf = Max(instants \cup {target.asOf})]

retryPending(d) == failures[d] # None /\ clock < failures[d].retryAt
groupRetryPending(d) == \E e \in GroupOf(d) : retryPending(e)

\* A holder takes the lock and captures its target.  `todo' are its definitions
\* in the order of the loop.
Lock(kind, automatic, refresh, force, todo) ==
    /\ job = NoJob
    /\ job' = [kind |-> kind, automatic |-> automatic, refresh |-> refresh, force |-> force,
               target |-> captureTarget,
               cohort |-> IF refresh THEN captureTarget
                          ELSE preservedCohortTarget(captureTarget),
               todo |-> todo,
               write |-> None, failed |-> FALSE]

TargetOf(d) == IF d \in Timed THEN job.cohort ELSE job.target

\* A retry goroutine is started only while the Coordinator runs.
recordFailure(d) ==
    LET f == [retryAt |-> clock + 1, refresh |-> job.refresh]
    IN  /\ failures' = [failures EXCEPT ![d] = f]
        /\ timers' = IF phase \in {"starting", "running"}
                     THEN timers \cup {[key |-> d, failure |-> f]} ELSE timers

clearFailure(d) == failures' = [failures EXCEPT ![d] = None] /\ UNCHANGED timers

\* On to the next definition; preflightAtTarget returns at the first failure.
Advanced(ok) ==
    [job EXCEPT !.todo = IF ok \/ job.kind # "preflight" THEN Tail(@) ELSE <<>>,
                !.write = None,
                !.failed = @ \/ ~ok]

This == Head(job.todo)
Skipped == job.automatic /\ This \in Plain /\ groupRetryPending(This)
\* The holder has a definition to update and no transaction in the gate.
Updating == job # NoJob /\ job.todo # <<>> /\ at["projection"] = "out"

Fails(d) == recordFailure(d) /\ job' = Advanced(FALSE)
Succeeds(d) == clearFailure(d) /\ job' = Advanced(TRUE)

\* updateWithTarget up to its transaction.  It reads nothing past its target,
\* and only the holder of the lock writes watermarks: its reads are one step.
Request(d) ==
    LET policy == ResolveDependencies(d, TargetOf(d))
        plan == Plan(d, mark[d], TargetOf(d), policy, job.force)
    IN  [plan |-> plan, observed |-> mark[d],
         new |-> targetWatermark(mark[d], TargetOf(d), policy, plan),
         value |-> Evaluate(d, TargetOf(d), policy)]

Acceptable(d, r) ==
    /\ validateStoredClaimStatesDependency(d)
    /\ r.plan # Refused
    /\ r.plan # UpToDate => validateProjectionApply(d, r.observed, r.new, r.plan)

SkipGroup ==
    /\ Updating /\ Skipped
    /\ job' = Advanced(TRUE)
    /\ UNCHANGED <<gateVars, stored, clock, phase, loop, retrying, bounds>>

UpdateRefused ==
    /\ Updating /\ ~Skipped
    /\ ~Acceptable(This, Request(This))
    /\ Fails(This)
    /\ UNCHANGED <<gateVars, stored, clock, phase, loop, bounds>>

\* A read fails, or its context is over.
UpdateUnreadable ==
    /\ Updating /\ ~Skipped
    /\ IF phase = "stopping" THEN UNCHANGED faults ELSE Fault
    /\ Fails(This)
    /\ UNCHANGED <<gateVars, stored, clock, phase, loop, ops>>

UpdateNotNeeded ==
    /\ Updating /\ ~Skipped
    /\ Acceptable(This, Request(This)) /\ Request(This).plan = UpToDate
    /\ Succeeds(This)
    /\ UNCHANGED <<gateVars, stored, clock, phase, loop, bounds>>

UpdateEnters ==
    /\ Updating /\ ~Skipped
    /\ Acceptable(This, Request(This)) /\ Request(This).plan # UpToDate
    /\ job' = [job EXCEPT !.write = Request(This)]
    /\ Enter("projection")
    /\ UNCHANGED <<stored, clock, phase, loop, retrying, bounds>>

ProjectionRechecks ==
    /\ Recheck("projection")
    /\ UNCHANGED <<stored, clock, phase, job, loop, retrying, bounds>>

\* The context of a dialogue turn or of the Coordinator ends in the gate.
ProjectionCancelled ==
    /\ \/ phase = "stopping" /\ UNCHANGED faults
       \/ job.kind = "turn" /\ Fault
    /\ Cancel("projection")
    /\ Fails(This)
    /\ UNCHANGED <<stored, clock, phase, loop, ops>>

\* verifyProjectionCAS, the new body and the new watermark in one transaction.
Apply ==
    /\ at["projection"] = "in"
    /\ job.write.observed = mark[This]
    /\ mark' = [mark EXCEPT ![This] = job.write.new]
    /\ body' = [body EXCEPT ![This] = job.write.value]
    /\ releaseFunc("projection")
    /\ Succeeds(This)
    /\ UNCHANGED <<ledger, clock, phase, loop, bounds>>

\* A slip: body and watermark without a transaction around them.
TornWrites(d) ==
    {<<mark[d], body[d]>>, <<mark[d], job.write.value>>, <<job.write.new, job.write.value>>}

\* What a transaction that reports an error may have left in the database.
FailedWrites(d) ==
    {<<mark[d], body[d]>>, <<job.write.new, job.write.value>>}

ApplyFails ==
    /\ at["projection"] = "in"
    /\ IF phase = "stopping" THEN UNCHANGED faults ELSE Fault
    /\ \E w \in FailedWrites(This) :
         mark' = [mark EXCEPT ![This] = w[1]] /\ body' = [body EXCEPT ![This] = w[2]]
    /\ releaseFunc("projection")
    /\ Fails(This)
    /\ UNCHANGED <<ledger, clock, phase, loop, ops>>

---------------------------------------------------------------------------
(* Who takes the lock *)

\* An automatic pass drops the cohort while a retry of a member is still to come.
WithoutRetries(automatic, group) ==
    IF automatic /\ (\E d \in Range(group) : groupRetryPending(d)) THEN <<>> ELSE group

\* A slip: a retry updates the definition that failed, and only that.
reconcileGroupsAlone(automatic, S) ==
    WithoutRetries(automatic, SetToSeq(S \cap Timed)) \o SetToSeq(S \cap Plain)

\* reconcileGroups: a pass over one member of the cohort is one over both.
reconcileGroups(automatic, S) ==
    (IF S \cap Timed = {} THEN <<>> ELSE WithoutRetries(automatic, <<"claim", "runtime">>))
        \o SetToSeq(S \cap Plain)

Idle == UNCHANGED <<gateVars, stored, clock, bounds, retrying>>

\* serve: PreflightContentReferences, then PreflightServiceResident.
PreflightContentReferences ==
    /\ phase = "references"
    /\ Lock("preflight", FALSE, TRUE, FALSE, SetToSeq(Plain \ Required))
    /\ Idle /\ UNCHANGED <<phase, loop>>

PreflightServiceResident ==
    /\ phase = "service"
    /\ Lock("preflight", FALSE, TRUE, FALSE, <<"claim">> \o SetToSeq(Required) \o <<"runtime">>)
    /\ Idle /\ UNCHANGED <<phase, loop>>

\* The first reconciliation of run.
StartupReconcile ==
    /\ phase = "starting"
    /\ Lock("startup", TRUE, TRUE, FALSE, reconcileGroups(TRUE, Definition))
    /\ Idle /\ UNCHANGED <<phase, loop>>

LoopFree == wanted = None /\ job.kind # "loop"

TakeNotification ==
    /\ phase = "running" /\ LoopFree /\ hint
    /\ Lock("loop", TRUE, FALSE, FALSE, reconcileGroups(TRUE, Definition))
    /\ hint' = FALSE
    /\ Idle /\ UNCHANGED <<phase, wanted>>

retryIsCurrent(signal) == failures[signal.key] = signal.failure

\* A timer has fired and the loop reads its signal; the lock comes later.
TakeRetry(signal) ==
    /\ phase = "running" /\ LoopFree
    /\ timers' = timers \ {signal}
    /\ wanted' = IF retryIsCurrent(signal) THEN signal ELSE None
    /\ UNCHANGED <<gateVars, stored, clock, phase, job, hint, failures, bounds>>

Retry ==
    /\ phase = "running" /\ wanted # None
    /\ Lock("loop", FALSE, wanted.failure.refresh, FALSE, reconcileGroups(FALSE, {wanted.key}))
    /\ wanted' = None
    /\ Idle /\ UNCHANGED <<phase, hint>>

\* scheduleUnits: the cohort is one unit, every other definition one of its own.
Units == {"claim"} \cup Plain

\* runSchedule of the unit that d stands for.
ScanTick(d) ==
    /\ phase = "running"
    /\ Lock("tick", TRUE, FALSE, FALSE, reconcileGroups(TRUE, {d}))
    /\ Idle /\ UNCHANGED <<phase, loop>>

AsOfTick ==
    /\ phase = "running"
    /\ Lock("tick", TRUE, TRUE, FALSE, reconcileGroups(TRUE, Timed))
    /\ Idle /\ UNCHANGED <<phase, loop>>

TurnOrder == SetToSeq(Required) \o <<"runtime", "claim">>

\* A dialogue turn brings what it reads to one target, the plain ones first.
ReconcileServiceRequiredResident ==
    /\ phase = "running"
    /\ Lock("turn", FALSE, TRUE, FALSE, TurnOrder)
    /\ Idle /\ UNCHANGED <<phase, loop>>

\* The rebuild commands, for one definition and its group or for all.
Rebuild(S) ==
    /\ phase = "offline"
    /\ Lock("rebuild", FALSE, TRUE, TRUE, reconcileGroups(FALSE, S))
    /\ Idle /\ UNCHANGED <<phase, loop>>

requireCurrentAtTarget(d) ==
    /\ mark[d] # None
    /\ mark[d].policy = ResolveDependencies(d, job.target)
    /\ PlanUpdate(d, mark[d], job.target, mark[d].policy) = UpToDate

\* What the end of a pass means: a preflight also asks for the head and for
\* every watermark again, and a failed one, or a failed first reconciliation,
\* ends serve.
Outcome ==
    LET required == IF phase = "references" THEN Plain \ Required ELSE Timed \cup Required
        proved == ~job.failed /\ HeadSeq = job.target.seq
                  /\ \A d \in required : requireCurrentAtTarget(d)
    IN  IF job.kind = "preflight" /\ proved
        THEN IF phase = "references" THEN "service" ELSE "starting"
        ELSE IF job.kind = "startup" /\ ~job.failed /\ phase = "starting" THEN "running"
        ELSE IF job.kind \in {"preflight", "startup", "rebuild"} THEN "down"
        ELSE phase

Forgotten ==
    /\ job' = NoJob /\ wanted' = None /\ hint' = FALSE
    /\ failures' = [d \in Definition |-> None] /\ timers' = {}

Unlock ==
    /\ job # NoJob /\ job.todo = <<>>
    /\ phase' = Outcome
    /\ IF Outcome = "down" THEN Forgotten
       ELSE job' = NoJob /\ UNCHANGED <<loop, retrying>>
    /\ UNCHANGED <<gateVars, stored, clock, bounds>>

---------------------------------------------------------------------------
(* The process, the clock and the other writers *)

Boot ==
    /\ phase = "down"
    /\ phase' \in {"references", "offline"}
    /\ at["canonical"] = "out" /\ at["operational"] = "out"
    /\ UNCHANGED <<gateVars, stored, clock, job, loop, retrying, bounds>>

Stop ==
    /\ phase = "running" /\ Fault
    /\ phase' = "stopping"
    /\ UNCHANGED <<gateVars, stored, clock, job, loop, retrying, ops>>

Wait ==
    /\ phase = "stopping" /\ job = NoJob
    /\ phase' = "down"
    /\ Forgotten
    /\ UNCHANGED <<gateVars, stored, clock, bounds>>

Crash ==
    /\ phase # "down" /\ Fault
    /\ phase' = "down"
    /\ Forgotten
    /\ active' = FALSE /\ highWaiting' = 0 /\ at' = [p \in Caller |-> "out"]
    /\ UNCHANGED <<stored, clock, ops>>

Tick ==
    /\ clock < MaxClock /\ job = NoJob
    /\ clock' = clock + 1
    /\ UNCHANGED <<gateVars, stored, phase, job, loop, retrying, bounds>>

ClockBack ==
    /\ clock > 1 /\ Fault /\ job = NoJob
    /\ clock' = clock - 1
    /\ UNCHANGED <<gateVars, stored, phase, job, loop, retrying, ops>>

Elsewhere == UNCHANGED <<clock, phase, job, retrying, wanted, mark, body>>

CanonicalEnters ==
    /\ phase \notin {"down", "offline"} /\ HeadSeq < MaxCommits
    /\ Enter("canonical")
    /\ Elsewhere /\ UNCHANGED <<ledger, hint, ops, faults>>

OperationalEnters ==
    /\ phase = "running" /\ ops < MaxOps
    /\ ops' = ops + 1
    /\ Enter("operational")
    /\ Elsewhere /\ UNCHANGED <<ledger, hint, faults>>

HighRechecks(p) ==
    /\ Recheck(p)
    /\ Elsewhere /\ UNCHANGED <<ledger, hint, ops, faults>>

HighCancelled(p) ==
    /\ Fault /\ Cancel(p)
    /\ Elsewhere /\ UNCHANGED <<ledger, hint, ops>>

\* The Writer commits; the hint to the Coordinator may be dropped.
CanonicalCommits ==
    /\ at["canonical"] = "in"
    /\ ledger' = Append(ledger, [at |-> Max({clock, ledger[HeadSeq].at + 1}),
                                 policy |-> HeadSeq + 1 \in Activations])
    /\ hint' \in {hint, TRUE}
    /\ releaseFunc("canonical")
    /\ Elsewhere /\ UNCHANGED <<ops, faults>>

OperationalEnds ==
    /\ releaseFunc("operational")
    /\ Elsewhere /\ UNCHANGED <<ledger, hint, ops, faults>>

---------------------------------------------------------------------------

\* A resident was created with a memory policy; nothing is projected yet.
Init ==
    /\ GateInit
    /\ ledger = <<[at |-> 1, policy |-> TRUE]>>
    /\ clock = 1
    /\ mark = [d \in Definition |-> None]
    /\ body = [d \in Definition |-> None]
    /\ phase = "down"
    /\ job = NoJob /\ wanted = None /\ hint = FALSE
    /\ failures = [d \in Definition |-> None] /\ timers = {}
    /\ ops = 0 /\ faults = 0

JobStep ==
    \/ SkipGroup \/ UpdateRefused \/ UpdateNotNeeded \/ UpdateEnters
    \/ ProjectionRechecks \/ Apply \/ Unlock

Starting ==
    PreflightContentReferences \/ PreflightServiceResident \/ StartupReconcile
    \/ (\E S \in {Timed, Definition} \cup {{d} : d \in Plain} : Rebuild(S))

HighStep(p) ==
    \/ HighRechecks(p)
    \/ p = "canonical" /\ CanonicalCommits
    \/ p = "operational" /\ OperationalEnds

Next ==
    \/ JobStep \/ UpdateUnreadable \/ ProjectionCancelled \/ ApplyFails
    \/ Starting \/ TakeNotification \/ Retry \/ AsOfTick
    \/ ReconcileServiceRequiredResident
    \/ \E s \in timers : TakeRetry(s)
    \/ \E d \in Units : ScanTick(d)
    \/ Boot \/ Stop \/ Wait \/ Crash \/ Tick \/ ClockBack
    \/ CanonicalEnters \/ OperationalEnters
    \/ \E p \in High : HighStep(p) \/ HighCancelled(p)

Spec == Init /\ [][Next]_vars

\* The holder of the lock and the writers in the gate go on.  The retries and
\* the tickers ask for the lock again and again, and sync.Mutex hands it to a
\* waiter that has waited long enough: strong fairness.  Hints, scans of the
\* cohort and turns need none.
Fairness ==
    /\ WF_vars(JobStep)
    /\ \A p \in High : WF_vars(HighStep(p))
    /\ SF_vars(Retry)
    /\ SF_vars(\E s \in timers : TakeRetry(s))
    /\ SF_vars(AsOfTick)
    /\ \A d \in Plain : SF_vars(ScanTick(d))
    /\ SF_vars(Tick)

FairSpec == Spec /\ Fairness

---------------------------------------------------------------------------
(* Properties *)

\* A watermark tells what its body was evaluated from, it never claims more
\* than the ledger holds, and the policy it names is the one that is active at
\* its own cursor and instant: otherwise ResolveDependencies would refuse the
\* projection on every later pass.
WatermarkSound ==
    \A d \in Definition : mark[d] # None =>
        /\ body[d] = Evaluate(d, mark[d], mark[d].policy)
        /\ mark[d].seq \in 1..HeadSeq
        /\ mark[d].policy = ResolveDependencies(d, mark[d])
        /\ d = "claim" => mark[d].policy # 0

\* While the Coordinator runs and no failure of a member is on record, whoever
\* gets the resident's lock finds claim_states and runtime_states at one
\* target, whichever of the passes failed, was cancelled or came out of order.
CohortTogether ==
    phase = "running" /\ job = NoJob /\ (\A d \in Timed : failures[d] = None) =>
        /\ mark["claim"] # None /\ mark["runtime"] # None
        /\ mark["claim"].asOf = mark["runtime"].asOf
        /\ mark["claim"].seq = mark["runtime"].seq

Settled ==
    /\ \A d \in Definition : failures[d] = None /\ mark[d].seq = HeadSeq
    /\ \A d \in Timed : mark[d].asOf >= clock
    /\ mark["claim"].policy = Max({i \in 1..HeadSeq : ledger[i].policy})

\* As long as the Coordinator runs, every projection comes back to the head,
\* to the clock and to the last policy, and its failures are cleared: also
\* when hints were dropped, retries failed, the clock went back, or a waiting
\* Canonical writer was cancelled and left the gate.
Converges == []<>(phase # "running" \/ Settled)

============================================================================
