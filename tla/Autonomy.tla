------------------------------ MODULE Autonomy ------------------------------
(***************************************************************************)
(* What the resident does unasked: self-talk and outbound initiatives.     *)
(*                                                                         *)
(* A trigger is frozen into at most one generation run.  The run is        *)
(* prepared in one commit, its provider call happens outside, and it lands *)
(* in another; every commit decides again whether the resident may speak,  *)
(* from the ledger of that moment.  Runs survive a restart, so a run left  *)
(* running or waiting is taken up by a later scan.                         *)
(*                                                                         *)
(* Quiet hours and the enabled flags are configuration and left out, and   *)
(* so is the trigger on volatile aging, which differs from                 *)
(* future_to_current in its boundary.                                      *)
(***************************************************************************)
EXTENDS ClaimLedger

CONSTANTS
    ValidFrom,     \* statement -> the time from which it holds; 0 without one
    Limits,        \* the autonomy policy
    MaxAttempts,   \* attempts of a run that fail before it is terminal
    MaxNow         \* bound on the clock

ASSUME AutonomyAssumption == {Limits.consecutive, Limits.initiativeDaily} \subseteq Nat

VARIABLE autos     \* runs in the order of their commits

SelfTalkKinds == {"idle", "meta_dependency_status_change", "settled_direct_conflict"}
Purpose(t)    == IF t.kind \in SelfTalkKinds THEN "self_talk" ELSE "outbound_initiative"

\* A trigger and what makes it one of a kind: an idle period by the message
\* it follows and its ordinal, a dependency change by the status row, a
\* conflict by the two claims, a validity that has begun by its claim.
Trigger(kind, event, claim, n) == [kind |-> kind, event |-> event, claim |-> claim, n |-> n]

RunFor(t) == {k \in DOMAIN autos : autos[k].trigger = t}

(***************************************************************************)
(* The snapshot a decision is made from.                                   *)
(***************************************************************************)

\* Place of the latest event of a type; 0 when there is none.
autonomyLatestEvent(type) == Max({0} \cup {k \in DOMAIN log : TypeOf[log[k].event] = type})

\* The self-talk since the last message.
SelfTalkSince(told) ==
    Cardinality({k \in DOMAIN told : /\ TypeOf[told[k]] = "self_talk"
                                     /\ \A j \in DOMAIN told : TypeOf[told[j]] = "user_message" => j < k})

ConsecutiveSelfTalk == SelfTalkSince([k \in DOMAIN log |-> log[k].event])

\* A message waits for its reply whether or not its content is still there.
foregroundDialoguePending ==
    \E e \in happened : TypeOf[e] = "user_message" /\ \A pair \in answered : pair[1] # e

\* Events of a type in the calendar window that holds this moment.
CountInWindow(type, ticks) ==
    Cardinality({k \in DOMAIN log : TypeOf[log[k].event] = type /\ log[k].at \div ticks = now \div ticks})

autonomyTiming(type) == now - log[autonomyLatestEvent(type)].at

clockRegressed == \E k \in DOMAIN log : log[k].at > now

(***************************************************************************)
(* The two decisions.                                                      *)
(***************************************************************************)

DecideSelfTalk ==
    LET user == autonomyLatestEvent("user_message")
        self == autonomyLatestEvent("self_talk")
    IN  /\ resident = "active" /\ policy \in {"v3", "v4", "v5"}
        /\ ~foregroundDialoguePending /\ ~clockRegressed /\ user # 0
        /\ autonomyTiming(IF self > user THEN "self_talk" ELSE "user_message") >= Limits.interval
        /\ ConsecutiveSelfTalk < Limits.consecutive
        /\ CountInWindow("self_talk", Limits.hour) < Limits.hourly
        /\ CountInWindow("self_talk", Limits.day) < Limits.daily

DecideInitiative ==
    /\ resident = "active" /\ RequireEnabled(policy)
    /\ ~foregroundDialoguePending /\ ~clockRegressed
    /\ autonomyLatestEvent("user_message") # 0 =>
           autonomyTiming("user_message") >= Limits.suppression
    /\ autonomyLatestEvent("outbound_initiative") # 0 =>
           autonomyTiming("outbound_initiative") >= Limits.minimumInterval
    /\ CountInWindow("outbound_initiative", Limits.hour) < Limits.initiativeHourly
    /\ CountInWindow("outbound_initiative", Limits.day) < Limits.initiativeDaily

Decision(t) == IF Purpose(t) = "self_talk" THEN DecideSelfTalk ELSE DecideInitiative

(***************************************************************************)
(* Triggers.                                                               *)
(***************************************************************************)

External(c) == \E row \in c.ev : TypeOf[row.event] # "self_talk"

requireAutonomousExternalClaim(c) == loadEligibleClaimStatement(c) /\ External(c)

requireAutonomousContextClaims(c, initiative) ==
    /\ requireAutonomousExternalClaim(c) /\ ActiveSettled(c)
    /\ initiative => KindOf[c.stmt] = "direct" /\ c.scope = "resident_ui"

\* The row a self-talk trigger names: the message, the status row or the
\* contradiction.  The policy of that moment has to know self-talk.
autonomySelfTalkTriggerSourceCommit(t) ==
    CASE t.kind = "idle" -> CHOOSE entry \in Range(log) : entry.event = t.event
      [] t.kind = "settled_direct_conflict" -> CHOOSE p \in IntentOf(t.claim) : TRUE
      [] OTHER -> claims[claims[t.claim].dep.meta].statuses[t.n]
autonomyMemoryPolicySupportsSelfTalkAtCommit(t) ==
    autonomySelfTalkTriggerSourceCommit(t).policy \in {"v3", "v4", "v5"}
AutonomousSelfTalkEventTimeEligible(t) ==
    Purpose(t) = "self_talk" => autonomyMemoryPolicySupportsSelfTalkAtCommit(t)

\* The claim spoke of the future when it was recorded and is current now.
initiativeBoundary(c) == ValidFrom[c.stmt] # 0 /\ c.at < ValidFrom[c.stmt]
initiativeProjectionRelation(c) == IF ValidFrom[c.stmt] <= now THEN "current" ELSE "future"

\* Settled claims whose meta claim changed its status since.  Whether the
\* settled claim itself is still active is not looked at.
DependencyTriggers ==
    LET meta(i) == claims[claims[i].dep.meta]
        rested == {i \in Ids : /\ claims[i].dep # NoDependency /\ KindOf[claims[i].stmt] = "direct"
                               /\ claims[i].present /\ meta(i).present
                               /\ External(claims[i]) /\ External(meta(i))}
        since(i) == {n \in DOMAIN meta(i).statuses : meta(i).statuses[n].seq > claims[i].dep.seq}
    IN  UNION {{Trigger("meta_dependency_status_change", "none", i, n) : n \in since(i)} : i \in rested}

\* Contradictions between two active settled claims: a replacement intent that
\* came too late for the alignment that settled its new claim.
ConflictTriggers ==
    {Trigger("settled_direct_conflict", "none", p.new, p.old) : p \in
        {q \in intents : \A i \in {q.new, q.old} :
                             claims[i].present /\ ActiveSettled(claims[i]) /\ External(claims[i])}}

\* Without a run yet, in the order of the commits.
ReevaluationTriggers ==
    {t \in DependencyTriggers \cup ConflictTriggers :
        RunFor(t) = {} /\ AutonomousSelfTalkEventTimeEligible(t)}
DiscoverReevaluationTriggers ==
    LET seq(t) == autonomySelfTalkTriggerSourceCommit(t).seq
        before(t, u) == seq(t) < seq(u) \/ (seq(t) = seq(u) /\ t.claim < u.claim)
    IN  Ranked(ReevaluationTriggers, before)

IdleTrigger ==
    LET user == autonomyLatestEvent("user_message")
    IN  IF user = 0 THEN <<>>
        ELSE <<Trigger("idle", log[user].event, 0, ConsecutiveSelfTalk + 1)>>

InitiativeTriggers ==
    {Trigger("future_to_current", "none", i, 0) : i \in
        {j \in Ids : /\ ActiveSettled(claims[j]) /\ claims[j].present
                     /\ KindOf[claims[j].stmt] = "direct" /\ claims[j].scope = "resident_ui"
                     /\ initiativeBoundary(claims[j])
                     /\ initiativeProjectionRelation(claims[j]) = "current"
                     /\ RunFor(Trigger("future_to_current", "none", j, 0)) = {}}}
DiscoverInitiativeTriggers == Ranked(InitiativeTriggers, LAMBDA t, u : t.claim < u.claim)

(***************************************************************************)
(* Validation at every commit of a run.                                    *)
(***************************************************************************)

\* The claims a trigger speaks about; the run records them as usages.
AutonomousClaimContexts(t) ==
    CASE t.kind = "idle" -> {}
      [] t.kind = "meta_dependency_status_change" -> {t.claim, claims[t.claim].dep.meta}
      [] t.kind = "settled_direct_conflict" -> {t.claim, t.n}
      [] OTHER -> {t.claim}

\* What the frozen evidence of an initiative stands for.
ClaimRow(c) == [c EXCEPT !.uses = 0]

NewRun(t) ==
    [trigger |-> t, run |-> ThisRun, step |-> "running", policy |-> policy, claims |-> AutonomousClaimContexts(t),
     seen |-> IF Purpose(t) = "self_talk" THEN <<>> ELSE ClaimRow(claims[t.claim]),
     asOf |-> now, preempted |-> FALSE, failures |-> 0]

requireNoInitiativeClaimChangeAfter(run) == ClaimRow(claims[run.trigger.claim]) = run.seen

validateInitiativeProjectionEvidence(run) == run.asOf <= now /\ now - run.asOf <= Limits.maxStaleness

currentAutonomousProjectionEligible(c) ==
    c.scope = "resident_ui" /\ ActiveSettled(c) /\ initiativeProjectionRelation(c) = "current"

\* A run that the foreground has preempted may go on for the message before.
validateAutonomousTrigger(run) ==
    LET t == run.trigger
        user == autonomyLatestEvent("user_message")
    IN  CASE t.kind = "idle" ->
                /\ t.n = ConsecutiveSelfTalk + 1
                /\ (user # 0 /\ log[user].event = t.event) \/ (run.preempted /\ TypeOf[t.event] = "user_message")
          [] t.kind = "meta_dependency_status_change" ->
                LET direct == claims[t.claim]
                    meta   == claims[direct.dep.meta]
                IN  /\ direct.present /\ meta.present /\ meta.statuses[t.n].seq > direct.dep.seq
                    /\ requireAutonomousContextClaims(direct, FALSE)
                    /\ requireAutonomousExternalClaim(meta)
          [] t.kind = "settled_direct_conflict" ->
                requireAutonomousContextClaims(claims[t.claim], FALSE)
                    /\ requireAutonomousContextClaims(claims[t.n], FALSE)
          [] OTHER ->
                /\ requireAutonomousContextClaims(claims[t.claim], TRUE)
                /\ validateInitiativeProjectionEvidence(run)
                /\ initiativeBoundary(claims[t.claim])
                /\ requireNoInitiativeClaimChangeAfter(run)
                /\ currentAutonomousProjectionEligible(claims[t.claim])

matchAutonomousUsageClaims(run) == run.claims = AutonomousClaimContexts(run.trigger)

validateAutonomousDecisionAtPrepare(run) == run.step = "running" => matchAutonomousUsageClaims(run)

validateAutonomousDecision(run) ==
    /\ AutonomousSelfTalkEventTimeEligible(run.trigger)
    /\ validateAutonomousTrigger(run) /\ matchAutonomousUsageClaims(run)
    /\ Decision(run.trigger)

(***************************************************************************)
(* The commands.                                                           *)
(***************************************************************************)

\* Everything but the claims, the runs and the events.
others == <<policy, persona, intents, resident, erased, done, work>>

UsedIn(cs, used, usage) ==
    [i \in DOMAIN cs |-> IF i \in used THEN [cs[i] EXCEPT !.uses[usage] = @ + 1] ELSE cs[i]]

PrepareAutonomousGeneration(t) ==
    /\ RunFor(t) = {}
    /\ validateAutonomousDecision(NewRun(t))
    /\ Commit
    /\ autos' = Append(autos, NewRun(t))
    /\ claims' = UsedIn(claims, AutonomousClaimContexts(t), "prompt_included")
    /\ lineage' = lineage \cup Copies(ThisRun, {Statement(i) : i \in AutonomousClaimContexts(t)})
    /\ UNCHANGED <<others, events>>

validateAutonomousRetryStart(run) ==
    run.failures < MaxAttempts /\ run.policy = policy /\ validateAutonomousDecision(run)

StartAutonomousAttempt(k) ==
    /\ autos[k].step = "waiting" /\ Generation(autos[k].run) /\ validateAutonomousRetryStart(autos[k])
    /\ Commit
    /\ autos' = [autos EXCEPT ![k].step = "running"]
    /\ UNCHANGED <<claims, others, events, lineage>>

\* An erasure waits for running attempts, so the claims of a run that passed
\* validateAutonomousRetryStart cannot vanish before it lands
\* (cancelAutonomousForErasedSource stays unreached).
LandAutonomousEvent(k, e) ==
    LET run == autos[k]
    IN  /\ run.step = "running" /\ run.policy = policy
        /\ e \in Events \ happened /\ TypeOf[e] = Purpose(run.trigger)
        /\ validateAutonomousDecision(run)
        /\ Commit
        /\ autos' = [autos EXCEPT ![k].step = "ended"]
        /\ log' = Append(log, makeEvent(e))
        /\ lineage' = lineage \cup (RunInputs(run.run) \X {Text(e)})
        /\ UNCHANGED <<claims, others, answered, now>>

\* A provider error, a refused landing or an interruption; the run is
\* terminal when the error is final or the attempts are used up.
recordAutonomousFailure(k, retryable) ==
    LET failures == autos[k].failures + 1
    IN  /\ autos[k].step = "running"
        /\ Commit
        /\ autos' = [autos EXCEPT ![k].failures = failures,
                                  ![k].step = IF retryable /\ failures < MaxAttempts THEN "waiting" ELSE "ended"]
        /\ UNCHANGED <<claims, others, events, lineage>>

\* The call gave way to a message; that costs no attempt.
recordAutonomousForegroundPreempted(k) ==
    /\ autos[k].step = "running"
    /\ Commit
    /\ autos' = [autos EXCEPT ![k].step = "waiting", ![k].preempted = TRUE]
    /\ UNCHANGED <<claims, others, events, lineage>>

\* A run with an erased input ends; its copies go with the claims it is about.
rejectAutonomousEnvelope(k) ==
    /\ autos[k].step = "waiting" /\ ~Generation(autos[k].run)
    /\ Commit
    /\ autos' = [autos EXCEPT ![k].step = "ended"]
    /\ UNCHANGED <<claims, others, events, lineage>>

\* Every open run of an archived resident ends.
cancelAutonomousResidentWork(k) ==
    /\ resident # "active" /\ autos[k].step # "ended"
    /\ Committed
    /\ autos' = [autos EXCEPT ![k].step = "ended"]
    /\ UNCHANGED <<claims, others, events, lineage>>

(***************************************************************************)
(* The scan: one optional step per turn.                                   *)
(***************************************************************************)

\* What a scan checks before it takes up a durable run: neither the identity
\* of the trigger nor the claims.
currentAutonomousSchedulerEligible(run) ==
    /\ AutonomousSelfTalkEventTimeEligible(run.trigger) /\ Decision(run.trigger)
    /\ Purpose(run.trigger) = "outbound_initiative" =>
           /\ validateInitiativeProjectionEvidence(run)
           /\ currentAutonomousProjectionEligible(claims[run.trigger.claim])

DurableTriggers(purpose) ==
    LET open(run) == /\ run.step # "ended" /\ Purpose(run.trigger) = purpose
                     /\ Generation(run.run) => currentAutonomousSchedulerEligible(run)
        runs == SelectSeq(autos, open)
    IN  [k \in DOMAIN runs |-> runs[k].trigger]

FreshTriggers(triggers) ==
    SelectSeq(triggers, LAMBDA t : RunFor(t) = {} /\ AutonomousSelfTalkEventTimeEligible(t) /\ Decision(t))

\* The order in which a scan looks for its one step.
ScanOrder ==
    DurableTriggers("self_talk") \o FreshTriggers(DiscoverReevaluationTriggers \o IdleTrigger)
        \o DurableTriggers("outbound_initiative") \o FreshTriggers(DiscoverInitiativeTriggers)

\* Optional work waits for the mandatory work.
processAutonomyTurn ==
    /\ resident = "active" /\ ~foregroundDialoguePending
    /\ \A e \in happened : resolveEventTimeMandatoryPolicy(e) => e \in done

\* The scan ends with the first candidate, also when that one is refused: the
\* error is dropped and the next scan starts over.
processAutonomyOnce ==
    /\ processAutonomyTurn /\ ScanOrder # <<>>
    /\ LET t == Head(ScanOrder)
       IN  \/ PrepareAutonomousGeneration(t)
           \/ \E k \in RunFor(t) : StartAutonomousAttempt(k) \/ rejectAutonomousEnvelope(k)

\* A seed may hold a run an earlier process has left.
AutonomyInit(seed) == autos = seed.autos

\* The commands in any order: what a scan has read may be old by the time
\* its command is committed.
AutonomyNext ==
    \/ \E t \in ReevaluationTriggers \cup InitiativeTriggers : PrepareAutonomousGeneration(t)
    \/ \E e \in happened, n \in 1 .. Limits.consecutive + 1 :
           TypeOf[e] = "user_message" /\ PrepareAutonomousGeneration(Trigger("idle", e, 0, n))
    \/ \E k \in DOMAIN autos :
           \/ StartAutonomousAttempt(k)
           \/ \E e \in Events : LandAutonomousEvent(k, e)
           \/ \E retryable \in BOOLEAN : recordAutonomousFailure(k, retryable)
           \/ recordAutonomousForegroundPreempted(k)
           \/ rejectAutonomousEnvelope(k)
           \/ cancelAutonomousResidentWork(k)
=============================================================================
