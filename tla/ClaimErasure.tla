---------------------------- MODULE ClaimErasure ----------------------------
(***************************************************************************)
(* Erasure of contents and of a whole resident, and the integrity scan.    *)
(*                                                                         *)
(* An erasure is planned from a snapshot, reviewed by the owner in rounds, *)
(* and applied in one commit that has to follow the snapshot immediately   *)
(* (requireErasureBaseHead).                                               *)
(* Lineage has two hops: from a source to the input a run has frozen from  *)
(* it, and from the input to what the run produced.  An edge between equal *)
(* bytes makes the child go with the parent; everything else that was made *)
(* from a target, or merely has its bytes, is for the owner to decide.     *)
(* Contents of the same kind (reasons, raw outputs, the frozen revisions)  *)
(* add no other case and are left out.                                     *)
(***************************************************************************)
EXTENDS DialoguePrompt

VARIABLES
    plan,       \* the erasure plan file, or NoPlan
    findings    \* recorded integrity findings, as <<claim, rule>>

NoPlan == [scope |-> "none"]

Contents == {Text(e) : e \in happened} \cup {Statement(i) : i \in Ids} \cup {edge[2] : edge \in lineage}

ContentPresent(c) ==
    IF c[1] = "claim" THEN claims[c[2]].present ELSE c \notin erased

Said(c) == IF c[1] = "event" THEN TextOf[c[2]] ELSE claims[c[2]].stmt

ContentBytes(c) ==
    CASE c[1] = "copy" -> Said(SourceOf(c))
      [] c[1] = "wire" -> Rendered[Said(SourceOf(c))]
      [] c[1] = "revision" -> "persona"
      [] OTHER -> Said(c)

SameBytes(c, d) == ContentBytes(c) = ContentBytes(d)

StatementsOf(contents) == {i \in Ids : Statement(i) \in contents}

(***************************************************************************)
(* The snapshot.                                                           *)
(***************************************************************************)

captureErasureContents == {c \in Contents : ContentPresent(c)}

makeLineageEdgeOfInputs(edge) ==
    /\ ContentPresent(edge[1]) /\ ContentPresent(edge[2]) /\ SameBytes(edge[1], edge[2])
    /\ IsInput(edge[2])

\* Only contents that are present have bytes to compare.
makeLineageEdge(edge) ==
    ContentPresent(edge[1]) /\ ContentPresent(edge[2]) /\ SameBytes(edge[1], edge[2])

\* What every run read and produced.
captureErasureLineage == lineage

\* A prepared memory run counts as running.
RunningRuns ==
    (IF work = NoWork THEN {} ELSE {work.run}) \cup (IF talk.step = "running" THEN {talk.run} ELSE {})
        \cup {autos[k].run : k \in {j \in DOMAIN autos : autos[j].step = "running"}}

\* The inputs of the runs whose attempt is running, not their sources.
captureErasureRunning == UNION {RunInputs(run) : run \in RunningRuns}

mandatoryErasureWorkCount ==
    Cardinality({e \in happened : resolveEventTimeMandatoryPolicy(e) /\ e \notin done})
        + Cardinality({e \in happened : Unanswered(e)})

(***************************************************************************)
(* The effects of a plan.                                                  *)
(***************************************************************************)

\* The roots and, to a fixed point, their exact copies.
EffectiveTargets(roots) ==
    LET exact == {e \in captureErasureLineage : makeLineageEdge(e)}
        grow(set, step) == set \cup {e[2] : e \in {f \in exact : f[1] \in set}}
    IN  FoldLeft(grow, roots, [k \in 1 .. Cardinality(exact) |-> k])

ErasedChildren(targets) == {e \in captureErasureLineage : e[1] \in targets /\ ~ContentPresent(e[2])}

\* A persona revision only goes with its resident, and so does what made it.
ResidentOnly(roots, targets) ==
    {c \in roots \cup {e[2] : e \in {f \in captureErasureLineage : f[1] \in targets}} : c[1] = "revision"}

ContentCandidatesByLineage(targets) ==
    {c \in captureErasureContents \ targets : \E e \in captureErasureLineage : e[1] \in targets /\ e[2] = c}

\* What the owner has to decide on: contents derived from a target, or of the
\* same bytes as one.
ContentCandidates(targets) ==
    {c \in captureErasureContents \ targets :
        \/ \E e \in captureErasureLineage : e[1] \in targets /\ e[2] = c
        \/ \E t \in targets : SameBytes(t, c)}

\* Claims with evidence from a target, except those whose statement goes too.
captureTargetedLogicalReferences(targets) ==
    {i \in Ids \ StatementsOf(targets) : \E row \in claims[i].ev : Text(row.event) \in targets}

replayQualifyingSupportCandidate(i) == loadQualifyingSupportEvidence(claims[i], erased) = {}

loadExistingProvenanceFinding(i) == <<i, "support">> \in findings

plannedSupportBreakSingle(i, targets) ==
    /\ ~replayQualifyingSupportCandidate(i)
    /\ \E c \in targets : loadQualifyingSupportEvidence(claims[i], erased \cup {c}) = {}

plannedSupportBreak(i, targets) ==
    /\ ~replayQualifyingSupportCandidate(i)
    /\ loadQualifyingSupportEvidence(claims[i], erased \cup targets) = {}

evaluateErasureLogicalProvenance(targets) ==
    LET affected == captureTargetedLogicalReferences(targets)
        lost     == {i \in affected : replayQualifyingSupportCandidate(i)}
    IN  [breaks       |-> {i \in affected : plannedSupportBreak(i, targets)},
         dependencies |-> {i \in lost : loadExistingProvenanceFinding(i)},
         unscanned    |-> {i \in lost : ~loadExistingProvenanceFinding(i)}]

\* A resident goes only when nothing of it runs.
runningIntersectsTargets(scope, targets) ==
    IF scope = "resident" THEN RunningRuns # {} ELSE captureErasureRunning \cap targets # {}

Blockers(scope, roots, targets, logical) ==
    {b \in {"target_already_erased", "resident_only_in_content_scope", "running_attempt",
            "preexisting_integrity_break", "mandatory_work_present"} :
        \/ b = "resident_only_in_content_scope" /\ scope = "content" /\ ResidentOnly(roots, targets) # {}
        \/ b = "target_already_erased"
           /\ (ErasedChildren(targets) # {} \/ \E r \in roots : ~ContentPresent(r))
        \/ b = "running_attempt" /\ runningIntersectsTargets(scope, targets)
        \/ b = "preexisting_integrity_break" /\ logical.unscanned # {}
        \/ b = "mandatory_work_present" /\ scope = "resident" /\ mandatoryErasureWorkCount > 0}

\* Only an active claim gets a quarantine row.
appendProvenanceQuarantine(stricken) == {i \in stricken : Active(claims[i])}

\* Whatever a resident still has.
Roots(scope, requested) == IF scope = "resident" THEN captureErasureContents ELSE requested

\* The claims whose statement is among the targets.
captureErasureAliases(targets) == StatementsOf(targets)

ResidentTransition(scope) == IF scope = "resident" THEN "erased" ELSE resident

\* Planner.build: everything but the owner's decisions.
build(scope, requested) ==
    LET roots    == Roots(scope, requested)
        targets  == EffectiveTargets(roots)
        logical  == evaluateErasureLogicalProvenance(targets)
        aliases  == captureErasureAliases(targets)
        stricken == aliases \cup logical.breaks \cup logical.dependencies
        acts     == appendProvenanceQuarantine(stricken) \cup logical.breaks \cup aliases
    IN  [scope |-> scope, roots |-> requested, targets |-> targets, aliases |-> aliases,
         found |-> (aliases \X {"statement"}) \cup (logical.breaks \X {"support"}),
         quarantines |-> appendProvenanceQuarantine(stricken),
         impacts |-> (ContentCandidates(targets) \X {"content_candidate"})
                       \cup ({Statement(i) : i \in acts} \X {"consequence_only"}),
         blockers |-> Blockers(scope, roots, targets, logical), retained |-> {}]

(***************************************************************************)
(* Plan, decide, apply.                                                    *)
(***************************************************************************)

PlanErasure(scope, roots) ==
    /\ resident # "erased" /\ plan = NoPlan /\ commits < MaxCommits
    /\ (scope = "resident") = (roots = {})
    /\ plan' = build(scope, roots)
    /\ UNCHANGED <<ledger, autos, talk, findings>>

PlanState(p) == IF p.blockers = {} /\ p.impacts \subseteq p.retained THEN "ready" ELSE "review_required"

\* One review round: the erased candidates become roots, every other impact
\* the owner was shown is retained.  What the new roots bring up waits for
\* the next round.
Decide(erase) ==
    /\ plan # NoPlan /\ plan.blockers = {} /\ PlanState(plan) = "review_required"
    /\ erase \subseteq {c \in captureErasureContents : <<c, "content_candidate">> \in plan.impacts}
    /\ plan.scope = "resident" => erase = {}
    /\ LET built == build(plan.scope, plan.roots \cup erase)
       IN  plan' = [built EXCEPT !.retained = (plan.impacts \cap built.impacts) \cup plan.retained]
    /\ UNCHANGED <<ledger, autos, talk, findings>>

\* An apply has to follow the plan's base head, so a plan is worthless after
\* any other commit: the model abandons the plan before such a commit.
requireErasureBaseHead == plan = NoPlan /\ UNCHANGED plan

AbandonPlan == plan # NoPlan /\ plan' = NoPlan /\ UNCHANGED <<ledger, autos, talk, findings>>

(***************************************************************************)
(* An apply works out every effect of the plan again.                      *)
(***************************************************************************)

\* The claims whose statement a target is.
revalidateDirectErasureImpacts(p) == p.aliases = captureErasureAliases(p.targets)

\* The claims that lose their last support, with an active one quarantined.
revalidateLogicalErasureEffects(p) ==
    LET logical == evaluateErasureLogicalProvenance(p.targets)
    IN  /\ logical.unscanned = {}
        /\ {f \in p.found : f[2] = "support"} = logical.breaks \X {"support"}
        /\ \A i \in logical.breaks \cup logical.dependencies : i \in p.quarantines <=> Active(claims[i])

\* Every copy is a target, and whatever else was made from a target, or has
\* its bytes, was shown to the owner and retained.
revalidateErasureLineage(p) ==
    /\ \A e \in captureErasureLineage : e[1] \in p.targets =>
           ContentPresent(e[2]) /\ (makeLineageEdge(e) => e[2] \in p.targets)
    /\ {impact \in p.impacts : impact[2] = "content_candidate"}
          = ContentCandidates(p.targets) \X {"content_candidate"}
    /\ p.impacts \subseteq p.retained

\* Of a resident that goes, every other claim has lost its statement before.
revalidateAliasGroups(p) ==
    /\ \A i \in p.aliases : claims[i].present /\ (i \in p.quarantines <=> Active(claims[i]))
    /\ p.scope = "resident" => \A i \in Ids \ p.aliases : ~claims[i].present

revalidateErasurePlan(p) ==
    /\ p.targets \subseteq captureErasureContents
    /\ p.scope = "resident" => p.targets = captureErasureContents
    /\ revalidateDirectErasureImpacts(p) /\ revalidateLogicalErasureEffects(p)
    /\ revalidateErasureLineage(p) /\ revalidateAliasGroups(p)

residentErasureBusy == RunningRuns # {} \/ mandatoryErasureWorkCount > 0

Erased(cs, p) ==
    [i \in DOMAIN cs |->
        LET quarantined == IF i \in p.quarantines THEN insertStatusTransition(cs[i], "quarantined") ELSE cs[i]
        IN  IF i \in p.aliases THEN [quarantined EXCEPT !.present = FALSE] ELSE quarantined]

\* A claim keeps its own mark; every other content is recorded as erased.
ErasedContents(targets) == {c \in targets : c[1] # "claim"}

\* What the transaction reads back before it commits.
verifyErasureAliasPostcondition(p) ==
    {i \in Ids : Statement(i) \in p.targets \/ (p.scope = "resident" /\ claims[i].present)} = p.aliases
        /\ \A i \in p.aliases : ~claims'[i].present

verifyErasurePostcondition(p) ==
    /\ ErasedContents(p.targets) \subseteq erased' /\ p.found \subseteq findings'
    /\ \A i \in p.quarantines : currentClaimStatus(claims'[i]) = "quarantined"
    /\ verifyErasureAliasPostcondition(p)
    /\ p.scope = "resident" =>
          resident' = "erased" /\ {Text(e) : e \in happened} \subseteq erased' /\ \A i \in Ids : ~claims'[i].present

ApplyErasure ==
    /\ plan # NoPlan /\ PlanState(plan) = "ready"
    /\ revalidateErasurePlan(plan)
    /\ plan.scope = "resident" => ~residentErasureBusy
    /\ Committed
    /\ claims' = Erased(claims, plan)
    /\ erased' = erased \cup ErasedContents(plan.targets)
    /\ findings' = findings \cup plan.found
    /\ resident' = ResidentTransition(plan.scope)
    /\ verifyErasurePostcondition(plan)
    /\ plan' = NoPlan
    /\ UNCHANGED <<policy, persona, intents, events, done, lineage, work, autos, talk>>

(***************************************************************************)
(* Integrity: the scan and what it records are one maintenance command.    *)
(***************************************************************************)

\* The predicate of each structural rule, as the recording transaction
\* evaluates it again.
revalidateIntegrityCandidate(candidate) ==
    LET i == candidate[1]
    IN  IF candidate[2] = "statement" THEN ~claims[i].present
        ELSE claims[i].present /\ replayQualifyingSupportCandidate(i)

CaptureIntegrityCandidates ==
    {candidate \in Ids \X {"statement", "support"} : revalidateIntegrityCandidate(candidate)}

classifyIntegrityFinding(candidate) == candidate \in findings

AutomaticClaimStatusDecisionAlways(candidates) == {c[1] : c \in candidates}

\* One quarantine for each claim that is still active.
AutomaticClaimStatusDecision(candidates) == {i \in {c[1] : c \in candidates} : Active(claims[i])}

RecordIntegrityFindings ==
    LET candidates  == CaptureIntegrityCandidates
        missing     == {c \in candidates : ~classifyIntegrityFinding(c)}
        quarantined == AutomaticClaimStatusDecision(candidates)
    IN  /\ missing # {} \/ quarantined # {}
        /\ resident # "erased" /\ Committed
        /\ findings' = findings \cup missing
        /\ claims' = [i \in Ids |-> IF i \in quarantined THEN insertStatusTransition(claims[i], "quarantined")
                                    ELSE claims[i]]
        /\ requireErasureBaseHead
        /\ UNCHANGED <<policy, persona, intents, resident, events, erased, done, lineage, work, autos, talk>>

(***************************************************************************)
(* Archive, and the end of what can no longer be worked on.                *)
(***************************************************************************)

ArchiveResident ==
    /\ Commit
    /\ resident' = "archived"
    /\ UNCHANGED <<claims, policy, persona, intents, events, erased, done, lineage, work, autos, talk>>
    /\ requireErasureBaseHead /\ UNCHANGED findings

dialogueRecoveryReason(e) == e \notin Present \/ resident # "active"

\* The cancellation of a dialogue obligation, with the run it may have.
TerminalizeDialogue(e) ==
    /\ Unanswered(e) /\ dialogueRecoveryReason(e)
    /\ Committed
    /\ answered' = answered \cup {<<e, "none">>}
    /\ talk' = IF talk # NoTalk /\ talk.msg = e THEN NoTalk ELSE talk
    /\ UNCHANGED <<claims, policy, persona, intents, resident, log, now, erased, done, lineage, work, autos>>
    /\ requireErasureBaseHead /\ UNCHANGED findings

TerminalizeExtraction(e) ==
    /\ e \in happened \ done /\ resolveEventTimeMandatoryPolicy(e) /\ dialogueRecoveryReason(e)
    /\ Committed
    /\ done' = done \cup {e}
    /\ work' = IF work.kind = "extraction" /\ work.event = e THEN NoWork ELSE work
    /\ UNCHANGED <<claims, policy, persona, intents, resident, events, erased, lineage, autos, talk>>
    /\ requireErasureBaseHead /\ UNCHANGED findings

(***************************************************************************)
(* The whole ledger.                                                       *)
(***************************************************************************)

IsSeq(s) == s \in Seq(Range(s))

\* A claim with its rows in order; in a ledger cs it rests on a meta claim, if on any.
ClaimRows(c) ==
    /\ c = [stmt |-> c.stmt, present |-> c.present, ev |-> c.ev, stages |-> c.stages, statuses |-> c.statuses,
            scope |-> c.scope, rel |-> c.rel, srcs |-> c.srcs, at |-> c.at, dep |-> c.dep, uses |-> c.uses]
    /\ c.present \in BOOLEAN
    /\ IsSeq(c.stages) /\ c.stages # <<>> /\ IsSeq(c.statuses) /\ ReplayClaimStates(c)
ClaimFits(cs, c) ==
    /\ ClaimRows(c)
    /\ c.dep # NoDependency => c.dep.meta \in DOMAIN cs /\ KindOf[cs[c.dep.meta].stmt] = "meta"

IntentFits(cs, p) == \A i \in {p.new, p.old} : i \in DOMAIN cs /\ KindOf[cs[i].stmt] = "direct"

TriggerFits(cs, t) ==
    /\ t.kind = "idle" \/ t.claim \in DOMAIN cs
    /\ t.kind = "meta_dependency_status_change" => cs[t.claim].dep # NoDependency
    /\ t.kind = "settled_direct_conflict" => t.n \in DOMAIN cs
RunFits(cs, run) == {"trigger", "run", "step", "claims"} \subseteq DOMAIN run /\ TriggerFits(cs, run.trigger)

\* The runs that a history has left: each has a number of its own.
RunsLeft(cs, seed) ==
    /\ seed.talk # NoTalk =>
          /\ {"step", "run", "msg", "events", "prompt", "seen"} \subseteq DOMAIN seed.talk
          /\ seed.talk.step = "waiting" /\ seed.talk.run = 0
          /\ seed.talk.events \subseteq Range(seed.log) /\ seed.talk.prompt \subseteq DOMAIN cs
    /\ IsSeq(seed.autos)
    /\ \A k \in DOMAIN seed.autos :
          /\ RunFits(cs, seed.autos[k]) /\ seed.autos[k].claims \subseteq DOMAIN cs
          /\ seed.autos[k].step # "running" /\ seed.autos[k].run \in 1 .. seed.commits
          /\ \A j \in DOMAIN seed.autos : seed.autos[j].run = seed.autos[k].run => j = k

\* A history the commands can leave: the empty one is.
SeedFits(seed) ==
    LET cs == SeedLedger(seed.policy, seed)
    IN  /\ IsSeq(cs) /\ \A i \in DOMAIN cs : ClaimFits(cs, cs[i]) /\ cs[i].present
        /\ seed.log \in Seq(Events)
        /\ IsSeq(seed.steps) /\ seed.commits \in Nat
        /\ \A k \in DOMAIN seed.steps :
               /\ seed.steps[k].event \in Range(seed.log)
               /\ DOMAIN SeedSteps(seed.policy, SubSeq(seed.steps, 1, k)) \subseteq DOMAIN cs
        /\ \A p \in seed.intents : IntentFits(cs, p)
        /\ RunsLeft(cs, seed)
        /\ SelfTalkSince(seed.log) <= Limits.consecutive
        /\ Cardinality({k \in DOMAIN seed.log : TypeOf[seed.log[k]] = "outbound_initiative"})
              <= Limits.initiativeDaily

ASSUME SeedsAssumption == \A seed \in Seeds : SeedFits(seed)

Init ==
    /\ \E seed \in Seeds : LedgerInit(seed) /\ AutonomyInit(seed) /\ DialogueInit(seed)
    /\ plan = NoPlan /\ findings = {}

ErasureNext ==
    \/ \E scope \in {"content", "resident"}, roots \in {{}} \cup {{c} : c \in captureErasureContents} :
           PlanErasure(scope, roots)
    \/ \E erase \in {{}} \cup {{c} : c \in captureErasureContents} : Decide(erase)
    \/ ApplyErasure \/ AbandonPlan
    \/ RecordIntegrityFindings
    \/ ArchiveResident
    \/ \E e \in happened : TerminalizeDialogue(e) \/ TerminalizeExtraction(e)

Next ==
    \/ /\ requireErasureBaseHead /\ UNCHANGED findings
       /\ \/ WorkNext /\ UNCHANGED <<autos, talk>>
          \/ OwnerNext /\ UNCHANGED <<autos, talk>>
          \/ AutonomyNext /\ UNCHANGED talk
          \/ DialogueNext
          \/ Tick
    \/ ErasureNext

(***************************************************************************)
(* What holds of the whole ledger.                                         *)
(***************************************************************************)

vars == <<ledger, autos, talk, plan, findings>>

Spec == Init /\ [][Next]_vars

\* The rows of every claim can be folded: each stage and status row continues
\* from the one before and is an allowed step, whoever appended it (a landing,
\* the owner, an erasure or the integrity scan).  The claim_states projection
\* stops at a row that does not (claim_replay.go).
ReplaySound == \A i \in Ids : ReplayClaimStates(claims[i])

\* No copy survives what it was copied from: where an edge joins equal bytes
\* and the parent is erased, the child is erased as well, also when the child
\* was frozen or landed by a run that was prepared before the erasure
\* (erasure/planner.go, closure).  So an erased text goes together with the
\* inputs copied from it and with the products that repeat it word for word.
CopiesErased ==
    \A edge \in lineage :
        SameBytes(edge[1], edge[2]) /\ ~ContentPresent(edge[1]) => ~ContentPresent(edge[2])

\* Nothing that an erasure leaves behind is left unseen: a content that was
\* made from an erased one (the wire of a recalled claim, a reply), or that
\* has its bytes without any lineage, stays only when the owner was shown it
\* in the review of this plan and retained it (erasure_mutations.go,
\* revalidateErasureLineage).
ErasureReviewed ==
    [][\A gone \in captureErasureContents : ~ContentPresent(gone)' =>
          \A c \in captureErasureContents :
              (ContentPresent(c)' /\ (<<gone, c>> \in lineage \/ SameBytes(gone, c)))
                  => <<c, "content_candidate">> \in plan.impacts \cap plan.retained]_vars

\* No step leaves an active claim that had support without any: the commit
\* that erases its last qualifying evidence quarantines it (erasure_logical.go,
\* plannedSupportBreak).
SupportKept ==
    [][\A i \in Ids :
          (Active(claims[i]) /\ loadQualifyingSupportEvidence(claims[i], erased) # {})
              => (Active(claims'[i]) => loadQualifyingSupportEvidence(claims'[i], erased') # {})]_vars

\* Whatever a run produces (a claim, a reply, a self-talk, an initiative, a
\* persona) comes from inputs that are present when it lands and whose sources
\* are present too, however long the run has waited since it froze them: a
\* wire may outlive the claim it was rendered from (dialogue_mutations.go,
\* revalidateDialogueInputsAtLanding).
ParentsPresent ==
    [][\A edge \in lineage' \ lineage :
          ContentPresent(edge[1]) /\ (IsInput(edge[1]) => ContentPresent(SourceOf(edge[1])))]_vars

\* A direct claim settles only on a meta claim that is active and present at
\* that commit, and only while it is active itself (LandMemoryAlignment reads
\* both again after the provider's answer).
SettlesGrounded ==
    [][\A i \in Ids :
          (/\ KindOf[claims[i].stmt] = "direct"
           /\ currentClaimStage(claims'[i]) = "settled" /\ currentClaimStage(claims[i]) # "settled")
              => LET meta == claims'[claims'[i].dep.meta]
                 IN  Active(claims'[i]) /\ Active(meta) /\ meta.present]_vars

\* The resident speaks unasked only while no message waits, within its limits
\* on self-talk in a row and on initiatives per day, and, of the direct claims
\* it speaks about, only on those that are active and settled: each is decided
\* again at the landing, since a message or a decision of the owner may come
\* during the provider call.  (A meta claim may have changed its status: that
\* is what a reevaluation is about.)
SpeaksInTurn ==
    [][\A k \in DOMAIN log' \ DOMAIN log :
          LET e == log'[k].event
          IN  TypeOf[e] \in {"self_talk", "outbound_initiative"} =>
                  /\ ~foregroundDialoguePending
                  /\ ConsecutiveSelfTalk' <= Limits.consecutive
                  /\ CountInWindow("outbound_initiative", Limits.day)' <= Limits.initiativeDaily
                  /\ \A edge \in lineage' \ lineage :
                         LET c == claims[SourceOf(edge[1])[2]]
                         IN  KindOf[c.stmt] = "direct" => ActiveSettled(c)]_vars
=============================================================================
