---------------------------- MODULE MemoryRules ----------------------------
(***************************************************************************)
(* The pure rules of internal/memory: what a policy revision grants to a   *)
(* piece of evidence, when a claim matures, what a derived claim may       *)
(* inherit, and which claims a prompt recalls.                             *)
(*                                                                         *)
(* A policy is its version.  Fixed-point values are in thousandths (the    *)
(* code keeps millionths; every factor of the shipped policies is a        *)
(* multiple of a thousandth, and every floor below is exact there too).    *)
(***************************************************************************)
EXTENDS Integers, Sequences, FiniteSets, FiniteSetsExt, SequencesExt

CONSTANTS
    SelectedLimit,        \* policy.Recall.SelectedLimit (8 as shipped)
    PromptIncludedLimit,  \* policy.Recall.PromptIncludedLimit (4 as shipped)
    MaxPerTarget,         \* policy.Inheritance.MaxPerTarget (8 as shipped)
    MaxPerSourceClaim     \* policy.Inheritance.MaxPerSourceClaim (2)

ASSUME LimitsAssumption ==
    /\ {SelectedLimit, PromptIncludedLimit, MaxPerTarget, MaxPerSourceClaim}
           \subseteq Nat \ {0}
    /\ PromptIncludedLimit <= SelectedLimit

Scale == 1000

PolicyVersions == {"v1", "v2", "v3", "v4", "v5"}

Statuses == {"active", "invalidated", "superseded", "quarantined"}
Scopes   == {"resident_ui", "admin_only"}

(***************************************************************************)
(* What the five shipped policies say.                                     *)
(***************************************************************************)

RequireEnabled(policy) == policy # "v1"

DefaultPolicyV2 ==
    [eligible |-> {"user_message", "self_talk"},
     stated |-> 1000, inferred |-> 600, untrusted |-> 250, inherited |-> 500,
     scope |-> [user_message |-> "resident_ui", self_talk |-> "admin_only"],
     sedimentEvents |-> 2, sedimentWeight |-> 1200,
     settledEvents |-> 3, settledWeight |-> 2000, settledConfidence |-> 750,
     alignmentConfidence |-> 800, metaMinimum |-> "sediment",
     minimumClaims |-> 2, maximumClaims |-> 8,
     future |-> 250, current |-> 1000]

MandatoryEventTypes(policy) ==
    CASE policy = "v1" -> {}
      [] policy = "v2" -> {"user_message"}
      [] OTHER -> {"user_message", "self_talk"}

RenderingVersion(policy) == IF policy \in {"v4", "v5"} THEN "v2" ELSE "v1"

RecallWeights(policy) ==
    IF policy = "v5"
    THEN [context |-> 550, salience |-> 0, confidence |-> 200, state |-> 150, temporal |-> 100]
    ELSE [context |-> 350, salience |-> 200, confidence |-> 200, state |-> 150, temporal |-> 100]

SalienceContribution(policy, usage) ==
    CASE usage = "selected"        -> IF policy = "v5" THEN 0 ELSE 50
      [] usage = "prompt_included" -> IF policy = "v5" THEN 0 ELSE 250
      [] OTHER -> 0

\* The sum of the contributions, capped; the halving every 30 days lies
\* outside the horizon of the model.
AggregateSalience(total, contribution) == Min({Scale, total + contribution})

(***************************************************************************)
(* Evidence.  A point is [event, type, trust, polarity, grade, derivation, *)
(* depth, subject, perspective]: the last two say whether the actor of the *)
(* event is the claim's subject and its perspective.                       *)
(***************************************************************************)

EffectiveGrade(point) ==
    IF point.type = "self_talk" THEN "inferred" ELSE point.grade

EvaluateEvidence(policy, point) ==
    LET rules  == DefaultPolicyV2
        base   == IF EffectiveGrade(point) = "stated" THEN rules.stated ELSE rules.inferred
        trust  == IF point.trust = "untrusted" THEN (base * rules.untrusted) \div Scale ELSE base
        weight == IF point.derivation = "inherited" THEN (trust * rules.inherited) \div Scale ELSE trust
    IN  [point EXCEPT !.grade = EffectiveGrade(point)] @@ [weight |-> weight]

\* One point per event and polarity counts, the heaviest.
Deduplicated(points) ==
    {p \in points : \A q \in points :
        (q.event = p.event /\ q.polarity = p.polarity) => q.weight <= p.weight}

WeightOf(points) ==
    LET events == {p.event : p \in points}
    IN  MapThenSumSet(LAMBDA e : Max({p.weight : p \in {q \in points : q.event = e}}), events)

AggregateEvidence(policy, points) ==
    LET kept       == Deduplicated(points)
        for        == {p \in kept : p.polarity = "support"}
        support    == WeightOf(for)
        contradict == WeightOf(kept \ for)
        total      == support + contradict + (IF policy = "v5" THEN Scale ELSE 0)
    IN  [support     |-> support,
         distinct    |-> Cardinality({p.event : p \in for}),
         confidence  |-> IF total = 0 THEN 0 ELSE (support * Scale) \div total,
         trusted     |-> \E p \in for : p.trust = "trusted",
         external    |-> \E p \in for : p.type # "self_talk",
         subject     |-> \E p \in for : p.type = "user_message" /\ p.subject,
         perspective |-> \E p \in for : p.type = "user_message" /\ p.perspective]

InitialScopeForEvent(type) == DefaultPolicyV2.scope[type]

NarrowestSourceScope(scopes) ==
    IF "admin_only" \in scopes THEN "admin_only" ELSE "resident_ui"

(***************************************************************************)
(* Maturation: at most one stage per evaluation.                           *)
(***************************************************************************)

stageAtLeast(actual, minimum) ==
    LET order == [floating |-> 0, sediment |-> 1, settled |-> 2]
    IN  order[actual] >= order[minimum]

\* alignment is <<>> (none) or <<[kind, status, stage, confidence, external, perspective]>>
settledProvenanceGate(kind, evidence, alignment) ==
    CASE kind = "direct" ->
            /\ alignment # <<>>
            /\ alignment[1].kind = "meta" /\ alignment[1].status = "active"
            /\ stageAtLeast(alignment[1].stage, DefaultPolicyV2.metaMinimum)
            /\ alignment[1].confidence >= DefaultPolicyV2.alignmentConfidence
            /\ alignment[1].external /\ alignment[1].perspective
      [] kind = "meta" -> evidence.perspective
      [] OTHER -> evidence.subject

\* Why a claim stays where it is: "" when it advances.
EvaluateMaturation(stage, kind, evidence, alignment) ==
    LET rules == DefaultPolicyV2
    IN  CASE stage = "floating" ->
                IF evidence.distinct < rules.sedimentEvents THEN "distinct"
                ELSE IF evidence.support < rules.sedimentWeight THEN "weight"
                ELSE ""
          [] stage = "sediment" ->
                IF ~evidence.trusted THEN "trusted"
                ELSE IF evidence.distinct < rules.settledEvents THEN "distinct"
                ELSE IF evidence.support < rules.settledWeight THEN "weight"
                ELSE IF evidence.confidence < rules.settledConfidence THEN "confidence"
                ELSE IF ~settledProvenanceGate(kind, evidence, alignment) THEN "provenance"
                ELSE ""
          [] OTHER -> "settled"

NextStage(stage) == IF stage = "floating" THEN "sediment" ELSE "settled"

validStageAdvance(from, to) == <<from, to>> \in {<<"floating", "sediment">>, <<"sediment", "settled">>}

allowedClaimStatusTransition(from, to) ==
    \/ from = "active" /\ to \in {"invalidated", "superseded", "quarantined"}
    \/ from = "quarantined" /\ to \in {"active", "invalidated", "superseded"}

(***************************************************************************)
(* Inheritance by a derived claim.  A candidate is [source, event].        *)
(***************************************************************************)

ValidateInheritanceBatch(target, candidates) ==
    /\ \A c \in candidates : c.source # target
    /\ Cardinality(candidates) <= MaxPerTarget
    /\ \A s \in {c.source : c \in candidates} :
           Cardinality({c \in candidates : c.source = s}) <= MaxPerSourceClaim
    /\ Cardinality({c.event : c \in candidates}) = Cardinality(candidates)

(***************************************************************************)
(* Persona.  An edit is [changed, ratio, lines, total]: the four measures  *)
(* of MeasurePersonaEdit, each "none", "within" or "over" its limit.       *)
(***************************************************************************)

EvaluatePersonaThreshold(claimCount, edit, cooling) ==
    /\ ~(edit.changed = "none" /\ edit.lines = "none")
    /\ claimCount \in DefaultPolicyV2.minimumClaims .. DefaultPolicyV2.maximumClaims
    /\ "over" \notin {edit.changed, edit.ratio, edit.lines, edit.total}
    /\ ~cooling

(***************************************************************************)
(* Recall.  A candidate is [claim, status, stage, abstract, sources,       *)
(* context, salience, confidence, temporal, order]; order is the place of  *)
(* the claim's id.                                                         *)
(***************************************************************************)

CurrentnessForRelation(relation) == DefaultPolicyV2[relation]

RecallEligible(policy, candidate) ==
    /\ candidate.status = "active"
    /\ ~(policy = "v5" /\ candidate.context = 0)

ScoreRecall(policy, candidate) ==
    LET w == RecallWeights(policy)
    IN  IF ~RecallEligible(policy, candidate) THEN 0
        ELSE (w.context * candidate.context + w.salience * candidate.salience
              + w.confidence * candidate.confidence + w.state * Scale
              + w.temporal * CurrentnessForRelation(candidate.temporal)) \div Scale

RanksBefore(policy, a, b) ==
    \/ ScoreRecall(policy, a) > ScoreRecall(policy, b)
    \/ /\ ScoreRecall(policy, a) = ScoreRecall(policy, b)
       /\ IF policy = "v5" THEN a.order > b.order ELSE a.order < b.order

\* A set as the sequence a total order gives it.
Ranked(set, before(_, _)) ==
    [k \in 1 .. Cardinality(set) |-> CHOOSE x \in set : Cardinality({y \in set : before(y, x)}) = k - 1]

SelectRecall(policy, candidates) ==
    LET ranked == Ranked({c \in candidates : RecallEligible(policy, c)},
                               LAMBDA a, b : RanksBefore(policy, a, b))
    IN  SubSeq(ranked, 1, Min({SelectedLimit, Len(ranked)}))

recallSourcesAllIncluded(candidate, included) == candidate.sources \subseteq included

\* The planner in force: a floating claim that is not an abstraction is left
\* out when the prompt already holds every event it comes from.
PlanRecallV2(selected, included) ==
    LET kept == SelectSeq(selected, LAMBDA c :
                    ~(/\ c.stage = "floating" /\ ~c.abstract
                      /\ recallSourcesAllIncluded(c, included)))
    IN  SubSeq(kept, 1, Min({PromptIncludedLimit, Len(kept)}))
=============================================================================
