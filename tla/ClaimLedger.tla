---------------------------- MODULE ClaimLedger ----------------------------
(***************************************************************************)
(* The memory of one resident as the Canonical ledger keeps it: claims,    *)
(* their evidence, their append-only stage, status and scope rows, the     *)
(* relations between them, and the commands that append such rows.         *)
(*                                                                         *)
(* A command is one Canonical commit.  A generation run (extraction,       *)
(* derivation, alignment, persona) freezes its inputs in one commit and    *)
(* lands in a later one; any other command may be committed in between, so *)
(* every landing reads the ledger again.  Attempts and retries of a run    *)
(* belong to MemoryWork; here a run is prepared, and lands or is dropped.  *)
(***************************************************************************)
EXTENDS MemoryRules

CONSTANTS
    Events,       \* the events that can be evidence
    TypeOf,       \* event -> "user_message" or "self_talk"
    TrustOf,      \* event -> "trusted" or "untrusted"
    TextOf,       \* event -> its text; a statement when it says just that
    Statements,   \* normalized statements
    KindOf,       \* statement -> the kind its subject and perspective give
    Outputs,      \* provider answers: sequences of [stmt, grade]
    Derivable,    \* statements an abstraction or a split may answer with
    Seeds,        \* histories the ledger may start from
    MaxClaims, MaxCommits

\* An answer is a sequence of statements.
ASSUME LedgerAssumption == Outputs \subseteq Seq([stmt : Statements, grade : {"stated", "inferred"}])

VARIABLES
    claims,    \* claims in the order of their ids
    policy,    \* version of the active memory policy
    persona,   \* number of the active persona revision
    intents,   \* replacement intents, [new, old, seq, policy]
    resident,  \* "active", "archived" or "erased"
    log,       \* events on the ledger, [event, at, policy], in the order of their seq
    answered,  \* <<message, reply>>: closed dialogue obligations, the reply "none" without one
    now,       \* the wall clock
    erased,    \* contents that are erased; a claim has its own mark
    done,      \* events whose extraction has ended
    lineage,   \* <<parent, child>>: a source and an input frozen from it, an input and a product of its run
    work,      \* the prepared background run
    commits    \* Canonical commits so far

ledger == <<claims, policy, persona, intents, resident, log, answered, now, erased, done, lineage, work, commits>>
events == <<log, answered, now>>

NoWork   == [kind |-> "none"]
Ids      == DOMAIN claims
happened == {log[k].event : k \in DOMAIN log}

\* An event as the ledger records it: with the time and the policy of its commit.
makeEvent(e) == [event |-> e, at |-> now, policy |-> policy]

\* Every command is one commit; the bound caps the behaviours.
Committed == commits < MaxCommits /\ commits' = commits + 1
Commit    == resident = "active" /\ Committed

(***************************************************************************)
(* Contents: the text of an event, the statement of a claim, the text of a *)
(* persona revision, and the inputs that the runs freeze.  A run keeps     *)
(* every input as a content of its own: most are copies, a recalled claim  *)
(* is frozen as the wire it is rendered to.                                *)
(***************************************************************************)

Text(e)       == <<"event", e>>
Statement(i)  == <<"claim", i>>
Revision(run) == <<"revision", run>>
Copy(run, c)  == <<"copy", run, c>>
Wire(run, c)  == <<"wire", run, c>>

IsInput(c)  == c[1] \in {"copy", "wire"}
SourceOf(c) == c[3]

\* A run is known by the commit that prepares it.
ThisRun == commits + 1

Copies(run, sources) == {<<c, Copy(run, c)>> : c \in sources}

RunInputs(run) == {edge[2] : edge \in {f \in lineage : IsInput(f[2]) /\ f[2][2] = run}}

Present == {e \in happened : Text(e) \notin erased}

\* A run whose inputs are not all there any more is never called.
Generation(run) == RunInputs(run) \cap erased = {}

(***************************************************************************)
(* Reading one claim.                                                      *)
(***************************************************************************)

\* An evidence row: [event, derivation, source, grade]; source is the claim
\* an inherited row comes from, 0 for an extracted one.
buildEvidencePoint(kind, row) ==
    LET user == TypeOf[row.event] = "user_message"
    IN  [event |-> row.event, type |-> TypeOf[row.event], trust |-> TrustOf[row.event],
         polarity |-> "support", grade |-> row.grade, derivation |-> row.derivation,
         depth |-> IF row.derivation = "inherited" THEN 1 ELSE 0,
         subject |-> user = (kind \in {"other", "unclassified"}),
         perspective |-> user = (kind \in {"meta", "unclassified"})]

aggregateClaimEvidence(version, c) ==
    AggregateEvidence(version,
        {EvaluateEvidence(version, buildEvidencePoint(KindOf[c.stmt], row)) : row \in c.ev})

currentClaimStage(c)  == Last(c.stages).to
currentClaimStatus(c) == IF c.statuses = <<>> THEN "active" ELSE Last(c.statuses).to

\* The projection folds the rows of a claim and refuses one that does not
\* continue from where the claim stands.
replayClaimTransition(rows, first) ==
    \A i \in DOMAIN rows :
        LET from == rows[i].from  to == rows[i].to IN
        /\ from = IF i = 1 THEN first ELSE rows[i - 1].to
        /\ \/ from = "" /\ to = "floating"
           \/ validStageAdvance(from, to)
           \/ allowedClaimStatusTransition(from, to)

ReplayClaimStates(c) == replayClaimTransition(c.stages, "") /\ replayClaimTransition(c.statuses, "active")

\* What lets a claim's statement be read at all.
loadEligibleClaimStatement(c) == c.present

Active(c) == currentClaimStatus(c) = "active"

\* Evidence rows that still carry the claim: the content of the event is
\* present and its actor is the one the claim needs.
qualifyingActorGate(kind, point) ==
    CASE kind = "other" -> point.subject
      [] kind = "meta"  -> point.perspective
      [] OTHER -> TRUE

loadQualifyingSupportEvidence(c, gone) ==
    {row \in c.ev : /\ Text(row.event) \notin gone
                    /\ qualifyingActorGate(KindOf[c.stmt], buildEvidencePoint(KindOf[c.stmt], row))}

(***************************************************************************)
(* Appending to one claim.                                                 *)
(***************************************************************************)

insertClaimStageTransition(c, to) ==
    [c EXCEPT !.stages = Append(@, [from |-> currentClaimStage(c), to |-> to])]

insertStatusTransition(c, to) ==
    [c EXCEPT !.statuses = Append(@, [from |-> currentClaimStatus(c), to |-> to,
                                      seq |-> commits + 1, policy |-> policy])]

\* The maturation loop: floating to sediment and, for a claim that needs no
\* alignment, on to settled in the same commit.
Matured(version, c) ==
    LET evidence == aggregateClaimEvidence(version, c)
        advance(d) == IF EvaluateMaturation(currentClaimStage(d), KindOf[d.stmt], evidence, <<>>) = ""
                      THEN insertClaimStageTransition(d, NextStage(currentClaimStage(d))) ELSE d
    IN  advance(advance(c))

addClaimEvidenceWithPolicy(version, c, row) ==
    Matured(version, [c EXCEPT !.ev = @ \cup {row}])

\* The meta claim a settlement rests on, and the commit of the settlement.
NoDependency == [meta |-> 0, seq |-> 0]

NewClaim(stmt, ev, scope, rel, srcs, at) ==
    [stmt |-> stmt, present |-> TRUE, ev |-> ev, stages |-> <<[from |-> "", to |-> "floating"]>>,
     statuses |-> <<>>, scope |-> scope, rel |-> rel, srcs |-> srcs, at |-> at,
     dep |-> NoDependency, uses |-> [selected |-> 0, prompt_included |-> 0]]

SameIdentity(cs, stmt) == {i \in DOMAIN cs : cs[i].stmt = stmt /\ cs[i].present}

(***************************************************************************)
(* Extraction.                                                             *)
(***************************************************************************)

\* An answer may name a statement once, and self-talk only yields claims of
\* the resident about itself, seen by itself.
ParseExtractionOutput(event, out) ==
    /\ IsInjective([i \in DOMAIN out |-> out[i].stmt])
    /\ TypeOf[event] = "self_talk" => \A i \in DOMAIN out : KindOf[out[i].stmt] = "direct"

ExtractedRow(event, item) ==
    [event |-> event, derivation |-> "extracted", source |-> 0,
     grade |-> IF TypeOf[event] = "self_talk" THEN "inferred" ELSE item.grade]

\* An item whose statement the ledger has gives that claim its evidence, once.
landExtractedClaim(version, event, item, c) ==
    IF \E old \in c.ev : old.event = event /\ old.derivation = "extracted" THEN c
    ELSE addClaimEvidenceWithPolicy(version, c, ExtractedRow(event, item))

\* The items of an answer name different statements, so no item touches the
\* claim of another; the new claims follow in the order of the answer.
Extracted(cs, version, event, out, at) ==
    LET known(k) == SameIdentity(cs, out[k].stmt)
        fresh    == Ranked({k \in DOMAIN out : known(k) = {}}, LAMBDA j, k : j < k)
        named(i) == {k \in DOMAIN out : known(k) # {} /\ i = Min(known(k))}
        new(k)   == NewClaim(out[k].stmt, {ExtractedRow(event, out[k])},
                             InitialScopeForEvent(TypeOf[event]), "none", {}, at)
    IN  [i \in 1 .. Len(cs) + Len(fresh) |->
            IF i > Len(cs) THEN new(fresh[i - Len(cs)])
            ELSE IF named(i) = {} THEN cs[i]
            ELSE landExtractedClaim(version, event, out[CHOOSE k \in named(i) : TRUE], cs[i])]

\* A claim that would get new evidence has to be active; one that already
\* has this event is left as it is.
ExtractionLands(event, out) ==
    \A k \in DOMAIN out : \A i \in SameIdentity(claims, out[k].stmt) :
        \/ Active(claims[i])
        \/ \E old \in claims[i].ev : old.event = event /\ old.derivation = "extracted"

\* The policy that was active when the event was recorded decides.
EventPolicy(event) == (CHOOSE entry \in Range(log) : entry.event = event).policy
resolveEventTimeMandatoryPolicy(event) == TypeOf[event] \in MandatoryEventTypes(EventPolicy(event))

PrepareMemoryExtraction(event) ==
    /\ work = NoWork /\ event \in Present \ done
    /\ resolveEventTimeMandatoryPolicy(event)
    /\ Commit
    /\ work' = [kind |-> "extraction", run |-> ThisRun, policy |-> EventPolicy(event), event |-> event]
    /\ lineage' = lineage \cup Copies(ThisRun, {Text(event)})
    /\ UNCHANGED <<claims, policy, persona, intents, resident, events, erased, done>>

\* The run keeps the policy of its event.
LandMemoryExtraction(out) ==
    /\ work.kind = "extraction" /\ work.event \in Present
    /\ ParseExtractionOutput(work.event, out) /\ ExtractionLands(work.event, out)
    /\ Commit
    /\ claims' = Extracted(claims, work.policy, work.event, out, now)
    /\ Len(claims') <= MaxClaims
    /\ lineage' = lineage \cup (RunInputs(work.run) \X {Statement(i) : i \in DOMAIN claims' \ DOMAIN claims})
    /\ done' = done \cup {work.event}
    /\ work' = NoWork
    /\ UNCHANGED <<policy, persona, intents, resident, events, erased>>

(***************************************************************************)
(* Abstraction and split.                                                  *)
(***************************************************************************)

DerivedSources(kind, sources) ==
    /\ IF kind = "split" THEN Cardinality(sources) = 1 ELSE Cardinality(sources) \in 2 .. 8
    /\ \A i \in sources : /\ loadEligibleClaimStatement(claims[i]) /\ Active(claims[i])
                          /\ KindOf[claims[i].stmt] = KindOf[claims[Min(sources)].stmt]

\* The rows a derivation may inherit: the extracted rows of its sources.
\* The content of the events is not looked at.
SourceRows(sources) ==
    {[claim |-> i, row |-> row] : i \in sources, row \in UNION {claims[j].ev : j \in sources}}
DirectRows(sources) ==
    {r \in SourceRows(sources) : r.row \in claims[r.claim].ev /\ r.row.derivation = "extracted"}
RowWeight(r) ==
    EvaluateEvidence(policy, buildEvidencePoint(KindOf[claims[r.claim].stmt], r.row)).weight

\* Heaviest first, then oldest (evidence ids grow with the commits, which
\* follow the events); one row per event, bounded per source and in all.
PlannedEvidence(sources) ==
    LET take(plan, r) ==
            IF \/ Cardinality(plan) = MaxPerTarget
               \/ Cardinality({q \in plan : q.claim = r.claim}) = MaxPerSourceClaim
               \/ \E q \in plan : q.row.event = r.row.event
            THEN plan ELSE plan \cup {r}
        place(r) == CHOOSE k \in DOMAIN log : log[k].event = r.row.event
        before(r, q) == \/ RowWeight(r) > RowWeight(q)
                        \/ /\ RowWeight(r) = RowWeight(q)
                           /\ place(r) < place(q) \/ (place(r) = place(q) /\ r.claim < q.claim)
    IN  FoldLeft(take, {}, Ranked(DirectRows(sources), before))

PrepareMemoryDerivation(kind, sources) ==
    /\ work = NoWork /\ RequireEnabled(policy) /\ DerivedSources(kind, sources)
    /\ PlannedEvidence(sources) # {}
    /\ Commit
    /\ work' = [kind |-> kind, run |-> ThisRun, policy |-> policy, sources |-> sources,
                plan |-> PlannedEvidence(sources)]
    /\ lineage' = lineage \cup Copies(ThisRun, {Statement(i) : i \in sources})
    /\ UNCHANGED <<claims, policy, persona, intents, resident, events, erased, done>>

loadDirectSourceEvidence(r) == r.row \in claims[r.claim].ev /\ r.row.derivation = "extracted"

requireHighestWeightSourceEvidence(r, sources) ==
    \A q \in DirectRows(sources) : q.row.event = r.row.event => RowWeight(q) <= RowWeight(r)

loadDerivedClaimEvidence(plan, sources) ==
    /\ \A r \in plan : loadDirectSourceEvidence(r) /\ requireHighestWeightSourceEvidence(r, sources)
    /\ ValidateInheritanceBatch(0, {[source |-> r.claim, event |-> r.row.event] : r \in plan})

rejectDuplicateDerivedClaim(stmt) == SameIdentity(claims, stmt) = {}

landDerivedClaim(stmt) ==
    LET relation == IF work.kind = "split" THEN "split_from" ELSE "abstracts"
        inherited == {[event |-> r.row.event, derivation |-> "inherited", source |-> r.claim,
                       grade |-> "inferred"] : r \in work.plan}
        scope == NarrowestSourceScope({claims[i].scope : i \in work.sources})
    IN  /\ work.kind \in {"abstraction", "split"} /\ work.policy = policy
        /\ DerivedSources(work.kind, work.sources)
        /\ KindOf[stmt] = KindOf[claims[Min(work.sources)].stmt]
        /\ rejectDuplicateDerivedClaim(stmt)
        /\ loadDerivedClaimEvidence(work.plan, work.sources)
        /\ Len(claims) < MaxClaims
        /\ Commit
        /\ claims' = Append(claims, NewClaim(stmt, inherited, scope, relation, work.sources, now))
        /\ lineage' = lineage \cup (RunInputs(work.run) \X {Statement(Len(claims) + 1)})
        /\ work' = NoWork
        /\ UNCHANGED <<policy, persona, intents, resident, events, erased, done>>

(***************************************************************************)
(* Alignment: the only way a direct claim settles.                         *)
(***************************************************************************)

alignmentMetaEligible(version, c) ==
    LET evidence == aggregateClaimEvidence(version, c)
    IN  /\ currentClaimStage(c) \in {"sediment", "settled"}
        /\ evidence.confidence >= DefaultPolicyV2.alignmentConfidence
        /\ evidence.external /\ evidence.perspective

PreAlignment(version, c) ==
    EvaluateMaturation(currentClaimStage(c), KindOf[c.stmt], aggregateClaimEvidence(version, c), <<>>)
        = "provenance"

loadAlignmentClaims(kind) ==
    {i \in Ids : KindOf[claims[i].stmt] = kind /\ claims[i].present /\ Active(claims[i])}

ActiveSettled(c) == Active(c) /\ currentClaimStage(c) = "settled"

IntentOf(direct) == {p \in intents : p.new = direct}

\* The old claim of the direct claim's intent; 0 when it has none.
loadAlignmentReplacementIntent(direct) ==
    IF IntentOf(direct) = {} THEN 0 ELSE (CHOOSE p \in IntentOf(direct) : TRUE).old

\* A candidate whose intent names a claim that is no longer active and settled
\* is an error that ends the discovery before the candidates after it.
IntentsUsable(upTo) ==
    \A i \in loadAlignmentClaims("direct") :
        i <= upTo /\ PreAlignment(policy, claims[i]) => \A p \in IntentOf(i) : ActiveSettled(claims[p.old])

DiscoverMemoryAlignmentWork(direct, meta) ==
    /\ work = NoWork /\ RequireEnabled(policy)
    /\ direct \in loadAlignmentClaims("direct") /\ meta \in loadAlignmentClaims("meta")
    /\ PreAlignment(policy, claims[direct]) /\ alignmentMetaEligible(policy, claims[meta])
    /\ IntentsUsable(direct)
    /\ Commit
    /\ work' = [kind |-> "alignment", run |-> ThisRun, policy |-> policy, persona |-> persona,
                direct |-> direct, meta |-> meta, old |-> loadAlignmentReplacementIntent(direct),
                directEv |-> claims[direct].ev, metaEv |-> claims[meta].ev]
    /\ lineage' = lineage \cup Copies(ThisRun, {Statement(direct), Statement(meta)})
    /\ UNCHANGED <<claims, policy, persona, intents, resident, events, erased, done>>

requireMemoryReplacementIntent(direct, old) == \E p \in IntentOf(direct) : p.old = old

\* Every frozen input is there and says what its source still says.
validateAlignmentInputs(w) ==
    /\ Generation(w.run)
    /\ loadEligibleClaimStatement(claims[w.direct]) /\ loadEligibleClaimStatement(claims[w.meta])

requireLatestClaimEvidence(c, rows) == c.ev = rows

AlignmentCurrentDirectOnly(w) ==
    LET direct == claims[w.direct]
        meta   == claims[w.meta]
    IN  /\ w.policy = policy /\ w.persona = persona
        /\ Active(direct)
        /\ currentClaimStage(direct) = "sediment"
        /\ requireLatestClaimEvidence(direct, w.directEv) /\ requireLatestClaimEvidence(meta, w.metaEv)
        /\ PreAlignment(policy, direct) /\ alignmentMetaEligible(policy, meta)
        /\ validateAlignmentInputs(w)
        /\ w.old # 0 => requireMemoryReplacementIntent(w.direct, w.old) /\ ActiveSettled(claims[w.old])

\* Both claims, their evidence and the revisions, read again at the landing.
AlignmentCurrent(w) ==
    LET direct == claims[w.direct]
        meta   == claims[w.meta]
    IN  /\ w.policy = policy /\ w.persona = persona
        /\ Active(direct) /\ Active(meta)
        /\ currentClaimStage(direct) = "sediment"
        /\ requireLatestClaimEvidence(direct, w.directEv) /\ requireLatestClaimEvidence(meta, w.metaEv)
        /\ PreAlignment(policy, direct) /\ alignmentMetaEligible(policy, meta)
        /\ validateAlignmentInputs(w)
        /\ w.old # 0 => requireMemoryReplacementIntent(w.direct, w.old) /\ ActiveSettled(claims[w.old])

applyMemoryAlignmentReplacement(cs, old) ==
    IF old = 0 THEN cs ELSE [cs EXCEPT ![old] = insertStatusTransition(@, "superseded")]

Settled(c, meta, seq) ==
    [insertClaimStageTransition(c, "settled") EXCEPT !.dep = [meta |-> meta, seq |-> seq]]

LandMemoryAlignment(aligned) ==
    /\ work.kind = "alignment" /\ AlignmentCurrent(work)
    /\ Commit
    /\ claims' = IF ~aligned THEN claims
                 ELSE applyMemoryAlignmentReplacement(
                          [claims EXCEPT ![work.direct] = Settled(@, work.meta, commits + 1)], work.old)
    /\ work' = NoWork
    /\ UNCHANGED <<policy, persona, intents, resident, events, erased, done, lineage>>

(***************************************************************************)
(* Persona.                                                                *)
(***************************************************************************)

PersonaSource(c) ==
    /\ loadEligibleClaimStatement(c) /\ ActiveSettled(c) /\ c.scope = "resident_ui"

loadPersonaEligibleClaims == {i \in Ids : PersonaSource(claims[i])}

DiscoverPersonaRevisionWork ==
    /\ work = NoWork /\ RequireEnabled(policy)
    /\ Cardinality(loadPersonaEligibleClaims) \in DefaultPolicyV2.minimumClaims .. DefaultPolicyV2.maximumClaims
    /\ Commit
    /\ work' = [kind |-> "persona", run |-> ThisRun, policy |-> policy, persona |-> persona,
                sources |-> loadPersonaEligibleClaims]
    /\ lineage' = lineage \cup Copies(ThisRun, {Statement(i) : i \in loadPersonaEligibleClaims})
    /\ UNCHANGED <<claims, policy, persona, intents, resident, events, erased, done>>

validatePersonaSources(sources) == \A i \in sources : PersonaSource(claims[i])

\* The revision is always recorded; it becomes active when the edit is small
\* enough, contradicts nothing and the cooldown is over.
LandPersonaRevision(edit, contradiction, cooling) ==
    /\ work.kind = "persona" /\ work.persona = persona /\ work.policy = policy
    /\ validatePersonaSources(work.sources)
    /\ Commit
    /\ persona' = IF EvaluatePersonaThreshold(Cardinality(work.sources), edit, cooling) /\ ~contradiction
                  THEN persona + 1 ELSE persona
    /\ lineage' = lineage \cup (RunInputs(work.run) \X {Revision(work.run)})
    /\ work' = NoWork
    /\ UNCHANGED <<claims, policy, intents, resident, events, erased, done>>

\* A run whose provider call or landing fails is terminalized.
DropWork ==
    /\ work # NoWork
    /\ Commit
    /\ done' = IF work.kind = "extraction" THEN done \cup {work.event} ELSE done
    /\ work' = NoWork
    /\ UNCHANGED <<claims, policy, persona, intents, resident, events, erased, lineage>>

(***************************************************************************)
(* The owner.                                                              *)
(***************************************************************************)

HumanClaimStatusDecision(i, to) ==
    /\ allowedClaimStatusTransition(currentClaimStatus(claims[i]), to)
    /\ Commit
    /\ claims' = [claims EXCEPT ![i] = insertStatusTransition(@, to)]
    /\ UNCHANGED <<policy, persona, intents, resident, events, erased, done, lineage, work>>

SetClaimViewScope(i, scope) ==
    /\ claims[i].scope # scope
    /\ Commit
    /\ claims' = [claims EXCEPT ![i].scope = scope]
    /\ UNCHANGED <<policy, persona, intents, resident, events, erased, done, lineage, work>>

CreateMemoryReplacementIntent(new, old) ==
    /\ IntentOf(new) = {}
    /\ KindOf[claims[new].stmt] = "direct" /\ KindOf[claims[old].stmt] = "direct"
    /\ Active(claims[new]) /\ currentClaimStage(claims[new]) = "sediment"
    /\ ActiveSettled(claims[old])
    /\ Commit
    /\ intents' = intents \cup {[new |-> new, old |-> old, seq |-> commits + 1, policy |-> policy]}
    /\ UNCHANGED <<claims, policy, persona, resident, events, erased, done, lineage, work>>

validateMemoryPolicyActivationTransition(from, to) ==
    \/ from \in {"v1", "v2", "v3"} /\ to \in {"v4", "v5"}
    \/ from = "v4" /\ to = "v5"

ActivateMemoryPolicy(to) ==
    /\ validateMemoryPolicyActivationTransition(policy, to)
    /\ Commit
    /\ policy' = to
    /\ UNCHANGED <<claims, persona, intents, resident, events, erased, done, lineage, work>>

(***************************************************************************)
(* The ledger starts from a history of landed extractions.                 *)
(***************************************************************************)

\* A seed is [policy, log, answered, steps, aligned, intents, talk, autos, commits]: the
\* policy, the events, the closed obligations, the extractions that have landed, the
\* pairs <<direct, meta>> that alignments have settled since, the intents, the runs that
\* wait for their next attempt, and how many of the bounded commits the history has used.
Start == 1
SeedSteps(version, steps) ==
    FoldLeft(LAMBDA cs, step : Extracted(cs, version, step.event, step.out, Start), <<>>, steps)

SeedLedger(version, seed) ==
    LET cs == SeedSteps(version, seed.steps)
        settle(acc, p) == [acc EXCEPT ![p[1]] = Settled(@, p[2], seed.commits)]
    IN  FoldLeft(settle, cs, SetToSeq(seed.aligned))

\* The extractions of a history are the runs -1, -2, ...; a run that it has
\* left says its number itself.
StepEdges(seed, k) ==
    LET before == SeedSteps(seed.policy, SubSeq(seed.steps, 1, k - 1))
        after  == SeedSteps(seed.policy, SubSeq(seed.steps, 1, k))
        source == Text(seed.steps[k].event)
    IN  Copies(-k, {source}) \cup {<<Copy(-k, source), Statement(i)>> : i \in DOMAIN after \ DOMAIN before}

LeftEdges(seed, k) == Copies(seed.autos[k].run, {Statement(i) : i \in seed.autos[k].claims})

SeedLineage(seed) ==
    (UNION {StepEdges(seed, k) : k \in DOMAIN seed.steps})
        \cup (UNION {LeftEdges(seed, k) : k \in DOMAIN seed.autos})

LedgerInit(seed) ==
    /\ now = Start
    /\ policy = seed.policy
    /\ claims = SeedLedger(policy, seed)
    /\ log = [k \in DOMAIN seed.log |-> [event |-> seed.log[k], at |-> 0, policy |-> seed.policy]]
    /\ answered = seed.answered
    /\ done = {seed.steps[k].event : k \in DOMAIN seed.steps}
    /\ intents = seed.intents /\ persona = 0 /\ erased = {} /\ work = NoWork
    /\ resident = "active" /\ commits = seed.commits

WorkNext ==
    \/ \E out \in Outputs : LandMemoryExtraction(out)
    \/ \E kind \in {"abstraction", "split"}, sources \in SUBSET Ids : PrepareMemoryDerivation(kind, sources)
    \/ \E stmt \in Derivable : landDerivedClaim(stmt)
    \/ \E direct, meta \in Ids : DiscoverMemoryAlignmentWork(direct, meta)
    \/ \E aligned \in BOOLEAN : LandMemoryAlignment(aligned)
    \/ DiscoverPersonaRevisionWork
    \/ \E contradiction, cooling \in BOOLEAN, size \in {"within", "over"} :
           LandPersonaRevision([changed |-> size, ratio |-> size, lines |-> "within", total |-> "within"],
                               contradiction, cooling)
    \/ DropWork

OwnerNext ==
    \/ \E i \in Ids, to \in Statuses : HumanClaimStatusDecision(i, to)
    \/ \E i \in Ids, scope \in Scopes : SetClaimViewScope(i, scope)
    \/ \E new, old \in Ids : CreateMemoryReplacementIntent(new, old)
    \/ \E to \in PolicyVersions : ActivateMemoryPolicy(to)
=============================================================================
