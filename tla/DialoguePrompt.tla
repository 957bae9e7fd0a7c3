--------------------------- MODULE DialoguePrompt ---------------------------
(***************************************************************************)
(* What a reply is made from: the prompt of a dialogue run.                *)
(*                                                                         *)
(* The prompt is assembled by a read, outside the writer.  The commit that *)
(* prepares the run checks that nothing the assembly read has changed; the *)
(* commit that lands the reply checks that nothing the prompt holds has    *)
(* been erased.  DialogueObligations has the attempts and the order of the *)
(* messages; here one message at a time, the oldest open one, is answered. *)
(* Sizes are counted in inputs (the byte budget drops in the same order).  *)
(***************************************************************************)
EXTENDS Autonomy

CONSTANTS
    GapBefore,   \* user messages that begin a new session
    Relevant,    \* statements whose words meet those of a message
    LiveLimit,   \* bound on the events of a session in a prompt
    MaxInputs,   \* bound on events and recalled claims in a prompt
    Rendered     \* statement -> the wire it is recalled as

VARIABLE talk    \* the dialogue run, or an assembly on its way to one

NoTalk == [step |-> "none"]

\* Everything but the claims and the events.
rest == <<policy, persona, intents, resident, erased, done, work, autos>>

AcceptMessage(e) ==
    /\ TypeOf[e] = "user_message" /\ e \in Events \ happened
    /\ Commit
    /\ log' = Append(log, makeEvent(e))
    /\ UNCHANGED <<claims, rest, answered, now, lineage, talk>>

Tick ==
    /\ now' \in 1 .. MaxNow /\ now' # now
    /\ UNCHANGED <<claims, rest, log, answered, lineage, commits, talk>>

(***************************************************************************)
(* The events of a prompt.  An event stands for its place in the log.      *)
(***************************************************************************)

PlaceOf(e)  == CHOOSE k \in DOMAIN log : log[k].event = e
EventAt(k)  == log[k].event
OfType(k, types) == TypeOf[EventAt(k)] \in types
Lines(from, to, types) == SelectSeq([i \in 1 .. to - from + 1 |-> from + i - 1], LAMBDA k : OfType(k, types))
LastOf(s, n) == SubSeq(s, Max({0, Len(s) - n}) + 1, Len(s))

\* A session runs from the last message after an idle gap.
Calculate(place) ==
    LET start == Max({1} \cup {k \in 1 .. place : EventAt(k) \in GapBefore})
    IN  [start |-> start, events |-> LastOf(Lines(start, place, {"user_message", "resident_message"}), LiveLimit)]

loadPresentLiveDialogueInputs(place) ==
    LastOf(SelectSeq(Lines(Calculate(place).start, place - 1, {"user_message", "resident_message"}),
                     LAMBDA k : EventAt(k) \in Present),
           LiveLimit - 1)

\* The conversation event right before the message, when it is an initiative.
loadInitiativeDialogueInput(place) ==
    LET before == LastOf(Lines(1, place - 1, {"user_message", "resident_message", "outbound_initiative"}), 1)
    IN  SelectSeq(before, LAMBDA k : OfType(k, {"outbound_initiative"}) /\ EventAt(k) \in Present)

\* The exchange right before the session: a message, or a reply together with
\* the message it answers.  An erased or foreign newest event is a boundary.
loadAutomaticDialogueBackfill(start) ==
    LET before == LastOf(Lines(1, start - 1, {"user_message", "resident_message", "outbound_initiative"}), 2)
        newest == Last(before)
        chosen == IF before = <<>> THEN <<>>
                  ELSE CASE OfType(newest, {"user_message"}) -> <<newest>>
                         [] OfType(newest, {"resident_message"}) /\ Len(before) = 2
                              /\ <<EventAt(before[1]), EventAt(newest)>> \in answered -> before
                         [] OTHER -> <<>>
    IN  IF \A k \in Range(chosen) : EventAt(k) \in Present THEN chosen ELSE <<>>

\* Backfill only while the session, erased events included, leaves room and
\* no initiative lies in it or right before the message.
loadLiveDialogueInputs(place) ==
    LET session  == Calculate(place)
        live     == loadPresentLiveDialogueInputs(place)
        room     == LiveLimit - Len(session.events)
        backfill == loadAutomaticDialogueBackfill(session.start)
        blocked  == \/ room <= 0 \/ loadInitiativeDialogueInput(place) # <<>>
                    \/ Lines(session.start, place - 1, {"outbound_initiative"}) # <<>>
                    \/ Len(backfill) > room \/ Len(backfill) + Len(live) > LiveLimit - 1
    IN  [live |-> live, backfill |-> IF blocked THEN <<>> ELSE backfill]

(***************************************************************************)
(* The recalled claims.                                                    *)
(***************************************************************************)

RecallSalience(c) ==
    AggregateSalience(c.uses.selected * SalienceContribution(policy, "selected"),
                      c.uses.prompt_included * SalienceContribution(policy, "prompt_included"))

loadRecallEvidenceSources(c) == {row.event : row \in c.ev}

loadRecallCandidates ==
    {[claim |-> i, status |-> currentClaimStatus(claims[i]), stage |-> currentClaimStage(claims[i]),
      abstract |-> claims[i].rel = "abstracts", sources |-> loadRecallEvidenceSources(claims[i]),
      context |-> IF claims[i].stmt \in Relevant THEN Scale ELSE 0,
      salience |-> RecallSalience(claims[i]), temporal |-> initiativeProjectionRelation(claims[i]),
      confidence |-> aggregateClaimEvidence(policy, claims[i]).confidence, order |-> i]
        : i \in {j \in Ids : /\ claims[j].present /\ claims[j].scope = "resident_ui"
                             /\ Active(claims[j])}}

(***************************************************************************)
(* Fitting both into the budget.                                           *)
(***************************************************************************)

\* The last recalled claim goes first, then the backfill as a whole, then the
\* oldest events of the session, then the initiative.
applyDialogueBudget(c) ==
    LET over(x)  == Max({0, 1 + Len(x.live) + Len(x.backfill) + Len(x.initiative) + Len(x.recall) - MaxInputs})
        less     == [c EXCEPT !.recall = SubSeq(@, 1, Max({0, Len(@) - over(c)}))]
        recent   == IF over(less) > 0 THEN [less EXCEPT !.backfill = <<>>] ELSE less
        shorter  == [recent EXCEPT !.live = LastOf(@, Max({0, Len(@) - over(recent)}))]
    IN  IF over(shorter) > 0 THEN [shorter EXCEPT !.initiative = <<>>] ELSE shorter

finalDialogueContextEventIDs(c) ==
    {EventAt(k) : k \in Range(c.live) \cup Range(c.backfill) \cup Range(c.initiative) \cup {c.place}}

\* A dropped event may bring a claim back into the plan, so planning and
\* dropping alternate until the events stay.
assembleDialogueContextV2(base, selection) ==
    FoldLeft(LAMBDA c, pass : applyDialogueBudget(
                 [c EXCEPT !.recall = PlanRecallV2(selection, finalDialogueContextEventIDs(c))]),
             base, [pass \in 1 .. Len(base.live) + 3 |-> pass])

\* The whole assembly for one message.
assembleDialogue(e) ==
    LET place     == PlaceOf(e)
        inputs    == loadLiveDialogueInputs(place)
        selection == IF RequireEnabled(policy) THEN SelectRecall(policy, loadRecallCandidates) ELSE <<>>
        base == [place |-> place, live |-> inputs.live, backfill |-> inputs.backfill,
                 initiative |-> loadInitiativeDialogueInput(place), recall |-> <<>>]
        final == assembleDialogueContextV2(base, selection)
    IN  [events   |-> finalDialogueContextEventIDs(final),
         selected |-> {selection[k].claim : k \in DOMAIN selection},
         prompt   |-> {final.recall[k].claim : k \in DOMAIN final.recall}]

(***************************************************************************)
(* Assemble, prepare, call, land.                                          *)
(***************************************************************************)

Unanswered(e) == e \in happened /\ TypeOf[e] = "user_message" /\ \A pair \in answered : pair[1] # e
Oldest(e)     == Unanswered(e) /\ \A f \in happened : Unanswered(f) => PlaceOf(e) <= PlaceOf(f)

\* The rows a claim has gathered, whether or not its statement is erased.
MemoryRows(cs) == [i \in DOMAIN cs |-> [cs[i] EXCEPT !.present = TRUE]]

NewTalk(e) ==
    LET context == assembleDialogue(e)
    IN  [step |-> "assembled", run |-> 0, msg |-> e, policy |-> policy, persona |-> persona,
         events |-> context.events, selected |-> context.selected, prompt |-> context.prompt,
         seen |-> MemoryRows(claims)]

AssembleDialogue(e) ==
    /\ talk = NoTalk /\ resident = "active" /\ Oldest(e) /\ e \in Present /\ commits < MaxCommits
    /\ talk' = NewTalk(e)
    /\ UNCHANGED <<ledger, autos>>

\* No claim, evidence, usage, status, stage, scope or relation row since.
requireNoDialogueRecallChangeAfter(t) == MemoryRows(claims) = t.seen

requireActiveRevision(t) == t.policy = policy /\ t.persona = persona

validatePreparedDialogueInputs(t) == t.events \subseteq Present

\* The plan and what the budget drops from it have to come out once more, and
\* a recalled claim is one of those the plan has selected.
validatePreparedDialogueRecallPlanWithDrops(t, again) ==
    again.prompt = t.prompt /\ again.selected = t.selected /\ t.prompt \subseteq t.selected

validatePreparedDialogueAssembly(t) ==
    LET again == assembleDialogue(t.msg)
    IN  again.events = t.events /\ validatePreparedDialogueRecallPlanWithDrops(t, again)

\* Every selected claim is read again from the ledger, past the projection.
revalidateRecallSelection(selected) ==
    \A i \in selected : /\ i \in Ids /\ loadEligibleClaimStatement(claims[i])
                        /\ Active(claims[i]) /\ claims[i].scope = "resident_ui"

validateSuccessfulDialogueRecall(t) ==
    LET selection == SelectRecall(policy, loadRecallCandidates)
    IN  {selection[k].claim : k \in DOMAIN selection} = t.selected /\ revalidateRecallSelection(t.selected)

\* A policy without recall prepares a run that recalls nothing.
validateNewPreparedDialogue(t) ==
    /\ Unanswered(t.msg) /\ t.msg \in Present
    /\ requireActiveRevision(t)
    /\ RequireEnabled(policy) => RenderingVersion(policy) = "v2" /\ requireNoDialogueRecallChangeAfter(t)
    /\ validatePreparedDialogueInputs(t)
    /\ validatePreparedDialogueAssembly(t)

\* Events are frozen as they are, recalled claims as RenderClaim has them.
insertGenerationRunInputs(run, t) ==
    Copies(run, {Text(e) : e \in t.events})
        \cup {<<Statement(i), Wire(run, Statement(i))>> : i \in t.prompt}

\* The run and what it recalled; the row snapshot has served its purpose.
insertDialogueRecallUsages(cs, t) == UsedIn(UsedIn(cs, t.selected, "selected"), t.prompt, "prompt_included")

PrepareDialogue ==
    /\ talk.step = "assembled"
    /\ validateNewPreparedDialogue(talk)
    /\ RequireEnabled(policy) => validateSuccessfulDialogueRecall(talk)
    /\ Commit
    /\ claims' = insertDialogueRecallUsages(claims, talk)
    /\ lineage' = lineage \cup insertGenerationRunInputs(ThisRun, talk)
    /\ talk' = [talk EXCEPT !.step = "running", !.run = ThisRun, !.seen = <<>>]
    /\ UNCHANGED <<rest, events>>

\* A refused preparation, or a process that ends before it: nothing was
\* written and the message is assembled again.
AbandonAssembly ==
    /\ talk.step = "assembled" /\ talk' = NoTalk
    /\ UNCHANGED <<ledger, autos>>

FailDialogueAttempt ==
    /\ talk.step = "running"
    /\ Commit
    /\ talk' = [talk EXCEPT !.step = "waiting"]
    /\ UNCHANGED <<claims, rest, events, lineage>>

StartAttempt ==
    /\ talk.step = "waiting" /\ Generation(talk.run)
    /\ Commit
    /\ talk' = [talk EXCEPT !.step = "running"]
    /\ UNCHANGED <<claims, rest, events, lineage>>

validateDialogueV3RecallInputAtLanding(t) == \A i \in t.prompt : i \in Ids /\ loadEligibleClaimStatement(claims[i])

revalidateEventsOnly(t) == Generation(t.run) /\ t.events \subseteq Present

\* Every frozen input is still there; every event of the prompt has its
\* content and every claim its statement.
revalidateDialogueInputsAtLanding(t) ==
    Generation(t.run) /\ t.events \subseteq Present /\ validateDialogueV3RecallInputAtLanding(t)

LandDialogue(reply) ==
    /\ talk.step = "running" /\ revalidateDialogueInputsAtLanding(talk)
    /\ reply \in Events \ happened /\ TypeOf[reply] = "resident_message"
    /\ Commit
    /\ log' = Append(log, makeEvent(reply))
    /\ answered' = answered \cup {<<talk.msg, reply>>}
    /\ lineage' = lineage \cup (RunInputs(talk.run) \X {Text(reply)})
    /\ talk' = NoTalk
    /\ UNCHANGED <<claims, rest, now>>

\* A final error, the cancellation of a run with an erased claim, or a retry
\* that finds an input erased: the obligation ends without a reply.
EndDialogue ==
    /\ talk.step = "running" \/ (talk.step = "waiting" /\ ~Generation(talk.run))
    /\ Commit
    /\ answered' = answered \cup {<<talk.msg, "none">>}
    /\ talk' = NoTalk
    /\ UNCHANGED <<claims, rest, log, now, lineage>>

\* The extraction of a message waits until its dialogue run exists.
dialogueCommitBExists(e) == Unanswered(e) => talk.step \in {"running", "waiting"} /\ talk.msg = e

DiscoverMemoryExtractionWork ==
    \E e \in happened : /\ dialogueCommitBExists(e) /\ PrepareMemoryExtraction(e)
                        /\ UNCHANGED <<autos, talk>>

\* A seed may hold a run that waits for its next attempt.
DialogueInit(seed) ==
    /\ talk = seed.talk
    /\ lineage = SeedLineage(seed)
                     \cup (IF talk = NoTalk THEN {} ELSE insertGenerationRunInputs(talk.run, talk))

DialogueNext ==
    \/ \E e \in Events : AcceptMessage(e) \/ AssembleDialogue(e) \/ LandDialogue(e)
    \/ PrepareDialogue \/ AbandonAssembly \/ FailDialogueAttempt \/ StartAttempt \/ EndDialogue
    \/ DiscoverMemoryExtractionWork
=============================================================================
