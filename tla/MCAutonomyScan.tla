--------------------------- MODULE MCAutonomyScan ---------------------------
(***************************************************************************)
(* The autonomy scan by itself: the scans come one after another, every    *)
(* attempt ends, and the owner may change the status of a claim.  A claim  *)
(* F1 has settled on the meta claim M1, every message is answered and      *)
(* every extraction done.                                                  *)
(***************************************************************************)
EXTENDS Autonomy

CONSTANTS m1, m2, m3, s1, s2

MCEvents     == {m1, m2, m3, s1, s2}
MCTypeOf     == [e \in MCEvents |-> IF e \in {s1, s2} THEN "self_talk" ELSE "user_message"]
MCTrustOf    == [e \in MCEvents |-> "trusted"]
MCTextOf     == [e \in MCEvents |-> e]
MCStatements == {"F1", "M1"}
MCKindOf     == [F1 |-> "direct", M1 |-> "meta"]
MCValidFrom  == [F1 |-> 0, M1 |-> 0]
MCLimits     == [interval |-> 1, consecutive |-> 1, hour |-> 2, day |-> 4, hourly |-> 1, daily |-> 2,
                 suppression |-> 1, minimumInterval |-> 1, initiativeHourly |-> 1, initiativeDaily |-> 1,
                 maxStaleness |-> 1]
MCSaid(e)    == [event |-> e, out |-> <<[stmt |-> "F1", grade |-> "stated"], [stmt |-> "M1", grade |-> "stated"]>>]
MCSeeds      == {[policy |-> "v4", log |-> <<m1, m2, m3>>, answered |-> {<<m1, "none">>, <<m2, "none">>, <<m3, "none">>},
                  steps |-> <<MCSaid(m1), MCSaid(m2), MCSaid(m3)>>, aligned |-> {<<1, 2>>}, intents |-> {},
                  autos |-> <<>>, commits |-> 0]}

Init ==
    \E seed \in Seeds : /\ LedgerInit(seed) /\ AutonomyInit(seed)
                        /\ lineage = SeedLineage(seed)

OwnerStep == \E i \in Ids, to \in Statuses : HumanClaimStatusDecision(i, to) /\ UNCHANGED autos

AttemptEnds ==
    \E k \in DOMAIN autos : \/ \E e \in Events : LandAutonomousEvent(k, e)
                            \/ recordAutonomousFailure(k, FALSE)

Next == OwnerStep \/ processAutonomyOnce \/ AttemptEnds

scanVars == <<ledger, autos>>

\* The loop scans on every tick of its timer; a provider call ends by its
\* deadline at the latest.
Spec == Init /\ [][Next]_scanVars /\ WF_scanVars(processAutonomyOnce) /\ WF_scanVars(AttemptEnds)

\* The idle period after the last message calls for a self-talk and nothing
\* that the autonomy status would name stands against it.
IdleDue == processAutonomyTurn /\ FreshTriggers(IdleTrigger) # <<>>

\* A self-talk that is due is prepared by a later scan, unless it stops being
\* due (docs/guide/configuration.md: the resident talks to itself once the
\* interval is over and no listed condition suppresses it).  A scan ends with
\* an error at a dependency trigger whose settled claim is no longer active,
\* so the idle period behind it is never looked at.
IdleReached == []<>(~IdleDue \/ commits = MaxCommits)
=============================================================================
