-------------------------- MODULE ClaimErasureProofs --------------------------
(***************************************************************************)
(* The memory of a resident, for any events, statements, answers, limits   *)
(* and any number of commits: the rows of a claim can be folded, no copy   *)
(* survives its source, an erasure leaves nothing of its targets unseen    *)
(* and no active claim without support, and what lands after a provider    *)
(* call rests on what is there then.                                       *)
(***************************************************************************)
EXTENDS ClaimErasure, FiniteSetTheorems, TLAPS

-----------------------------------------------------------------------------
(* Sequences of anything.                                                  *)

LEMMA SeqParts ==
    ASSUME NEW s, IsSeq(s)
    PROVE  Len(s) \in Nat /\ DOMAIN s = 1 .. Len(s) /\ s = [i \in 1 .. Len(s) |-> s[i]]
  BY DEF IsSeq

LEMMA SeqFrom ==
    ASSUME NEW n \in Nat, NEW f, DOMAIN f = 1 .. n, f = [i \in 1 .. n |-> f[i]]
    PROVE  IsSeq(f) /\ Len(f) = n
<1>1. f \in [1 .. n -> Range(f)] BY DEF Range
<1>2. f \in Seq(Range(f)) BY <1>1
<1> QED BY <1>2 DEF IsSeq

LEMMA SeqAppend ==
    ASSUME NEW s, IsSeq(s), NEW e
    PROVE  /\ IsSeq(Append(s, e)) /\ Append(s, e) # <<>>
           /\ Len(Append(s, e)) = Len(s) + 1
           /\ DOMAIN Append(s, e) = 1 .. Len(s) + 1
           /\ \A i \in 1 .. Len(s) : Append(s, e)[i] = s[i]
           /\ Append(s, e)[Len(s) + 1] = e
           /\ Last(Append(s, e)) = e
<1>1. PICK S : S = Range(s) \cup {e} OBVIOUS
<1>2. s \in Seq(S)
  <2>1. s \in [1 .. Len(s) -> S] BY <1>1, SeqParts DEF Range
  <2>2. Len(s) \in Nat BY SeqParts
  <2> QED BY <2>1, <2>2
<1>3. e \in S BY <1>1
<1>4. PICK t : t = Append(s, e) OBVIOUS
<1>5. /\ t \in Seq(S) /\ Len(t) = Len(s) + 1 /\ Len(s) \in Nat
      /\ \A i \in 1 .. Len(s) : t[i] = s[i]
      /\ t[Len(s) + 1] = e
  BY <1>2, <1>3, <1>4
<1>6. DOMAIN t = 1 .. Len(s) + 1 /\ t = [i \in 1 .. Len(s) + 1 |-> t[i]] BY <1>5
<1>7. Len(s) + 1 \in Nat BY <1>5
<1>8. IsSeq(t) BY <1>6, <1>7, SeqFrom
<1>9. t # <<>> BY <1>5
<1>10. Last(t) = e BY <1>5 DEF Last
<1> QED BY <1>4, <1>5, <1>6, <1>8, <1>9, <1>10

-----------------------------------------------------------------------------
(* One claim.                                                              *)

\* The fields in which d is c.
Same(c, d) == d.stmt = c.stmt /\ d.present = c.present /\ d.ev = c.ev /\ d.dep = c.dep

LEMMA EvidenceField ==
    ASSUME NEW c, ClaimRows(c), NEW v
    PROVE  LET d == [c EXCEPT !.ev = v] IN
             /\ ClaimRows(d) /\ d.ev = v /\ d.stmt = c.stmt /\ d.present = c.present /\ d.dep = c.dep
             /\ d.stages = c.stages /\ d.statuses = c.statuses
<1>1. PICK d : d = [c EXCEPT !.ev = v] OBVIOUS
<1>2. /\ d.ev = v /\ d.stmt = c.stmt /\ d.present = c.present /\ d.dep = c.dep
      /\ d.stages = c.stages /\ d.statuses = c.statuses /\ d.present \in BOOLEAN
      /\ d = [stmt |-> d.stmt, present |-> d.present, ev |-> d.ev, stages |-> d.stages, statuses |-> d.statuses,
            scope |-> d.scope, rel |-> d.rel, srcs |-> d.srcs, at |-> d.at, dep |-> d.dep, uses |-> d.uses]
  BY <1>1 DEF ClaimRows, Same
<1>3. ClaimRows(d) BY <1>2 DEF ClaimRows, ReplayClaimStates
<1> QED BY <1>1, <1>2, <1>3

LEMMA ScopeField ==
    ASSUME NEW c, ClaimRows(c), NEW v
    PROVE  LET d == [c EXCEPT !.scope = v] IN
             /\ ClaimRows(d) /\ Same(c, d)
             /\ d.stages = c.stages /\ d.statuses = c.statuses
<1>1. PICK d : d = [c EXCEPT !.scope = v] OBVIOUS
<1>2. /\ Same(c, d)
      /\ d.stages = c.stages /\ d.statuses = c.statuses /\ d.present \in BOOLEAN
      /\ d = [stmt |-> d.stmt, present |-> d.present, ev |-> d.ev, stages |-> d.stages, statuses |-> d.statuses,
            scope |-> d.scope, rel |-> d.rel, srcs |-> d.srcs, at |-> d.at, dep |-> d.dep, uses |-> d.uses]
  BY <1>1 DEF ClaimRows, Same
<1>3. ClaimRows(d) BY <1>2 DEF ClaimRows, ReplayClaimStates
<1> QED BY <1>1, <1>2, <1>3

LEMMA UsesField ==
    ASSUME NEW c, ClaimRows(c), NEW v
    PROVE  LET d == [c EXCEPT !.uses = v] IN
             /\ ClaimRows(d) /\ Same(c, d)
             /\ d.stages = c.stages /\ d.statuses = c.statuses
<1>1. PICK d : d = [c EXCEPT !.uses = v] OBVIOUS
<1>2. /\ Same(c, d)
      /\ d.stages = c.stages /\ d.statuses = c.statuses /\ d.present \in BOOLEAN
      /\ d = [stmt |-> d.stmt, present |-> d.present, ev |-> d.ev, stages |-> d.stages, statuses |-> d.statuses,
            scope |-> d.scope, rel |-> d.rel, srcs |-> d.srcs, at |-> d.at, dep |-> d.dep, uses |-> d.uses]
  BY <1>1 DEF ClaimRows, Same
<1>3. ClaimRows(d) BY <1>2 DEF ClaimRows, ReplayClaimStates
<1> QED BY <1>1, <1>2, <1>3

LEMMA DepField ==
    ASSUME NEW c, ClaimRows(c), NEW v
    PROVE  LET d == [c EXCEPT !.dep = v] IN
             /\ ClaimRows(d) /\ d.dep = v /\ d.stmt = c.stmt /\ d.present = c.present /\ d.ev = c.ev
             /\ d.stages = c.stages /\ d.statuses = c.statuses
<1>1. PICK d : d = [c EXCEPT !.dep = v] OBVIOUS
<1>2. /\ d.dep = v /\ d.stmt = c.stmt /\ d.present = c.present /\ d.ev = c.ev
      /\ d.stages = c.stages /\ d.statuses = c.statuses /\ d.present \in BOOLEAN
      /\ d = [stmt |-> d.stmt, present |-> d.present, ev |-> d.ev, stages |-> d.stages, statuses |-> d.statuses,
            scope |-> d.scope, rel |-> d.rel, srcs |-> d.srcs, at |-> d.at, dep |-> d.dep, uses |-> d.uses]
  BY <1>1 DEF ClaimRows, Same
<1>3. ClaimRows(d) BY <1>2 DEF ClaimRows, ReplayClaimStates
<1> QED BY <1>1, <1>2, <1>3

LEMMA PresentField ==
    ASSUME NEW c, ClaimRows(c)
    PROVE  LET d == [c EXCEPT !.present = FALSE] IN
             /\ ClaimRows(d) /\ d.present = FALSE /\ d.stmt = c.stmt /\ d.ev = c.ev /\ d.dep = c.dep
             /\ d.stages = c.stages /\ d.statuses = c.statuses
<1>1. PICK d : d = [c EXCEPT !.present = FALSE] OBVIOUS
<1>2. /\ d.present = FALSE /\ d.stmt = c.stmt /\ d.ev = c.ev /\ d.dep = c.dep
      /\ d.stages = c.stages /\ d.statuses = c.statuses /\ d.present \in BOOLEAN
      /\ d = [stmt |-> d.stmt, present |-> d.present, ev |-> d.ev, stages |-> d.stages, statuses |-> d.statuses,
            scope |-> d.scope, rel |-> d.rel, srcs |-> d.srcs, at |-> d.at, dep |-> d.dep, uses |-> d.uses]
  BY <1>1 DEF ClaimRows, Same
<1>3. ClaimRows(d) BY <1>2 DEF ClaimRows, ReplayClaimStates
<1> QED BY <1>1, <1>2, <1>3

\* A row that continues the rows of a claim can be folded behind them.
RowStep(row) ==
    \/ row.from = "" /\ row.to = "floating"
    \/ validStageAdvance(row.from, row.to)
    \/ allowedClaimStatusTransition(row.from, row.to)
Continues(rows, first, row) ==
    row.from = (IF rows = <<>> THEN first ELSE Last(rows).to) /\ RowStep(row)

LEMMA RowContinues ==
    ASSUME NEW rows, IsSeq(rows), NEW first, replayClaimTransition(rows, first), NEW row,
           Continues(rows, first, row)
    PROVE  replayClaimTransition(Append(rows, row), first)
<1>1. Len(rows) \in Nat /\ DOMAIN rows = 1 .. Len(rows) BY SeqParts
<1>2. PICK t : t = Append(rows, row) OBVIOUS
<1>3. /\ DOMAIN t = 1 .. Len(rows) + 1
      /\ \A i \in 1 .. Len(rows) : t[i] = rows[i]
      /\ t[Len(rows) + 1] = row
  BY <1>2, SeqAppend
<1>4. rows = <<>> <=> Len(rows) = 0
  <2>1. rows = <<>> => Len(rows) = 0 OBVIOUS
  <2>2. Len(rows) = 0 => DOMAIN rows = {} BY <1>1
  <2>3. rows = [i \in 1 .. Len(rows) |-> rows[i]] BY SeqParts
  <2> QED BY <2>1, <2>2, <2>3, <1>1
<1>5. ASSUME NEW i \in DOMAIN t
      PROVE  /\ t[i].from = IF i = 1 THEN first ELSE t[i - 1].to
             /\ RowStep(t[i])
  <2>1. CASE i \in 1 .. Len(rows)
    <3>1. t[i] = rows[i] BY <1>3, <2>1
    <3>2. i # 1 => i - 1 \in 1 .. Len(rows) BY <1>1, <2>1
    <3>3. i # 1 => t[i - 1] = rows[i - 1] BY <1>3, <3>2
    <3> QED BY <3>1, <3>3, <1>1, <2>1 DEF replayClaimTransition, RowStep
  <2>2. CASE i = Len(rows) + 1
    <3>1. t[i] = row BY <1>3, <2>2
    <3>2. rows # <<>> => Last(rows) = t[i - 1] /\ i # 1
      <4>1. rows # <<>> => Len(rows) \in 1 .. Len(rows) BY <1>1, <1>4
      <4> QED BY <4>1, <1>1, <1>3, <2>2 DEF Last
    <3>3. rows = <<>> => i = 1 BY <1>4, <2>2
    <3> QED BY <3>1, <3>2, <3>3 DEF Continues
  <2> QED BY <1>1, <1>3, <1>5, <2>1, <2>2
<1> QED BY <1>2, <1>5 DEF replayClaimTransition, RowStep

LEMMA StageInserted ==
    ASSUME NEW c, ClaimRows(c), NEW to, validStageAdvance(currentClaimStage(c), to)
    PROVE  LET d == insertClaimStageTransition(c, to) IN
             ClaimRows(d) /\ Same(c, d) /\ d.statuses = c.statuses /\ currentClaimStage(d) = to
<1>1. PICK row : row = [from |-> currentClaimStage(c), to |-> to] OBVIOUS
<1>2. PICK rows : rows = Append(c.stages, row) OBVIOUS
<1>3. PICK d : d = [c EXCEPT !.stages = rows] OBVIOUS
<1>4. d = insertClaimStageTransition(c, to) BY <1>1, <1>2, <1>3 DEF insertClaimStageTransition
<1>5. /\ d.stages = rows /\ d.statuses = c.statuses /\ Same(c, d) /\ d.present \in BOOLEAN
      /\ d = [stmt |-> d.stmt, present |-> d.present, ev |-> d.ev, stages |-> d.stages, statuses |-> d.statuses,
            scope |-> d.scope, rel |-> d.rel, srcs |-> d.srcs, at |-> d.at, dep |-> d.dep, uses |-> d.uses]
  BY <1>3 DEF ClaimRows, Same
<1>6. IsSeq(c.stages) /\ c.stages # <<>> /\ IsSeq(c.statuses)
      /\ replayClaimTransition(c.stages, "") /\ replayClaimTransition(c.statuses, "active")
  BY DEF ClaimRows, ReplayClaimStates
<1>7. IsSeq(rows) /\ rows # <<>> /\ Last(rows) = row BY <1>2, <1>6, SeqAppend
<1>8. row.from = currentClaimStage(c) /\ row.to = to BY <1>1
<1>9. replayClaimTransition(rows, "")
  <2>1. Continues(c.stages, "", row) BY <1>6, <1>8 DEF Continues, RowStep, currentClaimStage
  <2> QED BY <1>2, <1>6, <2>1, RowContinues
<1>10. ClaimRows(d) BY <1>5, <1>6, <1>7, <1>9 DEF ClaimRows, ReplayClaimStates
<1> QED BY <1>4, <1>5, <1>7, <1>8, <1>10 DEF currentClaimStage

LEMMA StatusInserted ==
    ASSUME NEW c, ClaimRows(c), NEW to, allowedClaimStatusTransition(currentClaimStatus(c), to)
    PROVE  LET d == insertStatusTransition(c, to) IN
             ClaimRows(d) /\ Same(c, d) /\ d.stages = c.stages /\ currentClaimStatus(d) = to
<1>1. PICK row : row = [from |-> currentClaimStatus(c), to |-> to, seq |-> commits + 1, policy |-> policy]
  OBVIOUS
<1>2. PICK rows : rows = Append(c.statuses, row) OBVIOUS
<1>3. PICK d : d = [c EXCEPT !.statuses = rows] OBVIOUS
<1>4. d = insertStatusTransition(c, to) BY <1>1, <1>2, <1>3 DEF insertStatusTransition
<1>5. /\ d.statuses = rows /\ d.stages = c.stages /\ Same(c, d) /\ d.present \in BOOLEAN
      /\ d = [stmt |-> d.stmt, present |-> d.present, ev |-> d.ev, stages |-> d.stages, statuses |-> d.statuses,
            scope |-> d.scope, rel |-> d.rel, srcs |-> d.srcs, at |-> d.at, dep |-> d.dep, uses |-> d.uses]
  BY <1>3 DEF ClaimRows, Same
<1>6. IsSeq(c.stages) /\ c.stages # <<>> /\ IsSeq(c.statuses)
      /\ replayClaimTransition(c.stages, "") /\ replayClaimTransition(c.statuses, "active")
  BY DEF ClaimRows, ReplayClaimStates
<1>7. IsSeq(rows) /\ rows # <<>> /\ Last(rows) = row BY <1>2, <1>6, SeqAppend
<1>8. row.from = currentClaimStatus(c) /\ row.to = to BY <1>1
<1>9. replayClaimTransition(rows, "active")
  <2>1. Continues(c.statuses, "active", row) BY <1>6, <1>8 DEF Continues, RowStep, currentClaimStatus
  <2> QED BY <1>2, <1>6, <2>1, RowContinues
<1>10. ClaimRows(d) BY <1>5, <1>6, <1>7, <1>9 DEF ClaimRows, ReplayClaimStates
<1> QED BY <1>4, <1>5, <1>7, <1>8, <1>10 DEF currentClaimStatus

-----------------------------------------------------------------------------
(* Maturation.                                                             *)

LEMMA GateNeedsAlignment ==
    ASSUME NEW evidence PROVE ~settledProvenanceGate("direct", evidence, <<>>)
  BY DEF settledProvenanceGate

LEMMA MaturationAdvances ==
    ASSUME NEW stage, NEW kind, NEW evidence, EvaluateMaturation(stage, kind, evidence, <<>>) = ""
    PROVE  stage = "floating" \/ (stage = "sediment" /\ kind # "direct")
<1>1. CASE stage = "floating" BY <1>1
<1>2. CASE stage = "sediment"
  <2>1. settledProvenanceGate(kind, evidence, <<>>)
    <3>1. PICK gate : gate = settledProvenanceGate(kind, evidence, <<>>) OBVIOUS
    <3>2. SUFFICES ASSUME ~gate PROVE FALSE BY <3>1
    <3>3. EvaluateMaturation(stage, kind, evidence, <<>>)
             \in {"trusted", "distinct", "weight", "confidence", "provenance"}
      BY <1>2, <3>1, <3>2 DEF EvaluateMaturation
    <3> QED BY <3>3
  <2> QED BY <1>2, <2>1, GateNeedsAlignment
<1>3. CASE stage \notin {"floating", "sediment"} BY <1>3 DEF EvaluateMaturation
<1> QED BY <1>1, <1>2, <1>3

\* One turn of the maturation loop.
Advance(evidence, c) ==
    IF EvaluateMaturation(currentClaimStage(c), KindOf[c.stmt], evidence, <<>>) = ""
    THEN insertClaimStageTransition(c, NextStage(currentClaimStage(c))) ELSE c

StillUnsettled(c, d) ==
    KindOf[c.stmt] = "direct" /\ currentClaimStage(d) = "settled" => currentClaimStage(c) = "settled"

LEMMA Advances ==
    ASSUME NEW evidence, NEW c, ClaimRows(c)
    PROVE  LET d == Advance(evidence, c) IN
             ClaimRows(d) /\ Same(c, d) /\ d.statuses = c.statuses /\ StillUnsettled(c, d)
<1>1. CASE EvaluateMaturation(currentClaimStage(c), KindOf[c.stmt], evidence, <<>>) = ""
  <2>1. PICK to : to = NextStage(currentClaimStage(c)) OBVIOUS
  <2>2. currentClaimStage(c) = "floating" \/ (currentClaimStage(c) = "sediment" /\ KindOf[c.stmt] # "direct")
    BY <1>1, MaturationAdvances
  <2>3. validStageAdvance(currentClaimStage(c), to) BY <2>1, <2>2 DEF validStageAdvance, NextStage
  <2>4. Advance(evidence, c) = insertClaimStageTransition(c, to) BY <1>1, <2>1 DEF Advance
  <2>5. KindOf[c.stmt] = "direct" => to # "settled" BY <2>1, <2>2 DEF NextStage
  <2> QED BY <2>3, <2>4, <2>5, StageInserted DEF StillUnsettled
<1>2. CASE EvaluateMaturation(currentClaimStage(c), KindOf[c.stmt], evidence, <<>>) # ""
  BY <1>2 DEF Advance, Same, StillUnsettled
<1> QED BY <1>1, <1>2

LEMMA Matures ==
    ASSUME NEW version, NEW c, ClaimRows(c)
    PROVE  LET d == Matured(version, c) IN
             ClaimRows(d) /\ Same(c, d) /\ d.statuses = c.statuses /\ StillUnsettled(c, d)
<1>1. PICK evidence : evidence = aggregateClaimEvidence(version, c) OBVIOUS
<1>2. PICK b : b = Advance(evidence, c) OBVIOUS
<1>3. PICK d : d = Advance(evidence, b) OBVIOUS
<1>4. d = Matured(version, c) BY <1>1, <1>2, <1>3 DEF Matured, Advance
<1>5. ClaimRows(b) /\ Same(c, b) /\ b.statuses = c.statuses /\ StillUnsettled(c, b) BY <1>2, Advances
<1>6. ClaimRows(d) /\ Same(b, d) /\ d.statuses = b.statuses /\ StillUnsettled(b, d) BY <1>3, <1>5, Advances
<1> QED BY <1>4, <1>5, <1>6 DEF Same, StillUnsettled

-----------------------------------------------------------------------------
(* From one commit to the next: a claim keeps its statement, its evidence  *)
(* and the dependency it has.                                              *)

Follows(c, d) ==
    /\ ClaimRows(d) /\ d.stmt = c.stmt /\ c.ev \subseteq d.ev
    /\ c.dep # NoDependency => d.dep # NoDependency

LEMMA SameFollows ==
    ASSUME NEW c, NEW d, ClaimRows(d), Same(c, d) PROVE Follows(c, d) /\ d.present = c.present
  BY DEF Same, Follows

LEMMA ExtractedClaim ==
    ASSUME NEW version, NEW event, NEW item, NEW c, ClaimRows(c)
    PROVE  LET d == landExtractedClaim(version, event, item, c) IN
             Follows(c, d) /\ d.present = c.present /\ d.dep = c.dep /\ StillUnsettled(c, d)
<1>1. CASE landExtractedClaim(version, event, item, c) = c
  BY <1>1 DEF Follows, StillUnsettled
<1>2. CASE landExtractedClaim(version, event, item, c)
             = addClaimEvidenceWithPolicy(version, c, ExtractedRow(event, item))
  <2>1. PICK rows : rows = c.ev \cup {ExtractedRow(event, item)} OBVIOUS
  <2>2. PICK b : b = [c EXCEPT !.ev = rows] OBVIOUS
  <2>3. landExtractedClaim(version, event, item, c) = Matured(version, b)
    BY <1>2, <2>1, <2>2 DEF addClaimEvidenceWithPolicy
  <2>4. ClaimRows(b) /\ b.ev = rows /\ b.stmt = c.stmt /\ b.present = c.present /\ b.dep = c.dep /\ b.stages = c.stages
    BY <2>2, EvidenceField
  <2>5. PICK d : d = Matured(version, b) OBVIOUS
  <2>6. ClaimRows(d) /\ Same(b, d) /\ StillUnsettled(b, d) BY <2>4, <2>5, Matures
  <2>7. Follows(c, d) /\ d.present = c.present /\ d.dep = c.dep
    BY <2>1, <2>4, <2>6 DEF Same, Follows
  <2>8. StillUnsettled(c, d) BY <2>4, <2>6 DEF StillUnsettled, currentClaimStage
  <2> QED BY <2>3, <2>5, <2>7, <2>8
<1> QED BY <1>1, <1>2 DEF landExtractedClaim

LEMMA FreshClaim ==
    ASSUME NEW stmt, NEW ev, NEW scope, NEW rel, NEW srcs, NEW at
    PROVE  LET d == NewClaim(stmt, ev, scope, rel, srcs, at) IN ClaimRows(d) /\ d.dep = NoDependency /\ d.stmt = stmt
<1>1. PICK row : row = [from |-> "", to |-> "floating"] OBVIOUS
<1>2. PICK rows : rows = <<row>> OBVIOUS
<1>3. PICK none : none = <<>> OBVIOUS
<1>4. PICK d : d = NewClaim(stmt, ev, scope, rel, srcs, at) OBVIOUS
<1>5. /\ d.stages = rows /\ d.statuses = none /\ d.dep = NoDependency /\ d.stmt = stmt /\ d.present \in BOOLEAN
      /\ d = [stmt |-> d.stmt, present |-> d.present, ev |-> d.ev, stages |-> d.stages, statuses |-> d.statuses,
            scope |-> d.scope, rel |-> d.rel, srcs |-> d.srcs, at |-> d.at, dep |-> d.dep, uses |-> d.uses]
  BY <1>1, <1>2, <1>3, <1>4 DEF NewClaim
<1>6. IsSeq(none) /\ replayClaimTransition(none, "active")
  <2>1. none \in Seq(Range(none)) BY <1>3
  <2>2. DOMAIN none = {} BY <1>3
  <2> QED BY <2>1, <2>2 DEF IsSeq, replayClaimTransition
<1>7. IsSeq(rows) /\ rows # <<>> /\ DOMAIN rows = {1} /\ rows[1] = row
  <2>1. DOMAIN rows = {1} /\ rows[1] = row BY <1>2
  <2>2. rows \in Seq({row}) BY <1>2
  <2>3. Range(rows) = {row} BY <2>1 DEF Range
  <2> QED BY <1>2, <2>1, <2>2, <2>3 DEF IsSeq
<1>8. replayClaimTransition(rows, "")
  <2>1. row.from = "" /\ row.to = "floating" BY <1>1
  <2>2. \A i \in DOMAIN rows : i = 1 /\ rows[i] = row BY <1>7
  <2> QED BY <2>1, <2>2 DEF replayClaimTransition
<1> QED BY <1>4, <1>5, <1>6, <1>7, <1>8 DEF ClaimRows, ReplayClaimStates

\* What a claim needs when it settles: it stands at sediment.
LEMMA SettledClaim ==
    ASSUME NEW c, ClaimRows(c), currentClaimStage(c) = "sediment", NEW meta, NEW seq, meta # 0
    PROVE  LET d == Settled(c, meta, seq) IN
             /\ Follows(c, d) /\ d.present = c.present /\ d.dep.meta = meta /\ d.dep # NoDependency
             /\ d.statuses = c.statuses
<1>1. PICK b : b = insertClaimStageTransition(c, "settled") OBVIOUS
<1>2. validStageAdvance(currentClaimStage(c), "settled") BY DEF validStageAdvance
<1>3. ClaimRows(b) /\ Same(c, b) /\ b.statuses = c.statuses BY <1>1, <1>2, StageInserted
<1>4. PICK dep : dep = [meta |-> meta, seq |-> seq] OBVIOUS
<1>5. dep.meta = meta /\ dep # NoDependency BY <1>4 DEF NoDependency
<1>6. PICK d : d = [b EXCEPT !.dep = dep] OBVIOUS
<1>7. d = Settled(c, meta, seq) BY <1>1, <1>4, <1>6 DEF Settled
<1>8. ClaimRows(d) /\ d.dep = dep /\ d.stmt = b.stmt /\ d.present = b.present /\ d.ev = b.ev /\ d.statuses = b.statuses
  BY <1>3, <1>6, DepField
<1> QED BY <1>3, <1>5, <1>7, <1>8 DEF Same, Follows

\* A claim that is used keeps everything but its count.
LEMMA UsedClaim ==
    ASSUME NEW c, ClaimRows(c), NEW usage
    PROVE  LET d == [c EXCEPT !.uses[usage] = @ + 1] IN
             ClaimRows(d) /\ Same(c, d) /\ d.stages = c.stages /\ d.statuses = c.statuses
<1>1. PICK v : v = [c.uses EXCEPT ![usage] = @ + 1] OBVIOUS
<1>2. [c EXCEPT !.uses[usage] = @ + 1] = [c EXCEPT !.uses = v] BY <1>1
<1> QED BY <1>2, UsesField

-----------------------------------------------------------------------------
(* The inductive invariant.                                                *)

ClaimsInv == IsSeq(claims) /\ \A i \in Ids : ClaimFits(claims, claims[i])

\* The events after the last message that are self-talk, and those of a day
\* that are initiatives, as sets of places.
SelfTalkPlaces(entries) ==
    {k \in DOMAIN entries : /\ TypeOf[entries[k].event] = "self_talk"
                            /\ \A j \in DOMAIN entries : TypeOf[entries[j].event] = "user_message" => j < k}
InitiativesOf(entries, day) ==
    {k \in DOMAIN entries : TypeOf[entries[k].event] = "outbound_initiative"
                               /\ entries[k].at \div Limits.day = day}

LogInv ==
    /\ IsSeq(log) /\ happened \subseteq Events
    /\ ConsecutiveSelfTalk <= Limits.consecutive
    /\ \A day : Cardinality(InitiativesOf(log, day)) <= Limits.initiativeDaily

IntentsInv == \A p \in intents : IntentFits(claims, p)

WorkFits(cs, w) ==
    /\ w.kind \in {"abstraction", "split"} => w.sources \subseteq DOMAIN cs
    /\ w.kind = "alignment" => /\ w.direct \in DOMAIN cs /\ KindOf[cs[w.direct].stmt] = "direct"
                               /\ w.meta \in DOMAIN cs /\ KindOf[cs[w.meta].stmt] = "meta"
WorkInv == WorkFits(claims, work)

AutosInv == IsSeq(autos) /\ \A k \in DOMAIN autos : RunFits(claims, autos[k])

\* A content that the ledger itself has, and any content.
Source(c) == (\E e \in happened : c = Text(e)) \/ (\E i \in Ids : c = Statement(i))
Node(c)   == Source(c) \/ (IsInput(c) /\ Source(SourceOf(c))) \/ c[1] = "revision"

\* What was frozen or produced so far.
Children == {f[2] : f \in lineage}

\* The two hops: an input of a run up to n, and a product.
Input(c, n, x)  == x[2] \in Int /\ x[2] <= n /\ x \in {Copy(x[2], c), Wire(x[2], c)}
Frozen(edge)    == edge = <<edge[1], edge[2]>> /\ Source(edge[1]) /\ Input(edge[1], commits, edge[2])
Produced(edge)  == /\ edge = <<edge[1], edge[2]>> /\ IsInput(edge[1]) /\ edge[1] \in Children
                   /\ Source(edge[2]) \/ edge[2][1] = "revision"

LineageInv == \A edge \in lineage : Frozen(edge) \/ Produced(edge)

\* No input of a run to come is erased.
ErasedInv == commits \in Nat /\ \A x \in erased : IsInput(x) => x[2] \in Int /\ x[2] <= commits

\* Every run has inputs of its own: the number of a run to come has none.  Only
\* a dialogue reads wires, those of the claims in its prompt, and an autonomous
\* run copies of the claims it is about.
Inputs(edges, run) == {edge[2] : edge \in {f \in edges : IsInput(f[2]) /\ f[2][2] = run}}

Numbered(n, run) == run \in Int /\ run <= n
WorkRun(edges, n, w) ==
    w # NoWork => Numbered(n, w.run) /\ \A x \in Inputs(edges, w.run) : x[1] = "copy"
TalkRun(edges, n, t) ==
    t.step \in {"running", "waiting"} =>
        /\ Numbered(n, t.run)
        /\ \A x \in Inputs(edges, t.run) : x[1] = "copy" \/ \E i \in t.prompt : SourceOf(x) = Statement(i)
AutoRun(edges, n, a) ==
    /\ Numbered(n, a.run)
    /\ \A x \in Inputs(edges, a.run) : x[1] = "copy" /\ \E i \in a.claims : SourceOf(x) = Statement(i)

RunsInv ==
    /\ WorkRun(lineage, commits, work) /\ TalkRun(lineage, commits, talk)
    /\ \A k \in DOMAIN autos : AutoRun(lineage, commits, autos[k])
    /\ talk # NoTalk => {"step", "run", "msg", "events", "prompt", "seen"} \subseteq DOMAIN talk

\* What a running attempt reads is there: an erasure waits for it.
RunningInv == captureErasureRunning \cap erased = {}

\* A plan quarantines active claims and, once nothing stands against it, takes
\* nothing from a running attempt; no commit comes between the plan and its
\* application.
PlanInv ==
    plan # NoPlan => /\ \A i \in plan.quarantines : Active(claims[i])
                     /\ plan.blockers = {} => ~runningIntersectsTargets(plan.scope, plan.targets)

Inv ==
    /\ ClaimsInv /\ LogInv /\ IntentsInv /\ WorkInv /\ AutosInv /\ LineageInv /\ ErasedInv
    /\ RunsInv /\ RunningInv /\ PlanInv /\ CopiesErased

\* What the five action properties say of one step.
SupportStep ==
    \A i \in Ids :
        (Active(claims[i]) /\ loadQualifyingSupportEvidence(claims[i], erased) # {})
            => (Active(claims'[i]) => loadQualifyingSupportEvidence(claims'[i], erased') # {})
ParentsStep ==
    \A edge \in lineage' \ lineage :
        ContentPresent(edge[1]) /\ (IsInput(edge[1]) => ContentPresent(SourceOf(edge[1])))
ReviewStep ==
    \A gone \in captureErasureContents : ~ContentPresent(gone)' =>
        \A c \in captureErasureContents :
            (ContentPresent(c)' /\ (<<gone, c>> \in lineage \/ SameBytes(gone, c)))
                => <<c, "content_candidate">> \in plan.impacts \cap plan.retained
SettlesStep ==
    \A i \in Ids :
        (/\ KindOf[claims[i].stmt] = "direct"
         /\ currentClaimStage(claims'[i]) = "settled" /\ currentClaimStage(claims[i]) # "settled")
            => LET meta == claims'[claims'[i].dep.meta]
               IN  Active(claims'[i]) /\ Active(meta) /\ meta.present
SpeaksStep ==
    \A k \in DOMAIN log' \ DOMAIN log :
        LET e == log'[k].event
        IN  TypeOf[e] \in {"self_talk", "outbound_initiative"} =>
                /\ ~foregroundDialoguePending
                /\ ConsecutiveSelfTalk' <= Limits.consecutive
                /\ CountInWindow("outbound_initiative", Limits.day)' <= Limits.initiativeDaily
                /\ \A edge \in lineage' \ lineage :
                       LET c == claims[SourceOf(edge[1])[2]]
                       IN  KindOf[c.stmt] = "direct" => ActiveSettled(c)

Sound == Inv' /\ SupportStep /\ ParentsStep /\ ReviewStep /\ SettlesStep /\ SpeaksStep

-----------------------------------------------------------------------------
(* What a step does to the claims.                                         *)

\* The ledger grows: no claim goes, every claim fits and follows itself.
Grown ==
    /\ IsSeq(claims') /\ Ids \subseteq DOMAIN claims'
    /\ \A i \in DOMAIN claims' : ClaimFits(claims', claims'[i])
    /\ \A i \in Ids : Follows(claims[i], claims'[i])
\* No statement goes either.
Kept  == \A i \in Ids : claims'[i].present = claims[i].present

\* A claim that follows one that fits rests on what that one rested on.
LEMMA GrownFrom ==
    ASSUME ClaimsInv, IsSeq(claims'), Ids \subseteq DOMAIN claims',
           \A i \in Ids : Follows(claims[i], claims'[i]),
           \A i \in DOMAIN claims' : ClaimRows(claims'[i]),
           \A i \in DOMAIN claims' : claims'[i].dep # NoDependency =>
               \/ i \in Ids /\ claims'[i].dep = claims[i].dep
               \/ claims'[i].dep.meta \in Ids /\ KindOf[claims[claims'[i].dep.meta].stmt] = "meta"
    PROVE  Grown
<1>1. ASSUME NEW i \in DOMAIN claims' PROVE ClaimFits(claims', claims'[i])
  <2>1. ClaimRows(claims'[i]) BY <1>1
  <2>2. ASSUME claims'[i].dep # NoDependency
        PROVE  claims'[i].dep.meta \in DOMAIN claims' /\ KindOf[claims'[claims'[i].dep.meta].stmt] = "meta"
    <3>1. PICK m : m = claims'[i].dep.meta OBVIOUS
    <3>2. m \in Ids /\ KindOf[claims[m].stmt] = "meta"
      <4>1. CASE i \in Ids /\ claims'[i].dep = claims[i].dep
        <5>1. ClaimFits(claims, claims[i]) BY <4>1 DEF ClaimsInv
        <5> QED BY <2>2, <3>1, <4>1, <5>1 DEF ClaimFits, Ids
      <4> QED BY <1>1, <2>2, <3>1, <4>1
    <3>3. claims'[m].stmt = claims[m].stmt BY <3>2 DEF Follows
    <3> QED BY <3>1, <3>2, <3>3
  <2> QED BY <2>1, <2>2 DEF ClaimFits
<1> QED BY <1>1 DEF Grown

LEMMA ClaimsStay ==
    ASSUME ClaimsInv, claims' = claims
    PROVE  Grown /\ Kept
<1>1. \A i \in Ids : ClaimRows(claims[i]) BY DEF ClaimsInv, ClaimFits
<1>2. \A i \in Ids : Follows(claims[i], claims[i]) BY <1>1 DEF Follows
<1> QED BY <1>2 DEF Grown, Kept, ClaimsInv, Ids

-----------------------------------------------------------------------------
(* A step that erases nothing.                                             *)

LogStep     == LogInv' /\ happened \subseteq happened'
CommitsStep == commits' \in {commits, commits + 1}
Freezes(edge) ==
    /\ edge = <<edge[1], edge[2]>> /\ Source(edge[1]) /\ ContentPresent(edge[1])
    /\ edge[2] \in {Copy(ThisRun, edge[1]), Wire(ThisRun, edge[1])} /\ commits' = commits + 1
Produces(edge) ==
    /\ edge = <<edge[1], edge[2]>> /\ IsInput(edge[1]) /\ edge[1] \in Children
    /\ ContentPresent(edge[1]) /\ ContentPresent(SourceOf(edge[1]))
    /\ Source(edge[2])' \/ edge[2][1] = "revision"
EdgesStep   == lineage \subseteq lineage' /\ \A edge \in lineage' \ lineage : Freezes(edge) \/ Produces(edge)
IntentsStep == \A p \in intents' \ intents : IntentFits(claims, p)
WorkStep    == WorkFits(claims, work')
AutosStep   == IsSeq(autos') /\ \A k \in DOMAIN autos' : RunFits(claims, autos'[k])
\* A run that is running now was running before, has just been prepared, or has
\* found its inputs there.
RunningStep ==
    \A run \in RunningRuns' :
        run \in RunningRuns \/ run = ThisRun \/ (Numbered(commits, run) /\ Generation(run))
RunsStep    == RunsInv' /\ RunningStep

\* What names claims that fit goes on doing so.
LEMMA Carried ==
    ASSUME Grown
    PROVE  /\ \A p : IntentFits(claims, p) => IntentFits(claims', p)
           /\ \A w : WorkFits(claims, w) => WorkFits(claims', w)
           /\ \A run : RunFits(claims, run) => RunFits(claims', run)
<1>1. /\ DOMAIN claims \subseteq DOMAIN claims'
      /\ \A i \in DOMAIN claims : claims'[i].stmt = claims[i].stmt
      /\ \A i \in DOMAIN claims : claims[i].dep # NoDependency => claims'[i].dep # NoDependency
  BY DEF Grown, Follows, Ids
<1>2. \A p : IntentFits(claims, p) => IntentFits(claims', p) BY <1>1 DEF IntentFits
<1>3. \A w : WorkFits(claims, w) => WorkFits(claims', w)
  <2>1. SUFFICES ASSUME NEW w, WorkFits(claims, w) PROVE WorkFits(claims', w) OBVIOUS
  <2>2. w.kind \in {"abstraction", "split"} => w.sources \subseteq DOMAIN claims' BY <1>1, <2>1 DEF WorkFits
  <2>3. w.kind = "alignment" => /\ w.direct \in DOMAIN claims' /\ KindOf[claims'[w.direct].stmt] = "direct"
                                /\ w.meta \in DOMAIN claims' /\ KindOf[claims'[w.meta].stmt] = "meta"
    BY <1>1, <2>1 DEF WorkFits
  <2> QED BY <2>2, <2>3 DEF WorkFits
<1>4. \A t : TriggerFits(claims, t) => TriggerFits(claims', t)
  <2>1. SUFFICES ASSUME NEW t, TriggerFits(claims, t) PROVE TriggerFits(claims', t) OBVIOUS
  <2>2. t.kind = "idle" \/ t.claim \in DOMAIN claims' BY <1>1, <2>1 DEF TriggerFits
  <2>3. t.kind = "meta_dependency_status_change" => claims'[t.claim].dep # NoDependency
    BY <1>1, <2>1 DEF TriggerFits
  <2>4. t.kind = "settled_direct_conflict" => t.n \in DOMAIN claims' BY <1>1, <2>1 DEF TriggerFits
  <2> QED BY <2>2, <2>3, <2>4 DEF TriggerFits
<1>5. \A run : RunFits(claims, run) => RunFits(claims', run) BY <1>4 DEF RunFits
<1> QED BY <1>2, <1>3, <1>5

LEMMA Tags ==
    /\ \A e : Text(e)[1] = "event" /\ Text(e)[2] = e
    /\ \A i : Statement(i)[1] = "claim" /\ Statement(i)[2] = i
    /\ \A run : Revision(run)[1] = "revision"
    /\ \A run, c : Copy(run, c)[1] = "copy" /\ Copy(run, c)[2] = run /\ SourceOf(Copy(run, c)) = c
    /\ \A run, c : Wire(run, c)[1] = "wire" /\ Wire(run, c)[2] = run /\ SourceOf(Wire(run, c)) = c
  BY DEF Text, Statement, Revision, Copy, Wire, SourceOf

LEMMA SourceTag == ASSUME NEW c, Source(c) PROVE c[1] \in {"event", "claim"} /\ ~IsInput(c)
  BY Tags DEF Source, IsInput

LEMMA SourceTagNext == ASSUME NEW c, Source(c)' PROVE ~IsInput(c)
  BY Tags DEF Source, IsInput

\* An input was frozen from a content of the ledger, by a run up to now.
LEMMA InputFrozen ==
    ASSUME LineageInv, NEW x \in Children, IsInput(x)
    PROVE  /\ <<SourceOf(x), x>> \in lineage /\ Source(SourceOf(x)) /\ Numbered(commits, x[2])
           /\ x \in {Copy(x[2], SourceOf(x)), Wire(x[2], SourceOf(x))}
<1>1. PICK f \in lineage : x = f[2] BY DEF Children
<1>2. ~Produced(f)
  <2>1. Source(x) => ~IsInput(x) BY SourceTag
  <2>2. x[1] = "revision" => ~IsInput(x) BY DEF IsInput
  <2> QED BY <1>1, <2>1, <2>2 DEF Produced
<1>3. Frozen(f) BY <1>1, <1>2 DEF LineageInv
<1>4. PICK c : c = f[1] OBVIOUS
<1>5. f = <<c, x>> /\ Source(c) /\ Input(c, commits, x) BY <1>1, <1>3, <1>4 DEF Frozen
<1>6. SourceOf(x) = c BY <1>5, Tags DEF Input
<1> QED BY <1>1, <1>5, <1>6 DEF Input, Numbered

LEMMA EdgeNodes ==
    ASSUME LineageInv, NEW edge \in lineage PROVE Node(edge[1]) /\ Node(edge[2])
<1>1. CASE Frozen(edge)
  <2>1. PICK c, x : c = edge[1] /\ x = edge[2] OBVIOUS
  <2>2. Source(c) /\ Input(c, commits, x) BY <1>1, <2>1 DEF Frozen
  <2>3. IsInput(x) /\ SourceOf(x) = c BY <2>2, Tags DEF Input, IsInput
  <2> QED BY <2>1, <2>2, <2>3 DEF Node
<1>2. CASE Produced(edge)
  <2>1. Source(SourceOf(edge[1])) BY <1>2, InputFrozen DEF Produced
  <2> QED BY <1>2, <2>1 DEF Produced, Node
<1> QED BY <1>1, <1>2 DEF LineageInv

LEMMA ContentNodes == ASSUME LineageInv, NEW c \in Contents PROVE Node(c)
<1>1. CASE \E edge \in lineage : c = edge[2] BY <1>1, EdgeNodes
<1>2. CASE Source(c) BY <1>2 DEF Node
<1> QED BY <1>1, <1>2 DEF Contents, Source

\* A claim among the contents is one of the ledger.
LEMMA NodeTag ==
    ASSUME NEW c, Node(c) PROVE c[1] = "claim" => \E i \in Ids : c = Statement(i)
  BY Tags DEF Node, Source, IsInput

LEMMA SaidStays == ASSUME Grown, NEW c, Source(c) PROVE Said(c)' = Said(c)
<1>1. CASE \E e \in happened : c = Text(e)
  <2>1. c[1] = "event" BY <1>1, Tags
  <2> QED BY <2>1 DEF Said
<1>2. CASE \E i \in Ids : c = Statement(i)
  <2>1. PICK i \in Ids : c = Statement(i) BY <1>2
  <2>2. c[1] = "claim" /\ c[2] = i BY <2>1, Tags
  <2>3. claims'[i].stmt = claims[i].stmt BY DEF Grown, Follows
  <2> QED BY <2>2, <2>3 DEF Said
<1> QED BY <1>1, <1>2 DEF Source

\* The bytes of a content never change.
LEMMA BytesStay == ASSUME Grown, NEW c, Node(c) PROVE ContentBytes(c)' = ContentBytes(c)
<1>1. CASE Source(c)
  <2>1. c[1] \in {"event", "claim"} BY <1>1, SourceTag
  <2>2. Said(c)' = Said(c) BY <1>1, SaidStays
  <2> QED BY <2>1, <2>2 DEF ContentBytes
<1>2. CASE IsInput(c) /\ Source(SourceOf(c))
  <2>1. Said(SourceOf(c))' = Said(SourceOf(c)) BY <1>2, SaidStays
  <2>2. c[1] \in {"copy", "wire"} BY <1>2 DEF IsInput
  <2> QED BY <2>1, <2>2 DEF ContentBytes, SourceOf
<1>3. CASE c[1] = "revision" BY <1>3 DEF ContentBytes
<1> QED BY <1>1, <1>2, <1>3 DEF Node

LEMMA ContentsStay ==
    ASSUME Inv, Grown, Kept, erased' = erased, NEW c, Node(c)
    PROVE  ContentPresent(c)' <=> ContentPresent(c)
<1>1. CASE c[1] = "claim"
  <2>1. PICK i \in Ids : c = Statement(i) BY <1>1, NodeTag
  <2>2. c[2] = i BY <2>1, Tags
  <2>3. claims'[i].present = claims[i].present BY DEF Kept
  <2> QED BY <1>1, <2>2, <2>3 DEF ContentPresent
<1>2. CASE c[1] # "claim" BY <1>2 DEF ContentPresent
<1> QED BY <1>1, <1>2

LEMMA SourceKept == ASSUME Grown, happened \subseteq happened', NEW c, Source(c) PROVE Source(c)'
<1>1. Ids \subseteq Ids' BY DEF Grown, Ids
<1> QED BY <1>1 DEF Source

LEMMA LineageGrows ==
    ASSUME Inv, Grown, LogStep, CommitsStep, EdgesStep PROVE LineageInv'
<1>1. commits \in Nat /\ commits' \in Nat /\ commits <= commits'
  BY DEF Inv, ErasedInv, CommitsStep
<1>2. Children \subseteq Children' BY DEF Children, EdgesStep
<1>3. ASSUME NEW c, Source(c) PROVE Source(c)' BY <1>3, SourceKept DEF LogStep
<1>4. SUFFICES ASSUME NEW edge \in lineage' PROVE Frozen(edge)' \/ Produced(edge)' BY DEF LineageInv
<1>5. CASE edge \in lineage
  <2>1. CASE Frozen(edge)
    <3>1. Input(edge[1], commits', edge[2]) BY <1>1, <2>1 DEF Frozen, Input
    <3> QED BY <1>3, <2>1, <3>1 DEF Frozen
  <2>2. CASE Produced(edge) BY <1>2, <1>3, <2>2 DEF Produced
  <2> QED BY <1>5, <2>1, <2>2 DEF Inv, LineageInv
<1>6. CASE edge \notin lineage
  <2>1. CASE Freezes(edge)
    <3>1. PICK c, x : c = edge[1] /\ x = edge[2] OBVIOUS
    <3>2. x \in {Copy(ThisRun, c), Wire(ThisRun, c)} /\ commits' = commits + 1 /\ Source(c) /\ edge = <<c, x>>
      BY <2>1, <3>1 DEF Freezes
    <3>3. x[2] = commits + 1 BY <3>2, Tags DEF ThisRun
    <3>4. Input(c, commits', x) BY <1>1, <3>2, <3>3 DEF Input, ThisRun
    <3>5. Source(c)' BY <1>3, <3>2
    <3> QED BY <3>1, <3>2, <3>4, <3>5 DEF Frozen
  <2>2. CASE Produces(edge) BY <1>2, <2>2 DEF Produces, Produced
  <2> QED BY <1>4, <1>6, <2>1, <2>2 DEF EdgesStep
<1> QED BY <1>5, <1>6

\* What a new edge comes from is a content, and present.
LEMMA NewParent ==
    ASSUME Inv, EdgesStep, NEW edge \in lineage' \ lineage
    PROVE  Node(edge[1]) /\ ContentPresent(edge[1]) /\ (IsInput(edge[1]) => ContentPresent(SourceOf(edge[1])))
<1>1. CASE Freezes(edge)
  <2>1. Source(edge[1]) /\ ContentPresent(edge[1]) BY <1>1 DEF Freezes
  <2> QED BY <2>1, SourceTag DEF Node
<1>2. CASE Produces(edge)
  <2>1. edge[1] \in Children /\ IsInput(edge[1]) BY <1>2 DEF Produces
  <2>2. Source(SourceOf(edge[1])) BY <2>1, InputFrozen DEF Inv
  <2> QED BY <1>2, <2>1, <2>2 DEF Produces, Node
<1> QED BY <1>1, <1>2 DEF EdgesStep

LEMMA NothingErased ==
    ASSUME Inv, Grown, Kept, erased' = erased, LogStep, CommitsStep, EdgesStep
    PROVE  LineageInv' /\ ErasedInv' /\ CopiesErased' /\ ParentsStep /\ ReviewStep
<1>1. LineageInv' BY LineageGrows
<1>2. ErasedInv' BY DEF Inv, ErasedInv, CommitsStep
<1>3. CopiesErased'
  <2>1. SUFFICES ASSUME NEW edge \in lineage', SameBytes(edge[1], edge[2])', ~ContentPresent(edge[1])'
                 PROVE  ~ContentPresent(edge[2])'
    BY DEF CopiesErased
  <2>2. PICK c, d : c = edge[1] /\ d = edge[2] OBVIOUS
  <2>3. CASE edge \in lineage
    <3>1. Node(c) /\ Node(d) BY <2>2, <2>3, EdgeNodes DEF Inv
    <3>2. (ContentPresent(c)' <=> ContentPresent(c)) /\ (ContentPresent(d)' <=> ContentPresent(d))
      BY <3>1, ContentsStay
    <3>3. ContentBytes(c)' = ContentBytes(c) /\ ContentBytes(d)' = ContentBytes(d) BY <3>1, BytesStay
    <3>4. SameBytes(c, d) BY <2>1, <2>2, <3>3 DEF SameBytes
    <3>5. ~ContentPresent(c) => ~ContentPresent(d) BY <2>2, <2>3, <3>4 DEF Inv, CopiesErased
    <3> QED BY <2>1, <2>2, <3>2, <3>5
  <2>4. CASE edge \notin lineage
    <3>1. Node(c) /\ ContentPresent(c) BY <2>1, <2>2, <2>4, NewParent
    <3>2. ContentPresent(c)' BY <3>1, ContentsStay
    <3> QED BY <2>1, <2>2, <3>2
  <2> QED BY <2>3, <2>4
<1>4. ParentsStep BY NewParent DEF ParentsStep
<1>5. ReviewStep
  <2>1. SUFFICES ASSUME NEW c \in captureErasureContents PROVE ContentPresent(c)' BY DEF ReviewStep
  <2>2. Node(c) /\ ContentPresent(c) BY ContentNodes DEF captureErasureContents, Inv
  <2> QED BY <2>2, ContentsStay
<1> QED BY <1>1, <1>2, <1>3, <1>4, <1>5

-----------------------------------------------------------------------------
(* Runs keep their inputs.                                                 *)

\* A run of before gets no new input.
LEMMA InputsStay ==
    ASSUME Inv, EdgesStep, NEW run, Numbered(commits, run)
    PROVE  Inputs(lineage', run) = Inputs(lineage, run)
<1>1. Inputs(lineage, run) \subseteq Inputs(lineage', run) BY DEF Inputs, EdgesStep
<1>2. ASSUME NEW x \in Inputs(lineage', run) PROVE x \in Inputs(lineage, run)
  <2>1. PICK edge \in lineage' : x = edge[2] /\ IsInput(x) /\ x[2] = run BY <1>2 DEF Inputs
  <2>2. CASE edge \in lineage BY <2>1, <2>2 DEF Inputs
  <2>3. CASE Freezes(edge)
    <3>1. x[2] = commits + 1 BY <2>1, <2>3, Tags DEF Freezes, ThisRun
    <3> QED BY <2>1, <3>1 DEF Numbered, Inv, ErasedInv
  <2>4. CASE Produces(edge)
    <3>1. Source(x)' \/ x[1] = "revision" BY <2>1, <2>4 DEF Produces
    <3> QED BY <2>1, <3>1, SourceTagNext DEF IsInput
  <2> QED BY <2>1, <2>2, <2>3, <2>4 DEF EdgesStep
<1> QED BY <1>1, <1>2

LEMMA RunsCarried ==
    ASSUME Inv, CommitsStep, EdgesStep
    PROVE  /\ \A w : WorkRun(lineage, commits, w) => WorkRun(lineage', commits', w)
           /\ \A t : TalkRun(lineage, commits, t) => TalkRun(lineage', commits', t)
           /\ \A a : AutoRun(lineage, commits, a) => AutoRun(lineage', commits', a)
<1>1. \A run : Numbered(commits, run) => Numbered(commits', run) /\ Inputs(lineage', run) = Inputs(lineage, run)
  <2>1. \A run : Numbered(commits, run) => Numbered(commits', run) BY DEF Numbered, CommitsStep, Inv, ErasedInv
  <2> QED BY <2>1, InputsStay
<1>2. \A w : WorkRun(lineage, commits, w) => WorkRun(lineage', commits', w) BY <1>1 DEF WorkRun
<1>3. \A t : TalkRun(lineage, commits, t) => TalkRun(lineage', commits', t) BY <1>1 DEF TalkRun
<1>4. \A a : AutoRun(lineage, commits, a) => AutoRun(lineage', commits', a) BY <1>1 DEF AutoRun
<1> QED BY <1>2, <1>3, <1>4

LEMMA RunsStay ==
    ASSUME Inv, CommitsStep, EdgesStep, work' = work \/ work' = NoWork, talk' = talk \/ talk' = NoTalk,
           autos' = autos
    PROVE  RunsStep
<1>1. WorkRun(lineage', commits', work')
  <2>1. WorkRun(lineage, commits, work') BY DEF Inv, RunsInv, WorkRun
  <2> QED BY <2>1, RunsCarried
<1>2. NoTalk.step = "none" BY DEF NoTalk
<1>3. TalkRun(lineage', commits', talk')
  <2>1. TalkRun(lineage, commits, talk') BY <1>2 DEF Inv, RunsInv, TalkRun
  <2> QED BY <2>1, RunsCarried
<1>4. \A k \in DOMAIN autos' : AutoRun(lineage', commits', autos'[k]) BY RunsCarried DEF Inv, RunsInv
<1>5. RunsInv' BY <1>1, <1>3, <1>4 DEF RunsInv, Inv
<1>6. RunningStep BY <1>2 DEF RunningStep, RunningRuns
<1> QED BY <1>5, <1>6 DEF RunsStep

LEMMA RunningNumbered == ASSUME Inv, NEW run \in RunningRuns PROVE Numbered(commits, run)
<1>1. CASE work # NoWork /\ run = work.run BY <1>1 DEF Inv, RunsInv, WorkRun
<1>2. CASE talk.step = "running" /\ run = talk.run BY <1>2 DEF Inv, RunsInv, TalkRun
<1>3. CASE \E k \in DOMAIN autos : run = autos[k].run BY <1>3 DEF Inv, RunsInv, AutoRun
<1> QED BY <1>1, <1>2, <1>3 DEF RunningRuns

LEMMA RunInputsAre == \A run : RunInputs(run) = Inputs(lineage, run) BY DEF RunInputs, Inputs

LEMMA RunningKept ==
    ASSUME Inv, EdgesStep, RunningStep, erased' = erased PROVE RunningInv'
<1>1. SUFFICES ASSUME NEW run \in RunningRuns', NEW x \in Inputs(lineage', run) PROVE x \notin erased
  BY DEF RunningInv, captureErasureRunning, RunInputs, Inputs
<1>2. CASE run = ThisRun
  <2>1. IsInput(x) /\ x[2] = commits + 1 BY <1>1, <1>2 DEF Inputs, ThisRun
  <2> QED BY <2>1 DEF Inv, ErasedInv
<1>3. CASE run \in RunningRuns
  <2>1. x \in Inputs(lineage, run) BY <1>1, <1>3, RunningNumbered, InputsStay
  <2> QED BY <1>3, <2>1, RunInputsAre DEF Inv, RunningInv, captureErasureRunning
<1>4. CASE Numbered(commits, run) /\ Generation(run)
  <2>1. x \in Inputs(lineage, run) BY <1>1, <1>4, InputsStay
  <2> QED BY <1>4, <2>1, RunInputsAre DEF Generation
<1> QED BY <1>1, <1>2, <1>3, <1>4 DEF RunningStep

\* A copy that is there has its source, which would have taken it along.
LEMMA CopyHasSource ==
    ASSUME Inv, NEW x \in Children, x[1] = "copy", x \notin erased
    PROVE  ContentPresent(x) /\ ContentPresent(SourceOf(x))
<1>1. IsInput(x) /\ ContentPresent(x) BY DEF IsInput, ContentPresent
<1>2. PICK c : c = SourceOf(x) OBVIOUS
<1>3. <<c, x>> \in lineage /\ Source(c) BY <1>1, <1>2, InputFrozen DEF Inv
<1>4. c[1] \in {"event", "claim"} BY <1>3, SourceTag
<1>5. SameBytes(c, x) BY <1>2, <1>4 DEF SameBytes, ContentBytes
<1>6. ContentPresent(c)
  <2>1. PICK edge \in lineage : edge = <<c, x>> BY <1>3
  <2>2. edge[1] = c /\ edge[2] = x BY <2>1
  <2> QED BY <1>1, <1>5, <2>1, <2>2 DEF Inv, CopiesErased
<1> QED BY <1>1, <1>2, <1>6

LEMMA InputsAreChildren == \A run : \A x \in Inputs(lineage, run) : x \in Children /\ IsInput(x)
  BY DEF Inputs, Children

\* What a run produces from inputs that are there, with their sources.
LEMMA ProductEdges ==
    ASSUME Inv, NEW run, NEW products, lineage' = lineage \cup (RunInputs(run) \X products),
           \A x \in RunInputs(run) : ContentPresent(x) /\ ContentPresent(SourceOf(x)),
           \A p \in products : Source(p)' \/ p[1] = "revision"
    PROVE  EdgesStep
<1>1. SUFFICES ASSUME NEW edge \in lineage' \ lineage PROVE Produces(edge) BY DEF EdgesStep
<1>2. PICK x \in RunInputs(run), p \in products : edge = <<x, p>> BY <1>1
<1>3. x \in Children /\ IsInput(x) BY <1>2, RunInputsAre, InputsAreChildren
<1> QED BY <1>2, <1>3 DEF Produces

\* A fresh run freezes contents of the ledger that are there.
LEMMA FrozenEdges ==
    ASSUME Inv, commits' = commits + 1, NEW copied, NEW rendered,
           lineage' = lineage \cup (Copies(ThisRun, copied) \cup {<<c, Wire(ThisRun, c)>> : c \in rendered}),
           \A c \in copied \cup rendered : Source(c) /\ ContentPresent(c)
    PROVE  /\ EdgesStep
           /\ \A x \in Inputs(lineage', ThisRun) :
                  \/ x[1] = "copy" /\ SourceOf(x) \in copied
                  \/ x[1] = "wire" /\ SourceOf(x) \in rendered
<1>1. ASSUME NEW edge \in lineage' \ lineage
      PROVE  /\ Freezes(edge)
             /\ \/ edge[2][1] = "copy" /\ SourceOf(edge[2]) \in copied
                \/ edge[2][1] = "wire" /\ SourceOf(edge[2]) \in rendered
  <2>1. CASE \E c \in copied : edge = <<c, Copy(ThisRun, c)>>
    <3>1. PICK c \in copied : edge = <<c, Copy(ThisRun, c)>> BY <2>1
    <3>2. edge[1] = c /\ edge[2] = Copy(ThisRun, c) BY <3>1
    <3> QED BY <3>1, <3>2, Tags DEF Freezes
  <2>2. CASE \E c \in rendered : edge = <<c, Wire(ThisRun, c)>>
    <3>1. PICK c \in rendered : edge = <<c, Wire(ThisRun, c)>> BY <2>2
    <3>2. edge[1] = c /\ edge[2] = Wire(ThisRun, c) BY <3>1
    <3> QED BY <3>1, <3>2, Tags DEF Freezes
  <2> QED BY <1>1, <2>1, <2>2 DEF Copies
<1>2. EdgesStep BY <1>1 DEF EdgesStep
<1>3. ASSUME NEW x \in Inputs(lineage', ThisRun)
      PROVE  \/ x[1] = "copy" /\ SourceOf(x) \in copied
             \/ x[1] = "wire" /\ SourceOf(x) \in rendered
  <2>1. PICK edge \in lineage' : x = edge[2] /\ IsInput(x) /\ x[2] = ThisRun BY <1>3 DEF Inputs
  <2>2. edge \notin lineage
    <3>1. SUFFICES ASSUME edge \in lineage PROVE FALSE OBVIOUS
    <3>2. x \in Children BY <2>1, <3>1 DEF Children
    <3>3. Numbered(commits, x[2]) BY <2>1, <3>2, InputFrozen DEF Inv
    <3> QED BY <2>1, <3>3 DEF Numbered, ThisRun, Inv, ErasedInv
  <2> QED BY <1>1, <2>1, <2>2
<1> QED BY <1>2, <1>3

LEMMA FreshNumber == ASSUME Inv, commits' = commits + 1 PROVE Numbered(commits', ThisRun) /\ CommitsStep
  BY DEF Inv, ErasedInv, Numbered, ThisRun, CommitsStep

\* Evidence only grows, so support does.
LEMMA SupportGrows ==
    ASSUME NEW c, NEW d, Follows(c, d), NEW gone, loadQualifyingSupportEvidence(c, gone) # {}
    PROVE  loadQualifyingSupportEvidence(d, gone) # {}
<1>1. PICK row \in c.ev : Text(row.event) \notin gone
         /\ qualifyingActorGate(KindOf[c.stmt], buildEvidencePoint(KindOf[c.stmt], row))
  BY DEF loadQualifyingSupportEvidence
<1>2. row \in d.ev /\ d.stmt = c.stmt BY <1>1 DEF Follows
<1>3. row \in loadQualifyingSupportEvidence(d, gone) BY <1>1, <1>2 DEF loadQualifyingSupportEvidence
<1> QED BY <1>3

LEMMA InvStep ==
    ASSUME Inv, Grown, Kept, erased' = erased, LogStep, CommitsStep, EdgesStep, IntentsStep, WorkStep, AutosStep,
           RunsStep, PlanInv'
    PROVE  Inv' /\ SupportStep /\ ParentsStep /\ ReviewStep
<1>1. ClaimsInv' BY DEF Grown, ClaimsInv, Ids
<1>2. LogInv' BY DEF LogStep
<1>3. IntentsInv'
  <2>1. \A p \in intents' : IntentFits(claims, p) BY DEF IntentsStep, Inv, IntentsInv
  <2> QED BY <2>1, Carried DEF IntentsInv
<1>4. WorkInv' BY Carried DEF WorkStep, WorkInv
<1>5. AutosInv' BY Carried DEF AutosStep, AutosInv
<1>6. LineageInv' /\ ErasedInv' /\ CopiesErased' /\ ParentsStep /\ ReviewStep BY NothingErased
<1>7. SupportStep
  <2>1. \A i \in Ids : Follows(claims[i], claims'[i]) BY DEF Grown
  <2> QED BY <2>1, SupportGrows DEF SupportStep
<1>8. RunsInv' /\ RunningInv' BY RunningKept DEF RunsStep
<1> QED BY <1>1, <1>2, <1>3, <1>4, <1>5, <1>6, <1>7, <1>8 DEF Inv

\* No direct claim settles.
NoneSettles == \A i \in Ids : StillUnsettled(claims[i], claims'[i])

\* A step that adds no event either.
LEMMA SilentStep ==
    ASSUME Inv, Grown, Kept, NoneSettles, erased' = erased, log' = log, CommitsStep, EdgesStep, IntentsStep,
           WorkStep, AutosStep, RunsStep, PlanInv'
    PROVE  Sound
<1>1. LogStep BY DEF Inv, LogInv, LogStep, happened, ConsecutiveSelfTalk
<1>2. Inv' /\ SupportStep /\ ParentsStep /\ ReviewStep BY <1>1, InvStep
<1>3. SettlesStep BY DEF SettlesStep, NoneSettles, StillUnsettled
<1>4. SpeaksStep BY DEF SpeaksStep
<1> QED BY <1>2, <1>3, <1>4 DEF Sound

\* A step that leaves the claims and the events.
LEMMA ClaimsStayStep ==
    ASSUME Inv, claims' = claims, log' = log, erased' = erased, CommitsStep, EdgesStep, IntentsStep,
           WorkStep, AutosStep, RunsStep, PlanInv'
    PROVE  Sound
<1>1. Grown /\ Kept BY ClaimsStay DEF Inv
<1>2. NoneSettles BY DEF NoneSettles, StillUnsettled
<1> QED BY <1>1, <1>2, SilentStep

LEMMA Stays ==
    ASSUME Inv
    PROVE  /\ intents' = intents => IntentsStep
           /\ work' = work \/ work' = NoWork => WorkStep
           /\ autos' = autos => AutosStep
           /\ plan' = NoPlan => PlanInv'
           /\ lineage' = lineage => EdgesStep
           /\ plan = NoPlan /\ plan' = plan => PlanInv'
           /\ Committed \/ commits' = commits => CommitsStep
<1>1. intents' = intents => IntentsStep BY DEF IntentsStep
<1>2. work' = work => WorkStep BY DEF Inv, WorkInv, WorkStep
<1>3. work' = NoWork => WorkStep
  <2>1. NoWork.kind = "none" BY DEF NoWork
  <2> QED BY <2>1 DEF WorkStep, WorkFits
<1>4. autos' = autos => AutosStep BY DEF AutosStep, Inv, AutosInv
<1>5. plan' = NoPlan => PlanInv' BY DEF PlanInv
<1>6. lineage' = lineage => EdgesStep BY DEF EdgesStep
<1>7. Committed \/ commits' = commits => CommitsStep BY DEF Committed, CommitsStep
<1> QED BY <1>1, <1>2, <1>3, <1>4, <1>5, <1>6, <1>7

\* No run moves on, and nothing is made.
LEMMA RunsRest ==
    ASSUME Inv, Committed \/ commits' = commits, lineage' = lineage,
           work' = work \/ work' = NoWork, talk' = talk \/ talk' = NoTalk, autos' = autos
    PROVE  EdgesStep /\ CommitsStep /\ RunsStep /\ AutosStep /\ WorkStep
<1>1. EdgesStep /\ CommitsStep /\ AutosStep /\ WorkStep BY Stays
<1> QED BY <1>1, RunsStay

\* A step that also leaves what was made from what, and moves no run on.
LEMMA LedgerStays ==
    ASSUME Inv, claims' = claims, log' = log, erased' = erased, lineage' = lineage, CommitsStep, IntentsStep,
           WorkStep, work' = work \/ work' = NoWork, talk' = talk \/ talk' = NoTalk, autos' = autos, PlanInv'
    PROVE  Sound
<1>1. EdgesStep /\ AutosStep BY Stays
<1>2. RunsStep BY <1>1, RunsStay
<1> QED BY <1>1, <1>2, ClaimsStayStep

-----------------------------------------------------------------------------
(* The landing of an extraction.                                           *)

LEMMA ExtractedShape ==
    ASSUME NEW cs, IsSeq(cs), NEW version, NEW event, NEW out \in Outputs, NEW at
    PROVE  LET ds == Extracted(cs, version, event, out, at) IN
             /\ IsSeq(ds) /\ DOMAIN cs \subseteq DOMAIN ds
             /\ \A i \in DOMAIN cs : ds[i] = cs[i] \/ \E item : ds[i] = landExtractedClaim(version, event, item, cs[i])
             /\ \A i \in DOMAIN ds \ DOMAIN cs :
                    \E stmt, ev, scope : ds[i] = NewClaim(stmt, ev, scope, "none", {}, at)
<1> DEFINE known(k) == SameIdentity(cs, out[k].stmt)
           S        == {k \in DOMAIN out : known(k) = {}}
           fresh    == Ranked(S, LAMBDA j, k : j < k)
           named(i) == {k \in DOMAIN out : known(k) # {} /\ i = Min(known(k))}
           new(k)   == NewClaim(out[k].stmt, {ExtractedRow(event, out[k])},
                             InitialScopeForEvent(TypeOf[event]), "none", {}, at)
           old(i)   == IF named(i) = {} THEN cs[i]
                       ELSE landExtractedClaim(version, event, out[CHOOSE k \in named(i) : TRUE], cs[i])
           item(i)  == IF i > Len(cs) THEN new(fresh[i - Len(cs)]) ELSE old(i)
<1>1. Len(cs) \in Nat /\ DOMAIN cs = 1 .. Len(cs) BY SeqParts
<1>2. Len(fresh) \in Nat
  <2>1. DOMAIN out = 1 .. Len(out) /\ Len(out) \in Nat BY LedgerAssumption
  <2>2. IsFiniteSet(DOMAIN out) BY <2>1, FS_Interval
  <2>3. IsFiniteSet(S) BY <2>2, FS_Subset
  <2>4. Cardinality(S) \in Nat BY <2>3, FS_CardinalityType
  <2> DEFINE place(k) == CHOOSE x \in S : Cardinality({y \in S : y < x}) = k - 1
  <2>5. fresh = [k \in 1 .. Cardinality(S) |-> place(k)] BY DEF Ranked
  <2> HIDE DEF fresh, S, place
  <2>6. DOMAIN fresh = 1 .. Cardinality(S) /\ fresh = [k \in 1 .. Cardinality(S) |-> fresh[k]] BY <2>5
  <2> QED BY <2>4, <2>6, SeqFrom
<1>3. PICK ds : ds = [i \in 1 .. Len(cs) + Len(fresh) |-> item(i)] OBVIOUS
<1>4. ds = Extracted(cs, version, event, out, at) BY <1>3 DEF Extracted
<1> HIDE DEF fresh, named, new, S
<1>5. IsSeq(ds) /\ DOMAIN ds = 1 .. Len(cs) + Len(fresh)
  <2>1. DOMAIN ds = 1 .. Len(cs) + Len(fresh) /\ ds = [i \in 1 .. Len(cs) + Len(fresh) |-> ds[i]] BY <1>3
  <2>2. Len(cs) + Len(fresh) \in Nat BY <1>1, <1>2
  <2> HIDE DEF item
  <2> QED BY <2>1, <2>2, SeqFrom
<1>6. DOMAIN cs \subseteq DOMAIN ds BY <1>1, <1>2, <1>5
<1>7. ASSUME NEW i \in DOMAIN cs
      PROVE  ds[i] = cs[i] \/ \E x : ds[i] = landExtractedClaim(version, event, x, cs[i])
  <2>1. i \in 1 .. Len(cs) + Len(fresh) /\ ~(i > Len(cs)) BY <1>1, <1>5, <1>6, <1>7
  <2>2. ds[i] = old(i) BY <1>3, <2>1
  <2> QED BY <2>2
<1>8. ASSUME NEW i \in DOMAIN ds \ DOMAIN cs
      PROVE  \E stmt, ev, scope : ds[i] = NewClaim(stmt, ev, scope, "none", {}, at)
  <2>1. i > Len(cs) /\ i \in 1 .. Len(cs) + Len(fresh) BY <1>1, <1>2, <1>5, <1>8
  <2>2. ds[i] = new(fresh[i - Len(cs)]) BY <1>3, <2>1
  <2> QED BY <2>2 DEF new
<1> QED BY <1>4, <1>5, <1>6, <1>7, <1>8

LEMMA ExtractedLedger ==
    ASSUME ClaimsInv, NEW version, NEW event, NEW out \in Outputs, NEW at,
           claims' = Extracted(claims, version, event, out, at)
    PROVE  Grown /\ Kept /\ NoneSettles
<1>1. /\ IsSeq(claims') /\ Ids \subseteq DOMAIN claims'
      /\ \A i \in Ids : \/ claims'[i] = claims[i]
                        \/ \E item : claims'[i] = landExtractedClaim(version, event, item, claims[i])
      /\ \A i \in DOMAIN claims' \ Ids :
             \E stmt, ev, scope : claims'[i] = NewClaim(stmt, ev, scope, "none", {}, at)
  BY ExtractedShape DEF ClaimsInv, Ids
<1>2. ASSUME NEW i \in Ids
      PROVE  /\ Follows(claims[i], claims'[i]) /\ claims'[i].present = claims[i].present
             /\ claims'[i].dep = claims[i].dep /\ StillUnsettled(claims[i], claims'[i])
  <2>1. ClaimRows(claims[i]) BY <1>2 DEF ClaimsInv, ClaimFits
  <2>2. CASE claims'[i] = claims[i] BY <2>1, <2>2 DEF Follows, StillUnsettled
  <2>3. CASE \E item : claims'[i] = landExtractedClaim(version, event, item, claims[i])
    BY <2>1, <2>3, ExtractedClaim
  <2> QED BY <1>1, <1>2, <2>2, <2>3
<1>3. \A i \in DOMAIN claims' \ Ids : ClaimRows(claims'[i]) /\ claims'[i].dep = NoDependency
  BY <1>1, FreshClaim
<1>4. \A i \in DOMAIN claims' : ClaimRows(claims'[i]) BY <1>2, <1>3 DEF Follows
<1>5. Grown BY <1>1, <1>2, <1>3, <1>4, GrownFrom
<1> QED BY <1>2, <1>5 DEF Kept, NoneSettles

\* What a landing has read again is a source its run may have.
LEMMA EventThere ==
    ASSUME NEW e \in Present PROVE Source(Text(e)) /\ ContentPresent(Text(e))
<1>1. e \in happened /\ Text(e) \notin erased BY DEF Present
<1> QED BY <1>1, Tags DEF Source, ContentPresent

LEMMA ClaimThere ==
    ASSUME NEW i \in Ids, claims[i].present PROVE Source(Statement(i)) /\ ContentPresent(Statement(i))
  BY Tags DEF Source, ContentPresent

LEMMA WorkKinds ==
    ASSUME work.kind \in {"extraction", "abstraction", "split", "alignment", "persona"} PROVE work # NoWork
<1>1. NoWork.kind = "none" BY DEF NoWork
<1> QED BY <1>1

\* A prepared run has its inputs, which are copies, and so their sources.
LEMMA WorkInputs ==
    ASSUME Inv, work # NoWork, NEW x \in RunInputs(work.run)
    PROVE  ContentPresent(x) /\ ContentPresent(SourceOf(x))
<1>1. work.run \in RunningRuns BY DEF RunningRuns
<1>2. x \notin erased BY <1>1 DEF Inv, RunningInv, captureErasureRunning
<1>3. x \in Inputs(lineage, work.run) BY RunInputsAre
<1>4. x[1] = "copy" BY <1>3 DEF Inv, RunsInv, WorkRun
<1>5. x \in Children BY <1>3, InputsAreChildren
<1> QED BY <1>2, <1>4, <1>5, CopyHasSource

\* The landing of such a run, with its products.
LEMMA WorkLands ==
    ASSUME Inv, work # NoWork, Committed, NEW products, lineage' = lineage \cup (RunInputs(work.run) \X products),
           \A p \in products : Source(p)' \/ p[1] = "revision",
           work' = NoWork, talk' = talk, autos' = autos
    PROVE  EdgesStep /\ CommitsStep /\ RunsStep
<1>1. EdgesStep BY WorkInputs, ProductEdges
<1>2. CommitsStep BY Stays
<1> QED BY <1>1, <1>2, RunsStay

\* The preparation of one freezes copies of what it has read.
LEMMA WorkPrepared ==
    ASSUME Inv, Commit, NEW sources, lineage' = lineage \cup Copies(ThisRun, sources),
           \A c \in sources : Source(c) /\ ContentPresent(c), work'.run = ThisRun, WorkStep,
           claims' = claims, intents' = intents, log' = log, erased' = erased,
           talk' = talk, autos' = autos, plan' = NoPlan
    PROVE  Sound
<1>1. commits' = commits + 1 BY DEF Commit, Committed
<1>2. CommitsStep /\ Numbered(commits', ThisRun) BY <1>1, FreshNumber
<1>3. PICK none : none = {} OBVIOUS
<1>4. lineage' = lineage \cup (Copies(ThisRun, sources) \cup {<<c, Wire(ThisRun, c)>> : c \in none}) BY <1>3
<1>5. EdgesStep /\ \A x \in Inputs(lineage', ThisRun) : x[1] = "copy"
  <2>1. \A c \in sources \cup none : Source(c) /\ ContentPresent(c) BY <1>3
  <2>2. /\ EdgesStep
        /\ \A x \in Inputs(lineage', ThisRun) : \/ x[1] = "copy" /\ SourceOf(x) \in sources
                                                \/ x[1] = "wire" /\ SourceOf(x) \in none
    BY <1>1, <1>4, <2>1, FrozenEdges
  <2> QED BY <1>3, <2>2
<1>6. WorkRun(lineage', commits', work') BY <1>2, <1>5 DEF WorkRun
<1>7. TalkRun(lineage', commits', talk') /\ \A k \in DOMAIN autos' : AutoRun(lineage', commits', autos'[k])
  BY <1>2, <1>5, RunsCarried DEF Inv, RunsInv
<1>8. RunsInv' BY <1>6, <1>7 DEF RunsInv, Inv
<1>9. RunningStep BY DEF RunningStep, RunningRuns
<1> QED BY <1>2, <1>5, <1>8, <1>9, Stays, ClaimsStayStep DEF RunsStep

LEMMA ExtractionLanding ==
    ASSUME Inv, NEW out \in Outputs, LandMemoryExtraction(out), talk' = talk, autos' = autos, plan' = NoPlan
    PROVE  Sound
<1>1. PICK products : products = {Statement(i) : i \in DOMAIN claims' \ DOMAIN claims} OBVIOUS
<1>2. /\ work.kind = "extraction" /\ Committed
      /\ claims' = Extracted(claims, work.policy, work.event, out, now)
      /\ lineage' = lineage \cup (RunInputs(work.run) \X products)
      /\ work' = NoWork /\ intents' = intents /\ log' = log /\ erased' = erased
  BY <1>1 DEF LandMemoryExtraction, events, Commit
<1>3. Grown /\ Kept /\ NoneSettles BY <1>2, ExtractedLedger DEF Inv
<1>4. \A p \in products : Source(p)' BY <1>1 DEF Source, Ids
<1>5. EdgesStep /\ CommitsStep /\ RunsStep BY <1>2, <1>4, WorkKinds, WorkLands
<1> QED BY <1>2, <1>3, <1>5, Stays, SilentStep

-----------------------------------------------------------------------------
(* The landing of a derivation.                                            *)

LEMMA AppendedLedger ==
    ASSUME ClaimsInv, NEW c, ClaimRows(c), c.dep = NoDependency, claims' = Append(claims, c)
    PROVE  Grown /\ Kept /\ NoneSettles /\ Ids' = Ids \cup {Len(claims) + 1}
<1>1. Len(claims) \in Nat /\ Ids = 1 .. Len(claims) BY SeqParts DEF ClaimsInv, Ids
<1>2. /\ IsSeq(claims') /\ DOMAIN claims' = 1 .. Len(claims) + 1
      /\ \A i \in 1 .. Len(claims) : claims'[i] = claims[i]
      /\ claims'[Len(claims) + 1] = c
  BY SeqAppend DEF ClaimsInv
<1>3. Ids \subseteq DOMAIN claims' /\ \A i \in DOMAIN claims' : i \in Ids \/ i = Len(claims) + 1
  BY <1>1, <1>2
<1>4. \A i \in Ids : claims'[i] = claims[i] /\ ClaimRows(claims[i]) BY <1>1, <1>2 DEF ClaimsInv, ClaimFits
<1>5. \A i \in Ids : Follows(claims[i], claims'[i]) BY <1>4 DEF Follows
<1>6. \A i \in DOMAIN claims' : ClaimRows(claims'[i]) BY <1>2, <1>3, <1>4
<1>7. \A i \in DOMAIN claims' : claims'[i].dep # NoDependency => i \in Ids /\ claims'[i].dep = claims[i].dep
  BY <1>2, <1>3, <1>4
<1>8. Grown BY <1>2, <1>3, <1>5, <1>6, <1>7, GrownFrom
<1>9. Kept /\ NoneSettles BY <1>4 DEF Kept, NoneSettles, StillUnsettled
<1>10. Ids' = Ids \cup {Len(claims) + 1} BY <1>1, <1>2 DEF Ids
<1> QED BY <1>8, <1>9, <1>10

LEMMA DerivationLanding ==
    ASSUME Inv, NEW stmt, landDerivedClaim(stmt), talk' = talk, autos' = autos, plan' = NoPlan
    PROVE  Sound
<1>1. PICK products : products = {Statement(Len(claims) + 1)} OBVIOUS
<1>2. /\ work.kind \in {"abstraction", "split"} /\ Committed
      /\ \E ev, scope, rel : claims' = Append(claims, NewClaim(stmt, ev, scope, rel, work.sources, now))
      /\ lineage' = lineage \cup (RunInputs(work.run) \X products)
      /\ work' = NoWork /\ intents' = intents /\ log' = log /\ erased' = erased
  BY <1>1 DEF landDerivedClaim, events, Commit
<1>3. PICK c : claims' = Append(claims, c) /\ ClaimRows(c) /\ c.dep = NoDependency BY <1>2, FreshClaim
<1>4. Grown /\ Kept /\ NoneSettles /\ Len(claims) + 1 \in Ids' BY <1>3, AppendedLedger DEF Inv
<1>5. \A p \in products : Source(p)' BY <1>1, <1>4 DEF Source
<1>6. EdgesStep /\ CommitsStep /\ RunsStep BY <1>2, <1>5, WorkKinds, WorkLands
<1> QED BY <1>2, <1>4, <1>6, Stays, SilentStep

-----------------------------------------------------------------------------
(* The landing of an alignment.                                            *)

\* Rows are appended to some claims, no claim is added.
LEMMA AppendedRows ==
    ASSUME ClaimsInv, claims' = [i \in Ids |-> claims'[i]],
           \A i \in Ids : Follows(claims[i], claims'[i]) /\ claims'[i].present = claims[i].present,
           \A i \in Ids : \/ claims'[i].dep = claims[i].dep
                          \/ claims'[i].dep.meta \in Ids /\ KindOf[claims[claims'[i].dep.meta].stmt] = "meta"
    PROVE  Grown /\ Kept
<1>1. Len(claims) \in Nat /\ Ids = 1 .. Len(claims) BY SeqParts DEF ClaimsInv, Ids
<1>2. PICK ds : ds = claims' OBVIOUS
<1>3. DOMAIN ds = 1 .. Len(claims) /\ ds = [i \in 1 .. Len(claims) |-> ds[i]] BY <1>1, <1>2
<1>4. IsSeq(ds) BY <1>1, <1>3, SeqFrom
<1>5. IsSeq(claims') /\ DOMAIN claims' = Ids BY <1>1, <1>2, <1>3, <1>4
<1>6. \A i \in DOMAIN claims' : ClaimRows(claims'[i]) BY <1>5 DEF Follows
<1>7. Grown BY <1>5, <1>6, GrownFrom
<1> QED BY <1>7 DEF Kept

LEMMA SameRows ==
    ASSUME ClaimsInv, claims' = [i \in Ids |-> claims'[i]],
           \A i \in Ids : ClaimRows(claims'[i]) /\ Same(claims[i], claims'[i]) /\ claims'[i].stages = claims[i].stages
    PROVE  Grown /\ Kept /\ NoneSettles
<1>1. \A i \in Ids : /\ Follows(claims[i], claims'[i]) /\ claims'[i].present = claims[i].present
                     /\ claims'[i].dep = claims[i].dep
  BY SameFollows DEF Same
<1>2. Grown /\ Kept BY <1>1, AppendedRows
<1>3. NoneSettles BY DEF NoneSettles, StillUnsettled, currentClaimStage
<1> QED BY <1>2, <1>3

LEMMA AlignmentLanding ==
    ASSUME Inv, NEW aligned \in BOOLEAN, LandMemoryAlignment(aligned), talk' = talk, autos' = autos, plan' = NoPlan
    PROVE  Sound
<1>1. /\ work.kind = "alignment" /\ AlignmentCurrent(work) /\ Committed
      /\ work' = NoWork /\ intents' = intents /\ log' = log /\ erased' = erased /\ lineage' = lineage
  BY DEF LandMemoryAlignment, events, Commit
<1>2. CASE ~aligned
  <2>1. claims' = claims BY <1>2 DEF LandMemoryAlignment
  <2> QED BY <1>1, <2>1, Stays, LedgerStays
<1>3. CASE aligned
  <2>1. PICK direct, meta, old : direct = work.direct /\ meta = work.meta /\ old = work.old OBVIOUS
  <2>2. /\ direct \in Ids /\ KindOf[claims[direct].stmt] = "direct"
        /\ meta \in Ids /\ KindOf[claims[meta].stmt] = "meta"
    BY <1>1, <2>1 DEF Inv, WorkInv, WorkFits, Ids
  <2>3. /\ Active(claims[direct]) /\ Active(claims[meta]) /\ claims[meta].present
        /\ currentClaimStage(claims[direct]) = "sediment"
    BY <1>1, <2>1 DEF AlignmentCurrent, validateAlignmentInputs, loadEligibleClaimStatement
  <2>4. old # 0 => /\ old \in Ids /\ KindOf[claims[old].stmt] = "direct"
                   /\ Active(claims[old]) /\ currentClaimStage(claims[old]) = "settled"
    <3>1. SUFFICES ASSUME old # 0
                   PROVE  /\ old \in Ids /\ KindOf[claims[old].stmt] = "direct"
                          /\ Active(claims[old]) /\ currentClaimStage(claims[old]) = "settled"
      OBVIOUS
    <3>2. requireMemoryReplacementIntent(direct, old) /\ ActiveSettled(claims[old])
      BY <1>1, <2>1, <3>1 DEF AlignmentCurrent
    <3>3. PICK p \in intents : p.old = old BY <3>2 DEF requireMemoryReplacementIntent, IntentOf
    <3>4. IntentFits(claims, p) BY DEF Inv, IntentsInv
    <3> QED BY <3>2, <3>3, <3>4 DEF IntentFits, ActiveSettled, Ids
  <2>5. PICK seq : seq = commits + 1 OBVIOUS
  <2>6. PICK cs : cs = [claims EXCEPT ![direct] = Settled(@, meta, seq)] OBVIOUS
  <2>7. claims' = applyMemoryAlignmentReplacement(cs, old)
    BY <1>3, <2>1, <2>5, <2>6 DEF LandMemoryAlignment
  <2>8. \A i \in Ids : cs[i] = IF i = direct THEN Settled(claims[direct], meta, seq) ELSE claims[i]
    BY <2>6 DEF Ids
  <2>9. DOMAIN cs = Ids BY <2>6 DEF Ids
  <2>10. claims' = [i \in Ids |-> claims'[i]]
    <3>1. cs = [i \in Ids |-> cs[i]] BY <2>6 DEF ClaimsInv, Ids
    <3>2. CASE old = 0 BY <2>7, <3>1, <3>2 DEF applyMemoryAlignmentReplacement
    <3>3. CASE old # 0
      <4>1. claims' = [cs EXCEPT ![old] = insertStatusTransition(@, "superseded")]
        BY <2>7, <3>3 DEF applyMemoryAlignmentReplacement
      <4>2. PICK d : claims' = [cs EXCEPT ![old] = d] BY <4>1
      <4> QED BY <2>9, <4>2
    <3> QED BY <3>2, <3>3
  <2>11. old # direct \/ old = 0 BY <2>3, <2>4
  <2>12. direct # 0 /\ meta # 0 /\ 0 \notin Ids
    <3>1. Len(claims) \in Nat /\ Ids = 1 .. Len(claims) BY SeqParts DEF Inv, ClaimsInv, Ids
    <3> QED BY <2>2, <3>1
  <2>13. claims'[direct] = Settled(claims[direct], meta, seq)
    <3>1. CASE old = 0 BY <2>2, <2>7, <2>8, <3>1 DEF applyMemoryAlignmentReplacement
    <3>2. CASE old # 0
      <4>1. claims' = [cs EXCEPT ![old] = insertStatusTransition(@, "superseded")]
        BY <2>7, <3>2 DEF applyMemoryAlignmentReplacement
      <4>2. PICK d : claims' = [cs EXCEPT ![old] = d] BY <4>1
      <4>3. claims'[direct] = cs[direct] BY <2>2, <2>9, <2>11, <3>2, <4>2
      <4> QED BY <2>2, <2>8, <4>3
    <3> QED BY <3>1, <3>2
  <2>14. old # 0 => claims'[old] = insertStatusTransition(claims[old], "superseded")
    <3>1. SUFFICES ASSUME old # 0 PROVE claims'[old] = insertStatusTransition(claims[old], "superseded")
      OBVIOUS
    <3>2. claims' = [cs EXCEPT ![old] = insertStatusTransition(@, "superseded")]
      BY <2>7, <3>1 DEF applyMemoryAlignmentReplacement
    <3>3. claims'[old] = insertStatusTransition(cs[old], "superseded") BY <2>4, <2>9, <3>1, <3>2
    <3>4. cs[old] = claims[old] BY <2>4, <2>8, <2>11, <3>1
    <3> QED BY <3>3, <3>4
  <2>15. \A i \in Ids : i # direct /\ i # old => claims'[i] = claims[i]
    <3>1. SUFFICES ASSUME NEW i \in Ids, i # direct, i # old PROVE claims'[i] = claims[i] OBVIOUS
    <3>2. claims'[i] = cs[i]
      <4>1. CASE old = 0 BY <2>7, <4>1 DEF applyMemoryAlignmentReplacement
      <4>2. CASE old # 0
        <5>1. claims' = [cs EXCEPT ![old] = insertStatusTransition(@, "superseded")]
          BY <2>7, <4>2 DEF applyMemoryAlignmentReplacement
        <5>2. PICK d : claims' = [cs EXCEPT ![old] = d] BY <5>1
        <5> QED BY <2>9, <3>1, <5>2
      <4> QED BY <4>1, <4>2
    <3> QED BY <2>8, <3>1, <3>2
  <2>16. \A i \in Ids : ClaimRows(claims[i]) BY DEF Inv, ClaimsInv, ClaimFits
  <2>17. /\ Follows(claims[direct], claims'[direct]) /\ claims'[direct].present = claims[direct].present
         /\ claims'[direct].dep.meta = meta /\ claims'[direct].statuses = claims[direct].statuses
    BY <2>2, <2>3, <2>12, <2>13, <2>16, SettledClaim
  <2>18. old # 0 => /\ ClaimRows(claims'[old]) /\ Same(claims[old], claims'[old])
                    /\ claims'[old].stages = claims[old].stages
    <3>1. SUFFICES ASSUME old # 0
                   PROVE  /\ ClaimRows(claims'[old]) /\ Same(claims[old], claims'[old])
                          /\ claims'[old].stages = claims[old].stages
      OBVIOUS
    <3>2. allowedClaimStatusTransition(currentClaimStatus(claims[old]), "superseded")
      BY <2>4, <3>1 DEF Active, allowedClaimStatusTransition
    <3> QED BY <2>4, <2>14, <2>16, <3>1, <3>2, StatusInserted
  <2>19. Grown /\ Kept
    <3>1. ASSUME NEW i \in Ids
          PROVE  /\ Follows(claims[i], claims'[i]) /\ claims'[i].present = claims[i].present
                 /\ \/ claims'[i].dep = claims[i].dep
                    \/ claims'[i].dep.meta \in Ids /\ KindOf[claims[claims'[i].dep.meta].stmt] = "meta"
      <4>1. CASE i = direct BY <2>2, <2>17, <4>1
      <4>2. CASE i = old BY <2>12, <2>18, <3>1, <4>2, SameFollows DEF Same
      <4>3. CASE i # direct /\ i # old BY <2>15, <2>16, <3>1, <4>3 DEF Follows
      <4> QED BY <4>1, <4>2, <4>3
    <3> QED BY <2>10, <3>1, AppendedRows DEF Inv
  <2>20. SettlesStep
    <3>1. SUFFICES ASSUME NEW i \in Ids, currentClaimStage(claims'[i]) = "settled",
                          currentClaimStage(claims[i]) # "settled"
                   PROVE  /\ Active(claims'[i]) /\ Active(claims'[claims'[i].dep.meta])
                          /\ claims'[claims'[i].dep.meta].present
      BY DEF SettlesStep
    <3>2. i = direct
      <4>1. CASE i = old BY <2>12, <2>18, <3>1, <4>1 DEF currentClaimStage
      <4>2. CASE i # direct /\ i # old BY <2>15, <3>1, <4>2
      <4> QED BY <4>1, <4>2
    <3>3. Active(claims'[i]) BY <2>3, <2>17, <3>2 DEF Active, currentClaimStatus
    <3>4. meta # direct /\ meta # old BY <2>2, <2>4, <2>12
    <3>5. claims'[meta] = claims[meta] BY <2>2, <2>15, <3>4
    <3> QED BY <2>3, <2>17, <3>2, <3>3, <3>5
  <2>21. LogStep BY <1>1 DEF Inv, LogInv, LogStep, happened, ConsecutiveSelfTalk
  <2>22. Inv' /\ SupportStep /\ ParentsStep /\ ReviewStep
    <3>1. CommitsStep /\ EdgesStep BY <1>1, Stays
    <3>2. RunsStep BY <1>1, <3>1, RunsStay
    <3> QED BY <1>1, <2>19, <2>21, <3>1, <3>2, Stays, InvStep
  <2>23. SpeaksStep BY <1>1 DEF SpeaksStep
  <2> QED BY <2>20, <2>22, <2>23 DEF Sound
<1> QED BY <1>2, <1>3

-----------------------------------------------------------------------------
(* Preparing work, and ending it without a claim.                          *)

LEMMA DerivationPrepared ==
    ASSUME Inv, NEW kind \in {"abstraction", "split"}, NEW sources \in SUBSET Ids,
           PrepareMemoryDerivation(kind, sources), talk' = talk, autos' = autos, plan' = NoPlan
    PROVE  Sound
<1>1. PICK rows : work' = [kind |-> kind, run |-> ThisRun, policy |-> policy, sources |-> sources, plan |-> rows]
  BY DEF PrepareMemoryDerivation
<1>2. PICK copied : copied = {Statement(i) : i \in sources} OBVIOUS
<1>3. /\ Commit /\ claims' = claims /\ intents' = intents /\ log' = log /\ erased' = erased
      /\ lineage' = lineage \cup Copies(ThisRun, copied)
  BY <1>2 DEF PrepareMemoryDerivation, events
<1>4. work'.kind = kind /\ work'.sources = sources /\ work'.run = ThisRun BY <1>1
<1>5. WorkStep BY <1>4 DEF WorkStep, WorkFits, Ids
<1>6. \A i \in sources : claims[i].present
  BY DEF PrepareMemoryDerivation, DerivedSources, loadEligibleClaimStatement
<1>7. \A c \in copied : Source(c) /\ ContentPresent(c) BY <1>2, <1>6, ClaimThere
<1> QED BY <1>3, <1>4, <1>5, <1>7, WorkPrepared

LEMMA AlignmentPrepared ==
    ASSUME Inv, NEW direct \in Ids, NEW meta \in Ids, DiscoverMemoryAlignmentWork(direct, meta),
           talk' = talk, autos' = autos, plan' = NoPlan
    PROVE  Sound
<1>1. PICK old, a, b : work' = [kind |-> "alignment", run |-> ThisRun, policy |-> policy, persona |-> persona,
                                direct |-> direct, meta |-> meta, old |-> old, directEv |-> a, metaEv |-> b]
  BY DEF DiscoverMemoryAlignmentWork
<1>2. PICK copied : copied = {Statement(direct), Statement(meta)} OBVIOUS
<1>3. /\ Commit /\ claims' = claims /\ intents' = intents /\ log' = log /\ erased' = erased
      /\ lineage' = lineage \cup Copies(ThisRun, copied)
  BY <1>2 DEF DiscoverMemoryAlignmentWork, events
<1>4. /\ KindOf[claims[direct].stmt] = "direct" /\ KindOf[claims[meta].stmt] = "meta"
      /\ claims[direct].present /\ claims[meta].present
  BY DEF DiscoverMemoryAlignmentWork, loadAlignmentClaims
<1>5. work'.kind = "alignment" /\ work'.direct = direct /\ work'.meta = meta /\ work'.run = ThisRun BY <1>1
<1>6. WorkStep BY <1>4, <1>5 DEF WorkStep, WorkFits, Ids
<1>7. \A c \in copied : Source(c) /\ ContentPresent(c) BY <1>2, <1>4, ClaimThere
<1> QED BY <1>3, <1>5, <1>6, <1>7, WorkPrepared

LEMMA PersonaPrepared ==
    ASSUME Inv, DiscoverPersonaRevisionWork, talk' = talk, autos' = autos, plan' = NoPlan PROVE Sound
<1>1. PICK copied : copied = {Statement(i) : i \in loadPersonaEligibleClaims} OBVIOUS
<1>2. /\ Commit /\ claims' = claims /\ intents' = intents /\ log' = log /\ erased' = erased
      /\ lineage' = lineage \cup Copies(ThisRun, copied)
  BY <1>1 DEF DiscoverPersonaRevisionWork, events
<1>3. work'.kind = "persona" /\ work'.run = ThisRun BY DEF DiscoverPersonaRevisionWork
<1>4. WorkStep BY <1>3 DEF WorkStep, WorkFits
<1>5. \A i \in loadPersonaEligibleClaims : i \in Ids /\ claims[i].present
  BY DEF loadPersonaEligibleClaims, PersonaSource, loadEligibleClaimStatement
<1>6. \A c \in copied : Source(c) /\ ContentPresent(c) BY <1>1, <1>5, ClaimThere
<1> QED BY <1>2, <1>3, <1>4, <1>6, WorkPrepared

LEMMA ExtractionPrepared ==
    ASSUME Inv, NEW e, PrepareMemoryExtraction(e), talk' = talk, autos' = autos, plan' = NoPlan PROVE Sound
<1>1. PICK copied : copied = {Text(e)} OBVIOUS
<1>2. /\ Commit /\ claims' = claims /\ intents' = intents /\ log' = log /\ erased' = erased
      /\ lineage' = lineage \cup Copies(ThisRun, copied) /\ e \in Present
  BY <1>1 DEF PrepareMemoryExtraction, events
<1>3. work'.kind = "extraction" /\ work'.run = ThisRun BY DEF PrepareMemoryExtraction
<1>4. WorkStep BY <1>3 DEF WorkStep, WorkFits
<1>5. \A c \in copied : Source(c) /\ ContentPresent(c) BY <1>1, <1>2, EventThere
<1> QED BY <1>2, <1>3, <1>4, <1>5, WorkPrepared

LEMMA PersonaLanding ==
    ASSUME Inv, NEW edit, NEW contradiction, NEW cooling, LandPersonaRevision(edit, contradiction, cooling),
           talk' = talk, autos' = autos, plan' = NoPlan
    PROVE  Sound
<1>1. PICK products : products = {Revision(work.run)} OBVIOUS
<1>2. /\ work.kind = "persona" /\ Committed /\ lineage' = lineage \cup (RunInputs(work.run) \X products)
      /\ work' = NoWork /\ claims' = claims /\ intents' = intents /\ log' = log /\ erased' = erased
  BY <1>1 DEF LandPersonaRevision, events, Commit
<1>3. \A p \in products : p[1] = "revision" BY <1>1, Tags
<1>4. EdgesStep /\ CommitsStep /\ RunsStep BY <1>2, <1>3, WorkKinds, WorkLands
<1> QED BY <1>2, <1>4, Stays, ClaimsStayStep

LEMMA WorkDropped == ASSUME Inv, DropWork, talk' = talk, autos' = autos, plan' = NoPlan PROVE Sound
<1>1. /\ work' = NoWork /\ claims' = claims /\ intents' = intents /\ log' = log /\ erased' = erased
      /\ lineage' = lineage /\ Committed
  BY DEF DropWork, events, Commit
<1> QED BY <1>1, Stays, LedgerStays

LEMMA WorkSound ==
    ASSUME Inv, WorkNext, talk' = talk, autos' = autos, plan' = NoPlan
    PROVE  Sound
<1>1. CASE \E out \in Outputs : LandMemoryExtraction(out) BY <1>1, ExtractionLanding
<1>2. CASE \E kind \in {"abstraction", "split"}, sources \in SUBSET Ids : PrepareMemoryDerivation(kind, sources)
  BY <1>2, DerivationPrepared
<1>3. CASE \E stmt \in Derivable : landDerivedClaim(stmt) BY <1>3, DerivationLanding
<1>4. CASE \E direct, meta \in Ids : DiscoverMemoryAlignmentWork(direct, meta) BY <1>4, AlignmentPrepared
<1>5. CASE \E aligned \in BOOLEAN : LandMemoryAlignment(aligned) BY <1>5, AlignmentLanding
<1>6. CASE DiscoverPersonaRevisionWork BY <1>6, PersonaPrepared
<1>7. CASE \E edit, contradiction, cooling : LandPersonaRevision(edit, contradiction, cooling)
  BY <1>7, PersonaLanding
<1>8. CASE DropWork BY <1>8, WorkDropped
<1> QED BY <1>1, <1>2, <1>3, <1>4, <1>5, <1>6, <1>7, <1>8 DEF WorkNext

-----------------------------------------------------------------------------
(* The owner.                                                              *)

LEMMA OneClaim ==
    ASSUME ClaimsInv, NEW i \in Ids, NEW d, claims' = [claims EXCEPT ![i] = d],
           ClaimRows(d), Same(claims[i], d), d.stages = claims[i].stages
    PROVE  Grown /\ Kept /\ NoneSettles
<1>1. claims' = [j \in Ids |-> claims'[j]] BY DEF Ids
<1>2. \A j \in Ids : claims'[j] = IF j = i THEN d ELSE claims[j] BY DEF Ids
<1>3. \A j \in Ids : ClaimRows(claims[j]) /\ Same(claims[j], claims[j]) BY DEF ClaimsInv, ClaimFits, Same
<1>4. \A j \in Ids : ClaimRows(claims'[j]) /\ Same(claims[j], claims'[j]) /\ claims'[j].stages = claims[j].stages
  BY <1>2, <1>3
<1> QED BY <1>1, <1>4, SameRows

LEMMA OwnerSound ==
    ASSUME Inv, OwnerNext, talk' = talk, autos' = autos, plan' = NoPlan
    PROVE  Sound
<1>0. \A i \in Ids : ClaimRows(claims[i]) BY DEF Inv, ClaimsInv, ClaimFits
<1>1. ASSUME NEW i \in Ids, NEW to, HumanClaimStatusDecision(i, to) PROVE Sound
  <2>1. PICK d : d = insertStatusTransition(claims[i], to) OBVIOUS
  <2>2. claims' = [claims EXCEPT ![i] = d]
    <3>1. claims' = [claims EXCEPT ![i] = insertStatusTransition(claims[i], to)]
      BY <1>1 DEF HumanClaimStatusDecision, Ids
    <3> QED BY <2>1, <3>1
  <2>3. /\ allowedClaimStatusTransition(currentClaimStatus(claims[i]), to)
        /\ intents' = intents /\ log' = log /\ erased' = erased /\ lineage' = lineage /\ work' = work
        /\ Committed
    BY <1>1 DEF HumanClaimStatusDecision, events, Commit
  <2>4. ClaimRows(d) /\ Same(claims[i], d) /\ d.stages = claims[i].stages BY <1>0, <1>1, <2>1, <2>3, StatusInserted
  <2>5. Grown /\ Kept /\ NoneSettles BY <1>1, <2>2, <2>4, OneClaim DEF Inv
  <2>6. EdgesStep /\ CommitsStep /\ RunsStep /\ AutosStep /\ WorkStep BY <2>3, RunsRest
  <2> QED BY <2>3, <2>5, <2>6, Stays, SilentStep
<1>2. ASSUME NEW i \in Ids, NEW scope, SetClaimViewScope(i, scope) PROVE Sound
  <2>1. PICK d : d = [claims[i] EXCEPT !.scope = scope] OBVIOUS
  <2>2. claims' = [claims EXCEPT ![i] = d]
    <3>1. claims' = [claims EXCEPT ![i].scope = scope] BY <1>2 DEF SetClaimViewScope
    <3> QED BY <1>2, <2>1, <3>1 DEF Ids
  <2>3. intents' = intents /\ log' = log /\ erased' = erased /\ lineage' = lineage /\ work' = work /\ Committed
    BY <1>2 DEF SetClaimViewScope, events, Commit
  <2>4. ClaimRows(d) /\ Same(claims[i], d) /\ d.stages = claims[i].stages BY <1>0, <1>2, <2>1, ScopeField
  <2>5. Grown /\ Kept /\ NoneSettles BY <1>2, <2>2, <2>4, OneClaim DEF Inv
  <2>6. EdgesStep /\ CommitsStep /\ RunsStep /\ AutosStep /\ WorkStep BY <2>3, RunsRest
  <2> QED BY <2>3, <2>5, <2>6, Stays, SilentStep
<1>3. ASSUME NEW new \in Ids, NEW old \in Ids, CreateMemoryReplacementIntent(new, old) PROVE Sound
  <2>1. PICK p : p = [new |-> new, old |-> old, seq |-> commits + 1, policy |-> policy] OBVIOUS
  <2>2. /\ intents' = intents \cup {p}
        /\ KindOf[claims[new].stmt] = "direct" /\ KindOf[claims[old].stmt] = "direct"
        /\ claims' = claims /\ log' = log /\ erased' = erased /\ lineage' = lineage /\ work' = work
        /\ Committed
    BY <1>3, <2>1 DEF CreateMemoryReplacementIntent, events, Commit
  <2>3. p.new = new /\ p.old = old BY <2>1
  <2>4. IntentsStep BY <1>3, <2>2, <2>3 DEF IntentsStep, IntentFits, Ids
  <2> QED BY <2>2, <2>4, Stays, LedgerStays
<1>4. ASSUME NEW to, ActivateMemoryPolicy(to) PROVE Sound
  <2>1. /\ claims' = claims /\ intents' = intents /\ log' = log /\ erased' = erased /\ lineage' = lineage
        /\ work' = work /\ Committed
    BY <1>4 DEF ActivateMemoryPolicy, events, Commit
  <2> QED BY <2>1, Stays, LedgerStays
<1> QED BY <1>1, <1>2, <1>3, <1>4 DEF OwnerNext

-----------------------------------------------------------------------------
(* Autonomous runs.                                                        *)

LEMMA UsedShape ==
    ASSUME NEW cs, \A i \in DOMAIN cs : ClaimRows(cs[i]), NEW used, NEW usage
    PROVE  LET ds == UsedIn(cs, used, usage) IN
             /\ ds = [i \in DOMAIN cs |-> ds[i]] /\ DOMAIN ds = DOMAIN cs
             /\ \A i \in DOMAIN cs : ClaimRows(ds[i]) /\ Same(cs[i], ds[i]) /\ ds[i].stages = cs[i].stages
<1> DEFINE item(i) == IF i \in used THEN [cs[i] EXCEPT !.uses[usage] = @ + 1] ELSE cs[i]
<1>1. PICK ds : ds = [i \in DOMAIN cs |-> item(i)] OBVIOUS
<1>2. ds = UsedIn(cs, used, usage) BY <1>1 DEF UsedIn
<1>3. ASSUME NEW i \in DOMAIN cs
      PROVE  ClaimRows(item(i)) /\ Same(cs[i], item(i)) /\ item(i).stages = cs[i].stages
  <2>1. CASE i \in used
    <3>1. PICK d : d = [cs[i] EXCEPT !.uses[usage] = @ + 1] OBVIOUS
    <3>2. ClaimRows(d) /\ Same(cs[i], d) /\ d.stages = cs[i].stages BY <1>3, <3>1, UsedClaim
    <3> QED BY <2>1, <3>1, <3>2
  <2>2. CASE i \notin used BY <1>3, <2>2 DEF Same
  <2> QED BY <2>1, <2>2
<1> HIDE DEF item
<1>4. DOMAIN ds = DOMAIN cs /\ \A i \in DOMAIN cs : ds[i] = item(i) BY <1>1
<1>5. ds = [i \in DOMAIN cs |-> ds[i]] BY <1>1
<1> QED BY <1>2, <1>3, <1>4, <1>5

LEMMA DependencyFits ==
    ASSUME NEW t \in DependencyTriggers PROVE TriggerFits(claims, t)
<1>1. PICK i \in Ids : /\ claims[i].dep # NoDependency
                    /\ \E n : t = Trigger("meta_dependency_status_change", "none", i, n)
  BY DEF DependencyTriggers
<1>2. t.kind = "meta_dependency_status_change" /\ t.claim = i BY <1>1 DEF Trigger
<1> QED BY <1>1, <1>2 DEF TriggerFits, Ids

LEMMA ConflictFits ==
    ASSUME Inv, NEW t \in ConflictTriggers PROVE TriggerFits(claims, t)
<1>1. PICK p \in intents : t = Trigger("settled_direct_conflict", "none", p.new, p.old) BY DEF ConflictTriggers
<1>2. t.kind = "settled_direct_conflict" /\ t.claim = p.new /\ t.n = p.old BY <1>1 DEF Trigger
<1>3. p.new \in DOMAIN claims /\ p.old \in DOMAIN claims BY DEF Inv, IntentsInv, IntentFits
<1> QED BY <1>2, <1>3 DEF TriggerFits

LEMMA InitiativeFits ==
    ASSUME NEW t \in InitiativeTriggers PROVE TriggerFits(claims, t)
<1>1. PICK i \in Ids : t = Trigger("future_to_current", "none", i, 0) BY DEF InitiativeTriggers
<1>2. t.kind = "future_to_current" /\ t.claim = i BY <1>1 DEF Trigger
<1> QED BY <1>2 DEF TriggerFits, Ids

LEMMA IdleFits ==
    ASSUME NEW e, NEW n PROVE TriggerFits(claims, Trigger("idle", e, 0, n))
<1>1. PICK t : t = Trigger("idle", e, 0, n) OBVIOUS
<1>2. t.kind = "idle" BY <1>1 DEF Trigger
<1> QED BY <1>1, <1>2 DEF TriggerFits

LEMMA ContextHolds ==
    ASSUME Inv, NEW run, RunFits(claims, run), validateAutonomousTrigger(run),
           NEW i \in AutonomousClaimContexts(run.trigger)
    PROVE  i \in Ids /\ claims[i].present /\ (KindOf[claims[i].stmt] = "direct" => ActiveSettled(claims[i]))
<1>1. PICK t : t = run.trigger OBVIOUS
<1>2. TriggerFits(claims, t) BY <1>1 DEF RunFits
<1>3. CASE t.kind = "idle"
  <2>1. AutonomousClaimContexts(t) = {} BY <1>3 DEF AutonomousClaimContexts
  <2> QED BY <1>1, <2>1
<1>4. CASE t.kind = "meta_dependency_status_change"
  <2>1. PICK meta : meta = claims[t.claim].dep.meta OBVIOUS
  <2>2. i = t.claim \/ i = meta BY <1>1, <1>4, <2>1 DEF AutonomousClaimContexts
  <2>3. t.claim \in Ids /\ claims[t.claim].dep # NoDependency BY <1>2, <1>4 DEF TriggerFits, Ids
  <2>4. meta \in Ids /\ KindOf[claims[meta].stmt] = "meta"
    <3>1. ClaimFits(claims, claims[t.claim]) BY <2>3 DEF Inv, ClaimsInv
    <3> QED BY <2>1, <2>3, <3>1 DEF ClaimFits, Ids
  <2>5. /\ claims[t.claim].present /\ claims[meta].present
        /\ requireAutonomousContextClaims(claims[t.claim], FALSE)
    BY <1>1, <1>4, <2>1 DEF validateAutonomousTrigger
  <2>6. ActiveSettled(claims[t.claim]) BY <2>5 DEF requireAutonomousContextClaims
  <2> QED BY <2>2, <2>3, <2>4, <2>5, <2>6
<1>5. CASE t.kind = "settled_direct_conflict"
  <2>1. i = t.claim \/ i = t.n BY <1>1, <1>5 DEF AutonomousClaimContexts
  <2>2. t.claim \in Ids /\ t.n \in Ids BY <1>2, <1>5 DEF TriggerFits, Ids
  <2>3. /\ requireAutonomousContextClaims(claims[t.claim], FALSE)
        /\ requireAutonomousContextClaims(claims[t.n], FALSE)
    BY <1>1, <1>5 DEF validateAutonomousTrigger
  <2> QED BY <2>1, <2>2, <2>3
       DEF requireAutonomousContextClaims, requireAutonomousExternalClaim, loadEligibleClaimStatement
<1>6. CASE t.kind \notin {"idle", "meta_dependency_status_change", "settled_direct_conflict"}
  <2>1. i = t.claim BY <1>1, <1>6 DEF AutonomousClaimContexts
  <2>2. t.claim \in Ids BY <1>2, <1>6 DEF TriggerFits, Ids
  <2>3. requireAutonomousContextClaims(claims[t.claim], TRUE) BY <1>1, <1>6 DEF validateAutonomousTrigger
  <2> QED BY <2>1, <2>2, <2>3
       DEF requireAutonomousContextClaims, requireAutonomousExternalClaim, loadEligibleClaimStatement
<1> QED BY <1>3, <1>4, <1>5, <1>6

LEMMA AutonomousPrepared ==
    ASSUME Inv, NEW t, TriggerFits(claims, t), PrepareAutonomousGeneration(t), talk' = talk, plan' = NoPlan
    PROVE  Sound
<1>1. PICK run : run = NewRun(t) OBVIOUS
<1>2. PICK copied : copied = {Statement(i) : i \in AutonomousClaimContexts(t)} OBVIOUS
<1>3. /\ claims' = UsedIn(claims, AutonomousClaimContexts(t), "prompt_included")
      /\ autos' = Append(autos, run) /\ validateAutonomousDecision(run)
      /\ lineage' = lineage \cup Copies(ThisRun, copied) /\ commits' = commits + 1
      /\ intents' = intents /\ log' = log /\ erased' = erased /\ work' = work
  BY <1>1, <1>2 DEF PrepareAutonomousGeneration, others, events, Commit, Committed
<1>4. /\ {"trigger", "run", "step", "claims"} \subseteq DOMAIN run
      /\ run.trigger = t /\ run.run = ThisRun /\ run.claims = AutonomousClaimContexts(t)
  BY <1>1 DEF NewRun
<1>5. RunFits(claims, run) BY <1>4 DEF RunFits
<1>6. Grown /\ Kept /\ NoneSettles
  <2>1. \A i \in DOMAIN claims : ClaimRows(claims[i]) BY DEF Inv, ClaimsInv, ClaimFits, Ids
  <2>2. /\ claims' = [i \in Ids |-> claims'[i]]
        /\ \A i \in Ids : ClaimRows(claims'[i]) /\ Same(claims[i], claims'[i]) /\ claims'[i].stages = claims[i].stages
    BY <1>3, <2>1, UsedShape DEF Ids
  <2> QED BY <2>2, SameRows DEF Inv
<1>7. CommitsStep /\ Numbered(commits', ThisRun) BY <1>3, FreshNumber
<1>8. EdgesStep /\ \A x \in Inputs(lineage', ThisRun) : x[1] = "copy" /\ SourceOf(x) \in copied
  <2>1. \A i \in AutonomousClaimContexts(t) : i \in Ids /\ claims[i].present
    BY <1>3, <1>4, <1>5, ContextHolds DEF validateAutonomousDecision
  <2>2. PICK none : none = {} OBVIOUS
  <2>3. \A c \in copied \cup none : Source(c) /\ ContentPresent(c) BY <1>2, <2>1, <2>2, ClaimThere
  <2>4. lineage' = lineage \cup (Copies(ThisRun, copied) \cup {<<c, Wire(ThisRun, c)>> : c \in none})
    BY <1>3, <2>2
  <2>5. /\ EdgesStep
        /\ \A x \in Inputs(lineage', ThisRun) : \/ x[1] = "copy" /\ SourceOf(x) \in copied
                                                \/ x[1] = "wire" /\ SourceOf(x) \in none
    BY <1>3, <2>3, <2>4, FrozenEdges
  <2> QED BY <2>2, <2>5
<1>9. /\ IsSeq(autos')
      /\ \A k \in DOMAIN autos' : (k \in DOMAIN autos /\ autos'[k] = autos[k]) \/ autos'[k] = run
  <2>1. IsSeq(autos) BY DEF Inv, AutosInv
  <2>2. /\ IsSeq(autos') /\ DOMAIN autos' = 1 .. Len(autos) + 1
        /\ \A k \in 1 .. Len(autos) : autos'[k] = autos[k]
        /\ autos'[Len(autos) + 1] = run
    BY <1>3, <2>1, SeqAppend
  <2>3. Len(autos) \in Nat /\ DOMAIN autos = 1 .. Len(autos) BY <2>1, SeqParts
  <2> QED BY <2>2, <2>3
<1>10. AutosStep BY <1>5, <1>9 DEF AutosStep, Inv, AutosInv
<1>11. RunsInv'
  <2>1. AutoRun(lineage', commits', run)
    <3>1. \A x \in Inputs(lineage', run.run) : x[1] = "copy" /\ \E i \in run.claims : SourceOf(x) = Statement(i)
      BY <1>2, <1>4, <1>8
    <3> QED BY <1>4, <1>7, <3>1 DEF AutoRun
  <2>2. \A k \in DOMAIN autos : AutoRun(lineage', commits', autos[k]) BY <1>7, <1>8, RunsCarried DEF Inv, RunsInv
  <2>3. \A k \in DOMAIN autos' : AutoRun(lineage', commits', autos'[k]) BY <1>9, <2>1, <2>2
  <2>4. WorkRun(lineage', commits', work') /\ TalkRun(lineage', commits', talk')
    BY <1>3, <1>7, <1>8, RunsCarried DEF Inv, RunsInv
  <2> QED BY <2>3, <2>4 DEF RunsInv, Inv
<1>12. RunningStep
  <2>1. SUFFICES ASSUME NEW r \in RunningRuns' PROVE r \in RunningRuns \/ r = ThisRun BY DEF RunningStep
  <2>2. CASE \E k \in DOMAIN autos' : autos'[k].step = "running" /\ r = autos'[k].run
    BY <1>4, <1>9, <2>2 DEF RunningRuns
  <2> QED BY <1>3, <2>1, <2>2 DEF RunningRuns
<1> QED BY <1>3, <1>6, <1>7, <1>8, <1>10, <1>11, <1>12, Stays, SilentStep DEF RunsStep

\* A run that moves on keeps its trigger, its inputs and its claims, and runs
\* again only on inputs that are there.
Moved(a, run) ==
    /\ {"trigger", "run", "step", "claims"} \subseteq DOMAIN run
    /\ run.trigger = a.trigger /\ run.run = a.run /\ run.claims = a.claims
    /\ run.step = "running" => Generation(run.run)

LEMMA RunMoves ==
    ASSUME Inv, CommitsStep, EdgesStep, work' = work, talk' = talk,
           NEW k \in DOMAIN autos, NEW run, autos' = [autos EXCEPT ![k] = run], Moved(autos[k], run)
    PROVE  AutosStep /\ RunsStep
<1>1. IsSeq(autos) /\ \A j \in DOMAIN autos : RunFits(claims, autos[j]) BY DEF Inv, AutosInv
<1>2. Len(autos) \in Nat /\ DOMAIN autos = 1 .. Len(autos) BY <1>1, SeqParts
<1>3. PICK runs : runs = autos' OBVIOUS
<1>4. DOMAIN runs = 1 .. Len(autos) /\ runs = [j \in 1 .. Len(autos) |-> runs[j]] BY <1>2, <1>3
<1>5. IsSeq(runs) BY <1>2, <1>4, SeqFrom
<1>6. RunFits(claims, run) BY <1>1 DEF RunFits, Moved
<1>7. \A j \in DOMAIN runs : j \in DOMAIN autos /\ runs[j] = IF j = k THEN run ELSE autos[j]
  BY <1>2, <1>3, <1>4
<1>8. AutosStep BY <1>1, <1>3, <1>5, <1>6, <1>7 DEF AutosStep
<1>9. AutoRun(lineage, commits, run)
  <2>1. AutoRun(lineage, commits, autos[k]) BY DEF Inv, RunsInv
  <2> QED BY <2>1 DEF AutoRun, Moved
<1>10. \A j \in DOMAIN autos' : AutoRun(lineage', commits', autos'[j])
  <2>1. \A j \in DOMAIN runs : AutoRun(lineage, commits, runs[j]) BY <1>7, <1>9 DEF Inv, RunsInv
  <2> QED BY <1>3, <2>1, RunsCarried
<1>11. WorkRun(lineage', commits', work') /\ TalkRun(lineage', commits', talk')
  BY RunsCarried DEF Inv, RunsInv
<1>12. RunsInv' BY <1>10, <1>11 DEF RunsInv, Inv
<1>13. RunningStep
  <2>1. SUFFICES ASSUME NEW r \in RunningRuns'
                 PROVE  r \in RunningRuns \/ (Numbered(commits, r) /\ Generation(r))
    BY DEF RunningStep
  <2>2. CASE \E j \in DOMAIN autos' : autos'[j].step = "running" /\ r = autos'[j].run
    <3>1. PICK j \in DOMAIN runs : runs[j].step = "running" /\ r = runs[j].run BY <1>3, <2>2
    <3>2. CASE j = k
      <4>1. r = run.run /\ run.step = "running" BY <1>7, <3>1, <3>2
      <4> QED BY <1>9, <4>1 DEF AutoRun, Moved
    <3>3. CASE j # k BY <1>7, <3>1, <3>3 DEF RunningRuns
    <3> QED BY <3>2, <3>3
  <2> QED BY <2>1, <2>2 DEF RunningRuns
<1> QED BY <1>8, <1>12, <1>13 DEF RunsStep

-----------------------------------------------------------------------------
(* The log of events.                                                      *)

LEMMA ConsecutiveIs == ConsecutiveSelfTalk = Cardinality(SelfTalkPlaces(log))
<1>1. PICK told : told = [k \in DOMAIN log |-> log[k].event] OBVIOUS
<1>2. DOMAIN told = DOMAIN log /\ \A k \in DOMAIN log : told[k] = log[k].event BY <1>1
<1>3. {k \in DOMAIN told : /\ TypeOf[told[k]] = "self_talk"
                           /\ \A j \in DOMAIN told : TypeOf[told[j]] = "user_message" => j < k}
        = SelfTalkPlaces(log)
  BY <1>2 DEF SelfTalkPlaces
<1>4. ConsecutiveSelfTalk = SelfTalkSince(told) BY <1>1 DEF ConsecutiveSelfTalk
<1> QED BY <1>3, <1>4 DEF SelfTalkSince

LEMMA ConsecutiveIsNext == ConsecutiveSelfTalk' = Cardinality(SelfTalkPlaces(log'))
<1>1. PICK told : told = [k \in DOMAIN log' |-> log'[k].event] OBVIOUS
<1>2. DOMAIN told = DOMAIN log' /\ \A k \in DOMAIN log' : told[k] = log'[k].event BY <1>1
<1>3. {k \in DOMAIN told : /\ TypeOf[told[k]] = "self_talk"
                           /\ \A j \in DOMAIN told : TypeOf[told[j]] = "user_message" => j < k}
        = SelfTalkPlaces(log')
  BY <1>2 DEF SelfTalkPlaces
<1>4. ConsecutiveSelfTalk' = SelfTalkSince(told) BY <1>1 DEF ConsecutiveSelfTalk
<1> QED BY <1>3, <1>4 DEF SelfTalkSince

\* A set that gains at most one element stays within a limit it was below.
LEMMA AtMostOneMore ==
    ASSUME NEW S, IsFiniteSet(S), NEW T, NEW x, NEW limit \in Nat, Cardinality(S) <= limit,
           T \subseteq S \/ (T \subseteq S \cup {x} /\ Cardinality(S) < limit)
    PROVE  Cardinality(T) <= limit
<1>1. Cardinality(S) \in Nat BY FS_CardinalityType
<1>2. CASE T \subseteq S
  <2>1. Cardinality(T) <= Cardinality(S) /\ IsFiniteSet(T) BY <1>2, FS_Subset
  <2>2. Cardinality(T) \in Nat BY <2>1, FS_CardinalityType
  <2> QED BY <1>1, <2>1, <2>2
<1>3. CASE T \subseteq S \cup {x} /\ Cardinality(S) < limit
  <2>1. IsFiniteSet(S \cup {x}) BY FS_AddElement
  <2>2. Cardinality(S \cup {x}) = Cardinality(S) \/ Cardinality(S \cup {x}) = Cardinality(S) + 1 BY FS_AddElement
  <2>3. Cardinality(T) <= Cardinality(S \cup {x}) /\ IsFiniteSet(T) BY <1>3, <2>1, FS_Subset
  <2>4. Cardinality(T) \in Nat BY <2>3, FS_CardinalityType
  <2> QED BY <1>1, <1>3, <2>2, <2>3, <2>4
<1> QED BY <1>2, <1>3

LEMMA LogGrows ==
    ASSUME LogInv, NEW entry, entry.event \in Events, log' = Append(log, entry),
           TypeOf[entry.event] = "self_talk" => ConsecutiveSelfTalk < Limits.consecutive,
           TypeOf[entry.event] = "outbound_initiative" =>
               Cardinality(InitiativesOf(log, entry.at \div Limits.day)) < Limits.initiativeDaily
    PROVE  /\ LogStep /\ entry.event \in happened'
           /\ \A k \in DOMAIN log' \ DOMAIN log : log'[k] = entry
<1>1. IsSeq(log) /\ Len(log) \in Nat /\ DOMAIN log = 1 .. Len(log) BY SeqParts DEF LogInv
<1>2. /\ IsSeq(log') /\ DOMAIN log' = 1 .. Len(log) + 1
      /\ \A k \in 1 .. Len(log) : log'[k] = log[k]
      /\ log'[Len(log) + 1] = entry
  BY <1>1, SeqAppend
<1>3. PICK n : n = Len(log) + 1 OBVIOUS
<1>4. DOMAIN log' = DOMAIN log \cup {n} /\ n \notin DOMAIN log /\ log'[n] = entry BY <1>1, <1>2, <1>3
<1>5. \A k \in DOMAIN log : log'[k] = log[k] /\ k < n BY <1>1, <1>2, <1>3
<1>6. IsFiniteSet(DOMAIN log)
  <2>1. 1 \in Int /\ Len(log) \in Int BY <1>1
  <2>2. IsFiniteSet(1 .. Len(log)) BY <2>1, FS_Interval
  <2> QED BY <1>1, <2>2
<1>7. happened' = happened \cup {entry.event}
  <2>1. ASSUME NEW e \in happened' PROVE e \in happened \cup {entry.event}
    <3>1. PICK k \in DOMAIN log' : e = log'[k].event BY <2>1 DEF happened
    <3> QED BY <1>4, <1>5, <3>1 DEF happened
  <2>2. ASSUME NEW e \in happened PROVE e \in happened'
    <3>1. PICK k \in DOMAIN log : e = log[k].event BY <2>2 DEF happened
    <3> QED BY <1>4, <1>5, <3>1 DEF happened
  <2>3. entry.event \in happened' BY <1>4 DEF happened
  <2> QED BY <2>1, <2>2, <2>3
<1>8. ConsecutiveSelfTalk' <= Limits.consecutive
  <2>1. PICK S, T : S = SelfTalkPlaces(log) /\ T = SelfTalkPlaces(log') OBVIOUS
  <2>2. S \subseteq DOMAIN log BY <2>1 DEF SelfTalkPlaces
  <2>3. IsFiniteSet(S) BY <1>6, <2>2, FS_Subset
  <2>4. Cardinality(S) <= Limits.consecutive BY <2>1, ConsecutiveIs DEF LogInv
  <2>5. T \subseteq S \cup {n}
    <3>1. SUFFICES ASSUME NEW k \in T, k # n PROVE k \in S OBVIOUS
    <3>2. k \in DOMAIN log /\ TypeOf[log[k].event] = "self_talk" BY <1>4, <1>5, <2>1, <3>1 DEF SelfTalkPlaces
    <3>3. ASSUME NEW j \in DOMAIN log, TypeOf[log[j].event] = "user_message" PROVE j < k
      BY <1>4, <1>5, <2>1, <3>1, <3>3 DEF SelfTalkPlaces
    <3> QED BY <2>1, <3>2, <3>3 DEF SelfTalkPlaces
  <2>6. TypeOf[entry.event] # "self_talk" => n \notin T BY <1>4, <2>1 DEF SelfTalkPlaces
  <2>7. TypeOf[entry.event] = "self_talk" => Cardinality(S) < Limits.consecutive BY <2>1, ConsecutiveIs
  <2>8. Cardinality(T) <= Limits.consecutive
    <3>1. Limits.consecutive \in Nat BY AutonomyAssumption
    <3>2. T \subseteq S \/ (T \subseteq S \cup {n} /\ Cardinality(S) < Limits.consecutive)
      BY <2>5, <2>6, <2>7
    <3> QED BY <2>3, <2>4, <3>1, <3>2, AtMostOneMore
  <2> QED BY <2>1, <2>8, ConsecutiveIsNext
<1>9. ASSUME NEW day PROVE Cardinality(InitiativesOf(log', day)) <= Limits.initiativeDaily
  <2>1. PICK S, T : S = InitiativesOf(log, day) /\ T = InitiativesOf(log', day) OBVIOUS
  <2>2. S \subseteq DOMAIN log BY <2>1 DEF InitiativesOf
  <2>3. IsFiniteSet(S) BY <1>6, <2>2, FS_Subset
  <2>4. Cardinality(S) <= Limits.initiativeDaily BY <2>1 DEF LogInv
  <2>5. T \subseteq S \cup {n} BY <1>4, <1>5, <2>1 DEF InitiativesOf
  <2>6. n \in T => TypeOf[entry.event] = "outbound_initiative" /\ entry.at \div Limits.day = day
    BY <1>4, <2>1 DEF InitiativesOf
  <2>7. n \in T => Cardinality(S) < Limits.initiativeDaily BY <2>1, <2>6
  <2>8. T \subseteq S \/ (T \subseteq S \cup {n} /\ Cardinality(S) < Limits.initiativeDaily) BY <2>5, <2>7
  <2>9. Limits.initiativeDaily \in Nat BY AutonomyAssumption
  <2> QED BY <2>1, <2>3, <2>4, <2>8, <2>9, AtMostOneMore
<1>10. LogInv' BY <1>2, <1>7, <1>8, <1>9 DEF LogInv
<1> QED BY <1>4, <1>7, <1>10 DEF LogStep

-----------------------------------------------------------------------------
(* The landing of an autonomous event.                                     *)

LEMMA StepMoves ==
    ASSUME Inv, CommitsStep, EdgesStep, work' = work, talk' = talk,
           NEW k \in DOMAIN autos, NEW step, autos' = [autos EXCEPT ![k].step = step],
           step = "running" => Generation(autos[k].run)
    PROVE  AutosStep /\ RunsStep
<1>1. PICK run : run = [autos[k] EXCEPT !.step = step] OBVIOUS
<1>2. autos' = [autos EXCEPT ![k] = run] BY <1>1
<1>3. {"trigger", "run", "step", "claims"} \subseteq DOMAIN autos[k] BY DEF Inv, AutosInv, RunFits
<1>4. Moved(autos[k], run) BY <1>1, <1>3 DEF Moved
<1> QED BY <1>2, <1>4, RunMoves

\* What a running attempt is about is there, with what it has frozen of it.
LEMMA AutonomousInputs ==
    ASSUME Inv, NEW k \in DOMAIN autos, autos[k].step = "running", NEW x \in RunInputs(autos[k].run)
    PROVE  /\ ContentPresent(x) /\ ContentPresent(SourceOf(x))
           /\ \E i \in autos[k].claims : SourceOf(x) = Statement(i)
<1>1. autos[k].run \in RunningRuns BY DEF RunningRuns
<1>2. x \notin erased BY <1>1 DEF Inv, RunningInv, captureErasureRunning
<1>3. x \in Inputs(lineage, autos[k].run) BY RunInputsAre
<1>4. x[1] = "copy" /\ \E i \in autos[k].claims : SourceOf(x) = Statement(i) BY <1>3 DEF Inv, RunsInv, AutoRun
<1>5. x \in Children BY <1>3, InputsAreChildren
<1> QED BY <1>2, <1>4, <1>5, CopyHasSource

LEMMA AutonomousLanding ==
    ASSUME Inv, NEW k \in DOMAIN autos, NEW e \in Events, LandAutonomousEvent(k, e),
           talk' = talk, plan' = NoPlan
    PROVE  Sound
<1>1. PICK run : run = autos[k] OBVIOUS
<1>2. PICK entry : entry = makeEvent(e) OBVIOUS
<1>3. /\ TypeOf[e] = Purpose(run.trigger) /\ validateAutonomousDecision(run)
      /\ run.step = "running" /\ Committed
      /\ autos' = [autos EXCEPT ![k].step = "ended"]
      /\ log' = Append(log, entry)
      /\ lineage' = lineage \cup (RunInputs(run.run) \X {Text(e)})
      /\ claims' = claims /\ intents' = intents /\ erased' = erased /\ work' = work /\ now' = now
  BY <1>1, <1>2 DEF LandAutonomousEvent, others, Commit
<1>4. entry.event = e /\ entry.at = now BY <1>2 DEF makeEvent
<1>5. /\ validateAutonomousTrigger(run) /\ run.claims = AutonomousClaimContexts(run.trigger)
      /\ Decision(run.trigger)
  BY <1>3 DEF validateAutonomousDecision, matchAutonomousUsageClaims
<1>6. RunFits(claims, run) BY <1>1 DEF Inv, AutosInv
<1>7. ~foregroundDialoguePending
  BY <1>5 DEF Decision, DecideSelfTalk, DecideInitiative
<1>8. TypeOf[e] = "self_talk" => ConsecutiveSelfTalk < Limits.consecutive
  BY <1>3, <1>5 DEF Decision, DecideSelfTalk
<1>9. TypeOf[e] = "outbound_initiative" =>
          Cardinality(InitiativesOf(log, now \div Limits.day)) < Limits.initiativeDaily
  <2>1. TypeOf[e] = "outbound_initiative" => CountInWindow("outbound_initiative", Limits.day) < Limits.initiativeDaily
    BY <1>3, <1>5 DEF Decision, DecideInitiative
  <2>2. CountInWindow("outbound_initiative", Limits.day) = Cardinality(InitiativesOf(log, now \div Limits.day))
    BY DEF CountInWindow, InitiativesOf
  <2> QED BY <2>1, <2>2
<1>10. LogStep /\ e \in happened' /\ \A j \in DOMAIN log' \ DOMAIN log : log'[j] = entry
  BY <1>3, <1>4, <1>8, <1>9, LogGrows DEF Inv
<1>11. Grown /\ Kept BY <1>3, ClaimsStay DEF Inv
<1>12. EdgesStep
  <2>1. PICK products : products = {Text(e)} OBVIOUS
  <2>2. \A p \in products : Source(p)' BY <1>10, <2>1 DEF Source
  <2>3. \A x \in RunInputs(run.run) : ContentPresent(x) /\ ContentPresent(SourceOf(x))
    BY <1>1, <1>3, AutonomousInputs
  <2> QED BY <1>3, <2>1, <2>2, <2>3, ProductEdges
<1>13. CommitsStep BY <1>3, Stays
<1>14. Inv' /\ SupportStep /\ ParentsStep /\ ReviewStep
  <2>1. PICK step : step = "ended" OBVIOUS
  <2>2. autos' = [autos EXCEPT ![k].step = step] /\ step # "running" BY <1>3, <2>1
  <2>3. AutosStep /\ RunsStep BY <1>3, <1>12, <1>13, <2>2, StepMoves
  <2> QED BY <1>3, <1>10, <1>11, <1>12, <1>13, <2>3, Stays, InvStep
<1>15. SettlesStep BY <1>3 DEF SettlesStep
<1>16. SpeaksStep
  <2>1. ConsecutiveSelfTalk' <= Limits.consecutive BY <1>10 DEF LogStep, LogInv
  <2>2. CountInWindow("outbound_initiative", Limits.day)' <= Limits.initiativeDaily
    <3>1. CountInWindow("outbound_initiative", Limits.day)' = Cardinality(InitiativesOf(log', now' \div Limits.day))
      BY DEF CountInWindow, InitiativesOf
    <3> QED BY <1>10, <3>1 DEF LogStep, LogInv
  <2>3. ASSUME NEW edge \in lineage' \ lineage
        PROVE  LET c == claims[SourceOf(edge[1])[2]] IN KindOf[c.stmt] = "direct" => ActiveSettled(c)
    <3>1. PICK x \in RunInputs(run.run) : edge = <<x, Text(e)>> BY <1>3, <2>3
    <3>2. PICK i \in run.claims : SourceOf(x) = Statement(i) BY <1>1, <1>3, <3>1, AutonomousInputs
    <3>3. KindOf[claims[i].stmt] = "direct" => ActiveSettled(claims[i]) BY <1>5, <1>6, <3>2, ContextHolds
    <3>4. edge[1] = x /\ SourceOf(x)[2] = i BY <3>1, <3>2, Tags
    <3> QED BY <3>3, <3>4
  <2> QED BY <1>7, <2>1, <2>2, <2>3 DEF SpeaksStep
<1> QED BY <1>14, <1>15, <1>16 DEF Sound

LEMMA AutonomySound ==
    ASSUME Inv, AutonomyNext, talk' = talk, plan' = NoPlan
    PROVE  Sound
<1>1. CASE \E t \in ReevaluationTriggers \cup InitiativeTriggers : PrepareAutonomousGeneration(t)
  <2>1. PICK t \in ReevaluationTriggers \cup InitiativeTriggers : PrepareAutonomousGeneration(t) BY <1>1
  <2>2. t \in DependencyTriggers \/ t \in ConflictTriggers \/ t \in InitiativeTriggers
    BY <2>1 DEF ReevaluationTriggers
  <2>3. TriggerFits(claims, t) BY <2>2, DependencyFits, ConflictFits, InitiativeFits
  <2> QED BY <2>1, <2>3, AutonomousPrepared
<1>2. CASE \E e \in happened, n \in 1 .. Limits.consecutive + 1 :
               TypeOf[e] = "user_message" /\ PrepareAutonomousGeneration(Trigger("idle", e, 0, n))
  BY <1>2, IdleFits, AutonomousPrepared
<1>3. ASSUME NEW k \in DOMAIN autos,
             \/ StartAutonomousAttempt(k) \/ \E retryable \in BOOLEAN : recordAutonomousFailure(k, retryable)
             \/ recordAutonomousForegroundPreempted(k) \/ rejectAutonomousEnvelope(k)
             \/ cancelAutonomousResidentWork(k)
      PROVE  Sound
  <2>1. /\ claims' = claims /\ intents' = intents /\ log' = log /\ erased' = erased /\ lineage' = lineage
        /\ work' = work /\ Committed
    BY <1>3 DEF StartAutonomousAttempt, recordAutonomousFailure, recordAutonomousForegroundPreempted,
                rejectAutonomousEnvelope, cancelAutonomousResidentWork, others, events, Commit
  <2>2. EdgesStep /\ CommitsStep BY <2>1, Stays
  <2>3. {"trigger", "run", "step", "claims"} \subseteq DOMAIN autos[k] BY DEF Inv, AutosInv, RunFits
  <2>4. AutosStep /\ RunsStep
    <3>1. CASE StartAutonomousAttempt(k)
      <4>1. autos' = [autos EXCEPT ![k].step = "running"] /\ Generation(autos[k].run)
        BY <3>1 DEF StartAutonomousAttempt
      <4> QED BY <2>1, <2>2, <4>1, StepMoves
    <3>2. CASE rejectAutonomousEnvelope(k) \/ cancelAutonomousResidentWork(k)
      <4>1. autos' = [autos EXCEPT ![k].step = "ended"]
        BY <3>2 DEF rejectAutonomousEnvelope, cancelAutonomousResidentWork
      <4>2. PICK run : run = [autos[k] EXCEPT !.step = "ended"] OBVIOUS
      <4>3. autos' = [autos EXCEPT ![k] = run] BY <4>1, <4>2
      <4>4. Moved(autos[k], run) BY <2>3, <4>2 DEF Moved
      <4> QED BY <2>1, <2>2, <4>3, <4>4, RunMoves
    <3>3. CASE \E retryable \in BOOLEAN : recordAutonomousFailure(k, retryable)
      <4>1. PICK retryable \in BOOLEAN : recordAutonomousFailure(k, retryable) BY <3>3
      <4>2. PICK failures, step :
               failures = autos[k].failures + 1
                 /\ step = IF retryable /\ failures < MaxAttempts THEN "waiting" ELSE "ended"
        OBVIOUS
      <4>3. autos' = [autos EXCEPT ![k].failures = failures, ![k].step = step]
        BY <4>1, <4>2 DEF recordAutonomousFailure
      <4>4. PICK run : run = [autos[k] EXCEPT !.failures = failures, !.step = step] OBVIOUS
      <4>5. autos' = [autos EXCEPT ![k] = run] BY <4>3, <4>4
      <4>6. step # "running" BY <4>2
      <4>7. Moved(autos[k], run) BY <2>3, <4>4, <4>6 DEF Moved
      <4> QED BY <2>1, <2>2, <4>5, <4>7, RunMoves
    <3>4. CASE recordAutonomousForegroundPreempted(k)
      <4>1. autos' = [autos EXCEPT ![k].step = "waiting", ![k].preempted = TRUE]
        BY <3>4 DEF recordAutonomousForegroundPreempted
      <4>2. PICK run : run = [autos[k] EXCEPT !.step = "waiting", !.preempted = TRUE] OBVIOUS
      <4>3. autos' = [autos EXCEPT ![k] = run] BY <4>1, <4>2
      <4>4. Moved(autos[k], run) BY <2>3, <4>2 DEF Moved
      <4> QED BY <2>1, <2>2, <4>3, <4>4, RunMoves
    <3> QED BY <1>3, <3>1, <3>2, <3>3, <3>4
  <2> QED BY <2>1, <2>2, <2>4, Stays, ClaimsStayStep
<1>4. CASE \E k \in DOMAIN autos : \E e \in Events : LandAutonomousEvent(k, e) BY <1>4, AutonomousLanding
<1> QED BY <1>1, <1>2, <1>3, <1>4 DEF AutonomyNext

-----------------------------------------------------------------------------
(* The dialogue.                                                           *)

LEMMA AnswerLogged ==
    ASSUME Inv, NEW e \in Events, TypeOf[e] \in {"user_message", "resident_message"}, log' = Append(log, makeEvent(e))
    PROVE  /\ LogStep /\ Source(Text(e))'
           /\ \A j \in DOMAIN log' \ DOMAIN log : log'[j].event = e
<1>1. PICK entry : entry = makeEvent(e) OBVIOUS
<1>2. entry.event = e /\ log' = Append(log, entry) BY <1>1 DEF makeEvent
<1>3. LogStep /\ e \in happened' /\ \A j \in DOMAIN log' \ DOMAIN log : log'[j] = entry
  BY <1>2, LogGrows DEF Inv
<1> QED BY <1>2, <1>3 DEF Source

\* An event that is no word of the resident's own.
LEMMA AnsweringStep ==
    ASSUME Inv, NEW e \in Events, TypeOf[e] \in {"user_message", "resident_message"}, log' = Append(log, makeEvent(e)),
           claims' = claims, intents' = intents, erased' = erased, work' = work, autos' = autos, plan' = NoPlan,
           talk' = talk \/ talk' = NoTalk, Committed, EdgesStep
    PROVE  Sound
<1>1. LogStep /\ \A j \in DOMAIN log' \ DOMAIN log : log'[j].event = e BY AnswerLogged
<1>2. Grown /\ Kept BY ClaimsStay DEF Inv
<1>3. CommitsStep BY Stays
<1>4. RunsStep BY <1>3, RunsStay
<1>5. Inv' /\ SupportStep /\ ParentsStep /\ ReviewStep BY <1>1, <1>2, <1>3, <1>4, Stays, InvStep
<1>6. SettlesStep BY DEF SettlesStep
<1>7. SpeaksStep BY <1>1 DEF SpeaksStep
<1> QED BY <1>5, <1>6, <1>7 DEF Sound

LEMMA MessageAccepted ==
    ASSUME Inv, NEW e \in Events, AcceptMessage(e), plan' = NoPlan PROVE Sound
<1>1. /\ TypeOf[e] = "user_message" /\ log' = Append(log, makeEvent(e))
      /\ claims' = claims /\ intents' = intents /\ erased' = erased /\ work' = work /\ autos' = autos
      /\ lineage' = lineage /\ talk' = talk /\ Committed
  BY DEF AcceptMessage, rest, Commit
<1>2. EdgesStep BY <1>1, Stays
<1> QED BY <1>1, <1>2, AnsweringStep

\* The landing has looked at every input, and at the claim behind every wire.
LEMMA DialogueInputs ==
    ASSUME Inv, talk.step = "running", revalidateDialogueInputsAtLanding(talk), NEW x \in RunInputs(talk.run)
    PROVE  ContentPresent(x) /\ ContentPresent(SourceOf(x))
<1>1. x \notin erased BY DEF revalidateDialogueInputsAtLanding, Generation
<1>2. x \in Inputs(lineage, talk.run) BY RunInputsAre
<1>3. x \in Children /\ IsInput(x) BY <1>2, InputsAreChildren
<1>4. CASE x[1] = "copy" BY <1>1, <1>3, <1>4, CopyHasSource
<1>5. CASE \E i \in talk.prompt : SourceOf(x) = Statement(i)
  <2>1. PICK i \in talk.prompt : SourceOf(x) = Statement(i) BY <1>5
  <2>2. i \in Ids /\ claims[i].present
    BY <2>1 DEF revalidateDialogueInputsAtLanding, validateDialogueV3RecallInputAtLanding, loadEligibleClaimStatement
  <2>3. ContentPresent(SourceOf(x)) BY <2>1, <2>2, ClaimThere
  <2>4. ContentPresent(x) BY <1>1, <1>3 DEF ContentPresent, IsInput
  <2> QED BY <2>3, <2>4
<1> QED BY <1>2, <1>4, <1>5 DEF Inv, RunsInv, TalkRun

LEMMA DialogueLanding ==
    ASSUME Inv, NEW reply \in Events, LandDialogue(reply), plan' = NoPlan PROVE Sound
<1>1. PICK products : products = {Text(reply)} OBVIOUS
<1>2. /\ TypeOf[reply] = "resident_message" /\ log' = Append(log, makeEvent(reply))
      /\ lineage' = lineage \cup (RunInputs(talk.run) \X products) /\ talk' = NoTalk /\ Committed
      /\ claims' = claims /\ intents' = intents /\ erased' = erased /\ work' = work /\ autos' = autos
      /\ talk.step = "running" /\ revalidateDialogueInputsAtLanding(talk)
  BY <1>1 DEF LandDialogue, rest, Commit
<1>3. \A x \in RunInputs(talk.run) : ContentPresent(x) /\ ContentPresent(SourceOf(x)) BY <1>2, DialogueInputs
<1>4. \A p \in products : Source(p)' BY <1>1, <1>2, AnswerLogged
<1>5. EdgesStep BY <1>2, <1>3, <1>4, ProductEdges
<1> QED BY <1>2, <1>5, AnsweringStep

\* What the preparation has read again.
LEMMA PromptThere ==
    ASSUME talk.step = "assembled", validateNewPreparedDialogue(talk),
           RequireEnabled(policy) => validateSuccessfulDialogueRecall(talk)
    PROVE  talk.events \subseteq Present /\ \A i \in talk.prompt : i \in Ids /\ claims[i].present
<1>1. talk.events \subseteq Present BY DEF validateNewPreparedDialogue, validatePreparedDialogueInputs
<1>2. PICK again : again = assembleDialogue(talk.msg) OBVIOUS
<1>3. talk.selected = again.selected /\ talk.prompt \subseteq talk.selected
  BY <1>2 DEF validateNewPreparedDialogue, validatePreparedDialogueAssembly,
              validatePreparedDialogueRecallPlanWithDrops
<1>4. CASE RequireEnabled(policy)
  <2>1. revalidateRecallSelection(talk.selected) BY <1>4 DEF validateSuccessfulDialogueRecall
  <2> QED BY <1>1, <1>3, <2>1 DEF revalidateRecallSelection, loadEligibleClaimStatement
<1>5. CASE ~RequireEnabled(policy)
  <2>1. again.selected = {} BY <1>2, <1>5 DEF assembleDialogue
  <2> QED BY <1>1, <1>3, <2>1
<1> QED BY <1>4, <1>5

LEMMA TalkFields ==
    ASSUME Inv, talk.step \in {"assembled", "running", "waiting"}
    PROVE  talk # NoTalk /\ {"step", "run", "msg", "events", "prompt", "seen"} \subseteq DOMAIN talk
<1>1. NoTalk.step = "none" BY DEF NoTalk
<1>2. talk # NoTalk BY <1>1
<1> QED BY <1>2 DEF Inv, RunsInv

LEMMA DialoguePrepared ==
    ASSUME Inv, PrepareDialogue, plan' = NoPlan PROVE Sound
<1>1. PICK copied, rendered : copied = {Text(e) : e \in talk.events} /\ rendered = {Statement(i) : i \in talk.prompt}
  OBVIOUS
<1>2. /\ claims' = insertDialogueRecallUsages(claims, talk) /\ commits' = commits + 1
      /\ talk' = [talk EXCEPT !.step = "running", !.run = ThisRun, !.seen = <<>>]
      /\ talk.step = "assembled" /\ validateNewPreparedDialogue(talk)
      /\ RequireEnabled(policy) => validateSuccessfulDialogueRecall(talk)
      /\ intents' = intents /\ erased' = erased /\ work' = work /\ autos' = autos /\ log' = log
  BY DEF PrepareDialogue, rest, events, Commit, Committed
<1>3. lineage' = lineage \cup (Copies(ThisRun, copied) \cup {<<c, Wire(ThisRun, c)>> : c \in rendered})
  <2>1. lineage' = lineage \cup insertGenerationRunInputs(ThisRun, talk) BY DEF PrepareDialogue
  <2>2. {<<Statement(i), Wire(ThisRun, Statement(i))>> : i \in talk.prompt}
           = {<<c, Wire(ThisRun, c)>> : c \in rendered}
    BY <1>1
  <2> QED BY <1>1, <2>1, <2>2 DEF insertGenerationRunInputs
<1>4. Grown /\ Kept /\ NoneSettles
  <2>1. PICK cs : cs = UsedIn(claims, talk.selected, "selected") OBVIOUS
  <2>2. claims' = UsedIn(cs, talk.prompt, "prompt_included") BY <1>2, <2>1 DEF insertDialogueRecallUsages
  <2>3. \A i \in DOMAIN claims : ClaimRows(claims[i]) BY DEF Inv, ClaimsInv, ClaimFits, Ids
  <2>4. /\ DOMAIN cs = DOMAIN claims
        /\ \A i \in DOMAIN claims : ClaimRows(cs[i]) /\ Same(claims[i], cs[i]) /\ cs[i].stages = claims[i].stages
    BY <2>1, <2>3, UsedShape
  <2>5. /\ claims' = [i \in DOMAIN claims |-> claims'[i]]
        /\ \A i \in DOMAIN claims : ClaimRows(claims'[i]) /\ Same(cs[i], claims'[i]) /\ claims'[i].stages = cs[i].stages
    BY <2>2, <2>4, UsedShape
  <2>6. \A i \in DOMAIN claims :
            ClaimRows(claims'[i]) /\ Same(claims[i], claims'[i]) /\ claims'[i].stages = claims[i].stages
    BY <2>4, <2>5 DEF Same
  <2> QED BY <2>5, <2>6, SameRows DEF Ids, Inv
<1>5. CommitsStep /\ Numbered(commits', ThisRun) BY <1>2, FreshNumber
<1>6. /\ EdgesStep
      /\ \A x \in Inputs(lineage', ThisRun) : \/ x[1] = "copy" /\ SourceOf(x) \in copied
                                              \/ x[1] = "wire" /\ SourceOf(x) \in rendered
  <2>1. talk.events \subseteq Present /\ \A i \in talk.prompt : i \in Ids /\ claims[i].present BY <1>2, PromptThere
  <2>2. \A c \in copied : Source(c) /\ ContentPresent(c) BY <1>1, <2>1, EventThere
  <2>3. \A c \in rendered : Source(c) /\ ContentPresent(c) BY <1>1, <2>1, ClaimThere
  <2> QED BY <1>2, <1>3, <2>2, <2>3, FrozenEdges
<1>7. PICK t : t = talk' OBVIOUS
<1>8. /\ t.step = "running" /\ t.run = ThisRun /\ t.prompt = talk.prompt
      /\ {"step", "run", "msg", "events", "prompt", "seen"} \subseteq DOMAIN t
  <2>1. {"step", "run", "msg", "events", "prompt", "seen"} \subseteq DOMAIN talk BY <1>2, TalkFields
  <2> QED BY <1>2, <1>7, <2>1
<1>9. TalkRun(lineage', commits', t)
  <2>1. \A x \in Inputs(lineage', t.run) : x[1] = "copy" \/ \E i \in t.prompt : SourceOf(x) = Statement(i)
    BY <1>1, <1>6, <1>8
  <2> QED BY <1>5, <1>8, <2>1 DEF TalkRun
<1>10. RunsInv'
  <2>1. WorkRun(lineage', commits', work') /\ \A k \in DOMAIN autos' : AutoRun(lineage', commits', autos'[k])
    BY <1>2, <1>5, <1>6, RunsCarried DEF Inv, RunsInv
  <2> QED BY <1>7, <1>8, <1>9, <2>1 DEF RunsInv
<1>11. RunningStep BY <1>2, <1>7, <1>8 DEF RunningStep, RunningRuns
<1> QED BY <1>2, <1>4, <1>5, <1>6, <1>10, <1>11, Stays, SilentStep DEF RunsStep

\* A run that waits or runs, and starts only on inputs that are there.
LEMMA TalkMoves ==
    ASSUME Inv, CommitsStep, EdgesStep, work' = work, autos' = autos, talk.step \in {"running", "waiting"},
           NEW step \in {"running", "waiting"}, talk' = [talk EXCEPT !.step = step],
           step = "running" => Generation(talk.run)
    PROVE  RunsStep
<1>1. {"step", "run", "msg", "events", "prompt", "seen"} \subseteq DOMAIN talk BY TalkFields
<1>2. PICK t : t = talk' OBVIOUS
<1>3. /\ t.step = step /\ t.run = talk.run /\ t.prompt = talk.prompt
      /\ {"step", "run", "msg", "events", "prompt", "seen"} \subseteq DOMAIN t
  BY <1>1, <1>2
<1>4. TalkRun(lineage, commits, t) BY <1>3 DEF Inv, RunsInv, TalkRun
<1>5. Numbered(commits, t.run) BY <1>3, <1>4 DEF TalkRun
<1>6. TalkRun(lineage', commits', t) BY <1>4, RunsCarried
<1>7. WorkRun(lineage', commits', work') /\ \A k \in DOMAIN autos' : AutoRun(lineage', commits', autos'[k])
  BY RunsCarried DEF Inv, RunsInv
<1>8. RunsInv' BY <1>2, <1>3, <1>6, <1>7 DEF RunsInv
<1>9. RunningStep BY <1>2, <1>3, <1>5 DEF RunningStep, RunningRuns
<1> QED BY <1>8, <1>9 DEF RunsStep

LEMMA DialogueAssembled ==
    ASSUME Inv, NEW e, AssembleDialogue(e), plan' = NoPlan PROVE Sound
<1>1. /\ claims' = claims /\ intents' = intents /\ erased' = erased /\ work' = work /\ autos' = autos
      /\ log' = log /\ lineage' = lineage /\ commits' = commits /\ talk' = NewTalk(e)
  BY DEF AssembleDialogue, ledger
<1>2. PICK t : t = talk' OBVIOUS
<1>3. t.step = "assembled" /\ {"step", "run", "msg", "events", "prompt", "seen"} \subseteq DOMAIN t
  BY <1>1, <1>2 DEF NewTalk
<1>4. EdgesStep /\ CommitsStep BY <1>1, Stays
<1>5. TalkRun(lineage', commits', t) BY <1>3 DEF TalkRun
<1>6. WorkRun(lineage', commits', work') /\ \A k \in DOMAIN autos' : AutoRun(lineage', commits', autos'[k])
  BY <1>1, <1>4, RunsCarried DEF Inv, RunsInv
<1>7. RunsInv' BY <1>2, <1>3, <1>5, <1>6 DEF RunsInv
<1>8. RunningStep BY <1>1, <1>2, <1>3 DEF RunningStep, RunningRuns
<1> QED BY <1>1, <1>4, <1>7, <1>8, Stays, ClaimsStayStep DEF RunsStep

LEMMA DialogueSound ==
    ASSUME Inv, DialogueNext \/ Tick, plan' = NoPlan PROVE Sound
<1>1. CASE \E e \in Events : AcceptMessage(e) BY <1>1, MessageAccepted
<1>2. CASE \E e \in Events : LandDialogue(e) BY <1>2, DialogueLanding
<1>3. CASE PrepareDialogue BY <1>3, DialoguePrepared
<1>4. CASE \E e \in Events : AssembleDialogue(e) BY <1>4, DialogueAssembled
<1>5. CASE FailDialogueAttempt \/ StartAttempt
  <2>1. /\ claims' = claims /\ intents' = intents /\ erased' = erased /\ work' = work /\ autos' = autos
        /\ log' = log /\ lineage' = lineage /\ Committed /\ talk.step \in {"running", "waiting"}
    BY <1>5 DEF FailDialogueAttempt, StartAttempt, rest, events, Commit
  <2>2. PICK step \in {"running", "waiting"} :
           talk' = [talk EXCEPT !.step = step] /\ (step = "running" => Generation(talk.run))
    BY <1>5 DEF FailDialogueAttempt, StartAttempt
  <2>3. EdgesStep /\ CommitsStep BY <2>1, Stays
  <2>4. RunsStep BY <2>1, <2>2, <2>3, TalkMoves
  <2> QED BY <2>1, <2>3, <2>4, Stays, ClaimsStayStep
<1>6. CASE AbandonAssembly \/ EndDialogue \/ Tick
  <2>1. /\ claims' = claims /\ intents' = intents /\ erased' = erased /\ work' = work /\ autos' = autos
        /\ log' = log /\ lineage' = lineage
    BY <1>6 DEF AbandonAssembly, EndDialogue, Tick, rest, events, ledger
  <2>2. (talk' = talk \/ talk' = NoTalk) /\ (Committed \/ commits' = commits)
    BY <1>6 DEF AbandonAssembly, EndDialogue, Tick, ledger, Commit
  <2> QED BY <2>1, <2>2, Stays, LedgerStays
<1>7. CASE DiscoverMemoryExtractionWork BY <1>7, ExtractionPrepared DEF DiscoverMemoryExtractionWork
<1> QED BY <1>1, <1>2, <1>3, <1>4, <1>5, <1>6, <1>7 DEF DialogueNext

-----------------------------------------------------------------------------
(* Erasure.                                                                *)

LEMMA PlanBuilt ==
    ASSUME NEW scope, NEW roots
    PROVE  LET p == build(scope, roots) IN
             /\ {"scope", "targets", "quarantines", "blockers", "retained"} \subseteq DOMAIN p
             /\ \A i \in p.quarantines : Active(claims[i])
             /\ p.blockers = {} => ~runningIntersectsTargets(p.scope, p.targets)
<1>1. PICK p : p = build(scope, roots) OBVIOUS
<1>2. PICK stricken : p.quarantines = appendProvenanceQuarantine(stricken) BY <1>1 DEF build
<1>3. PICK all, targets, logical : p.blockers = Blockers(scope, all, targets, logical) /\ p.scope = scope
                                     /\ p.targets = targets
  BY <1>1 DEF build
<1>4. runningIntersectsTargets(scope, targets) => "running_attempt" \in p.blockers BY <1>3 DEF Blockers
<1>5. {"scope", "targets", "quarantines", "blockers", "retained"} \subseteq DOMAIN p BY <1>1 DEF build
<1> QED BY <1>1, <1>2, <1>3, <1>4, <1>5 DEF appendProvenanceQuarantine

\* Only the plan changes.
LEMMA Planned ==
    ASSUME Inv,
           \/ \E scope, roots : PlanErasure(scope, roots)
           \/ \E erase : Decide(erase)
           \/ AbandonPlan
    PROVE  Sound
<1>1. /\ claims' = claims /\ intents' = intents /\ erased' = erased /\ work' = work /\ autos' = autos
      /\ log' = log /\ lineage' = lineage /\ talk' = talk /\ commits' = commits
  BY DEF PlanErasure, Decide, AbandonPlan, ledger
<1>2. PlanInv'
  <2>1. SUFFICES ASSUME NEW p, plan' = p, p # NoPlan
                 PROVE  /\ \A i \in p.quarantines : Active(claims[i])
                        /\ p.blockers = {} => ~runningIntersectsTargets(p.scope, p.targets)
    BY <1>1 DEF PlanInv, runningIntersectsTargets, captureErasureRunning, RunningRuns, RunInputs
  <2>2. CASE \E scope, roots : PlanErasure(scope, roots)
    <3>1. PICK scope, roots : p = build(scope, roots) BY <2>1, <2>2 DEF PlanErasure
    <3> QED BY <3>1, PlanBuilt
  <2>3. CASE \E erase : Decide(erase)
    <3>1. PICK scope, roots, kept : p = [build(scope, roots) EXCEPT !.retained = kept] BY <2>1, <2>3 DEF Decide
    <3>2. PICK b : b = build(scope, roots) OBVIOUS
    <3>3. /\ {"scope", "targets", "quarantines", "blockers", "retained"} \subseteq DOMAIN b
          /\ \A i \in b.quarantines : Active(claims[i])
          /\ b.blockers = {} => ~runningIntersectsTargets(b.scope, b.targets)
      BY <3>2, PlanBuilt
    <3>4. p.quarantines = b.quarantines /\ p.blockers = b.blockers /\ p.scope = b.scope /\ p.targets = b.targets
      BY <3>1, <3>2, <3>3
    <3> QED BY <3>3, <3>4
  <2>4. CASE AbandonPlan BY <2>1, <2>4 DEF AbandonPlan
  <2> QED BY <2>2, <2>3, <2>4
<1> QED BY <1>1, <1>2, Stays, LedgerStays

LEMMA IntegrityRecorded ==
    ASSUME Inv, RecordIntegrityFindings PROVE Sound
<1>1. PICK quarantined :
         /\ quarantined \subseteq {j \in Ids : Active(claims[j])}
         /\ claims' = [i \in Ids |-> IF i \in quarantined THEN insertStatusTransition(claims[i], "quarantined")
                                     ELSE claims[i]]
  <2>1. PICK q : /\ q = AutomaticClaimStatusDecision(CaptureIntegrityCandidates)
                 /\ claims' = [i \in Ids |-> IF i \in q THEN insertStatusTransition(claims[i], "quarantined")
                                             ELSE claims[i]]
    BY DEF RecordIntegrityFindings
  <2>2. q \subseteq {j \in Ids : Active(claims[j])}
    BY <2>1 DEF AutomaticClaimStatusDecision, CaptureIntegrityCandidates
  <2> QED BY <2>1, <2>2
<1>2. /\ intents' = intents /\ erased' = erased /\ work' = work /\ autos' = autos /\ talk' = talk
      /\ log' = log /\ lineage' = lineage /\ plan = NoPlan /\ plan' = plan /\ Committed
  BY DEF RecordIntegrityFindings, requireErasureBaseHead, events
<1>3. ASSUME NEW i \in Ids
      PROVE  ClaimRows(claims'[i]) /\ Same(claims[i], claims'[i]) /\ claims'[i].stages = claims[i].stages
  <2>1. ClaimRows(claims[i]) BY <1>3 DEF Inv, ClaimsInv, ClaimFits
  <2>2. CASE i \in quarantined
    <3>1. allowedClaimStatusTransition(currentClaimStatus(claims[i]), "quarantined")
      BY <1>1, <2>2 DEF Active, allowedClaimStatusTransition
    <3>2. claims'[i] = insertStatusTransition(claims[i], "quarantined") BY <1>1, <1>3, <2>2
    <3> QED BY <2>1, <3>1, <3>2, StatusInserted
  <2>3. CASE i \notin quarantined
    <3>1. claims'[i] = claims[i] BY <1>1, <1>3, <2>3
    <3> QED BY <2>1, <3>1 DEF Same
  <2> QED BY <2>2, <2>3
<1>4. claims' = [i \in Ids |-> claims'[i]] BY <1>1
<1>5. Grown /\ Kept /\ NoneSettles BY <1>3, <1>4, SameRows DEF Inv
<1>6. EdgesStep /\ CommitsStep /\ RunsStep /\ AutosStep /\ WorkStep BY <1>2, RunsRest
<1> QED BY <1>2, <1>5, <1>6, Stays, SilentStep

LEMMA ErasedRows ==
    ASSUME ClaimsInv, NEW p, \A i \in p.quarantines : Active(claims[i]), claims' = Erased(claims, p)
    PROVE  /\ Grown /\ NoneSettles /\ DOMAIN claims' = Ids
           /\ \A i \in Ids : /\ claims'[i].stmt = claims[i].stmt /\ claims'[i].ev = claims[i].ev
                             /\ claims'[i].present = (IF i \in p.aliases THEN FALSE ELSE claims[i].present)
                             /\ i \in p.quarantines => ~Active(claims'[i])
<1> DEFINE held(i) == IF i \in p.quarantines THEN insertStatusTransition(claims[i], "quarantined") ELSE claims[i]
           row(i)  == IF i \in p.aliases THEN [held(i) EXCEPT !.present = FALSE] ELSE held(i)
<1>1. claims' = [i \in Ids |-> row(i)] BY DEF Erased, Ids
<1>2. ASSUME NEW i \in Ids
      PROVE  /\ ClaimRows(held(i)) /\ Same(claims[i], held(i)) /\ held(i).stages = claims[i].stages
             /\ i \in p.quarantines => ~Active(held(i))
  <2>1. ClaimRows(claims[i]) BY <1>2 DEF ClaimsInv, ClaimFits
  <2>2. CASE i \in p.quarantines
    <3>1. allowedClaimStatusTransition(currentClaimStatus(claims[i]), "quarantined")
      BY <2>2 DEF Active, allowedClaimStatusTransition
    <3>2. PICK d : d = insertStatusTransition(claims[i], "quarantined") OBVIOUS
    <3>3. ClaimRows(d) /\ Same(claims[i], d) /\ d.stages = claims[i].stages /\ currentClaimStatus(d) = "quarantined"
      BY <2>1, <3>1, <3>2, StatusInserted
    <3> QED BY <2>2, <3>2, <3>3 DEF Active
  <2>3. CASE i \notin p.quarantines BY <2>1, <2>3 DEF Same
  <2> QED BY <2>2, <2>3
<1> HIDE DEF held
<1>3. ASSUME NEW i \in Ids
      PROVE  /\ ClaimRows(row(i)) /\ row(i).stmt = claims[i].stmt /\ row(i).ev = claims[i].ev
             /\ row(i).dep = claims[i].dep /\ row(i).stages = claims[i].stages
             /\ row(i).present = (IF i \in p.aliases THEN FALSE ELSE claims[i].present)
             /\ i \in p.quarantines => ~Active(row(i))
  <2>1. PICK h : h = held(i) OBVIOUS
  <2>2. /\ ClaimRows(h) /\ Same(claims[i], h) /\ h.stages = claims[i].stages
        /\ i \in p.quarantines => ~Active(h)
    BY <1>2, <1>3, <2>1
  <2>3. CASE i \in p.aliases
    <3>1. PICK d : d = [h EXCEPT !.present = FALSE] OBVIOUS
    <3>2. /\ ClaimRows(d) /\ d.present = FALSE /\ d.stmt = h.stmt /\ d.ev = h.ev /\ d.dep = h.dep
          /\ d.stages = h.stages /\ d.statuses = h.statuses
      BY <2>2, <3>1, PresentField
    <3>3. row(i) = d BY <2>1, <2>3, <3>1
    <3>4. i \in p.quarantines => ~Active(d) BY <2>2, <3>2 DEF Active, currentClaimStatus
    <3> HIDE DEF row
    <3> QED BY <2>2, <2>3, <3>2, <3>3, <3>4 DEF Same
  <2>4. CASE i \notin p.aliases
    <3>1. row(i) = h BY <2>1, <2>4
    <3> HIDE DEF row
    <3> QED BY <2>2, <2>4, <3>1 DEF Same
  <2> QED BY <2>3, <2>4
<1> HIDE DEF row
<1>4. DOMAIN claims' = Ids /\ \A i \in Ids : claims'[i] = row(i) BY <1>1
<1>5. claims' = [i \in Ids |-> claims'[i]] BY <1>1
<1>6. IsSeq(claims')
  <2>1. Len(claims) \in Nat /\ Ids = 1 .. Len(claims) BY SeqParts DEF ClaimsInv, Ids
  <2>2. PICK ds : ds = claims' OBVIOUS
  <2>3. DOMAIN ds = 1 .. Len(claims) /\ ds = [i \in 1 .. Len(claims) |-> ds[i]] BY <1>4, <1>5, <2>1, <2>2
  <2>4. IsSeq(ds) BY <2>1, <2>3, SeqFrom
  <2> QED BY <2>2, <2>4
<1>7. \A i \in Ids : Follows(claims[i], claims'[i]) /\ claims'[i].dep = claims[i].dep /\ ClaimRows(claims'[i])
  <2>1. SUFFICES ASSUME NEW i \in Ids
                 PROVE  /\ Follows(claims[i], claims'[i]) /\ claims'[i].dep = claims[i].dep
                        /\ ClaimRows(claims'[i])
    OBVIOUS
  <2>2. PICK c, d : c = claims[i] /\ d = claims'[i] OBVIOUS
  <2>3. ClaimRows(d) /\ d.stmt = c.stmt /\ d.ev = c.ev /\ d.dep = c.dep BY <1>3, <1>4, <2>2
  <2>4. Follows(c, d) BY <2>3 DEF Follows
  <2> QED BY <2>2, <2>3, <2>4
<1>8. Grown BY <1>4, <1>6, <1>7, GrownFrom
<1>9. NoneSettles
  <2>1. SUFFICES ASSUME NEW i \in Ids PROVE StillUnsettled(claims[i], claims'[i]) BY DEF NoneSettles
  <2>2. PICK c, d : c = claims[i] /\ d = claims'[i] OBVIOUS
  <2>3. d.stages = c.stages BY <1>3, <1>4, <2>2
  <2>4. StillUnsettled(c, d) BY <2>3 DEF StillUnsettled, currentClaimStage
  <2> QED BY <2>2, <2>4
<1>10. ASSUME NEW i \in Ids
       PROVE  /\ claims'[i].stmt = claims[i].stmt /\ claims'[i].ev = claims[i].ev
              /\ claims'[i].present = (IF i \in p.aliases THEN FALSE ELSE claims[i].present)
              /\ i \in p.quarantines => ~Active(claims'[i])
  <2>1. claims'[i] = row(i) BY <1>4
  <2> QED BY <1>3, <2>1
<1> QED BY <1>4, <1>8, <1>9, <1>10

\* An apply takes the targets, and nothing else.
LEMMA ErasedContent ==
    ASSUME Inv, NEW p, p.aliases = StatementsOf(p.targets), erased' = erased \cup ErasedContents(p.targets),
           \A i \in Ids : claims'[i].present = (IF i \in p.aliases THEN FALSE ELSE claims[i].present),
           NEW c, Node(c)
    PROVE  ContentPresent(c)' <=> (ContentPresent(c) /\ c \notin p.targets)
<1>1. CASE c[1] = "claim"
  <2>1. PICK i \in Ids : c = Statement(i) BY <1>1, NodeTag
  <2>2. c[2] = i BY <2>1, Tags
  <2>3. ContentPresent(c)' = claims'[i].present /\ ContentPresent(c) = claims[i].present
    BY <1>1, <2>2 DEF ContentPresent
  <2>4. i \in p.aliases <=> c \in p.targets BY <2>1 DEF StatementsOf
  <2>5. claims[i].present \in BOOLEAN BY DEF Inv, ClaimsInv, ClaimFits, ClaimRows
  <2> QED BY <2>3, <2>4, <2>5
<1>2. CASE c[1] # "claim" BY <1>2 DEF ContentPresent, ErasedContents
<1> QED BY <1>1, <1>2

\* An apply quarantines every active claim that it leaves without support.
LEMMA SupportReviewed ==
    ASSUME NEW p, revalidateErasurePlan(p), erased' = erased \cup ErasedContents(p.targets),
           \A i \in Ids : /\ claims'[i].stmt = claims[i].stmt /\ claims'[i].ev = claims[i].ev
                          /\ i \in p.quarantines => ~Active(claims'[i])
    PROVE  SupportStep
<1>1. SUFFICES ASSUME NEW i \in Ids, Active(claims[i]), loadQualifyingSupportEvidence(claims[i], erased) # {},
                      Active(claims'[i])
               PROVE  loadQualifyingSupportEvidence(claims'[i], erased') # {}
  BY DEF SupportStep
<1>2. i \notin p.quarantines BY <1>1
<1>3. i \notin StatementsOf(p.targets)
  <2>1. i \in p.aliases => i \in p.quarantines
    BY <1>1 DEF revalidateErasurePlan, revalidateAliasGroups
  <2>2. p.aliases = StatementsOf(p.targets)
    BY DEF revalidateErasurePlan, revalidateDirectErasureImpacts, captureErasureAliases
  <2> QED BY <1>2, <2>1, <2>2
<1>4. loadQualifyingSupportEvidence(claims[i], erased \cup p.targets) # {}
  <2>1. CASE i \in captureTargetedLogicalReferences(p.targets)
    <3>1. \A j \in evaluateErasureLogicalProvenance(p.targets).breaks : Active(claims[j]) => j \in p.quarantines
      BY DEF revalidateErasurePlan, revalidateLogicalErasureEffects
    <3>2. i \notin evaluateErasureLogicalProvenance(p.targets).breaks BY <1>1, <1>2, <3>1
    <3>3. ~plannedSupportBreak(i, p.targets) BY <2>1, <3>2 DEF evaluateErasureLogicalProvenance
    <3> QED BY <1>1, <3>3 DEF plannedSupportBreak, replayQualifyingSupportCandidate
  <2>2. CASE i \notin captureTargetedLogicalReferences(p.targets)
    <3>1. \A row \in claims[i].ev : Text(row.event) \notin p.targets
      BY <1>1, <1>3, <2>2 DEF captureTargetedLogicalReferences
    <3> QED BY <1>1, <3>1 DEF loadQualifyingSupportEvidence
  <2> QED BY <2>1, <2>2
<1>5. PICK row \in claims[i].ev : Text(row.event) \notin erased \cup p.targets
         /\ qualifyingActorGate(KindOf[claims[i].stmt], buildEvidencePoint(KindOf[claims[i].stmt], row))
  BY <1>4 DEF loadQualifyingSupportEvidence
<1>6. row \in claims'[i].ev /\ claims'[i].stmt = claims[i].stmt /\ Text(row.event) \notin erased'
  BY <1>1, <1>5 DEF ErasedContents
<1>7. row \in loadQualifyingSupportEvidence(claims'[i], erased')
  BY <1>5, <1>6 DEF loadQualifyingSupportEvidence
<1> QED BY <1>7

\* What an apply has worked out again, of the plan it carries out.
LEMMA ErasureApplied ==
    ASSUME Inv, ApplyErasure PROVE Sound
<1>1. PICK p : p = plan OBVIOUS
<1>2. /\ revalidateErasurePlan(p) /\ plan # NoPlan /\ PlanState(p) = "ready" /\ commits' = commits + 1
      /\ claims' = Erased(claims, p) /\ erased' = erased \cup ErasedContents(p.targets)
      /\ intents' = intents /\ work' = work /\ autos' = autos /\ talk' = talk /\ log' = log /\ lineage' = lineage
      /\ plan' = NoPlan
  BY <1>1 DEF ApplyErasure, events, Committed
<1>3. \A i \in p.quarantines : Active(claims[i]) BY <1>1, <1>2 DEF Inv, PlanInv
<1>4. /\ Grown /\ NoneSettles /\ DOMAIN claims' = Ids
      /\ \A i \in Ids : /\ claims'[i].stmt = claims[i].stmt /\ claims'[i].ev = claims[i].ev
                        /\ claims'[i].present = (IF i \in p.aliases THEN FALSE ELSE claims[i].present)
                        /\ i \in p.quarantines => ~Active(claims'[i])
  BY <1>2, <1>3, ErasedRows DEF Inv
<1>5. p.aliases = StatementsOf(p.targets) /\ p.targets \subseteq captureErasureContents
  BY <1>2 DEF revalidateErasurePlan, revalidateDirectErasureImpacts, captureErasureAliases
<1>6. ASSUME NEW c, Node(c) PROVE ContentPresent(c)' <=> (ContentPresent(c) /\ c \notin p.targets)
  BY <1>2, <1>4, <1>5, <1>6, ErasedContent
<1>7. CopiesErased'
  <2>1. SUFFICES ASSUME NEW edge \in lineage, SameBytes(edge[1], edge[2])', ~ContentPresent(edge[1])'
                 PROVE  ~ContentPresent(edge[2])'
    BY <1>2 DEF CopiesErased
  <2>2. PICK c, d : c = edge[1] /\ d = edge[2] OBVIOUS
  <2>3. Node(c) /\ Node(d) BY <2>1, <2>2, EdgeNodes DEF Inv
  <2>4. SameBytes(c, d)
    <3>1. ContentBytes(c)' = ContentBytes(c) /\ ContentBytes(d)' = ContentBytes(d) BY <1>4, <2>3, BytesStay
    <3> QED BY <2>1, <2>2, <3>1 DEF SameBytes
  <2>5. CASE ~ContentPresent(c)
    <3>1. ~ContentPresent(d) BY <2>1, <2>2, <2>4, <2>5 DEF Inv, CopiesErased
    <3> QED BY <1>6, <2>2, <2>3, <3>1
  <2>6. CASE ContentPresent(c)
    <3>1. c \in p.targets BY <1>6, <2>1, <2>2, <2>3, <2>6
    <3>2. ContentPresent(d) /\ (makeLineageEdge(edge) => d \in p.targets)
      BY <1>2, <2>1, <2>2, <3>1 DEF revalidateErasurePlan, revalidateErasureLineage, captureErasureLineage
    <3>3. makeLineageEdge(edge) BY <2>2, <2>4, <2>6, <3>2 DEF makeLineageEdge
    <3> QED BY <1>6, <2>2, <2>3, <3>2, <3>3
  <2> QED BY <2>5, <2>6
<1>8. ReviewStep
  <2>1. SUFFICES ASSUME NEW gone \in captureErasureContents, ~ContentPresent(gone)',
                        NEW c \in captureErasureContents, ContentPresent(c)',
                        <<gone, c>> \in lineage \/ SameBytes(gone, c)
                 PROVE  <<c, "content_candidate">> \in p.impacts \cap p.retained
    BY <1>1 DEF ReviewStep
  <2>2. Node(gone) /\ Node(c) /\ ContentPresent(gone) BY ContentNodes DEF captureErasureContents, Inv
  <2>3. gone \in p.targets /\ c \notin p.targets BY <1>6, <2>1, <2>2
  <2>4. c \in ContentCandidates(p.targets)
    <3>1. CASE SameBytes(gone, c) BY <2>1, <2>3, <3>1 DEF ContentCandidates
    <3>2. CASE <<gone, c>> \in lineage
      <4>1. PICK e \in lineage : e = <<gone, c>> BY <3>2
      <4>2. e[1] \in p.targets /\ e[2] = c BY <2>3, <4>1
      <4> QED BY <2>1, <2>3, <4>1, <4>2 DEF ContentCandidates, captureErasureLineage
    <3> QED BY <2>1, <3>1, <3>2
  <2>5. /\ {impact \in p.impacts : impact[2] = "content_candidate"}
             = ContentCandidates(p.targets) \X {"content_candidate"}
        /\ p.impacts \subseteq p.retained
    BY <1>2 DEF revalidateErasurePlan, revalidateErasureLineage
  <2>6. <<c, "content_candidate">> \in ContentCandidates(p.targets) \X {"content_candidate"} BY <2>4
  <2> QED BY <2>5, <2>6
<1>9. RunningInv'
  <2>1. captureErasureRunning' = captureErasureRunning
    BY <1>2 DEF captureErasureRunning, RunningRuns, RunInputs
  <2>2. ~runningIntersectsTargets(p.scope, p.targets) BY <1>1, <1>2 DEF Inv, PlanInv, PlanState
  <2>3. captureErasureRunning \cap p.targets = {}
    <3>1. CASE p.scope = "resident" BY <2>2, <3>1 DEF runningIntersectsTargets, captureErasureRunning
    <3>2. CASE p.scope # "resident" BY <2>2, <3>2 DEF runningIntersectsTargets
    <3> QED BY <3>1, <3>2
  <2> QED BY <1>2, <2>1, <2>3 DEF Inv, RunningInv, ErasedContents
<1>10. ErasedInv'
  <2>1. commits \in Nat /\ commits' \in Nat /\ commits <= commits' BY <1>2 DEF Inv, ErasedInv
  <2>2. ASSUME NEW x \in p.targets, IsInput(x) PROVE Numbered(commits, x[2])
    <3>1. x \in Children
      <4>1. x \in Contents BY <1>5, <2>2 DEF captureErasureContents
      <4> QED BY <2>2, <4>1, Tags DEF Contents, Children, IsInput
    <3> QED BY <2>2, <3>1, InputFrozen DEF Inv
  <2>3. SUFFICES ASSUME NEW x \in erased', IsInput(x) PROVE Numbered(commits', x[2])
    BY <2>1 DEF ErasedInv, Numbered
  <2>4. Numbered(commits, x[2]) BY <1>2, <2>2, <2>3 DEF Inv, ErasedInv, ErasedContents, Numbered
  <2> QED BY <2>1, <2>4 DEF Numbered
<1>11. CommitsStep /\ EdgesStep BY <1>2, Stays DEF CommitsStep
<1>12. RunsInv' BY <1>2, <1>11, RunsStay DEF RunsStep
<1>13. SupportStep BY <1>2, <1>4, SupportReviewed
<1>14. ClaimsInv' BY <1>4 DEF Grown, ClaimsInv, Ids
<1>15. LogStep BY <1>2 DEF Inv, LogInv, LogStep, happened, ConsecutiveSelfTalk
<1>16. IntentsInv' /\ WorkInv' /\ AutosInv'
  BY <1>2, <1>4, Carried DEF Inv, IntentsInv, WorkInv, AutosInv
<1>17. LineageInv' BY <1>4, <1>11, <1>15, LineageGrows
<1>18. PlanInv' BY <1>2 DEF PlanInv
<1>19. ParentsStep BY <1>2 DEF ParentsStep
<1>20. SettlesStep BY <1>4 DEF SettlesStep, NoneSettles, StillUnsettled
<1>21. SpeaksStep BY <1>2 DEF SpeaksStep
<1>22. Inv' BY <1>7, <1>9, <1>10, <1>12, <1>14, <1>15, <1>16, <1>17, <1>18 DEF Inv, LogStep
<1> QED BY <1>8, <1>13, <1>19, <1>20, <1>21, <1>22 DEF Sound

LEMMA ErasureSound ==
    ASSUME Inv, ErasureNext PROVE Sound
<1>1. CASE \/ \E scope, roots : PlanErasure(scope, roots)
           \/ \E erase : Decide(erase)
           \/ AbandonPlan
  BY <1>1, Planned
<1>2. CASE ApplyErasure BY <1>2, ErasureApplied
<1>3. CASE RecordIntegrityFindings BY <1>3, IntegrityRecorded
<1>4. CASE ArchiveResident \/ \E e \in happened : TerminalizeDialogue(e)
  <2>1. /\ claims' = claims /\ intents' = intents /\ erased' = erased /\ work' = work /\ autos' = autos
        /\ log' = log /\ lineage' = lineage /\ plan = NoPlan /\ plan' = plan /\ Committed
        /\ talk' = talk \/ talk' = NoTalk
    BY <1>4 DEF ArchiveResident, TerminalizeDialogue, requireErasureBaseHead, events, Commit
  <2> QED BY <2>1, Stays, LedgerStays
<1>5. CASE \E e \in happened : TerminalizeExtraction(e)
  <2>1. /\ claims' = claims /\ intents' = intents /\ erased' = erased /\ autos' = autos
        /\ log' = log /\ lineage' = lineage /\ plan = NoPlan /\ plan' = plan
        /\ work' = work \/ work' = NoWork
        /\ talk' = talk /\ Committed
    BY <1>5 DEF TerminalizeExtraction, requireErasureBaseHead, events
  <2> QED BY <2>1, Stays, LedgerStays
<1> QED BY <1>1, <1>2, <1>3, <1>4, <1>5 DEF ErasureNext

-----------------------------------------------------------------------------
(* The first state, and every step.                                        *)

\* The edges of a history: the extractions that have landed, and the inputs of
\* the runs that it has left.
LEMMA SeedEdges ==
    ASSUME NEW seed \in Seeds, LedgerInit(seed), AutonomyInit(seed), DialogueInit(seed), NEW edge \in lineage
    PROVE  \/ \E k \in DOMAIN seed.steps :
                  LET source == Text(seed.steps[k].event)
                  IN  \/ edge = <<source, Copy(-k, source)>>
                      \/ \E i \in Ids : edge = <<Copy(-k, source), Statement(i)>>
           \/ \E k \in DOMAIN autos : \E i \in autos[k].claims :
                  edge = <<Statement(i), Copy(autos[k].run, Statement(i))>>
           \/ talk # NoTalk /\ \/ \E e \in talk.events : edge = <<Text(e), Copy(0, Text(e))>>
                               \/ \E i \in talk.prompt : edge = <<Statement(i), Wire(0, Statement(i))>>
<1>1. /\ claims = SeedLedger(seed.policy, seed) /\ autos = seed.autos /\ talk = seed.talk
      /\ lineage = SeedLineage(seed) \cup (IF talk = NoTalk THEN {} ELSE insertGenerationRunInputs(talk.run, talk))
  BY DEF LedgerInit, AutonomyInit, DialogueInit
<1>2. /\ \A k \in DOMAIN seed.steps : DOMAIN SeedSteps(seed.policy, SubSeq(seed.steps, 1, k)) \subseteq Ids
      /\ talk # NoTalk => talk.run = 0
  BY <1>1, SeedsAssumption DEF SeedFits, RunsLeft, Ids
<1>3. CASE edge \in SeedLineage(seed)
  <2>1. CASE \E k \in DOMAIN seed.autos : edge \in LeftEdges(seed, k)
    BY <1>1, <2>1 DEF Copies, LeftEdges
  <2>2. CASE \E k \in DOMAIN seed.steps : edge \in StepEdges(seed, k)
    <3>1. PICK k \in DOMAIN seed.steps : edge \in StepEdges(seed, k) BY <2>2
    <3>2. PICK source : source = Text(seed.steps[k].event) OBVIOUS
    <3>3. edge \in Copies(-k, {source})
            \/ \E i \in DOMAIN SeedSteps(seed.policy, SubSeq(seed.steps, 1, k)) :
                   edge = <<Copy(-k, source), Statement(i)>>
      BY <3>1, <3>2 DEF StepEdges
    <3>4. edge = <<source, Copy(-k, source)>> \/ \E i \in Ids : edge = <<Copy(-k, source), Statement(i)>>
      BY <1>2, <3>3 DEF Copies
    <3> QED BY <3>2, <3>4
  <2> QED BY <1>3, <2>1, <2>2 DEF SeedLineage
<1>4. CASE talk # NoTalk /\ edge \in insertGenerationRunInputs(talk.run, talk)
  BY <1>2, <1>4 DEF insertGenerationRunInputs, Copies
<1> QED BY <1>1, <1>3, <1>4

LEMMA InitInv == ASSUME Init PROVE Inv
<1>1. PICK seed \in Seeds : LedgerInit(seed) /\ AutonomyInit(seed) /\ DialogueInit(seed) BY DEF Init
<1>2. PICK told : told = seed.log OBVIOUS
<1>3. /\ claims = SeedLedger(seed.policy, seed)
      /\ log = [k \in DOMAIN told |-> [event |-> told[k], at |-> 0, policy |-> seed.policy]]
      /\ intents = seed.intents /\ autos = seed.autos /\ talk = seed.talk /\ commits = seed.commits
      /\ erased = {} /\ work = NoWork /\ plan = NoPlan
  BY <1>1, <1>2 DEF Init, LedgerInit, AutonomyInit, DialogueInit
<1>4. SeedFits(seed) BY <1>1, SeedsAssumption
<1>5. /\ IsSeq(claims) /\ \A i \in Ids : ClaimFits(claims, claims[i]) /\ claims[i].present
      /\ told \in Seq(Events)
      /\ IsSeq(seed.steps) /\ commits \in Nat
      /\ \A k \in DOMAIN seed.steps : seed.steps[k].event \in Range(told)
      /\ \A p \in intents : IntentFits(claims, p)
      /\ RunsLeft(claims, seed)
      /\ SelfTalkSince(told) <= Limits.consecutive
      /\ Cardinality({k \in DOMAIN told : TypeOf[told[k]] = "outbound_initiative"}) <= Limits.initiativeDaily
  BY <1>2, <1>3, <1>4 DEF SeedFits, Ids
<1>6. ClaimsInv BY <1>5 DEF ClaimsInv
<1>7. DOMAIN told = 1 .. Len(told) /\ Len(told) \in Nat /\ \A k \in DOMAIN told : told[k] \in Events BY <1>5
<1>8. DOMAIN log = DOMAIN told /\ \A k \in DOMAIN told : log[k].event = told[k] BY <1>3
<1>9. happened = Range(told) BY <1>8 DEF happened, Range
<1>10. LogInv
  <2>1. IsSeq(log)
    <3>1. DOMAIN log = 1 .. Len(told) /\ log = [k \in 1 .. Len(told) |-> log[k]] BY <1>3, <1>7
    <3> QED BY <1>7, <3>1, SeqFrom
  <2>2. happened \subseteq Events BY <1>7, <1>9 DEF Range
  <2>3. ConsecutiveSelfTalk <= Limits.consecutive
    <3>1. told = [k \in DOMAIN log |-> log[k].event]
      <4>1. told = [k \in DOMAIN told |-> told[k]] BY <1>5
      <4> QED BY <1>8, <4>1
    <3> QED BY <1>5, <3>1 DEF ConsecutiveSelfTalk
  <2>4. ASSUME NEW day PROVE Cardinality(InitiativesOf(log, day)) <= Limits.initiativeDaily
    <3>1. PICK S : S = {k \in DOMAIN told : TypeOf[told[k]] = "outbound_initiative"} OBVIOUS
    <3>2. InitiativesOf(log, day) \subseteq S BY <1>8, <3>1 DEF InitiativesOf
    <3>3. IsFiniteSet(S)
      <4>1. 1 \in Int /\ Len(told) \in Int BY <1>7
      <4>2. IsFiniteSet(DOMAIN told) BY <1>7, <4>1, FS_Interval
      <4> QED BY <3>1, <4>2, FS_Subset
    <3>4. Cardinality(S) <= Limits.initiativeDaily /\ Limits.initiativeDaily \in Nat
      BY <1>5, <3>1, AutonomyAssumption
    <3> QED BY <3>2, <3>3, <3>4, AtMostOneMore
  <2> QED BY <2>1, <2>2, <2>3, <2>4 DEF LogInv
<1>11. /\ IsSeq(autos)
       /\ \A k \in DOMAIN autos : /\ RunFits(claims, autos[k]) /\ autos[k].claims \subseteq Ids
                                  /\ autos[k].step # "running" /\ autos[k].run \in 1 .. commits
                                  /\ \A j \in DOMAIN autos : autos[j].run = autos[k].run => j = k
       /\ talk # NoTalk => /\ {"step", "run", "msg", "events", "prompt", "seen"} \subseteq DOMAIN talk
                           /\ talk.step = "waiting" /\ talk.run = 0
                           /\ talk.events \subseteq happened /\ talk.prompt \subseteq Ids
  BY <1>2, <1>3, <1>5, <1>9 DEF RunsLeft, Ids
<1>12. IntentsInv /\ AutosInv BY <1>5, <1>11 DEF IntentsInv, AutosInv
<1>13. WorkInv
  <2>1. work.kind = "none" BY <1>3 DEF NoWork
  <2> QED BY <2>1 DEF WorkInv, WorkFits
<1>14. \A k \in DOMAIN seed.steps : k \in Nat /\ k >= 1 /\ -k \in Int /\ -k < 0 /\ -k <= commits
  BY <1>5, SeqParts
<1>15. \A k \in DOMAIN seed.steps : Source(Text(seed.steps[k].event)) BY <1>5, <1>9 DEF Source
<1>16. \A i \in Ids : Source(Statement(i)) BY DEF Source
<1>17. \A c, run : Numbered(commits, run) /\ Source(c) => Frozen(<<c, Copy(run, c)>>) /\ Frozen(<<c, Wire(run, c)>>)
  BY Tags DEF Frozen, Input, Numbered
<1>18. ASSUME NEW edge \in lineage PROVE Frozen(edge) \/ Produced(edge)
  <2>1. CASE \E k \in DOMAIN seed.steps :
                 edge = <<Text(seed.steps[k].event), Copy(-k, Text(seed.steps[k].event))>>
    BY <1>14, <1>15, <1>17, <2>1 DEF Numbered
  <2>2. CASE \E k \in DOMAIN seed.steps, i \in Ids :
                 edge = <<Copy(-k, Text(seed.steps[k].event)), Statement(i)>>
    <3>1. PICK k \in DOMAIN seed.steps, i \in Ids :
             edge = <<Copy(-k, Text(seed.steps[k].event)), Statement(i)>>
      BY <2>2
    <3>2. PICK source : source = Text(seed.steps[k].event) OBVIOUS
    <3>3. <<source, Copy(-k, source)>> \in lineage
      <4>1. <<source, Copy(-k, source)>> \in StepEdges(seed, k) BY <3>2 DEF StepEdges, Copies
      <4> QED BY <1>1, <4>1 DEF DialogueInit, SeedLineage
    <3>4. edge[1] = Copy(-k, source) /\ edge[2] = Statement(i) /\ edge = <<edge[1], edge[2]>> BY <3>1, <3>2
    <3>5. edge[1] \in Children BY <3>3, <3>4 DEF Children
    <3> QED BY <1>16, <3>4, <3>5, Tags DEF Produced, IsInput
  <2>3. CASE \E k \in DOMAIN autos : \E i \in autos[k].claims :
                 edge = <<Statement(i), Copy(autos[k].run, Statement(i))>>
    <3>1. PICK k \in DOMAIN autos : \E i \in autos[k].claims :
             edge = <<Statement(i), Copy(autos[k].run, Statement(i))>>
      BY <2>3
    <3>2. PICK i \in autos[k].claims : edge = <<Statement(i), Copy(autos[k].run, Statement(i))>> BY <3>1
    <3>3. Numbered(commits, autos[k].run) BY <1>5, <1>11 DEF Numbered
    <3>4. Source(Statement(i)) BY <1>11, <1>16
    <3> QED BY <1>17, <3>2, <3>3, <3>4
  <2>4. CASE talk # NoTalk /\ \/ \E e \in talk.events : edge = <<Text(e), Copy(0, Text(e))>>
                              \/ \E i \in talk.prompt : edge = <<Statement(i), Wire(0, Statement(i))>>
    <3>1. Numbered(commits, 0) BY <1>5 DEF Numbered
    <3>2. \A e \in happened : Source(Text(e)) BY DEF Source
    <3> QED BY <1>11, <1>16, <1>17, <2>4, <3>1, <3>2
  <2> QED BY <1>1, <2>1, <2>2, <2>3, <2>4, SeedEdges
<1>19. LineageInv BY <1>18 DEF LineageInv
<1>20. ErasedInv BY <1>3, <1>5 DEF ErasedInv
<1>21. ASSUME NEW edge \in lineage, IsInput(edge[2])
       PROVE  \/ edge[2][2] < 0
              \/ \E k \in DOMAIN autos : \E i \in autos[k].claims :
                     edge[2] = Copy(autos[k].run, Statement(i)) /\ edge[2][2] = autos[k].run
              \/ talk # NoTalk /\ edge[2][2] = 0
                   /\ (edge[2][1] = "copy" \/ \E i \in talk.prompt : SourceOf(edge[2]) = Statement(i))
  <2>1. \A i : ~IsInput(Statement(i)) BY Tags DEF IsInput
  <2>2. CASE \E k \in DOMAIN seed.steps :
                 edge = <<Text(seed.steps[k].event), Copy(-k, Text(seed.steps[k].event))>>
    <3>1. PICK k \in DOMAIN seed.steps : edge[2] = Copy(-k, Text(seed.steps[k].event)) BY <2>2
    <3>2. edge[2][2] = -k BY <3>1, Tags
    <3> QED BY <1>14, <3>2
  <2>3. CASE \E k \in DOMAIN seed.steps, i \in Ids :
                 edge = <<Copy(-k, Text(seed.steps[k].event)), Statement(i)>>
    <3>1. PICK i \in Ids : edge[2] = Statement(i) BY <2>3
    <3> QED BY <1>21, <2>1, <3>1
  <2>4. CASE \E k \in DOMAIN autos : \E i \in autos[k].claims :
                 edge = <<Statement(i), Copy(autos[k].run, Statement(i))>>
    BY <2>4, Tags
  <2>5. CASE talk # NoTalk /\ \/ \E e \in talk.events : edge = <<Text(e), Copy(0, Text(e))>>
                              \/ \E i \in talk.prompt : edge = <<Statement(i), Wire(0, Statement(i))>>
    BY <2>5, Tags
  <2> QED BY <1>1, <2>2, <2>3, <2>4, <2>5, SeedEdges
<1>22. RunsInv
  <2>1. WorkRun(lineage, commits, work) BY <1>3 DEF WorkRun
  <2>2. TalkRun(lineage, commits, talk)
    <3>1. CASE talk = NoTalk
      <4>1. talk.step = "none" BY <3>1 DEF NoTalk
      <4> QED BY <4>1 DEF TalkRun
    <3>2. CASE talk # NoTalk
      <4>1. talk.run = 0 /\ Numbered(commits, 0) BY <1>5, <1>11, <3>2 DEF Numbered
      <4>2. ASSUME NEW x \in Inputs(lineage, 0)
            PROVE  x[1] = "copy" \/ \E i \in talk.prompt : SourceOf(x) = Statement(i)
        <5>1. PICK edge \in lineage : IsInput(edge[2]) /\ edge[2][2] = 0 /\ x = edge[2] BY <4>2 DEF Inputs
        <5>2. \A k \in DOMAIN autos : autos[k].run # 0 BY <1>5, <1>11
        <5> QED BY <1>21, <5>1, <5>2
      <4> QED BY <4>1, <4>2 DEF TalkRun
    <3> QED BY <3>1, <3>2
  <2>3. ASSUME NEW k \in DOMAIN autos PROVE AutoRun(lineage, commits, autos[k])
    <3>1. Numbered(commits, autos[k].run) /\ autos[k].run > 0 BY <1>5, <1>11 DEF Numbered
    <3>2. ASSUME NEW x \in Inputs(lineage, autos[k].run)
          PROVE  x[1] = "copy" /\ \E i \in autos[k].claims : SourceOf(x) = Statement(i)
      <4>1. PICK edge \in lineage : IsInput(edge[2]) /\ edge[2][2] = autos[k].run /\ x = edge[2]
        BY <3>2 DEF Inputs
      <4>2. ~(edge[2][2] < 0) /\ edge[2][2] # 0 BY <3>1, <4>1 DEF Numbered
      <4>3. PICK j \in DOMAIN autos : \E i \in autos[j].claims :
               edge[2] = Copy(autos[j].run, Statement(i)) /\ edge[2][2] = autos[j].run
        BY <1>21, <4>1, <4>2
      <4>4. j = k BY <1>11, <4>1, <4>3
      <4> QED BY <4>1, <4>3, <4>4, Tags
    <3> QED BY <3>1, <3>2 DEF AutoRun
  <2> QED BY <1>11, <2>1, <2>2, <2>3 DEF RunsInv
<1>23. RunningInv BY <1>3 DEF RunningInv
<1>24. PlanInv BY <1>3 DEF PlanInv
<1>25. CopiesErased
  <2>1. ASSUME NEW edge \in lineage PROVE ContentPresent(edge[1])
    <3>1. CASE edge[1][1] = "claim"
      <4>1. Node(edge[1]) BY <1>19, EdgeNodes
      <4>2. PICK i \in Ids : edge[1] = Statement(i) BY <3>1, <4>1, NodeTag
      <4> QED BY <1>5, <3>1, <4>2, Tags DEF ContentPresent
    <3>2. CASE edge[1][1] # "claim" BY <1>3, <3>2 DEF ContentPresent
    <3> QED BY <3>1, <3>2
  <2> QED BY <2>1 DEF CopiesErased
<1> QED BY <1>6, <1>10, <1>12, <1>13, <1>19, <1>20, <1>22, <1>23, <1>24, <1>25 DEF Inv

LEMMA NextSound == ASSUME Inv, [Next]_vars PROVE Sound
<1>1. CASE Next
  <2>1. CASE ErasureNext BY <2>1, ErasureSound
  <2>2. CASE ~ErasureNext
    <3>1. plan' = NoPlan BY <1>1, <2>2 DEF Next, requireErasureBaseHead
    <3>2. CASE WorkNext /\ UNCHANGED <<autos, talk>> BY <3>1, <3>2, WorkSound
    <3>3. CASE OwnerNext /\ UNCHANGED <<autos, talk>> BY <3>1, <3>3, OwnerSound
    <3>4. CASE AutonomyNext /\ UNCHANGED talk BY <3>1, <3>4, AutonomySound
    <3>5. CASE DialogueNext \/ Tick BY <3>1, <3>5, DialogueSound
    <3> QED BY <1>1, <2>2, <3>2, <3>3, <3>4, <3>5 DEF Next
  <2> QED BY <2>1, <2>2
<1>2. CASE UNCHANGED vars
  <2>1. /\ claims' = claims /\ intents' = intents /\ erased' = erased /\ work' = work /\ autos' = autos
        /\ log' = log /\ lineage' = lineage /\ plan' = plan /\ talk' = talk /\ commits' = commits
    BY <1>2 DEF vars, ledger
  <2>2. PlanInv'
    <3>1. RunningRuns' = RunningRuns BY <2>1 DEF RunningRuns
    <3>2. captureErasureRunning' = captureErasureRunning BY <2>1, <3>1 DEF captureErasureRunning, RunInputs
    <3> QED BY <2>1, <3>1, <3>2 DEF Inv, PlanInv, runningIntersectsTargets
  <2> QED BY <2>1, <2>2, Stays, LedgerStays
<1> QED BY <1>1, <1>2

\* The invariant holds in every state and the five action properties of every
\* step.
THEOREM LedgerInvariant ==
    Spec => []Inv /\ [][SupportStep /\ ParentsStep /\ ReviewStep /\ SettlesStep /\ SpeaksStep]_vars
<1>1. Init => Inv BY InitInv
<1>2. Inv /\ [Next]_vars => Inv' BY NextSound DEF Sound
<1>3. Inv /\ [Next]_vars => [SupportStep /\ ParentsStep /\ ReviewStep /\ SettlesStep /\ SpeaksStep]_vars
  BY NextSound DEF Sound
<1> QED BY <1>1, <1>2, <1>3, PTL DEF Spec

\* The rows of every claim can be folded, whatever runs land, whatever the
\* owner decides and whenever an erasure or an integrity scan comes between
\* (claim_replay.go stops at a row that does not continue).
THEOREM ReplayAlwaysSound == Spec => []ReplaySound
<1>1. Inv => ReplaySound BY DEF Inv, ClaimsInv, ClaimFits, ClaimRows, ReplaySound
<1> QED BY <1>1, LedgerInvariant, PTL

\* No copy survives what it was copied from, over both hops of any lineage and
\* for any texts: where an edge joins equal bytes, a frozen input goes with its
\* source and a product with the input that it repeats (erasure/planner.go,
\* closure; erasure_mutations.go, revalidateErasureLineage).
THEOREM CopiesAlwaysErased == Spec => []CopiesErased
<1>1. Inv => CopiesErased BY DEF Inv
<1> QED BY <1>1, LedgerInvariant, PTL

\* What an erasure leaves although it was made from an erased content, or has
\* its bytes, was shown to the owner and retained: the wires of a recalled
\* claim, the replies made from them, and equal texts without lineage
\* (erasure/planner.go, candidates; erasure_mutations.go).
THEOREM ErasureAlwaysReviewed == Spec => ErasureReviewed
  BY LedgerInvariant, PTL DEF ErasureReviewed, ReviewStep

\* No commit leaves an active claim that had support without any
\* (erasure_logical.go, plannedSupportBreak).
THEOREM SupportAlwaysKept == Spec => SupportKept
  BY LedgerInvariant, PTL DEF SupportKept, SupportStep

\* Every product of a run comes from inputs that are present at its landing,
\* and so are the contents they were frozen from (dialogue_mutations.go,
\* revalidateDialogueInputsAtLanding, and the landings of extractions,
\* derivations and autonomous events).
THEOREM ParentsAlwaysPresent == Spec => ParentsPresent
  BY LedgerInvariant, PTL DEF ParentsPresent, ParentsStep

\* A direct claim settles only while it is active, on a meta claim that is
\* active and present: the maturation loop never settles one, and
\* LandMemoryAlignment supersedes neither of the two
\* (memory_alignment_mutations.go).
THEOREM SettlesAlwaysGrounded == Spec => SettlesGrounded
  BY LedgerInvariant, PTL DEF SettlesGrounded, SettlesStep

\* The resident speaks unasked only while no message waits, within its limits
\* and, of the direct claims, about those that are active and settled
\* (autonomy_generation_mutations.go, LandAutonomousEvent).
THEOREM SpeaksAlwaysInTurn == Spec => SpeaksInTurn
  BY LedgerInvariant, PTL DEF SpeaksInTurn, SpeaksStep

=============================================================================
