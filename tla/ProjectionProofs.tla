-------------------------- MODULE ProjectionProofs --------------------------
(***************************************************************************)
(* The write gate for any callers; then watermarks, the cohort and the     *)
(* gate in use, for any projections, policies and clocks, any number of    *)
(* commits, passes, failures and crashes.                                  *)
(***************************************************************************)
EXTENDS Projection, FiniteSetTheorems, SequenceTheorems, TLAPS

\* The inductive invariant: types, and the three facts of GateSound.
GateInv == GateTypeOK /\ GateSound

\* Waking the sleepers moves nobody in or out, and leaves the set of waiting
\* high callers as it was.
LEMMA SignalKeeps ==
    ASSUME NEW place \in [Caller -> Places]
    PROVE  /\ signalLocked(place) \in [Caller -> Places]
           /\ \A p \in Caller : signalLocked(place)[p] = "in" <=> place[p] = "in"
           /\ \A p \in Caller : signalLocked(place)[p] \in {"waiting", "woken"}
                                  <=> place[p] \in {"waiting", "woken"}
BY DEF signalLocked, Places

\* The set of waiting high callers is finite.
LEMMA WaitingFinite == IsFiniteSet(Waiting)
<1>1. Waiting \subseteq High
  BY DEF Waiting
<1> QED
  BY <1>1, HighFinite, FS_Subset

LEMMA WaitingFiniteNext == IsFiniteSet(Waiting')
<1>1. Waiting' \subseteq High
  BY DEF Waiting
<1> QED
  BY <1>1, HighFinite, FS_Subset

\* A step of p that leaves the other callers' waiting as it is changes the
\* count by p alone.
LEMMA CountStep ==
    ASSUME GateInv, NEW p \in Caller,
           \A q \in Caller \ {p} :
              at'[q] \in {"waiting", "woken"} <=> at[q] \in {"waiting", "woken"}
    PROVE  /\ (at[p] \in {"waiting", "woken"} <=> at'[p] \in {"waiting", "woken"}) \/ p \notin High
                => Cardinality(Waiting') = highWaiting
           /\ at[p] \notin {"waiting", "woken"} /\ at'[p] \in {"waiting", "woken"} /\ p \in High
                => Cardinality(Waiting') = highWaiting + 1
           /\ at[p] \in {"waiting", "woken"} /\ at'[p] \notin {"waiting", "woken"} /\ p \in High
                => Cardinality(Waiting') = highWaiting - 1
<1>1. highWaiting = Cardinality(Waiting) /\ highWaiting \in Nat
  BY DEF GateInv, GateSound, GateTypeOK
<1>2. CASE (at[p] \in {"waiting", "woken"} <=> at'[p] \in {"waiting", "woken"}) \/ p \notin High
  <2>1. Waiting' = Waiting
    BY <1>2 DEF Waiting, Caller
  <2> QED
    BY <2>1, <1>1, <1>2
<1>3. CASE at[p] \notin {"waiting", "woken"} /\ at'[p] \in {"waiting", "woken"} /\ p \in High
  <2>1. Waiting' = Waiting \cup {p} /\ p \notin Waiting
    BY <1>3 DEF Waiting, Caller
  <2> QED
    BY <2>1, <1>1, <1>3, WaitingFinite, FS_AddElement
<1>4. CASE at[p] \in {"waiting", "woken"} /\ at'[p] \notin {"waiting", "woken"} /\ p \in High
  <2>1. Waiting' = Waiting \ {p} /\ p \in Waiting
    BY <1>4 DEF Waiting, Caller
  <2> QED
    BY <2>1, <1>1, <1>4, WaitingFinite, FS_RemoveElement
<1> QED
  BY <1>2, <1>3, <1>4

LEMMA GateStep == GateInv /\ [GateNext]_gateVars => GateInv'
<1> SUFFICES ASSUME GateInv, [GateNext]_gateVars
             PROVE  GateInv'
  OBVIOUS
<1> USE DEF GateInv
<1>0. /\ active \in BOOLEAN /\ highWaiting \in Nat /\ at \in [Caller -> Places]
      /\ High \subseteq Caller
  BY DEF GateTypeOK, Caller
<1>1. ASSUME NEW p \in Caller, Enter(p)
      PROVE  GateInv'
  <2>1. \A q \in Caller \ {p} : at'[q] = at[q]
    BY <1>0, <1>1 DEF Enter
  <2>2. CASE Held(p, highWaiting)
    <3>1. at' = [at EXCEPT ![p] = "waiting"] /\ active' = active /\ at[p] = "out"
          /\ highWaiting' = IF p \in High THEN highWaiting + 1 ELSE highWaiting
      BY <1>1, <2>2 DEF Enter
    <3>2. GateTypeOK'
      BY <1>0, <3>1 DEF GateTypeOK, Places
    <3>3. Cardinality(Waiting') = highWaiting'
      BY <1>0, <2>1, <3>1, CountStep
    <3> QED
      BY <1>0, <3>1, <3>2, <3>3 DEF GateSound
  <2>3. CASE ~Held(p, highWaiting)
    <3>1. at' = [at EXCEPT ![p] = "in"] /\ active' = TRUE /\ at[p] = "out"
          /\ highWaiting' = highWaiting
      BY <1>1, <2>3 DEF Enter
    <3>2. GateTypeOK'
      BY <1>0, <3>1 DEF GateTypeOK, Places
    <3>3. Cardinality(Waiting') = highWaiting'
      BY <1>0, <2>1, <3>1, CountStep
    <3>4. \A q \in Caller : at[q] # "in"
      BY <2>3 DEF Held, GateSound
    <3> QED
      BY <1>0, <3>1, <3>2, <3>3, <3>4 DEF GateSound
  <2> QED
    BY <2>2, <2>3
<1>2. ASSUME NEW p \in Caller, Recheck(p)
      PROVE  GateInv'
  <2>1. \A q \in Caller \ {p} : at'[q] = at[q]
    BY <1>0, <1>2 DEF Recheck
  <2>2. CASE Held(p, highWaiting)
    <3>1. at' = [at EXCEPT ![p] = "waiting"] /\ active' = active /\ at[p] = "woken"
          /\ highWaiting' = highWaiting
      BY <1>2, <2>2 DEF Recheck
    <3>2. GateTypeOK'
      BY <1>0, <3>1 DEF GateTypeOK, Places
    <3>3. Cardinality(Waiting') = highWaiting'
      BY <1>0, <2>1, <3>1, CountStep
    <3> QED
      BY <1>0, <3>1, <3>2, <3>3 DEF GateSound
  <2>3. CASE ~Held(p, highWaiting)
    <3>1. at' = [at EXCEPT ![p] = "in"] /\ active' = TRUE /\ at[p] = "woken"
          /\ highWaiting' = IF p \in High THEN highWaiting - 1 ELSE highWaiting
      BY <1>2, <2>3 DEF Recheck
    <3>3. Cardinality(Waiting') = highWaiting'
      BY <1>0, <2>1, <3>1, CountStep
    <3>4. highWaiting' \in Nat
      BY <3>3, WaitingFiniteNext, FS_CardinalityType
    <3>2. GateTypeOK'
      BY <1>0, <3>1, <3>4 DEF GateTypeOK, Places
    <3>5. \A q \in Caller : at[q] # "in"
      BY <2>3 DEF Held, GateSound
    <3> QED
      BY <1>0, <3>1, <3>2, <3>3, <3>5 DEF GateSound
  <2> QED
    BY <2>2, <2>3
<1>3. ASSUME NEW p \in Caller, Cancel(p)
      PROVE  GateInv'
  <2> DEFINE left == [at EXCEPT ![p] = "out"]
  <2>1. left \in [Caller -> Places]
    BY <1>0 DEF Places
  <2>2. /\ at' \in [Caller -> Places]
        /\ \A q \in Caller : at'[q] = "in" <=> left[q] = "in"
        /\ \A q \in Caller : at'[q] \in {"waiting", "woken"} <=> left[q] \in {"waiting", "woken"}
    BY <1>3, <2>1, SignalKeeps DEF Cancel, AfterCancel
  <2>3. \A q \in Caller : at'[q] = "in" <=> at[q] = "in"
    BY <1>0, <1>3, <2>2 DEF Cancel
  <2>4. /\ \A q \in Caller \ {p} : at'[q] \in {"waiting", "woken"} <=> at[q] \in {"waiting", "woken"}
        /\ at[p] \in {"waiting", "woken"} /\ at'[p] \notin {"waiting", "woken"}
    BY <1>0, <1>3, <2>2 DEF Cancel
  <2>5. Cardinality(Waiting') = highWaiting'
    BY <1>0, <1>3, <2>4, CountStep DEF Cancel
  <2>6. highWaiting' \in Nat
    BY <2>5, WaitingFiniteNext, FS_CardinalityType
  <2>7. active' = active
    BY <1>3 DEF Cancel
  <2> QED
    BY <1>0, <2>2, <2>3, <2>5, <2>6, <2>7 DEF GateSound, GateTypeOK
<1>4. ASSUME NEW p \in Caller, releaseFunc(p)
      PROVE  GateInv'
  <2> DEFINE left == [at EXCEPT ![p] = "out"]
  <2>1. left \in [Caller -> Places]
    BY <1>0 DEF Places
  <2>2. /\ at' \in [Caller -> Places]
        /\ \A q \in Caller : at'[q] = "in" <=> left[q] = "in"
        /\ \A q \in Caller : at'[q] \in {"waiting", "woken"} <=> left[q] \in {"waiting", "woken"}
    BY <1>4, <2>1, SignalKeeps DEF releaseFunc
  <2>3. \A q \in Caller : at'[q] # "in"
    BY <1>0, <1>4, <2>2 DEF releaseFunc, GateSound
  <2>4. \A q \in Caller : at'[q] \in {"waiting", "woken"} <=> at[q] \in {"waiting", "woken"}
    BY <1>0, <1>4, <2>2 DEF releaseFunc
  <2>5. Cardinality(Waiting') = highWaiting /\ highWaiting' = highWaiting
    BY <1>0, <1>4, <2>4, CountStep DEF releaseFunc
  <2>6. active' = FALSE
    BY <1>4 DEF releaseFunc
  <2> QED
    BY <1>0, <2>2, <2>3, <2>5, <2>6 DEF GateSound, GateTypeOK
<1>5. CASE UNCHANGED gateVars
  BY <1>5 DEF gateVars, GateTypeOK, GateSound, Waiting
<1> QED
  BY <1>1, <1>2, <1>3, <1>4, <1>5 DEF GateNext

LEMMA GateStarts == GateInit => GateInv
<1> SUFFICES ASSUME GateInit PROVE GateInv
  OBVIOUS
<1>1. Waiting = {}
  BY DEF GateInit, Waiting, Caller
<1>2. Cardinality(Waiting) = 0
  BY <1>1, FS_EmptySet
<1> QED
  BY <1>2 DEF GateInit, GateInv, GateTypeOK, GateSound, Places

\* For any callers, the gate of the write connection admits one transaction at
\* a time, and its counter of waiting high callers is exact, cancellations
\* included.
THEOREM GateAlwaysSound == GateSpec => []GateSound
<1>2. GateInv => GateSound
  BY DEF GateInv
<1> QED
  BY <1>2, GateStarts, GateStep, PTL DEF GateSpec

\* Whoever sleeps on `changed' has a reason to: a transaction is running or, for
\* a projection, a high caller has not entered yet.
SleepersHeld == \A p \in Caller : at[p] = "waiting" => Held(p, highWaiting)

\* Each step that ends such a reason wakes the sleepers, or gives a new one.
LEMMA SleepersStep ==
    GateTypeOK /\ SleepersHeld /\ [GateNext]_gateVars => SleepersHeld'
<1> SUFFICES ASSUME GateTypeOK, SleepersHeld, [GateNext]_gateVars
             PROVE  SleepersHeld'
  OBVIOUS
<1>0. highWaiting \in Nat /\ at \in [Caller -> Places]
  BY DEF GateTypeOK
<1>1. ASSUME NEW p \in Caller, Enter(p) PROVE SleepersHeld'
  BY <1>0, <1>1 DEF Enter, SleepersHeld, Held
<1>2. ASSUME NEW p \in Caller, Recheck(p) PROVE SleepersHeld'
  BY <1>0, <1>2 DEF Recheck, SleepersHeld, Held
<1>3. ASSUME NEW p \in Caller, Cancel(p) PROVE SleepersHeld'
  <2>1. CASE p \in High
    <3>1. \A q \in Caller : at'[q] # "waiting"
      BY <1>0, <1>3, <2>1 DEF Cancel, AfterCancel, signalLocked
    <3> QED BY <3>1 DEF SleepersHeld
  <2>2. CASE p \notin High
    BY <1>0, <1>3, <2>2 DEF Cancel, AfterCancel, SleepersHeld, Held
  <2> QED BY <2>1, <2>2
<1>4. ASSUME NEW p \in Caller, releaseFunc(p) PROVE SleepersHeld'
  <2>1. \A q \in Caller : at'[q] # "waiting"
    BY <1>0, <1>4 DEF releaseFunc, signalLocked
  <2> QED BY <2>1 DEF SleepersHeld
<1>5. CASE UNCHANGED gateVars
  BY <1>5 DEF gateVars, SleepersHeld, Held
<1> QED
  BY <1>1, <1>2, <1>3, <1>4, <1>5 DEF GateNext

\* No wake-up is lost: a caller that could enter is never left asleep, also when
\* the high caller that kept it out is cancelled.
THEOREM NobodySleepsInVain == GateSpec => []SleepersHeld
<1>1. GateInit => GateInv /\ SleepersHeld
  BY GateStarts DEF GateInit, SleepersHeld
<1>2. GateInv => GateTypeOK
  BY DEF GateInv
<1> QED
  BY <1>1, <1>2, GateStep, SleepersStep, PTL DEF GateSpec

-----------------------------------------------------------------------------
(* The Coordinator.                                                        *)

Row == [at : Nat, policy : BOOLEAN]

\* The ledger is never empty, and its commits have instants as the clock has.
LedgerInv ==
    /\ ledger \in Seq(Row) /\ HeadSeq >= 1
    /\ clock \in Nat

\* A target lies within the ledger.
Within(t) == t.seq \in 1..HeadSeq /\ t.asOf \in Nat

\* A watermark w tells what the body v was evaluated from.
SoundAt(d, w, v) ==
    /\ v = Evaluate(d, w, w.policy)
    /\ Within(w)
    /\ w.policy = ResolveDependencies(d, w)
    /\ d = "claim" => w.policy # 0

MarkInv ==
    /\ mark = [d \in Definition |-> mark[d]]
    /\ body = [d \in Definition |-> body[d]]
    /\ \A d \in Definition : mark[d] # None => SoundAt(d, mark[d], body[d])

IsJob(j) ==
    /\ j.kind # "none"
    /\ j = [kind |-> j.kind, automatic |-> j.automatic, refresh |-> j.refresh,
            force |-> j.force, target |-> j.target, cohort |-> j.cohort, todo |-> j.todo,
            write |-> j.write, failed |-> j.failed]

\* The holder of the lock works towards targets within the ledger.
JobInv == job # NoJob => IsJob(job) /\ Within(job.target) /\ Within(job.cohort)

\* What waits in the gate, or is inside, is a write of the holder, and sound.
WriteInv ==
    at["projection"] # "out" =>
        /\ job # NoJob /\ job.todo # <<>>
        /\ This \in Definition => SoundAt(This, job.write.new, job.write.value)

\* The inductive invariant.
MarksInv == GateInv /\ LedgerInv /\ MarkInv /\ JobInv /\ WriteInv

-----------------------------------------------------------------------------
(* Maxima of the few instants that are compared.                           *)

LEMMA MaxOfFew ==
    ASSUME NEW a \in Nat, NEW b \in Nat, NEW c \in Nat, NEW S, S \subseteq {a, b, c}, S # {}
    PROVE  Max(S) \in S /\ Max(S) \in Nat
<1>1. \E x \in S : \A y \in S : x >= y
  <2>1. S \subseteq Nat OBVIOUS
  <2>2. CASE a \in S /\ (b \in S => a >= b) /\ (c \in S => a >= c) BY <2>2
  <2>3. CASE b \in S /\ (a \in S => b >= a) /\ (c \in S => b >= c) BY <2>3
  <2>4. CASE c \in S /\ (a \in S => c >= a) /\ (b \in S => c >= b) BY <2>4
  <2>5. a \in S \/ b \in S \/ c \in S OBVIOUS
  <2> QED BY <2>2, <2>3, <2>4, <2>5
<1> QED BY <1>1 DEF Max

LEMMA MaxOfTwo ==
    ASSUME NEW a \in Nat, NEW b \in Nat
    PROVE  Max({a, b}) \in Nat
<1>1. {a, b} \subseteq {a, b, b} /\ {a, b} # {} OBVIOUS
<1> QED BY <1>1, MaxOfFew

-----------------------------------------------------------------------------
(* Targets.                                                                *)

LEMMA CaptureWithin == ASSUME LedgerInv PROVE Within(captureTarget)
<1>1. HeadSeq \in Nat /\ HeadSeq >= 1 BY DEF LedgerInv, HeadSeq
<1>2. ledger[HeadSeq] \in Row BY <1>1 DEF LedgerInv, HeadSeq
<1>3. ledger[HeadSeq].at \in Nat BY <1>2 DEF Row
<1>4. Max({clock, ledger[HeadSeq].at}) \in Nat BY <1>3, MaxOfTwo DEF LedgerInv
<1> QED BY <1>1, <1>4 DEF captureTarget, Within

LEMMA CohortWithin ==
    ASSUME LedgerInv, MarkInv PROVE Within(preservedCohortTarget(captureTarget))
<1> DEFINE t == captureTarget
           instants == {mark[d].asOf : d \in {e \in Timed : mark[e] # None}}
           on(i) == [t EXCEPT !.asOf = i]
<1>1. Within(t) BY CaptureWithin
<1>2. t = [seq |-> t.seq, asOf |-> t.asOf] BY DEF captureTarget
<1>3. ASSUME NEW i \in Nat PROVE Within(on(i))
  BY <1>1, <1>2 DEF Within
<1>4. \A d \in Timed : mark[d] # None => mark[d].asOf \in Nat
  BY DEF MarkInv, SoundAt, Within, Definition
<1>5. PICK a \in Nat, b \in Nat : instants \subseteq {a, b}
  <2> DEFINE asOf(d) == IF mark[d] # None THEN mark[d].asOf ELSE 0
  <2>1. asOf("claim") \in Nat /\ asOf("runtime") \in Nat BY <1>4 DEF Timed
  <2>2. instants \subseteq {asOf("claim"), asOf("runtime")} BY DEF Timed
  <2> QED BY <2>1, <2>2
<1>6. instants # {} => Max(instants) \in Nat
  <2>1. instants \subseteq {a, b, b} BY <1>5
  <2> HIDE DEF instants
  <2> QED BY <2>1, MaxOfFew
<1>7. Max(instants \cup {t.asOf}) \in Nat
  <2>1. instants \cup {t.asOf} \subseteq {a, b, t.asOf} /\ instants \cup {t.asOf} # {} BY <1>5
  <2>2. t.asOf \in Nat BY <1>1 DEF Within
  <2> HIDE DEF instants, t
  <2> QED BY <2>1, <2>2, MaxOfFew
<1>8. preservedCohortTarget(t) =
        CASE instants = {} -> t
          [] Cardinality(instants) = 1 -> on(Max(instants))
          [] OTHER -> on(Max(instants \cup {t.asOf}))
  BY DEF preservedCohortTarget
<1> HIDE DEF t, instants, on
<1>9. CASE instants = {}
  <2>1. preservedCohortTarget(t) = t BY <1>8, <1>9, FS_EmptySet
  <2> QED BY <1>1, <2>1 DEF t
<1>10. CASE instants # {} /\ Cardinality(instants) = 1
  <2>1. preservedCohortTarget(t) = on(Max(instants)) BY <1>8, <1>10
  <2> QED BY <1>3, <1>6, <1>10, <2>1 DEF t
<1>11. CASE instants # {} /\ Cardinality(instants) # 1
  <2>1. preservedCohortTarget(t) = on(Max(instants \cup {t.asOf})) BY <1>8, <1>11
  <2> QED BY <1>3, <1>7, <2>1 DEF t
<1> QED BY <1>9, <1>10, <1>11

-----------------------------------------------------------------------------
(* The planned write.                                                      *)

LEMMA TargetWithin ==
    ASSUME JobInv, job # NoJob, NEW d PROVE Within(TargetOf(d))
  BY DEF JobInv, TargetOf

\* What Plan makes of a target: a write that is not refused ends at the commit
\* of the target and, for a projection that depends on time, at its instant.
LEMMA PlanReaches ==
    ASSUME NEW d, NEW old, NEW target, NEW policy, NEW force,
           Within(target), old # None => Within(old), LedgerInv,
           Plan(d, old, target, policy, force) \notin {Refused, UpToDate}
    PROVE  LET new == targetWatermark(old, target, policy,
                                      Plan(d, old, target, policy, force))
           IN  /\ new.seq = target.seq /\ new.policy = policy /\ new.asOf \in Nat
               /\ d \in Timed => new.asOf = target.asOf
<1> DEFINE plan == Plan(d, old, target, policy, force)
           new(p) == targetWatermark(old, target, policy, p)
           Reaches(p) == /\ new(p).seq = target.seq /\ new(p).policy = policy
                         /\ new(p).asOf \in Nat
                         /\ d \in Timed => new(p).asOf = target.asOf
<1>1. target.seq \in Nat /\ target.asOf \in Nat BY DEF Within, LedgerInv, HeadSeq
<1>2. Reaches(Full(d, "build")) /\ Reaches(Full(d, "rebuild"))
  BY <1>1 DEF Full, targetWatermark
<1>3. CASE old = None
  <2>1. plan = Full(d, "build") BY <1>3 DEF Plan
  <2> QED BY <1>2, <2>1
<1>4. CASE old # None /\ force
  <2>1. plan = Full(d, "rebuild") BY <1>4 DEF Plan
  <2> QED BY <1>2, <2>1
<1>5. CASE old # None /\ ~force
  <2>1. old.seq \in Nat /\ old.asOf \in Nat BY <1>5 DEF Within, LedgerInv, HeadSeq
  <2>2. plan = PlanUpdate(d, old, target, policy) BY <1>5 DEF Plan
  <2>3. ~(target.asOf < old.asOf \/ target.seq < old.seq) BY <2>2 DEF PlanUpdate
  <2>4. CASE plan = Full(d, "rebuild") BY <1>2, <2>4
  <2>5. CASE plan = [kind |-> "update", commit |-> old.seq < target.seq,
                     asOf |-> d \in Timed /\ old.asOf < target.asOf]
    <3> DEFINE u(c, a) == [kind |-> "update", commit |-> c, asOf |-> a]
    <3>0. (old.seq < target.seq) \in BOOLEAN BY <1>1, <2>1
    <3>1. PICK c \in BOOLEAN : c = (old.seq < target.seq) BY <3>0, Zenon
    <3>2. PICK a \in BOOLEAN : a = (d \in Timed /\ old.asOf < target.asOf) BY Zenon
    <3>3. plan = u(c, a) BY <2>5, <3>1, <3>2, Zenon
    <3>4. /\ new(u(c, a)).seq = IF c THEN target.seq ELSE old.seq
          /\ new(u(c, a)).asOf = IF a THEN target.asOf ELSE old.asOf
          /\ new(u(c, a)).policy = policy
      BY DEF targetWatermark
    <3> HIDE DEF new, u
    <3>5. (c <=> old.seq < target.seq) /\ (a <=> d \in Timed /\ old.asOf < target.asOf)
      BY <3>1, <3>2, Zenon
    <3>6. new(u(c, a)).seq = target.seq BY <1>1, <2>1, <2>3, <3>4, <3>5
    <3>7. new(u(c, a)).asOf \in Nat /\ (d \in Timed => new(u(c, a)).asOf = target.asOf)
      BY <1>1, <2>1, <2>3, <3>4, <3>5
    <3>8. Reaches(u(c, a)) BY <3>4, <3>6, <3>7
    <3> QED BY <3>3, <3>8 DEF new
  <2>6. plan = Full(d, "rebuild")
        \/ plan = [kind |-> "update", commit |-> old.seq < target.seq,
                   asOf |-> d \in Timed /\ old.asOf < target.asOf]
    BY <2>2, <2>3 DEF PlanUpdate
  <2> QED BY <2>4, <2>5, <2>6
<1> QED BY <1>3, <1>4, <1>5

\* What is written is determined by the watermark it is written with.
LEMMA WriteSound ==
    ASSUME LedgerInv, MarkInv, JobInv, job # NoJob, NEW d \in Definition,
           Acceptable(d, Request(d)), Request(d).plan # UpToDate
    PROVE  SoundAt(d, Request(d).new, Request(d).value)
<1> DEFINE target == TargetOf(d)
           policy == ResolveDependencies(d, target)
           plan == Plan(d, mark[d], target, policy, job.force)
           new == targetWatermark(mark[d], target, policy, plan)
<1>1. /\ Request(d).plan = plan /\ Request(d).observed = mark[d] /\ Request(d).new = new
      /\ Request(d).value = Evaluate(d, target, policy)
  BY DEF Request
<1>2. plan \notin {Refused, UpToDate} /\ (d = "claim" => new.policy # 0)
  BY <1>1 DEF Acceptable, validateProjectionApply
<1>3. Within(target) /\ (mark[d] # None => Within(mark[d]))
  BY TargetWithin DEF MarkInv, SoundAt
<1> HIDE DEF target, policy
<1>4. /\ new.seq = target.seq /\ new.policy = policy /\ new.asOf \in Nat
      /\ d \in Timed => new.asOf = target.asOf
  BY <1>2, <1>3, PlanReaches
<1> HIDE DEF new
<1>5. Within(new) BY <1>3, <1>4 DEF Within
<1>6. new.policy = ResolveDependencies(d, new)
  BY <1>4 DEF policy, ResolveDependencies, Timed
<1>7. Evaluate(d, target, policy) = Evaluate(d, new, new.policy)
  <2>1. CASE d = "claim"
    BY <1>4, <2>1 DEF Evaluate, evaluateClaimStates, loadClaimRows, Timed
  <2>2. CASE d = "runtime" BY <1>4, <2>2 DEF Evaluate, evaluateRuntimeState, Timed
  <2>3. CASE d \notin {"claim", "runtime"} BY <1>4, <2>3 DEF Evaluate, evaluateRows
  <2> QED BY <2>1, <2>2, <2>3
<1> QED BY <1>1, <1>2, <1>5, <1>6, <1>7 DEF SoundAt

\* The ledger only grows, so a sound watermark stays sound.
LEMMA SoundStays ==
    ASSUME LedgerInv, NEW x \in Row, ledger' = Append(ledger, x) \/ ledger' = ledger,
           NEW d, NEW w, NEW v, SoundAt(d, w, v)
    PROVE  SoundAt(d, w, v)'
<1>1. /\ HeadSeq \in Nat /\ HeadSeq' \in Nat /\ HeadSeq <= HeadSeq'
      /\ \A i \in 1..HeadSeq : ledger'[i] = ledger[i]
  BY DEF LedgerInv, HeadSeq
<1>2. w.seq \in 1..HeadSeq /\ w.asOf \in Nat /\ 1..w.seq \subseteq 1..HeadSeq
  BY <1>1 DEF SoundAt, Within
<1>3. Within(w)' BY <1>1, <1>2 DEF Within
<1>4. \A i \in 1..w.seq : ledger'[i] = ledger[i] BY <1>1, <1>2
<1>5. {i \in 1..w.seq : ledger'[i].policy /\ ledger'[i].at <= w.asOf}
        = {i \in 1..w.seq : ledger[i].policy /\ ledger[i].at <= w.asOf}
  BY <1>4
<1>6. ResolveDependencies(d, w)' = ResolveDependencies(d, w)
  BY <1>5 DEF ResolveDependencies, resolveMemoryPolicyDependency
<1>7. loadClaimRows(w)' = loadClaimRows(w) BY <1>4 DEF loadClaimRows
<1>8. Evaluate(d, w, w.policy)' = Evaluate(d, w, w.policy)
  BY <1>7 DEF Evaluate, evaluateClaimStates, evaluateRuntimeState, evaluateRows
<1> QED BY <1>3, <1>6, <1>8 DEF SoundAt

-----------------------------------------------------------------------------
(* Steps that leave watermarks and bodies alone.                           *)

\* The fields of a job, once it advanced or has a write in the gate.
LEMMA JobFields ==
    ASSUME IsJob(job)
    PROVE  /\ \A ok \in BOOLEAN : /\ IsJob(Advanced(ok))
                                  /\ Advanced(ok).target = job.target
                                  /\ Advanced(ok).cohort = job.cohort
                                  /\ Advanced(ok).kind = job.kind
                                  /\ Advanced(ok).refresh = job.refresh
                                  /\ ok \/ job.kind # "preflight" =>
                                        Advanced(ok).todo = Tail(job.todo)
                                  /\ Advanced(ok).todo \in {<<>>, Tail(job.todo)}
           /\ \A m : m = [job EXCEPT !.write = Request(This)] =>
                 /\ IsJob(m) /\ m.target = job.target /\ m.cohort = job.cohort
                 /\ m.todo = job.todo /\ m.write = Request(This)
                 /\ m.kind = job.kind /\ m.refresh = job.refresh
<1> DEFINE R(todo, write, failed) ==
      [kind |-> job.kind, automatic |-> job.automatic, refresh |-> job.refresh,
       force |-> job.force, target |-> job.target, cohort |-> job.cohort, todo |-> todo,
       write |-> write, failed |-> failed]
<1>1. job = R(job.todo, job.write, job.failed) /\ job.kind # "none" BY DEF IsJob
<1>2. \A a, b, c, z : /\ [R(a, b, c) EXCEPT !.todo = z] = R(z, b, c)
                      /\ [R(a, b, c) EXCEPT !.write = z] = R(a, z, c)
                      /\ [R(a, b, c) EXCEPT !.failed = z] = R(a, b, z)
  OBVIOUS
<1>3. \A a, b, c : /\ R(a, b, c).target = job.target /\ R(a, b, c).cohort = job.cohort
                   /\ R(a, b, c).todo = a /\ R(a, b, c).write = b
                   /\ R(a, b, c).kind = job.kind /\ R(a, b, c).refresh = job.refresh
  OBVIOUS
<1>4. \A a, b, c : IsJob(R(a, b, c)) BY <1>1 DEF IsJob
<1> HIDE DEF R
<1>5. ASSUME NEW ok \in BOOLEAN
      PROVE  /\ IsJob(Advanced(ok)) /\ Advanced(ok).target = job.target
             /\ Advanced(ok).cohort = job.cohort
             /\ Advanced(ok).kind = job.kind /\ Advanced(ok).refresh = job.refresh
             /\ ok \/ job.kind # "preflight" => Advanced(ok).todo = Tail(job.todo)
             /\ Advanced(ok).todo \in {<<>>, Tail(job.todo)}
  <2> DEFINE t == IF ok \/ job.kind # "preflight" THEN Tail(job.todo) ELSE <<>>
             f == job.failed \/ ~ok
  <2>1. Advanced(ok) = [job EXCEPT !.todo = t, !.write = None, !.failed = f]
    BY DEF Advanced
  <2> HIDE DEF t, f
  <2>2. PICK x : x = [job EXCEPT !.todo = t] OBVIOUS
  <2>3. PICK y : y = [x EXCEPT !.write = None] OBVIOUS
  <2>4. x = R(t, job.write, job.failed) BY <1>1, <1>2, <2>2
  <2>5. y = R(t, None, job.failed) BY <1>2, <2>3, <2>4
  <2>6. [y EXCEPT !.failed = f] = R(t, None, f) BY <1>2, <2>5
  <2>7. [job EXCEPT !.todo = t, !.write = None, !.failed = f] = [y EXCEPT !.failed = f]
    BY <2>2, <2>3
  <2>8. Advanced(ok) = R(t, None, f) BY <2>1, <2>6, <2>7
  <2>9. (ok \/ job.kind # "preflight" => t = Tail(job.todo)) /\ t \in {<<>>, Tail(job.todo)}
    BY DEF t
  <2>10. Advanced(ok).todo = t /\ Advanced(ok).kind = job.kind
         /\ Advanced(ok).refresh = job.refresh /\ Advanced(ok).target = job.target
         /\ Advanced(ok).cohort = job.cohort
    BY <1>3, <2>8
  <2>11. IsJob(Advanced(ok)) BY <1>4, <2>8
  <2> QED BY <2>9, <2>10, <2>11
<1>6. [job EXCEPT !.write = Request(This)] = R(job.todo, Request(This), job.failed)
  BY <1>1, <1>2
<1>7. ASSUME NEW m, m = [job EXCEPT !.write = Request(This)]
      PROVE  /\ IsJob(m) /\ m.target = job.target /\ m.cohort = job.cohort
             /\ m.todo = job.todo /\ m.write = Request(This)
             /\ m.kind = job.kind /\ m.refresh = job.refresh
  <2>1. m = R(job.todo, Request(This), job.failed) BY <1>6, <1>7
  <2> QED BY <1>3, <1>4, <2>1
<1> QED BY <1>5, <1>7

LEMMA JobNotNone == ASSUME NEW j, IsJob(j) PROVE j # NoJob
  BY DEF IsJob, NoJob

LEMMA WithinStays ==
    ASSUME LedgerInv, NEW x \in Row, ledger' = Append(ledger, x) \/ ledger' = ledger,
           NEW t, Within(t)
    PROVE  Within(t)'
<1>1. HeadSeq \in Nat /\ HeadSeq' \in Nat /\ HeadSeq <= HeadSeq' BY DEF LedgerInv, HeadSeq
<1> QED BY <1>1 DEF Within

LEMMA JobStays ==
    ASSUME LedgerInv, NEW x \in Row, ledger' = Append(ledger, x) \/ ledger' = ledger,
           JobInv, UNCHANGED job
    PROVE  JobInv'
<1>1. HeadSeq \in Nat /\ HeadSeq' \in Nat /\ HeadSeq <= HeadSeq' BY DEF LedgerInv, HeadSeq
<1> QED BY <1>1 DEF JobInv, Within, IsJob, NoJob

\* The write in the gate is still the holder's, or there is none any more.
LEMMA QuietKeeps ==
    ASSUME MarksInv, GateInv', LedgerInv', NEW x \in Row,
           ledger' = Append(ledger, x) \/ ledger' = ledger,
           UNCHANGED <<mark, body>>, JobInv',
           at'["projection"] = "out" \/ (at["projection"] # "out" /\ UNCHANGED job)
    PROVE  MarksInv'
<1>1. LedgerInv /\ MarkInv /\ WriteInv BY DEF MarksInv
<1>2. MarkInv'
  <2>1. ASSUME NEW d \in Definition, mark'[d] # None PROVE SoundAt(d, mark[d], body[d])'
    <3>1. PICK w, v : w = mark[d] /\ v = body[d] OBVIOUS
    <3>2. SoundAt(d, w, v) BY <1>1, <2>1, <3>1 DEF MarkInv
    <3>3. SoundAt(d, w, v)' BY <1>1, <3>2, SoundStays
    <3>4. mark'[d] = w /\ body'[d] = v BY <3>1
    <3> QED BY <3>3, <3>4
  <2> QED BY <1>1, <2>1 DEF MarkInv, Definition
<1>3. WriteInv'
  <2> SUFFICES ASSUME at'["projection"] # "out" PROVE WriteInv' BY DEF WriteInv
  <2>1. UNCHANGED <<job, This>> /\ job # NoJob /\ job.todo # <<>> BY <1>1 DEF WriteInv, This
  <2>2. ASSUME This \in Definition PROVE SoundAt(This, job.write.new, job.write.value)'
    <3>1. PICK d, w, v : d = This /\ w = job.write.new /\ v = job.write.value OBVIOUS
    <3>2. SoundAt(d, w, v) BY <1>1, <2>2, <3>1 DEF WriteInv
    <3>3. SoundAt(d, w, v)' BY <1>1, <3>2, SoundStays
    <3>4. This' = d /\ job'.write.new = w /\ job'.write.value = v BY <2>1, <3>1
    <3> QED BY <3>3, <3>4
  <2>3. This' \in Definition' => This \in Definition BY <2>1 DEF Definition
  <2> QED BY <2>1, <2>2, <2>3 DEF WriteInv, NoJob
<1> QED BY <1>2, <1>3 DEF MarksInv

-----------------------------------------------------------------------------
(* The gate under the Coordinator.                                         *)

LEMMA Callers ==
    /\ "projection" \in Caller /\ "canonical" \in High /\ "operational" \in High
    /\ High \subseteq Caller /\ \A p \in High : p # "projection"
  BY GateSides, CallersDistinct DEF Caller

\* What a caller of the other side does leaves a projection outside.
LEMMA HighLeaves ==
    ASSUME GateInv, NEW p \in High, Enter(p) \/ Recheck(p) \/ Cancel(p) \/ releaseFunc(p)
    PROVE  /\ GateInv'
           /\ at'["projection"] = "out" <=> at["projection"] = "out"
<1>1. p \in Caller /\ p # "projection" /\ "projection" \in Caller BY Callers
<1>2. at \in [Caller -> Places] BY DEF GateInv, GateTypeOK
<1>3. GateInv'
  <2>1. GateNext BY <1>1 DEF GateNext
  <2> QED BY <2>1, GateStep
<1>4. at'["projection"] = "out" <=> at["projection"] = "out"
  <2>1. CASE Enter(p) \/ Recheck(p) BY <1>1, <1>2, <2>1 DEF Enter, Recheck
  <2>2. CASE Cancel(p) BY <1>1, <1>2, <2>2 DEF Cancel, AfterCancel, signalLocked
  <2>3. CASE releaseFunc(p) BY <1>1, <1>2, <2>3 DEF releaseFunc, signalLocked
  <2> QED BY <2>1, <2>2, <2>3
<1> QED BY <1>3, <1>4

LEMMA ProjectionMoves ==
    ASSUME GateInv,
           \/ Enter("projection") \/ Recheck("projection")
           \/ Cancel("projection") \/ releaseFunc("projection")
    PROVE  /\ GateInv'
           /\ Recheck("projection") => at["projection"] = "woken"
           /\ Cancel("projection") \/ releaseFunc("projection") => at'["projection"] = "out"
<1>1. "projection" \in Caller BY Callers
<1>2. at \in [Caller -> Places] BY DEF GateInv, GateTypeOK
<1>3. GateInv'
  <2>1. GateNext BY <1>1 DEF GateNext
  <2> QED BY <2>1, GateStep
<1>4. Cancel("projection") => at'["projection"] = "out"
  BY <1>1, <1>2 DEF Cancel, AfterCancel, signalLocked
<1>5. releaseFunc("projection") => at'["projection"] = "out"
  BY <1>1, <1>2 DEF releaseFunc, signalLocked
<1> QED BY <1>3, <1>4, <1>5 DEF Recheck

LEMMA GateRests ==
    ASSUME GateInv, UNCHANGED gateVars
    PROVE  GateInv' /\ at' = at
  BY GateStep DEF gateVars

\* A crash leaves an empty gate.
LEMMA GateEmpty ==
    ASSUME active' = FALSE, highWaiting' = 0, at' = [p \in Caller |-> "out"]
    PROVE  GateInv' /\ at'["projection"] = "out"
<1>1. Waiting' = {} BY DEF Waiting, Caller
<1>2. Cardinality(Waiting') = 0 BY <1>1, FS_EmptySet
<1>3. GateTypeOK' BY DEF GateTypeOK, Places, Caller
<1>4. GateSound' BY <1>2 DEF GateSound, Caller
<1> QED BY <1>3, <1>4, Callers DEF GateInv, Caller

-----------------------------------------------------------------------------
(* The steps.                                                              *)

\* Nothing of what the invariant speaks about changes but the gate, the clock
\* and, when nothing is in the gate any more, the job.
LEMMA LedgerStands ==
    ASSUME MarksInv, GateInv', UNCHANGED stored, clock' \in Nat, JobInv',
           at'["projection"] = "out" \/ (at["projection"] # "out" /\ UNCHANGED job)
    PROVE  MarksInv'
<1>1. LedgerInv' BY DEF MarksInv, LedgerInv, stored, HeadSeq
<1>2. PICK x : x \in Row
  <2>1. [at |-> 0, policy |-> TRUE] \in Row BY DEF Row
  <2> QED BY <2>1
<1> QED BY <1>1, <1>2, QuietKeeps DEF stored

\* Who takes the lock captures targets within the ledger.
LEMMA LockKeeps ==
    ASSUME MarksInv, UNCHANGED <<gateVars, stored, clock>>,
           NEW kind, NEW automatic, NEW refresh, NEW force, NEW todo, kind # "none",
           Lock(kind, automatic, refresh, force, todo)
    PROVE  MarksInv'
<1>1. GateInv /\ LedgerInv /\ MarkInv /\ WriteInv BY DEF MarksInv
<1>2. at["projection"] = "out" BY <1>1 DEF WriteInv, Lock
<1>3. GateInv' /\ at' = at BY <1>1, GateRests
<1>4. IsJob(job') /\ job'.target = captureTarget
      /\ job'.cohort \in {captureTarget, preservedCohortTarget(captureTarget)}
  BY DEF Lock, IsJob
<1>5. Within(captureTarget) /\ Within(preservedCohortTarget(captureTarget))
  BY <1>1, CaptureWithin, CohortWithin
<1>6. HeadSeq' = HeadSeq BY DEF stored, HeadSeq
<1>7. JobInv'
  <2>1. Within(job.target)' /\ Within(job.cohort)' BY <1>4, <1>5, <1>6 DEF Within
  <2>2. IsJob(job)' BY <1>4 DEF IsJob
  <2> QED BY <2>1, <2>2 DEF JobInv
<1> QED BY <1>1, <1>2, <1>3, <1>7, LedgerStands DEF LedgerInv

\* The holder goes on to its next definition, or leaves.
LEMMA AdvanceKeeps ==
    ASSUME MarksInv, GateInv', UNCHANGED stored, clock' \in Nat, at'["projection"] = "out",
           \/ job # NoJob /\ \E ok \in BOOLEAN : job' = Advanced(ok)
           \/ job' = NoJob
    PROVE  MarksInv'
<1>1. JobInv BY DEF MarksInv
<1>2. HeadSeq' = HeadSeq BY DEF stored, HeadSeq
<1>3. JobInv'
  <2>1. CASE job' = NoJob BY <2>1 DEF JobInv, NoJob
  <2>2. ASSUME job # NoJob, NEW ok \in BOOLEAN, job' = Advanced(ok) PROVE JobInv'
    <3>1. IsJob(job) /\ Within(job.target) /\ Within(job.cohort) BY <1>1, <2>2 DEF JobInv
    <3>2. IsJob(job') /\ job'.target = job.target /\ job'.cohort = job.cohort
      BY <2>2, <3>1, JobFields
    <3>3. Within(job.target)' /\ Within(job.cohort)' BY <1>2, <3>1, <3>2 DEF Within
    <3>4. IsJob(job)' BY <3>2 DEF IsJob
    <3> QED BY <3>3, <3>4 DEF JobInv
  <2> QED BY <2>1, <2>2
<1> QED BY <1>3, LedgerStands

\* An accepted request enters the gate.
LEMMA EntersKeeps == ASSUME MarksInv, UpdateEnters PROVE MarksInv'
<1>1. /\ GateInv /\ LedgerInv /\ MarkInv /\ JobInv
      /\ job # NoJob /\ job.todo # <<>>
      /\ job' = [job EXCEPT !.write = Request(This)]
      /\ Acceptable(This, Request(This)) /\ Request(This).plan # UpToDate
      /\ Enter("projection") /\ UNCHANGED <<ledger, mark, body, clock>>
  BY DEF MarksInv, UpdateEnters, Updating, stored
<1>2. GateInv' BY <1>1, ProjectionMoves
<1>3. IsJob(job) /\ Within(job.target) /\ Within(job.cohort) BY <1>1 DEF JobInv
<1>4. /\ IsJob(job') /\ job'.target = job.target /\ job'.cohort = job.cohort
      /\ job'.todo = job.todo /\ job'.write = Request(This)
  BY <1>1, <1>3, JobFields
<1>5. LedgerInv' BY <1>1 DEF LedgerInv, HeadSeq
<1>6. JobInv'
  <2>1. Within(job.target)' /\ Within(job.cohort)' BY <1>1, <1>3, <1>4 DEF Within, HeadSeq
  <2>2. IsJob(job)' BY <1>4 DEF IsJob
  <2> QED BY <2>1, <2>2 DEF JobInv
<1>7. ASSUME NEW d, NEW w, NEW v, SoundAt(d, w, v) PROVE SoundAt(d, w, v)'
  <2>1. [at |-> 0, policy |-> TRUE] \in Row BY DEF Row
  <2> QED BY <1>1, <1>7, <2>1, SoundStays
<1>8. MarkInv'
  <2>1. ASSUME NEW d \in Definition, mark'[d] # None PROVE SoundAt(d, mark[d], body[d])'
    <3>1. PICK w, v : w = mark[d] /\ v = body[d] OBVIOUS
    <3>2. SoundAt(d, w, v)' BY <1>1, <1>7, <2>1, <3>1 DEF MarkInv
    <3>3. mark'[d] = w /\ body'[d] = v BY <1>1, <3>1
    <3> QED BY <3>2, <3>3
  <2> QED BY <1>1, <2>1 DEF MarkInv, Definition
<1>9. WriteInv'
  <2>1. job' # NoJob' BY <1>4, JobNotNone DEF NoJob
  <2>2. This' = This BY <1>4 DEF This
  <2>3. ASSUME This \in Definition PROVE SoundAt(This, job.write.new, job.write.value)'
    <3>1. SoundAt(This, Request(This).new, Request(This).value) BY <1>1, <2>3, WriteSound
    <3>2. PICK d, w, v : d = This /\ w = Request(This).new /\ v = Request(This).value OBVIOUS
    <3>3. SoundAt(d, w, v)' BY <1>7, <3>1, <3>2
    <3>4. This' = d /\ job'.write.new = w /\ job'.write.value = v BY <1>4, <2>2, <3>2
    <3> QED BY <3>3, <3>4
  <2> QED BY <1>1, <1>4, <2>1, <2>2, <2>3 DEF WriteInv, Definition
<1> QED BY <1>2, <1>5, <1>6, <1>8, <1>9 DEF MarksInv

\* Body and watermark change together, to the pair that was planned.
LEMMA WrittenKeeps ==
    ASSUME MarksInv, GateInv', at["projection"] = "in", at'["projection"] = "out",
           UNCHANGED <<ledger, clock>>, NEW ok \in BOOLEAN, job' = Advanced(ok),
           NEW w, w \in {<<mark[This], body[This]>>, <<job.write.new, job.write.value>>},
           mark' = [mark EXCEPT ![This] = w[1]], body' = [body EXCEPT ![This] = w[2]]
    PROVE  MarksInv'
<1>1. /\ LedgerInv /\ MarkInv /\ JobInv /\ job # NoJob
      /\ This \in Definition => SoundAt(This, job.write.new, job.write.value)
  BY DEF MarksInv, WriteInv
<1>2. LedgerInv' BY <1>1 DEF LedgerInv, HeadSeq
<1>3. JobInv'
  <2>1. IsJob(job) /\ Within(job.target) /\ Within(job.cohort) BY <1>1 DEF JobInv
  <2>2. IsJob(job') /\ job'.target = job.target /\ job'.cohort = job.cohort
    BY <2>1, JobFields
  <2>3. Within(job.target)' /\ Within(job.cohort)' BY <2>1, <2>2 DEF Within, HeadSeq
  <2>4. IsJob(job)' BY <2>2 DEF IsJob
  <2> QED BY <2>3, <2>4 DEF JobInv
<1>4. ASSUME NEW d, NEW x, NEW v, SoundAt(d, x, v) PROVE SoundAt(d, x, v)'
  <2>1. [at |-> 0, policy |-> TRUE] \in Row BY DEF Row
  <2> QED BY <1>1, <1>4, <2>1, SoundStays
<1>5. /\ mark' = [d \in Definition |-> mark'[d]] /\ body' = [d \in Definition |-> body'[d]]
      /\ \A d \in Definition : mark'[d] = (IF d = This THEN w[1] ELSE mark[d])
                               /\ body'[d] = (IF d = This THEN w[2] ELSE body[d])
  <2>1. mark = [d \in Definition |-> mark[d]] /\ body = [d \in Definition |-> body[d]]
    BY <1>1 DEF MarkInv
  <2>2. \A d \in Definition : mark'[d] = (IF d = This THEN w[1] ELSE mark[d]) BY <2>1
  <2>3. \A d \in Definition : body'[d] = (IF d = This THEN w[2] ELSE body[d]) BY <2>1
  <2>4. mark' = [d \in Definition |-> mark'[d]] BY <2>1
  <2>5. body' = [d \in Definition |-> body'[d]] BY <2>1
  <2> QED BY <2>2, <2>3, <2>4, <2>5
<1>6. ASSUME NEW d \in Definition, mark'[d] # None PROVE SoundAt(d, mark[d], body[d])'
  <2>1. SoundAt(d, mark'[d], body'[d])
    <3>1. CASE d # This BY <1>1, <1>5, <1>6, <3>1 DEF MarkInv
    <3>2. CASE d = This
      <4>1. w[1] # None => SoundAt(d, w[1], w[2]) BY <1>1, <1>6, <3>2 DEF MarkInv
      <4> QED BY <1>5, <1>6, <3>2, <4>1
    <3> QED BY <3>1, <3>2
  <2>2. PICK x, v : x = mark'[d] /\ v = body'[d] OBVIOUS
  <2>3. SoundAt(d, x, v)' BY <1>4, <2>1, <2>2
  <2> QED BY <2>2, <2>3
<1>7. MarkInv' BY <1>5, <1>6 DEF MarkInv, Definition
<1>8. WriteInv' BY DEF WriteInv
<1> QED BY <1>2, <1>3, <1>7, <1>8 DEF MarksInv

LEMMA ApplyKeeps == ASSUME MarksInv, Apply \/ ApplyFails PROVE MarksInv'
<1>1. GateInv BY DEF MarksInv
<1>2. CASE Apply
  <2>1. GateInv' /\ at'["projection"] = "out" BY <1>1, <1>2, ProjectionMoves DEF Apply
  <2>2. job' = Advanced(TRUE) BY <1>2 DEF Apply, Succeeds
  <2> DEFINE w == <<job.write.new, job.write.value>>
  <2>3. /\ mark' = [mark EXCEPT ![This] = w[1]] /\ body' = [body EXCEPT ![This] = w[2]]
        /\ at["projection"] = "in" /\ UNCHANGED <<ledger, clock>>
    BY <1>2 DEF Apply
  <2>4. w \in {<<mark[This], body[This]>>, <<job.write.new, job.write.value>>} OBVIOUS
  <2> HIDE DEF w
  <2> QED BY <2>1, <2>2, <2>3, <2>4, WrittenKeeps
<1>3. CASE ApplyFails
  <2>1. GateInv' /\ at'["projection"] = "out" BY <1>1, <1>3, ProjectionMoves DEF ApplyFails
  <2>2. job' = Advanced(FALSE) BY <1>3 DEF ApplyFails, Fails
  <2>3. PICK w \in FailedWrites(This) :
          mark' = [mark EXCEPT ![This] = w[1]] /\ body' = [body EXCEPT ![This] = w[2]]
    BY <1>3 DEF ApplyFails
  <2>4. at["projection"] = "in" /\ UNCHANGED <<ledger, clock>> BY <1>3 DEF ApplyFails
  <2>5. w \in {<<mark[This], body[This]>>, <<job.write.new, job.write.value>>}
    BY <2>3 DEF FailedWrites
  <2> QED BY <2>1, <2>2, <2>3, <2>4, <2>5, WrittenKeeps
<1> QED BY <1>2, <1>3

\* The other steps of the holder, and the process that stops or dies.
LEMMA HolderKeeps ==
    ASSUME MarksInv,
           \/ SkipGroup \/ UpdateRefused \/ UpdateNotNeeded \/ UpdateUnreadable
           \/ ProjectionCancelled \/ Unlock \/ Wait \/ Crash
    PROVE  MarksInv'
<1>1. GateInv /\ WriteInv /\ clock \in Nat BY DEF MarksInv, LedgerInv
<1>2. CASE SkipGroup \/ UpdateRefused \/ UpdateNotNeeded \/ UpdateUnreadable
  <2>1. /\ UNCHANGED <<gateVars, stored, clock>> /\ job # NoJob /\ at["projection"] = "out"
        /\ job' = Advanced(TRUE) \/ job' = Advanced(FALSE)
    BY <1>2 DEF SkipGroup, UpdateRefused, UpdateNotNeeded, UpdateUnreadable, Updating,
       Succeeds, Fails
  <2>2. GateInv' /\ at' = at BY <1>1, <2>1, GateRests
  <2> QED BY <1>1, <2>1, <2>2, AdvanceKeeps
<1>3. CASE ProjectionCancelled
  <2>1. /\ UNCHANGED <<stored, clock>> /\ Cancel("projection") /\ job' = Advanced(FALSE)
    BY <1>3 DEF ProjectionCancelled, Fails
  <2>2. GateInv' /\ at'["projection"] = "out" BY <1>1, <2>1, ProjectionMoves
  <2>3. job # NoJob BY <1>1, <2>1 DEF Cancel, WriteInv
  <2> QED BY <1>1, <2>1, <2>2, <2>3, AdvanceKeeps
<1>4. CASE Unlock
  <2>1. /\ UNCHANGED <<gateVars, stored, clock>> /\ job.todo = <<>> /\ job' = NoJob
    BY <1>4 DEF Unlock, Forgotten
  <2>2. GateInv' /\ at'["projection"] = "out" BY <1>1, <2>1, GateRests DEF WriteInv
  <2> QED BY <1>1, <2>1, <2>2, AdvanceKeeps
<1>5. CASE Wait
  <2>1. /\ UNCHANGED <<gateVars, stored, clock>> /\ job = NoJob /\ job' = NoJob
    BY <1>5 DEF Wait, Forgotten
  <2>2. GateInv' /\ at'["projection"] = "out" BY <1>1, <2>1, GateRests DEF WriteInv
  <2> QED BY <1>1, <2>1, <2>2, AdvanceKeeps
<1>6. CASE Crash
  <2>1. /\ UNCHANGED <<stored, clock>> /\ job' = NoJob
        /\ active' = FALSE /\ highWaiting' = 0 /\ at' = [p \in Caller |-> "out"]
    BY <1>6 DEF Crash, Forgotten
  <2>2. GateInv' /\ at'["projection"] = "out" BY <2>1, GateEmpty
  <2> QED BY <1>1, <2>1, <2>2, AdvanceKeeps
<1> QED BY <1>2, <1>3, <1>4, <1>5, <1>6

\* Passes begin.
LEMMA PassKeeps ==
    ASSUME MarksInv,
           \/ Starting \/ TakeNotification \/ Retry \/ AsOfTick
           \/ ReconcileServiceRequiredResident \/ \E d \in Units : ScanTick(d)
    PROVE  MarksInv'
<1> USE DEF Idle
<1>1. CASE PreflightContentReferences BY <1>1, LockKeeps DEF PreflightContentReferences
<1>2. CASE PreflightServiceResident BY <1>2, LockKeeps DEF PreflightServiceResident
<1>3. CASE StartupReconcile BY <1>3, LockKeeps DEF StartupReconcile
<1>4. ASSUME NEW S, Rebuild(S) PROVE MarksInv' BY <1>4, LockKeeps DEF Rebuild
<1>5. CASE TakeNotification BY <1>5, LockKeeps DEF TakeNotification
<1>6. CASE Retry BY <1>6, LockKeeps DEF Retry
<1>7. CASE AsOfTick BY <1>7, LockKeeps DEF AsOfTick
<1>8. CASE ReconcileServiceRequiredResident
  BY <1>8, LockKeeps DEF ReconcileServiceRequiredResident
<1>9. ASSUME NEW d \in Units, ScanTick(d) PROVE MarksInv' BY <1>9, LockKeeps DEF ScanTick
<1> QED BY <1>1, <1>2, <1>3, <1>4, <1>5, <1>6, <1>7, <1>8, <1>9 DEF Starting

\* Steps beside the holder: the process, the clock, a retry, the gate.
LEMMA BesideKeeps ==
    ASSUME MarksInv,
           \/ Boot \/ Stop \/ Tick \/ ClockBack \/ ProjectionRechecks \/ UNCHANGED vars
           \/ \E s \in timers : TakeRetry(s)
    PROVE  MarksInv'
<1>1. GateInv /\ LedgerInv /\ WriteInv /\ JobInv /\ clock \in Nat BY DEF MarksInv, LedgerInv
<1>2. UNCHANGED <<stored, job>> /\ clock' \in Nat
  <2>1. CASE Boot \/ Stop \/ ProjectionRechecks \/ UNCHANGED vars
    BY <1>1, <2>1 DEF Boot, Stop, ProjectionRechecks, vars
  <2>2. CASE Tick \/ ClockBack BY <1>1, <2>2 DEF Tick, ClockBack
  <2>3. ASSUME NEW s \in timers, TakeRetry(s) PROVE UNCHANGED <<stored, job>> /\ clock' \in Nat
    BY <1>1, <2>3 DEF TakeRetry
  <2> QED BY <2>1, <2>2, <2>3
<1>3. GateInv' /\ (at'["projection"] = "out" \/ at["projection"] # "out")
  <2>1. CASE ProjectionRechecks
    BY <1>1, <2>1, ProjectionMoves DEF ProjectionRechecks, Recheck
  <2>2. CASE UNCHANGED gateVars BY <1>1, <2>2, GateRests
  <2> QED BY <2>1, <2>2 DEF Boot, Stop, Tick, ClockBack, TakeRetry, vars
<1>4. JobInv'
  <2>1. [at |-> 0, policy |-> TRUE] \in Row BY DEF Row
  <2> QED BY <1>1, <1>2, <2>1, JobStays DEF stored
<1> QED BY <1>2, <1>3, <1>4, LedgerStands

\* The other writers; a Canonical commit is the only step that extends the ledger.
LEMMA WritersKeep ==
    ASSUME MarksInv,
           \/ CanonicalEnters \/ OperationalEnters
           \/ \E p \in High : HighStep(p) \/ HighCancelled(p)
    PROVE  MarksInv'
<1> DEFINE row == [at |-> Max({clock, ledger[HeadSeq].at + 1}),
                   policy |-> HeadSeq + 1 \in Activations]
<1>1. GateInv /\ LedgerInv /\ JobInv /\ clock \in Nat BY DEF MarksInv, LedgerInv
<1>2. /\ Elsewhere /\ ledger' \in {ledger, Append(ledger, row)}
      /\ \E p \in High : Enter(p) \/ Recheck(p) \/ Cancel(p) \/ releaseFunc(p)
  <2>1. CASE CanonicalEnters BY <2>1, Callers DEF CanonicalEnters
  <2>2. CASE OperationalEnters BY <2>2, Callers DEF OperationalEnters
  <2>3. ASSUME NEW p \in High, HighRechecks(p) \/ HighCancelled(p)
        PROVE  /\ Elsewhere /\ ledger' \in {ledger, Append(ledger, row)}
               /\ \E q \in High : Enter(q) \/ Recheck(q) \/ Cancel(q) \/ releaseFunc(q)
    BY <2>3 DEF HighRechecks, HighCancelled
  <2>4. CASE CanonicalCommits BY <2>4, Callers DEF CanonicalCommits
  <2>5. CASE OperationalEnds BY <2>5, Callers DEF OperationalEnds
  <2> QED BY <2>1, <2>2, <2>3, <2>4, <2>5 DEF HighStep
<1>3. row \in Row
  <2>1. HeadSeq \in Nat /\ HeadSeq >= 1 BY <1>1 DEF LedgerInv, HeadSeq
  <2>2. ledger[HeadSeq] \in Row BY <1>1, <2>1 DEF LedgerInv, HeadSeq
  <2>3. ledger[HeadSeq].at + 1 \in Nat BY <2>2 DEF Row
  <2>4. Max({clock, ledger[HeadSeq].at + 1}) \in Nat BY <1>1, <2>3, MaxOfTwo
  <2>5. (HeadSeq + 1 \in Activations) \in BOOLEAN OBVIOUS
  <2> QED BY <2>4, <2>5 DEF Row
<1> HIDE DEF row
<1>4. UNCHANGED <<mark, body, job, clock>> BY <1>2 DEF Elsewhere
<1>5. LedgerInv'
  <2>1. ledger' \in Seq(Row) /\ Len(ledger') >= 1
    BY <1>1, <1>2, <1>3 DEF LedgerInv, HeadSeq
  <2> QED BY <1>1, <1>4, <2>1 DEF LedgerInv, HeadSeq
<1>6. GateInv' /\ (at'["projection"] = "out" <=> at["projection"] = "out")
  BY <1>1, <1>2, HighLeaves
<1>7. JobInv' BY <1>1, <1>2, <1>3, <1>4, JobStays
<1> QED BY <1>2, <1>3, <1>4, <1>5, <1>6, <1>7, QuietKeeps

LEMMA MarksStep == MarksInv /\ [Next]_vars => MarksInv'
<1> SUFFICES ASSUME MarksInv, [Next]_vars PROVE MarksInv' OBVIOUS
<1>1. CASE JobStep
  BY <1>1, HolderKeeps, EntersKeeps, BesideKeeps, ApplyKeeps DEF JobStep
<1>2. CASE UpdateUnreadable \/ ProjectionCancelled \/ Wait \/ Crash BY <1>2, HolderKeeps
<1>3. CASE ApplyFails BY <1>3, ApplyKeeps
<1>4. CASE Starting \/ TakeNotification \/ Retry \/ AsOfTick
           \/ ReconcileServiceRequiredResident \/ \E d \in Units : ScanTick(d)
  BY <1>4, PassKeeps
<1>5. CASE Boot \/ Stop \/ Tick \/ ClockBack \/ UNCHANGED vars \/ \E s \in timers : TakeRetry(s)
  BY <1>5, BesideKeeps
<1>6. CASE CanonicalEnters \/ OperationalEnters
           \/ \E p \in High : HighStep(p) \/ HighCancelled(p)
  BY <1>6, WritersKeep
<1> QED BY <1>1, <1>2, <1>3, <1>4, <1>5, <1>6 DEF Next

LEMMA InitMarks == Init => MarksInv
<1> SUFFICES ASSUME Init PROVE MarksInv OBVIOUS
<1>1. GateInv /\ at["projection"] = "out"
  BY GateStarts, Callers DEF Init, GateInit
<1>2. LedgerInv
  <2>1. [at |-> 1, policy |-> TRUE] \in Row BY DEF Row
  <2> QED BY <2>1 DEF Init, LedgerInv, HeadSeq
<1>3. MarkInv BY DEF Init, MarkInv
<1>4. JobInv /\ WriteInv BY <1>1 DEF Init, JobInv, WriteInv
<1> QED BY <1>1, <1>2, <1>3, <1>4 DEF MarksInv

\* Whatever fails, is cancelled or crashes, and however the clock is set: every
\* projection_watermarks row says what its body was evaluated from, lies within
\* the ledger, and names the memory policy that ResolveDependencies finds there.
THEOREM WatermarksAlwaysSound == Spec => []WatermarkSound
<1>1. MarksInv => WatermarkSound
  BY DEF MarksInv, MarkInv, SoundAt, Within, WatermarkSound
<1> QED BY <1>1, InitMarks, MarksStep, PTL DEF Spec

\* What the steps of this module do to the gate: what its callers may do, and the
\* crash, which empties it.
LEMMA GateMoves ==
    ASSUME [Next]_vars
    PROVE  [GateNext]_gateVars \/ at' = [p \in Caller |-> "out"]
<1>1. ASSUME NEW p \in Caller, Enter(p) \/ Recheck(p) \/ Cancel(p) \/ releaseFunc(p)
      PROVE  GateNext
  BY <1>1 DEF GateNext
<1>2. CASE JobStep
  BY <1>1, <1>2, Callers DEF JobStep, SkipGroup, UpdateRefused, UpdateNotNeeded, UpdateEnters,
     ProjectionRechecks, Apply, Unlock
<1>3. CASE UpdateUnreadable \/ ProjectionCancelled \/ ApplyFails
  BY <1>1, <1>3, Callers DEF UpdateUnreadable, ProjectionCancelled, ApplyFails
<1>4. CASE Starting \/ TakeNotification \/ Retry \/ AsOfTick
           \/ ReconcileServiceRequiredResident \/ \E d \in Units : ScanTick(d)
  BY <1>4 DEF Starting, PreflightContentReferences, PreflightServiceResident, StartupReconcile,
     Rebuild, TakeNotification, Retry, AsOfTick, ReconcileServiceRequiredResident, ScanTick, Idle
<1>5. CASE Boot \/ Stop \/ Wait \/ Crash \/ Tick \/ ClockBack \/ UNCHANGED vars
           \/ \E s \in timers : TakeRetry(s)
  BY <1>5 DEF Boot, Stop, Wait, Crash, Tick, ClockBack, TakeRetry, vars
<1>6. CASE CanonicalEnters \/ OperationalEnters
           \/ \E p \in High : HighStep(p) \/ HighCancelled(p)
  BY <1>1, <1>6, Callers DEF CanonicalEnters, OperationalEnters, HighStep, HighRechecks,
     CanonicalCommits, OperationalEnds, HighCancelled
<1> QED BY <1>2, <1>3, <1>4, <1>5, <1>6 DEF Next

\* The gate stays sound, and nobody sleeps in it in vain, in the use that the
\* Coordinator, the Writer and the operational transactions make of it, crashes
\* included.
THEOREM GateSoundInUse == Spec => [](GateSound /\ SleepersHeld)
<1>1. Init => SleepersHeld BY DEF Init, GateInit, SleepersHeld
<1>2. MarksInv /\ SleepersHeld /\ [Next]_vars => SleepersHeld'
  <2> SUFFICES ASSUME MarksInv, SleepersHeld, [Next]_vars PROVE SleepersHeld' OBVIOUS
  <2>1. CASE [GateNext]_gateVars BY <2>1, SleepersStep DEF MarksInv, GateInv
  <2>2. CASE at' = [p \in Caller |-> "out"] BY <2>2 DEF SleepersHeld, Caller
  <2> QED BY <2>1, <2>2, GateMoves
<1>3. MarksInv => GateSound BY DEF MarksInv, GateInv
<1> QED BY <1>1, <1>2, <1>3, InitMarks, MarksStep, PTL DEF Spec

-----------------------------------------------------------------------------
(* The cohort.                                                             *)

Failure == [retryAt : Nat, refresh : BOOLEAN]
Signal == [key : Definition, failure : Failure]

\* What is on record of failures, and what goes on from them.
FailureInv ==
    /\ failures \in [Definition -> Failure \cup {None}]
    /\ timers \subseteq Signal
    /\ wanted \in Signal \cup {None}

PassInv == job # NoJob => job.todo \in Seq(Definition) /\ job.refresh \in BOOLEAN

\* A write in the gate ends at the target of its pass.
Reaches(w, d) ==
    /\ w \in [seq : Nat, asOf : Nat, policy : Nat]
    /\ w.seq = TargetOf(d).seq
    /\ d \in Timed => w.asOf = TargetOf(d).asOf
WriteReaches == at["projection"] # "out" => Reaches(job.write.new, This)

Together ==
    /\ mark["claim"] # None /\ mark["runtime"] # None
    /\ mark["claim"].asOf = mark["runtime"].asOf
    /\ mark["claim"].seq = mark["runtime"].seq

SomeFailure == \E d \in Timed : failures[d] # None

Comes(todo, d) == \E k \in 1..Len(todo) : todo[k] = d

\* The pass has come to d, has failed at it, or will come to it.
AtCohort(d) == mark[d] # None /\ mark[d].seq = job.cohort.seq /\ mark[d].asOf = job.cohort.asOf
ToCome(d) == Comes(job.todo, d)
Owed(d) == ToCome(d) \/ failures[d] # None \/ AtCohort(d)

\* A pass of the running Coordinator covers the cohort as a whole or leaves it
\* as a whole alone.
CohortInv ==
    /\ phase = "running" /\ job = NoJob => SomeFailure \/ Together
    /\ job # NoJob /\ job.kind \notin {"preflight", "rebuild"} =>
          \/ \A d \in Timed : Owed(d)
          \/ (\A d \in Timed : ~ToCome(d)) /\ (SomeFailure \/ Together)

\* The inductive invariant, beside MarksInv.
TogetherInv == FailureInv /\ PassInv /\ WriteReaches /\ CohortInv

\* A non-empty set of naturals has a least element.
LEMMA LeastNat ==
    ASSUME NEW S, S \subseteq Nat, S # {}
    PROVE  \E x \in S : \A y \in S : x <= y
<1>1. PICK x \in S : \A y \in S : ~(<<y, x>> \in OpToRel(<, Nat))
  BY NatLessThanWellFounded, WFMin
<1>2. \A y \in S : ~(y < x) BY <1>1 DEF OpToRel
<1> QED BY <1>2

\* A non-empty set of naturals with a bound has a greatest element.
LEMMA GreatestNat ==
    ASSUME NEW S, S \subseteq Nat, S # {}, NEW n \in Nat, \A x \in S : x <= n
    PROVE  Max(S) \in S /\ \A x \in S : x <= Max(S)
<1> DEFINE B == {b \in Nat : \A x \in S : x <= b}
<1>1. B \subseteq Nat /\ B # {} OBVIOUS
<1>2. PICK b \in B : \A c \in B : b <= c BY <1>1, LeastNat
<1>3. b \in S
  <2> SUFFICES ASSUME b \notin S PROVE FALSE OBVIOUS
  <2>1. PICK x \in S : TRUE OBVIOUS
  <2>2. b \in Nat /\ b # 0 /\ b - 1 \in Nat BY <2>1, <1>2
  <2>3. \A y \in S : y <= b - 1 BY <2>2, <1>2
  <2>4. b - 1 \in B BY <2>2, <2>3
  <2> QED BY <2>2, <2>4, <1>2
<1>4. \E x \in S : \A y \in S : x >= y BY <1>2, <1>3
<1>5. Max(S) \in S /\ \A y \in S : Max(S) >= y BY <1>4 DEF Max
<1> QED BY <1>5

\* An enumeration of a finite set is a sequence of its members.
LEMMA SetToSeqType ==
    ASSUME NEW S, IsFiniteSet(S)
    PROVE  SetToSeq(S) \in Seq(S)
<1>1. Cardinality(S) \in Nat /\ ExistsBijection(1..Cardinality(S), S) BY FS_CardinalityType
<1>2. \E f \in [1..Cardinality(S) -> S] : IsInjective(f)
  BY <1>1 DEF ExistsBijection, Bijection, Injection
<1>3. SetToSeq(S) \in [1..Cardinality(S) -> S] BY <1>2 DEF SetToSeq
<1> QED BY <1>1, <1>3

LEMMA PolicyType ==
    ASSUME NEW d, NEW t, Within(t), LedgerInv
    PROVE  ResolveDependencies(d, t) \in Nat
<1> DEFINE S == {i \in 1..t.seq : ledger[i].policy /\ ledger[i].at <= t.asOf} \cup {0}
<1>1. t.seq \in Nat BY DEF Within, LedgerInv, HeadSeq
<1>2. S \subseteq Nat /\ S # {} /\ \A x \in S : x <= t.seq BY <1>1
<1>3. Max(S) \in Nat
  <2> HIDE DEF S
  <2> QED BY <1>1, <1>2, GreatestNat
<1> QED BY <1>3 DEF ResolveDependencies, resolveMemoryPolicyDependency

-----------------------------------------------------------------------------
(* What a pass has to do.                                                  *)

\* The members of a concatenation are those of its parts.
LEMMA ConcatMembers ==
    ASSUME NEW S, NEW a \in Seq(S), NEW b \in Seq(S), NEW x
    PROVE  /\ a \o b \in Seq(S)
           /\ Comes(a \o b, x) <=> Comes(a, x) \/ Comes(b, x)
<1>1. /\ a \o b \in Seq(S) /\ Len(a \o b) = Len(a) + Len(b)
      /\ Len(a) \in Nat /\ Len(b) \in Nat
      /\ \A k \in 1..Len(a) + Len(b) : (a \o b)[k] = IF k <= Len(a) THEN a[k] ELSE b[k - Len(a)]
  BY ConcatProperties
<1>2. ASSUME NEW k \in 1..Len(a), a[k] = x PROVE \E j \in 1..Len(a \o b) : (a \o b)[j] = x
  <2>1. k \in 1..Len(a \o b) /\ (a \o b)[k] = x BY <1>1, <1>2
  <2> QED BY <2>1
<1>3. ASSUME NEW k \in 1..Len(b), b[k] = x PROVE \E j \in 1..Len(a \o b) : (a \o b)[j] = x
  <2>1. k + Len(a) \in 1..Len(a \o b) /\ (a \o b)[k + Len(a)] = x BY <1>1, <1>3
  <2> QED BY <2>1
<1>4. ASSUME NEW k \in 1..Len(a \o b), (a \o b)[k] = x
      PROVE  (\E j \in 1..Len(a) : a[j] = x) \/ (\E j \in 1..Len(b) : b[j] = x)
  <2>1. CASE k <= Len(a)
    <3>1. k \in 1..Len(a) /\ a[k] = x BY <1>1, <1>4, <2>1
    <3> QED BY <3>1
  <2>2. CASE ~(k <= Len(a))
    <3>1. k - Len(a) \in 1..Len(b) /\ b[k - Len(a)] = x BY <1>1, <1>4, <2>2
    <3> QED BY <3>1
  <2> QED BY <2>1, <2>2
<1> QED BY <1>1, <1>2, <1>3, <1>4 DEF Comes

\* Whoever is to come and is not first is still to come behind the first.
LEMMA TailMembers ==
    ASSUME NEW S, NEW s \in Seq(S), s # <<>>, NEW x
    PROVE  /\ Tail(s) \in Seq(S) /\ Head(s) \in S
           /\ x # Head(s) /\ Comes(s, x) => Comes(Tail(s), x)
           /\ Comes(Tail(s), x) => Comes(s, x)
           /\ Comes(s, Head(s))
<1>1. /\ Tail(s) \in Seq(S) /\ Head(s) \in S /\ Len(s) \in Nat /\ Len(s) >= 1
      /\ Len(Tail(s)) = Len(s) - 1 /\ Head(s) = s[1]
      /\ \A k \in 1..Len(Tail(s)) : Tail(s)[k] = s[k + 1]
  BY HeadTailProperties
<1>2. ASSUME x # Head(s), NEW k \in 1..Len(s), s[k] = x
      PROVE  \E j \in 1..Len(Tail(s)) : Tail(s)[j] = x
  <2>1. k - 1 \in 1..Len(Tail(s)) /\ Tail(s)[k - 1] = x BY <1>1, <1>2
  <2> QED BY <2>1
<1>3. ASSUME NEW k \in 1..Len(Tail(s)), Tail(s)[k] = x
      PROVE  \E j \in 1..Len(s) : s[j] = x
  <2>1. k + 1 \in 1..Len(s) /\ s[k + 1] = x BY <1>1, <1>3
  <2> QED BY <2>1
<1>4. 1 \in 1..Len(s) /\ s[1] = Head(s) BY <1>1
<1> QED BY <1>1, <1>2, <1>3, <1>4 DEF Comes

\* Plain definitions, in any order.
LEMMA PlainPass ==
    ASSUME NEW S, S \subseteq Plain
    PROVE  /\ SetToSeq(S) \in Seq(Definition)
           /\ \A d \in Timed : ~Comes(SetToSeq(S), d)
<1>1. IsFiniteSet(S) BY PlainAssumption, FS_Subset
<1>2. SetToSeq(S) \in Seq(S) BY <1>1, SetToSeqType
<1>3. \A k \in 1..Len(SetToSeq(S)) : SetToSeq(S)[k] \in S BY <1>2
<1>4. S \subseteq Definition BY DEF Definition
<1>5. SetToSeq(S) \in Seq(Definition) BY <1>2, <1>4, SeqMonotonic
<1> QED BY <1>3, <1>5, PlainAssumption DEF Timed, Comes

\* A pass covers the cohort as a whole, or leaves it out because nobody asked
\* for it or a retry of a member is to come.
LEMMA ReconcilePass ==
    ASSUME NEW automatic, NEW S
    PROVE  LET todo == reconcileGroups(automatic, S)
           IN  /\ todo \in Seq(Definition)
               /\ \/ \A d \in Timed : Comes(todo, d)
                  \/ (\A d \in Timed : ~Comes(todo, d)) /\ (S \cap Timed = {} \/ SomeFailure)
<1> DEFINE plain == SetToSeq(S \cap Plain)
           both == <<"claim", "runtime">>
           group == IF S \cap Timed = {} THEN <<>> ELSE WithoutRetries(automatic, both)
<1>1. plain \in Seq(Definition) /\ \A d \in Timed : ~Comes(plain, d) BY PlainPass
<1>2. both \in Seq(Definition) /\ <<>> \in Seq(Definition) BY DEF Definition, Timed
<1>3. /\ \A d \in Timed : Comes(both, d)
      /\ \A d \in Timed : ~Comes(<<>>, d)
  <2>1. 1 \in 1..Len(both) /\ 2 \in 1..Len(both) /\ both[1] = "claim" /\ both[2] = "runtime"
    OBVIOUS
  <2>2. Comes(both, "claim") /\ Comes(both, "runtime") BY <2>1 DEF Comes
  <2> QED BY <2>2 DEF Comes, Timed
<1>4. group = both \/ (group = <<>> /\ (S \cap Timed = {} \/ SomeFailure))
  <2>1. ASSUME NEW d \in Range(both), groupRetryPending(d) PROVE SomeFailure
    <3>1. d \in Timed BY <2>1 DEF Range, Timed
    <3> QED BY <2>1, <3>1 DEF groupRetryPending, GroupOf, retryPending, SomeFailure
  <2> QED BY <2>1 DEF WithoutRetries
<1>5. reconcileGroups(automatic, S) = group \o plain BY DEF reconcileGroups
<1> HIDE DEF plain, both, group
<1>6. group \in Seq(Definition) BY <1>2, <1>4
<1>7. group \o plain \in Seq(Definition) BY <1>1, <1>6, ConcatMembers
<1>8. ASSUME NEW d PROVE Comes(group \o plain, d) <=> Comes(group, d) \/ Comes(plain, d)
  BY <1>1, <1>6, ConcatMembers
<1> QED BY <1>1, <1>3, <1>4, <1>5, <1>7, <1>8

\* A turn and the preflights.
LEMMA TurnPass ==
    /\ TurnOrder \in Seq(Definition) /\ \A d \in Timed : Comes(TurnOrder, d)
    /\ <<"claim">> \o SetToSeq(Required) \o <<"runtime">> \in Seq(Definition)
    /\ SetToSeq(Plain \ Required) \in Seq(Definition)
<1>1. SetToSeq(Required) \in Seq(Definition) /\ SetToSeq(Plain \ Required) \in Seq(Definition)
  BY PlainPass, PlainAssumption
<1> DEFINE both == <<"runtime", "claim">>
<1>2. both \in Seq(Definition) /\ <<"claim">> \in Seq(Definition) /\ <<"runtime">> \in Seq(Definition)
  BY DEF Definition, Timed
<1>3. \A d \in Timed : Comes(both, d)
  <2>1. 1 \in 1..Len(both) /\ 2 \in 1..Len(both) /\ both[1] = "runtime" /\ both[2] = "claim"
    OBVIOUS
  <2>2. Comes(both, "claim") /\ Comes(both, "runtime") BY <2>1 DEF Comes
  <2> QED BY <2>2 DEF Timed
<1>4. TurnOrder = SetToSeq(Required) \o both BY DEF TurnOrder
<1> HIDE DEF both
<1>5. TurnOrder \in Seq(Definition) /\ \A d \in Timed : Comes(TurnOrder, d)
  BY <1>1, <1>2, <1>3, <1>4, ConcatMembers
<1>6. <<"claim">> \o SetToSeq(Required) \o <<"runtime">> \in Seq(Definition)
  <2>1. PICK a \in Seq(Definition) : a = <<"claim">> \o SetToSeq(Required) BY <1>1, <1>2, ConcatProperties
  <2>2. a \o <<"runtime">> \in Seq(Definition) BY <1>2, ConcatProperties
  <2> QED BY <2>1, <2>2
<1> QED BY <1>1, <1>5, <1>6

-----------------------------------------------------------------------------
(* Steps and the cohort.                                                   *)

\* Who takes the lock.
LEMMA LockTogether ==
    ASSUME MarksInv, TogetherInv,
           UNCHANGED <<gateVars, stored, retrying>>, wanted' \in {wanted, None},
           NEW kind, NEW automatic, NEW refresh \in BOOLEAN, NEW force, kind # "none",
           NEW todo \in Seq(Definition), Lock(kind, automatic, refresh, force, todo),
           \/ kind \in {"preflight", "rebuild"}
           \/ \A d \in Timed : Comes(todo, d)
           \/ (\A d \in Timed : ~Comes(todo, d)) /\ (SomeFailure \/ Together)
    PROVE  TogetherInv'
<1>1. job'.kind = kind /\ job'.todo = todo /\ job'.refresh = refresh BY DEF Lock
<1>2. job' # NoJob BY <1>1 DEF NoJob
<1>3. at["projection"] = "out" BY DEF MarksInv, WriteInv, Lock
<1>4. /\ UNCHANGED <<at, failures, timers, mark>>
  BY DEF gateVars, stored, retrying
<1>5. FailureInv' BY <1>4 DEF TogetherInv, FailureInv, Definition, Timed, Signal, Failure
<1>6. PassInv' BY <1>1 DEF PassInv, Definition, Timed
<1>7. WriteReaches' BY <1>3, <1>4 DEF WriteReaches
<1>8. CohortInv'
  <2>1. \A d \in Timed : Comes(todo, d) => Owed(d)' BY <1>1 DEF Owed, ToCome, Comes
  <2>2. \A d \in Timed : ~Comes(todo, d) => ~ToCome(d)' BY <1>1 DEF ToCome, Comes
  <2>3. SomeFailure \/ Together => SomeFailure' \/ Together' BY <1>4 DEF SomeFailure, Together, Timed
  <2> QED BY <1>1, <1>2, <2>1, <2>2, <2>3 DEF CohortInv, NoJob, Timed
<1> QED BY <1>5, <1>6, <1>7, <1>8 DEF TogetherInv

LEMMA PassTogether ==
    ASSUME MarksInv, TogetherInv,
           \/ Starting \/ TakeNotification \/ Retry \/ AsOfTick
           \/ ReconcileServiceRequiredResident \/ \E d \in Units : ScanTick(d)
    PROVE  TogetherInv'
<1>1. FailureInv /\ CohortInv BY DEF TogetherInv
<1>2. CASE PreflightContentReferences \/ PreflightServiceResident
  <2> DEFINE a == SetToSeq(Plain \ Required)
             b == <<"claim">> \o SetToSeq(Required) \o <<"runtime">>
  <2>1. a \in Seq(Definition) /\ b \in Seq(Definition) BY TurnPass
  <2>2. /\ UNCHANGED <<gateVars, stored, retrying>> /\ wanted' \in {wanted, None}
        /\ \/ Lock("preflight", FALSE, TRUE, FALSE, a)
           \/ Lock("preflight", FALSE, TRUE, FALSE, b)
    BY <1>2 DEF PreflightContentReferences, PreflightServiceResident, Idle, loop
  <2> HIDE DEF a, b
  <2> QED BY <2>1, <2>2, LockTogether
<1>3. ASSUME NEW S, Rebuild(S) PROVE TogetherInv'
  <2> DEFINE a == reconcileGroups(FALSE, S)
  <2>1. a \in Seq(Definition) BY ReconcilePass
  <2>2. /\ UNCHANGED <<gateVars, stored, retrying>> /\ wanted' \in {wanted, None}
        /\ Lock("rebuild", FALSE, TRUE, TRUE, a)
    BY <1>3 DEF Rebuild, Idle, loop
  <2> HIDE DEF a
  <2> QED BY <2>1, <2>2, LockTogether
<1>4. CASE ReconcileServiceRequiredResident
  <2>1. TurnOrder \in Seq(Definition) /\ \A d \in Timed : Comes(TurnOrder, d) BY TurnPass
  <2>2. /\ UNCHANGED <<gateVars, stored, retrying>> /\ wanted' \in {wanted, None}
        /\ Lock("turn", FALSE, TRUE, FALSE, TurnOrder)
    BY <1>4 DEF ReconcileServiceRequiredResident, Idle, loop
  <2> QED BY <2>1, <2>2, LockTogether
<1>5. ASSUME NEW kind, kind # "none", NEW automatic \in BOOLEAN, NEW refresh \in BOOLEAN, NEW S,
             S \cap Timed # {} \/ phase = "running",
             UNCHANGED <<gateVars, stored, retrying>>, wanted' \in {wanted, None},
             Lock(kind, automatic, refresh, FALSE, reconcileGroups(automatic, S))
      PROVE  TogetherInv'
  <2> DEFINE a == reconcileGroups(automatic, S)
  <2>1. /\ a \in Seq(Definition)
        /\ \/ \A d \in Timed : Comes(a, d)
           \/ (\A d \in Timed : ~Comes(a, d)) /\ (S \cap Timed = {} \/ SomeFailure)
    BY ReconcilePass
  <2>2. Lock(kind, automatic, refresh, FALSE, a) BY <1>5
  <2>3. phase = "running" => SomeFailure \/ Together BY <1>1, <1>5 DEF CohortInv, Lock
  <2> HIDE DEF a
  <2> QED BY <1>5, <2>1, <2>2, <2>3, LockTogether
<1>6. Definition \cap Timed # {} /\ Timed \cap Timed # {} BY DEF Definition, Timed
<1>7. CASE StartupReconcile
  BY <1>5, <1>6, <1>7 DEF StartupReconcile, Idle, loop
<1>8. CASE TakeNotification BY <1>5, <1>6, <1>8 DEF TakeNotification, Idle
<1>9. CASE AsOfTick BY <1>5, <1>6, <1>9 DEF AsOfTick, Idle, loop
<1>10. ASSUME NEW d \in Units, ScanTick(d) PROVE TogetherInv'
  BY <1>5, <1>10 DEF ScanTick, Idle, loop
<1>11. CASE Retry
  <2>1. wanted.failure.refresh \in BOOLEAN
    BY <1>1, <1>11 DEF FailureInv, Retry, Signal, Failure
  <2> QED BY <1>5, <1>11, <2>1 DEF Retry, Idle
<1> QED BY <1>2, <1>3, <1>4, <1>7, <1>8, <1>9, <1>10, <1>11 DEF Starting

\* The holder goes on from a definition: it is at the cohort's target, or its
\* failure is on record.
LEMMA AdvanceTogether ==
    ASSUME MarksInv, TogetherInv, job # NoJob, job.todo # <<>>,
           NEW ok \in BOOLEAN, job' = Advanced(ok), at'["projection"] = "out",
           UNCHANGED phase, FailureInv',
           \A d \in Timed : d # This => UNCHANGED <<failures[d], mark[d]>>,
           This \in Timed =>
              \/ failures'[This] # None
              \/ /\ mark'[This] # None
                 /\ mark'[This].seq = job.cohort.seq /\ mark'[This].asOf = job.cohort.asOf
    PROVE  TogetherInv'
<1>1. IsJob(job) BY DEF MarksInv, JobInv
<1>2. /\ job'.kind = job.kind /\ job'.refresh = job.refresh /\ job'.cohort = job.cohort
      /\ job.kind # "preflight" => job'.todo = Tail(job.todo)
      /\ job'.todo \in {<<>>, Tail(job.todo)} /\ job'.kind # "none"
  BY <1>1, JobFields DEF IsJob
<1>3. job.todo \in Seq(Definition) /\ job.refresh \in BOOLEAN BY DEF TogetherInv, PassInv
<1>4. /\ Tail(job.todo) \in Seq(Definition)
      /\ \A d : d # This /\ ToCome(d) => Comes(Tail(job.todo), d)
      /\ \A d : Comes(Tail(job.todo), d) => ToCome(d)
      /\ ToCome(This)
  BY <1>3, TailMembers DEF This, ToCome
<1>5. PassInv'
  <2>1. <<>> \in Seq(Definition) OBVIOUS
  <2>2. job'.todo \in Seq(Definition) BY <1>2, <1>4, <2>1
  <2> QED BY <1>2, <1>3, <2>2 DEF PassInv, Definition, Timed
<1>6. WriteReaches' BY DEF WriteReaches
<1>7. job' # NoJob BY <1>2 DEF NoJob
<1>8. CohortInv'
  <2> SUFFICES ASSUME job.kind \notin {"preflight", "rebuild"}
               PROVE  \/ \A d \in Timed : Owed(d)'
                      \/ (\A d \in Timed : ~ToCome(d)') /\ (SomeFailure' \/ Together')
    BY <1>2, <1>7 DEF CohortInv, NoJob, Timed
  <2>1. job'.todo = Tail(job.todo) BY <1>2
  <2>2. ASSUME NEW d PROVE ToCome(d)' <=> Comes(Tail(job.todo), d)
    BY <2>1 DEF ToCome, Comes
  <2>3. CASE \A d \in Timed : Owed(d)
    <3>1. ASSUME NEW d \in Timed PROVE Owed(d)'
      <4>1. CASE d = This BY <1>2, <3>1, <4>1 DEF Owed, AtCohort
      <4>2. CASE d # This
        <5>1. Owed(d) /\ UNCHANGED <<failures[d], mark[d]>> BY <2>3, <3>1, <4>2
        <5>2. CASE ToCome(d) BY <1>4, <2>2, <4>2, <5>2 DEF Owed
        <5>3. CASE failures[d] # None BY <5>1, <5>3 DEF Owed
        <5>4. CASE AtCohort(d) BY <1>2, <5>1, <5>4 DEF Owed, AtCohort
        <5> QED BY <5>1, <5>2, <5>3, <5>4 DEF Owed
      <4> QED BY <4>1, <4>2
    <3> QED BY <3>1
  <2>4. CASE (\A d \in Timed : ~ToCome(d)) /\ (SomeFailure \/ Together)
    <3>1. This \notin Timed BY <1>4, <2>4
    <3>2. \A d \in Timed : UNCHANGED <<failures[d], mark[d]>> BY <3>1
    <3>3. SomeFailure' \/ Together'
      <4>1. CASE SomeFailure BY <3>2, <4>1 DEF SomeFailure, Timed
      <4>2. CASE Together
        <5>1. UNCHANGED <<mark["claim"], mark["runtime"]>> BY <3>2 DEF Timed
        <5> QED BY <4>2, <5>1 DEF Together
      <4> QED BY <2>4, <4>1, <4>2
    <3>4. \A d \in Timed : ~ToCome(d)' BY <1>4, <2>2, <2>4
    <3> QED BY <3>3, <3>4
  <2>5. CohortInv BY DEF TogetherInv
  <2> QED BY <2>3, <2>4, <2>5 DEF CohortInv
<1> QED BY <1>5, <1>6, <1>8 DEF TogetherInv

\* A failure goes on record; a success takes it off.
LEMMA FailsTogether ==
    ASSUME LedgerInv, FailureInv, PassInv, job # NoJob, job.todo # <<>>, UNCHANGED <<phase, wanted>>
    PROVE  /\ This \in Definition
           /\ Fails(This) =>
                 /\ FailureInv' /\ failures'[This] # None /\ job' = Advanced(FALSE)
                 /\ \A d \in Timed : d # This => failures'[d] = failures[d]
           /\ Succeeds(This) =>
                 /\ FailureInv' /\ job' = Advanced(TRUE)
                 /\ \A d \in Timed : d # This => failures'[d] = failures[d]
<1>1. This \in Definition /\ job.refresh \in BOOLEAN /\ clock \in Nat
  BY TailMembers DEF PassInv, This, LedgerInv
<1>2. /\ failures \in [Definition -> Failure \cup {None}] /\ Timed \subseteq Definition
      /\ timers \subseteq Signal /\ wanted' \in Signal \cup {None}
  BY DEF FailureInv, Definition
<1>3. ASSUME Fails(This)
      PROVE  /\ FailureInv' /\ failures'[This] # None /\ job' = Advanced(FALSE)
             /\ \A d \in Timed : d # This => failures'[d] = failures[d]
  <2>1. PICK f : f = [retryAt |-> clock + 1, refresh |-> job.refresh] OBVIOUS
  <2>2. f \in Failure /\ f # None BY <1>1, <2>1, NoneAssumption DEF Failure
  <2>3. [key |-> This, failure |-> f] \in Signal BY <1>1, <2>2 DEF Signal
  <2>4. /\ failures' = [failures EXCEPT ![This] = f] /\ job' = Advanced(FALSE)
        /\ timers' \subseteq timers \cup {[key |-> This, failure |-> f]}
    BY <1>3, <2>1 DEF Fails, recordFailure
  <2>5. failures' \in [Definition -> Failure \cup {None}] /\ failures'[This] = f
    BY <1>1, <1>2, <2>2, <2>4
  <2>6. timers' \subseteq Signal BY <1>2, <2>3, <2>4
  <2>7. FailureInv' BY <1>2, <2>5, <2>6 DEF FailureInv, Definition, Timed, Signal, Failure
  <2> QED BY <1>2, <2>2, <2>4, <2>5, <2>7
<1>4. ASSUME Succeeds(This)
      PROVE  /\ FailureInv' /\ job' = Advanced(TRUE)
             /\ \A d \in Timed : d # This => failures'[d] = failures[d]
  <2>1. failures' = [failures EXCEPT ![This] = None] /\ timers' = timers /\ job' = Advanced(TRUE)
    BY <1>4 DEF Succeeds, clearFailure
  <2>2. failures' \in [Definition -> Failure \cup {None}] BY <1>1, <1>2, <2>1
  <2>3. FailureInv' BY <1>2, <2>1, <2>2 DEF FailureInv, Definition, Timed, Signal, Failure
  <2> QED BY <1>2, <2>1, <2>3
<1> QED BY <1>1, <1>3, <1>4

\* A definition that needs no update is at its target already.
LEMMA NotNeededAtTarget ==
    ASSUME LedgerInv, MarkInv, JobInv, job # NoJob, NEW d \in Timed,
           Request(d).plan = UpToDate
    PROVE  mark[d] # None /\ mark[d].seq = job.cohort.seq /\ mark[d].asOf = job.cohort.asOf
<1> DEFINE target == TargetOf(d)
           policy == ResolveDependencies(d, target)
<1>1. target = job.cohort BY DEF TargetOf
<1>2. Within(target) BY TargetWithin
<1>3. Plan(d, mark[d], target, policy, job.force) = UpToDate BY DEF Request
<1> HIDE DEF target, policy
<1>4. mark[d] # None
  BY <1>3 DEF Plan, Full, UpToDate
<1>5. PlanUpdate(d, mark[d], target, policy) = UpToDate
  BY <1>3, <1>4 DEF Plan, Full, UpToDate, Refused
<1>6. Within(mark[d]) BY <1>4 DEF MarkInv, SoundAt, Definition
<1>7. /\ ~(target.asOf < mark[d].asOf) /\ ~(target.seq < mark[d].seq)
      /\ ~(mark[d].seq < target.seq) /\ ~(mark[d].asOf < target.asOf)
  BY <1>5 DEF PlanUpdate, Full, UpToDate, Refused
<1>8. mark[d].seq \in Nat /\ mark[d].asOf \in Nat /\ target.seq \in Nat /\ target.asOf \in Nat
  BY <1>2, <1>6 DEF Within, LedgerInv, HeadSeq
<1> QED BY <1>1, <1>4, <1>7, <1>8

LEMMA HolderTogether ==
    ASSUME MarksInv, TogetherInv,
           \/ SkipGroup \/ UpdateRefused \/ UpdateNotNeeded \/ UpdateUnreadable
           \/ ProjectionCancelled \/ Apply \/ ApplyFails
    PROVE  TogetherInv'
<1>1. /\ GateInv /\ LedgerInv /\ MarkInv /\ JobInv /\ WriteInv
      /\ FailureInv /\ PassInv /\ WriteReaches
  BY DEF MarksInv, TogetherInv
<1>2. Timed \subseteq Definition /\ Plain \cap Timed = {} BY PlainAssumption DEF Definition, Timed
<1>3. CASE SkipGroup
  <2>1. /\ job # NoJob /\ job.todo # <<>> /\ This \in Plain /\ job' = Advanced(TRUE)
        /\ at' = at /\ at["projection"] = "out"
        /\ UNCHANGED <<phase, wanted, failures, timers, mark>>
    BY <1>3 DEF SkipGroup, Updating, Skipped, gateVars, stored, loop, retrying
  <2>2. FailureInv' BY <1>1, <2>1 DEF FailureInv, Definition, Timed, Signal, Failure
  <2> QED BY <1>2, <2>1, <2>2, AdvanceTogether
<1>4. CASE UpdateRefused \/ UpdateUnreadable
  <2>1. /\ job # NoJob /\ job.todo # <<>> /\ Fails(This)
        /\ at' = at /\ at["projection"] = "out" /\ UNCHANGED <<phase, wanted, mark>>
    BY <1>4 DEF UpdateRefused, UpdateUnreadable, Updating, gateVars, stored, loop
  <2> QED BY <1>1, <2>1, FailsTogether, AdvanceTogether
<1>5. CASE UpdateNotNeeded
  <2>1. /\ job # NoJob /\ job.todo # <<>> /\ Succeeds(This) /\ Request(This).plan = UpToDate
        /\ at' = at /\ at["projection"] = "out" /\ UNCHANGED <<phase, wanted, mark>>
    BY <1>5 DEF UpdateNotNeeded, Updating, gateVars, stored, loop
  <2>2. This \in Timed => /\ mark'[This] # None
                          /\ mark'[This].seq = job.cohort.seq
                          /\ mark'[This].asOf = job.cohort.asOf
    BY <1>1, <2>1, NotNeededAtTarget
  <2> QED BY <1>1, <2>1, <2>2, FailsTogether, AdvanceTogether
<1>6. CASE ProjectionCancelled
  <2>1. /\ at["projection"] # "out" /\ at'["projection"] = "out" /\ Fails(This)
        /\ UNCHANGED <<phase, wanted, mark>>
    BY <1>1, <1>6, ProjectionMoves DEF ProjectionCancelled, Cancel, stored, loop
  <2>2. job # NoJob /\ job.todo # <<>> BY <1>1, <2>1 DEF WriteInv
  <2> QED BY <1>1, <2>1, <2>2, FailsTogether, AdvanceTogether
<1>7. CASE Apply
  <2>1. /\ at["projection"] = "in" /\ at'["projection"] = "out" /\ Succeeds(This)
        /\ UNCHANGED <<phase, wanted>> /\ mark' = [mark EXCEPT ![This] = job.write.new]
    BY <1>1, <1>7, ProjectionMoves DEF Apply, loop
  <2>2. job # NoJob /\ job.todo # <<>> BY <1>1, <2>1 DEF WriteInv
  <2>3. mark = [d \in Definition |-> mark[d]] BY <1>1 DEF MarkInv
  <2>4. \A d \in Timed : d # This => mark'[d] = mark[d] BY <1>2, <2>1, <2>3
  <2>5. ASSUME This \in Timed
        PROVE  /\ mark'[This] # None
               /\ mark'[This].seq = job.cohort.seq /\ mark'[This].asOf = job.cohort.asOf
    <3>1. mark'[This] = job.write.new BY <1>2, <2>1, <2>3, <2>5
    <3>2. Reaches(job.write.new, This) BY <1>1, <2>1 DEF WriteReaches
    <3> QED BY <2>5, <3>1, <3>2, NoneAssumption DEF Reaches, TargetOf
  <2> QED BY <1>1, <2>1, <2>2, <2>4, <2>5, FailsTogether, AdvanceTogether
<1>8. CASE ApplyFails
  <2>1. /\ at["projection"] = "in" /\ at'["projection"] = "out" /\ Fails(This)
        /\ UNCHANGED <<phase, wanted>> /\ \E w : mark' = [mark EXCEPT ![This] = w]
    BY <1>1, <1>8, ProjectionMoves DEF ApplyFails, loop
  <2>2. job # NoJob /\ job.todo # <<>> BY <1>1, <2>1 DEF WriteInv
  <2>3. mark = [d \in Definition |-> mark[d]] BY <1>1 DEF MarkInv
  <2>4. \A d \in Timed : d # This => mark'[d] = mark[d] BY <1>2, <2>1, <2>3
  <2> QED BY <1>1, <2>1, <2>2, <2>4, FailsTogether, AdvanceTogether
<1> QED BY <1>3, <1>4, <1>5, <1>6, <1>7, <1>8

\* A write enters the gate; it ends at the target of its pass.
LEMMA EntersTogether == ASSUME MarksInv, TogetherInv, UpdateEnters PROVE TogetherInv'
<1>1. /\ LedgerInv /\ MarkInv /\ JobInv /\ FailureInv /\ PassInv /\ CohortInv
      /\ job # NoJob /\ job.todo # <<>>
      /\ job' = [job EXCEPT !.write = Request(This)]
      /\ Acceptable(This, Request(This)) /\ Request(This).plan # UpToDate
      /\ UNCHANGED <<ledger, mark, phase, wanted, failures, timers>>
  BY DEF MarksInv, TogetherInv, UpdateEnters, Updating, stored, loop, retrying
<1>2. IsJob(job) /\ IsJob(job)' /\ job'.target = job.target /\ job'.cohort = job.cohort
      /\ job'.todo = job.todo /\ job'.write = Request(This)
      /\ job'.kind = job.kind /\ job'.refresh = job.refresh
  BY <1>1, JobFields DEF JobInv, IsJob
<1>3. job' # NoJob /\ This' = This BY <1>2 DEF NoJob, This, IsJob
<1>4. This \in Definition BY <1>1, TailMembers DEF PassInv, This
<1>5. FailureInv' BY <1>1 DEF FailureInv, Definition, Timed, Signal, Failure
<1>6. PassInv' BY <1>1, <1>2 DEF PassInv, Definition, Timed
<1>7. CohortInv'
  <2>1. \A d : (Owed(d)' <=> Owed(d)) /\ (ToCome(d)' <=> ToCome(d))
    BY <1>1, <1>2 DEF Owed, ToCome, Comes, AtCohort
  <2>2. (SomeFailure' <=> SomeFailure) /\ (Together' <=> Together)
    BY <1>1 DEF SomeFailure, Together, Timed
  <2> QED BY <1>1, <1>2, <1>3, <2>1, <2>2 DEF CohortInv, NoJob, Timed
<1>8. Reaches(Request(This).new, This)
  <2> DEFINE old == mark[This]
             target == TargetOf(This)
             policy == ResolveDependencies(This, target)
             plan == Plan(This, old, target, policy, job.force)
  <2>1. Within(target) BY <1>1, TargetWithin
  <2>2. old # None => Within(old) BY <1>1, <1>4 DEF MarkInv, SoundAt
  <2>3. policy \in Nat BY <1>1, <2>1, PolicyType
  <2>4. Request(This).plan = plan /\ Request(This).new = targetWatermark(old, target, policy, plan)
    BY DEF Request
  <2>5. plan \notin {Refused, UpToDate} BY <1>1, <2>4 DEF Acceptable
  <2>6. LET new == targetWatermark(old, target, policy, plan)
        IN  /\ new.seq = target.seq /\ new.policy = policy /\ new.asOf \in Nat
            /\ This \in Timed => new.asOf = target.asOf
    BY <1>1, <2>1, <2>2, <2>5, PlanReaches
  <2>7. target.seq \in Nat BY <1>1, <2>1 DEF Within, LedgerInv, HeadSeq
  <2>8. Request(This).new \in [seq : Nat, asOf : Nat, policy : Nat]
    <3>1. targetWatermark(old, target, policy, plan) =
            [seq |-> targetWatermark(old, target, policy, plan).seq,
             asOf |-> targetWatermark(old, target, policy, plan).asOf,
             policy |-> targetWatermark(old, target, policy, plan).policy]
      BY DEF targetWatermark
    <3> HIDE DEF plan, target, policy, old
    <3> QED BY <2>3, <2>4, <2>6, <2>7, <3>1
  <2> QED BY <2>4, <2>6, <2>8 DEF Reaches
<1>9. WriteReaches'
  <2>1. PICK w, d : w = Request(This).new /\ d = This OBVIOUS
  <2>2. TargetOf(d)' = TargetOf(d) BY <1>2 DEF TargetOf, Timed
  <2>3. Reaches(w, d)' BY <1>8, <2>1, <2>2 DEF Reaches, Timed
  <2>4. job'.write.new = w /\ This' = d BY <1>2, <1>3, <2>1
  <2> QED BY <2>3, <2>4 DEF WriteReaches
<1> QED BY <1>5, <1>6, <1>7, <1>9 DEF TogetherInv

\* The holder leaves, and the process stops or dies.
LEMMA EndTogether ==
    ASSUME MarksInv, TogetherInv, Unlock \/ Wait \/ Crash PROVE TogetherInv'
<1>1. GateInv /\ WriteInv /\ FailureInv /\ PassInv /\ CohortInv BY DEF MarksInv, TogetherInv
<1>2. job' = NoJob BY DEF Unlock, Wait, Crash, Forgotten
<1>3. at'["projection"] = "out"
  <2>1. CASE Unlock BY <1>1, <2>1, GateRests DEF Unlock, WriteInv
  <2>2. CASE Wait BY <1>1, <2>2, GateRests DEF Wait, WriteInv
  <2>3. CASE Crash BY <2>3, GateEmpty DEF Crash
  <2> QED BY <2>1, <2>2, <2>3
<1>4. PassInv' /\ WriteReaches' BY <1>2, <1>3 DEF PassInv, WriteReaches, NoJob
<1>5. CASE Forgotten /\ phase' = "down"
  <2>1. FailureInv' BY <1>5 DEF Forgotten, FailureInv, Definition
  <2>2. CohortInv' BY <1>2, <1>5 DEF CohortInv, NoJob
  <2> QED BY <1>4, <2>1, <2>2 DEF TogetherInv
<1>6. ASSUME Unlock, Outcome # "down" PROVE TogetherInv'
  <2>1. /\ job # NoJob /\ job.todo = <<>> /\ phase' = Outcome
        /\ UNCHANGED <<wanted, failures, timers, mark>>
    BY <1>6 DEF Unlock, loop, retrying, stored
  <2>2. FailureInv' BY <1>1, <2>1 DEF FailureInv, Definition, Timed, Signal, Failure
  <2>3. ASSUME Outcome = "running" PROVE SomeFailure \/ Together
    <3>1. job.kind \notin {"preflight", "rebuild"} BY <2>3 DEF Outcome
    <3>2. \A d : ~ToCome(d) BY <2>1 DEF ToCome, Comes
    <3>3. \/ \A d \in Timed : failures[d] # None \/ AtCohort(d)
          \/ SomeFailure \/ Together
      BY <1>1, <2>1, <3>1, <3>2 DEF CohortInv, Owed
    <3>4. (\A d \in Timed : AtCohort(d)) => Together BY DEF AtCohort, Together, Timed
    <3> QED BY <3>3, <3>4 DEF SomeFailure
  <2>4. CohortInv'
    <3>1. SomeFailure \/ Together => SomeFailure' \/ Together'
      BY <2>1 DEF SomeFailure, Together, Timed
    <3> QED BY <1>2, <2>1, <2>3, <3>1 DEF CohortInv, NoJob
  <2> QED BY <1>4, <2>2, <2>4 DEF TogetherInv
<1> QED BY <1>5, <1>6 DEF Unlock, Wait, Crash

\* Everybody else leaves the watermarks, the failures and the lock alone.
LEMMA BesideTogether ==
    ASSUME MarksInv, TogetherInv,
           \/ Boot \/ Stop \/ Tick \/ ClockBack \/ ProjectionRechecks \/ UNCHANGED vars
           \/ \E s \in timers : TakeRetry(s)
           \/ CanonicalEnters \/ OperationalEnters
           \/ \E p \in High : HighStep(p) \/ HighCancelled(p)
    PROVE  TogetherInv'
<1>1. GateInv /\ FailureInv /\ PassInv /\ WriteReaches /\ CohortInv BY DEF MarksInv, TogetherInv
<1>2. /\ UNCHANGED <<mark, job, failures>>
      /\ phase' = phase \/ phase' # "running"
      /\ timers' \subseteq timers /\ wanted' \in timers \cup {wanted, None}
  <2>1. CASE Boot \/ Stop \/ Tick \/ ClockBack \/ ProjectionRechecks \/ UNCHANGED vars
    BY <2>1 DEF Boot, Stop, Tick, ClockBack, ProjectionRechecks, vars, stored, retrying, loop
  <2>2. ASSUME NEW s \in timers, TakeRetry(s)
        PROVE  /\ UNCHANGED <<mark, job, failures>> /\ phase' = phase
               /\ timers' \subseteq timers /\ wanted' \in timers \cup {wanted, None}
    BY <2>2 DEF TakeRetry, stored
  <2>3. CASE \/ CanonicalEnters \/ OperationalEnters
             \/ \E p \in High : HighStep(p) \/ HighCancelled(p)
    BY <2>3 DEF CanonicalEnters, OperationalEnters, HighStep, HighRechecks, HighCancelled,
       CanonicalCommits, OperationalEnds, Elsewhere, retrying
  <2> QED BY <2>1, <2>2, <2>3
<1>3. at'["projection"] = "out" \/ at["projection"] # "out"
  <2>1. CASE ProjectionRechecks BY <2>1 DEF ProjectionRechecks, Recheck
  <2>2. CASE Boot \/ Stop \/ Tick \/ ClockBack \/ UNCHANGED vars \/ \E s \in timers : TakeRetry(s)
    BY <2>2 DEF Boot, Stop, Tick, ClockBack, TakeRetry, vars, gateVars
  <2>3. CASE \/ CanonicalEnters \/ OperationalEnters
             \/ \E p \in High : HighStep(p) \/ HighCancelled(p)
    <3>1. \E p \in High : Enter(p) \/ Recheck(p) \/ Cancel(p) \/ releaseFunc(p)
      BY <2>3, Callers DEF CanonicalEnters, OperationalEnters, HighStep, HighRechecks,
         HighCancelled, CanonicalCommits, OperationalEnds
    <3> QED BY <1>1, <3>1, HighLeaves
  <2> QED BY <2>1, <2>2, <2>3
<1>4. FailureInv' BY <1>1, <1>2 DEF FailureInv, Definition, Timed, Signal, Failure
<1>5. PassInv' BY <1>1, <1>2 DEF PassInv, NoJob, Definition, Timed
<1>6. WriteReaches'
  BY <1>1, <1>2, <1>3 DEF WriteReaches, Reaches, TargetOf, This, Timed
<1>7. CohortInv'
  <2>1. \A d : (Owed(d)' <=> Owed(d)) /\ (ToCome(d)' <=> ToCome(d))
    BY <1>2 DEF Owed, ToCome, Comes, AtCohort
  <2>2. (SomeFailure' <=> SomeFailure) /\ (Together' <=> Together)
    BY <1>2 DEF SomeFailure, Together, Timed
  <2> QED BY <1>1, <1>2, <2>1, <2>2 DEF CohortInv, NoJob, Timed
<1> QED BY <1>4, <1>5, <1>6, <1>7 DEF TogetherInv

LEMMA TogetherStep == MarksInv /\ TogetherInv /\ [Next]_vars => TogetherInv'
<1> SUFFICES ASSUME MarksInv, TogetherInv, [Next]_vars PROVE TogetherInv' OBVIOUS
<1>1. CASE JobStep
  BY <1>1, HolderTogether, EntersTogether, BesideTogether, EndTogether DEF JobStep
<1>2. CASE UpdateUnreadable \/ ProjectionCancelled \/ ApplyFails BY <1>2, HolderTogether
<1>3. CASE Wait \/ Crash BY <1>3, EndTogether
<1>4. CASE Starting \/ TakeNotification \/ Retry \/ AsOfTick
           \/ ReconcileServiceRequiredResident \/ \E d \in Units : ScanTick(d)
  BY <1>4, PassTogether
<1>5. CASE \/ Boot \/ Stop \/ Tick \/ ClockBack \/ UNCHANGED vars
           \/ \E s \in timers : TakeRetry(s)
           \/ CanonicalEnters \/ OperationalEnters
           \/ \E p \in High : HighStep(p) \/ HighCancelled(p)
  BY <1>5, BesideTogether
<1> QED BY <1>1, <1>2, <1>3, <1>4, <1>5 DEF Next

\* Whichever passes fail, are cancelled or come out of order: when the running
\* Coordinator has no failure of a member on record, claim_states and
\* runtime_states are at one target for whoever gets the resident's lock.
THEOREM CohortAlwaysTogether == Spec => []CohortTogether
<1>1. Init => TogetherInv
  <2> SUFFICES ASSUME Init PROVE TogetherInv OBVIOUS
  <2>1. at["projection"] = "out" BY Callers DEF Init, GateInit
  <2>2. FailureInv BY DEF Init, FailureInv
  <2>3. PassInv /\ WriteReaches /\ CohortInv
    BY <2>1 DEF Init, PassInv, WriteReaches, CohortInv
  <2> QED BY <2>2, <2>3 DEF TogetherInv
<1>2. TogetherInv => CohortTogether
  BY DEF TogetherInv, CohortInv, SomeFailure, Together, CohortTogether
<1> QED BY <1>1, <1>2, InitMarks, MarksStep, TogetherStep, PTL DEF Spec

=============================================================================
