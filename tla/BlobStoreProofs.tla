--------------------------- MODULE BlobStoreProofs ---------------------------
(***************************************************************************)
(* Proofs about the blob store for any requests and contents and any       *)
(* number of crashes, damaged objects and erasures.                        *)
(***************************************************************************)
EXTENDS BlobStore, TLAPS

Stored(d) == object[d] # "none" \/ d \in evidence

\* The host lock: nothing is under way in a process that does not hold it.
OneHolder ==
    /\ ~Serving => \A r \in Request : req[r].at \in AtRest
    /\ process # "recover" => job = NoJob
    /\ process # "gc" => batch = NoBatch

\* What a request has finalized stays until it is committed.
FinalizedStored ==
    \A r \in Request : \A i \in 1 .. Len(Contents[r]) :
        \/ req[r].at = "submit"
        \/ req[r].at \in {"finalize", "publish", "verify"} /\ i < req[r].i
        => Stored(Contents[r][i])

\* The answer of the reference check is still true when recovery uses it.
JobSound ==
    /\ job.at # "next" => job.cur \in Marker
    /\ job.at \in {"object", "publish", "unlinkObject", "marker"} =>
        (job.referenced <=> BlobReferenced(DigestOf(job.cur)))

\* A collection works on unreferenced contents only.
BatchSound ==
    /\ \A c \in batch.todo : ~BlobReferenced(c.digest)
    /\ batch.cur # None => ~BlobReferenced(batch.cur.digest)

\* The inductive invariant of ReferencesStored.
StoreInv == /\ TypeOK /\ OneHolder /\ FinalizedStored /\ JobSound /\ BatchSound
            /\ ReferencesStored

LockPoint == {"publish", "verify", "unlink"}

\* finalizeMu has one holder, and what an unlink relies on is in place.
UnlinkSafe ==
    /\ \A r, q \in Request :
        req[r].at \in LockPoint /\ req[q].at \in LockPoint => r = q
    /\ \A r \in Request :
        req[r].at = "unlink" => object[CurDigest(r)] # "none"
    /\ job.at = "unlinkObject" => ~job.referenced
    /\ job.at = "marker" /\ job.referenced => object[DigestOf(job.cur)] # "none"
    /\ job.at = "unlink" /\ BlobReferenced(DigestOf(job.cur))
       /\ marker[job.cur] = "doomedSealed" => object[DigestOf(job.cur)] # "none"

-----------------------------------------------------------------------------
(* Markers and contents.                                                   *)

LEMMA ContentsTyped ==
    ASSUME NEW r \in Request
    PROVE  /\ Contents[r] \in Seq(Digest)
           /\ Len(Contents[r]) \in Nat \ {0}
           /\ DOMAIN Contents[r] = 1 .. Len(Contents[r])
           /\ \A i \in 1 .. Len(Contents[r]) : Contents[r][i] \in Digest
  <1>1. Contents[r] \in Seq(Digest) /\ Contents[r] # <<>>
    BY BlobAssumption
  <1> QED
    BY <1>1

LEMMA MarkerTyped ==
    ASSUME NEW m \in Marker
    PROVE  /\ m[1] \in Request /\ m[2] \in 1 .. Len(Contents[m[1]])
           /\ m = <<m[1], m[2]>>
           /\ DigestOf(m) \in Digest
  <1>1. PICK r \in Request : m \in {r} \X (1 .. Len(Contents[r]))
    BY DEF Marker
  <1>2. m[1] = r /\ m[2] \in 1 .. Len(Contents[r]) /\ m = <<m[1], m[2]>>
    BY <1>1
  <1> QED
    BY <1>2, ContentsTyped DEF DigestOf

LEMMA MarkerOf ==
    ASSUME NEW r \in Request, NEW i \in 1 .. Len(Contents[r])
    PROVE  /\ <<r, i>> \in Marker
           /\ DigestOf(<<r, i>>) = Contents[r][i]
  BY DEF Marker, DigestOf

LEMMA CurTyped ==
    ASSUME TypeOK, NEW r \in Request
    PROVE  /\ req[r] = [at |-> req[r].at, i |-> req[r].i]
           /\ req[r].at \in RequestPoint
           /\ req[r].i \in 1 .. Len(Contents[r])
           /\ Cur(r) \in Marker
           /\ CurDigest(r) \in Digest
           /\ DigestOf(Cur(r)) = CurDigest(r)
  <1>1. req[r] \in RequestState /\ req[r].i <= Len(Contents[r])
    BY DEF TypeOK
  <1>2. req[r].i \in 1 .. Len(Contents[r])
    BY <1>1, ContentsTyped DEF RequestState
  <1> QED
    BY <1>1, <1>2, ContentsTyped, MarkerOf
    DEF RequestState, Cur, CurDigest, DigestOf

-----------------------------------------------------------------------------
(* Types.                                                                  *)

\* Both ways to move a request keep its state typed.
LEMMA RequestMoves ==
    ASSUME TypeOK, NEW r \in Request,
           NEW p \in RequestPoint, NEW q \in RequestPoint,
           Goto(r, p) \/ Advance(r, p, q)
    PROVE  /\ req' \in [Request -> RequestState]
           /\ \A s \in Request : req'[s].i <= Len(Contents[s])
  <1>1. /\ req \in [Request -> RequestState]
        /\ \A s \in Request : req[s].i <= Len(Contents[s])
    BY DEF TypeOK
  <1>2. CASE Goto(r, p)
    BY <1>1, <1>2 DEF Goto, RequestState
  <1>3. CASE Advance(r, p, q)
    <2>1. Len(Contents[r]) \in Nat \ {0} /\ req[r].i \in Nat \ {0}
      BY <1>1, ContentsTyped DEF RequestState
    <2> DEFINE n == IF req[r].i < Len(Contents[r])
                    THEN [at |-> p, i |-> req[r].i + 1]
                    ELSE [at |-> q, i |-> 1]
    <2>2. n \in RequestState /\ n.i <= Len(Contents[r])
      BY <2>1 DEF RequestState
    <2>3. req' = [req EXCEPT ![r] = n]
      BY <1>3 DEF Advance
    <2> HIDE DEF n
    <2> QED
      BY <1>1, <2>2, <2>3
  <1> QED
    BY <1>2, <1>3

\* Everything but the requests, for the steps of a request.
RestTyped ==
    /\ process' \in Process
    /\ marker' \in [Marker -> MarkerState]
    /\ object' \in [Digest -> ObjectState]
    /\ evidence' \subseteq Digest
    /\ rows' \subseteq Digest /\ committed' \subseteq Digest
    /\ present' \subseteq Marker
    /\ head' \in Nat /\ projected' \in BOOLEAN
    /\ UNCHANGED <<doomed, litter, commandVars, boundVars>>

LEMMA CommitsTyped ==
    ASSUME TypeOK, NEW r \in Request, Commits(r)
    PROVE  /\ rows' \subseteq Digest /\ committed' \subseteq Digest
           /\ present' \subseteq Marker
           /\ head' \in Nat /\ projected' \in BOOLEAN
  <1>1. {Contents[r][i] : i \in DOMAIN Contents[r]} \subseteq Digest
    BY ContentsTyped
  <1>2. /\ rows \subseteq Digest /\ committed \subseteq Digest
        /\ present \subseteq Marker /\ head \in Nat
    BY DEF TypeOK
  <1>3. rows' \subseteq Digest /\ committed' \subseteq Digest
    BY <1>1, <1>2 DEF Commits
  <1>4. present' \subseteq Marker
    BY <1>2 DEF Commits
  <1>5. head' \in Nat
    BY <1>2 DEF Commits
  <1>6. projected' \in BOOLEAN
    BY Zenon DEF Commits
  <1> QED
    BY <1>3, <1>4, <1>5, <1>6

LEMMA RequestType ==
    ASSUME TypeOK, NEW r \in Request, RequestStep(r)
    PROVE  TypeOK'
  <1> DEFINE ReqTyped == /\ req' \in [Request -> RequestState]
                         /\ \A s \in Request : req'[s].i <= Len(Contents[s])
  <1>1. \A p, q \in RequestPoint : Goto(r, p) \/ Advance(r, p, q) => ReqTyped
    BY RequestMoves
  <1>2. ReqTyped
    <2> HIDE DEF ReqTyped
    <2>1. \A p \in RequestPoint : Goto(r, p) => ReqTyped
      BY <1>1
    <2>2. \A p, q \in RequestPoint : Advance(r, p, q) => ReqTyped
      BY <1>1
    <2>3. CASE StageCreate(r)
      BY <2>1, <2>2, <2>3 DEF StageCreate, RequestPoint
    <2>4. CASE StageSeal(r)
      BY <2>1, <2>2, <2>4 DEF StageSeal, RequestPoint
    <2>5. CASE Finalize(r)
      BY <2>1, <2>2, <2>5 DEF Finalize, RequestPoint
    <2>6. CASE Publish(r)
      BY <2>1, <2>2, <2>6 DEF Publish, RequestPoint
    <2>7. CASE Verify(r)
      BY <2>1, <2>2, <2>7 DEF Verify, RequestPoint
    <2>8. CASE StageFails(r)
      BY <2>1, <2>2, <2>8 DEF StageFails, RequestPoint
    <2>9. CASE SubmitCommits(r)
      BY <2>1, <2>2, <2>9 DEF SubmitCommits, RequestPoint
    <2>10. CASE SubmitRefused(r)
      BY <2>1, <2>2, <2>10 DEF SubmitRefused, RequestPoint, AfterRefusal
    <2>11. CASE SubmitAmbiguous(r)
      BY <2>1, <2>2, <2>11 DEF SubmitAmbiguous, RequestPoint
    <2>12. CASE Acknowledge(r)
      BY <2>1, <2>2, <2>12 DEF Acknowledge, RequestPoint
    <2>13. CASE AcknowledgeUnlink(r)
      BY <2>1, <2>2, <2>13 DEF AcknowledgeUnlink, RequestPoint
    <2> QED
      BY <2>3, <2>4, <2>5, <2>6, <2>7, <2>8, <2>9, <2>10, <2>11, <2>12, <2>13, RequestStep(r) DEF RequestStep
  <1>3. RestTyped
    <2> USE CurTyped, ContentsTyped DEF TypeOK, RestTyped, MarkerState, ObjectState
    <2>1. CASE StageCreate(r)
      BY <2>1 DEF StageCreate, fileVars, rowVars, commandVars, boundVars
    <2>2. CASE StageSeal(r)
      BY <2>2 DEF StageSeal, fileVars, rowVars, commandVars, boundVars
    <2>3. CASE Finalize(r)
      BY <2>3 DEF Finalize, fileVars, rowVars, commandVars, boundVars
    <2>4. CASE Publish(r)
      BY <2>4 DEF Publish, fileVars, rowVars, commandVars, boundVars
    <2>5. CASE Verify(r)
      BY <2>5 DEF Verify, fileVars, rowVars, commandVars, boundVars, Quarantined
    <2>6. CASE StageFails(r)
      BY <2>6 DEF StageFails, fileVars, rowVars, commandVars, boundVars
    <2>7. CASE SubmitCommits(r)
      BY <2>7, CommitsTyped DEF SubmitCommits, fileVars, commandVars, boundVars
    <2>8. CASE SubmitRefused(r)
      BY <2>8 DEF SubmitRefused, fileVars, rowVars, commandVars, boundVars
    <2>9. CASE SubmitAmbiguous(r)
      BY <2>9, CommitsTyped
      DEF SubmitAmbiguous, fileVars, rowVars, commandVars, boundVars, Process
    <2>10. CASE Acknowledge(r)
      BY <2>10 DEF Acknowledge, fileVars, rowVars, commandVars, boundVars, Quarantined
    <2>11. CASE AcknowledgeUnlink(r)
      BY <2>11 DEF AcknowledgeUnlink, fileVars, rowVars, commandVars, boundVars
    <2> QED
      BY <2>1, <2>2, <2>3, <2>4, <2>5, <2>6, <2>7, <2>8, <2>9, <2>10, <2>11, RequestStep(r) DEF RequestStep
  <1> QED
    BY <1>2, <1>3 DEF TypeOK, RestTyped, commandVars, boundVars

\* The commands around a request.
LEMMA CommandType ==
    ASSUME TypeOK,
           ServeStart \/ ServeStop \/ Project \/ \E m \in Marker : Erase(m)
    PROVE  TypeOK'
  <1> USE DEF TypeOK, fileVars, rowVars, commandVars, boundVars, Process
  <1>1. CASE ServeStart
    BY <1>1 DEF ServeStart
  <1>2. CASE ServeStop
    BY <1>2 DEF ServeStop
  <1>3. CASE Project
    BY <1>3 DEF Project
  <1>4. CASE \E m \in Marker : Erase(m)
    <2>1. PICK m \in Marker : Erase(m)
      BY <1>4
    <2>2. projected' \in BOOLEAN /\ present' \subseteq Marker
      BY <2>1, Zenon DEF Erase
    <2>3. head' \in Nat /\ erasures' \in Nat
      BY <2>1 DEF Erase
    <2> QED
      BY <2>1, <2>2, <2>3 DEF Erase
  <1> QED
    BY <1>1, <1>2, <1>3, <1>4

LEMMA ReleasedTyped == Released => process' \in Process /\ job' \in Job /\ batch' \in Batch
  BY DEF Released, NoJob, NoBatch, Process, Job, JobPoint, Batch

LEMMA RecoverType ==
    ASSUME TypeOK, JobSound, RecoverStep
    PROVE  TypeOK'
  <1>1. /\ job.at # "next" => job.cur \in Marker /\ JobDigest \in Digest
        /\ \A p \in JobPoint : JobAt(p) => job' \in Job
    BY MarkerTyped DEF JobSound, JobDigest, JobAt, TypeOK, Job
  <1>2. CASE RecoverStart
    BY <1>2 DEF RecoverStart, TypeOK, NoJob, Job, JobPoint, Process, fileVars, rowVars, boundVars
  <1>3. CASE \E m \in Marker : RecoverPartial(m)
    <2>1. PICK m \in Marker : RecoverPartial(m)
      BY <1>3
    <2>2. job' \in Job
      BY <2>1 DEF RecoverPartial, TypeOK, Job, JobPoint
    <2>3. marker' \in [Marker -> MarkerState]
      BY <2>1 DEF RecoverPartial, TypeOK, MarkerState
    <2> QED
      BY <2>1, <2>2, <2>3 DEF RecoverPartial, TypeOK, rowVars, boundVars
  <1>4. CASE \E m \in Marker : RecoverSealed(m)
    <2>1. PICK m \in Marker : RecoverSealed(m)
      BY <1>4
    <2>2. PICK referenced \in BOOLEAN : referenced = BlobReferenced(DigestOf(m))
      BY DEF BlobReferenced
    <2>3. job' = [job EXCEPT !.cur = m, !.at = "object", !.referenced = referenced]
      BY <2>1, <2>2 DEF RecoverSealed
    <2>4. job' \in Job
      BY <2>3 DEF TypeOK, Job, JobPoint
    <2> QED
      BY <2>1, <2>4 DEF RecoverSealed, TypeOK, fileVars, rowVars, boundVars
  <1>5. CASE RecoverQuarantined
    BY <1>1, <1>5 DEF RecoverQuarantined, Recovering, TypeOK, ObjectState, JobPoint, rowVars, boundVars
  <1>6. CASE RecoverMissing
    BY <1>1, <1>6 DEF RecoverMissing, Recovering, TypeOK, JobPoint, fileVars, rowVars, boundVars
  <1>7. CASE RecoverPublish
    BY <1>1, <1>7 DEF RecoverPublish, Recovering, TypeOK, ObjectState, JobPoint, rowVars, boundVars
  <1>8. CASE RecoverStored
    BY <1>1, <1>8 DEF RecoverStored, Recovering, TypeOK, ObjectState, JobPoint, rowVars, boundVars
  <1>9. CASE RecoverCollides
    BY <1>9, ReleasedTyped DEF RecoverCollides, TypeOK, fileVars, rowVars, boundVars
  <1>10. CASE RecoverDamaged
    BY <1>1, <1>10, ReleasedTyped
    DEF RecoverDamaged, Recovering, Quarantined, TypeOK, ObjectState, rowVars, boundVars
  <1>11. CASE RecoverUnlinkObject
    BY <1>1, <1>11 DEF RecoverUnlinkObject, TypeOK, JobPoint, rowVars, boundVars
  <1>12. CASE RecoverMarker
    BY <1>1, <1>12 DEF RecoverMarker, Recovering, TypeOK, MarkerState, JobPoint, rowVars, boundVars
  <1>13. CASE RecoverUnlink
    BY <1>1, <1>13 DEF RecoverUnlink, Recovering, TypeOK, MarkerState, NoJob, Job, JobPoint, rowVars, boundVars
  <1>14. CASE RecoverDone
    BY <1>14, ReleasedTyped DEF RecoverDone, TypeOK, fileVars, rowVars, boundVars
  <1> QED
    BY <1>2, <1>3, <1>4, <1>5, <1>6, <1>7, <1>8, <1>9, <1>10, <1>11, <1>12, <1>13, <1>14
    DEF RecoverStep

LEMMA CandidatesTyped ==
    ASSUME TypeOK
    PROVE  /\ Candidates \subseteq Candidate
           /\ CurrentPlan \in Plan
           /\ \A c \in Candidates : ~BlobReferenced(c.digest)
  <1>1. ASSUME NEW c \in Candidates
        PROVE  c \in Candidate /\ ~BlobReferenced(c.digest)
    <2>1. PICK d \in Digest :
            /\ c = [digest |-> d, row |-> d \in rows, file |-> object[d] # "none"]
            /\ ~BlobReferenced(d)
      BY Zenon DEF Candidates
    <2>2. (d \in rows) \in BOOLEAN /\ (object[d] # "none") \in BOOLEAN
      OBVIOUS
    <2>3. c.digest = d
      BY <2>1
    <2> QED
      BY <2>1, <2>2, <2>3, Zenon DEF Candidate
  <1>2. Candidates \subseteq Candidate /\ \A c \in Candidates : ~BlobReferenced(c.digest)
    BY <1>1
  <1> QED
    BY <1>2 DEF CurrentPlan, Plan, TypeOK

LEMMA GcType ==
    ASSUME TypeOK, GcStep
    PROVE  TypeOK'
  <1>1. CASE GcDryRun
    BY <1>1, CandidatesTyped DEF GcDryRun, TypeOK, fileVars, rowVars, boundVars
  <1>2. CASE GcApply
    BY <1>2, CandidatesTyped
    DEF GcApply, TypeOK, NoBatch, Batch, Process, fileVars, rowVars, boundVars
  <1>3. CASE \E c \in Candidate : GcRemove(c)
    <2>1. PICK c \in Candidate : GcRemove(c)
      BY <1>3
    <2>2. c.digest \in Digest
      BY DEF Candidate
    <2>3. object' \in [Digest -> ObjectState]
      BY <2>1, <2>2 DEF GcRemove, TypeOK, ObjectState
    <2>4. batch' \in Batch
      BY <2>1 DEF GcRemove, TypeOK, Batch
    <2> QED
      BY <2>1, <2>3, <2>4 DEF GcRemove, TypeOK, rowVars, boundVars
  <1>4. CASE GcCommit
    BY <1>4 DEF GcCommit, TypeOK, NoBatch, Batch, fileVars, boundVars
  <1>5. CASE GcStop
    BY <1>5, ReleasedTyped DEF GcStop, TypeOK, fileVars, rowVars, boundVars
  <1> QED
    BY <1>1, <1>2, <1>3, <1>4, <1>5 DEF GcStep

LEMMA EnvironmentType ==
    ASSUME TypeOK, Crash \/ \E d \in Digest : Damage(d)
    PROVE  TypeOK'
  <1>1. CASE Crash
    <2>1. /\ req' \in [Request -> RequestState]
          /\ \A r \in Request : req'[r].i <= Len(Contents[r])
      <3>1. \A r \in Request : 1 <= Len(Contents[r])
        BY ContentsTyped
      <3> QED
        BY <1>1, <3>1 DEF Crash, TypeOK, RequestState, RequestPoint
    <2>2. litter' \in BOOLEAN
      BY <1>1, Zenon DEF Crash, TypeOK
    <2>3. faults' \in Nat
      BY <1>1 DEF Crash, TypeOK
    <2>4. process' \in Process /\ job' \in Job /\ batch' \in Batch
      BY <1>1, ReleasedTyped DEF Crash
    <2>5. UNCHANGED <<marker, object, doomed, evidence, rowVars, plan, erasures>>
      BY <1>1 DEF Crash
    <2> QED
      BY <2>1, <2>2, <2>3, <2>4, <2>5 DEF TypeOK, rowVars
  <1>2. CASE \E d \in Digest : Damage(d)
    BY <1>2 DEF Damage, TypeOK, ObjectState, rowVars, commandVars
  <1> QED
    BY <1>1, <1>2

-----------------------------------------------------------------------------
(* The steps of a request.                                                 *)

\* Files only become evidence, and references come with stored contents.
Keeps ==
    /\ \A d \in Digest : Stored(d) => Stored(d)'
    /\ rows \subseteq rows'
    /\ \A m \in present' \ present : DigestOf(m) \in rows' /\ Stored(DigestOf(m))'

LEMMA KeepsReferences ==
    ASSUME TypeOK, ReferencesStored, Keeps
    PROVE  ReferencesStored'
  BY MarkerTyped DEF TypeOK, ReferencesStored, Keeps, Stored

LEMMA QuarantinedKeeps ==
    ASSUME TypeOK, NEW d \in Digest, Quarantined(d)
    PROVE  \A e \in Digest : Stored(e) => Stored(e)'
  BY DEF TypeOK, Quarantined, Stored

\* Nothing a commit leaves alone matters to what the request finalized.
LEMMA CommitsKeeps ==
    ASSUME StoreInv, NEW r \in Request, req[r].at = "submit", Commits(r),
           UNCHANGED <<object, evidence>>
    PROVE  Keeps
  <1>1. \A d \in Digest : Stored(d) => Stored(d)'
    BY DEF Stored
  <1>2. rows \subseteq rows'
    BY DEF Commits
  <1>3. ASSUME NEW m \in present' \ present
        PROVE  DigestOf(m) \in rows' /\ Stored(DigestOf(m))'
    <2>1. m \in Marker /\ m[1] = r
      BY <1>3 DEF Commits
    <2>2. m[2] \in 1 .. Len(Contents[r])
      BY <2>1, MarkerTyped
    <2>3. Stored(DigestOf(m))
      BY <2>1, <2>2 DEF StoreInv, FinalizedStored, DigestOf
    <2>4. DigestOf(m) \in rows'
      BY <2>1, <2>2, ContentsTyped DEF Commits, DigestOf
    <2> QED
      BY <1>1, <2>1, <2>3, <2>4, MarkerTyped
  <1> QED
    BY <1>1, <1>2, <1>3 DEF Keeps

LEMMA RequestKeeps ==
    ASSUME StoreInv, NEW r \in Request, RequestStep(r)
    PROVE  Keeps
  <1>0. TypeOK /\ CurDigest(r) \in Digest
    BY CurTyped DEF StoreInv
  <1> USE DEF fileVars, rowVars
  <1>1. CASE StageCreate(r)
    BY <1>1 DEF StageCreate, Keeps, Stored
  <1>2. CASE StageSeal(r)
    BY <1>2 DEF StageSeal, Keeps, Stored
  <1>3. CASE Finalize(r)
    BY <1>3 DEF Finalize, Keeps, Stored
  <1>4. CASE Publish(r)
    BY <1>0, <1>4 DEF Publish, Keeps, Stored, TypeOK
  <1>5. CASE Verify(r)
    <2>1. CASE Quarantined(CurDigest(r))
      BY <1>0, <1>5, <2>1, QuarantinedKeeps DEF Verify, Keeps
    <2>2. CASE UNCHANGED <<object, evidence>>
      BY <1>5, <2>2 DEF Verify, Keeps, Stored
    <2> QED
      BY <1>5, <2>1, <2>2 DEF Verify
  <1>6. CASE StageFails(r)
    BY <1>6 DEF StageFails, Keeps, Stored
  <1>7. CASE SubmitCommits(r)
    BY <1>7, CommitsKeeps DEF SubmitCommits
  <1>8. CASE SubmitRefused(r)
    BY <1>8 DEF SubmitRefused, Keeps, Stored
  <1>9. CASE SubmitAmbiguous(r)
    <2>1. CASE Commits(r)
      BY <1>9, <2>1, CommitsKeeps DEF SubmitAmbiguous
    <2>2. CASE UNCHANGED rowVars
      BY <1>9, <2>2 DEF SubmitAmbiguous, Keeps, Stored
    <2> QED
      BY <1>9, <2>1, <2>2 DEF SubmitAmbiguous
  <1>10. CASE Acknowledge(r)
    <2>1. CASE Quarantined(CurDigest(r))
      BY <1>0, <1>10, <2>1, QuarantinedKeeps DEF Acknowledge, Keeps
    <2>2. CASE UNCHANGED <<object, evidence>>
      BY <1>10, <2>2 DEF Acknowledge, Keeps, Stored
    <2> QED
      BY <1>10, <2>1, <2>2 DEF Acknowledge
  <1>11. CASE AcknowledgeUnlink(r)
    BY <1>11 DEF AcknowledgeUnlink, Keeps, Stored
  <1> QED
    BY <1>1, <1>2, <1>3, <1>4, <1>5, <1>6, <1>7, <1>8, <1>9, <1>10, <1>11 DEF RequestStep

\* The steps that bring a request into, or forward within, finalization.
LEMMA RequestFinalized ==
    ASSUME StoreInv, NEW r \in Request, RequestStep(r)
    PROVE  FinalizedStored'
  <1> DEFINE Done(i) == \/ req[r].at = "submit"
                        \/ /\ req[r].at \in {"finalize", "publish", "verify"}
                           /\ i < req[r].i
  <1>0. TypeOK /\ Keeps /\ Len(Contents[r]) \in Nat \ {0}
    BY RequestKeeps, ContentsTyped DEF StoreInv
  <1>c. /\ req \in [Request -> RequestState]
        /\ req[r].i \in 1 .. Len(Contents[r])
    BY <1>0, CurTyped DEF TypeOK
  <1>1. \A q \in Request \ {r} : req'[q] = req[q]
    BY <1>c DEF RequestStep, StageCreate, StageSeal, Finalize, Publish, Verify,
       StageFails, SubmitCommits, SubmitRefused, SubmitAmbiguous, Acknowledge,
       AcknowledgeUnlink, Goto, Advance
  <1>2. \A i \in 1 .. Len(Contents[r]) : Done(i) => Stored(Contents[r][i])
    BY DEF StoreInv, FinalizedStored
  <1>3. ASSUME NEW i \in 1 .. Len(Contents[r]), Done(i)'
        PROVE  Done(i) \/ Stored(Contents[r][i])
    <2> USE <1>c DEF Goto
    <2>1. CASE StageCreate(r)
      BY <1>3, <2>1 DEF StageCreate
    <2>2. CASE StageSeal(r)
      BY <1>0, <1>3, <2>2 DEF StageSeal, Advance
    <2>3. CASE Finalize(r)
      BY <1>3, <2>3 DEF Finalize
    <2>4. CASE Publish(r)
      BY <1>3, <2>4 DEF Publish
    <2>5. CASE Verify(r)
      <3>1. CASE Goto(r, "done")
        BY <1>3, <3>1
      <3>2. CASE object[CurDigest(r)] = "sound" /\ Advance(r, "finalize", "submit")
        <4>1. CASE i = req[r].i
          BY <3>2, <4>1 DEF Stored, CurDigest
        <4>2. CASE i < req[r].i
          BY <2>5, <4>2 DEF Verify
        <4>3. CASE i > req[r].i
          BY <1>0, <1>3, <3>2, <4>3 DEF Advance
        <4> QED
          BY <4>1, <4>2, <4>3
      <3> QED
        BY <2>5, <3>1, <3>2 DEF Verify
    <2>6. CASE StageFails(r)
      BY <1>3, <2>6 DEF StageFails
    <2>7. CASE SubmitCommits(r)
      BY <1>3, <2>7 DEF SubmitCommits
    <2>8. CASE SubmitRefused(r)
      BY <1>3, <2>8 DEF SubmitRefused, AfterRefusal
    <2>9. CASE SubmitAmbiguous(r)
      BY <1>3, <2>9 DEF SubmitAmbiguous
    <2>10. CASE Acknowledge(r)
      <3>1. Goto(r, "unlink") \/ Advance(r, "ack", "done")
        BY <2>10 DEF Acknowledge
      <3>2. CASE Goto(r, "unlink")
        BY <1>3, <3>2
      <3>3. CASE Advance(r, "ack", "done")
        BY <1>0, <1>3, <3>3 DEF Advance
      <3> QED
        BY <3>1, <3>2, <3>3
    <2>11. CASE AcknowledgeUnlink(r)
      BY <1>0, <1>3, <2>11 DEF AcknowledgeUnlink, Advance
    <2> QED
      BY <2>1, <2>2, <2>3, <2>4, <2>5, <2>6, <2>7, <2>8, <2>9, <2>10, <2>11
      DEF RequestStep
  <1>4. \A q \in Request : \A i \in 1 .. Len(Contents[q]) :
            Stored(Contents[q][i]) => Stored(Contents[q][i])'
    BY <1>0, ContentsTyped DEF Keeps
  <1>5. ASSUME NEW q \in Request, NEW i \in 1 .. Len(Contents[q]),
               \/ req'[q].at = "submit"
               \/ req'[q].at \in {"finalize", "publish", "verify"} /\ i < req'[q].i
        PROVE  Stored(Contents[q][i])'
    <2>1. CASE q = r
      BY <1>2, <1>3, <1>4, <1>5, <2>1
    <2>2. CASE q # r
      BY <1>1, <1>4, <1>5, <2>2 DEF StoreInv, FinalizedStored
    <2> QED
      BY <2>1, <2>2
  <1> QED
    BY <1>5 DEF FinalizedStored

LEMMA RequestStore ==
    ASSUME StoreInv, NEW r \in Request, RequestStep(r)
    PROVE  StoreInv'
  <1>1. Serving /\ Serving' /\ UNCHANGED <<job, batch>>
    BY DEF RequestStep, StageCreate, StageSeal, Finalize, Publish, Verify,
       StageFails, SubmitCommits, SubmitRefused, SubmitAmbiguous, Acknowledge,
       AcknowledgeUnlink, Serving, commandVars
  <1>2. job = NoJob /\ batch = NoBatch
    BY <1>1 DEF StoreInv, OneHolder, Serving
  <1>3. OneHolder'
    BY <1>1, <1>2 DEF OneHolder
  <1>4. JobSound' /\ BatchSound'
    BY <1>1, <1>2 DEF JobSound, BatchSound, NoJob, NoBatch
  <1> QED
    BY <1>3, <1>4, RequestType, RequestFinalized, RequestKeeps, KeepsReferences DEF StoreInv

-----------------------------------------------------------------------------
(* The other steps: no request is in finalization beside them, or they     *)
(* leave requests and stored contents alone.                               *)

LEMMA AtRestFinalized ==
    ASSUME \A r \in Request : req'[r].at \in AtRest
    PROVE  FinalizedStored'
  BY DEF FinalizedStored, AtRest

LEMMA CommandStore ==
    ASSUME StoreInv,
           ServeStart \/ ServeStop \/ Project \/ \E m \in Marker : Erase(m)
    PROVE  StoreInv'
  <1>0. TypeOK /\ TypeOK'
    BY CommandType DEF StoreInv
  <1>1. /\ UNCHANGED <<req, object, evidence, job, batch, rows>>
        /\ present' \subseteq present
    BY DEF ServeStart, ServeStop, Project, Erase, fileVars, rowVars, commandVars
  <1>2. OneHolder'
    <2>1. CASE ServeStart
      BY <1>1, <2>1 DEF StoreInv, OneHolder, ServeStart, Serving
    <2>2. CASE ServeStop
      BY <1>1, <2>2 DEF StoreInv, OneHolder, ServeStop, Serving
    <2>3. CASE UNCHANGED process
      BY <1>1, <2>3 DEF StoreInv, OneHolder, Serving
    <2> QED
      BY <2>1, <2>2, <2>3 DEF Project, Erase
  <1>3. FinalizedStored'
    BY <1>1 DEF StoreInv, FinalizedStored, Stored
  <1>4. job = NoJob /\ batch = NoBatch
    BY DEF StoreInv, OneHolder, ServeStart, ServeStop, Project, Erase, Serving
  <1>5. JobSound' /\ BatchSound'
    BY <1>1, <1>4 DEF JobSound, BatchSound, NoJob, NoBatch
  <1>6. ReferencesStored'
    BY <1>1 DEF StoreInv, ReferencesStored
  <1> QED
    BY <1>0, <1>2, <1>3, <1>5, <1>6 DEF StoreInv

\* Recovery takes an object away only when nothing refers to it.
LEMMA RecoverReferences ==
    ASSUME StoreInv, RecoverStep
    PROVE  ReferencesStored' /\ UNCHANGED <<rows, present>>
  <1>0. TypeOK /\ ReferencesStored /\ JobSound
    BY DEF StoreInv
  <1>1. UNCHANGED <<rows, present>>
    BY DEF RecoverStep, RecoverStart, RecoverPartial, RecoverSealed,
       RecoverQuarantined, RecoverMissing, RecoverPublish, RecoverStored,
       RecoverCollides, RecoverDamaged, RecoverUnlinkObject, RecoverMarker,
       RecoverUnlink, RecoverDone, rowVars
  <1>2. job.at = "object" \/ job.at = "publish" => JobDigest \in Digest
    BY <1>0, MarkerTyped DEF JobSound, JobDigest
  <1>3. CASE UNCHANGED <<object, evidence>>
    BY <1>0, <1>1, <1>3 DEF ReferencesStored
  <1>4. CASE job.at \in {"object", "publish"}
             /\ object' = [object EXCEPT ![JobDigest] = "sound"]
             /\ UNCHANGED evidence
    BY <1>0, <1>1, <1>2, <1>4, MarkerTyped DEF ReferencesStored, TypeOK
  <1>5. CASE RecoverDamaged
    BY <1>0, <1>1, <1>2, <1>5, MarkerTyped
    DEF RecoverDamaged, Recovering, Quarantined, ReferencesStored, TypeOK
  <1>6. CASE RecoverStored
    <2>1. CASE job.referenced
      BY <1>3, <1>6, <2>1 DEF RecoverStored
    <2>2. CASE ~job.referenced
      <3>1. ~BlobReferenced(JobDigest)
        BY <1>0, <1>6, <2>2 DEF RecoverStored, Recovering, JobSound, JobDigest
      <3>2. \A m \in present : DigestOf(m) # JobDigest
        BY <3>1 DEF BlobReferenced
      <3>3. /\ object' = [object EXCEPT ![JobDigest] = "none"]
            /\ UNCHANGED evidence
        BY <1>6, <2>2 DEF RecoverStored
      <3> QED
        BY <1>0, <1>1, <3>2, <3>3, MarkerTyped DEF ReferencesStored, TypeOK
    <2> QED
      BY <2>1, <2>2
  <1> QED
    BY <1>1, <1>3, <1>4, <1>5, <1>6
    DEF RecoverStep, RecoverStart, RecoverPartial, RecoverSealed,
       RecoverQuarantined, RecoverMissing, RecoverPublish, Recovering,
       RecoverCollides, RecoverUnlinkObject, RecoverMarker,
       RecoverUnlink, RecoverDone, fileVars

LEMMA RecoverJob ==
    ASSUME StoreInv, RecoverStep
    PROVE  JobSound'
  <1>0. TypeOK /\ JobSound /\ job \in Job
    BY DEF StoreInv, TypeOK
  <1>1. UNCHANGED present
    BY RecoverReferences
  <1>2. \A d : BlobReferenced(d)' <=> BlobReferenced(d)
    BY <1>1 DEF BlobReferenced
  <1>3. CASE job'.at = "next"
    BY <1>3 DEF JobSound
  <1>4. CASE \E m \in Marker : RecoverPartial(m)
    BY <1>0, <1>4 DEF RecoverPartial, JobSound, Job
  <1>5. CASE \E m \in Marker : RecoverSealed(m)
    <2>1. PICK m \in Marker : RecoverSealed(m)
      BY <1>5
    <2>2. /\ job'.at = "object" /\ job'.cur = m
          /\ job'.referenced = BlobReferenced(DigestOf(m))
      BY <1>0, <2>1 DEF RecoverSealed, Job
    <2> QED
      BY <1>2, <2>2 DEF JobSound
  <1>6. CASE /\ job.at \in {"object", "publish", "unlinkObject", "marker"}
             /\ \E p \in JobPoint : JobAt(p)
    <2>1. job'.cur = job.cur /\ job'.referenced = job.referenced
      BY <1>0, <1>6 DEF JobAt, Job
    <2> QED
      BY <1>0, <1>2, <1>6, <2>1 DEF JobSound
  <1>7. Released => job'.at = "next"
    BY DEF Released, NoJob
  <1>8. CASE RecoverStart
    BY <1>3, <1>8 DEF RecoverStart, NoJob
  <1>9. CASE RecoverUnlink
    BY <1>3, <1>9 DEF RecoverUnlink, NoJob
  <1>10. CASE RecoverCollides \/ RecoverDamaged \/ RecoverDone
    BY <1>3, <1>7, <1>10 DEF RecoverCollides, RecoverDamaged, RecoverDone
  <1>11. CASE RecoverQuarantined \/ RecoverMissing \/ RecoverPublish \/ RecoverStored
              \/ RecoverUnlinkObject \/ RecoverMarker
    BY <1>6, <1>11
    DEF RecoverQuarantined, RecoverMissing, RecoverPublish, RecoverStored,
        RecoverUnlinkObject, RecoverMarker, Recovering, JobPoint
  <1> QED
    BY <1>4, <1>5, <1>8, <1>9, <1>10, <1>11 DEF RecoverStep

LEMMA RecoverStore ==
    ASSUME StoreInv, RecoverStep
    PROVE  StoreInv'
  <1>1. /\ UNCHANGED req /\ process \in {"down", "recover"}
        /\ \/ process' = "recover" /\ UNCHANGED batch
           \/ process' = "down" /\ job' = NoJob /\ batch' = NoBatch
    BY DEF RecoverStep, RecoverStart, RecoverPartial, RecoverSealed,
       RecoverQuarantined, RecoverMissing, RecoverPublish, RecoverStored,
       RecoverCollides, RecoverDamaged, RecoverUnlinkObject, RecoverMarker,
       RecoverUnlink, RecoverDone, Recovering, Released
  <1>2. /\ \A r \in Request : req[r].at \in AtRest
        /\ batch = NoBatch
    BY <1>1 DEF StoreInv, OneHolder, Serving
  <1>3. OneHolder'
    BY <1>1, <1>2 DEF OneHolder
  <1>4. FinalizedStored'
    BY <1>1, <1>2, AtRestFinalized
  <1>5. BatchSound'
    BY <1>1, <1>2 DEF BatchSound, NoBatch
  <1>6. TypeOK'
    BY RecoverType DEF StoreInv
  <1> QED
    BY <1>3, <1>4, <1>5, <1>6, RecoverReferences, RecoverJob DEF StoreInv

LEMMA GcStore ==
    ASSUME StoreInv, GcStep
    PROVE  StoreInv'
  <1>0. TypeOK /\ ReferencesStored /\ BatchSound /\ OneHolder /\ TypeOK'
    BY GcType DEF StoreInv
  <1>1. /\ UNCHANGED <<req, present, evidence>>
        /\ process \in {"down", "gc"} /\ job = NoJob /\ job' = NoJob
        /\ \/ process' = "gc"
           \/ process' = "down" /\ batch' = NoBatch
    BY <1>0 DEF GcStep, GcDryRun, GcApply, GcRemove, GcCommit, GcStop, Released,
       OneHolder, fileVars, rowVars
  <1>2. OneHolder'
    BY <1>0, <1>1 DEF OneHolder, Serving
  <1>3. FinalizedStored'
    BY <1>0, <1>1, AtRestFinalized DEF OneHolder, Serving
  <1>4. JobSound'
    BY <1>1 DEF JobSound, NoJob
  <1>5. \A d : BlobReferenced(d)' <=> BlobReferenced(d)
    BY <1>1 DEF BlobReferenced
  <1>6. BatchSound' /\ ReferencesStored'
    <2>1. CASE GcDryRun
      BY <1>0, <1>1, <1>5, <2>1 DEF GcDryRun, BatchSound, ReferencesStored, fileVars, rowVars
    <2>2. CASE GcApply
      BY <1>0, <1>1, <1>5, <2>2, CandidatesTyped
      DEF GcApply, BatchSound, NoBatch, ReferencesStored, fileVars, rowVars
    <2>3. CASE \E c \in Candidate : GcRemove(c)
      <3>1. PICK c \in Candidate : GcRemove(c)
        BY <2>3
      <3>2. batch \in Batch /\ c.digest \in Digest /\ ~BlobReferenced(c.digest)
        BY <1>0, <3>1 DEF TypeOK, Candidate, GcRemove
      <3>3. batch'.todo = batch.todo /\ batch'.cur = c
        BY <3>1, <3>2 DEF GcRemove, Batch
      <3>4. BatchSound'
        BY <1>0, <1>5, <3>2, <3>3 DEF BatchSound
      <3>5. \A m \in present : DigestOf(m) # c.digest
        BY <3>2 DEF BlobReferenced
      <3>6. \A d \in Digest \ {c.digest} : object'[d] = object[d]
        BY <1>0, <3>1 DEF GcRemove, TypeOK
      <3>7. ReferencesStored'
        BY <1>0, <1>1, <3>1, <3>5, <3>6, MarkerTyped
        DEF GcRemove, ReferencesStored, TypeOK, rowVars
      <3> QED
        BY <3>4, <3>7
    <2>4. CASE GcCommit
      <3>1. ~BlobReferenced(batch.cur.digest)
        BY <1>0, <2>4 DEF GcCommit, BatchSound
      <3>2. \A m \in present : DigestOf(m) # batch.cur.digest
        BY <3>1 DEF BlobReferenced
      <3>3. ReferencesStored'
        BY <1>0, <1>1, <2>4, <3>2 DEF GcCommit, ReferencesStored, fileVars
      <3>4. batch'.todo \subseteq batch.todo /\ batch'.cur = None
        BY <2>4 DEF GcCommit, NoBatch
      <3> QED
        BY <1>0, <1>5, <3>3, <3>4 DEF BatchSound
    <2>5. CASE GcStop
      BY <1>0, <1>1, <2>5
      DEF GcStop, Released, BatchSound, NoBatch, ReferencesStored, fileVars, rowVars
    <2> QED
      BY <2>1, <2>2, <2>3, <2>4, <2>5 DEF GcStep
  <1> QED
    BY <1>0, <1>2, <1>3, <1>4, <1>6 DEF StoreInv

LEMMA EnvironmentStore ==
    ASSUME StoreInv, Crash \/ \E d \in Digest : Damage(d)
    PROVE  StoreInv'
  <1>0. TypeOK /\ TypeOK'
    BY EnvironmentType DEF StoreInv
  <1>1. CASE Crash
    <2>1. /\ UNCHANGED <<object, evidence, rows, present>>
          /\ process' = "down" /\ job' = NoJob /\ batch' = NoBatch
      BY <1>1 DEF Crash, Released, rowVars
    <2>2. \A r \in Request : req'[r].at \in AtRest
      BY <1>1 DEF Crash, AtRest
    <2>3. OneHolder' /\ JobSound' /\ BatchSound'
      BY <2>1, <2>2 DEF OneHolder, JobSound, BatchSound, NoJob, NoBatch
    <2>4. ReferencesStored'
      BY <2>1 DEF StoreInv, ReferencesStored
    <2> QED
      BY <1>0, <2>2, <2>3, <2>4, AtRestFinalized DEF StoreInv
  <1>2. CASE \E d \in Digest : Damage(d)
    <2>1. /\ UNCHANGED <<process, req, evidence, rows, present, job, batch>>
          /\ \A e \in Digest : Stored(e) => Stored(e)'
      BY <1>0, <1>2 DEF Damage, Stored, TypeOK, rowVars, commandVars
    <2>2. OneHolder' /\ JobSound' /\ BatchSound'
      BY <2>1 DEF StoreInv, OneHolder, Serving, JobSound, BatchSound, BlobReferenced
    <2>3. FinalizedStored'
      BY <2>1, ContentsTyped DEF StoreInv, FinalizedStored
    <2>4. ReferencesStored'
      BY <1>0, <2>1, KeepsReferences DEF StoreInv, Keeps
    <2> QED
      BY <1>0, <2>2, <2>3, <2>4 DEF StoreInv
  <1> QED
    BY <1>1, <1>2

LEMMA StoreInit == Init => StoreInv
  <1> SUFFICES ASSUME Init PROVE StoreInv
    OBVIOUS
  <1>1. TypeOK
    <2>1. /\ req \in [Request -> RequestState]
          /\ \A r \in Request : req[r].i <= Len(Contents[r])
      BY ContentsTyped DEF Init, RequestState, RequestPoint
    <2>2. job \in Job /\ batch \in Batch
      BY DEF Init, NoJob, NoBatch, Job, JobPoint, Batch
    <2>3. litter \in BOOLEAN /\ projected \in BOOLEAN
      BY Zenon DEF Init
    <2> QED
      BY <2>1, <2>2, <2>3 DEF Init, TypeOK, Process, MarkerState, ObjectState
  <1>2. OneHolder /\ FinalizedStored
    BY DEF Init, OneHolder, FinalizedStored, AtRest
  <1>3. JobSound /\ BatchSound /\ ReferencesStored
    BY DEF Init, JobSound, BatchSound, NoJob, NoBatch, ReferencesStored
  <1> QED
    BY <1>1, <1>2, <1>3 DEF StoreInv

LEMMA StoreStep == StoreInv /\ [Next]_vars => StoreInv'
  <1> SUFFICES ASSUME StoreInv, [Next]_vars PROVE StoreInv'
    OBVIOUS
  <1>1. CASE Next
    BY <1>1, RequestStore, CommandStore, RecoverStore, GcStore, EnvironmentStore DEF Next
  <1>2. CASE UNCHANGED vars
    BY <1>2 DEF vars, fileVars, rowVars, commandVars, boundVars, StoreInv, TypeOK,
       OneHolder, Serving, FinalizedStored, Stored, JobSound, BatchSound,
       BlobReferenced, ReferencesStored
  <1> QED
    BY <1>1, <1>2

\* Files, rows and local states keep their types in every behaviour.
THEOREM BlobTypeCorrect == Spec => []TypeOK
  <1>1. StoreInv => TypeOK
    BY DEF StoreInv
  <1> QED
    BY StoreInit, StoreStep, <1>1, PTL DEF Spec

\* No interleaving of requests, recoveries, collections, erasures and crashes
\* loses the row or the object of a present content, for any requests and
\* contents.
THEOREM ReferencesAlwaysStored == Spec => []ReferencesStored
  <1>1. StoreInv => ReferencesStored
    BY DEF StoreInv
  <1> QED
    BY StoreInit, StoreStep, <1>1, PTL DEF Spec

-----------------------------------------------------------------------------
(* Markers.                                                                *)

\* Without a recovery under way only the requests matter.
LEMMA NoJobSafe ==
    ASSUME job' = NoJob,
           \A r, q \in Request :
              req'[r].at \in LockPoint /\ req'[q].at \in LockPoint => r = q,
           \A r \in Request : req'[r].at = "unlink" => object'[CurDigest(r)'] # "none"
    PROVE  UnlinkSafe'
  BY DEF UnlinkSafe, NoJob

\* A request enters finalizeMu only when it is free, and only its holder
\* moves objects.
LEMMA RequestUnlink ==
    ASSUME StoreInv, UnlinkSafe, NEW r \in Request, RequestStep(r)
    PROVE  UnlinkSafe'
  <1>0. TypeOK
    BY DEF StoreInv
  <1>1. req \in [Request -> RequestState] /\ object \in [Digest -> ObjectState]
    BY <1>0 DEF TypeOK
  <1>2. \A q \in Request : CurDigest(q) \in Digest
    BY <1>0, CurTyped
  <1>3. \A q \in Request \ {r} : req'[q] = req[q]
    BY <1>1 DEF RequestStep, StageCreate, StageSeal, Finalize, Publish, Verify,
       StageFails, SubmitCommits, SubmitRefused, SubmitAmbiguous, Acknowledge,
       AcknowledgeUnlink, Goto, Advance
  <1>4. Serving /\ UNCHANGED job
    BY DEF RequestStep, StageCreate, StageSeal, Finalize, Publish, Verify,
       StageFails, SubmitCommits, SubmitRefused, SubmitAmbiguous, Acknowledge,
       AcknowledgeUnlink, Serving, commandVars
  <1>5. job' = NoJob
    BY <1>4 DEF StoreInv, OneHolder, Serving
  <1> DEFINE To(S) == req'[r].at \in S
  <1>p. /\ StageCreate(r) => To({"seal"})
        /\ StageSeal(r) => To({"stage", "finalize"})
        /\ Finalize(r) => To({"publish", "verify"})
        /\ Publish(r) => To({"verify"})
        /\ Verify(r) => To({"finalize", "submit", "done"})
        /\ StageFails(r) => To({"done"})
        /\ SubmitCommits(r) => To({"ack"})
        /\ SubmitRefused(r) => To({"done"})
        /\ SubmitAmbiguous(r) => To({"done"})
        /\ AcknowledgeUnlink(r) => To({"ack", "done"})
    <2> USE <1>1 DEF Goto, Advance
    <2>1. StageCreate(r) => To({"seal"})
      BY DEF StageCreate
    <2>2. StageSeal(r) => To({"stage", "finalize"})
      BY DEF StageSeal
    <2>3. Finalize(r) => To({"publish", "verify"})
      BY DEF Finalize
    <2>4. Publish(r) => To({"verify"})
      BY DEF Publish
    <2>5. Verify(r) => To({"finalize", "submit", "done"})
      <3>1. Goto(r, "done") => To({"done"})
        OBVIOUS
      <3>2. Advance(r, "finalize", "submit") => To({"finalize", "submit"})
        OBVIOUS
      <3> QED
        BY <3>1, <3>2 DEF Verify
    <2>6. StageFails(r) => To({"done"})
      BY DEF StageFails
    <2>7. SubmitCommits(r) => To({"ack"})
      BY DEF SubmitCommits
    <2>8. SubmitRefused(r) => To({"done"})
      BY DEF SubmitRefused, AfterRefusal
    <2>9. SubmitAmbiguous(r) => To({"done"})
      BY DEF SubmitAmbiguous
    <2>10. AcknowledgeUnlink(r) => To({"ack", "done"})
      BY DEF AcknowledgeUnlink
    <2> QED
      BY <2>1, <2>2, <2>3, <2>4, <2>5, <2>6, <2>7, <2>8, <2>9, <2>10
  <1>6. req'[r].at \in LockPoint =>
            \A q \in Request \ {r} : req[q].at \notin LockPoint
    <2>1. CASE req[r].at \in LockPoint
      BY <2>1 DEF UnlinkSafe
    <2>2. CASE ~Locked
      BY <2>2 DEF Locked, LockPoint
    <2>3. CASE req'[r].at \notin LockPoint
      BY <2>3
    <2>4. Publish(r) \/ Verify(r) \/ AcknowledgeUnlink(r) => req[r].at \in LockPoint
      BY DEF Publish, Verify, AcknowledgeUnlink, LockPoint
    <2>5. Finalize(r) \/ Acknowledge(r) => ~Locked
      BY DEF Finalize, Acknowledge
    <2> QED
      BY <1>p, <2>1, <2>2, <2>3, <2>4, <2>5 DEF RequestStep, LockPoint
  <1>7. ASSUME NEW q \in Request, NEW p \in Request,
               req'[q].at \in LockPoint, req'[p].at \in LockPoint
        PROVE  q = p
    BY <1>3, <1>6, <1>7 DEF UnlinkSafe
  <1>8. ASSUME NEW q \in Request, req'[q].at = "unlink"
        PROVE  object'[CurDigest(q)'] # "none"
    <2>1. CASE q = r
      <3>1. Acknowledge(r) /\ req' = [req EXCEPT ![r].at = "unlink"]
            /\ object[CurDigest(r)] = "sound" /\ UNCHANGED object
        <4>1. Acknowledge(r)
          BY <1>p, <1>8, <2>1 DEF RequestStep
        <4>2. ~Advance(r, "ack", "done")
          BY <1>1, <1>8, <2>1 DEF Advance
        <4> QED
          BY <4>1, <4>2 DEF Acknowledge, Goto
      <3>2. CurDigest(r)' = CurDigest(r)
        BY <1>1, <3>1 DEF CurDigest, RequestState
      <3> QED
        BY <2>1, <3>1, <3>2
    <2>2. CASE q # r
      <3>1. req[q].at = "unlink" /\ CurDigest(q)' = CurDigest(q)
        BY <1>3, <1>8, <2>2 DEF CurDigest
      <3>2. object[CurDigest(q)] # "none"
        BY <3>1 DEF UnlinkSafe
      <3>3. ~Verify(r) /\ ~Acknowledge(r)
        BY <2>2, <3>1 DEF UnlinkSafe, Verify, Acknowledge, Locked, LockPoint
      <3>4. UNCHANGED object \/ object' = [object EXCEPT ![CurDigest(r)] = "sound"]
        BY <3>3 DEF RequestStep, StageCreate, StageSeal, Finalize, Publish,
           StageFails, SubmitCommits, SubmitRefused, SubmitAmbiguous,
           AcknowledgeUnlink, fileVars
      <3> QED
        BY <1>1, <1>2, <3>1, <3>2, <3>4
    <2> QED
      BY <2>1, <2>2
  <1> QED
    BY <1>5, <1>7, <1>8, NoJobSafe

\* Recovery reaches the marker of a referenced content over a sound object.
LEMMA RecoverUnlinks ==
    ASSUME StoreInv, UnlinkSafe, RecoverStep
    PROVE  UnlinkSafe'
  <1>0. TypeOK /\ JobSound /\ job \in Job
    BY DEF StoreInv, TypeOK
  <1>1. \A r \in Request : req'[r].at \in AtRest
    <2>1. UNCHANGED req /\ ~Serving
      BY DEF RecoverStep, RecoverStart, RecoverPartial, RecoverSealed,
         RecoverQuarantined, RecoverMissing, RecoverPublish, RecoverStored,
         RecoverCollides, RecoverDamaged, RecoverUnlinkObject, RecoverMarker,
         RecoverUnlink, RecoverDone, Recovering, Serving
    <2> QED
      BY <2>1 DEF StoreInv, OneHolder
  <1>2. \A r \in Request : req'[r].at \notin LockPoint
    BY <1>1 DEF AtRest, LockPoint
  <1> DEFINE JobSafe == /\ job.at = "unlinkObject" => ~job.referenced
                        /\ job.at = "marker" /\ job.referenced =>
                              object[DigestOf(job.cur)] # "none"
                        /\ job.at = "unlink" /\ BlobReferenced(DigestOf(job.cur))
                           /\ marker[job.cur] = "doomedSealed" =>
                              object[DigestOf(job.cur)] # "none"
  <1>3. SUFFICES JobSafe'
    BY <1>2 DEF UnlinkSafe, LockPoint
  <1>4. \A p \in JobPoint : JobAt(p) =>
            /\ job'.at = p /\ job'.cur = job.cur /\ job'.referenced = job.referenced
    BY <1>0 DEF JobAt, Job
  <1>5. CASE job'.at \in {"next", "object", "publish"}
    BY <1>5
  <1>6. CASE RecoverStart \/ RecoverUnlink
    BY <1>5, <1>6 DEF RecoverStart, RecoverUnlink, NoJob
  <1>7. CASE RecoverCollides \/ RecoverDamaged \/ RecoverDone
    BY <1>5, <1>7 DEF RecoverCollides, RecoverDamaged, RecoverDone, Released, NoJob
  <1>8. CASE \E m \in Marker : RecoverSealed(m)
    BY <1>0, <1>5, <1>8 DEF RecoverSealed, Job
  <1>9. CASE \E m \in Marker : RecoverPartial(m)
    <2>1. PICK m \in Marker : RecoverPartial(m)
      BY <1>9
    <2>2. job'.at = "unlink" /\ job'.cur = m
      BY <1>0, <2>1 DEF RecoverPartial, Job
    <2>3. marker'[m] = "doomedPartial"
      BY <1>0, <2>1 DEF RecoverPartial, TypeOK
    <2> QED
      BY <2>2, <2>3
  <1>10. CASE RecoverQuarantined
    BY <1>4, <1>10 DEF RecoverQuarantined, JobPoint
  <1>11. CASE RecoverMissing
    BY <1>4, <1>11 DEF RecoverMissing, JobPoint
  <1>12. CASE RecoverPublish
    BY <1>4, <1>5, <1>12 DEF RecoverPublish, JobPoint
  <1>13. CASE RecoverStored
    BY <1>4, <1>13 DEF RecoverStored, JobPoint, JobDigest
  <1>14. CASE RecoverUnlinkObject
    BY <1>4, <1>14 DEF RecoverUnlinkObject, Recovering, JobPoint, UnlinkSafe
  <1>15. CASE RecoverMarker
    <2>1. /\ job.at = "marker" /\ job'.at = "unlink" /\ job'.cur = job.cur
          /\ UNCHANGED <<object, present>>
      BY <1>4, <1>15 DEF RecoverMarker, Recovering, JobPoint, rowVars
    <2>2. BlobReferenced(DigestOf(job.cur))' => job.referenced
      BY <1>0, <2>1 DEF JobSound, BlobReferenced
    <2> QED
      BY <2>1, <2>2 DEF UnlinkSafe
  <1> QED
    BY <1>6, <1>7, <1>8, <1>9, <1>10, <1>11, <1>12, <1>13, <1>14, <1>15 DEF RecoverStep

LEMMA OtherUnlink ==
    ASSUME StoreInv, UnlinkSafe,
           \/ ServeStart \/ ServeStop \/ Project \/ \E m \in Marker : Erase(m)
           \/ GcStep \/ Crash
    PROVE  UnlinkSafe'
  <1>1. CASE ServeStart \/ ServeStop \/ Project \/ \E m \in Marker : Erase(m)
    <2>1. UNCHANGED <<req, object, job>> /\ job = NoJob
      BY <1>1 DEF ServeStart, ServeStop, Project, Erase, fileVars, commandVars,
         StoreInv, OneHolder, Serving
    <2> QED
      BY <2>1, NoJobSafe DEF UnlinkSafe, CurDigest
  <1>2. CASE GcStep
    <2>1. UNCHANGED req /\ job' = NoJob /\ ~Serving
      BY <1>2 DEF GcStep, GcDryRun, GcApply, GcRemove, GcCommit, GcStop, Released,
         Serving, StoreInv, OneHolder
    <2>2. \A r \in Request : req'[r].at \notin LockPoint
      BY <2>1 DEF StoreInv, OneHolder, AtRest, LockPoint
    <2> QED
      BY <2>1, <2>2, NoJobSafe DEF LockPoint
  <1>3. CASE Crash
    <2>1. /\ job' = NoJob
          /\ \A r \in Request : req'[r].at \notin LockPoint
      BY <1>3 DEF Crash, Released, AtRest, LockPoint
    <2> QED
      BY <2>1, NoJobSafe DEF LockPoint
  <1> QED
    BY <1>1, <1>2, <1>3

LEMMA DamageUnlink ==
    ASSUME StoreInv, UnlinkSafe, NEW d \in Digest, Damage(d)
    PROVE  UnlinkSafe'
  <1>1. TypeOK /\ UNCHANGED <<req, job, present, marker>>
    BY DEF StoreInv, Damage, commandVars, rowVars
  <1>2. \A e \in Digest : object[e] # "none" => object'[e] # "none"
    BY <1>1 DEF Damage, TypeOK
  <1>3. \A r \in Request : CurDigest(r) \in Digest /\ CurDigest(r)' = CurDigest(r)
    BY <1>1, CurTyped DEF CurDigest
  <1>4. job.at # "next" => DigestOf(job.cur) \in Digest
    BY MarkerTyped DEF StoreInv, JobSound
  <1>5. BlobReferenced(DigestOf(job.cur))' <=> BlobReferenced(DigestOf(job.cur))
    BY <1>1 DEF BlobReferenced
  <1> QED
    BY <1>1, <1>2, <1>3, <1>4, <1>5 DEF UnlinkSafe

\* The invariant of MarkerOutlives.
UnlinkInv == StoreInv /\ UnlinkSafe

LEMMA UnlinkStep == UnlinkInv /\ [Next]_vars => UnlinkInv'
  <1> SUFFICES ASSUME UnlinkInv, [Next]_vars PROVE UnlinkInv'
    OBVIOUS
  <1>1. CASE Next
    BY <1>1, StoreStep, RequestUnlink, RecoverUnlinks, OtherUnlink, DamageUnlink
    DEF Next, UnlinkInv
  <1>2. CASE UNCHANGED vars
    <2>1. UNCHANGED <<req, object, job, present, marker>>
      BY <1>2 DEF vars, fileVars, rowVars, commandVars
    <2> QED
      BY <1>2, <2>1, StoreStep DEF UnlinkInv, UnlinkSafe, CurDigest, BlobReferenced
  <1> QED
    BY <1>1, <1>2

\* Only the two unlinks give up a marker.
LEMMA MarkerGivenUp ==
    ASSUME UnlinkInv, [Next]_vars, NEW m \in Marker,
           marker[m] = "doomedSealed", marker'[m] = "none",
           BlobReferenced(DigestOf(m))
    PROVE  object[DigestOf(m)] # "none"
  <1>0. /\ TypeOK /\ JobSound /\ UnlinkSafe
        /\ marker \in [Marker -> MarkerState]
    BY DEF UnlinkInv, StoreInv, TypeOK
  <1>1. CASE \E r \in Request : AcknowledgeUnlink(r)
    <2>1. PICK r \in Request : AcknowledgeUnlink(r)
      BY <1>1
    <2>2. Cur(r) = m
      BY <1>0, <2>1 DEF AcknowledgeUnlink
    <2> QED
      BY <1>0, <2>1, <2>2, CurTyped DEF AcknowledgeUnlink, UnlinkSafe
  <1>2. CASE RecoverUnlink
    <2>1. job.cur = m /\ job.at = "unlink"
      BY <1>0, <1>2 DEF RecoverUnlink, Recovering
    <2> QED
      BY <1>0, <2>1 DEF UnlinkSafe
  <1>3. CASE \E r \in Request : StageCreate(r) \/ StageSeal(r) \/ Acknowledge(r)
    BY <1>0, <1>3 DEF StageCreate, StageSeal, Acknowledge
  <1>4. CASE RecoverMarker \/ \E n \in Marker : RecoverPartial(n)
    BY <1>0, <1>4 DEF RecoverMarker, RecoverPartial
  <1>5. CASE UNCHANGED marker
    BY <1>5
  <1> QED
    BY <1>1, <1>2, <1>3, <1>4, <1>5
    DEF Next, RequestStep, Finalize, Publish, Verify, StageFails, SubmitCommits,
        SubmitRefused, SubmitAmbiguous, ServeStart, ServeStop, Project, Erase,
        RecoverStep, RecoverStart, RecoverSealed, RecoverQuarantined,
        RecoverMissing, RecoverPublish, RecoverStored, RecoverCollides,
        RecoverDamaged, RecoverUnlinkObject, RecoverDone, GcStep, GcDryRun,
        GcApply, GcRemove, GcCommit, GcStop, Crash, Damage, fileVars, vars

\* The copy recovery restores from outlives every moment at which the object
\* of a referenced content is missing, for any requests and contents.
THEOREM MarkerAlwaysOutlives == Spec => MarkerOutlives
  <1>1. Init => UnlinkInv
    BY StoreInit DEF Init, UnlinkInv, UnlinkSafe, NoJob, LockPoint
  <1>2. UnlinkInv /\ [Next]_vars =>
          [\A m \in Marker :
              /\ marker[m] = "doomedSealed" /\ marker'[m] = "none"
              /\ BlobReferenced(DigestOf(m))
              => object[DigestOf(m)] # "none"]_vars
    BY MarkerGivenUp
  <1> QED
    BY <1>1, <1>2, UnlinkStep, PTL DEF Spec, MarkerOutlives


-----------------------------------------------------------------------------
(* Collection.                                                             *)

\* What a collection has still to do: every unreferenced content that is left
\* is in its plan, and only the object of the current candidate is already
\* gone.
CollectionCovers ==
    process = "gc" =>
        /\ \A d \in Digest :
              \/ BlobReferenced(d)
              \/ d \notin rows /\ object[d] = "none"
              \/ \E c \in batch.todo : c.digest = d
        /\ \A c \in batch.todo : c.file \/ object[c.digest] = "none"
        /\ batch.cur # None => object[batch.cur.digest] = "none"

\* The invariant of GcComplete.
CollectionInv == StoreInv /\ CollectionCovers

\* A plan that was confirmed covers everything there is to collect.
LEMMA PlanCovers ==
    ASSUME NEW d \in Digest
    PROVE  \/ BlobReferenced(d)
           \/ d \notin rows /\ object[d] = "none"
           \/ \E c \in Candidates : c.digest = d
  <1> SUFFICES ASSUME ~BlobReferenced(d), d \in rows \/ object[d] # "none"
               PROVE  \E c \in Candidates : c.digest = d
    OBVIOUS
  <1> DEFINE c == [digest |-> d, row |-> d \in rows, file |-> object[d] # "none"]
  <1>1. c \in Candidates /\ c.digest = d
    BY DEF Candidates
  <1> QED
    BY <1>1

LEMMA PlanFiles ==
    ASSUME NEW c \in Candidates
    PROVE  c.file \/ object[c.digest] = "none"
  <1>1. PICK d \in Digest :
            c = [digest |-> d, row |-> d \in rows, file |-> object[d] # "none"]
    BY DEF Candidates
  <1> QED
    BY <1>1

LEMMA CollectionStep == CollectionInv /\ [Next]_vars => CollectionInv'
  <1> SUFFICES ASSUME CollectionInv, [Next]_vars PROVE CollectionCovers'
    BY StoreStep DEF CollectionInv
  <1>0. /\ TypeOK /\ BatchSound /\ object \in [Digest -> ObjectState]
        /\ batch \in Batch
    BY DEF CollectionInv, StoreInv, TypeOK
  <1>1. CASE process' # "gc"
    BY <1>1 DEF CollectionCovers
  <1>2. CASE GcApply
    <2>1. /\ UNCHANGED <<object, rows, present>>
          /\ batch'.todo = Candidates /\ batch'.cur = None
      BY <1>2 DEF GcApply, NoBatch, fileVars, rowVars
    <2>2. \A d : BlobReferenced(d)' <=> BlobReferenced(d)
      BY <2>1 DEF BlobReferenced
    <2> QED
      BY <2>1, <2>2, PlanCovers, PlanFiles DEF CollectionCovers
  <1>3. CASE \E c \in Candidate : GcRemove(c)
    <2>1. PICK c \in Candidate : GcRemove(c)
      BY <1>3
    <2>2. /\ UNCHANGED <<process, rows, present>>
          /\ process = "gc" /\ c \in batch.todo /\ c.digest \in Digest
          /\ batch'.todo = batch.todo /\ batch'.cur = c
      BY <1>0, <2>1 DEF GcRemove, rowVars, Batch, Candidate
    <2>3. /\ object'[c.digest] = "none"
          /\ \A d \in Digest : object[d] = "none" => object'[d] = "none"
      BY <1>0, <2>1, <2>2 DEF GcRemove, CollectionInv, CollectionCovers
    <2>4. \A d : BlobReferenced(d)' <=> BlobReferenced(d)
      BY <2>2 DEF BlobReferenced
    <2>5. \A b \in batch.todo : b.digest \in Digest
      BY <1>0 DEF Batch, Candidate
    <2> QED
      BY <2>2, <2>3, <2>4, <2>5 DEF CollectionInv, CollectionCovers
  <1>4. CASE GcCommit
    <2>1. /\ UNCHANGED <<process, object, present>>
          /\ process = "gc" /\ batch.cur # None
          /\ rows' = rows \ {batch.cur.digest}
          /\ batch'.todo = batch.todo \ {batch.cur} /\ batch'.cur = None
      BY <1>4 DEF GcCommit, NoBatch, fileVars
    <2>2. \A d : BlobReferenced(d)' <=> BlobReferenced(d)
      BY <2>1 DEF BlobReferenced
    <2>3. ASSUME NEW d \in Digest
          PROVE  \/ BlobReferenced(d)'
                 \/ d \notin rows' /\ object'[d] = "none"
                 \/ \E c \in batch'.todo : c.digest = d
      <3>1. CASE d = batch.cur.digest
        BY <2>1, <3>1 DEF CollectionInv, CollectionCovers
      <3>2. CASE d # batch.cur.digest
        BY <2>1, <2>2, <3>2 DEF CollectionInv, CollectionCovers
      <3> QED
        BY <3>1, <3>2
    <2> QED
      BY <2>1, <2>3 DEF CollectionInv, CollectionCovers
  <1>5. CASE \E d \in Digest : Damage(d)
    <2>1. /\ UNCHANGED <<process, rows, present, batch>>
          /\ \A e \in Digest : object[e] = "none" => object'[e] = "none"
      BY <1>0, <1>5 DEF Damage, rowVars, commandVars
    <2>2. \A d : BlobReferenced(d)' <=> BlobReferenced(d)
      BY <2>1 DEF BlobReferenced
    <2>3. \A b \in batch.todo : b.digest \in Digest
      BY <1>0 DEF Batch, Candidate
    <2>4. batch.cur # None => batch.cur.digest \in Digest
      BY <1>0 DEF Batch, Candidate
    <2> QED
      BY <2>1, <2>2, <2>3, <2>4 DEF CollectionInv, CollectionCovers
  <1>6. CASE UNCHANGED <<process, object, rows, present, batch>>
    BY <1>6 DEF CollectionInv, CollectionCovers, BlobReferenced
  <1>7. CASE GcDryRun \/ GcStop \/ Crash
    BY <1>1, <1>7 DEF GcDryRun, GcStop, Crash, Released
  <1>8. CASE process # "gc" /\ ~GcApply
    <2>1. process' # "gc"
      BY <1>8 DEF Next, RequestStep, StageCreate, StageSeal, Finalize, Publish,
         Verify, StageFails, SubmitCommits, SubmitRefused, SubmitAmbiguous,
         Acknowledge, AcknowledgeUnlink, ServeStart, ServeStop, Project, Erase,
         RecoverStep, RecoverStart, RecoverPartial, RecoverSealed,
         RecoverQuarantined, RecoverMissing, RecoverPublish, RecoverStored,
         RecoverCollides, RecoverDamaged, RecoverUnlinkObject, RecoverMarker,
         RecoverUnlink, RecoverDone, Released, GcStep, GcDryRun, GcRemove,
         GcCommit, GcStop, Crash, Damage, vars
    <2> QED
      BY <1>1, <2>1
  <1>9. process = "gc" =>
            \/ GcStep \/ Crash \/ UNCHANGED vars \/ \E d \in Digest : Damage(d)
    BY DEF Next, RequestStep, StageCreate, StageSeal, Finalize, Publish, Verify,
       StageFails, SubmitCommits, SubmitRefused, SubmitAmbiguous, Acknowledge,
       AcknowledgeUnlink, Serving, ServeStart, ServeStop, Project, Erase,
       RecoverStep, RecoverStart, RecoverPartial, RecoverSealed,
       RecoverQuarantined, RecoverMissing, RecoverPublish, RecoverStored,
       RecoverCollides, RecoverDamaged, RecoverUnlinkObject, RecoverMarker,
       RecoverUnlink, RecoverDone, Recovering
  <1>10. UNCHANGED vars => UNCHANGED <<process, object, rows, present, batch>>
    BY DEF vars, fileVars, rowVars, commandVars
  <1> QED
    BY <1>2, <1>3, <1>4, <1>5, <1>6, <1>7, <1>8, <1>9, <1>10 DEF GcStep

\* A collection that worked through its plan has left nothing unreferenced
\* behind, whatever earlier collections left half done, for any contents.
THEOREM CollectionAlwaysComplete == Spec => []GcComplete
  <1>1. Init => CollectionInv
    BY StoreInit DEF Init, CollectionInv, CollectionCovers
  <1>2. CollectionInv => GcComplete
    BY DEF CollectionInv, CollectionCovers, GcComplete, NoBatch
  <1> QED
    BY <1>1, <1>2, CollectionStep, PTL DEF Spec

-----------------------------------------------------------------------------
(* What recovery can find.                                                 *)

Sealed(m) == marker[m] \in {"sealed", "doomedSealed"}

\* The markers of a request until its commit, and its contents after it.
MarkerFits(r, i) ==
    /\ req[r].at = "new" => req[r].i = 1 /\ marker[<<r, i>>] = "none"
    /\ req[r].at = "stage" /\ i >= req[r].i => marker[<<r, i>>] = "none"
    /\ req[r].at = "seal" /\ i > req[r].i => marker[<<r, i>>] = "none"
    /\ req[r].at \in {"stage", "seal"} /\ i < req[r].i => Sealed(<<r, i>>)
    /\ req[r].at \in {"finalize", "publish", "verify", "submit"} =>
          Sealed(<<r, i>>)
    /\ req[r].at \in {"ack", "unlink"} => Contents[r][i] \in committed

RequestMarkers ==
    \A r \in Request : \A i \in 1 .. Len(Contents[r]) : MarkerFits(r, i)

Gone(d) == object[d] = "none" /\ d \notin doomed

\* Recovery gives up a marker last.
JobMarkers ==
    /\ job.at \in {"object", "publish", "unlinkObject", "marker"} =>
          Sealed(job.cur)
    /\ job.at = "unlink" => marker[job.cur] # "none"
    /\ job.at = "publish" => job.referenced
    /\ job.at = "unlinkObject" =>
          ~job.referenced /\ object[DigestOf(job.cur)] = "none"
    /\ job.at = "marker" => job.referenced \/ Gone(DigestOf(job.cur))
    /\ job.at = "unlink" /\ Sealed(job.cur) =>
          DigestOf(job.cur) \in committed \/ Gone(DigestOf(job.cur))

ReferencesCommitted == \A m \in present : DigestOf(m) \in committed

\* The invariant of Discoverable.
MarkersInv == /\ StoreInv /\ RequestMarkers /\ JobMarkers /\ ReferencesCommitted
              /\ Discoverable

\* Uncommitted content that is still there keeps a sealed marker.
LEMMA StaysDiscoverable ==
    ASSUME Discoverable, committed \subseteq committed',
           \A m \in Marker :
              Sealed(m) /\ DigestOf(m) \notin committed' /\ ~Gone(DigestOf(m))'
              => Sealed(m)',
           \A d \in Digest \ committed' : ~Gone(d)' =>
              ~Gone(d) \/ \E m \in Marker : DigestOf(m) = d /\ Sealed(m)
    PROVE  Discoverable'
  <1> SUFFICES ASSUME NEW d \in Digest, d \notin committed', ~Gone(d)'
               PROVE  \E m \in Marker : DigestOf(m) = d /\ Sealed(m)'
    BY DEF Discoverable, Gone, Sealed, DigestOf
  <1>1. \E m \in Marker : DigestOf(m) = d /\ Sealed(m)
    BY DEF Discoverable, Gone, Sealed
  <1> QED
    BY <1>1

LEMMA NoJobMarkers == job' = NoJob => JobMarkers'
  BY DEF JobMarkers, NoJob

\* Only the current marker of a request changes, and only before it is sealed
\* or after the commit.
LEMMA RequestMarkersStep ==
    ASSUME MarkersInv, NEW r \in Request, RequestStep(r)
    PROVE  RequestMarkers' /\ Discoverable'
  <1>0. /\ TypeOK /\ RequestMarkers /\ Discoverable
        /\ req \in [Request -> RequestState] /\ marker \in [Marker -> MarkerState]
        /\ object \in [Digest -> ObjectState]
    BY DEF MarkersInv, StoreInv, TypeOK
  <1>1. /\ Cur(r) = <<r, req[r].i>> /\ Cur(r) \in Marker
        /\ DigestOf(Cur(r)) = CurDigest(r) /\ CurDigest(r) \in Digest
        /\ CurDigest(r) = Contents[r][req[r].i]
        /\ req[r].i \in 1 .. Len(Contents[r])
        /\ Len(Contents[r]) \in Nat
    BY <1>0, CurTyped, ContentsTyped DEF Cur, CurDigest
  <1>2. \A i \in 1 .. Len(Contents[r]) : <<r, i>> \in Marker
    BY MarkerOf
  <1>3. \A q \in Request \ {r} : req'[q] = req[q]
    BY <1>0 DEF RequestStep, StageCreate, StageSeal, Finalize, Publish, Verify,
       StageFails, SubmitCommits, SubmitRefused, SubmitAmbiguous, Acknowledge,
       AcknowledgeUnlink, Goto, Advance
  <1>4. /\ \A m \in Marker \ {Cur(r)} : marker'[m] = marker[m]
        /\ committed \subseteq committed' /\ UNCHANGED doomed
    BY <1>0 DEF RequestStep, StageCreate, StageSeal, Finalize, Publish, Verify,
       StageFails, SubmitCommits, SubmitRefused, SubmitAmbiguous, Acknowledge,
       AcknowledgeUnlink, Commits, fileVars, rowVars
  <1>5. \A i \in 1 .. Len(Contents[r]) : MarkerFits(r, i)
    BY <1>0 DEF RequestMarkers
  <1>6. ASSUME \A i \in 1 .. Len(Contents[r]) : MarkerFits(r, i)'
        PROVE  RequestMarkers'
    <2> SUFFICES ASSUME NEW q \in Request \ {r}, NEW i \in 1 .. Len(Contents[q])
                 PROVE  MarkerFits(q, i)'
      BY <1>6 DEF RequestMarkers
    <2>1. <<q, i>> \in Marker \ {Cur(r)}
      BY <1>1, MarkerOf
    <2>2. MarkerFits(q, i)
      BY <1>0 DEF RequestMarkers
    <2> QED
      BY <1>3, <1>4, <2>1, <2>2 DEF MarkerFits, Sealed
  <1>7. ASSUME NEW p, Goto(r, p)
        PROVE  req'[r].at = p /\ req'[r].i = req[r].i
    BY <1>0, <1>7 DEF Goto, RequestState
  <1>8. ASSUME NEW p, NEW n, Advance(r, p, n)
        PROVE  \/ req[r].i < Len(Contents[r]) /\ req'[r].at = p /\ req'[r].i = req[r].i + 1
               \/ req[r].i = Len(Contents[r]) /\ req'[r].at = n /\ req'[r].i = 1
    BY <1>0, <1>1, <1>8 DEF Advance
  <1>9. ASSUME UNCHANGED <<marker, object>>
        PROVE  Discoverable'
    BY <1>0, <1>4, <1>9, StaysDiscoverable DEF Gone, Sealed
  <1>10. ASSUME UNCHANGED <<marker>>, Quarantined(CurDigest(r))
         PROVE  Discoverable'
    BY <1>0, <1>1, <1>4, <1>10, StaysDiscoverable DEF Gone, Sealed, Quarantined
  <1>11. CASE StageCreate(r)
    <2>1. /\ marker' = [marker EXCEPT ![Cur(r)] = "partial"] /\ UNCHANGED object
          /\ req'[r].at = "seal" /\ req'[r].i = req[r].i
      BY <1>7, <1>11 DEF StageCreate
    <2>2. ~Sealed(Cur(r))
      BY <1>1, <1>5, <1>11 DEF MarkerFits, StageCreate, Sealed
    <2>3. Discoverable'
      BY <1>0, <1>4, <2>1, <2>2, StaysDiscoverable DEF Gone, Sealed
    <2>4. ASSUME NEW i \in 1 .. Len(Contents[r])
          PROVE  MarkerFits(r, i)'
      <3>1. i # req[r].i => marker'[<<r, i>>] = marker[<<r, i>>]
        BY <1>1, <1>2, <1>4
      <3> QED
        BY <1>1, <1>5, <1>11, <2>1, <3>1 DEF MarkerFits, StageCreate, Sealed
    <2> QED
      BY <1>6, <2>3, <2>4
  <1>12. CASE StageSeal(r)
    <2>1. /\ marker' = [marker EXCEPT ![Cur(r)] = "sealed"] /\ UNCHANGED object
          /\ req[r].at = "seal" /\ Advance(r, "stage", "finalize")
      BY <1>12 DEF StageSeal
    <2>2. marker'[Cur(r)] = "sealed"
      BY <1>0, <1>1, <2>1
    <2>3. Discoverable'
      BY <1>0, <1>1, <1>4, <2>1, <2>2, StaysDiscoverable DEF Gone, Sealed
    <2>4. ASSUME NEW i \in 1 .. Len(Contents[r])
          PROVE  MarkerFits(r, i)'
      <3>1. i # req[r].i => marker'[<<r, i>>] = marker[<<r, i>>]
        BY <1>1, <1>2, <1>4
      <3>2. i = req[r].i => marker'[<<r, i>>] = "sealed"
        BY <1>1, <2>2
      <3> QED
        BY <1>1, <1>5, <1>8, <2>1, <3>1, <3>2 DEF MarkerFits, Sealed
    <2> QED
      BY <1>6, <2>3, <2>4
  <1>13. CASE Finalize(r)
    <2>1. /\ UNCHANGED <<marker, object>> /\ req[r].at = "finalize"
          /\ \E p \in {"publish", "verify"} : Goto(r, p)
      BY <1>13 DEF Finalize, fileVars
    <2>2. req'[r].at \in {"publish", "verify"}
      BY <1>7, <2>1
    <2>3. \A i \in 1 .. Len(Contents[r]) : MarkerFits(r, i)'
      BY <1>5, <2>1, <2>2 DEF MarkerFits, Sealed
    <2> QED
      BY <1>6, <1>9, <2>1, <2>3
  <1>14. CASE Publish(r)
    <2>1. /\ UNCHANGED marker /\ req[r].at = "publish" /\ req'[r].at = "verify"
          /\ object' = [object EXCEPT ![CurDigest(r)] = "sound"]
      BY <1>7, <1>14 DEF Publish
    <2>2. Sealed(Cur(r))
      BY <1>1, <1>5, <2>1 DEF MarkerFits
    <2>3. Discoverable'
      BY <1>0, <1>1, <1>4, <2>1, <2>2, StaysDiscoverable DEF Gone, Sealed
    <2>4. \A i \in 1 .. Len(Contents[r]) : MarkerFits(r, i)'
      BY <1>5, <2>1 DEF MarkerFits, Sealed
    <2> QED
      BY <1>6, <2>3, <2>4
  <1>15. CASE Verify(r)
    <2>1. UNCHANGED marker /\ req[r].at = "verify"
      BY <1>15 DEF Verify
    <2>2. Discoverable'
      BY <1>9, <1>10, <1>15 DEF Verify
    <2>3. req'[r].at \in {"finalize", "submit", "done"}
      BY <1>7, <1>8, <1>15 DEF Verify
    <2>4. \A i \in 1 .. Len(Contents[r]) : MarkerFits(r, i)'
      BY <1>5, <2>1, <2>3 DEF MarkerFits, Sealed
    <2> QED
      BY <1>6, <2>2, <2>4
  <1>16. CASE StageFails(r) \/ SubmitRefused(r) \/ SubmitAmbiguous(r)
    <2>1. UNCHANGED <<marker, object>> /\ Goto(r, "done")
      BY <1>16 DEF StageFails, SubmitRefused, SubmitAmbiguous, AfterRefusal, fileVars
    <2>2. \A i \in 1 .. Len(Contents[r]) : MarkerFits(r, i)'
      BY <1>7, <2>1 DEF MarkerFits
    <2> QED
      BY <1>6, <1>9, <2>1, <2>2
  <1>17. CASE SubmitCommits(r)
    <2>1. UNCHANGED <<marker, object>> /\ req'[r].at = "ack" /\ Commits(r)
      BY <1>7, <1>17 DEF SubmitCommits, fileVars
    <2>2. \A i \in 1 .. Len(Contents[r]) : Contents[r][i] \in committed'
      BY <2>1, ContentsTyped DEF Commits
    <2>3. \A i \in 1 .. Len(Contents[r]) : MarkerFits(r, i)'
      BY <2>1, <2>2 DEF MarkerFits
    <2> QED
      BY <1>6, <1>9, <2>1, <2>3
  <1>18. CASE Acknowledge(r)
    <2>1. req[r].at = "ack" /\ UNCHANGED committed
      BY <1>18 DEF Acknowledge, rowVars
    <2>2. req'[r].at \in {"ack", "unlink", "done"}
      BY <1>7, <1>8, <1>18 DEF Acknowledge
    <2>3. \A i \in 1 .. Len(Contents[r]) : MarkerFits(r, i)'
      BY <1>5, <2>1, <2>2 DEF MarkerFits
    <2>4. CASE marker' = [marker EXCEPT ![Cur(r)] = "doomedSealed"] /\ UNCHANGED object
      BY <1>0, <1>4, <1>6, <2>3, <2>4, StaysDiscoverable DEF Gone, Sealed
    <2> QED
      BY <1>6, <1>9, <1>10, <1>18, <2>3, <2>4 DEF Acknowledge
  <1>19. CASE AcknowledgeUnlink(r)
    <2>1. req[r].at = "unlink" /\ UNCHANGED <<object, committed>>
      BY <1>19 DEF AcknowledgeUnlink, rowVars
    <2>2. req'[r].at \in {"ack", "done"}
      BY <1>8, <1>19 DEF AcknowledgeUnlink
    <2>3. \A i \in 1 .. Len(Contents[r]) : MarkerFits(r, i)'
      BY <1>5, <2>1, <2>2 DEF MarkerFits
    <2>4. DigestOf(Cur(r)) \in committed'
      BY <1>1, <1>5, <2>1 DEF MarkerFits
    <2>5. Discoverable'
      BY <1>0, <1>4, <2>1, <2>4, StaysDiscoverable DEF Gone, Sealed
    <2> QED
      BY <1>6, <2>3, <2>5
  <1> QED
    BY <1>11, <1>12, <1>13, <1>14, <1>15, <1>16, <1>17, <1>18, <1>19 DEF RequestStep

\* No other command seals or drops a marker of a request that is under way.
LEMMA AtRestMarkers ==
    ASSUME RequestMarkers,
           \A r \in Request :
              req'[r].at \in AtRest /\ (req'[r].at = "new" => req'[r] = req[r]),
           \A m \in Marker : marker[m] = "none" => marker'[m] = "none"
    PROVE  RequestMarkers'
  <1> SUFFICES ASSUME NEW r \in Request, NEW i \in 1 .. Len(Contents[r])
               PROVE  MarkerFits(r, i)'
    BY DEF RequestMarkers
  <1>1. MarkerFits(r, i) /\ <<r, i>> \in Marker
    BY MarkerOf DEF RequestMarkers
  <1> QED
    BY <1>1 DEF MarkerFits, AtRest

LEMMA RecoverMarkersStep ==
    ASSUME MarkersInv, RecoverStep
    PROVE  RequestMarkers' /\ JobMarkers' /\ Discoverable'
  <1>0. /\ TypeOK /\ JobSound /\ RequestMarkers /\ JobMarkers /\ Discoverable
        /\ ReferencesCommitted /\ OneHolder
        /\ job \in Job /\ marker \in [Marker -> MarkerState]
        /\ object \in [Digest -> ObjectState]
    BY DEF MarkersInv, StoreInv, TypeOK
  <1>1. UNCHANGED <<req, present, committed>> /\ ~Serving
    BY DEF RecoverStep, RecoverStart, RecoverPartial, RecoverSealed,
       RecoverQuarantined, RecoverMissing, RecoverPublish, RecoverStored,
       RecoverCollides, RecoverDamaged, RecoverUnlinkObject, RecoverMarker,
       RecoverUnlink, RecoverDone, Recovering, Serving, rowVars
  <1>2. \A r \in Request : req'[r].at \in AtRest /\ req'[r] = req[r]
    BY <1>0, <1>1 DEF OneHolder
  <1>3. UNCHANGED marker => RequestMarkers'
    BY <1>0, <1>2, AtRestMarkers
  <1>4. \A p \in JobPoint : JobAt(p) =>
            /\ job'.at = p /\ job'.cur = job.cur /\ job'.referenced = job.referenced
    BY <1>0 DEF JobAt, Job
  <1>5. job.at # "next" => job.cur \in Marker /\ JobDigest \in Digest
    BY <1>0, MarkerTyped DEF JobSound, JobDigest
  <1>6. /\ job.at \in {"object", "publish", "unlinkObject", "marker"}
        /\ job.referenced
        => JobDigest \in committed
    BY <1>0 DEF JobSound, BlobReferenced, ReferencesCommitted, JobDigest
  <1>7. UNCHANGED <<marker, object, doomed>> => Discoverable'
    BY <1>0, <1>1, StaysDiscoverable DEF Gone, Sealed
  <1>8. CASE RecoverStart
    BY <1>3, <1>7, <1>8 DEF RecoverStart, NoJob, JobMarkers, fileVars
  <1>9. CASE \E m \in Marker : RecoverPartial(m)
    <2>1. PICK m \in Marker : RecoverPartial(m)
      BY <1>9
    <2>2. job'.at = "unlink" /\ job'.cur = m /\ UNCHANGED <<object, doomed>>
      BY <1>0, <2>1 DEF RecoverPartial, Job
    <2>3. /\ marker'[m] = "doomedPartial" /\ ~Sealed(m) /\ marker[m] # "none"
          /\ \A n \in Marker \ {m} : marker'[n] = marker[n]
      BY <1>0, <2>1 DEF RecoverPartial, Sealed
    <2>4. JobMarkers'
      BY <2>2, <2>3 DEF JobMarkers, Sealed
    <2>5. RequestMarkers'
      BY <1>0, <1>2, <2>3, AtRestMarkers
    <2>6. Discoverable'
      BY <1>0, <1>1, <2>2, <2>3, StaysDiscoverable DEF Gone, Sealed
    <2> QED
      BY <2>4, <2>5, <2>6
  <1>10. CASE \E m \in Marker : RecoverSealed(m)
    <2>1. PICK m \in Marker : RecoverSealed(m)
      BY <1>10
    <2>2. /\ job'.at = "object" /\ job'.cur = m
          /\ UNCHANGED <<marker, object, doomed>>
      BY <1>0, <2>1 DEF RecoverSealed, Job, fileVars
    <2>3. Sealed(m)
      BY <2>1 DEF RecoverSealed, Sealed
    <2>4. JobMarkers'
      BY <2>2, <2>3 DEF JobMarkers, Sealed
    <2> QED
      BY <1>3, <1>7, <2>2, <2>4
  <1>11. CASE RecoverQuarantined
    <2>1. /\ job.at = "object" /\ UNCHANGED marker
          /\ object[JobDigest] = "none" /\ JobDigest \in doomed
          /\ doomed' = doomed \ {JobDigest}
          /\ \/ object' = [object EXCEPT ![JobDigest] = "sound"] /\ JobAt("object")
             \/ UNCHANGED object /\ JobAt("marker")
      BY <1>11 DEF RecoverQuarantined, Recovering
    <2>2. Sealed(job.cur)
      BY <1>0, <2>1 DEF JobMarkers
    <2>3. \A d \in Digest : ~Gone(d)' => ~Gone(d)
      BY <1>0, <1>5, <2>1 DEF Gone
    <2>4. Discoverable'
      BY <1>0, <1>1, <2>1, <2>3, StaysDiscoverable DEF Sealed
    <2>5. JobMarkers'
      BY <1>4, <2>1, <2>2 DEF JobMarkers, JobPoint, Sealed, Gone, JobDigest
    <2> QED
      BY <1>3, <2>1, <2>4, <2>5
  <1>12. CASE RecoverMissing
    <2>1. /\ job.at = "object" /\ UNCHANGED <<marker, object, doomed>>
          /\ Gone(JobDigest)
          /\ JobAt(IF job.referenced THEN "publish" ELSE "marker")
      BY <1>12 DEF RecoverMissing, Recovering, fileVars, Gone
    <2>2. Sealed(job.cur)
      BY <1>0, <2>1 DEF JobMarkers
    <2>3. JobMarkers'
      BY <1>4, <2>1, <2>2 DEF JobMarkers, JobPoint, Sealed, Gone, JobDigest
    <2> QED
      BY <1>3, <1>7, <2>1, <2>3
  <1>13. CASE RecoverPublish
    <2>1. /\ job.at = "publish" /\ UNCHANGED <<marker, doomed>>
          /\ object' = [object EXCEPT ![JobDigest] = "sound"] /\ JobAt("object")
      BY <1>13 DEF RecoverPublish, Recovering
    <2>2. Sealed(job.cur)
      BY <1>0, <2>1 DEF JobMarkers
    <2>3. JobMarkers'
      BY <1>4, <2>1, <2>2 DEF JobMarkers, JobPoint, Sealed
    <2>4. \A d \in Digest : ~Gone(d)' => ~Gone(d) \/ d = JobDigest
      BY <1>0, <1>5, <2>1 DEF Gone
    <2>5. Discoverable'
      BY <1>0, <1>1, <1>5, <2>1, <2>2, <2>4, StaysDiscoverable DEF Sealed, JobDigest
    <2> QED
      BY <1>3, <2>1, <2>3, <2>5
  <1>14. CASE RecoverStored
    <2>1. /\ job.at = "object" /\ UNCHANGED marker /\ object[JobDigest] = "sound"
          /\ \/ job.referenced /\ JobAt("marker") /\ UNCHANGED <<object, doomed>>
             \/ /\ ~job.referenced /\ JobAt("unlinkObject")
                /\ object' = [object EXCEPT ![JobDigest] = "none"]
                /\ doomed' = doomed \cup {JobDigest}
      BY <1>14 DEF RecoverStored, Recovering
    <2>2. Sealed(job.cur)
      BY <1>0, <2>1 DEF JobMarkers
    <2>3. \A d \in Digest : ~Gone(d)' => ~Gone(d)
      BY <1>0, <1>5, <2>1 DEF Gone
    <2>4. Discoverable'
      BY <1>0, <1>1, <2>1, <2>3, StaysDiscoverable DEF Sealed
    <2>5. CASE JobAt("marker") /\ job.referenced
      BY <1>3, <1>4, <2>1, <2>2, <2>4, <2>5 DEF JobMarkers, JobPoint, Sealed
    <2>6. CASE /\ ~job.referenced /\ JobAt("unlinkObject")
               /\ object' = [object EXCEPT ![JobDigest] = "none"]
      <3>1. object'[JobDigest] = "none"
        BY <1>0, <1>5, <2>1, <2>6
      <3>2. /\ job'.at = "unlinkObject" /\ job'.cur = job.cur /\ ~job'.referenced
        BY <1>4, <2>6 DEF JobPoint
      <3> QED
        BY <1>3, <2>1, <2>2, <2>4, <3>1, <3>2 DEF JobMarkers, Sealed, JobDigest
    <2> QED
      BY <2>1, <2>5, <2>6
  <1>15. CASE RecoverCollides \/ RecoverDone
    BY <1>3, <1>7, <1>15, NoJobMarkers
    DEF RecoverCollides, RecoverDone, Released, fileVars
  <1>16. CASE RecoverDamaged
    <2>1. /\ job.at = "object" /\ UNCHANGED <<marker, doomed>> /\ job' = NoJob
          /\ object' = [object EXCEPT ![JobDigest] = "none"]
      BY <1>16 DEF RecoverDamaged, Recovering, Released, Quarantined
    <2>2. \A d \in Digest : ~Gone(d)' => ~Gone(d)
      BY <1>0, <1>5, <2>1 DEF Gone
    <2>3. Discoverable'
      BY <1>0, <1>1, <2>1, <2>2, StaysDiscoverable DEF Sealed
    <2> QED
      BY <1>3, <2>1, <2>3, NoJobMarkers
  <1>17. CASE RecoverUnlinkObject
    <2>1. /\ job.at = "unlinkObject" /\ UNCHANGED <<marker, object>>
          /\ doomed' = doomed \ {JobDigest} /\ JobAt("marker")
      BY <1>17 DEF RecoverUnlinkObject, Recovering
    <2>2. Sealed(job.cur) /\ object[JobDigest] = "none"
      BY <1>0, <2>1 DEF JobMarkers, JobDigest
    <2>3. \A d \in Digest : ~Gone(d)' => ~Gone(d)
      BY <1>0, <1>5, <2>1 DEF Gone
    <2>4. Discoverable'
      BY <1>0, <1>1, <2>1, <2>3, StaysDiscoverable DEF Sealed
    <2>5. JobMarkers'
      BY <1>4, <2>1, <2>2 DEF JobMarkers, JobPoint, Sealed, Gone, JobDigest
    <2> QED
      BY <1>3, <2>1, <2>4, <2>5
  <1>18. CASE RecoverMarker
    <2>1. /\ job.at = "marker" /\ UNCHANGED <<object, doomed>> /\ JobAt("unlink")
          /\ marker' = [marker EXCEPT ![job.cur] = "doomedSealed"]
      BY <1>18 DEF RecoverMarker, Recovering
    <2>2. Sealed(job.cur) /\ (JobDigest \in committed \/ Gone(JobDigest))
      BY <1>0, <1>6, <2>1 DEF JobMarkers, JobDigest
    <2>3. /\ marker'[job.cur] = "doomedSealed"
          /\ \A n \in Marker \ {job.cur} : marker'[n] = marker[n]
      BY <1>0, <1>5, <2>1
    <2>4. JobMarkers'
      BY <1>1, <1>4, <2>1, <2>2, <2>3 DEF JobMarkers, JobPoint, Sealed, Gone, JobDigest
    <2>5. RequestMarkers'
      BY <1>0, <1>2, <2>2, <2>3, AtRestMarkers DEF Sealed
    <2>6. Discoverable'
      BY <1>0, <1>1, <2>1, <2>2, <2>3, StaysDiscoverable DEF Gone, Sealed
    <2> QED
      BY <2>4, <2>5, <2>6
  <1>19. CASE RecoverUnlink
    <2>1. /\ job.at = "unlink" /\ UNCHANGED <<object, doomed>> /\ job'.at = "next"
          /\ marker' = [marker EXCEPT ![job.cur] = "none"]
      BY <1>19 DEF RecoverUnlink, Recovering, NoJob
    <2>2. Sealed(job.cur) => JobDigest \in committed \/ Gone(JobDigest)
      BY <1>0, <2>1 DEF JobMarkers, JobDigest
    <2>3. \A n \in Marker : marker'[n] = IF n = job.cur THEN "none" ELSE marker[n]
      BY <1>0, <2>1
    <2>4. JobMarkers'
      BY <2>1 DEF JobMarkers
    <2>5. RequestMarkers'
      BY <1>0, <1>2, <2>3, AtRestMarkers
    <2>6. Discoverable'
      BY <1>0, <1>1, <2>1, <2>2, <2>3, StaysDiscoverable DEF Gone, Sealed, JobDigest
    <2> QED
      BY <2>4, <2>5, <2>6
  <1> QED
    BY <1>8, <1>9, <1>10, <1>11, <1>12, <1>13, <1>14, <1>15, <1>16, <1>17, <1>18, <1>19
    DEF RecoverStep

LEMMA OtherMarkersStep ==
    ASSUME MarkersInv,
           \/ ServeStart \/ ServeStop \/ Project \/ \E m \in Marker : Erase(m)
           \/ GcStep \/ Crash \/ \E d \in Digest : Damage(d)
    PROVE  RequestMarkers' /\ JobMarkers' /\ Discoverable'
  <1>0. /\ TypeOK /\ JobSound /\ RequestMarkers /\ JobMarkers /\ Discoverable
        /\ OneHolder /\ BatchSound
        /\ object \in [Digest -> ObjectState]
    BY DEF MarkersInv, StoreInv, TypeOK
  <1>1. /\ UNCHANGED <<marker, doomed, committed>>
        /\ \A d \in Digest : object[d] = "none" => object'[d] = "none"
    BY <1>0 DEF ServeStart, ServeStop, Project, Erase, GcStep, GcDryRun, GcApply,
       GcRemove, GcCommit, GcStop, Crash, Damage, fileVars, rowVars
  <1>2. Discoverable'
    BY <1>0, <1>1, StaysDiscoverable DEF Gone, Sealed
  <1>3. CASE ServeStart \/ ServeStop \/ Project \/ (\E m \in Marker : Erase(m)) \/ GcStep
    <2>1. UNCHANGED req /\ job' = NoJob
      BY <1>0, <1>3 DEF ServeStart, ServeStop, Project, Erase, GcStep, GcDryRun,
         GcApply, GcRemove, GcCommit, GcStop, Released, OneHolder, Serving,
         commandVars
    <2>2. RequestMarkers'
      BY <1>0, <1>1, <2>1 DEF RequestMarkers, MarkerFits, Sealed
    <2> QED
      BY <1>2, <2>1, <2>2, NoJobMarkers
  <1>4. CASE Crash
    <2>1. /\ job' = NoJob
          /\ \A r \in Request :
                req'[r].at \in AtRest /\ (req'[r].at = "new" => req'[r] = req[r])
      BY <1>4 DEF Crash, Released, AtRest
    <2> QED
      BY <1>0, <1>1, <1>2, <2>1, AtRestMarkers, NoJobMarkers
  <1>5. CASE \E d \in Digest : Damage(d)
    <2>1. UNCHANGED <<req, job>>
      BY <1>5 DEF Damage, commandVars
    <2>2. RequestMarkers'
      BY <1>0, <1>1, <2>1 DEF RequestMarkers, MarkerFits, Sealed
    <2>3. job.at # "next" => DigestOf(job.cur) \in Digest
      BY <1>0, MarkerTyped DEF JobSound
    <2>4. JobMarkers'
      BY <1>0, <1>1, <2>1, <2>3 DEF JobMarkers, Sealed, Gone
    <2> QED
      BY <1>2, <2>2, <2>4
  <1> QED
    BY <1>3, <1>4, <1>5

LEMMA CommittedStep ==
    ASSUME MarkersInv, [Next]_vars
    PROVE  ReferencesCommitted'
  <1>0. ReferencesCommitted
    BY DEF MarkersInv
  <1>1. CASE \E r \in Request : Commits(r)
    <2>1. PICK r \in Request : Commits(r)
      BY <1>1
    <2>2. ASSUME NEW m \in present'
          PROVE  DigestOf(m) \in committed'
      <3>1. CASE m \in present
        BY <1>0, <2>1, <3>1 DEF ReferencesCommitted, Commits
      <3>2. CASE m \notin present
        <4>1. m \in Marker /\ m[1] = r
          BY <2>1, <2>2, <3>2 DEF Commits
        <4>2. m[2] \in DOMAIN Contents[r]
          BY <4>1, MarkerTyped, ContentsTyped
        <4> QED
          BY <2>1, <4>1, <4>2 DEF Commits, DigestOf
      <3> QED
        BY <3>1, <3>2
    <2> QED
      BY <2>2 DEF ReferencesCommitted, DigestOf
  <1>2. CASE present' \subseteq present /\ UNCHANGED committed
    BY <1>0, <1>2 DEF ReferencesCommitted, DigestOf
  <1> QED
    BY <1>1, <1>2
    DEF Next, RequestStep, StageCreate, StageSeal, Finalize, Publish, Verify,
        StageFails, SubmitCommits, SubmitRefused, SubmitAmbiguous, Acknowledge,
        AcknowledgeUnlink, ServeStart, ServeStop, Project, Erase, RecoverStep,
        RecoverStart, RecoverPartial, RecoverSealed, RecoverQuarantined,
        RecoverMissing, RecoverPublish, RecoverStored, RecoverCollides,
        RecoverDamaged, RecoverUnlinkObject, RecoverMarker, RecoverUnlink,
        RecoverDone, GcStep, GcDryRun, GcApply, GcRemove, GcCommit, GcStop, Crash,
        Damage, rowVars, vars

LEMMA MarkersStep == MarkersInv /\ [Next]_vars => MarkersInv'
  <1> SUFFICES ASSUME MarkersInv, [Next]_vars PROVE MarkersInv'
    OBVIOUS
  <1>1. StoreInv' /\ ReferencesCommitted'
    BY StoreStep, CommittedStep DEF MarkersInv
  <1>2. CASE \E r \in Request : RequestStep(r)
    <2>1. PICK r \in Request : RequestStep(r)
      BY <1>2
    <2>2. UNCHANGED job /\ Serving
      BY <2>1 DEF RequestStep, StageCreate, StageSeal, Finalize, Publish, Verify,
         StageFails, SubmitCommits, SubmitRefused, SubmitAmbiguous, Acknowledge,
         AcknowledgeUnlink, Serving, commandVars
    <2>3. job' = NoJob
      BY <2>2 DEF MarkersInv, StoreInv, OneHolder, Serving
    <2> QED
      BY <1>1, <2>1, <2>3, RequestMarkersStep, NoJobMarkers DEF MarkersInv
  <1>3. CASE RecoverStep
    BY <1>1, <1>3, RecoverMarkersStep DEF MarkersInv
  <1>4. CASE \/ ServeStart \/ ServeStop \/ Project \/ \E m \in Marker : Erase(m)
             \/ GcStep \/ Crash \/ \E d \in Digest : Damage(d)
    BY <1>1, <1>4, OtherMarkersStep DEF MarkersInv
  <1>5. CASE UNCHANGED vars
    <2>1. UNCHANGED <<req, job, marker, object, doomed, committed>>
      BY <1>5 DEF vars, fileVars, rowVars, commandVars
    <2> QED
      BY <1>1, <2>1 DEF MarkersInv, RequestMarkers, MarkerFits, JobMarkers,
         Discoverable, Sealed, Gone
  <1> QED
    BY <1>2, <1>3, <1>4, <1>5 DEF Next

\* Whatever a crash, a rollback or an ambiguous commit leaves behind, recovery
\* finds a sealed marker of it, for any requests and contents.
THEOREM OrphansDiscoverable == Spec => []Discoverable
  <1>1. Init => MarkersInv
    <2> SUFFICES ASSUME Init PROVE MarkersInv
      OBVIOUS
    <2>1. RequestMarkers
      BY MarkerOf DEF Init, RequestMarkers, MarkerFits
    <2>2. JobMarkers /\ ReferencesCommitted /\ Discoverable
      BY DEF Init, JobMarkers, NoJob, ReferencesCommitted, Discoverable
    <2> QED
      BY <2>1, <2>2, StoreInit DEF MarkersInv
  <1>2. MarkersInv => Discoverable
    BY DEF MarkersInv
  <1> QED
    BY <1>1, <1>2, MarkersStep, PTL DEF Spec

=============================================================================
