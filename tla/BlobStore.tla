------------------------------ MODULE BlobStore ------------------------------
(***************************************************************************)
(* The blob files of internal/blob beside the Canonical references to      *)
(* them.  A request of the serving process stages its contents, finalizes  *)
(* them, commits the references and acknowledges the markers; `blob        *)
(* recover` reconciles the markers that were left behind and `blob gc`     *)
(* collects what nothing refers to.  The three hold the host lock of the   *)
(* data directory in turn, and each may crash between two file operations. *)
(*                                                                         *)
(* A file operation that the file system makes atomic (create, rename      *)
(* without replacement, unlink) is one step.  Everything belongs to one    *)
(* resident: the store and the collection are scoped by resident.          *)
(***************************************************************************)
EXTENDS Integers, Sequences, FiniteSets

CONSTANTS
    Request,      \* content commands
    Digest,       \* contents, by their SHA-256
    Contents,     \* the contents of each request, in staging order
    None,
    MaxErasures,  \* bound: erased contents
    MaxFaults     \* bound: crashes and damaged objects together

ASSUME BlobAssumption ==
    /\ Contents \in [Request -> Seq(Digest) \ {<<>>}]
    /\ MaxErasures \in Nat
    /\ MaxFaults \in Nat

\* A staged file and, once its request committed, the content object with it.
Marker == UNION {{r} \X (1 .. Len(Contents[r])) : r \in Request}
DigestOf(m) == Contents[m[1]][m[2]]

ASSUME NoneAssumption == None \notin Marker \cup Digest

VARIABLES
    process,    \* the holder of the host lock
    req,        \* where each request stands, and at which of its contents
    marker,     \* staging/ and the delete-stage-, delete-partial- names
    object,     \* objects/<resident>/<shard>/<digest>
    doomed,     \* quarantine/delete-object-<resident>-<digest>
    evidence,   \* quarantine/evidence-object-<resident>-<digest>-<nonce>
    litter,     \* some shard holds a .mahoroba-publish- file of a dead process
    rows,       \* SQLite: blobs
    present,    \* SQLite: content_objects whose erasure_state is present
    committed,  \* history: digests a commit has referred to
    head,       \* SQLite: commit_seq
    projected,  \* the content_references watermark is at head
    plan,       \* the plan of the last dry run of blob gc
    job,        \* local state of blob recover
    batch,      \* local state of blob gc --apply
    erasures, faults

fileVars == <<marker, object, doomed, evidence, litter>>
rowVars == <<rows, present, committed, head, projected>>
commandVars == <<plan, job, batch>>
boundVars == <<erasures, faults>>
vars == <<process, req, fileVars, rowVars, commandVars, boundVars>>

Process == {"down", "serving", "poisoned", "recover", "gc"}
Serving == process \in {"serving", "poisoned"}

\* Each point names the operation that comes next.
RequestPoint == {"new", "stage", "seal", "finalize", "publish", "verify",
                 "submit", "ack", "unlink", "done"}
RequestState == [at : RequestPoint, i : Nat \ {0}]
AtRest == {"new", "done"}

\* none; partial-*; delete-partial-*; sealed-*; delete-stage-*
MarkerState == {"none", "partial", "doomedPartial", "sealed", "doomedSealed"}
ObjectState == {"none", "sound", "damaged"}

Candidate == [digest : Digest, row : BOOLEAN, file : BOOLEAN]
Plan == [head : Nat, candidates : SUBSET Candidate]

JobPoint == {"next", "object", "publish", "unlinkObject", "marker", "unlink"}
Job == [at : JobPoint, todo : SUBSET Marker, cur : {None} \cup Marker,
        referenced : BOOLEAN]
NoJob == [at |-> "next", todo |-> {}, cur |-> None, referenced |-> FALSE]
Batch == [todo : SUBSET Candidate, cur : {None} \cup Candidate]
NoBatch == [todo |-> {}, cur |-> None]

TypeOK ==
    /\ process \in Process
    /\ req \in [Request -> RequestState]
    /\ \A r \in Request : req[r].i <= Len(Contents[r])
    /\ marker \in [Marker -> MarkerState]
    /\ object \in [Digest -> ObjectState]
    /\ doomed \subseteq Digest /\ evidence \subseteq Digest
    /\ litter \in BOOLEAN /\ projected \in BOOLEAN
    /\ rows \subseteq Digest /\ committed \subseteq Digest
    /\ present \subseteq Marker
    /\ head \in Nat /\ erasures \in Nat /\ faults \in Nat
    /\ plan \in {None} \cup Plan
    /\ job \in Job /\ batch \in Batch

-----------------------------------------------------------------------------
(* What the database and the store say.                                    *)

\* Mutant: the derived projection instead of the authoritative references.
BlobReferencedProjected(d) == projected /\ \E m \in present : DigestOf(m) = d

\* BlobReferenced: a present content object, not the projection nor the row.
BlobReferenced(d) == \E m \in present : DigestOf(m) = d

\* MinimumCheck: both copies of every present content are there and agree.
DualCopies ==
    \A m \in present : DigestOf(m) \in rows /\ object[DigestOf(m)] = "sound"

\* quarantineObjectMismatch moves a damaged object to a name of its own.
Quarantined(d) ==
    /\ object' = [object EXCEPT ![d] = "none"]
    /\ evidence' = evidence \cup {d}

\* Mutant: Acknowledge drops the mutex before it deletes the marker.
LockedShort == \E r \in Request : req[r].at \in {"publish", "verify"}

\* finalizeMu is held across these steps.
Locked == \E r \in Request : req[r].at \in {"publish", "verify", "unlink"}

-----------------------------------------------------------------------------
(* A request of the serving process.                                       *)

Cur(r) == <<r, req[r].i>>
CurDigest(r) == Contents[r][req[r].i]
Goto(r, point) == req' = [req EXCEPT ![r].at = point]

\* The next content at `again`, or the first one at `then` after the last.
Advance(r, again, then) ==
    req' = [req EXCEPT ![r] =
        IF req[r].i < Len(Contents[r])
        THEN [at |-> again, i |-> req[r].i + 1]
        ELSE [at |-> then, i |-> 1]]

\* Stage creates partial-* and copies the content into it ...
StageCreate(r) ==
    /\ Serving /\ req[r].at \in {"new", "stage"}
    /\ marker' = [marker EXCEPT ![Cur(r)] = "partial"]
    /\ Goto(r, "seal")
    /\ UNCHANGED <<process, object, doomed, evidence, litter, rowVars,
                   commandVars, boundVars>>

\* ... and renames it to the sealed name that carries the digest.
StageSeal(r) ==
    /\ Serving /\ req[r].at = "seal"
    /\ marker' = [marker EXCEPT ![Cur(r)] = "sealed"]
    /\ Advance(r, "stage", "finalize")
    /\ UNCHANGED <<process, object, doomed, evidence, litter, rowVars,
                   commandVars, boundVars>>

\* Finalize takes finalizeMu and looks for an object of this content.
Finalize(r) ==
    /\ Serving /\ req[r].at = "finalize" /\ ~Locked
    /\ Goto(r, IF object[CurDigest(r)] = "none" THEN "publish" ELSE "verify")
    /\ UNCHANGED <<process, fileVars, rowVars, commandVars, boundVars>>

\* publishFromHandle: a temporary file, renamed once its content is verified.
Publish(r) ==
    /\ Serving /\ req[r].at = "publish"
    /\ object' = [object EXCEPT ![CurDigest(r)] = "sound"]
    /\ Goto(r, "verify")
    /\ UNCHANGED <<process, marker, doomed, evidence, litter, rowVars,
                   commandVars, boundVars>>

\* The found or the published object is hashed once more under its name.
Verify(r) ==
    /\ Serving /\ req[r].at = "verify"
    /\ \/ /\ object[CurDigest(r)] = "sound"
          /\ Advance(r, "finalize", "submit")
          /\ UNCHANGED <<object, evidence>>
       \/ /\ object[CurDigest(r)] = "damaged"
          /\ Quarantined(CurDigest(r))
          /\ Goto(r, "done")
    /\ UNCHANGED <<process, marker, doomed, litter, rowVars,
                   commandVars, boundVars>>

\* An error or a cancelled context before the submission: what is staged
\* stays, the temporary file of a publication is deleted.
StageFails(r) ==
    /\ Serving
    /\ req[r].at \in {"stage", "seal", "finalize", "publish", "verify"}
    /\ Goto(r, "done")
    /\ UNCHANGED <<process, fileVars, rowVars, commandVars, boundVars>>

\* insertContent for every content of the command, and the commit row.
Commits(r) ==
    /\ rows' = rows \cup {Contents[r][i] : i \in DOMAIN Contents[r]}
    /\ committed' = committed \cup {Contents[r][i] : i \in DOMAIN Contents[r]}
    /\ present' = present \cup {m \in Marker : m[1] = r}
    /\ head' = head + 1
    /\ projected' = FALSE

SubmitCommits(r) ==
    /\ process = "serving" /\ req[r].at = "submit"
    /\ Commits(r)
    /\ Goto(r, "ack")
    /\ UNCHANGED <<process, fileVars, commandVars, boundVars>>

\* Mutant: ErrNoMutation is a success, so acknowledge.
AfterRefusalAck == "ack"

\* Where a command that committed nothing goes: ErrNoMutation, a refusal or
\* a rollback keep the markers for recovery.
AfterRefusal == "done"

SubmitRefused(r) ==
    /\ Serving /\ req[r].at = "submit"
    /\ Goto(r, AfterRefusal)
    /\ UNCHANGED <<process, fileVars, rowVars, commandVars, boundVars>>

\* A commit error: durable or not, the Writer is poisoned and nothing is
\* acknowledged.
SubmitAmbiguous(r) ==
    /\ process = "serving" /\ req[r].at = "submit"
    /\ Commits(r) \/ UNCHANGED rowVars
    /\ process' = "poisoned"
    /\ Goto(r, "done")
    /\ UNCHANGED <<fileVars, commandVars, boundVars>>

\* Acknowledge verifies the object before it gives up the marker; its error
\* is ignored and the marker kept.
Acknowledge(r) ==
    /\ Serving /\ req[r].at = "ack" /\ ~Locked
    /\ \/ /\ object[CurDigest(r)] = "sound"
          /\ marker' = [marker EXCEPT ![Cur(r)] = "doomedSealed"]
          /\ Goto(r, "unlink")
          /\ UNCHANGED <<object, evidence>>
       \/ /\ object[CurDigest(r)] = "damaged"
          /\ Quarantined(CurDigest(r))
          /\ Advance(r, "ack", "done")
          /\ UNCHANGED marker
       \/ /\ Advance(r, "ack", "done")  \* missing, or any other error
          /\ UNCHANGED <<marker, object, evidence>>
    /\ UNCHANGED <<process, doomed, litter, rowVars,
                   commandVars, boundVars>>

\* deleteTransient, or its failure.
AcknowledgeUnlink(r) ==
    /\ Serving /\ req[r].at = "unlink"
    /\ \/ marker' = [marker EXCEPT ![Cur(r)] = "none"]
       \/ UNCHANGED marker
    /\ Advance(r, "ack", "done")
    /\ UNCHANGED <<process, object, doomed, evidence, litter, rowVars,
                   commandVars, boundVars>>

RequestStep(r) ==
    \/ StageCreate(r) \/ StageSeal(r) \/ Finalize(r) \/ Publish(r) \/ Verify(r)
    \/ StageFails(r) \/ SubmitCommits(r) \/ SubmitRefused(r)
    \/ SubmitAmbiguous(r) \/ Acknowledge(r) \/ AcknowledgeUnlink(r)

-----------------------------------------------------------------------------
(* The other commands on the database.                                     *)

ServeStart ==
    /\ process = "down" /\ DualCopies
    /\ process' = "serving"
    /\ UNCHANGED <<req, fileVars, rowVars, commandVars, boundVars>>

ServeStop ==
    /\ Serving /\ \A r \in Request : req[r].at \in AtRest
    /\ process' = "down"
    /\ UNCHANGED <<req, fileVars, rowVars, commandVars, boundVars>>

\* ApplyErasure: the content object loses its digest, the files stay.
Erase(m) ==
    /\ process = "down" /\ DualCopies
    /\ m \in present /\ erasures < MaxErasures
    /\ present' = present \ {m}
    /\ head' = head + 1
    /\ projected' = FALSE
    /\ erasures' = erasures + 1
    /\ UNCHANGED <<process, req, fileVars, rows, committed, commandVars,
                   faults>>

\* The coordinator, or a rebuild, brings content_references to the head.
Project ==
    /\ process \in {"down", "serving", "poisoned"} /\ ~projected
    /\ projected' = TRUE
    /\ UNCHANGED <<process, req, fileVars, rows, present, committed, head,
                   commandVars, boundVars>>

-----------------------------------------------------------------------------
(* blob recover: ListOrphans, then CleanupOrphan for every one of them.    *)
(* The listing is sorted by names that are hashes and nonces, so any order *)
(* is possible.                                                            *)

JobAt(point) == job' = [job EXCEPT !.at = point]
JobDigest == DigestOf(job.cur)
Released == process' = "down" /\ job' = NoJob /\ batch' = NoBatch
Recovering(point) == process = "recover" /\ job.at = point

RecoverStart ==
    /\ process = "down"
    /\ process' = "recover"
    /\ job' = [NoJob EXCEPT !.todo = {m \in Marker : marker[m] # "none"}]
    /\ UNCHANGED <<req, fileVars, rowVars, plan, batch, boundVars>>

\* A partial file is moved to the quarantine and deleted there.
RecoverPartial(m) ==
    /\ Recovering("next") /\ m \in job.todo
    /\ marker[m] \in {"partial", "doomedPartial"}
    /\ marker' = [marker EXCEPT ![m] = "doomedPartial"]
    /\ job' = [job EXCEPT !.cur = m, !.at = "unlink"]
    /\ UNCHANGED <<process, req, object, doomed, evidence, litter, rowVars,
                   plan, batch, boundVars>>

\* A sealed file names a digest: ask the database whether it is referenced.
RecoverSealed(m) ==
    /\ Recovering("next") /\ m \in job.todo
    /\ marker[m] \in {"sealed", "doomedSealed"}
    /\ job' = [job EXCEPT !.cur = m, !.at = "object",
                          !.referenced = BlobReferenced(DigestOf(m))]
    /\ UNCHANGED <<process, req, fileVars, rowVars, plan, batch, boundVars>>

\* No object: an earlier recovery may have quarantined it.
RecoverQuarantined ==
    /\ Recovering("object")
    /\ object[JobDigest] = "none" /\ JobDigest \in doomed
    /\ doomed' = doomed \ {JobDigest}
    /\ IF job.referenced
       THEN object' = [object EXCEPT ![JobDigest] = "sound"] /\ JobAt("object")
       ELSE UNCHANGED object /\ JobAt("marker")
    /\ UNCHANGED <<process, req, marker, evidence, litter, rowVars, plan, batch,
                   boundVars>>

\* No object at all: restore a referenced one from the staged content.
RecoverMissing ==
    /\ Recovering("object")
    /\ object[JobDigest] = "none" /\ JobDigest \notin doomed
    /\ JobAt(IF job.referenced THEN "publish" ELSE "marker")
    /\ UNCHANGED <<process, req, fileVars, rowVars, plan, batch, boundVars>>

RecoverPublish ==
    /\ Recovering("publish")
    /\ object' = [object EXCEPT ![JobDigest] = "sound"]
    /\ JobAt("object")
    /\ UNCHANGED <<process, req, marker, doomed, evidence, litter, rowVars,
                   plan, batch, boundVars>>

\* The object is there and sound: keep it, or quarantine it for deletion.
\* The quarantine name is fixed by the digest and MoveTo replaces nothing.
QuarantineFree(d) == d \notin doomed

RecoverStored ==
    /\ Recovering("object") /\ object[JobDigest] = "sound"
    /\ IF job.referenced
       THEN JobAt("marker") /\ UNCHANGED <<object, doomed>>
       ELSE /\ QuarantineFree(JobDigest)
            /\ object' = [object EXCEPT ![JobDigest] = "none"]
            /\ doomed' = doomed \cup {JobDigest}
            /\ JobAt("unlinkObject")
    /\ UNCHANGED <<process, req, marker, evidence, litter, rowVars, plan, batch,
                   boundVars>>

\* The command gives up: the quarantine name is taken ...
RecoverCollides ==
    /\ Recovering("object") /\ object[JobDigest] = "sound"
    /\ ~job.referenced /\ ~QuarantineFree(JobDigest)
    /\ Released
    /\ UNCHANGED <<req, fileVars, rowVars, plan, boundVars>>

\* ... or the object is damaged and becomes evidence.
RecoverDamaged ==
    /\ Recovering("object") /\ object[JobDigest] = "damaged"
    /\ Quarantined(JobDigest)
    /\ Released
    /\ UNCHANGED <<req, marker, doomed, litter, rowVars, plan, boundVars>>

RecoverUnlinkObject ==
    /\ Recovering("unlinkObject")
    /\ doomed' = doomed \ {JobDigest}
    /\ JobAt("marker")
    /\ UNCHANGED <<process, req, marker, object, evidence, litter, rowVars,
                   plan, batch, boundVars>>

\* removeOrphanMarker: to the quarantine, then away.
RecoverMarker ==
    /\ Recovering("marker")
    /\ marker' = [marker EXCEPT ![job.cur] = "doomedSealed"]
    /\ JobAt("unlink")
    /\ UNCHANGED <<process, req, object, doomed, evidence, litter, rowVars,
                   plan, batch, boundVars>>

RecoverUnlink ==
    /\ Recovering("unlink")
    /\ marker' = [marker EXCEPT ![job.cur] = "none"]
    /\ job' = [NoJob EXCEPT !.todo = job.todo \ {job.cur}]
    /\ UNCHANGED <<process, req, object, doomed, evidence, litter, rowVars,
                   plan, batch, boundVars>>

RecoverDone ==
    /\ Recovering("next") /\ job.todo = {}
    /\ Released
    /\ UNCHANGED <<req, fileVars, rowVars, plan, boundVars>>

RecoverStep ==
    \/ RecoverStart \/ RecoverQuarantined \/ RecoverMissing \/ RecoverPublish
    \/ RecoverStored \/ RecoverCollides \/ RecoverDamaged
    \/ RecoverUnlinkObject \/ RecoverMarker \/ RecoverUnlink \/ RecoverDone
    \/ \E m \in Marker : RecoverPartial(m) \/ RecoverSealed(m)

-----------------------------------------------------------------------------
(* blob gc.                                                                *)

\* MinimumCheck, WalkFinal (every entry is a sound object) and the watermark.
GcReady ==
    /\ DualCopies
    /\ ~litter /\ \A d \in Digest : object[d] # "damaged"
    /\ head > 0 /\ projected

\* Mutant: only the locators of the blobs table.
CandidatesOfRows ==
    {[digest |-> d, row |-> TRUE, file |-> object[d] # "none"] :
        d \in {e \in rows : ~BlobReferenced(e)}}

\* buildPlan: the locators with a row or a file and without a reference.
Candidates ==
    {[digest |-> d, row |-> d \in rows, file |-> object[d] # "none"] :
        d \in {e \in Digest : /\ e \in rows \/ object[e] # "none"
                              /\ ~BlobReferenced(e)}}
CurrentPlan == [head |-> head, candidates |-> Candidates]

GcDryRun ==
    /\ process = "down" /\ GcReady
    /\ plan' = CurrentPlan
    /\ UNCHANGED <<process, req, fileVars, rowVars, job, batch, boundVars>>

\* --apply --confirm: the fresh plan must be the one the operator saw.
GcApply ==
    /\ process = "down" /\ GcReady
    /\ plan = CurrentPlan
    /\ process' = "gc"
    /\ batch' = [NoBatch EXCEPT !.todo = Candidates]
    /\ UNCHANGED <<req, fileVars, rowVars, plan, job, boundVars>>

\* BeginCandidate checks head, watermark, references and row again; then
\* RemoveFinal deletes the object it can still verify.
GcRemove(c) ==
    /\ process = "gc" /\ batch.cur = None /\ c \in batch.todo
    /\ plan.head = head /\ projected /\ ~BlobReferenced(c.digest)
    /\ c.row <=> c.digest \in rows
    /\ c.file => object[c.digest] = "sound"
    /\ object' = [object EXCEPT ![c.digest] = IF c.file THEN "none" ELSE @]
    /\ batch' = [batch EXCEPT !.cur = c]
    /\ UNCHANGED <<process, req, marker, doomed, evidence, litter, rowVars,
                   plan, job, boundVars>>

GcCommit ==
    /\ process = "gc" /\ batch.cur # None
    /\ rows' = rows \ {batch.cur.digest}
    /\ batch' = [NoBatch EXCEPT !.todo = batch.todo \ {batch.cur}]
    /\ UNCHANGED <<process, req, fileVars, present, committed, head, projected,
                   plan, job, boundVars>>

\* The collection ends, or stops at a candidate with an error and a rollback
\* (a damaged object, a failed transaction).
GcStop ==
    /\ process = "gc"
    /\ Released
    /\ UNCHANGED <<req, fileVars, rowVars, plan, boundVars>>

GcStep == GcDryRun \/ GcApply \/ GcCommit \/ GcStop
          \/ \E c \in Candidate : GcRemove(c)

-----------------------------------------------------------------------------
(* The environment.                                                        *)

\* The process dies, or a file operation of blob recover fails and ends it.
\* A publication that dies may leave its temporary file.
Crash ==
    /\ process # "down" /\ faults < MaxFaults
    /\ faults' = faults + 1
    /\ Released
    /\ req' = [r \in Request |->
                  IF req[r].at \in AtRest THEN req[r]
                  ELSE [at |-> "done", i |-> 1]]
    /\ \/ UNCHANGED litter
       \/ /\ Recovering("publish") \/ \E r \in Request : req[r].at = "publish"
          /\ litter' = TRUE
    /\ UNCHANGED <<marker, object, doomed, evidence, rowVars, plan, erasures>>

\* The bytes of an object change on disk.
Damage(d) ==
    /\ object[d] = "sound" /\ faults < MaxFaults
    /\ faults' = faults + 1
    /\ object' = [object EXCEPT ![d] = "damaged"]
    /\ UNCHANGED <<process, req, marker, doomed, evidence, litter, rowVars,
                   commandVars, erasures>>

-----------------------------------------------------------------------------
Init ==
    /\ process = "down"
    /\ req = [r \in Request |-> [at |-> "new", i |-> 1]]
    /\ marker = [m \in Marker |-> "none"]
    /\ object = [d \in Digest |-> "none"]
    /\ doomed = {} /\ evidence = {} /\ litter = FALSE
    /\ rows = {} /\ present = {} /\ committed = {}
    /\ head = 0 /\ projected = FALSE
    /\ plan = None /\ job = NoJob /\ batch = NoBatch
    /\ erasures = 0 /\ faults = 0

Next ==
    \/ \E r \in Request : RequestStep(r)
    \/ ServeStart \/ ServeStop \/ Project
    \/ \E m \in Marker : Erase(m)
    \/ RecoverStep \/ GcStep
    \/ Crash \/ \E d \in Digest : Damage(d)

Spec == Init /\ [][Next]_vars

-----------------------------------------------------------------------------
(* Properties.                                                             *)

\* Every present content has its row, and its object is under its name unless
\* damage was found and the bytes were kept as evidence: no recovery,
\* collection, crash or failed request loses what a reference needs
\* (application.go, stageContentCommand: every object exists before its
\* reference does).
ReferencesStored ==
    \A m \in present :
        /\ DigestOf(m) \in rows
        /\ object[DigestOf(m)] # "none" \/ DigestOf(m) \in evidence

\* Content that no commit ever referred to, under its own name or in the
\* quarantine, has a sealed marker by which ListOrphans finds it: a rollback
\* or an ambiguous commit "remains discoverable" (application.go,
\* stageContentCommand).
Discoverable ==
    \A d \in Digest \ committed :
        object[d] # "none" \/ d \in doomed =>
            \E m \in Marker : /\ DigestOf(m) = d
                              /\ marker[m] \in {"sealed", "doomedSealed"}

\* A collection that worked through its plan leaves neither a row nor an
\* object without a reference (blobgc, Execute and buildPlan), although
\* earlier ones may have stopped between the file and the row.
GcComplete ==
    process = "gc" /\ batch = NoBatch =>
        \A d \in Digest : BlobReferenced(d) \/ (d \notin rows /\ object[d] = "none")

\* A sealed marker, the copy recovery restores from, is given up for a
\* referenced content only while the object is in place: Acknowledge and
\* CleanupOrphan verify it under finalizeMu, so that no other request can
\* move a damaged object away in between.
MarkerOutlives ==
    [][\A m \in Marker :
          /\ marker[m] = "doomedSealed" /\ marker'[m] = "none"
          /\ BlobReferenced(DigestOf(m))
          => object[DigestOf(m)] # "none"]_vars

\* A recovery that was interrupted can be run again: unless an object is
\* damaged, `blob recover` reconciles what it lists and cleans up what is not
\* referenced.
RecoveryResumes == [][~RecoverCollides]_vars

=============================================================================
