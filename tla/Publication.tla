----------------------------- MODULE Publication ---------------------------
(***************************************************************************)
(* Commands that publish an artifact - a backup bundle, a restored data    *)
(* directory, an export file, an erasure plan - and what an interruption   *)
(* leaves for the next command.  The payload is staged under a name of its *)
(* own, described by a marker inside it (directories) and a marker beside  *)
(* the target, and renamed without replacement; then the markers go.       *)
(*                                                                         *)
(* A process may end between any two file operations.  A power loss may    *)
(* undo more: two operations share one barrier when the two markers of a   *)
(* directory are written and when it is renamed and its inner markers go   *)
(* (PublishDirectory), and of two such operations the later alone may      *)
(* last.  Those states are not in the model; the code reads a directory or *)
(* a sibling marker without its counterpart as one that needs repair.      *)
(***************************************************************************)
EXTENDS Readiness

CONSTANTS
    Free,         \* nobody holds the lock
    Proc,         \* administration and command processes of one host
    MaxHead       \* bound on the commits of a data directory

ASSUME PublicationAssumption == Free \notin Proc /\ MaxHead \in Nat

VARIABLES
    dirs,         \* data directories: existence, head (commits since the behaviour
                  \* began) and the head in the main database file, whether SQLite
                  \* has sidecar files beside it, the head of the content references,
                  \* how many commits came with a bundle of the source, registered
                  \* pipeline, service facts
    hostlock,     \* the process that holds a data directory's host lock
    space,        \* the process that holds a target's namespace lock
    pubs,         \* every publication that was staged, in order
    job,          \* the finite command a process executes
    reported,     \* successes a command has returned
    budget        \* what the run still allows

artifactVars == <<pubs, job, reported>>
lockVars == <<hostlock, space>>

Dirs == {"source", "restored"}
ArtifactNames == {"bundle", "export", "plan", "decided"}
Names == Dirs \cup ArtifactNames
Directory(target) == target \in {"bundle", "restored"}
TargetOf(cmd) ==
    CASE cmd = "backup" -> "bundle" [] cmd = "restore" -> "restored"
      [] cmd = "export" -> "export" [] cmd = "plan" -> "plan" [] cmd = "decide" -> "decided"

Commands == {"backup", "export", "plan", "decide", "scan", "terminalize", "rebuild",
             "activate", "select", "apply"}

NoInput == [dir |-> "none", commit |-> <<"none", 0>>]
NoDir == [exists |-> FALSE, head |-> 0, main |-> 0, hot |-> FALSE, refs |-> 0,
          shared |-> 0, registered |-> FALSE, service |-> NoService]
NoJob == [cmd |-> "none", dir |-> "source", step |-> "none", pub |-> 0, input |-> NoInput,
          from |-> 0]
Idle(p) == job[p] = NoJob
Spend(what) == budget[what] > 0 /\ budget' = [budget EXCEPT ![what] = @ - 1]

---------------------------------------------------------------------------
(* Locks: both are taken without waiting, or the command is refused *)

\* hostlock.Acquire passes through the namespace lock of the data directory.
Acquire(p, d) ==
    /\ hostlock[d] = Free /\ space[d] = Free
    /\ hostlock' = [hostlock EXCEPT ![d] = p]

AcquireExistingParent(p, name) ==
    space[name] = Free /\ space' = [space EXCEPT ![name] = p]

Unlocked(lock, p) == [x \in DOMAIN lock |-> IF lock[x] = p THEN Free ELSE lock[x]]

---------------------------------------------------------------------------
(* What a namespace holds *)

\* The identity of a head: a restored directory shares the commits of its
\* bundle with the source and goes its own way after them.
HeadCommit(d) == <<IF dirs[d].head <= dirs[d].shared THEN "source" ELSE d, dirs[d].head>>

\* A reader of a retained descriptor sees the main database file only.
CapturedHead(d) ==
    <<IF dirs[d].main <= dirs[d].shared THEN "source" ELSE d, dirs[d].main>>

\* It may read only when no journal beside the file is in use, or was left by a
\* process that died.
requireClosedSQLiteNamespace(d) == ~dirs[d].hot

\* ProducerInputDigest: the identity of the source and its captured head, or
\* the bundle of a restore.
ProducerInput(d) == [dir |-> d, commit |-> CapturedHead(d)]
BundleInput(i) == [dir |-> "bundle", commit |-> <<"bundle", i>>]

Placed(name) == {i \in DOMAIN pubs : pubs[i].target = name /\ pubs[i].place = "target"}
TargetExists(name) == IF name \in Dirs THEN dirs[name].exists ELSE Placed(name) # {}
Siblings(name) == {i \in DOMAIN pubs : pubs[i].target = name /\ pubs[i].sibling # "none"}

\* The marker bytes identify the publication, its command and its input.
Identifies(i, cmd, input) == pubs[i].cmd = cmd /\ pubs[i].input = input

\* The markers DiscoverPublishedDirectoryMarker can authenticate in and beside
\* the target: none, one publication's, or evidence it refuses.
Discovered(name) ==
    LET internal == {i \in Placed(name) : pubs[i].internal} IN
    IF \/ Cardinality(Siblings(name)) > 1
       \/ \E i \in Siblings(name) : pubs[i].sibling = "partial"
    THEN {0} ELSE internal \cup Siblings(name)

DiscoverUnbound(name, cmd, input) ==
    LET found == Discovered(name) IN
    IF found = {} THEN "absent"
    ELSE IF Cardinality(found) = 1 /\ 0 \notin found THEN "found" ELSE "unknown"

\* The caller recomputes command and input: marker bytes are no authority.
DiscoverPublishedDirectoryMarker(name, cmd, input) ==
    LET found == Discovered(name) IN
    IF found = {} THEN "absent"
    ELSE IF Cardinality(found) = 1 /\ 0 \notin found
            /\ \A i \in found : Identifies(i, cmd, input)
         THEN "found" ELSE "unknown"

\* The digest of a directory covers every file but the reserved markers: a lock
\* file or a commit made since the rename changes it.
DirectoryPayloadDigest(i) == pubs[i].whole /\ ~pubs[i].changed

\* The exact inventory of a bundle: no marker inside.
verifyTreeInventory(i) == ~pubs[i].internal

\* Manifest, COMPLETE, inventory, database, blobs, MinimumCheck, and the
\* inventory again.  Nothing looks beside the target.
openAndVerify(i) == pubs[i].place = "target" /\ pubs[i].whole /\ verifyTreeInventory(i)

\* ReadPlan takes the namespace lock and refuses a pending marker beside it.
ReadPlan(name) ==
    IF space[name] = Free /\ Siblings(name) = {} THEN Placed(name) ELSE {}

Bundles == {i \in Placed("bundle") : openAndVerify(i)}

---------------------------------------------------------------------------
(* A command's way through its steps *)

At(p, cmds, step) == job[p].cmd \in cmds /\ job[p].step = step
Step(p, step) == job' = [job EXCEPT ![p].step = step]
Pub(p) == pubs[job[p].pub]
Set(p, field, value) == pubs' = [pubs EXCEPT ![job[p].pub][field] = value]

Finish(p) ==
    /\ job' = [job EXCEPT ![p] = NoJob]
    /\ hostlock' = Unlocked(hostlock, p)
    /\ space' = Unlocked(space, p)

Staged(p, cmd, caller) ==
    /\ Spend("publications")
    /\ pubs' = Append(pubs, [cmd |-> cmd, target |-> TargetOf(cmd), input |-> job[p].input,
            place |-> "staging", whole |-> FALSE, internal |-> FALSE, caller |-> caller,
            sibling |-> "none", changed |-> FALSE, head |-> 0, registered |-> FALSE,
            service |-> NoService, ready |-> FALSE])
    /\ job' = [job EXCEPT ![p].step = "build", ![p].pub = Len(pubs) + 1]

\* A store that is closed in order leaves its commits in the main file and no
\* sidecar.
Flushed(d) == [dirs EXCEPT ![d].main = dirs[d].head, ![d].hot = FALSE]

Recovering(p, i) == job' = [job EXCEPT ![p].step = "authenticate", ![p].pub = i]

\* preflightCreatePaths/preflightPaths, then the host lock of the source.
Begin(p, cmd, d) ==
    /\ Spend("commands") /\ Idle(p)
    /\ cmd \in budget.allowed /\ dirs[d].exists
    /\ Acquire(p, d)
    /\ job' = [job EXCEPT ![p] = [NoJob EXCEPT !.cmd = cmd, !.dir = d, !.step = "check"]]
    /\ UNCHANGED <<dirs, space, pubs, reported>>

\* Read-only boundary, blobs and MinimumCheck, or the command is refused; the
\* captured head is what the publication will be bound to.
Captures(p, ready) ==
    /\ \/ /\ ready /\ requireClosedSQLiteNamespace(job[p].dir)
          /\ job' = [job EXCEPT ![p].step = "space", ![p].input = ProducerInput(job[p].dir)]
          /\ UNCHANGED lockVars
       \/ /\ ~(ready /\ requireClosedSQLiteNamespace(job[p].dir))
          /\ Finish(p)
    /\ UNCHANGED <<dirs, pubs, reported, budget>>

\* The content references of every resident are of the head; a directory
\* without residents has none.
RequireCurrentContentReferences(d) ==
    dirs[d].refs = dirs[d].main \/ ~captureReadinessSelection(dirs[d].service)

CheckBackup(p) ==
    At(p, {"backup"}, "check") /\ Captures(p, RequireCurrentContentReferences(job[p].dir))
CheckExport(p) == At(p, {"export"}, "check") /\ Captures(p, TRUE)

\* Planning reads the head twice, before and after, inside one boundary and
\* under the host lock of the source: both captures are this step.
CheckPlan(p) == At(p, {"plan"}, "check") /\ Captures(p, TRUE)

\* The plan that is decided on is of the head that is captured, or stale.
captureMatchingHead(d, base) == base = CapturedHead(d)

\* Decide reads the plan it decides on, and refuses one of another head.
CheckDecision(p) ==
    LET d == job[p].dir
        usable == {i \in ReadPlan("plan") : requireClosedSQLiteNamespace(d)
                        /\ captureMatchingHead(d, pubs[i].input.commit)} IN
    /\ At(p, {"decide"}, "check")
    /\ \/ /\ \E i \in usable :
               job' = [job EXCEPT ![p].step = "space", ![p].input = ProducerInput(d),
                                  ![p].from = i]
          /\ UNCHANGED lockVars
       \/ usable = {} /\ Finish(p)
    /\ UNCHANGED <<dirs, pubs, reported, budget>>

\* A restore has no source lock: it starts with the target's namespace.
BeginRestore(p) ==
    /\ Spend("commands") /\ Idle(p)
    /\ "restore" \in budget.allowed
    /\ AcquireExistingParent(p, "restored")
    /\ \E i \in Bundles :
         job' = [job EXCEPT ![p] = [NoJob EXCEPT !.cmd = "restore", !.dir = "restored",
                    !.step = "decide", !.input = BundleInput(i), !.from = i]]
    /\ UNCHANGED <<dirs, hostlock, pubs, reported>>

TakeNamespace(p) ==
    /\ job[p].step = "space"
    /\ LET name == TargetOf(job[p].cmd) IN
         \/ AcquireExistingParent(p, name) /\ Step(p, "decide") /\ UNCHANGED hostlock
         \/ space[name] # Free /\ Finish(p)
    /\ UNCHANGED <<dirs, pubs, reported, budget>>

\* Directory staging is never resumed: with a pending marker and no target a
\* backup gives up.
DecideBackup(p) ==
    /\ At(p, {"backup"}, "decide")
    /\ LET found == DiscoverPublishedDirectoryMarker("bundle", "backup", job[p].input) IN
         \/ /\ TargetExists("bundle") /\ found = "found"
            /\ \E i \in Placed("bundle") : Recovering(p, i)
            /\ UNCHANGED <<lockVars, pubs, budget>>
         \/ /\ IF TargetExists("bundle") THEN found # "found" ELSE Siblings("bundle") # {}
            /\ Finish(p) /\ UNCHANGED <<pubs, budget>>
         \/ /\ ~TargetExists("bundle") /\ Siblings("bundle") = {}
            /\ Staged(p, "backup", FALSE) /\ UNCHANGED lockVars
    /\ UNCHANGED <<dirs, reported>>

\* The recovered database is read through the publication root: closed, with
\* current content references.
inspectRecoveredRestore(d) ==
    requireClosedSQLiteNamespace(d) /\ RequireCurrentContentReferences(d)

\* The payload is hashed and inspected before the publication is completed.
recoverPublishedRestore(p, i) ==
    IF DirectoryPayloadDigest(i) /\ inspectRecoveredRestore("restored")
    THEN Recovering(p, i) /\ UNCHANGED lockVars ELSE Finish(p)

\* A restore only recovers what reached its target; it stages anew beside a
\* marker that an earlier one left.
DecideRestore(p) ==
    /\ At(p, {"restore"}, "decide")
    /\ LET found == DiscoverPublishedDirectoryMarker("restored", "restore", job[p].input) IN
         \/ /\ TargetExists("restored") /\ found = "found"
            /\ \E i \in Placed("restored") : recoverPublishedRestore(p, i)
            /\ UNCHANGED <<pubs, budget>>
         \/ /\ TargetExists("restored") /\ found # "found"
            /\ Finish(p) /\ UNCHANGED <<pubs, budget>>
         \/ /\ ~TargetExists("restored")
            /\ Staged(p, "restore", TRUE) /\ UNCHANGED lockVars
    /\ UNCHANGED <<dirs, reported>>

DecidePlan(p) ==
    /\ At(p, {"plan", "decide"}, "decide")
    /\ LET name == TargetOf(job[p].cmd) IN
         \/ /\ Siblings(name) # {} \/ TargetExists(name)
            /\ Finish(p) /\ UNCHANGED <<pubs, budget>>
         \/ /\ Siblings(name) = {} /\ ~TargetExists(name)
            /\ Staged(p, job[p].cmd, FALSE) /\ UNCHANGED lockVars
    /\ UNCHANGED <<dirs, reported>>

\* RecoverSingleFile: what the one authenticated marker allows.
RecoverSingleFile(i) ==
    IF Placed("export") \ {i} # {} /\ pubs[i].place = "staging" THEN "repair"
    ELSE IF pubs[i].place = "target" THEN "complete"
    ELSE IF Placed("export") # {} THEN "repair"
    ELSE IF pubs[i].place = "gone" THEN "stale" ELSE "resume"

recoverPending(p, i) ==
    IF pubs[i].sibling = "partial" \/ ~Identifies(i, "export", job[p].input)
    THEN "repair" ELSE RecoverSingleFile(i)

\* A marker whose file is gone ("stale") would be removed and the export staged
\* anew; no command leaves one, since a file is deleted only while no marker
\* is beside the target (Discard).
DecideExport(p) ==
    /\ At(p, {"export"}, "decide")
    /\ LET pending == Siblings("export") IN
         \/ /\ \/ Cardinality(pending) > 1
               \/ \E i \in pending : recoverPending(p, i) = "repair"
               \/ pending = {} /\ TargetExists("export")
            /\ Finish(p) /\ UNCHANGED <<pubs, budget>>
         \/ /\ Cardinality(pending) = 1
            /\ \E i \in pending :
                 \/ /\ recoverPending(p, i) = "complete"
                    /\ job' = [job EXCEPT ![p].step = "unmark", ![p].pub = i]
                 \/ /\ recoverPending(p, i) = "resume"
                    /\ job' = [job EXCEPT ![p].step = "rename", ![p].pub = i]
            /\ UNCHANGED <<lockVars, pubs, budget>>
         \/ /\ pending = {} /\ ~TargetExists("export")
            /\ Staged(p, "export", FALSE) /\ UNCHANGED lockVars
    /\ UNCHANGED <<dirs, reported>>

---------------------------------------------------------------------------
(* Building and publishing *)

\* The clone makes the session policy explicit that only a watermark named,
\* because the watermarks do not go into the bundle.
resolveBackupCloneSelection(s) ==
    IF captureReadinessSelection(s) /\ s.configured = "none"
    THEN [s EXCEPT !.configured = resolveReadinessSessionPolicy(s)] ELSE s

pruneBackupProjections(s) == [s EXCEPT !.saved = {}]

PrepareBackupClone(q, source) ==
    [q EXCEPT !.head = source.main, !.registered = source.registered,
              !.service = pruneBackupProjections(resolveBackupCloneSelection(source.service))]

\* The blobs the clone refers to are copied, then come manifest and COMPLETE.
copyBackupBlobs(q) == [q EXCEPT !.whole = TRUE]

\* A bundle is verified in the staging directory before it is hashed.
BuildBundle(p) ==
    /\ At(p, {"backup"}, "build")
    /\ pubs' = [pubs EXCEPT ![job[p].pub] =
                    copyBackupBlobs(PrepareBackupClone(@, dirs[job[p].dir]))]
    /\ Step(p, "internal")
    /\ UNCHANGED <<dirs, lockVars, reported, budget>>

\* An export streams one snapshot into the staged file.
BuildExport(p) ==
    /\ At(p, {"export"}, "build")
    /\ Set(p, "whole", TRUE)
    /\ Step(p, "sibling")
    /\ UNCHANGED <<dirs, lockVars, reported, budget>>

BuildPlan(p) ==
    /\ At(p, {"plan", "decide"}, "build")
    /\ Set(p, "whole", TRUE)
    /\ Step(p, "sibling")
    /\ UNCHANGED <<dirs, lockVars, reported, budget>>

\* The bundle is verified a second time while it is copied.
CopyVerified(p) ==
    /\ At(p, {"restore"}, "build")
    /\ openAndVerify(job[p].from)
    /\ LET bundle == pubs[job[p].from] IN
         pubs' = [pubs EXCEPT ![job[p].pub].head = bundle.head,
                              ![job[p].pub].registered = bundle.registered,
                              ![job[p].pub].service = bundle.service]
    /\ Step(p, "register")
    /\ UNCHANGED <<dirs, lockVars, reported, budget>>

\* The database of a restore is opened, migrated and changed inside the staging
\* directory, which nobody else names: first the current pipeline is registered.
registerRestoredDialogueV4(p) ==
    /\ At(p, {"restore"}, "register")
    /\ \/ Pub(p).registered /\ UNCHANGED pubs
       \/ /\ ~Pub(p).registered /\ Pub(p).head < MaxHead
          /\ pubs' = [pubs EXCEPT ![job[p].pub].registered = TRUE, ![job[p].pub].head = @ + 1]
    /\ Step(p, "recover")
    /\ UNCHANGED <<dirs, lockVars, reported, budget>>

\* Running attempts, an integrity scan, mandatory work, a second scan: each may
\* commit to the staged ledger.
runStagedDatabase(p) ==
    /\ At(p, {"restore"}, "recover")
    /\ \E h \in Pub(p).head..MaxHead : Set(p, "head", h)
    /\ Step(p, "rebuild")
    /\ UNCHANGED <<dirs, lockVars, reported, budget>>

dropInapplicableProjections(s) == [s EXCEPT !.saved = {}]

\* Content references are always rebuilt, the projections of the service only
\* when the selected resident has one session policy, which their watermark
\* then names.
rebuildEligibleProjections(p) ==
    /\ At(p, {"restore"}, "rebuild")
    /\ LET snapshot == CaptureServiceReadiness(Pub(p).service, Pub(p).head)
           eligible == snapshot.session # "none" IN
         pubs' = [pubs EXCEPT
             ![job[p].pub].service = IF eligible THEN [@ EXCEPT !.saved = {snapshot.session}]
                                     ELSE dropInapplicableProjections(@),
             ![job[p].pub].ready = EvaluateServiceReadiness(snapshot, TRUE, eligible, FALSE) = {}]
    /\ Step(p, "closed")
    /\ UNCHANGED <<dirs, lockVars, reported, budget>>

\* Writer and store are closed; any entry but database, blobs and the caller's
\* marker, a sidecar of SQLite for one, refuses the staging directory.
verifyClosedStagingRoot(p) ==
    /\ At(p, {"restore"}, "closed")
    /\ Set(p, "whole", TRUE)
    /\ Step(p, "internal")
    /\ UNCHANGED <<dirs, lockVars, reported, budget>>

WriteInternalMarker(p) ==
    /\ job[p].step = "internal"
    /\ Set(p, "internal", TRUE)
    /\ Step(p, "sibling")
    /\ UNCHANGED <<dirs, lockVars, reported, budget>>

CreateSiblingMarker(p) ==
    /\ job[p].step = "sibling"
    /\ Set(p, "sibling", "partial")
    /\ Step(p, "seal")
    /\ UNCHANGED <<dirs, lockVars, reported, budget>>

SealSiblingMarker(p) ==
    /\ job[p].step = "seal"
    /\ Set(p, "sibling", "sealed")
    /\ Step(p, "rename")
    /\ UNCHANGED <<dirs, lockVars, reported, budget>>

\* A single file has no marker inside to remove.
PublishSingleFile(target) == IF Directory(target) THEN "clean" ELSE "unmark"

\* The only step that makes the artifact visible; it never replaces.  A
\* restored directory comes with the head its staged recovery reached and with
\* the current pipeline registered.
PublishNoReplace(p) ==
    /\ job[p].step = "rename"
    /\ ~TargetExists(Pub(p).target)
    /\ Set(p, "place", "target")
    /\ Step(p, PublishSingleFile(Pub(p).target))
    /\ dirs' = IF Pub(p).target = "restored"
               THEN [dirs EXCEPT !["restored"] =
                        [exists |-> TRUE, head |-> Pub(p).head, main |-> Pub(p).head,
                         hot |-> FALSE, refs |-> Pub(p).head,
                         shared |-> pubs[job[p].from].head,
                         registered |-> Pub(p).registered, service |-> Pub(p).service]]
               ELSE dirs
    /\ UNCHANGED <<lockVars, reported, budget>>

\* RecoverPublishedDirectory authenticates both markers and the payload before
\* it changes anything.
AuthenticatePublished(p) ==
    /\ job[p].step = "authenticate"
    /\ \/ DirectoryPayloadDigest(job[p].pub) /\ Step(p, "clean") /\ UNCHANGED lockVars
       \/ ~DirectoryPayloadDigest(job[p].pub) /\ Finish(p)
    /\ UNCHANGED <<dirs, pubs, reported, budget>>

\* The marker inside the target, then the caller's, then the target's barrier.
CleanTarget(p) ==
    /\ job[p].step = "clean"
    /\ \/ /\ Pub(p).internal
          /\ Set(p, "internal", FALSE) /\ UNCHANGED job
       \/ /\ ~Pub(p).internal /\ Pub(p).caller
          /\ Set(p, "caller", FALSE) /\ UNCHANGED job
       \/ /\ ~Pub(p).internal /\ ~Pub(p).caller
          /\ Step(p, "unmark") /\ UNCHANGED pubs
    /\ UNCHANGED <<dirs, lockVars, reported, budget>>

RemoveSiblingMarker(p) ==
    /\ job[p].step = "unmark"
    /\ Set(p, "sibling", "none")
    /\ Step(p, "barrier")
    /\ UNCHANGED <<dirs, lockVars, reported, budget>>

\* The final barrier, the verification of what was published, and success.
Report(p) ==
    /\ job[p].step = "barrier"
    /\ reported' = reported \cup {[pub |-> job[p].pub, cmd |-> job[p].cmd, input |-> job[p].input]}
    /\ Finish(p)
    /\ UNCHANGED <<dirs, pubs, budget>>

\* A staged file is deleted when the command fails and no marker beside the
\* target exists: before the marker was created, or after it was removed, when
\* the handle already names the target.  Staged directories are never deleted.
Discard(p) ==
    IF /\ job[p].pub # 0 /\ ~Directory(Pub(p).target)
       /\ Pub(p).sibling = "none" /\ job[p].step \in {"build", "sibling", "barrier"}
    THEN Set(p, "place", "gone") ELSE UNCHANGED pubs

JobFails(p) ==
    /\ ~Idle(p) /\ Spend("faults")
    /\ Discard(p)
    /\ Finish(p)
    /\ dirs' = IF job[p].step \in {"open", "apply", "rebuilt"} THEN Flushed(job[p].dir) ELSE dirs
    /\ UNCHANGED reported

---------------------------------------------------------------------------
(* Commands that change a data directory in place *)

Commits(d) ==
    /\ dirs[d].head < MaxHead
    /\ dirs' = [dirs EXCEPT ![d].head = @ + 1]

\* An integrity run commits its findings one at a time.
IntegrityRun(d) == Commits(d)

\* A published directory that is opened differs from its marker's payload.
Touched(d) ==
    pubs' = [i \in DOMAIN pubs |->
        IF pubs[i].target = d /\ pubs[i].place = "target"
        THEN [pubs[i] EXCEPT !.changed = TRUE] ELSE pubs[i]]

\* integrity scan, recovery terminalize and projection rebuild open the store
\* under the host lock: SQLite recovers a journal it finds, and has its own.
openOfflineWritableStore(p) ==
    /\ At(p, {"scan", "terminalize", "rebuild"}, "check")
    /\ dirs' = [dirs EXCEPT ![job[p].dir].hot = TRUE]
    /\ Touched(job[p].dir)
    /\ Step(p, "open")
    /\ UNCHANGED <<lockVars, reported, budget>>

\* What opening the whole runtime leaves: in an initialised directory the
\* current pipeline is registered, by a commit if it was not.
RuntimeOpened(d) ==
    LET fresh == captureReadinessSelection(dirs[d].service) /\ ~dirs[d].registered IN
    /\ fresh => dirs[d].head < MaxHead
    /\ dirs' = [dirs EXCEPT ![d].hot = TRUE, ![d].head = IF fresh THEN @ + 1 ELSE @,
                            ![d].registered = @ \/ fresh]

\* The owner's commands and erasure apply open the whole runtime.
withAdminRuntime(p) ==
    /\ At(p, {"activate", "select", "apply"}, "check")
    /\ RuntimeOpened(job[p].dir)
    /\ Touched(job[p].dir)
    /\ Step(p, "open")
    /\ UNCHANGED <<lockVars, reported, budget>>

\* The writer drains, the store checkpoints and closes, the lock goes last.
CloseStore(p) ==
    /\ At(p, {"scan", "terminalize", "rebuild", "activate", "select"}, "open")
    /\ dirs' = Flushed(job[p].dir)
    /\ Finish(p)
    /\ UNCHANGED <<pubs, reported, budget>>

\* One commit per finding, or recovered attempt or obligation; the passes of
\* the recovery follow each other as they do at start-up.
InPlace(p, cmd) ==
    /\ At(p, {cmd}, "open")
    /\ UNCHANGED <<job, lockVars, pubs, reported, budget>>

executeAdminIntegrityScan(p) == InPlace(p, "scan") /\ IntegrityRun(job[p].dir)

executeAdminRecoveryTerminalize(p) == InPlace(p, "terminalize") /\ Commits(job[p].dir)

runProjectionRebuild(p) ==
    LET d == job[p].dir IN
    /\ InPlace(p, "rebuild") /\ dirs[d].refs # dirs[d].head
    /\ dirs' = [dirs EXCEPT ![d].refs = dirs[d].head]

\* A historical policy is replaced by the current one, for an active resident.
runMemoryPolicyActivateCurrent(p) ==
    LET d == job[p].dir IN
    /\ InPlace(p, "activate")
    /\ dirs[d].service.resident = "active" /\ dirs[d].service.policy = "v3"
    /\ dirs[d].head < MaxHead
    /\ dirs' = [dirs EXCEPT ![d].service.policy = "v4", ![d].head = @ + 1]

\* runtime_config is no part of the ledger: selecting a version the directory
\* holds commits nothing.
SelectSessionPolicy(d) ==
    /\ captureReadinessSelection(dirs[d].service) /\ dirs[d].service.configured # "s1"
    /\ dirs' = [dirs EXCEPT ![d].service.configured = "s1"]

executeSessionPolicySelect(p) == InPlace(p, "select") /\ SelectSessionPolicy(job[p].dir)

\* The plan is read once the runtime is open.
ApplyReads(p) ==
    /\ At(p, {"apply"}, "open")
    /\ \/ /\ \E i \in ReadPlan("plan") :
               job' = [job EXCEPT ![p].step = "apply", ![p].from = i]
          /\ UNCHANGED <<dirs, lockVars>>
       \/ /\ ReadPlan("plan") = {}
          /\ dirs' = Flushed(job[p].dir) /\ Finish(p)
    /\ UNCHANGED <<pubs, reported, budget>>

\* The erasure commits at the head it was planned for, or is refused as stale.
executeErasureApply(p) ==
    LET d == job[p].dir IN
    /\ job[p].step = "apply"
    /\ \/ /\ pubs[job[p].from].input.commit = HeadCommit(d)
          /\ Commits(d) /\ Step(p, "rebuilt") /\ UNCHANGED lockVars
       \/ /\ pubs[job[p].from].input.commit # HeadCommit(d)
          /\ dirs' = Flushed(d) /\ Finish(p)
    /\ UNCHANGED <<pubs, reported, budget>>

\* Every projection the plan names is rebuilt at the head of the erasure.
rebuildErasureProjections(p) ==
    LET d == job[p].dir IN
    /\ job[p].step = "rebuilt"
    /\ dirs' = [Flushed(d) EXCEPT ![d].refs = dirs[d].head]
    /\ Finish(p)
    /\ UNCHANGED <<pubs, reported, budget>>

\* Diagnostics hold the namespace of the directory and its host lock, whose
\* file they create, and change nothing else.
Diagnose(p, d) ==
    /\ Spend("commands") /\ Idle(p)
    /\ "diagnose" \in budget.allowed /\ dirs[d].exists
    /\ Acquire(p, d) /\ AcquireExistingParent(p, d)
    /\ Touched(d)
    /\ job' = [job EXCEPT ![p] = [NoJob EXCEPT !.cmd = "diagnose", !.dir = d, !.step = "inspect"]]
    /\ UNCHANGED <<dirs, reported>>

Inspected(p) ==
    /\ At(p, {"diagnose"}, "inspect")
    /\ Finish(p)
    /\ UNCHANGED <<dirs, pubs, reported, budget>>

BeginCommand(p) ==
    \/ BeginRestore(p)
    \/ \E d \in Dirs : Diagnose(p, d)
    \/ \E d \in Dirs, cmd \in Commands : Begin(p, cmd, d)

CommandStep(p) ==
    \/ CheckBackup(p) \/ CheckExport(p) \/ CheckPlan(p) \/ CheckDecision(p) \/ TakeNamespace(p)
    \/ DecideBackup(p) \/ DecideRestore(p) \/ DecidePlan(p) \/ DecideExport(p)
    \/ BuildBundle(p) \/ BuildExport(p) \/ BuildPlan(p) \/ CopyVerified(p)
    \/ registerRestoredDialogueV4(p) \/ runStagedDatabase(p)
    \/ rebuildEligibleProjections(p) \/ verifyClosedStagingRoot(p)
    \/ WriteInternalMarker(p) \/ CreateSiblingMarker(p)
    \/ SealSiblingMarker(p) \/ PublishNoReplace(p) \/ AuthenticatePublished(p)
    \/ CleanTarget(p) \/ RemoveSiblingMarker(p) \/ Report(p) \/ JobFails(p)
    \/ openOfflineWritableStore(p) \/ withAdminRuntime(p) \/ CloseStore(p)
    \/ executeAdminIntegrityScan(p) \/ executeAdminRecoveryTerminalize(p)
    \/ runProjectionRebuild(p) \/ runMemoryPolicyActivateCurrent(p)
    \/ executeSessionPolicySelect(p) \/ ApplyReads(p) \/ executeErasureApply(p)
    \/ rebuildErasureProjections(p) \/ Inspected(p)

---------------------------------------------------------------------------
(* What an interrupted publication leaves *)

\* What a command reported as published is at its target, whole, without any
\* marker left inside or beside it, and is the publication of the input the
\* command was bound to; a name is never taken twice; and what another command
\* was given to work from was a whole publication.
PublicationSound ==
    /\ \A r \in reported :
         LET q == pubs[r.pub] IN
         /\ q.place = "target" /\ q.whole
         /\ ~q.internal /\ ~q.caller /\ q.sibling = "none"
         /\ q.cmd = r.cmd /\ q.input = r.input
    /\ \A name \in Names : Cardinality(Placed(name)) <= 1
    /\ \A p \in Proc : job[p].from # 0 =>
         pubs[job[p].from].place = "target" /\ pubs[job[p].from].whole
============================================================================
