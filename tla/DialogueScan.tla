----------------------------- MODULE DialogueScan -----------------------------
(***************************************************************************)
(* The bounded historical scan of one resident's messages and the proof it *)
(* publishes.  DiscoverDialogueWork reads a window of recent messages and  *)
(* a few pages of older ones; the scan cycle keeps its place between turns *)
(* and, when it has come to the end without finding open work, publishes   *)
(* "clean at epoch k", which alone admits background generation.  An       *)
(* ingress commits its message first and advances the epoch after.         *)
(***************************************************************************)
EXTENDS Integers

CONSTANTS
    RecentCandidates,  \* the recent window of one discovery
    OlderPageSize,     \* messages per older page
    OlderPages,        \* older pages per discovery
    MaxMessages,       \* bound: messages accepted
    MaxFaults          \* bound: failed turns, elapsed budgets and boundaries

ASSUME BudgetAssumption ==
    /\ RecentCandidates \in Nat \ {0}
    /\ OlderPageSize \in Nat \ {0}
    /\ OlderPages \in Nat \ {0}
    /\ MaxMessages \in Nat
    /\ MaxFaults \in Nat

VARIABLES
    n,        \* messages accepted; their seqs are 1 .. n
    open,     \* messages that need attention
    ingress,  \* a submitForegroundWithContent inside its landing lock
    epoch,    \* foregroundEpoch
    clean,    \* dialogueCleanEpoch, Unproved when absent
    cycle,    \* dialogueScanCycles: the epoch and cursor a cycle started with
    turn,     \* processResidentLocked
    faults

scanVars == <<n, open, ingress, epoch, clean, cycle, turn, faults>>

Unproved == -1
NoCycle == -1
\* A nil cursor lies above every seq.
Top == MaxMessages + 1

Epoch == 0 .. MaxMessages + MaxFaults
Seqs == 1 .. MaxMessages

\* at: where the turn stands.  found: open messages of the pages read so far.
\* cursor, pages: the older loop.  next: NextCursor, Top when nil.  complete:
\* CycleComplete.  restarted: one fresh cycle per turn.
ScanTurn == [at : {"idle", "recent", "older", "decide", "work", "background"},
         found : SUBSET Seqs, cursor : 1 .. Top, pages : 0 .. OlderPages,
         next : 1 .. Top, complete : BOOLEAN, restarted : BOOLEAN]
IdleScan == [at |-> "idle", found |-> {}, cursor |-> Top, pages |-> 0,
         next |-> Top, complete |-> FALSE, restarted |-> FALSE]

ScanTypeOK ==
    /\ n \in 0 .. MaxMessages
    /\ open \subseteq 1 .. n
    /\ ingress \in {"idle", "submitted"}
    /\ epoch \in Epoch
    /\ clean \in Epoch \cup {Unproved}
    /\ cycle \in [epoch : Epoch \cup {NoCycle}, cursor : 1 .. Top]
    /\ turn \in ScanTurn
    /\ faults \in 0 .. MaxFaults

Fault == faults < MaxFaults /\ faults' = faults + 1

-----------------------------------------------------------------------------
(* The foreground.                                                         *)

\* submitForegroundWithContent up to the Writer's answer; after an error the
\* message may be there or not.
IngressSubmit ==
    /\ ingress = "idle" /\ ingress' = "submitted"
    /\ \/ n < MaxMessages /\ n' = n + 1 /\ open' = open \cup {n + 1} /\ UNCHANGED faults
       \/ Fault /\ UNCHANGED <<n, open>>
    /\ UNCHANGED <<epoch, clean, cycle, turn>>

\* preemptBackground leaves the proof where it is, one epoch behind.
PreemptedClean == clean

IngressPreempt ==
    /\ ingress = "submitted" /\ ingress' = "idle"
    /\ epoch' = epoch + 1
    /\ clean' = PreemptedClean
    /\ UNCHANGED <<n, open, cycle, turn, faults>>

\* invalidateResidentRuntimeLocked, for a selection or an archive.
Invalidate ==
    /\ Fault
    /\ epoch' = epoch + 1 /\ clean' = Unproved
    /\ UNCHANGED <<n, open, ingress, cycle, turn>>

\* The clean-up of an archive closes messages without the resident's lock.
CloseElsewhere ==
    /\ \E s \in open : open' = open \ {s}
    /\ Fault
    /\ UNCHANGED <<n, ingress, epoch, clean, cycle, turn>>

-----------------------------------------------------------------------------
(* The resident turn.                                                      *)

\* startOrResumeDialogueScanCycle: a cycle keeps the epoch it started with.
CycleEpoch == IF cycle.epoch = NoCycle THEN epoch ELSE cycle.epoch

TurnStart ==
    /\ turn.at = "idle"
    /\ cycle' = [cycle EXCEPT !.epoch = CycleEpoch]
    /\ turn' = [IdleScan EXCEPT !.at = "recent"]
    /\ UNCHANGED <<n, open, ingress, epoch, clean, faults>>

Lower(a, b) == IF a <= b THEN a ELSE b

\* Mutant: the older pages start over in every discovery.
OlderStartFresh == n - RecentCandidates + 1

\* The older pages go on below the cycle's cursor, and below the window.
OlderStart == Lower(n - RecentCandidates + 1, cycle.cursor)

\* DiscoverDialogueWork reads the recent window; a short one is all there is.
ScanRecent ==
    /\ turn.at = "recent"
    /\ LET found == {s \in open : s > n - RecentCandidates} IN
       IF n < RecentCandidates
       THEN turn' = [turn EXCEPT !.at = "decide", !.found = found, !.next = Top,
                                 !.complete = TRUE]
       ELSE turn' = [turn EXCEPT !.at = "older", !.found = found, !.next = Top,
                                 !.complete = FALSE, !.pages = 0, !.cursor = OlderStart]
    /\ UNCHANGED <<n, open, ingress, epoch, clean, cycle, faults>>

\* NextCursor of a page with open work: the page is read again.
ActionableCursor(start, last) == start

\* One older page, or the end of the page budget.  A page that comes back short
\* is the last one.
ScanOlder ==
    LET page == {s \in 1 .. n : s < turn.cursor /\ s >= turn.cursor - OlderPageSize}
        short == turn.cursor <= OlderPageSize
        last == IF short THEN 1 ELSE turn.cursor - OlderPageSize IN
    /\ turn.at = "older"
    /\ \/ /\ turn.pages = OlderPages
          /\ turn' = [turn EXCEPT !.at = "decide", !.next = turn.cursor]
       \/ /\ turn.pages < OlderPages /\ page \cap open # {}
          /\ turn' = [turn EXCEPT !.at = "decide", !.found = @ \cup (page \cap open),
                                  !.next = ActionableCursor(turn.cursor, last)]
       \/ /\ turn.pages < OlderPages /\ page \cap open = {} /\ short
          /\ turn' = [turn EXCEPT !.at = "decide", !.complete = TRUE]
       \/ /\ turn.pages < OlderPages /\ page \cap open = {} /\ ~short
          /\ turn' = [turn EXCEPT !.pages = @ + 1, !.cursor = last]
    /\ UNCHANGED <<n, open, ingress, epoch, clean, cycle, faults>>

\* The elapsed budget ends the older loop where it is.
ScanElapsed ==
    /\ turn.at = "older" /\ turn.pages < OlderPages /\ Fault
    /\ turn' = [turn EXCEPT !.at = "decide", !.next = turn.cursor]
    /\ UNCHANGED <<n, open, ingress, epoch, clean, cycle>>

\* Mutant: the clean proof does not compare epochs.
ProofCurrentAssumed == TRUE

\* recordDialogueCleanAtEpoch compares under backgroundMu.
ProofCurrent == epoch = cycle.epoch

\* The rest of the loop body: keep NextCursor; take the oldest open message;
\* otherwise stop, or end the cycle and publish, or start one fresh cycle.
Decide ==
    LET kept == [cycle EXCEPT !.cursor = IF turn.next = Top THEN @ ELSE turn.next]
        ended == [epoch |-> NoCycle, cursor |-> Top] IN
    /\ turn.at = "decide"
    /\ \/ /\ turn.found # {}
          /\ cycle' = kept /\ turn' = [turn EXCEPT !.at = "work"] /\ UNCHANGED clean
       \/ /\ turn.found = {} /\ ~turn.complete
          /\ cycle' = kept /\ turn' = IdleScan /\ UNCHANGED clean
       \/ /\ turn.found = {} /\ turn.complete /\ ProofCurrent
          /\ cycle' = ended /\ clean' = epoch /\ turn' = [IdleScan EXCEPT !.at = "background"]
       \/ /\ turn.found = {} /\ turn.complete /\ ~ProofCurrent /\ turn.restarted
          /\ cycle' = ended /\ turn' = IdleScan /\ UNCHANGED clean
       \/ /\ turn.found = {} /\ turn.complete /\ ~ProofCurrent /\ ~turn.restarted
          /\ cycle' = [ended EXCEPT !.epoch = epoch]
          /\ turn' = [IdleScan EXCEPT !.at = "recent", !.restarted = TRUE] /\ UNCHANGED clean
    /\ UNCHANGED <<n, open, ingress, epoch, faults>>

\* cancelDialogueWork or processWork closes the oldest message found; a retryable
\* failure leaves it open and an error ends the turn.  Otherwise the turn yields
\* to the message's memory or discovers again.
Work ==
    /\ turn.at = "work"
    /\ \/ /\ \E s \in turn.found : (\A o \in turn.found : s <= o) /\ open' = open \ {s}
          /\ UNCHANGED faults
       \/ Fault /\ UNCHANGED open
    /\ turn' \in {IdleScan, [IdleScan EXCEPT !.at = "recent", !.restarted = turn.restarted]}
    /\ UNCHANGED <<n, ingress, epoch, clean, cycle>>

\* processMemoryExtractionQueue returns.
Background ==
    /\ turn.at = "background" /\ turn' = IdleScan
    /\ UNCHANGED <<n, open, ingress, epoch, clean, cycle, faults>>

\* A read fails: no cursor is returned and the cycle stays where it was.
ScanFails ==
    /\ turn.at \in {"recent", "older"} /\ Fault
    /\ turn' = IdleScan
    /\ UNCHANGED <<n, open, ingress, epoch, clean, cycle>>

ScanTurnStep ==
    TurnStart \/ ScanRecent \/ ScanOlder \/ Decide \/ Work \/ Background

ScanInit ==
    /\ n \in 0 .. MaxMessages /\ open \in SUBSET (1 .. n)
    /\ ingress = "idle" /\ epoch = 0 /\ clean = Unproved
    /\ cycle = [epoch |-> NoCycle, cursor |-> Top] /\ turn = IdleScan /\ faults = 0

ScanNext ==
    \/ IngressSubmit \/ IngressPreempt \/ Invalidate \/ CloseElsewhere
    \/ ScanTurnStep \/ ScanElapsed \/ ScanFails

ScanSpec == ScanInit /\ [][ScanNext]_scanVars

\* The ticker starts a turn again and again, and a turn goes on.
FairScanSpec == ScanSpec /\ WF_scanVars(ScanTurnStep) /\ WF_scanVars(IngressPreempt)

-----------------------------------------------------------------------------
(* Properties.                                                             *)

\* A clean proof for the current epoch means that no message is open, except
\* the one whose ingress has not advanced the epoch yet: bounded windows, a
\* cursor kept across turns and messages accepted meanwhile leave no gap.
CleanProofSound ==
    clean = epoch /\ ingress = "idle" => open = {}

\* The messages from c up to the recent window are closed.
Passed(c) == \A s \in open : s < c \/ s > n - RecentCandidates

\* What makes it so.  While the cycle belongs to the current epoch, everything
\* from its cursor up to the recent window is closed, and so is what the present
\* discovery has passed; the open messages of the window are in its hands, and a
\* discovery that found nothing and came to the end passed everything.
ScanCoverage ==
    cycle.epoch = epoch /\ ingress = "idle" =>
        /\ Passed(cycle.cursor)
        /\ turn.at = "older" =>
            /\ Passed(turn.cursor)
            /\ \A s \in open : s > n - RecentCandidates => s \in turn.found
        /\ turn.at = "decide" =>
            /\ turn.next # Top => Passed(turn.next)
            /\ turn.complete /\ turn.found = {} => open = {}

\* Every open message is found and closed, however many newer ones arrive and
\* although one discovery reads only a few pages.
MessageReached == \A s \in Seqs : (s \in open) ~> (s \notin open)

=============================================================================
