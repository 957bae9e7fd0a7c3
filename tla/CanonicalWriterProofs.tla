------------------------ MODULE CanonicalWriterProofs ------------------------
(***************************************************************************)
(* Proofs about the Canonical Writer for any number of requests, any queue *)
(* capacity, any cursor range and any number of crashes.                   *)
(***************************************************************************)
EXTENDS CanonicalWriter, SequenceTheorems, FiniteSetTheorems, TLAPS

\* A request the Writer goroutine holds is a request, and the metadata of an
\* open unit of work is the successor of a head nobody has moved since.
WorkInv ==
    /\ wpc \in Handling => cur \in Request
    /\ wpc \in {"uow", "commit"} =>
        /\ ~poisoned
        /\ meta.seq = head.seq + 1
        /\ head.seq # 0 => meta.at > head.at

\* The inductive invariant of the ledger.
LedgerInv == TypeOK /\ WorkInv /\ HeadCurrent /\ CursorsAscend

USE CapacityAssumption, LimitAssumption, ScopeAssumption

LEMMA EmptyState ==
    NoHead \in Cursor /\ <<>> \in Seq(Request) /\ <<>> \in Seq(Commit)
  BY DEF NoHead, Cursor

LEMMA InitLedgerInv == Init => LedgerInv
<1> SUFFICES ASSUME Init PROVE LedgerInv OBVIOUS
<1>1. TypeOK
  <2> USE DEF Init
  <2>1. /\ admissionOpen \in BOOLEAN /\ admissionDrained \in BOOLEAN
        /\ accept \in BOOLEAN /\ enqueueDone \in BOOLEAN /\ poisoned \in BOOLEAN
    OBVIOUS
  <2>2. /\ pc \in [Request -> SubmitPoint]
        /\ answer \in [Request -> Answer]
        /\ response \in [Request -> Answer]
        /\ entry \in [Request -> {"none", "accepted", "queued", "inflight"}]
        /\ fences \in [Resident -> Request \cup {None}]
    BY DEF SubmitPoint, Answer
  <2>3. /\ head \in Cursor /\ meta \in Cursor
        /\ queue \in Seq(Request) /\ ledger \in Seq(Commit)
    BY EmptyState
  <2>4. /\ cancelled \subseteq Request /\ contended \subseteq Request
        /\ admissionActive \in Int /\ pendingEnqueue \in Int /\ slots \in Int
        /\ crashes \in 0 .. MaxCrashes
        /\ pauser \in {"open", "waiting", "released", "stable", "gaveup"}
        /\ wpc \in WriterPoint /\ cur \in Request \cup {None} /\ result \in Answer
    BY DEF WriterPoint, Answer
  <2> HIDE DEF Init
  <2> QED BY <2>1, <2>2, <2>3, <2>4 DEF TypeOK
<1>2. WorkInv BY DEF Init, WorkInv, Handling
<1>3. HeadCurrent BY DEF Init, HeadCurrent
<1>4. CursorsAscend BY DEF Init, CursorsAscend
<1> QED BY <1>1, <1>2, <1>3, <1>4 DEF LedgerInv

\* What a submitter, a pauser or a closer does leaves the Writer goroutine's
\* state alone.
LEMMA SubmitType ==
    ASSUME LedgerInv, NEW r \in Request, Submit(r) \/ Cancel(r)
    PROVE  TypeOK'
<1> USE DEF LedgerInv, TypeOK, SubmitPoint, Answer, submitVars, admissionVars,
            activityVars, gateVars, queueVars, writerVars, envVars, Go, Leave
<1>1. CASE SubmitAdmission(r) BY <1>1 DEF SubmitAdmission
<1>2. CASE SubmitAdmit(r)
  <2>1. CASE UNCHANGED activityVars
    <3>1. Go(r, "accepted") \/ Leave(r, "unadmit", "fenced") BY <1>2 DEF SubmitAdmit
    <3>2. pc' \in [Request -> SubmitPoint] /\ answer' \in [Request -> Answer] BY <3>1
    <3> QED BY <1>2, <2>1, <3>2 DEF SubmitAdmit
  <2>2. CASE /\ Go(r, "accepted")
             /\ entry' = [entry EXCEPT ![r] = "accepted"]
             /\ contended' = contended \cup {x \in {r} : Contended(x)}
             /\ ScopeOf[r] \in Resident
             /\ fences' = IF r \in Fence THEN [fences EXCEPT ![ScopeOf[r]] = r] ELSE fences
    <3>1. contended' \subseteq Request BY <2>2
    <3>2. fences' \in [Resident -> Request \cup {None}] BY <2>2
    <3> QED BY <1>2, <2>2, <3>1, <3>2 DEF SubmitAdmit
  <2> QED BY <1>2, <2>1, <2>2 DEF SubmitAdmit
<1>3. CASE SubmitReserve(r) BY <1>3 DEF SubmitReserve
<1>4. CASE SubmitSlot(r)
  <2>1. CASE slots' = slots + 1 /\ Go(r, "slotted") BY <1>4, <2>1 DEF SubmitSlot
  <2>2. CASE Leave(r, "unreserve", "cancelled") /\ UNCHANGED slots
    BY <1>4, <2>2 DEF SubmitSlot
  <2> QED BY <1>4, <2>1, <2>2 DEF SubmitSlot
<1>5. CASE SubmitSend(r) BY <1>5 DEF SubmitSend
<1>6. CASE SubmitSent(r) BY <1>6 DEF SubmitSent, FinishEnqueue
<1>7. CASE SubmitAwait(r)
  <2>1. CASE Leave(r, "returned", response[r]) BY <1>7, <2>1 DEF SubmitAwait
  <2>2. CASE Leave(r, "returned", "cancelled") BY <1>7, <2>2 DEF SubmitAwait
  <2> QED BY <1>7, <2>1, <2>2 DEF SubmitAwait
<1>8. CASE SubmitUnreserve(r) BY <1>8 DEF SubmitUnreserve, FinishEnqueue
<1>9. CASE SubmitUnregister(r) BY <1>9 DEF SubmitUnregister, ActivityFinish
<1>10. CASE SubmitUnadmit(r) BY <1>10 DEF SubmitUnadmit, EndAdmission
<1>11. CASE Cancel(r) BY <1>11 DEF Cancel
<1> QED BY <1>1, <1>2, <1>3, <1>4, <1>5, <1>6, <1>7, <1>8, <1>9, <1>10, <1>11 DEF Submit

\* The pauser, the closer, a crash and a restart.
LEMMA ControlType ==
    ASSUME LedgerInv,
           \/ PauseAdmissions \/ PauseReturns \/ ResumeAdmissions
           \/ Close \/ Crash
    PROVE  TypeOK'
<1> USE DEF LedgerInv, TypeOK, SubmitPoint, Answer, submitVars, admissionVars,
            activityVars, gateVars, queueVars, writerVars, envVars
<1>1. CASE PauseAdmissions BY <1>1 DEF PauseAdmissions, PauseResult
<1>2. CASE PauseReturns BY <1>2 DEF PauseReturns
<1>3. CASE ResumeAdmissions BY <1>3 DEF ResumeAdmissions
<1>4. CASE Close
  <2>1. enqueueDone' \in BOOLEAN BY <1>4, Zenon DEF Close, NoPendingSender
  <2>2. TypeOK /\ accept' = FALSE /\ UNCHANGED <<submitVars, admissionVars, activityVars, pendingEnqueue,
                                                   queueVars, writerVars, envVars>>
    BY <1>4 DEF Close
  <2>3. accept' \in BOOLEAN BY <2>2
  <2> HIDE DEF LedgerInv, SubmitPoint, Answer
  <2> QED BY <2>1, <2>2, <2>3
<1>5. CASE Crash 
  <2> USE DEF Crash
  <2>1. /\ admissionOpen' \in BOOLEAN /\ admissionDrained' \in BOOLEAN
        /\ accept' \in BOOLEAN /\ enqueueDone' \in BOOLEAN /\ poisoned' \in BOOLEAN
    BY <1>5
  <2>2. /\ pc' \in [Request -> SubmitPoint]
        /\ answer' \in [Request -> Answer]
        /\ response' \in [Request -> Answer]
        /\ entry' \in [Request -> {"none", "accepted", "queued", "inflight"}]
        /\ fences' \in [Resident -> Request \cup {None}]
    BY <1>5
  <2>3. /\ head' \in Cursor /\ meta' \in Cursor
        /\ queue' \in Seq(Request) /\ ledger' \in Seq(Commit)
    BY <1>5, EmptyState
  <2>4. /\ cancelled' \subseteq Request /\ contended' \subseteq Request
        /\ admissionActive' \in Int /\ pendingEnqueue' \in Int /\ slots' \in Int
        /\ crashes' \in 0 .. MaxCrashes
        /\ pauser' \in {"open", "waiting", "released", "stable", "gaveup"}
        /\ wpc' \in WriterPoint /\ cur' \in Request \cup {None} /\ result' \in Answer
    BY <1>5 DEF WriterPoint
  <2> HIDE DEF Crash
  <2> QED BY <2>1, <2>2, <2>3, <2>4
<1> QED BY <1>1, <1>2, <1>3, <1>4, <1>5

\* In an ordered ledger the row with the largest cursor is the last one.
LEMMA LoadHeadLast ==
    ASSUME TypeOK, CursorsAscend
    PROVE  /\ LoadHead \in Cursor
           /\ LoadHead.seq = Len(ledger)
           /\ ledger # <<>> => LoadHead.at = ledger[Len(ledger)].at
<1>1. CASE ledger = <<>>
  BY <1>1 DEF LoadHead, Cursor, NoHead
<1>2. CASE ledger # <<>>
  <2>1. /\ ledger \in Seq(Commit)
        /\ Len(ledger) \in DOMAIN ledger
        /\ DOMAIN ledger = 1 .. Len(ledger)
        /\ Len(ledger) \in Nat \ {0}
    BY <1>2 DEF TypeOK
  <2> DEFINE Largest(i) == \A j \in DOMAIN ledger : ledger[j].seq <= ledger[i].seq
             last == CHOOSE i \in DOMAIN ledger : Largest(i)
  <2>2. Largest(Len(ledger))
    BY <2>1 DEF CursorsAscend
  <2>3. last \in DOMAIN ledger /\ Largest(last)
    <3> HIDE DEF Largest
    <3> QED BY <2>1, <2>2
  <2>4. last = Len(ledger)
    <3>1. ledger[Len(ledger)].seq <= ledger[last].seq
      BY <2>1, <2>3
    <3> QED BY <2>1, <2>3, <3>1 DEF CursorsAscend
  <2>5. LoadHead = [seq |-> ledger[last].seq, at |-> ledger[last].at]
    BY <1>2 DEF LoadHead
  <2>6. ledger[Len(ledger)] \in Commit
    BY <2>1
  <2> HIDE DEF last, Largest
  <2>7. /\ ledger[Len(ledger)].seq = Len(ledger)
        /\ ledger[Len(ledger)].seq \in 0 .. MaxSeq
        /\ ledger[Len(ledger)].at \in 0 .. MaxInstant
    BY <2>1, <2>6 DEF CursorsAscend, Commit
  <2> QED BY <2>4, <2>5, <2>7 DEF Cursor
<1> QED BY <1>1, <1>2

\* The Writer goroutine keeps its types and the ledger in order.
LEMMA WriterStep ==
    ASSUME LedgerInv, Writer
    PROVE  LedgerInv'
<1> USE DEF submitVars, admissionVars, activityVars, gateVars, queueVars, envVars
<1>1. CASE WriterAdvance
  BY <1>1 DEF WriterAdvance, LedgerInv, TypeOK, WorkInv, HeadCurrent, CursorsAscend,
              Handling, WriterPoint
<1>2. CASE WriterReceive
  <2>1. Head(queue) \in Request /\ Tail(queue) \in Seq(Request)
    BY <1>2 DEF WriterReceive, LedgerInv, TypeOK
  <2> QED BY <1>2, <2>1 DEF WriterReceive, LedgerInv, TypeOK, WorkInv, HeadCurrent,
              CursorsAscend, Handling, WriterPoint
<1>3. CASE WriterBegin
  <2> USE DEF LedgerInv, HeadCurrent, CursorsAscend
  <2>1. CASE Finish("poisoned") /\ UNCHANGED meta
    BY <1>3, <2>1 DEF WriterBegin, Finish, TypeOK, WorkInv, Handling, WriterPoint, Answer
  <2>2. CASE Finish("cancelled") /\ UNCHANGED meta
    BY <1>3, <2>2 DEF WriterBegin, Finish, TypeOK, WorkInv, Handling, WriterPoint, Answer
  <2>3. CASE Finish("failed") /\ UNCHANGED meta
    BY <1>3, <2>3 DEF WriterBegin, Finish, TypeOK, WorkInv, Handling, WriterPoint, Answer
  <2>4. CASE /\ ~poisoned /\ wpc' = "uow" /\ UNCHANGED result
             /\ \E clock \in 0 .. MaxInstant :
                   ~CursorOverflow(clock) /\ meta' = NextMetadata(clock)
    <3>1. PICK clock \in 0 .. MaxInstant :
                   ~CursorOverflow(clock) /\ meta' = NextMetadata(clock)
      BY <2>4
    <3>2. /\ meta' \in Cursor
          /\ meta'.seq = head.seq + 1
          /\ head.seq # 0 => meta'.at > head.at
      BY <3>1 DEF CursorOverflow, NextMetadata, Cursor, TypeOK
    <3> QED BY <1>3, <2>4, <3>2
            DEF WriterBegin, TypeOK, WorkInv, Handling, WriterPoint
  <2> QED BY <1>3, <2>1, <2>2, <2>3, <2>4 DEF WriterBegin
<1>4. CASE WriterExecute
  <2> USE DEF LedgerInv, TypeOK, WorkInv, HeadCurrent, CursorsAscend, Handling,
              WriterPoint, Answer, Finish
  <2>1. CASE wpc' = "commit" /\ UNCHANGED <<result, poisoned>>
    BY <1>4, <2>1 DEF WriterExecute
  <2>2. CASE wpc' = "rollback" /\ result' \in {"nomutation", "failed"} /\ UNCHANGED poisoned
    BY <1>4, <2>2 DEF WriterExecute
  <2>3. CASE Finish("poisoned") /\ poisoned' = TRUE
    BY <1>4, <2>3 DEF WriterExecute
  <2> QED BY <1>4, <2>1, <2>2, <2>3 DEF WriterExecute
<1>5. CASE WriterRollback
  <2> USE DEF LedgerInv, TypeOK, WorkInv, HeadCurrent, CursorsAscend, Handling,
              WriterPoint, Answer, Finish
  <2>1. CASE Finish(result) /\ UNCHANGED poisoned
    BY <1>5, <2>1 DEF WriterRollback
  <2>2. CASE Finish("poisoned") /\ poisoned' = TRUE
    BY <1>5, <2>2 DEF WriterRollback
  <2> QED BY <1>5, <2>1, <2>2 DEF WriterRollback
<1>6. CASE WriterCommit
  <2> DEFINE row == [seq |-> meta.seq, at |-> meta.at, req |-> cur]
             grown == Append(ledger, row)
  <2>1. /\ row \in Commit
        /\ row.seq = Len(ledger) + 1
        /\ ledger # <<>> => ledger[Len(ledger)].at < row.at
    BY <1>6 DEF WriterCommit, LedgerInv, TypeOK, WorkInv, HeadCurrent, Handling,
                Cursor, Commit
  <2>2. /\ grown \in Seq(Commit)
        /\ Len(grown) = Len(ledger) + 1
        /\ grown[Len(ledger) + 1] = row
        /\ \A i \in 1 .. Len(ledger) : grown[i] = ledger[i]
        /\ grown # <<>>
    <3>1. ledger \in Seq(Commit) BY DEF LedgerInv, TypeOK
    <3> HIDE DEF row
    <3> QED BY <2>1, <3>1, AppendProperties
  <2>3. ASSUME NEW i \in DOMAIN grown
        PROVE  grown[i].seq = i /\ (i > 1 => grown[i - 1].at < grown[i].at)
    <3> HIDE DEF row, grown
    <3>1. /\ i \in 1 .. Len(ledger) + 1 /\ Len(ledger) \in Nat
          /\ ledger \in Seq(Commit)
      BY <2>2 DEF LedgerInv, TypeOK
    <3>2. CASE i <= Len(ledger)
      BY <2>2, <3>1, <3>2 DEF LedgerInv, CursorsAscend
    <3>3. CASE i = Len(ledger) + 1
      BY <2>1, <2>2, <3>1, <3>3
    <3> QED BY <3>1, <3>2, <3>3
  <2>4. CASE /\ ledger' = grown /\ head' = meta /\ Finish("committed")
             /\ UNCHANGED poisoned
    <3> HIDE DEF row, grown
    <3>1. CursorsAscend' BY <2>3, <2>4 DEF CursorsAscend
    <3>2. TypeOK'
      BY <1>6, <2>2, <2>4 DEF WriterCommit, Finish, LedgerInv, TypeOK, WriterPoint, Answer
    <3>3. WorkInv'
      BY <1>6, <2>4 DEF WriterCommit, Finish, LedgerInv, WorkInv, Handling
    <3>4. HeadCurrent'
      BY <1>6, <2>1, <2>2, <2>4 DEF row, WriterCommit, HeadCurrent, LedgerInv, TypeOK
    <3> QED BY <3>1, <3>2, <3>3, <3>4 DEF LedgerInv
  <2>5. CASE /\ ledger' \in {ledger, grown} /\ CommitError /\ UNCHANGED head
    <3> HIDE DEF row, grown
    <3>1. CursorsAscend'
      <4>1. CASE ledger' = grown BY <2>3, <4>1 DEF CursorsAscend
      <4>2. CASE ledger' = ledger BY <4>2 DEF LedgerInv, CursorsAscend
      <4> QED BY <2>5, <4>1, <4>2
    <3>2. TypeOK'
      BY <1>6, <2>2, <2>5 DEF WriterCommit, CommitError, Finish, LedgerInv, TypeOK,
                              WriterPoint, Answer
    <3>3. WorkInv'
      BY <1>6, <2>5 DEF WriterCommit, CommitError, Finish, LedgerInv, WorkInv, Handling
    <3>4. HeadCurrent'
      BY <2>5 DEF CommitError, HeadCurrent
    <3> QED BY <3>1, <3>2, <3>3, <3>4 DEF LedgerInv
  <2> QED BY <1>6, <2>4, <2>5 DEF WriterCommit, AfterCommitError
<1>7. CASE WriterFinish
  BY <1>7 DEF WriterFinish, ActivityFinish, LedgerInv, TypeOK, WorkInv, HeadCurrent,
              CursorsAscend, Handling, WriterPoint
<1>8. CASE WriterEndAdmission
  BY <1>8 DEF WriterEndAdmission, EndAdmission, LedgerInv, TypeOK, WorkInv,
              HeadCurrent, CursorsAscend, Handling, WriterPoint
<1>9. CASE WriterRespond
  BY <1>9 DEF WriterRespond, LedgerInv, TypeOK, WorkInv, HeadCurrent, CursorsAscend,
              Handling, WriterPoint, Answer, Cursor, NoHead
<1> QED BY <1>1, <1>2, <1>3, <1>4, <1>5, <1>6, <1>7, <1>8, <1>9 DEF Writer

\* Nobody but the Writer goroutine, a crash and a restart touches its state.
LEMMA OtherStep ==
    ASSUME LedgerInv, UNCHANGED writerVars, TypeOK'
    PROVE  LedgerInv'
  BY DEF writerVars, LedgerInv, WorkInv, HeadCurrent, CursorsAscend

LEMMA LedgerStep == LedgerInv /\ [Next]_vars => LedgerInv'
<1> SUFFICES ASSUME LedgerInv, [Next]_vars PROVE LedgerInv' OBVIOUS
<1>1. ASSUME NEW r \in Request, Submit(r) \/ Cancel(r) PROVE LedgerInv'
  <2>1. UNCHANGED writerVars
    BY <1>1 DEF Submit, Cancel, SubmitAdmission, SubmitAdmit, SubmitReserve, SubmitSlot,
       SubmitSend, SubmitSent, SubmitAwait, SubmitUnreserve, SubmitUnregister, SubmitUnadmit
  <2> QED BY <1>1, <2>1, SubmitType, OtherStep
<1>2. CASE PauseAdmissions \/ PauseReturns \/ ResumeAdmissions \/ Close
  <2>1. UNCHANGED writerVars
    BY <1>2 DEF PauseAdmissions, PauseReturns, ResumeAdmissions, Close
  <2> QED BY <1>2, <2>1, ControlType, OtherStep
<1>3. CASE Writer BY <1>3, WriterStep
<1>4. CASE Crash
  BY <1>4, ControlType DEF Crash, LedgerInv, WorkInv, HeadCurrent, CursorsAscend, Handling
<1>5. CASE OpenWriter
  <2>1. TypeOK'
    BY <1>5, LoadHeadLast DEF OpenWriter, LedgerInv, TypeOK, WriterPoint, submitVars,
       admissionVars, activityVars, gateVars, queueVars, envVars
  <2>2. WorkInv' BY <1>5 DEF OpenWriter, WorkInv, Handling
  <2>3. HeadCurrent' /\ CursorsAscend'
    BY <1>5, LoadHeadLast DEF OpenWriter, LedgerInv, HeadCurrent, CursorsAscend
  <2> QED BY <2>1, <2>2, <2>3 DEF LedgerInv
<1>6. CASE UNCHANGED vars
  <2>1. UNCHANGED writerVars BY <1>6 DEF vars
  <2>2. TypeOK'
    BY <1>6 DEF vars, submitVars, admissionVars, activityVars, gateVars, queueVars,
       writerVars, envVars, LedgerInv, TypeOK
  <2> QED BY <2>1, <2>2, OtherStep
<1> QED BY <1>1, <1>2, <1>3, <1>4, <1>5, <1>6 DEF Next

\* Every variable keeps its type: in particular nextMetadata never leaves the
\* range of a cursor or of a ledger time, however often the clock goes back.
THEOREM TypeCorrect == Spec => []TypeOK
<1>1. LedgerInv => TypeOK BY DEF LedgerInv
<1> QED BY <1>1, InitLedgerInv, LedgerStep, PTL DEF Spec

\* Commit cursors stay dense, ledger times strictly increase, and neither leaves
\* its range, under any interleaving, wall clock, ambiguous commit and crash.
THEOREM LedgerAlwaysOrdered == Spec => []LedgerOrdered
<1>1. LedgerInv => CursorsAscend BY DEF LedgerInv
<1>2. LedgerInv => CursorsInRange
  <2>1. SUFFICES ASSUME LedgerInv, NEW i \in DOMAIN ledger
                 PROVE  ledger[i].seq <= MaxSeq /\ ledger[i].at <= MaxInstant
    BY DEF CursorsInRange
  <2>2. ledger[i] \in Commit BY <2>1 DEF LedgerInv, TypeOK
  <2> QED BY <2>2 DEF Commit
<1>3. LedgerInv => LedgerOrdered BY <1>1, <1>2 DEF LedgerOrdered
<1> QED BY <1>3, InitLedgerInv, LedgerStep, PTL DEF Spec

\* The cached head of a Writer that is up and sound is the durable head.
THEOREM HeadAlwaysCurrent == Spec => []HeadCurrent
<1>1. LedgerInv => HeadCurrent BY DEF LedgerInv
<1> QED BY <1>1, InitLedgerInv, LedgerStep, PTL DEF Spec

-----------------------------------------------------------------------------
(* The resident fence.                                                     *)

\* A request that was sent is past every clean-up of an early return.
SentInv ==
    \A r \in Request : InQueue(r) \/ (cur = r /\ wpc \in Handling) =>
        pc[r] \in {"sent", "awaiting", "returned"}

FenceInv == LedgerInv /\ SentInv /\ FenceExclusive

LEMMA SentStep == LedgerInv /\ SentInv /\ Next => SentInv'
<1> SUFFICES ASSUME LedgerInv, SentInv, Next PROVE SentInv' OBVIOUS
<1> USE DEF LedgerInv, SentInv, InQueue
<1>1. ASSUME NEW r \in Request, Submit(r) \/ Cancel(r) PROVE SentInv'
  <2> USE DEF submitVars, queueVars, writerVars, Go, Leave, TypeOK
  <2>1. CASE SubmitSend(r)
    <3>1. /\ Len(queue') = Len(queue) + 1
          /\ queue'[Len(queue) + 1] = r
          /\ \A i \in 1 .. Len(queue) : queue'[i] = queue[i]
          /\ DOMAIN queue' = 1 .. Len(queue) + 1
      BY <2>1, AppendProperties DEF SubmitSend
    <3>2. pc' = [pc EXCEPT ![r] = "sent"] /\ UNCHANGED <<cur, wpc>>
      BY <2>1 DEF SubmitSend
    <3>3. \A q \in Request : InQueue(q)' => q = r \/ InQueue(q)
      BY <3>1
    <3> QED BY <3>2, <3>3
  <2>2. CASE ~SubmitSend(r)
    <3>1. UNCHANGED <<queue, cur, wpc>>
      BY <1>1, <2>2 DEF Submit, Cancel, SubmitAdmission, SubmitAdmit, SubmitReserve,
         SubmitSlot, SubmitSent, SubmitAwait, SubmitUnreserve, SubmitUnregister, SubmitUnadmit
    <3>2. \A q \in Request : pc[q] \in {"sent", "awaiting", "returned"} =>
                              pc'[q] \in {"sent", "awaiting", "returned"}
      BY <1>1, <2>2 DEF Submit, Cancel, SubmitAdmission, SubmitAdmit, SubmitReserve,
         SubmitSlot, SubmitSent, SubmitAwait, SubmitUnreserve, SubmitUnregister, SubmitUnadmit
    <3> QED BY <3>1, <3>2
  <2> QED BY <2>1, <2>2
<1>2. CASE PauseAdmissions \/ PauseReturns \/ ResumeAdmissions \/ Close
  <2>1. UNCHANGED <<queue, cur, wpc, pc>>
    BY <1>2 DEF PauseAdmissions, PauseReturns, ResumeAdmissions, Close, submitVars,
       queueVars, writerVars
  <2> QED BY <2>1
<1>3. CASE Writer
  <2>1. CASE WriterReceive
    <3>1. /\ Head(queue) \in Request
          /\ Len(Tail(queue)) = Len(queue) - 1
          /\ \A i \in 1 .. Len(queue) - 1 : Tail(queue)[i] = queue[i + 1]
          /\ Head(queue) = queue[1] /\ Len(queue) >= 1
          /\ DOMAIN queue = 1 .. Len(queue)
          /\ DOMAIN Tail(queue) = 1 .. Len(queue) - 1
      BY <2>1, HeadTailProperties DEF WriterReceive, TypeOK
    <3>2. queue' = Tail(queue) /\ cur' = Head(queue) /\ UNCHANGED pc
      BY <2>1 DEF WriterReceive, submitVars
    <3>3. \A q \in Request : InQueue(q)' => InQueue(q)
      BY <3>1, <3>2
    <3>4. InQueue(Head(queue)) BY <3>1
    <3> QED BY <3>2, <3>3, <3>4
  <2>2. CASE ~WriterReceive
    <3>1. UNCHANGED <<queue, pc>> /\ (wpc' \in Handling => wpc \in Handling /\ cur' = cur)
      BY <1>3, <2>2 DEF Writer, WriterAdvance, WriterBegin, WriterExecute, WriterRollback,
         WriterCommit, CommitError, WriterFinish, WriterEndAdmission, WriterRespond, Finish,
         submitVars, queueVars, Handling
    <3> QED BY <3>1
  <2> QED BY <2>1, <2>2
<1>4. CASE Crash BY <1>4 DEF Crash, Handling
<1>5. CASE OpenWriter
  BY <1>5 DEF OpenWriter, Handling, submitVars, queueVars
<1> QED BY <1>1, <1>2, <1>3, <1>4, <1>5 DEF Next

\* Only admit adds an entry or a fence; only finish removes them.
LEMMA FenceStep == FenceInv /\ Next => FenceExclusive'
<1> SUFFICES ASSUME FenceInv, Next PROVE FenceExclusive' OBVIOUS
<1> USE DEF FenceInv, LedgerInv, TypeOK
<1>1. ASSUME NEW r \in Request, Submit(r) \/ Cancel(r) PROVE FenceExclusive'
  <2>1. CASE SubmitAdmit(r)
    <3> DEFINE a == ScopeOf[r]
    <3>0. UNCHANGED <<wpc, cur>> BY <2>1 DEF SubmitAdmit, writerVars
    <3>1. CASE UNCHANGED activityVars
      BY <3>0, <3>1 DEF FenceExclusive, activityVars
    <3>2. CASE /\ a \in Resident /\ fences[a] = None
               /\ entry' = [entry EXCEPT ![r] = "accepted"]
               /\ contended' = contended \cup {x \in {r} : Contended(x)}
               /\ fences' = IF r \in Fence THEN [fences EXCEPT ![a] = r] ELSE fences
      <4>1. ASSUME NEW b \in Resident, fences'[b] # None, fences'[b] \notin contended',
                   NEW o \in Request \ {fences'[b]}, ScopeOf[o] = b
            PROVE  entry'[o] = "none"
        <5>1. CASE b = a
          <6>1. r \in Fence /\ fences'[b] = r BY <3>2, <4>1, <5>1
          <6>2. ~Contended(r) BY <3>2, <4>1, <6>1
          <6> QED BY <3>2, <4>1, <5>1, <6>1, <6>2 DEF Contended
        <5>2. CASE b # a
          <6>1. fences'[b] = fences[b] /\ fences[b] \notin contended BY <3>2, <4>1, <5>2
          <6>2. o # r BY <4>1, <5>2
          <6> QED BY <3>2, <4>1, <6>1, <6>2 DEF FenceExclusive
        <5> QED BY <5>1, <5>2
      <4>2. ASSUME wpc' = "commit", cur' \in Fence
            PROVE  fences'[ScopeOf[cur']] = cur' /\ cur' \notin contended'
        <5>1. /\ wpc = "commit" /\ cur \in Fence /\ cur' = cur
              /\ cur \in Request /\ ScopeOf[cur] \in Resident
              /\ fences[ScopeOf[cur]] = cur /\ cur \notin contended
          BY <3>0, <4>2 DEF FenceExclusive
        <5>2. pc[cur] # "admission" /\ pc[r] = "admission"
          BY <2>1, <5>1 DEF SentInv, SubmitAdmit, Handling
        <5>3. a # ScopeOf[cur] /\ r # cur BY <3>2, <5>1, <5>2
        <5> QED BY <3>2, <5>1, <5>3
      <4> QED BY <4>1, <4>2 DEF FenceExclusive
    <3> QED BY <2>1, <3>1, <3>2 DEF SubmitAdmit
  <2>2. CASE SubmitUnregister(r)
    <3>1. /\ ActivityFinish(r) /\ pc[r] = "unregister" /\ UNCHANGED <<wpc, cur>>
      BY <2>2 DEF SubmitUnregister, writerVars
    <3>2. wpc = "commit" => cur # r
      BY <3>1 DEF SentInv, Handling
    <3> QED BY <3>1, <3>2 DEF ActivityFinish, FenceExclusive
  <2>3. CASE SubmitSend(r)
    <3>1. /\ \A o \in Request : entry[o] = "none" => entry'[o] = "none"
          /\ UNCHANGED <<contended, fences, wpc, cur>>
      BY <2>3 DEF SubmitSend, writerVars
    <3> QED BY <3>1 DEF FenceExclusive
  <2>4. CASE ~SubmitAdmit(r) /\ ~SubmitUnregister(r) /\ ~SubmitSend(r)
    <3>1. UNCHANGED <<entry, contended, fences, wpc, cur>>
      BY <1>1, <2>4 DEF Submit, Cancel, SubmitAdmission, SubmitReserve, SubmitSlot,
         SubmitSent, SubmitAwait, SubmitUnreserve, SubmitUnadmit, activityVars, writerVars
    <3> QED BY <3>1 DEF FenceExclusive
  <2> QED BY <2>1, <2>2, <2>3, <2>4
<1>2. CASE PauseAdmissions \/ PauseReturns \/ ResumeAdmissions \/ Close
  <2>1. UNCHANGED <<entry, contended, fences, wpc, cur>>
    BY <1>2 DEF PauseAdmissions, PauseReturns, ResumeAdmissions, Close, activityVars,
       writerVars
  <2> QED BY <2>1 DEF FenceExclusive
<1>3. CASE Writer
  <2>1. CASE WriterReceive
    <3>1. /\ \A o \in Request : entry[o] = "none" => entry'[o] = "none"
          /\ UNCHANGED <<contended, fences>> /\ wpc' = "execute"
      BY <2>1, HeadTailProperties DEF WriterReceive
    <3> QED BY <3>1 DEF FenceExclusive
  <2>2. CASE WriterFinish
    <3>1. cur \in Request /\ ActivityFinish(cur) /\ wpc' = "endAdmission"
      BY <2>2 DEF WriterFinish, WorkInv, Handling
    <3> QED BY <3>1 DEF ActivityFinish, FenceExclusive
  <2>3. CASE WriterExecute
    <3>1. UNCHANGED <<entry, contended, fences, cur>>
      BY <2>3 DEF WriterExecute, activityVars
    <3>2. wpc' = "commit" => (cur \in Fence => HoldsFence(cur))
      BY <2>3 DEF WriterExecute, Finish
    <3> QED BY <3>1, <3>2 DEF FenceExclusive, HoldsFence
  <2>4. CASE ~WriterReceive /\ ~WriterFinish /\ ~WriterExecute
    <3>1. UNCHANGED <<entry, contended, fences>> /\ wpc' # "commit"
      BY <1>3, <2>4 DEF Writer, WriterAdvance, WriterBegin, WriterRollback, WriterCommit,
         CommitError, WriterEndAdmission, WriterRespond, Finish, activityVars
    <3> QED BY <3>1 DEF FenceExclusive
  <2> QED BY <2>1, <2>2, <2>3, <2>4
<1>4. CASE Crash BY <1>4 DEF Crash, FenceExclusive
<1>5. CASE OpenWriter
  BY <1>5 DEF OpenWriter, FenceExclusive, activityVars
<1> QED BY <1>1, <1>2, <1>3, <1>4, <1>5 DEF Next

\* A fence command that found its resident quiet keeps it quiet, and no other
\* fence command commits: an erasure never shares its resident with a write.
THEOREM FenceAlwaysExclusive == Spec => []FenceExclusive
<1>1. Init => FenceInv
  <2>1. ASSUME Init PROVE SentInv
    BY <2>1 DEF Init, SentInv, InQueue, Handling
  <2>2. ASSUME Init PROVE FenceExclusive
    BY <2>2 DEF Init, FenceExclusive
  <2> QED BY <2>1, <2>2, InitLedgerInv DEF FenceInv
<1>2. FenceInv /\ [Next]_vars => FenceInv'
  <2>1. ASSUME FenceInv, UNCHANGED vars PROVE SentInv' /\ FenceExclusive'
    BY <2>1 DEF FenceInv, SentInv, InQueue, FenceExclusive, vars, submitVars,
       admissionVars, activityVars, gateVars, queueVars, writerVars
  <2> QED BY <2>1, LedgerStep, SentStep, FenceStep DEF FenceInv
<1>3. FenceInv => FenceExclusive BY DEF FenceInv
<1> QED BY <1>1, <1>2, <1>3, PTL DEF Spec

-----------------------------------------------------------------------------
(* The admission fence.                                                    *)

\* A request is queued once, and not again while the Writer goroutine has it.
QueueInv ==
    /\ \A i, j \in DOMAIN queue : queue[i] = queue[j] => i = j
    /\ wpc \in Handling => ~InQueue(cur)

ActiveSet == {r \in Request : Active(r)}

\* admissionActive counts the requests between beginAdmission and endAdmission,
\* the fence is closed from PauseAdmissions to ResumeAdmissions, and a pause
\* that was granted finds nothing active.
AdmissionInv ==
    /\ IsFiniteSet(ActiveSet) /\ Cardinality(ActiveSet) = admissionActive
    /\ admissionOpen <=> pauser = "open"
    /\ pauser \in {"released", "stable"} => admissionActive = 0

PauseInv == LedgerInv /\ SentInv /\ QueueInv /\ AdmissionInv

\* What a send and a receive make of the queue.
LEMMA SendQueue ==
    ASSUME LedgerInv, SentInv, NEW r \in Request, SubmitSend(r)
    PROVE  /\ \A q \in Request : InQueue(q)' <=> InQueue(q) \/ q = r
           /\ ~InQueue(r)
           /\ QueueInv => QueueInv'
<1>1. /\ queue \in Seq(Request) /\ Len(queue) \in Nat
      /\ DOMAIN queue = 1 .. Len(queue)
      /\ queue' = Append(queue, r) /\ UNCHANGED <<wpc, cur>>
      /\ pc[r] = "slotted"
  BY DEF LedgerInv, TypeOK, SubmitSend, writerVars
<1>2. /\ queue'[Len(queue) + 1] = r
      /\ \A i \in 1 .. Len(queue) : queue'[i] = queue[i]
      /\ DOMAIN queue' = 1 .. Len(queue) + 1
  BY <1>1, AppendProperties
<1>3. ~InQueue(r) /\ ~(wpc \in Handling /\ cur = r) BY <1>1 DEF SentInv
<1>4. \A q \in Request : InQueue(q)' <=> InQueue(q) \/ q = r
  BY <1>1, <1>2 DEF InQueue
<1>5. ASSUME QueueInv PROVE QueueInv'
  <2>1. ASSUME NEW i \in DOMAIN queue', NEW j \in DOMAIN queue', queue'[i] = queue'[j]
        PROVE  i = j
    BY <1>1, <1>2, <1>3, <1>5, <2>1 DEF InQueue, QueueInv
  <2>2. wpc \in Handling => ~InQueue(cur)'
    <3>1. wpc \in Handling => cur \in Request BY DEF LedgerInv, WorkInv
    <3>2. InQueue(cur)' <=> \E i \in DOMAIN queue' : queue'[i] = cur BY <1>1 DEF InQueue
    <3> QED BY <1>1, <1>2, <1>3, <1>5, <3>1, <3>2 DEF QueueInv, InQueue
  <2> QED BY <1>1, <2>1, <2>2 DEF QueueInv
<1> QED BY <1>3, <1>4, <1>5

LEMMA ReceiveQueue ==
    ASSUME LedgerInv, QueueInv, WriterReceive
    PROVE  /\ cur' \in Request /\ InQueue(cur')
           /\ \A q \in Request : InQueue(q)' <=> InQueue(q) /\ q # cur'
           /\ QueueInv'
<1>1. /\ queue \in Seq(Request) /\ queue # <<>>
      /\ queue' = Tail(queue) /\ cur' = Head(queue)
  BY DEF LedgerInv, TypeOK, WriterReceive
<1>2. /\ cur' = queue[1] /\ cur' \in Request
      /\ Len(queue) \in Nat \ {0}
      /\ DOMAIN queue = 1 .. Len(queue)
      /\ DOMAIN queue' = 1 .. Len(queue) - 1
      /\ \A i \in 1 .. Len(queue) - 1 : queue'[i] = queue[i + 1]
  BY <1>1, HeadTailProperties
<1>3. InQueue(cur') BY <1>2 DEF InQueue
<1>4. ASSUME NEW q \in Request PROVE InQueue(q)' <=> InQueue(q) /\ q # cur'
  <2>1. ASSUME InQueue(q)' PROVE InQueue(q) /\ q # cur'
    <3>1. PICK i \in 1 .. Len(queue) - 1 : queue[i + 1] = q
      BY <1>2, <2>1 DEF InQueue
    <3> QED BY <1>2, <3>1 DEF InQueue, QueueInv
  <2>2. ASSUME InQueue(q), q # cur' PROVE InQueue(q)'
    <3>1. PICK i \in 1 .. Len(queue) : queue[i] = q /\ i # 1
      BY <1>2, <2>2 DEF InQueue
    <3>2. i - 1 \in 1 .. Len(queue) - 1 /\ queue'[i - 1] = q BY <1>2, <3>1
    <3> QED BY <1>2, <3>2 DEF InQueue
  <2> QED BY <2>1, <2>2
<1>5. QueueInv'
  <2>1. \A i, j \in DOMAIN queue' : queue'[i] = queue'[j] => i = j
    BY <1>2 DEF QueueInv
  <2>2. ~(\E i \in DOMAIN queue' : queue'[i] = cur')
    BY <1>2 DEF QueueInv
  <2> QED BY <2>1, <2>2 DEF QueueInv, InQueue
<1> QED BY <1>2, <1>3, <1>4, <1>5

\* The submitter, the pauser and the closer touch the queue in SubmitSend only;
\* the Writer goroutine in WriterReceive only, and it keeps its request.
LEMMA QueueStep == PauseInv /\ Next => QueueInv'
<1> SUFFICES ASSUME PauseInv, Next PROVE QueueInv' OBVIOUS
<1> USE DEF PauseInv
<1>1. ASSUME NEW r \in Request, Submit(r) \/ Cancel(r) PROVE QueueInv'
  <2>1. CASE SubmitSend(r) BY <2>1, SendQueue
  <2>2. CASE ~SubmitSend(r)
    <3>1. UNCHANGED <<queue, cur, wpc>>
      BY <1>1, <2>2 DEF Submit, Cancel, SubmitAdmission, SubmitAdmit, SubmitReserve,
         SubmitSlot, SubmitSent, SubmitAwait, SubmitUnreserve, SubmitUnregister,
         SubmitUnadmit, queueVars, writerVars
    <3> QED BY <3>1 DEF QueueInv, InQueue
  <2> QED BY <2>1, <2>2
<1>2. CASE PauseAdmissions \/ PauseReturns \/ ResumeAdmissions \/ Close
  <2>1. UNCHANGED <<queue, cur, wpc>>
    BY <1>2 DEF PauseAdmissions, PauseReturns, ResumeAdmissions, Close, queueVars, writerVars
  <2> QED BY <2>1 DEF QueueInv, InQueue
<1>3. CASE Writer
  <2>1. CASE WriterReceive BY <2>1, ReceiveQueue
  <2>2. CASE ~WriterReceive
    <3>1. UNCHANGED queue /\ (wpc' \in Handling => wpc \in Handling /\ cur' = cur)
      BY <1>3, <2>2 DEF Writer, WriterAdvance, WriterBegin, WriterExecute, WriterRollback,
         WriterCommit, CommitError, WriterFinish, WriterEndAdmission, WriterRespond, Finish,
         queueVars, Handling
    <3> QED BY <3>1 DEF QueueInv, InQueue
  <2> QED BY <2>1, <2>2
<1>4. CASE Crash BY <1>4 DEF Crash, QueueInv, InQueue, Handling
<1>5. CASE OpenWriter BY <1>5 DEF OpenWriter, QueueInv, InQueue, Handling, queueVars
<1> QED BY <1>1, <1>2, <1>3, <1>4, <1>5 DEF Next

\* A request is between its two ends of the admission as long as its call has
\* not come to endAdmission: most steps leave the set alone.
LEMMA SubmitActive ==
    ASSUME PauseInv, NEW r \in Request, Submit(r) \/ Cancel(r)
    PROVE  \/ /\ ActiveSet' = ActiveSet
              /\ UNCHANGED <<admissionOpen, admissionActive, pauser>>
           \/ /\ ActiveSet' = ActiveSet \cup {r} /\ r \notin ActiveSet
              /\ admissionOpen /\ admissionActive' = admissionActive + 1
              /\ UNCHANGED <<admissionOpen, pauser>>
           \/ /\ ActiveSet' = ActiveSet \ {r} /\ r \in ActiveSet
              /\ EndAdmission
<1> USE DEF PauseInv
<1>0. pc \in [Request -> SubmitPoint] BY DEF LedgerInv, TypeOK
<1> DEFINE Held == {"admission", "accepted", "reserved", "slotted",
                    "unreserve", "unregister", "unadmit"}
<1>1. CASE SubmitSend(r)
  <2>1. /\ UNCHANGED <<cur, wpc, admissionOpen, admissionActive, pauser>>
        /\ pc[r] = "slotted" /\ pc' = [pc EXCEPT ![r] = "sent"]
    BY <1>1 DEF SubmitSend, writerVars, admissionVars, Go
  <2>2. \A q \in Request : Active(q)' <=> Active(q)
    BY <1>0, <1>1, <2>1, SendQueue DEF Active
  <2> QED BY <2>1, <2>2 DEF ActiveSet
<1>2. CASE ~SubmitSend(r)
  <2>1. /\ UNCHANGED <<queue, cur, wpc>>
        /\ \A q \in Request \ {r} : pc'[q] = pc[q]
    BY <1>0, <1>1, <1>2 DEF Submit, Cancel, SubmitAdmission, SubmitAdmit, SubmitReserve,
       SubmitSlot, SubmitSent, SubmitAwait, SubmitUnreserve, SubmitUnregister,
       SubmitUnadmit, queueVars, writerVars, submitVars, Go, Leave
  <2>2. \A q \in Request : InQueue(q)' <=> InQueue(q) BY <2>1 DEF InQueue
  <2>3. \A q \in Request : Active(q) <=>
            pc[q] \in Held \/ InQueue(q) \/ (cur = q /\ wpc \in Handling \ {"respond"})
    BY DEF Active
  <2>4. \A q \in Request : Active(q)' <=>
            pc'[q] \in Held \/ InQueue(q) \/ (cur = q /\ wpc \in Handling \ {"respond"})
    BY <2>1, <2>2 DEF Active
  <2>5. pc[r] \notin {"sent", "awaiting", "returned"} =>
            ~InQueue(r) /\ ~(cur = r /\ wpc \in Handling)
    BY DEF SentInv
  <2>6. CASE SubmitAdmission(r)
    <3>1. CASE ~poisoned /\ admissionOpen
      <4>1. /\ pc[r] = "idle" /\ pc'[r] = "admission"
            /\ admissionActive' = admissionActive + 1
            /\ UNCHANGED <<admissionOpen, pauser>>
        BY <1>0, <2>6, <3>1 DEF SubmitAdmission, Go
      <4>2. ActiveSet' = ActiveSet \cup {r} /\ r \notin ActiveSet
        BY <2>1, <2>3, <2>4, <2>5, <4>1 DEF ActiveSet
      <4> QED BY <3>1, <4>1, <4>2
    <3>2. CASE poisoned \/ ~admissionOpen
      <4>1. /\ pc[r] = "idle" /\ pc'[r] = "returned"
            /\ UNCHANGED <<admissionActive, admissionOpen, pauser>>
        BY <1>0, <2>6, <3>2 DEF SubmitAdmission, Leave
      <4>2. ActiveSet' = ActiveSet
        BY <2>1, <2>3, <2>4, <4>1 DEF ActiveSet
      <4> QED BY <4>1, <4>2
    <3> QED BY <3>1, <3>2
  <2>7. CASE SubmitUnadmit(r)
    <3>1. pc[r] = "unadmit" /\ pc'[r] = "returned" /\ EndAdmission
      BY <1>0, <2>7 DEF SubmitUnadmit, Go
    <3>2. ActiveSet' = ActiveSet \ {r} /\ r \in ActiveSet
      BY <2>1, <2>3, <2>4, <2>5, <3>1 DEF ActiveSet
    <3> QED BY <3>1, <3>2
  <2>8. CASE ~SubmitAdmission(r) /\ ~SubmitUnadmit(r)
    <3>1. /\ pc'[r] \in Held <=> pc[r] \in Held
          /\ UNCHANGED <<admissionOpen, admissionActive, pauser>>
      BY <1>0, <1>1, <1>2, <2>8 DEF Submit, Cancel, SubmitAdmit, SubmitReserve,
         SubmitSlot, SubmitSent, SubmitAwait, SubmitUnreserve, SubmitUnregister,
         submitVars, admissionVars, Go, Leave
    <3>2. ActiveSet' = ActiveSet BY <2>1, <2>3, <2>4, <3>1 DEF ActiveSet
    <3> QED BY <3>1, <3>2
  <2> QED BY <2>6, <2>7, <2>8
<1> QED BY <1>1, <1>2

LEMMA WriterActive ==
    ASSUME PauseInv, Writer
    PROVE  \/ /\ ActiveSet' = ActiveSet
              /\ UNCHANGED <<admissionOpen, admissionActive, pauser>>
           \/ /\ ActiveSet' = ActiveSet \ {cur} /\ cur \in ActiveSet
              /\ EndAdmission
<1> USE DEF PauseInv
<1>0. UNCHANGED pc
  BY DEF Writer, WriterAdvance, WriterReceive, WriterBegin, WriterExecute, WriterRollback,
     WriterCommit, WriterFinish, WriterEndAdmission, WriterRespond, submitVars
<1>1. CASE WriterReceive
  <2>1. /\ cur' \in Request /\ InQueue(cur')
        /\ \A q \in Request : InQueue(q)' <=> InQueue(q) /\ q # cur'
    BY <1>1, ReceiveQueue
  <2>2. wpc' = "execute" /\ wpc \notin Handling
        /\ UNCHANGED <<admissionOpen, admissionActive, pauser>>
    BY <1>1 DEF WriterReceive, Handling, admissionVars
  <2>3. \A q \in Request : Active(q)' <=> Active(q)
    BY <1>0, <2>1, <2>2 DEF Active, Handling
  <2> QED BY <2>2, <2>3 DEF ActiveSet
<1>2. CASE WriterEndAdmission
  <2>1. /\ wpc = "endAdmission" /\ wpc' = "respond" /\ EndAdmission
        /\ UNCHANGED <<queue, cur>> /\ cur \in Request
    BY <1>2 DEF WriterEndAdmission, queueVars, LedgerInv, WorkInv, Handling
  <2>2. \A q \in Request : InQueue(q)' <=> InQueue(q) BY <2>1 DEF InQueue
  <2>3. ~InQueue(cur) /\ pc[cur] \in {"sent", "awaiting", "returned"}
    BY <2>1 DEF QueueInv, SentInv, Handling
  <2>4. \A q \in Request : Active(q)' <=> Active(q) /\ q # cur
    BY <1>0, <2>1, <2>2, <2>3 DEF Active, Handling
  <2>5. Active(cur) BY <2>1 DEF Active, Handling
  <2> QED BY <2>1, <2>4, <2>5 DEF ActiveSet
<1>3. CASE ~WriterReceive /\ ~WriterEndAdmission
  <2>1. /\ UNCHANGED <<queue, admissionOpen, admissionActive, pauser>>
        /\ \/ wpc \in Handling \ {"respond"} /\ wpc' \in Handling \ {"respond"} /\ cur' = cur
           \/ wpc \notin Handling \ {"respond"} /\ wpc' \notin Handling \ {"respond"}
    BY <1>3 DEF Writer, WriterAdvance, WriterBegin, WriterExecute, WriterRollback,
       WriterCommit, CommitError, WriterFinish, WriterRespond, Finish, queueVars,
       admissionVars, Handling
  <2>2. \A q \in Request : Active(q)' <=> Active(q)
    BY <1>0, <2>1 DEF Active, InQueue
  <2> QED BY <2>1, <2>2 DEF ActiveSet
<1> QED BY <1>1, <1>2, <1>3

\* endAdmission of a request that was active: the count stays the size of the
\* set, and a waiting pause is released by the last one only.
LEMMA LeaveAdmission ==
    ASSUME AdmissionInv, NEW r \in ActiveSet,
           ActiveSet' = ActiveSet \ {r}, EndAdmission
    PROVE  AdmissionInv'
<1>1. /\ IsFiniteSet(ActiveSet) /\ Cardinality(ActiveSet) = admissionActive
      /\ Cardinality(ActiveSet) \in Nat /\ Cardinality(ActiveSet) # 0
  BY FS_EmptySet, FS_CardinalityType DEF AdmissionInv
<1>2. IsFiniteSet(ActiveSet \ {r}) /\ Cardinality(ActiveSet \ {r}) = admissionActive - 1
  BY <1>1, FS_RemoveElement
<1>3. IsFiniteSet(ActiveSet') /\ Cardinality(ActiveSet') = admissionActive'
  BY <1>2 DEF EndAdmission
<1>4. (admissionOpen <=> pauser = "open")' BY DEF EndAdmission, AdmissionInv
<1>5. pauser' \in {"released", "stable"} => admissionActive' = 0
  BY <1>1 DEF EndAdmission, AdmissionInv
<1> QED BY <1>3, <1>4, <1>5 DEF AdmissionInv

LEMMA AdmissionStep == PauseInv /\ Next => AdmissionInv'
<1> SUFFICES ASSUME PauseInv, Next PROVE AdmissionInv' OBVIOUS
<1>0. AdmissionInv BY DEF PauseInv
<1>1. ASSUME ActiveSet' = ActiveSet, UNCHANGED <<admissionOpen, admissionActive, pauser>>
      PROVE  AdmissionInv'
  BY <1>0, <1>1 DEF AdmissionInv
<1>2. ASSUME NEW r \in Request, Submit(r) \/ Cancel(r) PROVE AdmissionInv'
  <2>1. ASSUME ActiveSet' = ActiveSet \cup {r}, r \notin ActiveSet, admissionOpen,
               admissionActive' = admissionActive + 1, UNCHANGED <<admissionOpen, pauser>>
        PROVE  AdmissionInv'
    <3>1. /\ IsFiniteSet(ActiveSet \cup {r})
          /\ Cardinality(ActiveSet \cup {r}) = Cardinality(ActiveSet) + 1
      BY <1>0, <2>1, FS_AddElement DEF AdmissionInv
    <3>2. pauser = "open" BY <1>0, <2>1 DEF AdmissionInv
    <3> QED BY <1>0, <2>1, <3>1, <3>2 DEF AdmissionInv
  <2> QED BY <1>0, <1>1, <1>2, <2>1, SubmitActive, LeaveAdmission
<1>3. CASE Writer BY <1>0, <1>1, <1>3, WriterActive, LeaveAdmission
<1>4. CASE PauseAdmissions \/ PauseReturns \/ ResumeAdmissions \/ Close
  <2>1. UNCHANGED <<pc, queue, cur, wpc, admissionActive>>
    BY <1>4 DEF PauseAdmissions, PauseReturns, ResumeAdmissions, Close, submitVars,
       admissionVars, queueVars, writerVars
  <2>2. ActiveSet' = ActiveSet BY <2>1 DEF ActiveSet, Active, InQueue
  <2>3. (admissionOpen <=> pauser = "open")'
    BY <1>0, <1>4 DEF PauseAdmissions, PauseReturns, ResumeAdmissions, Close, PauseResult,
       admissionVars, AdmissionInv
  <2>4. pauser' \in {"released", "stable"} => admissionActive = 0
    BY <1>0, <1>4 DEF PauseAdmissions, PauseReturns, ResumeAdmissions, Close, PauseResult,
       admissionVars, AdmissionInv
  <2> QED BY <1>0, <2>1, <2>2, <2>3, <2>4 DEF AdmissionInv
<1>5. CASE Crash
  <2>1. ActiveSet' = {} BY <1>5 DEF Crash, ActiveSet, Active, InQueue, Handling
  <2> QED BY <1>5, <2>1, FS_EmptySet DEF Crash, AdmissionInv
<1>6. CASE OpenWriter
  <2>1. /\ UNCHANGED <<pc, queue, cur, admissionOpen, admissionActive, pauser>>
        /\ wpc = "down" /\ wpc' = "select"
    BY <1>6 DEF OpenWriter, submitVars, admissionVars, queueVars
  <2>2. ActiveSet' = ActiveSet BY <2>1 DEF ActiveSet, Active, InQueue, Handling
  <2> QED BY <1>1, <2>1, <2>2
<1> QED BY <1>2, <1>3, <1>4, <1>5, <1>6 DEF Next

LEMMA PauseStep == PauseInv /\ [Next]_vars => PauseInv'
<1> SUFFICES ASSUME PauseInv, [Next]_vars PROVE PauseInv' OBVIOUS
<1>1. CASE Next BY <1>1, LedgerStep, SentStep, QueueStep, AdmissionStep DEF PauseInv
<1>2. CASE UNCHANGED vars
  <2>1. /\ UNCHANGED <<pc, queue, cur, wpc, admissionOpen, admissionActive, pauser>>
    BY <1>2 DEF vars, submitVars, admissionVars, queueVars, writerVars
  <2>2. SentInv' /\ QueueInv' BY <2>1 DEF PauseInv, SentInv, QueueInv, InQueue
  <2>3. AdmissionInv' BY <2>1 DEF PauseInv, AdmissionInv, ActiveSet, Active, InQueue
  <2> QED BY <1>2, <2>2, <2>3, LedgerStep DEF PauseInv
<1> QED BY <1>1, <1>2

LEMMA InitPauseInv == Init => PauseInv
<1> SUFFICES ASSUME Init PROVE PauseInv OBVIOUS
<1>1. SentInv /\ QueueInv BY DEF Init, SentInv, QueueInv, InQueue, Handling
<1>2. ActiveSet = {} BY DEF Init, ActiveSet, Active, InQueue, Handling
<1>3. AdmissionInv BY <1>2, FS_EmptySet DEF Init, AdmissionInv
<1> QED BY <1>1, <1>3, InitLedgerInv DEF PauseInv

\* Only uow.Commit moves the ledger, and a request that comes there has not
\* called endAdmission yet.
LEMMA LedgerMoves ==
    ASSUME LedgerInv, [Next]_vars, ledger' # ledger
    PROVE  WriterCommit /\ cur \in ActiveSet
<1>1. WriterCommit
  BY DEF Next, vars, Submit, Cancel, SubmitAdmission, SubmitAdmit, SubmitReserve, SubmitSlot,
     SubmitSend, SubmitSent, SubmitAwait, SubmitUnreserve, SubmitUnregister, SubmitUnadmit,
     PauseAdmissions, PauseReturns, ResumeAdmissions, Close, Writer, WriterAdvance,
     WriterReceive, WriterBegin, WriterExecute, WriterRollback, WriterFinish,
     WriterEndAdmission, WriterRespond, Crash, OpenWriter, writerVars
<1>2. wpc = "commit" BY <1>1 DEF WriterCommit
<1> QED BY <1>1, <1>2 DEF ActiveSet, Active, LedgerInv, WorkInv, Handling

\* Between a PauseAdmissions that was granted and ResumeAdmissions the ledger
\* stands still, for any number of requests and under any interleaving: the
\* startup sequence evaluates readiness on one stable head.
THEOREM PauseHoldsLedger == Spec => PausedLedgerStable
<1>1. PauseInv /\ [Next]_vars =>
        [(pauser \in {"released", "stable"}) => ledger' = ledger]_vars
  <2> SUFFICES ASSUME PauseInv, [Next]_vars, pauser \in {"released", "stable"},
                      ledger' # ledger
               PROVE  FALSE
    OBVIOUS
  <2>1. cur \in ActiveSet BY LedgerMoves DEF PauseInv
  <2>2. IsFiniteSet(ActiveSet) /\ Cardinality(ActiveSet) = 0 BY DEF PauseInv, AdmissionInv
  <2> QED BY <2>1, <2>2, FS_EmptySet
<1> QED BY <1>1, InitPauseInv, PauseStep, PTL DEF Spec, PausedLedgerStable

-----------------------------------------------------------------------------
(* The Writer implements the atomic ledger.                                *)

Rejected == {"nomutation", "failed", "paused", "fenced", "closed"}

\* The Writer goroutine still owes the request an outcome, and the outcome of
\* the request it holds is decided.
Waiting(r) == InQueue(r) \/ (cur = r /\ wpc \in Handling)
Deciding == {"finish", "endAdmission", "respond"}

\* What the caller, the response channel and the Writer goroutine say of one
\* request agrees with the ledger: no answer comes before the call leaves, a
\* row is never contradicted by a rejection, and "committed" is said of rows.
TruthOf(r) ==
    /\ pc[r] \in {"idle", "admission", "accepted", "reserved", "slotted", "sent",
                  "awaiting"} => answer[r] = "none"
    /\ pc[r] \in {"idle", "admission", "accepted", "reserved", "slotted"} =>
           response[r] = "none"
    /\ Waiting(r) => response[r] = "none" /\ answer[r] \in {"none", "cancelled"}
    /\ r \in Committed =>
        /\ pc[r] \in {"sent", "awaiting", "returned"} /\ ~InQueue(r)
        /\ cur = r /\ wpc \in Handling => wpc \in Deciding /\ result \in {"committed", "poisoned"}
        /\ answer[r] \notin Rejected /\ response[r] \notin Rejected
    /\ "committed" \in {answer[r], response[r]} => r \in Committed
    /\ cur = r /\ wpc \in Deciding /\ result = "committed" => r \in Committed
    /\ cur = r /\ wpc = "rollback" => result # "committed"

TruthInv == \A r \in Request : TruthOf(r)

\* The row a commit appends continues the ledger, whether or not the commit
\* then reports an error.
LEMMA CommitRow ==
    ASSUME LedgerInv, WriterCommit
    PROVE  LET row == [seq |-> Len(ledger) + 1, at |-> meta.at, req |-> cur] IN
           /\ row \in Commit
           /\ ledger # <<>> => meta.at > ledger[Len(ledger)].at
           /\ ledger' = Append(ledger, row) \/ (ledger' = ledger /\ result' # "committed")
           /\ result' \in {"committed", "poisoned"}
<1>1. /\ meta.seq = Len(ledger) + 1
      /\ [seq |-> meta.seq, at |-> meta.at, req |-> cur] \in Commit
      /\ ledger # <<>> => meta.at > ledger[Len(ledger)].at
  BY DEF WriterCommit, LedgerInv, TypeOK, WorkInv, HeadCurrent, Handling, Cursor, Commit
<1> QED BY <1>1 DEF WriterCommit, AfterCommitError, CommitError, Finish

LEMMA CommitCommitted ==
    ASSUME LedgerInv, WriterCommit
    PROVE  \/ Committed' = Committed \cup {cur}
           \/ Committed' = Committed /\ result' # "committed"
<1> DEFINE row == [seq |-> Len(ledger) + 1, at |-> meta.at, req |-> cur]
<1>1. CASE ledger' = ledger /\ result' # "committed" BY <1>1 DEF Committed
<1>2. CASE ledger' = Append(ledger, row)
  <2>1. ledger \in Seq(Commit) /\ row \in Commit /\ row.req = cur
    BY CommitRow DEF LedgerInv, TypeOK
  <2> HIDE DEF row
  <2>2. /\ Len(ledger) \in Nat /\ DOMAIN ledger = 1 .. Len(ledger)
        /\ DOMAIN ledger' = 1 .. Len(ledger) + 1
        /\ ledger'[Len(ledger) + 1] = row
        /\ \A i \in 1 .. Len(ledger) : ledger'[i] = ledger[i]
    BY <1>2, <2>1, AppendProperties
  <2>3. Committed' = Committed \cup {cur}
    <3>1. ASSUME NEW x \in Committed' PROVE x \in Committed \cup {cur}
      <4>1. PICK i \in 1 .. Len(ledger) + 1 : x = ledger'[i].req
        BY <2>2, <3>1 DEF Committed
      <4>2. CASE i = Len(ledger) + 1 BY <2>1, <2>2, <4>1, <4>2
      <4>3. CASE i \in 1 .. Len(ledger) BY <2>2, <4>1, <4>3 DEF Committed
      <4> QED BY <2>2, <4>2, <4>3
    <3>2. ASSUME NEW x \in Committed PROVE x \in Committed'
      BY <2>2, <3>2 DEF Committed
    <3>3. cur \in Committed'
      <4>1. Len(ledger) + 1 \in DOMAIN ledger' /\ ledger'[Len(ledger) + 1].req = cur
        BY <2>1, <2>2
      <4> QED BY <4>1 DEF Committed
    <3> QED BY <3>1, <3>2, <3>3
  <2> QED BY <2>3
<1> QED BY <1>1, <1>2, CommitRow

\* Submit answers its own caller only, and only out of a state in which the
\* answer is true.
LEMMA SubmitTruth ==
    ASSUME PauseInv, TruthInv, NEW r \in Request, Submit(r) \/ Cancel(r)
    PROVE  TruthInv'
<1>0. /\ LedgerInv /\ SentInv /\ TruthOf(r)
      /\ pc \in [Request -> SubmitPoint] /\ answer \in [Request -> Answer]
  BY DEF PauseInv, LedgerInv, TypeOK, TruthInv
<1>1. /\ UNCHANGED <<response, cur, wpc, result, ledger>>
      /\ \A q \in Request \ {r} : pc'[q] = pc[q] /\ answer'[q] = answer[q]
  BY <1>0 DEF Submit, Cancel, SubmitAdmission, SubmitAdmit, SubmitReserve, SubmitSlot,
     SubmitSend, SubmitSent, SubmitAwait, SubmitUnreserve, SubmitUnregister,
     SubmitUnadmit, writerVars, submitVars, Go, Leave
<1>2. Committed' = Committed BY <1>1 DEF Committed
<1>3. \A q \in Request \ {r} : InQueue(q)' <=> InQueue(q)
  <2>1. CASE SubmitSend(r) BY <1>0, <2>1, SendQueue
  <2>2. CASE ~SubmitSend(r)
    <3>1. UNCHANGED queue
      BY <2>2 DEF Submit, Cancel, SubmitAdmission, SubmitAdmit, SubmitReserve,
         SubmitSlot, SubmitSent, SubmitAwait, SubmitUnreserve, SubmitUnregister,
         SubmitUnadmit, queueVars
    <3> QED BY <3>1 DEF InQueue
  <2> QED BY <2>1, <2>2
<1>4. ASSUME NEW q \in Request \ {r} PROVE TruthOf(q)'
  <2>1. TruthOf(q) BY DEF TruthInv
  <2> QED BY <1>1, <1>2, <1>3, <2>1 DEF TruthOf, Waiting
<1>5. TruthOf(r)'
  <2>1. CASE SubmitSend(r)
    <3>1. pc[r] = "slotted" /\ pc'[r] = "sent" /\ answer' = answer
      BY <1>0, <2>1 DEF SubmitSend, Go
    <3> QED BY <1>0, <1>1, <1>2, <3>1 DEF TruthOf, Waiting, Deciding
  <2>2. CASE ~SubmitSend(r)
    <3>1. UNCHANGED queue
      BY <2>2 DEF Submit, Cancel, SubmitAdmission, SubmitAdmit, SubmitReserve,
         SubmitSlot, SubmitSent, SubmitAwait, SubmitUnreserve, SubmitUnregister,
         SubmitUnadmit, queueVars
    <3>2. (InQueue(r)' <=> InQueue(r)) /\ (Waiting(r)' <=> Waiting(r))
      BY <1>1, <3>1 DEF InQueue, Waiting
    <3>3. Waiting(r) => pc[r] \in {"sent", "awaiting", "returned"}
      BY <1>0 DEF SentInv, Waiting
    <3> USE DEF Go, Leave, submitVars, writerVars
    <3>4. CASE SubmitAdmission(r)
      BY <1>0, <1>1, <1>2, <3>2, <3>3, <3>4 DEF SubmitAdmission, TruthOf, Rejected
    <3>5. CASE SubmitAdmit(r)
      BY <1>0, <1>1, <1>2, <3>2, <3>3, <3>5 DEF SubmitAdmit, TruthOf, Rejected
    <3>6. CASE SubmitReserve(r)
      BY <1>0, <1>1, <1>2, <3>2, <3>3, <3>6 DEF SubmitReserve, TruthOf, Rejected
    <3>7. CASE SubmitSlot(r)
      BY <1>0, <1>1, <1>2, <3>2, <3>3, <3>7 DEF SubmitSlot, TruthOf, Rejected
    <3>8. CASE SubmitSent(r)
      BY <1>0, <1>1, <1>2, <3>2, <3>3, <3>8 DEF SubmitSent, TruthOf
    <3>9. CASE SubmitAwait(r)
      BY <1>0, <1>1, <1>2, <3>2, <3>3, <3>9 DEF SubmitAwait, TruthOf, Rejected
    <3>10. CASE SubmitUnreserve(r) \/ SubmitUnregister(r) \/ SubmitUnadmit(r)
      BY <1>0, <1>1, <1>2, <3>2, <3>3, <3>10
         DEF SubmitUnreserve, SubmitUnregister, SubmitUnadmit, TruthOf
    <3>11. CASE Cancel(r)
      BY <1>0, <1>1, <1>2, <3>2, <3>11 DEF Cancel, TruthOf
    <3> QED BY <2>2, <3>4, <3>5, <3>6, <3>7, <3>8, <3>9, <3>10, <3>11 DEF Submit
  <2> QED BY <2>1, <2>2
<1> QED BY <1>4, <1>5 DEF TruthInv

\* The Writer goroutine decides the request it holds and no other; the row is
\* there before the response says so.
LEMMA WriterTruth ==
    ASSUME PauseInv, TruthInv, Writer
    PROVE  TruthInv'
<1>0. /\ LedgerInv /\ SentInv /\ QueueInv
      /\ wpc \in Handling => cur \in Request
      /\ response \in [Request -> Answer] /\ None \notin Request
  BY DEF PauseInv, LedgerInv, TypeOK, WorkInv
<1>1. UNCHANGED <<pc, answer>>
  BY DEF Writer, WriterAdvance, WriterReceive, WriterBegin, WriterExecute, WriterRollback,
     WriterCommit, WriterFinish, WriterEndAdmission, WriterRespond, submitVars
<1> SUFFICES ASSUME NEW q \in Request PROVE TruthOf(q)' BY DEF TruthInv
<1>2. TruthOf(q) BY DEF TruthInv
<1>3. CASE WriterReceive
  <2>1. /\ cur' \in Request /\ InQueue(cur')
        /\ InQueue(q)' <=> InQueue(q) /\ q # cur'
    BY <1>0, <1>3, ReceiveQueue
  <2>2. /\ wpc' = "execute" /\ wpc \notin Handling /\ UNCHANGED <<response, ledger>>
    BY <1>3 DEF WriterReceive, Handling
  <2>3. Committed' = Committed BY <2>2 DEF Committed
  <2>4. Waiting(q)' => Waiting(q) BY <2>1, <2>2 DEF Waiting
  <2>5. cur' = q => q \notin Committed BY <1>2, <2>1 DEF TruthOf
  <2> QED BY <1>1, <1>2, <2>1, <2>2, <2>3, <2>4, <2>5 DEF TruthOf, Deciding
<1>4. CASE WriterCommit
  <2>1. /\ UNCHANGED <<queue, cur, response>> /\ cur \in Request
        /\ wpc = "commit" /\ wpc' = "finish" /\ result' \in {"committed", "poisoned"}
    BY <1>0, <1>4, CommitRow DEF WriterCommit, CommitError, Finish, queueVars, Handling
  <2>2. /\ \/ Committed' = Committed \cup {cur}
           \/ Committed' = Committed /\ result' # "committed"
    BY <1>0, <1>4, CommitCommitted
  <2>3. (InQueue(q)' <=> InQueue(q)) /\ (Waiting(q)' <=> Waiting(q)) /\ ~InQueue(cur)
    BY <1>0, <2>1 DEF InQueue, Waiting, Handling, QueueInv
  <2>4. CASE q # cur BY <1>1, <1>2, <2>1, <2>2, <2>3, <2>4 DEF TruthOf
  <2>5. CASE q = cur
    <3>1. /\ Waiting(q) /\ pc[q] \in {"sent", "awaiting", "returned"}
      BY <1>0, <2>1, <2>5 DEF Waiting, Handling, SentInv
    <3>2. /\ response[q] = "none" /\ answer[q] \in {"none", "cancelled"}
      BY <1>2, <3>1 DEF TruthOf
    <3> QED BY <1>1, <1>2, <2>1, <2>2, <2>3, <2>5, <3>1, <3>2
            DEF TruthOf, Deciding, Rejected
  <2> QED BY <2>4, <2>5
<1>5. CASE WriterRespond
  <2>1. /\ UNCHANGED <<queue, ledger>> /\ cur \in Request
        /\ wpc = "respond" /\ wpc' = "select" /\ cur' = None
        /\ response' = [response EXCEPT ![cur] = result]
    BY <1>0, <1>5 DEF WriterRespond, queueVars, Handling
  <2>2. /\ InQueue(q)' <=> InQueue(q)
        /\ Committed' = Committed
        /\ Waiting(q)' <=> InQueue(q)
        /\ ~InQueue(cur)
        /\ pc[cur] \in {"sent", "awaiting", "returned"}
    BY <1>0, <2>1 DEF InQueue, Committed, Waiting, Handling, QueueInv, SentInv
  <2>3. CASE q # cur
    BY <1>0, <1>1, <1>2, <2>1, <2>2, <2>3 DEF TruthOf, Waiting, Deciding
  <2>4. CASE q = cur
    BY <1>0, <1>1, <1>2, <2>1, <2>2, <2>4 DEF TruthOf, Deciding, Handling, Rejected
  <2> QED BY <2>3, <2>4
<1>6. CASE ~WriterReceive /\ ~WriterCommit /\ ~WriterRespond
  <2>1. /\ UNCHANGED <<queue, response, cur, ledger>>
        /\ wpc' \in Handling <=> wpc \in Handling
        /\ wpc \in Deciding => wpc' \in Deciding /\ result' = result
        /\ wpc' \in Deciding \ {"finish"} => wpc \in Deciding
        /\ wpc' = "rollback" => result' # "committed"
        /\ wpc' = "finish" /\ wpc \notin Deciding => result' # "committed"
    <3>1. CASE WriterAdvance BY <3>1 DEF WriterAdvance, queueVars, Handling, Deciding
    <3>2. CASE WriterBegin BY <3>2 DEF WriterBegin, Finish, queueVars, Handling, Deciding
    <3>3. CASE WriterExecute BY <3>3 DEF WriterExecute, Finish, queueVars, Handling, Deciding
    <3>4. CASE WriterRollback 
      <4>1. wpc = "rollback" /\ cur \in Request BY <1>0, <3>4 DEF WriterRollback, Handling
      <4>2. result # "committed" BY <4>1 DEF TruthInv, TruthOf
      <4> QED BY <3>4, <4>1, <4>2 DEF WriterRollback, Finish, queueVars, Handling, Deciding
    <3>5. CASE WriterFinish BY <3>5 DEF WriterFinish, queueVars, Handling, Deciding
    <3>6. CASE WriterEndAdmission
      BY <3>6 DEF WriterEndAdmission, queueVars, Handling, Deciding
    <3> QED BY <1>6, <3>1, <3>2, <3>3, <3>4, <3>5, <3>6 DEF Writer
  <2>2. /\ InQueue(q)' <=> InQueue(q)
        /\ Committed' = Committed
        /\ Waiting(q)' <=> Waiting(q)
    BY <2>1 DEF InQueue, Committed, Waiting
  <2> QED BY <1>1, <1>2, <2>1, <2>2 DEF TruthOf, Deciding
<1> QED BY <1>3, <1>4, <1>5, <1>6

LEMMA TruthStep == PauseInv /\ TruthInv /\ [Next]_vars => TruthInv'
<1> SUFFICES ASSUME PauseInv, TruthInv, [Next]_vars PROVE TruthInv' OBVIOUS
<1>1. ASSUME UNCHANGED <<pc, answer, response, queue, cur, wpc, result, ledger>>
      PROVE  TruthInv'
  BY <1>1 DEF TruthInv, TruthOf, Waiting, InQueue, Committed
<1>2. CASE PauseAdmissions \/ PauseReturns \/ ResumeAdmissions \/ Close \/ UNCHANGED vars
  BY <1>1, <1>2 DEF PauseAdmissions, PauseReturns, ResumeAdmissions, Close, vars,
     submitVars, queueVars, writerVars
<1>3. CASE Crash
  <2> SUFFICES ASSUME NEW r \in Request PROVE TruthOf(r)' BY DEF TruthInv
  <2>1. TruthOf(r) BY DEF TruthInv
  <2>2. Committed' = Committed BY <1>3 DEF Crash, Committed
  <2>3. ~Waiting(r)' /\ ~InQueue(r)' /\ wpc' = "down" /\ response'[r] = "none"
    BY <1>3 DEF Crash, Waiting, InQueue, Handling
  <2>4. /\ pc'[r] = IF pc[r] = "idle" THEN "idle" ELSE "returned"
        /\ answer'[r] = IF pc[r] # "idle" /\ answer[r] = "none" THEN "lost" ELSE answer[r]
    BY <1>3 DEF Crash
  <2> QED BY <2>1, <2>2, <2>3, <2>4 DEF TruthOf, Rejected, Handling, Deciding
<1>4. CASE OpenWriter
  <2>1. /\ UNCHANGED <<pc, answer, response, queue, cur, result, ledger>>
        /\ wpc = "down" /\ wpc' = "select"
    BY <1>4 DEF OpenWriter, submitVars, queueVars
  <2> QED BY <2>1 DEF TruthInv, TruthOf, Waiting, InQueue, Committed, Handling, Deciding
<1> QED BY <1>2, <1>3, <1>4, SubmitTruth, WriterTruth DEF Next

LEMMA InitTruth == Init => TruthInv
  BY DEF Init, TruthInv, TruthOf, Waiting, InQueue, Committed, Handling, Deciding, Rejected

\* What the caller makes of an answer.
LEMMA ReplyOf ==
    /\ Reply("none") = "pending" /\ Reply("committed") = "committed"
    /\ \A a \in Rejected : Reply(a) = "rejected"
    /\ \A a \in {"poisoned", "cancelled", "lost"} : Reply(a) = "unknown"
  BY DEF Reply, Rejected

\* An answer that is given is one step of the atomic ledger, an answer that is
\* not given is none.
LEMMA LeaveTells ==
    ASSUME NEW r \in Request, answer \in [Request -> Answer], UNCHANGED ledger,
           NEW a \in Answer,
           answer[r] = "none", answer' = [answer EXCEPT ![r] = a],
           a = "committed" => r \in Committed,
           a \in Rejected => r \notin Committed,
           a # "none"
    PROVE  Atomic!Tell(r)
<1>1. Reply(answer[r]) = "pending" BY ReplyOf
<1>2. /\ Reply(a) \in {"committed", "rejected", "unknown"}
      /\ Reply(a) = "committed" => a = "committed"
      /\ Reply(a) = "rejected" => a \in Rejected
  BY ReplyOf DEF Answer, Rejected
<1>3. [q \in Request |-> Reply(answer[q])]' =
        [[q \in Request |-> Reply(answer[q])] EXCEPT ![r] = Reply(a)]
  OBVIOUS
<1>4. Atomic!Committed = Committed BY DEF Atomic!Committed, Committed
<1> QED BY <1>1, <1>2, <1>3, <1>4 DEF Atomic!Tell

LEMMA SubmitTells ==
    ASSUME PauseInv, TruthInv, NEW r \in Request, Submit(r) \/ Cancel(r)
    PROVE  UNCHANGED ledger /\ (Atomic!Tell(r) \/ UNCHANGED answer)
<1>0. /\ TruthOf(r) /\ answer \in [Request -> Answer] /\ response \in [Request -> Answer]
  BY DEF PauseInv, LedgerInv, TypeOK, TruthInv
<1>1. UNCHANGED ledger
  BY DEF Submit, Cancel, SubmitAdmission, SubmitAdmit, SubmitReserve, SubmitSlot,
     SubmitSend, SubmitSent, SubmitAwait, SubmitUnreserve, SubmitUnregister,
     SubmitUnadmit, writerVars
<1>2. CASE UNCHANGED answer BY <1>1, <1>2
<1>3. CASE answer' # answer
  <2>1. PICK a \in Answer : 
           /\ answer' = [answer EXCEPT ![r] = a]
           /\ \/ pc[r] \in {"idle", "admission", "accepted", "reserved"}
                 /\ a \in Answer \ {"none", "committed"}
              \/ pc[r] = "awaiting" /\ a \in {response[r], "cancelled"} /\ a # "none"
    <3>1. CASE SubmitAdmission(r)
      <4>1. \E a \in {"poisoned", "paused"} : answer' = [answer EXCEPT ![r] = a]
        BY <1>3, <3>1 DEF SubmitAdmission, Go, Leave
      <4> QED BY <3>1, <4>1 DEF SubmitAdmission, Answer
    <3>2. CASE SubmitAdmit(r) BY <1>3, <3>2 DEF SubmitAdmit, Go, Leave, Answer
    <3>3. CASE SubmitReserve(r) BY <1>3, <3>3 DEF SubmitReserve, Go, Leave, Answer
    <3>4. CASE SubmitSlot(r) BY <1>3, <3>4 DEF SubmitSlot, Go, Leave, Answer
    <3>5. CASE SubmitAwait(r)
      <4>1. pc[r] = "awaiting" BY <3>5 DEF SubmitAwait
      <4>2. CASE response[r] # "none" /\ answer' = [answer EXCEPT ![r] = response[r]]
        BY <1>0, <4>1, <4>2
      <4>3. CASE answer' = [answer EXCEPT ![r] = "cancelled"]
        BY <4>1, <4>3 DEF Answer
      <4> QED BY <3>5, <4>2, <4>3 DEF SubmitAwait, Leave
    <3> QED BY <1>3, <3>1, <3>2, <3>3, <3>4, <3>5
        DEF Submit, Cancel, SubmitSend, SubmitSent, SubmitUnreserve, SubmitUnregister,
            SubmitUnadmit, Go, submitVars
  <2>2. answer[r] = "none" BY <1>0, <2>1 DEF TruthOf
  <2>3. (a = "committed" => r \in Committed) /\ (a \in Rejected => r \notin Committed)
    BY <1>0, <2>1 DEF TruthOf, Rejected
  <2> QED BY <1>0, <1>1, <2>1, <2>2, <2>3, LeaveTells
<1> QED BY <1>2, <1>3

\* uow.Commit is where the request's row appears.
LEMMA CommitAppends ==
    ASSUME PauseInv, TruthInv, WriterCommit
    PROVE  UNCHANGED answer /\ (Atomic!Append1(cur) \/ UNCHANGED ledger)
<1>1. LedgerInv /\ wpc = "commit" /\ cur \in Request /\ UNCHANGED answer
  BY DEF PauseInv, LedgerInv, WorkInv, WriterCommit, submitVars, Handling
<1>2. TruthOf(cur) BY <1>1 DEF TruthInv
<1>3. cur \notin Committed /\ answer[cur] \in {"none", "cancelled"}
  BY <1>1, <1>2 DEF TruthOf, Waiting, Handling, Deciding
<1>4. CASE ledger' = Append(ledger, [seq |-> Len(ledger) + 1, at |-> meta.at, req |-> cur])
  <2>1. Atomic!Committed = Committed BY DEF Atomic!Committed, Committed
  <2>2. Reply(answer[cur]) \in {"pending", "unknown"} BY <1>3, ReplyOf
  <2>3. meta.at \in 0 .. MaxInstant BY <1>1 DEF LedgerInv, TypeOK, Cursor
  <2>4. ledger # <<>> => meta.at > ledger[Len(ledger)].at BY <1>1, CommitRow
  <2> QED BY <1>1, <1>3, <1>4, <2>1, <2>2, <2>3, <2>4 DEF Atomic!Append1
<1> QED BY <1>1, <1>4, CommitRow

LEMMA CrashLoses ==
    ASSUME PauseInv, Crash
    PROVE  Atomic!Lose
<1> DEFINE S == {r \in Request : pc[r] # "idle" /\ answer[r] = "none"}
<1>1. answer \in [Request -> Answer] BY DEF PauseInv, LedgerInv, TypeOK
<1>2. S \in SUBSET {r \in Request : [q \in Request |-> Reply(answer[q])][r] = "pending"}
  BY ReplyOf
<1>3. [q \in Request |-> Reply(answer[q])]' =
        [r \in Request |-> IF r \in S THEN "unknown"
                           ELSE [q \in Request |-> Reply(answer[q])][r]]
  BY ReplyOf DEF Crash
<1>4. UNCHANGED ledger BY DEF Crash
<1> QED BY <1>2, <1>3, <1>4 DEF Atomic!Lose

LEMMA StepImplements ==
    PauseInv /\ TruthInv /\ [Next]_vars =>
        [Atomic!Next]_<<ledger, [r \in Request |-> Reply(answer[r])]>>
<1> SUFFICES ASSUME PauseInv, TruthInv, [Next]_vars
             PROVE  [Atomic!Next]_<<ledger, [r \in Request |-> Reply(answer[r])]>>
  OBVIOUS
<1>1. CASE UNCHANGED <<ledger, answer>> BY <1>1
<1>2. ASSUME NEW r \in Request, Submit(r) \/ Cancel(r)
      PROVE  Atomic!Tell(r) \/ UNCHANGED <<ledger, answer>>
  BY <1>2, SubmitTells
<1>3. CASE WriterCommit
  <2>1. cur \in Request BY <1>3 DEF PauseInv, LedgerInv, WorkInv, WriterCommit, Handling
  <2> QED BY <1>1, <1>3, <2>1, CommitAppends DEF Atomic!Next
<1>4. CASE Writer /\ ~WriterCommit
  BY <1>1, <1>4 DEF Writer, WriterAdvance, WriterReceive, WriterBegin, WriterExecute,
     WriterRollback, WriterFinish, WriterEndAdmission, WriterRespond, submitVars
<1>5. CASE PauseAdmissions \/ PauseReturns \/ ResumeAdmissions \/ Close \/ OpenWriter
           \/ UNCHANGED vars
  BY <1>1, <1>5 DEF PauseAdmissions, PauseReturns, ResumeAdmissions, Close, OpenWriter,
     vars, submitVars, writerVars
<1>6. CASE Crash BY <1>6, CrashLoses DEF Atomic!Next
<1> QED BY <1>1, <1>2, <1>3, <1>4, <1>5, <1>6 DEF Next, Atomic!Next

\* The Writer, with its queue, its fences, its ambiguous commits and its
\* crashes, implements the atomic ledger: a caller told "committed" has its
\* row, a caller told of a rejection never has one, and no request has two.
THEOREM WriterImplementsLedger == Spec => RefinesLedger
<1>1. Init => Atomic!Init
  BY ReplyOf DEF Init, Atomic!Init
<1> QED BY <1>1, InitPauseInv, PauseStep, InitTruth, TruthStep, StepImplements, PTL
        DEF Spec, RefinesLedger, Atomic!Spec

=============================================================================
