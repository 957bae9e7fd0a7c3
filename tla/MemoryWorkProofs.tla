--------------------------- MODULE MemoryWorkProofs ---------------------------
(* Optional work starts behind the mandatory work: MandatoryFirst for every *)
(* number of events, requests, calls and faults.                           *)
EXTENDS MemoryWork, NaturalsInduction, WellFoundedInduction, TLAPS

-----------------------------------------------------------------------------
(* The inductive invariant.                                                *)

Place == [after : Nat, through : Int]
Item == [key : Key \cup {<<>>}, state : RunState, code : Code]
NoFailure == ""
Failure == {NoFailure, "foreground_preempted", "retryable", "terminal"}
WayOut == {"idle", "align", "complete", "persona", "retry"}
By == {"turn", "align", "admin", "derive", "autonomy", "reextract"}
Answer == [work : Item, next : Place, complete : BOOLEAN]
Holder ==
    [at : Point, by : By, epoch : Nat, cycle : Nat, cursor : Place,
     result : Answer, work : Item,
     through : Nat, pass : Nat, fair : BOOLEAN, lease : Nat, failure : Failure, exit : WayOut]

RunType == run \in [Key -> [state : RunState, fails : Nat]]

RecordsInv ==
    /\ events \in Seq(Event) /\ Len(events) <= MaxEvents
    /\ requests \in Seq(Nat) /\ Len(requests) <= MaxRequests
    /\ RunType

NormalCycle == [cursor : Place, epoch : Nat \cup {Unset}, dirty : BOOLEAN]
RxCycle == [active : BOOLEAN, cursor : Place, epoch : Nat \cup {Unset}, dirty : BOOLEAN,
            pending : BOOLEAN]
CursorsInv ==
    /\ normal \in NormalCycle /\ rx \in RxCycle
    /\ normal.epoch = Unset => normal.cursor = NoCursor
    /\ turn \in Holder /\ fair \in Place
    /\ scans \in BOOLEAN /\ arriving \in BOOLEAN
    /\ normal.cursor.through <= Len(events) /\ fair.through <= Len(events)

\* Nothing carries an epoch that is still to come.
EpochInv ==
    /\ epoch \in Nat /\ clean \in Int /\ complete \in Int
    /\ clean <= epoch /\ complete <= epoch /\ normal.epoch <= epoch /\ rx.epoch <= epoch
    /\ turn.epoch <= epoch /\ turn.cycle <= epoch /\ turn.lease <= epoch

Done(key) == run[key].state = "ended"
Known(key) ==
    \/ \E i \in 1 .. Len(events) : key = Mandatory(i)
    \/ \E k \in 1 .. Len(requests) : key = Reextraction(k)

\* An event and a request have an obligation.
ExistInv ==
    /\ \A i \in DOMAIN events : Exists(Mandatory(i))
    /\ \A k \in DOMAIN requests : Exists(Reextraction(k))

\* A clean proof of the present epoch holds until the next message is durable.
CleanInv == clean = epoch /\ ~arriving => \A i \in DOMAIN events : ~Unclosed(i)

Covered(n) == \A i \in 1 .. n : i \in uncovered \/ Done(Mandatory(i))
EndedTo(n) == \A k \in 1 .. n : Done(Reextraction(k))
AllCovered == Covered(Len(events))
AllEnded == EndedTo(Len(requests))

\* A cursor of the present epoch has the last event as its ceiling, and behind
\* a clean one everything is covered.
AtPlace(cursor, dirty) ==
    cursor # NoCursor =>
        /\ cursor.through = Len(events)
        /\ ~dirty => cursor.after <= Len(events) /\ Covered(cursor.after)
NormalInv == normal.epoch = epoch /\ ~arriving => AtPlace(normal.cursor, normal.dirty)

\* No pass looks above the last event, or the last request.
CeilingInv ==
    /\ turn.at \in {"fairDiscover", "normalDiscover"} => turn.cursor.through <= Len(events)
    /\ turn.at \in {"fairDiscover", "fairUpdate"} => turn.through <= Len(events)
    /\ turn.at \in {"fairUpdate", "normalUpdate"} => turn.result.next.through <= Len(events)
    /\ turn.at = "rxDiscover" => turn.cursor.through <= Len(requests)

\* The answer of a pass that is not yet in the cursor.
NormalAnswer ==
    turn.at = "normalUpdate" /\ normal.epoch = turn.cycle /\ epoch = turn.cycle /\ ~arriving =>
        IF turn.result.complete THEN ~normal.dirty => AllCovered
        ELSE AtPlace(turn.result.next, normal.dirty \/ turn.result.work # NoWork)

NormalPoint == {"normalStart", "normalDiscover", "normalUpdate"}
RxPoint == {"rxStart", "rxDiscover", "rxUpdate"}

NormalTurn ==
    /\ turn.at \in {"normalDiscover", "normalUpdate"} =>
         IF normal.epoch = turn.cycle
         THEN turn.at = "normalDiscover" => turn.cursor = normal.cursor
         ELSE complete = Unset /\ normal.epoch = Unset
    /\ turn.at \in NormalPoint => ~rx.active
    /\ turn.at \in RxPoint \cup {"verified"} => normal.epoch = Unset
    /\ rx.active => normal.epoch = Unset

\* The sweep that was proved says what is covered, until the next one begins.
CompleteInv ==
    complete = epoch /\ ~arriving /\ turn.at # "normalUpdate" => AllCovered

\* The same for the requests, which no epoch outdates.
AtRequest(cursor, dirty, pending) ==
    cursor # NoCursor =>
        /\ cursor.through <= Len(requests)
        /\ ~pending => cursor.through = Len(requests)
        /\ ~dirty => cursor.after <= Len(requests) /\ EndedTo(cursor.after)
RxInv == AtRequest(rx.cursor, rx.dirty, rx.pending)
RxAnswer ==
    turn.at = "rxUpdate" /\ rx.epoch = turn.cycle =>
        IF turn.result.complete THEN ~rx.dirty /\ ~rx.pending => AllEnded
        ELSE AtRequest(turn.result.next, rx.dirty \/ turn.result.work # NoWork, rx.pending)
RxTurn ==
    turn.at = "rxDiscover" /\ rx.epoch = turn.cycle =>
        /\ turn.cursor = rx.cursor
        /\ rx.cursor = NoCursor => ~rx.pending

\* The turn of the queue began at the epoch of the clean proof or later.
QueueTurn ==
    /\ turn.at \in NormalPoint \cup RxPoint \cup {"verified"} =>
         ~scans /\ clean <= turn.epoch /\ ~turn.fair
    /\ turn.at = "verified" => AllEnded

\* What a pass has found.
Obligation(work) ==
    /\ work.key \in Key /\ IsMemory(work.key)
    /\ Exists(work.key)
AnswerInv ==
    turn.at \in {"fairUpdate", "normalUpdate", "rxUpdate"} =>
        /\ turn.result.work = NoWork \/ (Obligation(turn.result.work) /\ ~turn.result.complete)
        /\ turn.result.complete => turn.result.next = NoCursor

WorkPoint == {"process", "admit", "register", "call", "land", "fail"}
WorkInv ==
    /\ turn.at \in WorkPoint \cup {"autonomyGate"} => turn.work.key \in Key
    /\ turn.at = "autonomyGate" => turn.work.key[1] = "optional"
    /\ turn.at \in WorkPoint /\ turn.work.key[1] = "request" =>
         \/ Exists(turn.work.key)
         \/ /\ turn.by = "reextract" /\ turn.work.key = Reextraction(Len(requests) + 1)
            /\ turn.through \in Nat
    /\ turn.by = "reextract" =>
         /\ turn.at \in WorkPoint /\ turn.work.key[1] = "request" /\ ~scans
         /\ rx.pending \/ rx.cursor = NoCursor
    /\ turn.at = "fail" /\ turn.exit # "idle" =>
         turn.work.key[1] = "optional" /\ turn.exit \in {"align", "complete", "persona", "retry"}

OptionalPoint ==
    \/ turn.at \in {"align", "persona", "complete", "autonomyGate"}
    \/ turn.at \in WorkPoint /\ turn.work.key[1] = "optional"

\* The two proofs that stand in front of optional work.
Proved == clean = epoch /\ ~arriving => AllCovered /\ AllEnded

OptionalInv ==
    /\ OptionalPoint => ~turn.fair /\ normal.epoch = Unset /\ Proved
    /\ scans => normal.epoch = Unset /\ (turn.at # "queue" => Proved)
    /\ turn.at = "call" /\ OptionalPoint /\ epoch = turn.lease => clean = epoch

World == RecordsInv /\ ExistInv /\ CursorsInv /\ EpochInv /\ CleanInv /\ NormalInv /\ RxInv
Turn ==
    /\ NormalAnswer /\ NormalTurn /\ CompleteInv /\ RxAnswer /\ RxTurn
    /\ CeilingInv /\ QueueTurn /\ AnswerInv /\ WorkInv /\ OptionalInv
SweepInv == World /\ Turn

-----------------------------------------------------------------------------
(* Keys and outcomes.                                                      *)

LEMMA LeastIn ==
    ASSUME NEW S, S \subseteq Nat, S # {}
    PROVE  Least(S) \in S /\ \A j \in S : Least(S) <= j
<1>1. PICK x \in S : \A y \in S : ~(<<y, x>> \in OpToRel(<, Nat))
  BY NatLessThanWellFounded, WFMin
<1>2. \A y \in S : ~(y < x) BY <1>1 DEF OpToRel
<1>3. \A y \in S : x <= y BY <1>2
<1> QED BY <1>3 DEF Least

LEMMA Keys ==
    /\ \A i : Mandatory(i)[1] = "event" /\ Mandatory(i)[2] = i
    /\ \A k : Reextraction(k)[1] = "request" /\ Reextraction(k)[2] = k
    /\ \A kind : OptionalKey(kind)[1] = "optional" /\ OptionalKey(kind)[2] = kind
    /\ \A i, j : Mandatory(i) = Mandatory(j) => i = j
    /\ \A i, j : Reextraction(i) = Reextraction(j) => i = j
    /\ \A i, j : Mandatory(i) # Reextraction(j) /\ Mandatory(i) # OptionalKey(j)
                 /\ Reextraction(i) # OptionalKey(j)
    /\ \A i \in 1 .. MaxEvents : Mandatory(i) \in Key
    /\ \A k \in 1 .. MaxRequests : Reextraction(k) \in Key
    /\ \A kind \in Optional : OptionalKey(kind) \in Key
    /\ \A key \in Key : key[1] \in {"event", "request", "optional"}
  BY DEF Mandatory, Reextraction, OptionalKey, Key

\* An obligation that exists goes on to exist, and one that has ended is over.
Keeps ==
    \A key \in Key : (Exists(key) => Exists(key)') /\ (Known(key) /\ Done(key) => Done(key)')

LEMMA RunStates ==
    ASSUME RunType, NEW key \in Key
    PROVE  /\ run[key].state \in RunState /\ run[key].fails \in Nat
           /\ run[key] = [state |-> run[key].state, fails |-> run[key].fails]
           /\ Done(key) => Exists(key)
           /\ Exists(key) => (Pending(key) <=> ~Done(key))
           /\ memoryWorkNeedsAttention(key) <=> Pending(key)
  BY DEF RunType, RunState, Done, Exists, Pending, memoryWorkNeedsAttention

\* One obligation changes.
LEMMA RunMoves ==
    ASSUME RunType, NEW key, NEW r, r.state \in RunState, r.fails \in Nat,
           r = [state |-> r.state, fails |-> r.fails],
           r.state # "absent" \/ ~Exists(key), r.state = "ended" \/ ~Done(key) \/ ~Known(key),
           run' = [run EXCEPT ![key] = r]
    PROVE  RunType' /\ Keeps /\ (key \in Key => run'[key] = r)
<1>1. r \in [state : RunState, fails : Nat] OBVIOUS
<1>2. run' \in [Key -> [state : RunState, fails : Nat]] BY <1>1 DEF RunType
<1>3. \A x \in Key : run'[x] = IF x = key THEN r ELSE run[x] BY DEF RunType
<1>4. RunType' BY <1>2 DEF RunType, Key, Mandatory, Reextraction, OptionalKey, RunState
<1>5. Keeps
  <2> SUFFICES ASSUME NEW x \in Key
               PROVE  (Exists(x) => Exists(x)') /\ (Known(x) /\ Done(x) => Done(x)')
    BY DEF Keeps
  <2>1. run'[x] = IF x = key THEN r ELSE run[x] BY <1>3
  <2>2. CASE x = key BY <2>1, <2>2 DEF Exists, Done
  <2>3. CASE x # key BY <2>1, <2>3 DEF Exists, Done
  <2> QED BY <2>2, <2>3
<1> QED BY <1>3, <1>4, <1>5

LEMMA RunRests == ASSUME RunType, run' = run PROVE RunType' /\ Keeps
  BY DEF RunType, Keeps, Exists, Done, Key, Mandatory, Reextraction, OptionalKey, RunState

LEMMA RunEnded ==
    ASSUME RunType, NEW key, run' = Ended(key)
    PROVE  RunType' /\ Keeps /\ (key \in Key => Done(key)')
<1>1. CASE key \in Key
  <2>1. PICK r : r = [run[key] EXCEPT !.state = "ended"] OBVIOUS
  <2>2. run[key].fails \in Nat /\ run[key] = [state |-> run[key].state, fails |-> run[key].fails]
    BY <1>1, RunStates
  <2>3. /\ r.state = "ended" /\ r.fails \in Nat /\ r = [state |-> r.state, fails |-> r.fails]
        /\ r.state \in RunState /\ r.state # "absent"
    BY <2>1, <2>2 DEF RunState
  <2>4. run' = [run EXCEPT ![key] = r] BY <2>1 DEF Ended
  <2>5. RunType' /\ Keeps /\ run'[key] = r BY <1>1, <2>3, <2>4, RunMoves
  <2> QED BY <2>3, <2>5 DEF Done
<1>2. CASE key \notin Key
  <2>1. run' = run BY <1>2 DEF Ended, RunType
  <2> QED BY <1>2, <2>1, RunRests
<1> QED BY <1>1, <1>2

LEMMA RunRunning ==
    ASSUME RunType, NEW key \in Key, ~Done(key), run' = Running(key)
    PROVE  RunType' /\ Keeps /\ Exists(key)'
<1>1. PICK r : r = [run[key] EXCEPT !.state = "running"] OBVIOUS
<1>2. run[key].fails \in Nat /\ run[key] = [state |-> run[key].state, fails |-> run[key].fails]
  BY RunStates
<1>3. /\ r.state = "running" /\ r.fails \in Nat /\ r = [state |-> r.state, fails |-> r.fails]
      /\ r.state \in RunState /\ r.state # "absent"
  BY <1>1, <1>2 DEF RunState
<1>4. run' = [run EXCEPT ![key] = r] BY <1>1 DEF Running
<1>5. RunType' /\ Keeps /\ run'[key] = r BY <1>3, <1>4, RunMoves
<1> QED BY <1>3, <1>5 DEF Exists

LEMMA OutcomeOf ==
    ASSUME RunType, NEW key \in Key, NEW failure
    PROVE  \E r : /\ Outcome(key, failure) = [run EXCEPT ![key] = r]
                  /\ r.state \in RunState \ {"absent"} /\ r.fails \in Nat
                  /\ r = [state |-> r.state, fails |-> r.fails]
<1> DEFINE charged == run[key].fails + 1
           a == [run[key] EXCEPT !.state = "preempted"]
           b == [run[key] EXCEPT !.state = "ended"]
           c == [state |-> IF charged < MaxAttempts THEN "retry" ELSE "ended", fails |-> charged]
           r == CASE failure = "foreground_preempted" -> a [] failure = "terminal" -> b [] OTHER -> c
<1>1. Outcome(key, failure) = [run EXCEPT ![key] = r] BY DEF Outcome
<1>2. run[key].fails \in Nat /\ run[key] = [state |-> run[key].state, fails |-> run[key].fails]
  BY RunStates
<1>3. a.state = "preempted" /\ a.fails \in Nat /\ a = [state |-> a.state, fails |-> a.fails]
  BY <1>2
<1>4. b.state = "ended" /\ b.fails \in Nat /\ b = [state |-> b.state, fails |-> b.fails]
  BY <1>2
<1>5. c.state \in {"retry", "ended"} /\ c.fails \in Nat /\ c = [state |-> c.state, fails |-> c.fails]
  BY <1>2
<1> HIDE DEF a, b, c
<1>6. r \in {a, b, c} OBVIOUS
<1> HIDE DEF r
<1>7. r.state \in RunState \ {"absent"} /\ r.fails \in Nat /\ r = [state |-> r.state, fails |-> r.fails]
  BY <1>3, <1>4, <1>5, <1>6 DEF RunState
<1> QED BY <1>1, <1>7

LEMMA RunFails ==
    ASSUME RunType, NEW key \in Key, ~Done(key), NEW failure, run' = Outcome(key, failure)
    PROVE  RunType' /\ Keeps
  BY OutcomeOf, RunMoves

-----------------------------------------------------------------------------
(* What a step leaves as it was.                                           *)

\* The records go on, with the same events and requests.
Framed ==
    /\ RecordsInv' /\ ExistInv' /\ Keeps
    /\ Len(events') = Len(events) /\ Len(requests') = Len(requests)
    /\ uncovered \subseteq uncovered'

LEMMA Lengths ==
    ASSUME RecordsInv
    PROVE  /\ Len(events) \in Nat /\ Len(requests) \in Nat
           /\ DOMAIN events = 1 .. Len(events) /\ DOMAIN requests = 1 .. Len(requests)
           /\ MaxEvents \in Nat /\ MaxRequests \in Nat
           /\ \A i \in 1 .. Len(events) : Mandatory(i) \in Key /\ Known(Mandatory(i))
           /\ \A k \in 1 .. Len(requests) : Reextraction(k) \in Key /\ Known(Reextraction(k))
<1>1. MaxEvents \in Nat /\ MaxRequests \in Nat BY MemoryAssumption
<1>2. /\ Len(events) \in Nat /\ Len(requests) \in Nat
      /\ DOMAIN events = 1 .. Len(events) /\ DOMAIN requests = 1 .. Len(requests)
      /\ Len(events) <= MaxEvents /\ Len(requests) <= MaxRequests
  BY DEF RecordsInv
<1>3. \A i \in 1 .. Len(events) : i \in 1 .. MaxEvents BY <1>1, <1>2
<1>4. \A i \in 1 .. Len(requests) : i \in 1 .. MaxRequests BY <1>1, <1>2
<1> QED BY <1>1, <1>2, <1>3, <1>4, Keys DEF Known

LEMMA FrameCovers ==
    ASSUME RecordsInv, Framed
    PROVE  /\ \A n \in Nat : n <= Len(events) /\ Covered(n) => Covered(n)'
           /\ \A n \in Nat : n <= Len(requests) /\ EndedTo(n) => EndedTo(n)'
           /\ AllCovered => AllCovered'
           /\ AllEnded => AllEnded'
           /\ \A c \in Place : \A d : AtPlace(c, d) => AtPlace(c, d)'
           /\ \A c \in Place : \A d, p : AtRequest(c, d, p) => AtRequest(c, d, p)'
<1>1. /\ Len(events) \in Nat /\ Len(requests) \in Nat
      /\ \A i \in 1 .. Len(events) : Mandatory(i) \in Key /\ Known(Mandatory(i))
      /\ \A k \in 1 .. Len(requests) : Reextraction(k) \in Key /\ Known(Reextraction(k))
  BY Lengths
<1>2. /\ Keeps /\ Len(events') = Len(events) /\ Len(requests') = Len(requests)
      /\ uncovered \subseteq uncovered'
  BY DEF Framed
<1>3. ASSUME NEW n \in Nat, n <= Len(events), Covered(n) PROVE Covered(n)'
  <2> SUFFICES ASSUME NEW i \in 1 .. n PROVE i \in uncovered' \/ Done(Mandatory(i))'
    BY DEF Covered
  <2>1. i \in 1 .. Len(events) BY <1>1, <1>3
  <2>2. i \in uncovered \/ Done(Mandatory(i)) BY <1>3 DEF Covered
  <2>3. Done(Mandatory(i)) => Done(Mandatory(i))' BY <1>1, <1>2, <2>1 DEF Keeps, Mandatory
  <2> QED BY <1>2, <2>2, <2>3
<1>4. ASSUME NEW n \in Nat, n <= Len(requests), EndedTo(n) PROVE EndedTo(n)'
  <2> SUFFICES ASSUME NEW k \in 1 .. n PROVE Done(Reextraction(k))' BY DEF EndedTo
  <2>1. k \in 1 .. Len(requests) BY <1>1, <1>4
  <2>2. Done(Reextraction(k)) BY <1>4 DEF EndedTo
  <2> QED BY <1>1, <1>2, <2>1, <2>2 DEF Keeps, Reextraction
<1>5. AllCovered => AllCovered' BY <1>1, <1>2, <1>3 DEF AllCovered, Covered
<1>6. AllEnded => AllEnded' BY <1>1, <1>2, <1>4 DEF AllEnded, EndedTo
<1>7. ASSUME NEW c \in Place, NEW d, AtPlace(c, d) PROVE AtPlace(c, d)'
  <2>1. c.after \in Nat BY DEF Place
  <2> QED BY <1>2, <1>3, <1>7, <2>1 DEF AtPlace, NoCursor, Unset
<1>8. ASSUME NEW c \in Place, NEW d, NEW p, AtRequest(c, d, p) PROVE AtRequest(c, d, p)'
  <2>1. c.after \in Nat BY DEF Place
  <2> QED BY <1>2, <1>4, <1>8, <2>1 DEF AtRequest, NoCursor, Unset
<1> QED BY <1>3, <1>4, <1>5, <1>6, <1>7, <1>8

\* The cursors, the proofs and the foreground stand still.
Stands == UNCHANGED <<normal, complete, rx, scans, epoch, clean, arriving>>
Silent == \A i \in 1 .. Len(events) : Unclosed(i)' => Unclosed(i)
Held ==
    /\ turn' \in Holder /\ fair' \in Place /\ fair'.through <= Len(events)
    /\ turn'.epoch <= epoch /\ turn'.cycle <= epoch /\ turn'.lease <= epoch

LEMMA WorldStands ==
    ASSUME World, Framed, Stands, Silent, Held PROVE World'
<1>1. /\ RecordsInv /\ ExistInv /\ CursorsInv /\ EpochInv /\ CleanInv /\ NormalInv /\ RxInv
      /\ RecordsInv' /\ ExistInv'
  BY DEF World, Framed
<1>2. CursorsInv'
  <2>1. /\ normal' \in NormalCycle' /\ rx' \in RxCycle'
        /\ normal'.epoch = Unset => normal'.cursor = NoCursor'
    BY <1>1 DEF CursorsInv, Stands, NormalCycle, RxCycle, Place, NoCursor, Unset
  <2>2. turn' \in Holder'
    BY DEF Held, Holder, Answer, Place, Item, Point, Key, Mandatory, Reextraction, OptionalKey,
       RunState, Code, Failure, NoFailure, WayOut, By
  <2>3. fair' \in Place' BY DEF Held, Place
  <2>4. /\ scans' \in BOOLEAN /\ arriving' \in BOOLEAN
        /\ normal'.cursor.through <= Len(events') /\ fair'.through <= Len(events')
    BY <1>1 DEF CursorsInv, Stands, Held, Framed
  <2> QED BY <2>1, <2>2, <2>3, <2>4 DEF CursorsInv, Unset
<1>3. EpochInv' BY <1>1 DEF EpochInv, Stands, Held
<1>4. CleanInv'
  <2>1. DOMAIN events' = 1 .. Len(events') BY <1>1 DEF RecordsInv
  <2>2. DOMAIN events = 1 .. Len(events) BY <1>1, Lengths
  <2> QED BY <1>1, <2>1, <2>2 DEF CleanInv, Stands, Silent, Framed
<1>5. NormalInv'
  <2>1. normal.cursor \in Place BY <1>1 DEF CursorsInv, NormalCycle
  <2> QED BY <1>1, <2>1, FrameCovers DEF NormalInv, Stands
<1>6. RxInv'
  <2>1. rx.cursor \in Place BY <1>1 DEF CursorsInv, RxCycle
  <2> QED BY <1>1, <2>1, FrameCovers DEF RxInv, Stands
<1> QED BY <1>1, <1>2, <1>3, <1>4, <1>5, <1>6 DEF World

LEMMA Unproved ==
    ASSUME RecordsInv, Framed, Stands, Proved PROVE Proved'
<1>1. (AllCovered => AllCovered') /\ (AllEnded => AllEnded') BY FrameCovers
<1> QED BY <1>1 DEF Proved, Stands

\* On to a point outside of the queue and of the work.
LEMMA TurnFree ==
    ASSUME SweepInv, Framed, Stands,
           turn'.at \in {"idle", "scan", "fairDiscover", "fairUpdate"}, turn'.by # "reextract",
           turn'.at \in {"fairDiscover", "fairUpdate"} => AnswerInv' /\ CeilingInv',
           turn.at # "queue", turn.at = "normalUpdate" => complete # epoch
    PROVE  Turn'
<1>1. RecordsInv /\ NormalTurn /\ CompleteInv /\ OptionalInv BY DEF SweepInv, World, Turn
<1>2. NormalAnswer' /\ RxAnswer' /\ RxTurn' /\ QueueTurn'
  BY DEF NormalAnswer, RxAnswer, RxTurn, QueueTurn, NormalPoint, RxPoint
<1>3. NormalTurn' BY <1>1 DEF NormalTurn, NormalPoint, RxPoint, Stands, Unset
<1>4. CompleteInv' BY <1>1, FrameCovers DEF CompleteInv, Stands
<1>5. AnswerInv' /\ CeilingInv' BY DEF AnswerInv, CeilingInv
<1>6. WorkInv' BY DEF WorkInv, WorkPoint
<1>7. OptionalInv' BY <1>1, Unproved DEF OptionalInv, OptionalPoint, WorkPoint, Stands, Unset
<1> QED BY <1>2, <1>3, <1>4, <1>5, <1>6, <1>7 DEF Turn

\* On with an item of mandatory work.
LEMMA TurnWorks ==
    ASSUME SweepInv, Framed, Stands,
           turn'.at \in WorkPoint, turn'.work.key[1] # "optional", WorkInv',
           turn.at # "queue", turn.at = "normalUpdate" => complete # epoch
    PROVE  Turn'
<1>1. RecordsInv /\ NormalTurn /\ CompleteInv /\ OptionalInv BY DEF SweepInv, World, Turn
<1>2. NormalAnswer' /\ RxAnswer' /\ RxTurn' /\ QueueTurn'
  BY DEF NormalAnswer, RxAnswer, RxTurn, QueueTurn, NormalPoint, RxPoint, WorkPoint
<1>3. NormalTurn' BY <1>1 DEF NormalTurn, NormalPoint, RxPoint, Stands, Unset, WorkPoint
<1>4. CompleteInv' BY <1>1, FrameCovers DEF CompleteInv, Stands
<1>5. AnswerInv' /\ CeilingInv' BY DEF AnswerInv, CeilingInv, WorkPoint
<1>6. OptionalInv' BY <1>1, Unproved DEF OptionalInv, OptionalPoint, WorkPoint, Stands, Unset
<1> QED BY <1>2, <1>3, <1>4, <1>5, <1>6 DEF Turn

\* On with optional work, whose proofs stand.
LEMMA TurnOptional ==
    ASSUME SweepInv, Framed, Stands, OptionalPoint', ~turn'.fair, WorkInv',
           normal.epoch = Unset, Proved,
           turn'.at = "call" /\ epoch = turn'.lease => clean = epoch,
           turn.at # "queue", turn.at = "normalUpdate" => complete # epoch
    PROVE  Turn'
<1>1. RecordsInv /\ NormalTurn /\ CompleteInv /\ OptionalInv BY DEF SweepInv, World, Turn
<1>2. NormalAnswer' /\ RxAnswer' /\ RxTurn' /\ QueueTurn'
  BY DEF NormalAnswer, RxAnswer, RxTurn, QueueTurn, NormalPoint, RxPoint, OptionalPoint, WorkPoint
<1>3. NormalTurn' BY <1>1 DEF NormalTurn, NormalPoint, RxPoint, Stands, Unset, OptionalPoint, WorkPoint
<1>4. CompleteInv' BY <1>1, FrameCovers DEF CompleteInv, Stands
<1>5. AnswerInv' /\ CeilingInv' BY DEF AnswerInv, CeilingInv, OptionalPoint, WorkPoint
<1>6. OptionalInv' BY <1>1, Unproved DEF OptionalInv, Stands, Unset
<1> QED BY <1>2, <1>3, <1>4, <1>5, <1>6 DEF Turn

\* The holder stays where it is.
LEMMA TurnRests ==
    ASSUME SweepInv, Framed, Stands, UNCHANGED turn PROVE Turn'
<1>1. /\ RecordsInv /\ CursorsInv /\ NormalAnswer /\ NormalTurn /\ CompleteInv /\ RxAnswer /\ RxTurn
      /\ CeilingInv /\ QueueTurn /\ AnswerInv /\ WorkInv /\ OptionalInv
  BY DEF SweepInv, World, Turn
<1>2. turn.result.next \in Place BY <1>1 DEF CursorsInv, Holder, Answer
<1>3. NormalAnswer' BY <1>1, <1>2, FrameCovers DEF NormalAnswer, Stands, NoWork
<1>4. RxAnswer' BY <1>1, <1>2, FrameCovers DEF RxAnswer, Stands, NoWork
<1>5. NormalTurn' /\ RxTurn'
  BY <1>1 DEF NormalTurn, RxTurn, NormalPoint, RxPoint, Stands, Unset, NoCursor
<1>6. CompleteInv' /\ QueueTurn'
  BY <1>1, FrameCovers DEF CompleteInv, QueueTurn, Stands, NormalPoint, RxPoint
<1>7. \A key \in Key : Exists(key) => Exists(key)' BY DEF Framed, Keeps
<1>8. AnswerInv'
  <2>1. ASSUME NEW w, Obligation(w) PROVE Obligation(w)'
    BY <1>7, <2>1 DEF Obligation, IsMemory, Key, Mandatory, Reextraction, OptionalKey
  <2> QED BY <1>1, <2>1 DEF AnswerInv, NoWork, NoCursor, Unset
<1>9. WorkInv'
  BY <1>1, <1>7 DEF WorkInv, Stands, Framed, WorkPoint, Reextraction, Key, Mandatory, OptionalKey,
     NoCursor, Unset
<1>10. OptionalInv'
  BY <1>1, Unproved DEF OptionalInv, OptionalPoint, WorkPoint, Stands, Unset
<1>11. CeilingInv' BY <1>1 DEF CeilingInv, Framed
<1> QED BY <1>3, <1>4, <1>5, <1>6, <1>8, <1>9, <1>10, <1>11 DEF Turn

-----------------------------------------------------------------------------
(* Records that change under a frame.                                      *)

LEMMA DurableRuns ==
    ASSUME RecordsInv, ExistInv, UNCHANGED <<events, requests, uncovered>>, RunType', Keeps
    PROVE  Framed /\ Silent
<1>1. RecordsInv' BY DEF RecordsInv, Event
<1>2. ExistInv'
  BY Lengths DEF ExistInv, Keeps, Mandatory, Reextraction
<1> QED BY <1>1, <1>2 DEF Framed, Silent, Unclosed

LEMMA DurableRests ==
    ASSUME RecordsInv, ExistInv, UNCHANGED <<events, requests, run, uncovered>>
    PROVE  Framed /\ Silent
<1>1. RunType' /\ Keeps BY RunRests DEF RecordsInv
<1> QED BY <1>1, DurableRuns

\* A dialogue goes on.
LEMMA DurableTalks ==
    ASSUME RecordsInv, ExistInv, UNCHANGED <<requests, run, uncovered>>,
           NEW i \in DOMAIN events, NEW state \in {"prepared", "closed"}, Unclosed(i),
           Dialogue(i, state)
    PROVE  Framed /\ Silent
<1>1. RunType' /\ Keeps BY RunRests DEF RecordsInv
<1>2. events' = [events EXCEPT ![i].dialogue = state] BY DEF Dialogue
<1>3. events \in Seq(Event) /\ i \in 1 .. Len(events) /\ DOMAIN events = 1 .. Len(events)
  BY Lengths DEF RecordsInv
<1>4. events[i] \in Event BY <1>3
<1>5. PICK e : e = [events[i] EXCEPT !.dialogue = state] OBVIOUS
<1>6. e \in Event BY <1>4, <1>5 DEF Event
<1>7. events' = [events EXCEPT ![i] = e] BY <1>2, <1>5
<1>8. events' \in Seq(Event) /\ Len(events') = Len(events) BY <1>3, <1>6, <1>7
<1>9. \A j \in 1 .. Len(events) : j # i => events'[j] = events[j] BY <1>3, <1>7
<1>10. RecordsInv' BY <1>1, <1>8 DEF RecordsInv, Event
<1>11. ExistInv'
  <2>1. DOMAIN events' = 1 .. Len(events) BY <1>3, <1>7
  <2> QED BY <1>3, <2>1 DEF ExistInv, Exists, Mandatory, Reextraction
<1>12. Silent BY <1>9 DEF Silent, Unclosed
<1> QED BY <1>1, <1>8, <1>10, <1>11, <1>12 DEF Framed

LEMMA IdleHolds ==
    /\ Idle \in Holder /\ NoCursor \in Place /\ NoCursor.after = 0 /\ NoCursor.through = Unset
    /\ NoWork \in Item /\ NoResult \in Answer
    /\ Idle.at = "idle" /\ Idle.by = "turn" /\ Idle.epoch = 0 /\ Idle.cycle = 0 /\ Idle.lease = 0
  BY DEF Idle, Holder, Answer, NoCursor, NoResult, NoWork, Place, Item, Point, Unset, RunState, Code,
     Failure, NoFailure, WayOut, By

LEMMA HolderParts ==
    ASSUME NEW h \in Holder
    PROVE  /\ h = [at |-> h.at, by |-> h.by, epoch |-> h.epoch, cycle |-> h.cycle,
                   cursor |-> h.cursor, result |-> h.result, work |-> h.work,
                   through |-> h.through, pass |-> h.pass, fair |-> h.fair, lease |-> h.lease,
                   failure |-> h.failure, exit |-> h.exit]
           /\ h.at \in Point /\ h.by \in By /\ h.epoch \in Nat /\ h.cycle \in Nat
           /\ h.cursor \in Place /\ h.result \in Answer
           /\ h.work \in Item /\ h.through \in Nat /\ h.pass \in Nat /\ h.fair \in BOOLEAN
           /\ h.lease \in Nat /\ h.failure \in Failure /\ h.exit \in WayOut
  BY DEF Holder

\* How a step changes the record of the holder.
LEMMA Moved ==
    ASSUME turn \in Holder, NEW a \in Point,
           turn' = [turn EXCEPT !.at = a]
    PROVE  /\ turn' \in Holder /\ turn'.at = a /\ turn'.by = turn.by /\ turn'.epoch = turn.epoch
           /\ turn'.cycle = turn.cycle /\ turn'.cursor = turn.cursor
           /\ turn'.result = turn.result /\ turn'.work = turn.work
           /\ turn'.through = turn.through /\ turn'.pass = turn.pass /\ turn'.fair = turn.fair
           /\ turn'.lease = turn.lease /\ turn'.failure = turn.failure /\ turn'.exit = turn.exit
<1>1. turn = [at |-> turn.at, by |-> turn.by, epoch |-> turn.epoch, cycle |-> turn.cycle,
              cursor |-> turn.cursor, result |-> turn.result, work |-> turn.work,
              through |-> turn.through, pass |-> turn.pass, fair |-> turn.fair,
              lease |-> turn.lease, failure |-> turn.failure, exit |-> turn.exit]
  BY HolderParts
<1>2. turn' = [at |-> a, by |-> turn.by, epoch |-> turn.epoch, cycle |-> turn.cycle,
               cursor |-> turn.cursor, result |-> turn.result, work |-> turn.work,
               through |-> turn.through, pass |-> turn.pass, fair |-> turn.fair,
               lease |-> turn.lease, failure |-> turn.failure, exit |-> turn.exit]
  BY <1>1
<1>3. /\ turn.by \in By /\ turn.epoch \in Nat /\ turn.cycle \in Nat /\ turn.cursor \in Place
      /\ turn.result \in Answer /\ turn.work \in Item /\ turn.through \in Nat
      /\ turn.pass \in Nat /\ turn.fair \in BOOLEAN /\ turn.lease \in Nat
      /\ turn.failure \in Failure /\ turn.exit \in WayOut
  BY HolderParts
<1> QED BY <1>2, <1>3 DEF Holder

LEMMA MovedBy ==
    ASSUME turn \in Holder, NEW a \in Point, NEW b \in By,
           turn' = [turn EXCEPT !.at = a, !.by = b]
    PROVE  /\ turn' \in Holder /\ turn'.at = a /\ turn'.by = b /\ turn'.epoch = turn.epoch
           /\ turn'.cycle = turn.cycle /\ turn'.cursor = turn.cursor
           /\ turn'.result = turn.result /\ turn'.work = turn.work
           /\ turn'.through = turn.through /\ turn'.pass = turn.pass /\ turn'.fair = turn.fair
           /\ turn'.lease = turn.lease /\ turn'.failure = turn.failure /\ turn'.exit = turn.exit
<1>1. turn = [at |-> turn.at, by |-> turn.by, epoch |-> turn.epoch, cycle |-> turn.cycle,
              cursor |-> turn.cursor, result |-> turn.result, work |-> turn.work,
              through |-> turn.through, pass |-> turn.pass, fair |-> turn.fair,
              lease |-> turn.lease, failure |-> turn.failure, exit |-> turn.exit]
  BY HolderParts
<1>2. turn' = [at |-> a, by |-> b, epoch |-> turn.epoch, cycle |-> turn.cycle,
               cursor |-> turn.cursor, result |-> turn.result, work |-> turn.work,
               through |-> turn.through, pass |-> turn.pass, fair |-> turn.fair,
               lease |-> turn.lease, failure |-> turn.failure, exit |-> turn.exit]
  BY <1>1
<1>3. /\ turn.epoch \in Nat /\ turn.cycle \in Nat /\ turn.cursor \in Place
      /\ turn.result \in Answer /\ turn.work \in Item /\ turn.through \in Nat
      /\ turn.pass \in Nat /\ turn.fair \in BOOLEAN /\ turn.lease \in Nat
      /\ turn.failure \in Failure /\ turn.exit \in WayOut
  BY HolderParts
<1> QED BY <1>2, <1>3 DEF Holder

LEMMA MovedWork ==
    ASSUME turn \in Holder, NEW a \in Point, NEW w \in Item,
           turn' = [turn EXCEPT !.at = a, !.work = w]
    PROVE  /\ turn' \in Holder /\ turn'.at = a /\ turn'.by = turn.by /\ turn'.epoch = turn.epoch
           /\ turn'.cycle = turn.cycle /\ turn'.cursor = turn.cursor
           /\ turn'.result = turn.result /\ turn'.work = w /\ turn'.through = turn.through
           /\ turn'.pass = turn.pass /\ turn'.fair = turn.fair /\ turn'.lease = turn.lease
           /\ turn'.failure = turn.failure /\ turn'.exit = turn.exit
<1>1. turn = [at |-> turn.at, by |-> turn.by, epoch |-> turn.epoch, cycle |-> turn.cycle,
              cursor |-> turn.cursor, result |-> turn.result, work |-> turn.work,
              through |-> turn.through, pass |-> turn.pass, fair |-> turn.fair,
              lease |-> turn.lease, failure |-> turn.failure, exit |-> turn.exit]
  BY HolderParts
<1>2. turn' = [at |-> a, by |-> turn.by, epoch |-> turn.epoch, cycle |-> turn.cycle,
               cursor |-> turn.cursor, result |-> turn.result, work |-> w,
               through |-> turn.through, pass |-> turn.pass, fair |-> turn.fair,
               lease |-> turn.lease, failure |-> turn.failure, exit |-> turn.exit]
  BY <1>1
<1>3. /\ turn.by \in By /\ turn.epoch \in Nat /\ turn.cycle \in Nat /\ turn.cursor \in Place
      /\ turn.result \in Answer /\ turn.through \in Nat /\ turn.pass \in Nat
      /\ turn.fair \in BOOLEAN /\ turn.lease \in Nat /\ turn.failure \in Failure
      /\ turn.exit \in WayOut
  BY HolderParts
<1> QED BY <1>2, <1>3 DEF Holder

LEMMA MovedByWork ==
    ASSUME turn \in Holder, NEW a \in Point, NEW b \in By, NEW w \in Item,
           turn' = [turn EXCEPT !.at = a, !.by = b, !.work = w]
    PROVE  /\ turn' \in Holder /\ turn'.at = a /\ turn'.by = b /\ turn'.epoch = turn.epoch
           /\ turn'.cycle = turn.cycle /\ turn'.cursor = turn.cursor
           /\ turn'.result = turn.result /\ turn'.work = w /\ turn'.through = turn.through
           /\ turn'.pass = turn.pass /\ turn'.fair = turn.fair /\ turn'.lease = turn.lease
           /\ turn'.failure = turn.failure /\ turn'.exit = turn.exit
<1>1. turn = [at |-> turn.at, by |-> turn.by, epoch |-> turn.epoch, cycle |-> turn.cycle,
              cursor |-> turn.cursor, result |-> turn.result, work |-> turn.work,
              through |-> turn.through, pass |-> turn.pass, fair |-> turn.fair,
              lease |-> turn.lease, failure |-> turn.failure, exit |-> turn.exit]
  BY HolderParts
<1>2. turn' = [at |-> a, by |-> b, epoch |-> turn.epoch, cycle |-> turn.cycle,
               cursor |-> turn.cursor, result |-> turn.result, work |-> w,
               through |-> turn.through, pass |-> turn.pass, fair |-> turn.fair,
               lease |-> turn.lease, failure |-> turn.failure, exit |-> turn.exit]
  BY <1>1
<1>3. /\ turn.epoch \in Nat /\ turn.cycle \in Nat /\ turn.cursor \in Place
      /\ turn.result \in Answer /\ turn.through \in Nat /\ turn.pass \in Nat
      /\ turn.fair \in BOOLEAN /\ turn.lease \in Nat /\ turn.failure \in Failure
      /\ turn.exit \in WayOut
  BY HolderParts
<1> QED BY <1>2, <1>3 DEF Holder

LEMMA MovedResult ==
    ASSUME turn \in Holder, NEW a \in Point, NEW r \in Answer,
           turn' = [turn EXCEPT !.at = a, !.result = r]
    PROVE  /\ turn' \in Holder /\ turn'.at = a /\ turn'.by = turn.by /\ turn'.epoch = turn.epoch
           /\ turn'.cycle = turn.cycle /\ turn'.cursor = turn.cursor /\ turn'.result = r
           /\ turn'.work = turn.work /\ turn'.through = turn.through /\ turn'.pass = turn.pass
           /\ turn'.fair = turn.fair /\ turn'.lease = turn.lease /\ turn'.failure = turn.failure
           /\ turn'.exit = turn.exit
<1>1. turn = [at |-> turn.at, by |-> turn.by, epoch |-> turn.epoch, cycle |-> turn.cycle,
              cursor |-> turn.cursor, result |-> turn.result, work |-> turn.work,
              through |-> turn.through, pass |-> turn.pass, fair |-> turn.fair,
              lease |-> turn.lease, failure |-> turn.failure, exit |-> turn.exit]
  BY HolderParts
<1>2. turn' = [at |-> a, by |-> turn.by, epoch |-> turn.epoch, cycle |-> turn.cycle,
               cursor |-> turn.cursor, result |-> r, work |-> turn.work,
               through |-> turn.through, pass |-> turn.pass, fair |-> turn.fair,
               lease |-> turn.lease, failure |-> turn.failure, exit |-> turn.exit]
  BY <1>1
<1>3. /\ turn.by \in By /\ turn.epoch \in Nat /\ turn.cycle \in Nat /\ turn.cursor \in Place
      /\ turn.work \in Item /\ turn.through \in Nat /\ turn.pass \in Nat
      /\ turn.fair \in BOOLEAN /\ turn.lease \in Nat /\ turn.failure \in Failure
      /\ turn.exit \in WayOut
  BY HolderParts
<1> QED BY <1>2, <1>3 DEF Holder

CycleTurn(a, c, cur) == [turn EXCEPT !.at = a, !.cycle = c, !.cursor = cur]

LEMMA MovedCycle ==
    ASSUME turn \in Holder, NEW a \in Point, NEW c \in Nat, NEW cur \in Place,
           turn' = CycleTurn(a, c, cur)
    PROVE  /\ turn' \in Holder /\ turn'.at = a /\ turn'.by = turn.by /\ turn'.epoch = turn.epoch
           /\ turn'.cycle = c /\ turn'.cursor = cur /\ turn'.result = turn.result
           /\ turn'.work = turn.work /\ turn'.through = turn.through /\ turn'.pass = turn.pass
           /\ turn'.fair = turn.fair /\ turn'.lease = turn.lease /\ turn'.failure = turn.failure
           /\ turn'.exit = turn.exit
<1>1. turn = [at |-> turn.at, by |-> turn.by, epoch |-> turn.epoch, cycle |-> turn.cycle,
              cursor |-> turn.cursor, result |-> turn.result, work |-> turn.work,
              through |-> turn.through, pass |-> turn.pass, fair |-> turn.fair,
              lease |-> turn.lease, failure |-> turn.failure, exit |-> turn.exit]
  BY HolderParts
<1>2. turn' = [at |-> a, by |-> turn.by, epoch |-> turn.epoch, cycle |-> c, cursor |-> cur,
               result |-> turn.result, work |-> turn.work, through |-> turn.through,
               pass |-> turn.pass, fair |-> turn.fair, lease |-> turn.lease,
               failure |-> turn.failure, exit |-> turn.exit]
  BY <1>1 DEF CycleTurn
<1>3. /\ turn.by \in By /\ turn.epoch \in Nat /\ turn.result \in Answer /\ turn.work \in Item
      /\ turn.through \in Nat /\ turn.pass \in Nat /\ turn.fair \in BOOLEAN
      /\ turn.lease \in Nat /\ turn.failure \in Failure /\ turn.exit \in WayOut
  BY HolderParts
<1> QED BY <1>2, <1>3 DEF Holder

LEMMA MovedLease ==
    ASSUME turn \in Holder, NEW a \in Point, NEW l \in Nat,
           turn' = [turn EXCEPT !.at = a, !.lease = l]
    PROVE  /\ turn' \in Holder /\ turn'.at = a /\ turn'.by = turn.by /\ turn'.epoch = turn.epoch
           /\ turn'.cycle = turn.cycle /\ turn'.cursor = turn.cursor
           /\ turn'.result = turn.result /\ turn'.work = turn.work
           /\ turn'.through = turn.through /\ turn'.pass = turn.pass /\ turn'.fair = turn.fair
           /\ turn'.lease = l /\ turn'.failure = turn.failure /\ turn'.exit = turn.exit
<1>1. turn = [at |-> turn.at, by |-> turn.by, epoch |-> turn.epoch, cycle |-> turn.cycle,
              cursor |-> turn.cursor, result |-> turn.result, work |-> turn.work,
              through |-> turn.through, pass |-> turn.pass, fair |-> turn.fair,
              lease |-> turn.lease, failure |-> turn.failure, exit |-> turn.exit]
  BY HolderParts
<1>2. turn' = [at |-> a, by |-> turn.by, epoch |-> turn.epoch, cycle |-> turn.cycle,
               cursor |-> turn.cursor, result |-> turn.result, work |-> turn.work,
               through |-> turn.through, pass |-> turn.pass, fair |-> turn.fair, lease |-> l,
               failure |-> turn.failure, exit |-> turn.exit]
  BY <1>1
<1>3. /\ turn.by \in By /\ turn.epoch \in Nat /\ turn.cycle \in Nat /\ turn.cursor \in Place
      /\ turn.result \in Answer /\ turn.work \in Item /\ turn.through \in Nat
      /\ turn.pass \in Nat /\ turn.fair \in BOOLEAN /\ turn.failure \in Failure
      /\ turn.exit \in WayOut
  BY HolderParts
<1> QED BY <1>2, <1>3 DEF Holder

LEMMA MovedFailure ==
    ASSUME turn \in Holder, NEW a \in Point, NEW x \in Failure, NEW o \in WayOut,
           turn' = [turn EXCEPT !.at = a, !.failure = x, !.exit = o]
    PROVE  /\ turn' \in Holder /\ turn'.at = a /\ turn'.by = turn.by /\ turn'.epoch = turn.epoch
           /\ turn'.cycle = turn.cycle /\ turn'.cursor = turn.cursor
           /\ turn'.result = turn.result /\ turn'.work = turn.work
           /\ turn'.through = turn.through /\ turn'.pass = turn.pass /\ turn'.fair = turn.fair
           /\ turn'.lease = turn.lease /\ turn'.failure = x /\ turn'.exit = o
<1>1. turn = [at |-> turn.at, by |-> turn.by, epoch |-> turn.epoch, cycle |-> turn.cycle,
              cursor |-> turn.cursor, result |-> turn.result, work |-> turn.work,
              through |-> turn.through, pass |-> turn.pass, fair |-> turn.fair,
              lease |-> turn.lease, failure |-> turn.failure, exit |-> turn.exit]
  BY HolderParts
<1>2. turn' = [at |-> a, by |-> turn.by, epoch |-> turn.epoch, cycle |-> turn.cycle,
               cursor |-> turn.cursor, result |-> turn.result, work |-> turn.work,
               through |-> turn.through, pass |-> turn.pass, fair |-> turn.fair,
               lease |-> turn.lease, failure |-> x, exit |-> o]
  BY <1>1
<1>3. /\ turn.by \in By /\ turn.epoch \in Nat /\ turn.cycle \in Nat /\ turn.cursor \in Place
      /\ turn.result \in Answer /\ turn.work \in Item /\ turn.through \in Nat
      /\ turn.pass \in Nat /\ turn.fair \in BOOLEAN /\ turn.lease \in Nat
  BY HolderParts
<1> QED BY <1>2, <1>3 DEF Holder

LEMMA MovedFair ==
    ASSUME turn \in Holder, NEW n \in Nat, epoch \in Nat, fair \in Place,
           turn' = [turn EXCEPT !.at = "fairDiscover", !.epoch = epoch, !.cursor = fair, !.through = n, !.pass = 0, !.fair = TRUE]
    PROVE  /\ turn' \in Holder /\ turn'.at = "fairDiscover" /\ turn'.by = turn.by
           /\ turn'.epoch = epoch /\ turn'.cycle = turn.cycle /\ turn'.cursor = fair
           /\ turn'.result = turn.result /\ turn'.work = turn.work /\ turn'.through = n
           /\ turn'.pass = 0 /\ turn'.fair = TRUE /\ turn'.lease = turn.lease
           /\ turn'.failure = turn.failure /\ turn'.exit = turn.exit
<1>1. turn = [at |-> turn.at, by |-> turn.by, epoch |-> turn.epoch, cycle |-> turn.cycle,
              cursor |-> turn.cursor, result |-> turn.result, work |-> turn.work,
              through |-> turn.through, pass |-> turn.pass, fair |-> turn.fair,
              lease |-> turn.lease, failure |-> turn.failure, exit |-> turn.exit]
  BY HolderParts
<1>2. PICK h : h = [at |-> "fairDiscover", by |-> turn.by, epoch |-> epoch, cycle |-> turn.cycle,
                    cursor |-> fair, result |-> turn.result, work |-> turn.work, through |-> n,
                    pass |-> 0, fair |-> TRUE, lease |-> turn.lease, failure |-> turn.failure,
                    exit |-> turn.exit]
  OBVIOUS
<1>3. /\ turn.by \in By /\ turn.cycle \in Nat /\ turn.result \in Answer /\ turn.work \in Item
      /\ turn.lease \in Nat /\ turn.failure \in Failure /\ turn.exit \in WayOut
      /\ "fairDiscover" \in Point /\ epoch \in Nat /\ fair \in Place /\ 0 \in Nat
      /\ TRUE \in BOOLEAN
  BY HolderParts DEF Point
<1>4. h \in Holder BY <1>2, <1>3 DEF Holder
<1>5. turn' = [at |-> "fairDiscover", by |-> turn.by, epoch |-> epoch, cycle |-> turn.cycle,
               cursor |-> fair, result |-> turn.result, work |-> turn.work, through |-> n,
               pass |-> 0, fair |-> TRUE, lease |-> turn.lease, failure |-> turn.failure,
               exit |-> turn.exit]
  BY <1>1
<1>6. turn' = h BY <1>2, <1>5
<1> QED BY <1>2, <1>4, <1>6

LEMMA MovedAgain ==
    ASSUME turn \in Holder, NEW a \in Point,
           turn' = [turn EXCEPT !.at = a, !.pass = 1, !.cursor = NoCursor]
    PROVE  /\ turn' \in Holder /\ turn'.at = a /\ turn'.by = turn.by /\ turn'.epoch = turn.epoch
           /\ turn'.cycle = turn.cycle /\ turn'.cursor = NoCursor /\ turn'.result = turn.result
           /\ turn'.work = turn.work /\ turn'.through = turn.through /\ turn'.pass = 1
           /\ turn'.fair = turn.fair /\ turn'.lease = turn.lease /\ turn'.failure = turn.failure
           /\ turn'.exit = turn.exit
<1>1. turn = [at |-> turn.at, by |-> turn.by, epoch |-> turn.epoch, cycle |-> turn.cycle,
              cursor |-> turn.cursor, result |-> turn.result, work |-> turn.work,
              through |-> turn.through, pass |-> turn.pass, fair |-> turn.fair,
              lease |-> turn.lease, failure |-> turn.failure, exit |-> turn.exit]
  BY HolderParts
<1>2. turn' = [at |-> a, by |-> turn.by, epoch |-> turn.epoch, cycle |-> turn.cycle,
               cursor |-> NoCursor, result |-> turn.result, work |-> turn.work,
               through |-> turn.through, pass |-> 1, fair |-> turn.fair, lease |-> turn.lease,
               failure |-> turn.failure, exit |-> turn.exit]
  BY <1>1
<1>3. /\ turn.by \in By /\ turn.epoch \in Nat /\ turn.cycle \in Nat /\ turn.result \in Answer
      /\ turn.work \in Item /\ turn.through \in Nat /\ turn.fair \in BOOLEAN
      /\ turn.lease \in Nat /\ turn.failure \in Failure /\ turn.exit \in WayOut /\ 1 \in Nat
      /\ NoCursor \in Place
  BY HolderParts, IdleHolds
<1> QED BY <1>2, <1>3 DEF Holder

LEMMA FreshScan ==
    ASSUME NEW a \in Point, NEW c \in Nat,
           turn' = [Idle EXCEPT !.at = a, !.cycle = c]
    PROVE  /\ turn' \in Holder /\ turn'.at = a /\ turn'.by = "turn" /\ turn'.epoch = 0
           /\ turn'.cycle = c /\ turn'.cursor = NoCursor /\ turn'.result = NoResult
           /\ turn'.work = NoWork /\ turn'.through = 0 /\ turn'.pass = 0 /\ turn'.fair = FALSE
           /\ turn'.lease = 0 /\ turn'.failure = NoFailure /\ turn'.exit = "idle"
<1>1. PICK h : h = [at |-> a, by |-> "turn", epoch |-> 0, cycle |-> c, cursor |-> NoCursor,
                  result |-> NoResult, work |-> NoWork, through |-> 0, pass |-> 0,
                  fair |-> FALSE, lease |-> 0, failure |-> NoFailure, exit |-> "idle"]
  OBVIOUS
<1>2. /\ "turn" \in By /\ 0 \in Nat /\ NoCursor \in Place /\ NoResult \in Answer
      /\ NoWork \in Item /\ 0 \in Nat /\ 0 \in Nat /\ FALSE \in BOOLEAN /\ 0 \in Nat
      /\ NoFailure \in Failure /\ "idle" \in WayOut
  BY IdleHolds DEF By, Failure, WayOut, NoFailure
<1>3. /\ h \in Holder /\ h.at = a /\ h.by = "turn" /\ h.epoch = 0 /\ h.cycle = c
      /\ h.cursor = NoCursor /\ h.result = NoResult /\ h.work = NoWork /\ h.through = 0
      /\ h.pass = 0 /\ h.fair = FALSE /\ h.lease = 0 /\ h.failure = NoFailure /\ h.exit = "idle"
  BY <1>1, <1>2 DEF Holder
<1>4. turn' = [at |-> a, by |-> "turn", epoch |-> 0, cycle |-> c, cursor |-> NoCursor,
               result |-> NoResult, work |-> NoWork, through |-> 0, pass |-> 0, fair |-> FALSE,
               lease |-> 0, failure |-> NoFailure, exit |-> "idle"]
  BY DEF Idle, NoFailure
<1>5. turn' = h BY <1>1, <1>4
<1> QED BY <1>3, <1>5

LEMMA FreshQueue ==
    ASSUME NEW a \in Point, NEW e \in Nat,
           turn' = [Idle EXCEPT !.at = a, !.epoch = e]
    PROVE  /\ turn' \in Holder /\ turn'.at = a /\ turn'.by = "turn" /\ turn'.epoch = e
           /\ turn'.cycle = 0 /\ turn'.cursor = NoCursor /\ turn'.result = NoResult
           /\ turn'.work = NoWork /\ turn'.through = 0 /\ turn'.pass = 0 /\ turn'.fair = FALSE
           /\ turn'.lease = 0 /\ turn'.failure = NoFailure /\ turn'.exit = "idle"
<1>1. PICK h : h = [at |-> a, by |-> "turn", epoch |-> e, cycle |-> 0, cursor |-> NoCursor,
                  result |-> NoResult, work |-> NoWork, through |-> 0, pass |-> 0,
                  fair |-> FALSE, lease |-> 0, failure |-> NoFailure, exit |-> "idle"]
  OBVIOUS
<1>2. /\ "turn" \in By /\ 0 \in Nat /\ NoCursor \in Place /\ NoResult \in Answer
      /\ NoWork \in Item /\ 0 \in Nat /\ 0 \in Nat /\ FALSE \in BOOLEAN /\ 0 \in Nat
      /\ NoFailure \in Failure /\ "idle" \in WayOut
  BY IdleHolds DEF By, Failure, WayOut, NoFailure
<1>3. /\ h \in Holder /\ h.at = a /\ h.by = "turn" /\ h.epoch = e /\ h.cycle = 0
      /\ h.cursor = NoCursor /\ h.result = NoResult /\ h.work = NoWork /\ h.through = 0
      /\ h.pass = 0 /\ h.fair = FALSE /\ h.lease = 0 /\ h.failure = NoFailure /\ h.exit = "idle"
  BY <1>1, <1>2 DEF Holder
<1>4. turn' = [at |-> a, by |-> "turn", epoch |-> e, cycle |-> 0, cursor |-> NoCursor,
               result |-> NoResult, work |-> NoWork, through |-> 0, pass |-> 0, fair |-> FALSE,
               lease |-> 0, failure |-> NoFailure, exit |-> "idle"]
  BY DEF Idle, NoFailure
<1>5. turn' = h BY <1>1, <1>4
<1> QED BY <1>3, <1>5

LEMMA FreshWork ==
    ASSUME NEW a \in Point, NEW w \in Item,
           turn' = [Idle EXCEPT !.at = a, !.work = w]
    PROVE  /\ turn' \in Holder /\ turn'.at = a /\ turn'.by = "turn" /\ turn'.epoch = 0
           /\ turn'.cycle = 0 /\ turn'.cursor = NoCursor /\ turn'.result = NoResult
           /\ turn'.work = w /\ turn'.through = 0 /\ turn'.pass = 0 /\ turn'.fair = FALSE
           /\ turn'.lease = 0 /\ turn'.failure = NoFailure /\ turn'.exit = "idle"
<1>1. PICK h : h = [at |-> a, by |-> "turn", epoch |-> 0, cycle |-> 0, cursor |-> NoCursor,
                  result |-> NoResult, work |-> w, through |-> 0, pass |-> 0, fair |-> FALSE,
                  lease |-> 0, failure |-> NoFailure, exit |-> "idle"]
  OBVIOUS
<1>2. /\ "turn" \in By /\ 0 \in Nat /\ 0 \in Nat /\ NoCursor \in Place /\ NoResult \in Answer
      /\ 0 \in Nat /\ 0 \in Nat /\ FALSE \in BOOLEAN /\ 0 \in Nat /\ NoFailure \in Failure
      /\ "idle" \in WayOut
  BY IdleHolds DEF By, Failure, WayOut, NoFailure
<1>3. /\ h \in Holder /\ h.at = a /\ h.by = "turn" /\ h.epoch = 0 /\ h.cycle = 0
      /\ h.cursor = NoCursor /\ h.result = NoResult /\ h.work = w /\ h.through = 0 /\ h.pass = 0
      /\ h.fair = FALSE /\ h.lease = 0 /\ h.failure = NoFailure /\ h.exit = "idle"
  BY <1>1, <1>2 DEF Holder
<1>4. turn' = [at |-> a, by |-> "turn", epoch |-> 0, cycle |-> 0, cursor |-> NoCursor,
               result |-> NoResult, work |-> w, through |-> 0, pass |-> 0, fair |-> FALSE,
               lease |-> 0, failure |-> NoFailure, exit |-> "idle"]
  BY DEF Idle, NoFailure
<1>5. turn' = h BY <1>1, <1>4
<1> QED BY <1>3, <1>5

FairTurn(a, w, q, l) == [Idle EXCEPT !.at = a, !.work = w, !.fair = q, !.lease = l]

LEMMA FreshFair ==
    ASSUME NEW a \in Point, NEW w \in Item, NEW q \in BOOLEAN, NEW l \in Nat,
           turn' = FairTurn(a, w, q, l)
    PROVE  /\ turn' \in Holder /\ turn'.at = a /\ turn'.by = "turn" /\ turn'.epoch = 0
           /\ turn'.cycle = 0 /\ turn'.cursor = NoCursor /\ turn'.result = NoResult
           /\ turn'.work = w /\ turn'.through = 0 /\ turn'.pass = 0 /\ turn'.fair = q
           /\ turn'.lease = l /\ turn'.failure = NoFailure /\ turn'.exit = "idle"
<1>1. PICK h : h = [at |-> a, by |-> "turn", epoch |-> 0, cycle |-> 0, cursor |-> NoCursor,
                  result |-> NoResult, work |-> w, through |-> 0, pass |-> 0, fair |-> q,
                  lease |-> l, failure |-> NoFailure, exit |-> "idle"]
  OBVIOUS
<1>2. /\ "turn" \in By /\ 0 \in Nat /\ 0 \in Nat /\ NoCursor \in Place /\ NoResult \in Answer
      /\ 0 \in Nat /\ 0 \in Nat /\ NoFailure \in Failure /\ "idle" \in WayOut
  BY IdleHolds DEF By, Failure, WayOut, NoFailure
<1>3. /\ h \in Holder /\ h.at = a /\ h.by = "turn" /\ h.epoch = 0 /\ h.cycle = 0
      /\ h.cursor = NoCursor /\ h.result = NoResult /\ h.work = w /\ h.through = 0 /\ h.pass = 0
      /\ h.fair = q /\ h.lease = l /\ h.failure = NoFailure /\ h.exit = "idle"
  BY <1>1, <1>2 DEF Holder
<1>4. turn' = [at |-> a, by |-> "turn", epoch |-> 0, cycle |-> 0, cursor |-> NoCursor,
               result |-> NoResult, work |-> w, through |-> 0, pass |-> 0, fair |-> q,
               lease |-> l, failure |-> NoFailure, exit |-> "idle"]
  BY DEF FairTurn, Idle, NoFailure
<1>5. turn' = h BY <1>1, <1>4
<1> QED BY <1>3, <1>5

LEMMA FreshBy ==
    ASSUME NEW a \in Point, NEW b \in By,
           turn' = [Idle EXCEPT !.at = a, !.by = b]
    PROVE  /\ turn' \in Holder /\ turn'.at = a /\ turn'.by = b /\ turn'.epoch = 0
           /\ turn'.cycle = 0 /\ turn'.cursor = NoCursor /\ turn'.result = NoResult
           /\ turn'.work = NoWork /\ turn'.through = 0 /\ turn'.pass = 0 /\ turn'.fair = FALSE
           /\ turn'.lease = 0 /\ turn'.failure = NoFailure /\ turn'.exit = "idle"
<1>1. PICK h : h = [at |-> a, by |-> b, epoch |-> 0, cycle |-> 0, cursor |-> NoCursor,
                  result |-> NoResult, work |-> NoWork, through |-> 0, pass |-> 0,
                  fair |-> FALSE, lease |-> 0, failure |-> NoFailure, exit |-> "idle"]
  OBVIOUS
<1>2. /\ 0 \in Nat /\ 0 \in Nat /\ NoCursor \in Place /\ NoResult \in Answer /\ NoWork \in Item
      /\ 0 \in Nat /\ 0 \in Nat /\ FALSE \in BOOLEAN /\ 0 \in Nat /\ NoFailure \in Failure
      /\ "idle" \in WayOut
  BY IdleHolds DEF By, Failure, WayOut, NoFailure
<1>3. /\ h \in Holder /\ h.at = a /\ h.by = b /\ h.epoch = 0 /\ h.cycle = 0
      /\ h.cursor = NoCursor /\ h.result = NoResult /\ h.work = NoWork /\ h.through = 0
      /\ h.pass = 0 /\ h.fair = FALSE /\ h.lease = 0 /\ h.failure = NoFailure /\ h.exit = "idle"
  BY <1>1, <1>2 DEF Holder
<1>4. turn' = [at |-> a, by |-> b, epoch |-> 0, cycle |-> 0, cursor |-> NoCursor,
               result |-> NoResult, work |-> NoWork, through |-> 0, pass |-> 0, fair |-> FALSE,
               lease |-> 0, failure |-> NoFailure, exit |-> "idle"]
  BY DEF Idle, NoFailure
<1>5. turn' = h BY <1>1, <1>4
<1> QED BY <1>3, <1>5

WorkTurn(a, b, w) == [Idle EXCEPT !.at = a, !.by = b, !.work = w]

LEMMA FreshByWork ==
    ASSUME NEW a \in Point, NEW b \in By, NEW w \in Item, turn' = WorkTurn(a, b, w)
    PROVE  /\ turn' \in Holder /\ turn'.at = a /\ turn'.by = b /\ turn'.epoch = 0
           /\ turn'.cycle = 0 /\ turn'.cursor = NoCursor /\ turn'.result = NoResult
           /\ turn'.work = w /\ turn'.through = 0 /\ turn'.pass = 0 /\ turn'.fair = FALSE
           /\ turn'.lease = 0 /\ turn'.failure = NoFailure /\ turn'.exit = "idle"
<1>1. PICK h : h = [at |-> a, by |-> b, epoch |-> 0, cycle |-> 0, cursor |-> NoCursor,
                  result |-> NoResult, work |-> w, through |-> 0, pass |-> 0, fair |-> FALSE,
                  lease |-> 0, failure |-> NoFailure, exit |-> "idle"]
  OBVIOUS
<1>2. /\ 0 \in Nat /\ 0 \in Nat /\ NoCursor \in Place /\ NoResult \in Answer /\ 0 \in Nat
      /\ 0 \in Nat /\ FALSE \in BOOLEAN /\ 0 \in Nat /\ NoFailure \in Failure
      /\ "idle" \in WayOut
  BY IdleHolds DEF By, Failure, WayOut, NoFailure
<1>3. /\ h \in Holder /\ h.at = a /\ h.by = b /\ h.epoch = 0 /\ h.cycle = 0
      /\ h.cursor = NoCursor /\ h.result = NoResult /\ h.work = w /\ h.through = 0 /\ h.pass = 0
      /\ h.fair = FALSE /\ h.lease = 0 /\ h.failure = NoFailure /\ h.exit = "idle"
  BY <1>1, <1>2 DEF Holder
<1>4. turn' = [at |-> a, by |-> b, epoch |-> 0, cycle |-> 0, cursor |-> NoCursor,
               result |-> NoResult, work |-> w, through |-> 0, pass |-> 0, fair |-> FALSE,
               lease |-> 0, failure |-> NoFailure, exit |-> "idle"]
  BY DEF WorkTurn, Idle, NoFailure
<1>5. turn' = h BY <1>1, <1>4
<1> QED BY <1>3, <1>5

RequestTurn(a, b, n, w, l) == [Idle EXCEPT !.at = a, !.by = b, !.through = n, !.work = w, !.lease = l]

LEMMA FreshRequest ==
    ASSUME NEW a \in Point, NEW b \in By, NEW n \in Nat, NEW w \in Item, NEW l \in Nat,
           turn' = RequestTurn(a, b, n, w, l)
    PROVE  /\ turn' \in Holder /\ turn'.at = a /\ turn'.by = b /\ turn'.epoch = 0
           /\ turn'.cycle = 0 /\ turn'.cursor = NoCursor /\ turn'.result = NoResult
           /\ turn'.work = w /\ turn'.through = n /\ turn'.pass = 0 /\ turn'.fair = FALSE
           /\ turn'.lease = l /\ turn'.failure = NoFailure /\ turn'.exit = "idle"
<1>1. PICK h : h = [at |-> a, by |-> b, epoch |-> 0, cycle |-> 0, cursor |-> NoCursor,
                  result |-> NoResult, work |-> w, through |-> n, pass |-> 0, fair |-> FALSE,
                  lease |-> l, failure |-> NoFailure, exit |-> "idle"]
  OBVIOUS
<1>2. /\ 0 \in Nat /\ 0 \in Nat /\ NoCursor \in Place /\ NoResult \in Answer /\ 0 \in Nat
      /\ FALSE \in BOOLEAN /\ NoFailure \in Failure /\ "idle" \in WayOut
  BY IdleHolds DEF By, Failure, WayOut, NoFailure
<1>3. /\ h \in Holder /\ h.at = a /\ h.by = b /\ h.epoch = 0 /\ h.cycle = 0
      /\ h.cursor = NoCursor /\ h.result = NoResult /\ h.work = w /\ h.through = n /\ h.pass = 0
      /\ h.fair = FALSE /\ h.lease = l /\ h.failure = NoFailure /\ h.exit = "idle"
  BY <1>1, <1>2 DEF Holder
<1>4. turn' = [at |-> a, by |-> b, epoch |-> 0, cycle |-> 0, cursor |-> NoCursor,
               result |-> NoResult, work |-> w, through |-> n, pass |-> 0, fair |-> FALSE,
               lease |-> l, failure |-> NoFailure, exit |-> "idle"]
  BY DEF RequestTurn, Idle, NoFailure
<1>5. turn' = h BY <1>1, <1>4
<1> QED BY <1>3, <1>5

\* The turn ends.
LEMMA TurnEnds ==
    ASSUME SweepInv, Framed, Silent, Stands, UNCHANGED fair, turn' = Idle,
           turn.at \notin {"normalUpdate", "queue"}
    PROVE  SweepInv'
<1>1. World BY DEF SweepInv
<1>2. Held
  BY <1>1, IdleHolds DEF Held, World, CursorsInv, EpochInv
<1>3. World' BY <1>1, <1>2, WorldStands
<1>4. turn'.at = "idle" /\ turn'.by # "reextract" BY IdleHolds
<1>5. Turn' BY <1>4, TurnFree
<1> QED BY <1>3, <1>5 DEF SweepInv

-----------------------------------------------------------------------------
(* What a pass finds.                                                      *)

Passed(low, high) == \A i \in low + 1 .. high : Deferred(i) \/ Done(Mandatory(i))

LEMMA CursorStarts ==
    ASSUME RecordsInv, NEW start \in Place, start.through <= Len(events),
           NEW through \in {Unset} \cup 0 .. Len(events)
    PROVE  LET cursor == startMemoryDiscoveryCursor(start, through)
           IN  /\ cursor \in Place /\ cursor.through <= Len(events)
               /\ through = Unset =>
                     cursor = IF start # NoCursor THEN start
                              ELSE [after |-> 0, through |-> Len(events)]
<1>1. Len(events) \in Nat /\ Unset = -1 BY Lengths DEF Unset
<1>2. through # Unset => through \in Nat BY <1>1
<1> QED BY <1>1, <1>2 DEF startMemoryDiscoveryCursor, Place

LEMMA PassAnswers ==
    ASSUME RecordsInv, ExistInv, NEW start \in Place, start.through <= Len(events),
           NEW through \in {Unset} \cup 0 .. Len(events), NEW result,
           LET answer == DiscoverMemoryExtractionWork(start, through)
           IN  result = answer.whole \/ result \in answer.partial
    PROVE  LET cursor == startMemoryDiscoveryCursor(start, through)
           IN  /\ result \in Answer
               /\ result.work = NoWork \/ (Obligation(result.work) /\ ~result.complete)
               /\ result.next.through <= Len(events)
               /\ result.complete => /\ result.next = NoCursor
                                     /\ Passed(cursor.after, cursor.through)
               /\ ~result.complete =>
                     /\ result.next.through = cursor.through
                     /\ cursor.after < result.next.after
                     /\ result.next.after <= cursor.through
                     /\ result.work = NoWork => Passed(cursor.after, result.next.after)
<1>1. PICK cursor : cursor = startMemoryDiscoveryCursor(start, through) OBVIOUS
<1>2. cursor \in Place /\ cursor.through <= Len(events) BY <1>1, CursorStarts
<1>3. cursor.after \in Nat /\ cursor.through \in Int /\ Len(events) \in Nat
      /\ cursor = [after |-> cursor.after, through |-> cursor.through]
  BY <1>2, Lengths DEF Place
<1> DEFINE todo == Attention(cursor)
           stop == IF todo = {} THEN cursor.through ELSE Least(todo)
<1>4. todo \subseteq cursor.after + 1 .. cursor.through BY DEF Attention
<1>5. todo # {} => Least(todo) \in todo /\ \A j \in todo : Least(todo) <= j
  BY <1>3, <1>4, LeastIn
<1>6. \A i \in cursor.after + 1 .. cursor.through : i \in 1 .. Len(events) BY <1>2, <1>3
<1>7. ASSUME NEW i \in cursor.after + 1 .. cursor.through, i \notin todo
      PROVE  Deferred(i) \/ Done(Mandatory(i))
  <2>1. i \in 1 .. Len(events) BY <1>6
  <2>2. Mandatory(i) \in Key /\ Exists(Mandatory(i)) BY <2>1, Lengths DEF ExistInv
  <2>3. memoryWorkNeedsAttention(Mandatory(i)) <=> ~Done(Mandatory(i))
    BY <2>2, RunStates DEF RecordsInv
  <2> QED BY <1>7, <2>3 DEF Attention
<1>8. CASE todo = {} /\ result = [NoResult EXCEPT !.complete = TRUE]
  <2>1. result.complete /\ result.next = NoCursor /\ result.work = NoWork
        /\ result \in Answer
    BY <1>8, IdleHolds DEF NoResult, Answer
  <2>2. Passed(cursor.after, cursor.through) BY <1>7, <1>8 DEF Passed
  <2>3. result.next.through <= Len(events) BY <1>3, <2>1, IdleHolds DEF Unset
  <2> QED BY <1>1, <2>1, <2>2, <2>3
<1>9. CASE /\ todo # {}
           /\ result = [work |-> classify(Mandatory(Least(todo))),
                        next |-> [cursor EXCEPT !.after = Least(todo)], complete |-> FALSE]
  <2>1. PICK i : i = Least(todo) OBVIOUS
  <2>2. i \in todo /\ i \in cursor.after + 1 .. cursor.through /\ i \in 1 .. Len(events) /\ i \in Nat
    BY <1>3, <1>4, <1>5, <1>6, <1>9, <2>1
  <2>3. Mandatory(i) \in Key /\ Exists(Mandatory(i)) BY <2>2, Lengths DEF ExistInv
  <2>4. [cursor EXCEPT !.after = i] = [after |-> i, through |-> cursor.through] BY <1>3
  <2>5. result.next = [after |-> i, through |-> cursor.through] /\ result.next \in Place
    BY <1>3, <1>9, <2>1, <2>2, <2>4 DEF Place
  <2>6. /\ classify(Mandatory(i)) \in Item /\ classify(Mandatory(i)).key = Mandatory(i)
        /\ classify(Mandatory(i)) # NoWork
    <3>1. run[Mandatory(i)].state \in RunState BY <2>3, RunStates DEF RecordsInv
    <3>2. CancellationCode(Source(Mandatory(i))) \in Code /\ "" \in Code
      BY DEF CancellationCode, Code
    <3>3. Mandatory(i) # <<>>
      <4>1. Len(Mandatory(i)) = 2 /\ Len(<<>>) = 0 BY DEF Mandatory
      <4> QED BY <4>1
    <3> QED BY <2>3, <3>1, <3>2, <3>3 DEF classify, Found, Item, NoWork
  <2>7. Obligation(result.work)
    BY <1>9, <2>1, <2>3, <2>6, Keys DEF Obligation, IsMemory
  <2>8. result.work = classify(Mandatory(i)) /\ ~result.complete
        /\ result \in Answer
    BY <1>9, <2>1, <2>5, <2>6 DEF Answer
  <2> QED BY <1>1, <1>2, <1>3, <2>2, <2>5, <2>6, <2>7, <2>8
<1>10. ASSUME NEW j \in cursor.after + 1 .. stop - 1,
              result = [NoResult EXCEPT !.next = [cursor EXCEPT !.after = j]]
       PROVE  /\ result \in Answer
              /\ result.work = NoWork /\ ~result.complete
              /\ result.next.through = cursor.through /\ cursor.after < result.next.after
              /\ result.next.after <= cursor.through
              /\ Passed(cursor.after, result.next.after)
  <2>1. stop \in Int /\ stop <= cursor.through BY <1>3, <1>4, <1>5
  <2>2. j \in Nat /\ j < stop /\ cursor.after < j /\ j <= cursor.through BY <1>3, <2>1
  <2>3. [cursor EXCEPT !.after = j] = [after |-> j, through |-> cursor.through] BY <1>3
  <2>4. result = [work |-> NoWork, next |-> [after |-> j, through |-> cursor.through],
                  complete |-> FALSE]
    BY <1>10, <2>3 DEF NoResult
  <2>5. result.next = [after |-> j, through |-> cursor.through] /\ result.next \in Place
    BY <1>3, <2>2, <2>4 DEF Place
  <2>6. \A i \in cursor.after + 1 .. j : i \notin todo /\ i \in cursor.after + 1 .. cursor.through
    <3> SUFFICES ASSUME NEW i \in cursor.after + 1 .. j
                 PROVE  i \notin todo /\ i \in cursor.after + 1 .. cursor.through
      OBVIOUS
    <3>1. i \in cursor.after + 1 .. cursor.through /\ i < stop BY <1>3, <2>1, <2>2
    <3>2. i \notin todo
      <4>1. CASE todo = {} BY <4>1
      <4>2. CASE todo # {}
        <5>1. stop = Least(todo) /\ \A k \in todo : stop <= k BY <1>5, <4>2
        <5> HIDE DEF todo, stop
        <5> QED BY <1>3, <2>1, <3>1, <5>1
      <4> QED BY <4>1, <4>2
    <3> QED BY <3>1, <3>2
  <2>7. Passed(cursor.after, j) BY <1>7, <2>6 DEF Passed
  <2>8. result \in Answer BY <2>4, <2>5, IdleHolds DEF Answer
  <2> QED BY <2>2, <2>4, <2>5, <2>7, <2>8
<1>11. CASE result \in {[NoResult EXCEPT !.next = [cursor EXCEPT !.after = j]] :
                          j \in cursor.after + 1 .. stop - 1}
  <2> HIDE DEF stop, todo
  <2>1. PICK j \in cursor.after + 1 .. stop - 1 :
          result = [NoResult EXCEPT !.next = [cursor EXCEPT !.after = j]]
    BY <1>11
  <2> QED BY <1>1, <1>2, <1>10, <2>1
<1>12. \/ todo = {} /\ result = [NoResult EXCEPT !.complete = TRUE]
       \/ /\ todo # {}
          /\ result = [work |-> classify(Mandatory(Least(todo))),
                       next |-> [cursor EXCEPT !.after = Least(todo)], complete |-> FALSE]
       \/ result \in {[NoResult EXCEPT !.next = [cursor EXCEPT !.after = j]] :
                          j \in cursor.after + 1 .. stop - 1}
  BY <1>1 DEF DiscoverMemoryExtractionWork
<1> HIDE DEF todo, stop
<1> QED BY <1>8, <1>9, <1>11, <1>12

-----------------------------------------------------------------------------
(* The dialogue scan and the fair quantum.                                 *)

LEMMA DiscoverTurns ==
    ASSUME NEW answer, NEW point, Discover(answer, point)
    PROVE  \/ turn' = Idle
           \/ \E r : /\ r = answer.whole \/ r \in answer.partial
                     /\ turn' = [turn EXCEPT !.at = point, !.result = r]
  BY DEF Discover, EndTurn

LEMMA ScanKeeps ==
    ASSUME SweepInv, TurnStart \/ ScanDialogue PROVE SweepInv'
<1>1. World /\ Turn /\ RecordsInv /\ ExistInv /\ CursorsInv /\ EpochInv /\ WorkInv
  BY DEF SweepInv, World, Turn
<1>2. turn \in Holder /\ fair \in Place /\ fair.through <= Len(events) /\ epoch \in Nat
  BY <1>1 DEF CursorsInv, EpochInv
<1>3. CASE TurnStart
  <2>1. /\ turn = Idle /\ turn' = [Idle EXCEPT !.at = "scan", !.cycle = epoch]
        /\ UNCHANGED <<events, requests, run, uncovered, fair>> /\ Stands
    BY <1>3 DEF TurnStart, durable, proof, cursors, outside, Stands
  <2>2. /\ turn' \in Holder /\ turn'.at = "scan" /\ turn'.by = "turn" /\ turn'.epoch = 0
        /\ turn'.lease = 0 /\ turn'.cycle = epoch
    BY <1>2, <2>1, FreshScan DEF Point
  <2>3. Framed /\ Silent BY <1>1, <2>1, DurableRests
  <2>4. Held BY <1>2, <2>1, <2>2 DEF Held
  <2>5. World' BY <1>1, <2>1, <2>3, <2>4, WorldStands
  <2>6. turn.at = "idle" BY <2>1, IdleHolds
  <2>7. Turn' BY <2>1, <2>2, <2>3, <2>6, TurnFree
  <2> QED BY <2>5, <2>7 DEF SweepInv
<1>4. ASSUME ScanDialogue PROVE SweepInv'
  <2>1. /\ turn.at = "scan" /\ UNCHANGED <<requests, run, uncovered, fair>> /\ Stands
    BY <1>4 DEF ScanDialogue, proof, cursors, outside, Stands
  <2>2. PICK i \in DOMAIN events :
          /\ Unclosed(i)
          /\ \/ Dialogue(i, "closed") /\ handoffDialogueToFairMemory(i)
             \/ Dialogue(i, "prepared") /\ turn' = Idle
    BY <1>4 DEF ScanDialogue, EndTurn
  <2>3. Framed /\ Silent BY <1>1, <2>1, <2>2, DurableTalks
  <2>4. CASE turn' = Idle BY <2>1, <2>3, <2>4, TurnEnds
  <2>5. CASE turn' = [turn EXCEPT !.at = "fairDiscover", !.epoch = epoch, !.cursor = fair,
                                  !.through = i, !.pass = 0, !.fair = TRUE]
    <3>1. i \in Nat /\ i <= Len(events) BY <1>1, <2>2, Lengths
    <3>2. /\ turn' \in Holder /\ turn'.at = "fairDiscover" /\ turn'.by = turn.by
          /\ turn'.epoch = epoch /\ turn'.cycle = turn.cycle /\ turn'.lease = turn.lease
          /\ turn'.cursor = fair /\ turn'.through = i
      BY <1>2, <2>5, <3>1, MovedFair
    <3>3. Held BY <1>1, <1>2, <2>1, <3>2 DEF Held, EpochInv
    <3>4. World' BY <1>1, <2>1, <2>3, <3>3, WorldStands
    <3>5. turn.by # "reextract" BY <1>1, <2>1 DEF WorkInv, WorkPoint
    <3>6. Len(events') = Len(events) BY <2>3 DEF Framed
    <3>7. AnswerInv' /\ CeilingInv' BY <1>2, <3>1, <3>2, <3>6 DEF AnswerInv, CeilingInv
    <3>8. Turn' BY <2>1, <2>3, <3>2, <3>5, <3>7, TurnFree
    <3> QED BY <3>4, <3>8 DEF SweepInv
  <2> QED BY <2>2, <2>4, <2>5 DEF handoffDialogueToFairMemory, EndTurn
<1> QED BY <1>3, <1>4

LEMMA FairDiscovers == ASSUME SweepInv, FairDiscover PROVE SweepInv'
<1>1. World /\ Turn /\ RecordsInv /\ ExistInv /\ CursorsInv /\ EpochInv /\ WorkInv /\ CeilingInv
  BY DEF SweepInv, World, Turn
<1>2. turn \in Holder /\ fair \in Place /\ fair.through <= Len(events) /\ epoch \in Nat
  BY <1>1 DEF CursorsInv, EpochInv
<1>3. /\ turn.at = "fairDiscover"
      /\ UNCHANGED <<events, requests, run, uncovered, fair>> /\ Stands
      /\ Discover(DiscoverMemoryExtractionWork(turn.cursor, turn.through), "fairUpdate")
  BY DEF FairDiscover, durable, proof, cursors, outside, Stands
<1>4. Framed /\ Silent BY <1>1, <1>3, DurableRests
<1>5. CASE turn' = Idle BY <1>3, <1>4, <1>5, TurnEnds
<1>6. ASSUME NEW r,
             LET answer == DiscoverMemoryExtractionWork(turn.cursor, turn.through)
             IN  r = answer.whole \/ r \in answer.partial,
             turn' = [turn EXCEPT !.at = "fairUpdate", !.result = r]
      PROVE  SweepInv'
  <2>1. turn.cursor \in Place /\ turn.cursor.through <= Len(events)
        /\ turn.through \in {Unset} \cup 0 .. Len(events)
    BY <1>1, <1>2, <1>3, Lengths DEF CeilingInv, Holder
  <2>2. /\ r \in Answer
        /\ r.work = NoWork \/ (Obligation(r.work) /\ ~r.complete)
        /\ r.next.through <= Len(events) /\ (r.complete => r.next = NoCursor)
    BY <1>1, <1>6, <2>1, PassAnswers
  <2>3. /\ turn' \in Holder /\ turn'.at = "fairUpdate" /\ turn'.by = turn.by
        /\ turn'.epoch = turn.epoch /\ turn'.cycle = turn.cycle /\ turn'.lease = turn.lease
        /\ turn'.through = turn.through /\ turn'.result = r
    BY <1>2, <1>6, <2>2, MovedResult DEF Point
  <2>4. Held BY <1>1, <1>2, <1>3, <2>3 DEF Held, EpochInv
  <2>5. World' BY <1>1, <1>3, <1>4, <2>4, WorldStands
  <2>6. turn.by # "reextract" BY <1>1, <1>3 DEF WorkInv, WorkPoint
  <2>7. Len(events') = Len(events) BY <1>3
  <2>8. CeilingInv' BY <1>1, <1>3, <2>2, <2>3, <2>7 DEF CeilingInv
  <2>9. AnswerInv'
    <3>1. Obligation(r.work) => Obligation(r.work)'
      BY <1>3 DEF Obligation, IsMemory, Key, Mandatory, Reextraction, OptionalKey, Exists
    <3> QED BY <2>2, <2>3, <3>1 DEF AnswerInv, NoWork, NoCursor, Unset
  <2>10. Turn' BY <1>3, <1>4, <2>3, <2>6, <2>8, <2>9, TurnFree
  <2> QED BY <2>5, <2>10 DEF SweepInv
<1> QED BY <1>3, <1>5, <1>6, DiscoverTurns

\* An item that was found is processed.
LEMMA ItemHolds ==
    ASSUME SweepInv, NEW work \in Item, work # NoWork => Obligation(work), work # NoWork,
           NEW fairly \in BOOLEAN, NEW lease \in Nat, UNCHANGED <<run, requests>>,
           turn' = [Idle EXCEPT !.at = "process", !.work = work, !.fair = fairly, !.lease = lease]
    PROVE  /\ turn' \in Holder /\ turn'.at = "process" /\ turn'.by = "turn"
           /\ turn'.epoch = 0 /\ turn'.cycle = 0 /\ turn'.lease = lease
           /\ turn'.work.key[1] # "optional" /\ WorkInv'
<1>1. /\ turn' \in Holder /\ turn'.at = "process" /\ turn'.by = "turn"
      /\ turn'.epoch = 0 /\ turn'.cycle = 0 /\ turn'.lease = lease /\ turn'.work = work
  <2>1. PICK a \in Point : a = "process" BY DEF Point
  <2>2. turn' = FairTurn(a, work, fairly, lease) BY <2>1 DEF FairTurn
  <2>3. /\ turn' \in Holder /\ turn'.at = a /\ turn'.by = "turn" /\ turn'.epoch = 0
        /\ turn'.cycle = 0 /\ turn'.work = work /\ turn'.lease = lease
    BY <2>2, FreshFair
  <2> QED BY <2>1, <2>3
<1>2. work.key \in Key /\ IsMemory(work.key) /\ Exists(work.key) BY DEF Obligation
<1>3. work.key[1] # "optional" BY <1>2 DEF IsMemory
<1>4. Exists(work.key)' BY <1>2 DEF Exists
<1>5. work.key \in Key' BY <1>2 DEF Key, Mandatory, Reextraction, OptionalKey
<1>6. WorkInv' BY <1>1, <1>3, <1>4, <1>5 DEF WorkInv, WorkPoint, Exists
<1> QED BY <1>1, <1>3, <1>6

LEMMA FairUpdates == ASSUME SweepInv, FairUpdate PROVE SweepInv'
<1>1. World /\ Turn /\ RecordsInv /\ ExistInv /\ CursorsInv /\ EpochInv /\ WorkInv /\ CeilingInv
      /\ AnswerInv
  BY DEF SweepInv, World, Turn
<1>2. turn \in Holder /\ fair \in Place /\ fair.through <= Len(events) /\ epoch \in Nat
      /\ turn.result \in Answer
  BY <1>1 DEF CursorsInv, EpochInv, Holder
<1>3. /\ turn.at = "fairUpdate"
      /\ UNCHANGED <<events, requests, run, uncovered>> /\ Stands
      /\ fair' \in {fair, NoCursor, turn.result.next}
  BY DEF FairUpdate, FairCursor, durable, proof, outside, Stands
<1>4. Framed /\ Silent BY <1>1, <1>3, DurableRests
<1>5. fair' \in Place /\ fair'.through <= Len(events)
  <2>1. turn.result.next \in Place /\ turn.result.next.through <= Len(events)
    BY <1>1, <1>2, <1>3 DEF CeilingInv, Answer
  <2>2. NoCursor \in Place /\ NoCursor.through <= Len(events)
    BY <1>1, IdleHolds, Lengths DEF Unset
  <2> QED BY <1>2, <1>3, <2>1, <2>2
<1>6. turn.by # "reextract" BY <1>1, <1>3 DEF WorkInv, WorkPoint
<1>7. CASE turn' = Idle
  <2>1. Held BY <1>2, <1>5, <1>7, IdleHolds DEF Held
  <2>2. World' BY <1>1, <1>3, <1>4, <2>1, WorldStands
  <2>3. turn'.at = "idle" /\ turn'.by # "reextract" BY <1>7, IdleHolds
  <2>4. Turn' BY <1>3, <1>4, <2>3, TurnFree
  <2> QED BY <2>2, <2>4 DEF SweepInv
<1>8. ASSUME turn.result.work # NoWork,
             turn' = [Idle EXCEPT !.at = "process", !.work = turn.result.work, !.fair = TRUE,
                                  !.lease = turn.epoch]
      PROVE  SweepInv'
  <2>1. PICK work : work = turn.result.work OBVIOUS
  <2>2. work \in Item /\ work # NoWork /\ Obligation(work)
    BY <1>1, <1>2, <1>3, <1>8, <2>1 DEF AnswerInv, Answer
  <2>3. turn.epoch \in Nat BY <1>2 DEF Holder
  <2>4. /\ turn' \in Holder /\ turn'.at = "process" /\ turn'.by = "turn"
        /\ turn'.epoch = 0 /\ turn'.cycle = 0 /\ turn'.lease = turn.epoch
        /\ turn'.work.key[1] # "optional" /\ WorkInv'
    BY <1>3, <1>8, <2>1, <2>2, <2>3, ItemHolds
  <2>5. Held BY <1>1, <1>2, <1>5, <2>4 DEF Held, EpochInv
  <2>6. World' BY <1>1, <1>3, <1>4, <2>5, WorldStands
  <2>7. Turn' BY <1>3, <1>4, <2>4, TurnWorks DEF WorkPoint
  <2> QED BY <2>6, <2>7 DEF SweepInv
<1>9. CASE turn' = [turn EXCEPT !.at = "fairDiscover", !.pass = 1, !.cursor = NoCursor]
  <2>1. /\ turn' \in Holder /\ turn'.at = "fairDiscover" /\ turn'.by = turn.by
        /\ turn'.epoch = turn.epoch /\ turn'.cycle = turn.cycle /\ turn'.lease = turn.lease
        /\ turn'.through = turn.through /\ turn'.cursor = NoCursor
    BY <1>2, <1>9, IdleHolds, MovedAgain DEF Point
  <2>2. Held BY <1>1, <1>2, <1>5, <2>1 DEF Held, EpochInv
  <2>3. World' BY <1>1, <1>3, <1>4, <2>2, WorldStands
  <2>4. AnswerInv' /\ CeilingInv'
    BY <1>1, <1>3, <2>1, IdleHolds, Lengths DEF AnswerInv, CeilingInv, Unset
  <2>5. Turn' BY <1>3, <1>4, <1>6, <2>1, <2>4, TurnFree
  <2> QED BY <2>3, <2>5 DEF SweepInv
<1>10. CASE turn' = [Idle EXCEPT !.at = "scan", !.cycle = turn.cycle]
  <2>1. turn.cycle \in Nat BY <1>2 DEF Holder
  <2>2. /\ turn' \in Holder /\ turn'.at = "scan" /\ turn'.by = "turn" /\ turn'.epoch = 0
        /\ turn'.lease = 0 /\ turn'.cycle = turn.cycle
    BY <1>10, <2>1, FreshScan DEF Point
  <2>3. Held BY <1>1, <1>2, <1>5, <2>2 DEF Held, EpochInv
  <2>4. World' BY <1>1, <1>3, <1>4, <2>3, WorldStands
  <2>5. Turn' BY <1>3, <1>4, <2>2, TurnFree
  <2> QED BY <2>4, <2>5 DEF SweepInv
<1> QED BY <1>7, <1>8, <1>9, <1>10 DEF FairUpdate

-----------------------------------------------------------------------------
(* The queue.                                                              *)

LEMMA WorldGoes ==
    ASSUME World, RecordsInv', ExistInv', Len(events') = Len(events), UNCHANGED <<epoch, arriving>>,
           Held, scans' \in BOOLEAN, clean' \in Int, clean' <= epoch, CleanInv',
           complete' \in Int, complete' <= epoch,
           normal' \in NormalCycle, normal'.epoch = Unset => normal'.cursor = NoCursor,
           normal'.epoch <= epoch, normal'.cursor.through <= Len(events), NormalInv',
           rx' \in RxCycle, rx'.epoch <= epoch, RxInv'
    PROVE  World'
<1>1. CursorsInv /\ EpochInv BY DEF World
<1>2. CursorsInv'
  <2>1. /\ normal' \in NormalCycle' /\ rx' \in RxCycle'
        /\ normal'.epoch = Unset => normal'.cursor = NoCursor'
    BY DEF NormalCycle, RxCycle, Place, NoCursor, Unset
  <2>2. turn' \in Holder'
    BY DEF Held, Holder, Answer, Place, Item, Point, Key, Mandatory, Reextraction, OptionalKey,
       RunState, Code, Failure, NoFailure, WayOut, By
  <2>3. fair' \in Place' BY DEF Held, Place
  <2>4. /\ arriving' \in BOOLEAN
        /\ normal'.cursor.through <= Len(events') /\ fair'.through <= Len(events')
    BY <1>1 DEF CursorsInv, Held
  <2> QED BY <2>1, <2>2, <2>3, <2>4 DEF CursorsInv, Unset
<1>3. EpochInv' BY <1>1 DEF EpochInv, Held
<1> QED BY <1>2, <1>3 DEF World

\* What a step that leaves a cycle alone keeps of it.
LEMMA CyclesRest ==
    ASSUME World, Framed
    PROVE  /\ UNCHANGED <<clean, epoch, arriving>> /\ Silent => CleanInv'
           /\ UNCHANGED normal =>
                /\ normal' \in NormalCycle /\ (normal'.epoch = Unset => normal'.cursor = NoCursor)
                /\ normal'.epoch <= epoch /\ normal'.cursor.through <= Len(events)
                /\ UNCHANGED <<epoch, arriving>> => NormalInv'
           /\ UNCHANGED rx => rx' \in RxCycle /\ rx'.epoch <= epoch /\ RxInv'
           /\ scans \in BOOLEAN /\ clean \in Int /\ clean <= epoch
           /\ complete \in Int /\ complete <= epoch
<1>1. /\ RecordsInv /\ CursorsInv /\ EpochInv /\ CleanInv /\ NormalInv /\ RxInv
      /\ RecordsInv' /\ Len(events') = Len(events)
  BY DEF World, Framed
<1>2. UNCHANGED <<clean, epoch, arriving>> /\ Silent => CleanInv'
  <2>1. DOMAIN events' = 1 .. Len(events') BY <1>1 DEF RecordsInv
  <2>2. DOMAIN events = 1 .. Len(events) BY <1>1, Lengths
  <2> QED BY <1>1, <2>1, <2>2 DEF CleanInv, Silent
<1>3. UNCHANGED <<normal, epoch, arriving>> => NormalInv'
  <2>1. normal.cursor \in Place BY <1>1 DEF CursorsInv, NormalCycle
  <2> QED BY <1>1, <2>1, FrameCovers DEF NormalInv
<1>4. UNCHANGED rx => RxInv'
  <2>1. rx.cursor \in Place BY <1>1 DEF CursorsInv, RxCycle
  <2> QED BY <1>1, <2>1, FrameCovers DEF RxInv
<1> QED BY <1>1, <1>2, <1>3, <1>4 DEF CursorsInv, EpochInv

LEMMA ScanCleans == ASSUME SweepInv, ScanClean PROVE SweepInv'
<1>1. /\ World /\ Turn /\ RecordsInv /\ ExistInv /\ CursorsInv /\ EpochInv /\ WorkInv /\ CompleteInv
      /\ NormalTurn /\ OptionalInv
  BY DEF SweepInv, World, Turn
<1>2. turn \in Holder /\ fair \in Place /\ fair.through <= Len(events) /\ epoch \in Nat
  BY <1>1 DEF CursorsInv, EpochInv
<1>3. /\ turn.at = "scan" /\ UNCHANGED <<events, requests, run, uncovered, fair>>
      /\ UNCHANGED <<normal, complete, rx, scans, epoch, arriving>>
      /\ \A i \in DOMAIN events : ~Unclosed(i)
  BY DEF ScanClean, durable, cursors, outside
<1>4. Framed /\ Silent BY <1>1, <1>3, DurableRests
<1>5. CASE turn' = Idle /\ clean' = clean
  <2>1. Stands BY <1>3, <1>5 DEF Stands
  <2> QED BY <1>3, <1>4, <1>5, <2>1, TurnEnds
<1>6. CASE clean' = epoch /\ turn' = [turn EXCEPT !.at = "queue"]
  <2>1. /\ turn' \in Holder /\ turn'.at = "queue" /\ turn'.by = turn.by /\ turn'.epoch = turn.epoch
        /\ turn'.cycle = turn.cycle /\ turn'.lease = turn.lease
    BY <1>2, <1>6, Moved DEF Point
  <2>2. Held BY <1>1, <1>2, <1>3, <2>1 DEF Held, EpochInv
  <2>3. CleanInv' BY <1>3 DEF CleanInv, Unclosed
  <2>4. RecordsInv' /\ ExistInv' BY <1>4 DEF Framed
  <2>5. clean' \in Int /\ clean' <= epoch BY <1>2, <1>6
  <2>6. World' BY <1>1, <1>3, <1>4, <2>2, <2>3, <2>4, <2>5, CyclesRest, WorldGoes
  <2>7. turn.by # "reextract" BY <1>1, <1>3 DEF WorkInv, WorkPoint
  <2>8. NormalAnswer' /\ RxAnswer' /\ RxTurn' /\ QueueTurn' /\ AnswerInv' /\ CeilingInv'
    BY <2>1 DEF NormalAnswer, RxAnswer, RxTurn, QueueTurn, NormalPoint, RxPoint, AnswerInv, CeilingInv
  <2>9. NormalTurn' BY <1>1, <1>3, <2>1 DEF NormalTurn, NormalPoint, RxPoint, Unset
  <2>10. CompleteInv' BY <1>1, <1>3, <1>4, FrameCovers DEF CompleteInv
  <2>11. WorkInv' BY <2>1, <2>7 DEF WorkInv, WorkPoint
  <2>12. OptionalInv' BY <1>1, <1>3, <2>1 DEF OptionalInv, OptionalPoint, WorkPoint, Unset
  <2> QED BY <2>6, <2>8, <2>9, <2>10, <2>11, <2>12 DEF SweepInv, Turn
<1> QED BY <1>3, <1>5, <1>6 DEF ScanClean, Goto, EndTurn

LEMMA QueueStarts == ASSUME SweepInv, QueueStart PROVE SweepInv'
<1>1. /\ World /\ Turn /\ RecordsInv /\ ExistInv /\ CursorsInv /\ EpochInv /\ CompleteInv
      /\ NormalTurn /\ OptionalInv
  BY DEF SweepInv, World, Turn
<1>2. turn \in Holder /\ fair \in Place /\ fair.through <= Len(events) /\ epoch \in Nat
  BY <1>1 DEF CursorsInv, EpochInv
<1>3. /\ turn.at = "queue" /\ scans' = FALSE /\ UNCHANGED <<events, requests, run, uncovered, fair>>
      /\ UNCHANGED <<normal, complete, rx, clean, epoch, arriving>>
  BY DEF QueueStart, durable, proof, outside
<1>4. Framed /\ Silent BY <1>1, <1>3, DurableRests
<1>5. PICK point \in Point :
        /\ point = IF rx.active THEN "rxStart" ELSE "normalStart"
        /\ turn' = [Idle EXCEPT !.at = point, !.epoch = epoch]
  BY DEF QueueStart, Point
<1>6. /\ turn' \in Holder /\ turn'.at = point /\ turn'.by = "turn" /\ turn'.epoch = epoch
      /\ turn'.cycle = 0 /\ turn'.lease = 0 /\ turn'.fair = FALSE
  BY <1>2, <1>5, FreshQueue
<1>7. Held BY <1>2, <1>3, <1>6 DEF Held
<1>8. RecordsInv' /\ ExistInv' /\ Len(events') = Len(events) BY <1>4 DEF Framed
<1>9. World' BY <1>1, <1>3, <1>4, <1>7, <1>8, CyclesRest, WorldGoes
<1>10. NormalAnswer' /\ RxAnswer' /\ RxTurn' /\ AnswerInv' /\ CeilingInv' /\ WorkInv'
  BY <1>5, <1>6 DEF NormalAnswer, RxAnswer, RxTurn, AnswerInv, CeilingInv, WorkInv, WorkPoint
<1>11. QueueTurn' BY <1>1, <1>3, <1>5, <1>6 DEF QueueTurn, NormalPoint, RxPoint, EpochInv
<1>12. NormalTurn' BY <1>1, <1>3, <1>5, <1>6 DEF NormalTurn, NormalPoint, RxPoint, Unset
<1>13. CompleteInv' BY <1>1, <1>3, <1>4, FrameCovers DEF CompleteInv
<1>14. OptionalInv' BY <1>3, <1>5, <1>6 DEF OptionalInv, OptionalPoint, WorkPoint
<1> QED BY <1>9, <1>10, <1>11, <1>12, <1>13, <1>14 DEF SweepInv, Turn

LEMMA NormalStarts == ASSUME SweepInv, NormalStart PROVE SweepInv'
<1>1. /\ World /\ Turn /\ RecordsInv /\ ExistInv /\ CursorsInv /\ EpochInv /\ CompleteInv
      /\ NormalInv /\ NormalTurn /\ QueueTurn /\ WorkInv
  BY DEF SweepInv, World, Turn
<1>2. /\ turn \in Holder /\ fair \in Place /\ fair.through <= Len(events) /\ epoch \in Nat
      /\ normal \in NormalCycle /\ (normal.epoch = Unset => normal.cursor = NoCursor)
      /\ normal.cursor.through <= Len(events)
  BY <1>1 DEF CursorsInv, EpochInv
<1>3. /\ turn.at = "normalStart" /\ UNCHANGED <<events, requests, run, uncovered, fair>>
      /\ UNCHANGED <<complete, rx, scans, clean, epoch, arriving>>
  BY DEF NormalStart, durable, proof, outside
<1>4. Framed /\ Silent BY <1>1, <1>3, DurableRests
<1>5. CASE turn' = Idle /\ normal' = normal
  <2>1. Stands BY <1>3, <1>5 DEF Stands
  <2> QED BY <1>3, <1>4, <1>5, <2>1, TurnEnds
<1>6. ASSUME NEW cycle, cycle = IF normal.epoch = Unset THEN turn.epoch ELSE normal.epoch,
             epoch = turn.epoch, normal' = [normal EXCEPT !.epoch = cycle],
             turn' = [turn EXCEPT !.at = "normalDiscover", !.cycle = cycle, !.cursor = normal.cursor]
      PROVE  SweepInv'
  <2>1. cycle \in Nat /\ cycle <= epoch /\ normal.cursor \in Place
    BY <1>1, <1>2, <1>6 DEF NormalCycle, EpochInv
  <2>2. normal = [cursor |-> normal.cursor, epoch |-> normal.epoch, dirty |-> normal.dirty]
        /\ normal.dirty \in BOOLEAN
    BY <1>2 DEF NormalCycle
  <2>3. normal' = [cursor |-> normal.cursor, epoch |-> cycle, dirty |-> normal.dirty]
    BY <1>6, <2>2
  <2>4. /\ normal' \in NormalCycle /\ normal'.epoch = cycle /\ normal'.cursor = normal.cursor
        /\ normal'.dirty = normal.dirty
    BY <2>1, <2>2, <2>3 DEF NormalCycle
  <2>5. /\ turn' \in Holder /\ turn'.at = "normalDiscover" /\ turn'.by = turn.by
        /\ turn'.epoch = turn.epoch /\ turn'.cycle = cycle /\ turn'.lease = turn.lease
        /\ turn'.cursor = normal.cursor /\ turn'.fair = turn.fair
    <3>1. "normalDiscover" \in Point BY DEF Point
    <3>2. turn' = CycleTurn("normalDiscover", cycle, normal.cursor) BY <1>6 DEF CycleTurn
    <3> QED BY <1>2, <2>1, <3>1, <3>2, MovedCycle
  <2>6. Held BY <1>1, <1>2, <1>3, <2>1, <2>5 DEF Held, EpochInv
  <2>7. RecordsInv' /\ ExistInv' /\ Len(events') = Len(events) BY <1>4 DEF Framed
  <2>8. NormalInv'
    <3>1. CASE normal.cursor = NoCursor
      BY <2>4, <3>1 DEF NormalInv, AtPlace, NoCursor, Unset
    <3>2. CASE normal.cursor # NoCursor
      <4>1. normal.epoch = cycle BY <1>2, <1>6, <3>2
      <4>2. PICK c, d : c = normal.cursor /\ d = normal.dirty OBVIOUS
      <4>3. AtPlace(c, d) => AtPlace(c, d)' BY <1>1, <1>4, <2>1, <4>2, FrameCovers
      <4>4. normal'.epoch = epoch' /\ ~arriving' => AtPlace(c, d)'
        BY <1>1, <1>3, <2>4, <4>1, <4>2, <4>3 DEF NormalInv
      <4> QED BY <2>4, <4>2, <4>4 DEF NormalInv
    <3> QED BY <3>1, <3>2
  <2>9. cycle # Unset BY <2>1 DEF Unset
  <2>10. World'
    BY <1>1, <1>2, <1>3, <1>4, <2>1, <2>4, <2>6, <2>7, <2>8, <2>9, CyclesRest, WorldGoes
  <2>11. turn.by # "reextract" BY <1>1, <1>3 DEF WorkInv, WorkPoint
  <2>12. NormalAnswer' /\ RxAnswer' /\ RxTurn' /\ AnswerInv' /\ WorkInv'
    BY <2>5, <2>11 DEF NormalAnswer, RxAnswer, RxTurn, AnswerInv, WorkInv, WorkPoint
  <2>13. CeilingInv' BY <1>2, <2>5, <2>7 DEF CeilingInv
  <2>14. ~scans /\ ~rx.active /\ clean <= turn.epoch /\ ~turn.fair
    BY <1>1, <1>3 DEF QueueTurn, NormalTurn, NormalPoint
  <2>15. QueueTurn' BY <1>3, <2>5, <2>14 DEF QueueTurn, NormalPoint, RxPoint
  <2>16. NormalTurn' BY <1>3, <2>4, <2>5, <2>14 DEF NormalTurn, NormalPoint, RxPoint
  <2>17. CompleteInv' BY <1>1, <1>3, <1>4, FrameCovers DEF CompleteInv
  <2>18. OptionalInv' BY <1>3, <2>5, <2>14 DEF OptionalInv, OptionalPoint, WorkPoint
  <2> QED BY <2>10, <2>12, <2>13, <2>15, <2>16, <2>17, <2>18 DEF SweepInv, Turn
<1> QED BY <1>5, <1>6 DEF NormalStart, EndTurn

\* What a pass has crossed it covers, one way or the other.
LEMMA PassCovers ==
    ASSUME RecordsInv, NEW cursor \in Place, NEW high \in Int, NEW result,
           cursor.through <= Len(events), high <= cursor.through,
           high = IF result.complete THEN cursor.through ELSE result.next.after,
           Passed(cursor.after, high), Covered(cursor.after) \/ cursor.after = 0,
           UNCHANGED <<events, run>>,
           uncovered' = (IF cursor.after = 0 THEN {} ELSE uncovered) \cup Crossed(cursor, result)
    PROVE  Covered(high)'
<1> SUFFICES ASSUME NEW i \in 1 .. high PROVE i \in uncovered' \/ Done(Mandatory(i))'
  BY DEF Covered
<1>1. Done(Mandatory(i)) => Done(Mandatory(i))' BY DEF Done, Mandatory
<1>2. cursor.after \in Nat BY DEF Place
<1>3. CASE i <= cursor.after
  <2>1. cursor.after # 0 /\ i \in 1 .. cursor.after BY <1>2, <1>3
  <2>2. i \in uncovered \/ Done(Mandatory(i)) BY <2>1 DEF Covered
  <2> QED BY <1>1, <2>1, <2>2
<1>4. CASE i > cursor.after
  <2>1. i \in cursor.after + 1 .. high BY <1>2, <1>4
  <2>2. Deferred(i) \/ Done(Mandatory(i)) BY <2>1 DEF Passed
  <2>3. Deferred(i) => i \in Crossed(cursor, result) BY <2>1 DEF Crossed
  <2> QED BY <1>1, <2>2, <2>3
<1> QED BY <1>2, <1>3, <1>4

LEMMA NormalDiscovers == ASSUME SweepInv, NormalDiscover PROVE SweepInv'
<1>1. /\ World /\ Turn /\ RecordsInv /\ ExistInv /\ CursorsInv /\ EpochInv /\ CleanInv /\ RxInv
      /\ NormalInv /\ NormalTurn /\ QueueTurn /\ WorkInv /\ CeilingInv
  BY DEF SweepInv, World, Turn
<1>2. /\ turn \in Holder /\ fair \in Place /\ fair.through <= Len(events) /\ epoch \in Nat
      /\ normal \in NormalCycle /\ normal.cursor \in Place /\ turn.cursor \in Place
      /\ turn.cycle \in Nat /\ Len(events) \in Nat
  BY <1>1, HolderParts, Lengths DEF CursorsInv, EpochInv, NormalCycle
<1>3. /\ turn.at = "normalDiscover" /\ UNCHANGED <<events, requests, run, fair>> /\ Stands
      /\ Discover(DiscoverMemoryExtractionWork(turn.cursor, Unset), "normalUpdate")
  BY DEF NormalDiscover, durable, proof, cursors, outside, Stands
<1>4. CASE turn' = Idle
  <2>1. uncovered' = uncovered BY <1>4 DEF NormalDiscover
  <2>2. Framed /\ Silent BY <1>1, <1>3, <2>1, DurableRests
  <2> QED BY <1>3, <1>4, <2>2, TurnEnds
<1>5. ASSUME NEW r,
             LET answer == DiscoverMemoryExtractionWork(turn.cursor, Unset)
             IN  r = answer.whole \/ r \in answer.partial,
             turn' = [turn EXCEPT !.at = "normalUpdate", !.result = r]
      PROVE  SweepInv'
  <2>1. turn.cursor.through <= Len(events) BY <1>1, <1>3 DEF CeilingInv
  <2>2. PICK cursor : cursor = startMemoryDiscoveryCursor(turn.cursor, Unset) OBVIOUS
  <2>3. /\ cursor \in Place /\ cursor.through <= Len(events)
        /\ cursor = IF turn.cursor # NoCursor THEN turn.cursor
                    ELSE [after |-> 0, through |-> Len(events)]
    BY <1>1, <1>2, <2>1, <2>2, CursorStarts
  <2>4. /\ r \in Answer
        /\ r.work = NoWork \/ (Obligation(r.work) /\ ~r.complete)
        /\ r.next.through <= Len(events) /\ (r.complete => r.next = NoCursor)
        /\ r.complete => Passed(cursor.after, cursor.through)
        /\ ~r.complete =>
              /\ r.next.through = cursor.through /\ r.next.after <= cursor.through
              /\ r.work = NoWork => Passed(cursor.after, r.next.after)
    BY <1>1, <1>2, <1>5, <2>1, <2>2, PassAnswers
  <2>5. /\ turn' \in Holder /\ turn'.at = "normalUpdate" /\ turn'.by = turn.by
        /\ turn'.epoch = turn.epoch /\ turn'.cycle = turn.cycle /\ turn'.lease = turn.lease
        /\ turn'.through = turn.through /\ turn'.result = r /\ turn'.fair = turn.fair
    <3>1. "normalUpdate" \in Point BY DEF Point
    <3> QED BY <1>2, <1>5, <2>4, <3>1, MovedResult
  <2>6. uncovered' = (IF cursor.after = 0 THEN {} ELSE uncovered) \cup Crossed(cursor, r)
    <3>1. turn' # Idle BY <2>5, IdleHolds
    <3> QED BY <2>2, <2>5, <3>1 DEF NormalDiscover
  <2>7. cursor.after \in Nat /\ cursor.through \in Int BY <2>3 DEF Place
  <2>8. RecordsInv' /\ ExistInv' /\ Len(events') = Len(events)
    BY <1>1, <1>3 DEF RecordsInv, RunType, Key, Mandatory, Reextraction, OptionalKey, RunState, Event,
       ExistInv, Exists
  <2>9. CleanInv' /\ RxInv'
    BY <1>1, <1>3 DEF CleanInv, Unclosed, RxInv, AtRequest, EndedTo, Done, Reextraction, Stands,
       NoCursor, Unset
  <2>10. ASSUME NEW n \in Nat, Covered(n), cursor.after # 0 PROVE Covered(n)'
    BY <1>3, <2>6, <2>10 DEF Covered, Done, Mandatory
  <2>11. NormalInv'
    <3> SUFFICES ASSUME normal.epoch = epoch, ~arriving, normal.cursor # NoCursor
                 PROVE  AtPlace(normal.cursor, normal.dirty)'
      BY <1>3 DEF NormalInv, Stands, AtPlace, NoCursor, Unset
    <3>1. normal.epoch # Unset BY <1>2 DEF Unset
    <3>2. cursor = normal.cursor BY <1>1, <1>3, <2>3, <3>1 DEF NormalTurn
    <3>3. AtPlace(normal.cursor, normal.dirty) BY <1>1 DEF NormalInv
    <3>4. /\ cursor.through = Len(events)
          /\ ~normal.dirty => cursor.after <= Len(events) /\ Covered(cursor.after)
      BY <3>2, <3>3 DEF AtPlace
    <3>5. ~normal.dirty => Covered(cursor.after)'
      <4>1. CASE cursor.after = 0 BY <4>1 DEF Covered
      <4>2. CASE cursor.after # 0 BY <2>7, <2>10, <3>4, <4>2
      <4> QED BY <4>1, <4>2
    <3>6. normal' = normal BY <1>3 DEF Stands
    <3> QED BY <2>8, <3>2, <3>4, <3>5, <3>6 DEF AtPlace
  <2>12. Held BY <1>1, <1>2, <1>3, <2>5 DEF Held, EpochInv
  <2>13. World'
    BY <1>1, <1>2, <1>3, <2>8, <2>9, <2>11, <2>12, WorldGoes DEF Stands, CursorsInv, EpochInv
  <2>14. turn.by # "reextract" BY <1>1, <1>3 DEF WorkInv, WorkPoint
  <2>15. RxAnswer' /\ RxTurn' /\ WorkInv' /\ CompleteInv'
    BY <2>5, <2>14 DEF RxAnswer, RxTurn, WorkInv, WorkPoint, CompleteInv
  <2>16. CeilingInv' BY <2>4, <2>5, <2>8 DEF CeilingInv
  <2>17. AnswerInv'
    <3>1. Obligation(r.work) => Obligation(r.work)'
      BY <1>3 DEF Obligation, IsMemory, Key, Mandatory, Reextraction, OptionalKey, Exists
    <3> QED BY <2>4, <2>5, <3>1 DEF AnswerInv, NoWork, NoCursor, Unset
  <2>18. ~scans /\ ~rx.active /\ clean <= turn.epoch /\ ~turn.fair
    BY <1>1, <1>3 DEF QueueTurn, NormalTurn, NormalPoint
  <2>19. QueueTurn' BY <1>3, <2>5, <2>18 DEF QueueTurn, NormalPoint, RxPoint, Stands
  <2>20. NormalTurn' BY <1>1, <1>3, <2>5, <2>18 DEF NormalTurn, NormalPoint, RxPoint, Stands, Unset
  <2>21. OptionalInv' BY <1>3, <2>5, <2>18 DEF OptionalInv, OptionalPoint, WorkPoint, Stands
  <2>22. NormalAnswer'
    <3> SUFFICES ASSUME normal.epoch = turn.cycle, epoch = turn.cycle, ~arriving
                 PROVE  IF r.complete THEN ~normal.dirty => AllCovered'
                        ELSE AtPlace(r.next, normal.dirty \/ r.work # NoWork)'
      BY <1>3, <2>5 DEF NormalAnswer, Stands, NoWork, AtPlace, NoCursor, Unset
    <3>1. turn.cursor = normal.cursor BY <1>1, <1>3 DEF NormalTurn
    <3>2. AtPlace(normal.cursor, normal.dirty) BY <1>1 DEF NormalInv
    <3>3. /\ cursor.through = Len(events)
          /\ ~normal.dirty => Covered(cursor.after) \/ cursor.after = 0
      BY <2>3, <3>1, <3>2 DEF AtPlace
    <3>4. CASE r.complete
      <4> SUFFICES ASSUME ~normal.dirty PROVE AllCovered' BY <3>4
      <4>1. PICK high : high = cursor.through OBVIOUS
      <4>2. Covered(high)'
        BY <1>1, <1>3, <2>3, <2>4, <2>6, <2>7, <3>3, <3>4, <4>1, PassCovers
      <4> QED BY <2>8, <3>3, <4>1, <4>2 DEF AllCovered
    <3>5. CASE ~r.complete
      <4>1. r.next.through = Len(events') /\ r.next.after \in Nat /\ r.next.after <= Len(events')
        BY <2>4, <2>8, <3>3, <3>5 DEF Answer, Place
      <4>2. ASSUME ~normal.dirty, r.work = NoWork PROVE Covered(r.next.after)'
        <5>1. PICK high \in Nat : high = r.next.after BY <4>1
        <5>2. /\ high \in Int /\ high <= cursor.through /\ Passed(cursor.after, high)
              /\ high = IF r.complete THEN cursor.through ELSE r.next.after
          BY <2>4, <3>5, <4>2, <5>1
        <5>3. Covered(high)' BY <1>1, <1>3, <2>3, <2>6, <3>3, <4>2, <5>2, PassCovers
        <5> QED BY <5>1, <5>3
      <4> QED BY <1>3, <3>5, <4>1, <4>2 DEF AtPlace, Stands, NoWork
    <3> QED BY <3>4, <3>5
  <2> QED BY <2>13, <2>15, <2>16, <2>17, <2>19, <2>20, <2>21, <2>22 DEF SweepInv, Turn
<1> QED BY <1>3, <1>4, <1>5, DiscoverTurns

\* On, with no proof in front of it, to the end of the turn or to an item.
LEMMA TurnOutside ==
    ASSUME turn'.at = "idle" \/ (turn'.at \in WorkPoint /\ turn'.work.key[1] # "optional"), WorkInv',
           rx'.active => normal'.epoch = Unset, CompleteInv', scans' = FALSE
    PROVE  Turn'
<1>1. NormalAnswer' /\ RxAnswer' /\ RxTurn' /\ AnswerInv' /\ CeilingInv' /\ QueueTurn'
  BY DEF NormalAnswer, RxAnswer, RxTurn, AnswerInv, CeilingInv, QueueTurn, NormalPoint, RxPoint, WorkPoint
<1>2. NormalTurn' BY DEF NormalTurn, NormalPoint, RxPoint, WorkPoint, Unset
<1>3. OptionalInv' BY DEF OptionalInv, OptionalPoint, WorkPoint
<1> QED BY <1>1, <1>2, <1>3 DEF Turn

LEMMA ItemTaken ==
    ASSUME NEW work \in Item, Obligation(work), UNCHANGED <<run, requests>>,
           turn' = [Idle EXCEPT !.at = "process", !.work = work]
    PROVE  /\ turn' \in Holder /\ turn'.at = "process" /\ turn'.by = "turn"
           /\ turn'.epoch = 0 /\ turn'.cycle = 0 /\ turn'.lease = 0
           /\ turn'.work.key[1] # "optional" /\ WorkInv'
<1>1. /\ turn' \in Holder /\ turn'.at = "process" /\ turn'.by = "turn"
      /\ turn'.epoch = 0 /\ turn'.cycle = 0 /\ turn'.lease = 0 /\ turn'.work = work
  <2>1. "process" \in Point BY DEF Point
  <2> QED BY <2>1, FreshWork
<1>2. work.key \in Key /\ IsMemory(work.key) /\ Exists(work.key) BY DEF Obligation
<1>3. work.key[1] # "optional" BY <1>2 DEF IsMemory
<1>4. Exists(work.key)' BY <1>2 DEF Exists
<1>5. work.key \in Key' BY <1>2 DEF Key, Mandatory, Reextraction, OptionalKey
<1>6. WorkInv' BY <1>1, <1>3, <1>4, <1>5 DEF WorkInv, WorkPoint, Exists
<1> QED BY <1>1, <1>3, <1>6

LEMMA DispatchTurns ==
    ASSUME NEW updated, NEW onward, Dispatch(updated, onward)
    PROVE  \/ turn' = Idle
           \/ /\ turn.result.work # NoWork
              /\ turn' = [Idle EXCEPT !.at = "process", !.work = turn.result.work]
           \/ /\ turn.result.work = NoWork /\ onward
              /\ turn' = [Idle EXCEPT !.at = IF turn.at = "normalUpdate" THEN "rxStart" ELSE "verified",
                                      !.epoch = turn.epoch]
<1> DEFINE found == turn.result.work
           item == found.code # "" \/ (found # NoWork /\ updated /\ epoch = turn.epoch)
           forth == found = NoWork /\ onward
           work == [Idle EXCEPT !.at = "process", !.work = found]
           next == [Idle EXCEPT !.at = IF turn.at = "normalUpdate" THEN "rxStart" ELSE "verified",
                                !.epoch = turn.epoch]
<1>1. turn' = CASE item -> work [] forth -> next [] OTHER -> Idle BY DEF Dispatch
<1>2. item => found # NoWork
  <2>1. NoWork.code = "" BY DEF NoWork
  <2> QED BY <2>1
<1>3. forth => found = NoWork /\ onward OBVIOUS
<1> HIDE DEF item, forth, work, next
<1>4. turn' = Idle \/ (item /\ turn' = work) \/ (forth /\ turn' = next) BY <1>1
<1> QED BY <1>2, <1>3, <1>4 DEF work, next

\* Where the turn goes after a pass that gave no proof.
LEMMA Dispatched ==
    ASSUME CursorsInv, EpochInv, AnswerInv, turn.at \in {"normalUpdate", "rxUpdate"},
           UNCHANGED <<run, requests, fair>>,
           \/ turn' = Idle
           \/ /\ turn.result.work # NoWork
              /\ turn' = [Idle EXCEPT !.at = "process", !.work = turn.result.work]
    PROVE  /\ Held /\ WorkInv'
           /\ \/ turn'.at = "idle" /\ turn'.by # "reextract"
              \/ turn'.at \in WorkPoint /\ turn'.work.key[1] # "optional"
<1>1. /\ turn \in Holder /\ fair \in Place /\ fair.through <= Len(events) /\ epoch \in Nat
      /\ turn.result.work \in Item
  BY HolderParts DEF CursorsInv, EpochInv, Answer
<1>2. CASE turn' = Idle
  <2>1. turn'.at = "idle" /\ turn'.by # "reextract" BY <1>2, IdleHolds
  <2> QED BY <1>1, <1>2, <2>1, IdleHolds DEF Held, WorkInv, WorkPoint
<1>3. CASE /\ turn.result.work # NoWork
           /\ turn' = [Idle EXCEPT !.at = "process", !.work = turn.result.work]
  <2>1. Obligation(turn.result.work) BY <1>3 DEF AnswerInv
  <2>2. /\ turn' \in Holder /\ turn'.at = "process" /\ turn'.epoch = 0 /\ turn'.cycle = 0
        /\ turn'.lease = 0 /\ turn'.work.key[1] # "optional" /\ WorkInv'
    BY <1>1, <1>3, <2>1, ItemTaken
  <2> QED BY <1>1, <2>2 DEF Held, WorkPoint
<1> QED BY <1>2, <1>3

LEMMA NormalUpdates == ASSUME SweepInv, NormalUpdate PROVE SweepInv'
<1>1. /\ World /\ Turn /\ RecordsInv /\ ExistInv /\ CursorsInv /\ EpochInv /\ NormalInv /\ RxInv
      /\ NormalTurn /\ NormalAnswer /\ QueueTurn /\ WorkInv /\ CeilingInv /\ AnswerInv
  BY DEF SweepInv, World, Turn
<1>2. /\ turn \in Holder /\ fair \in Place /\ fair.through <= Len(events) /\ epoch \in Nat
      /\ normal \in NormalCycle /\ normal.cursor \in Place /\ normal.dirty \in BOOLEAN
      /\ normal.cursor.through <= Len(events) /\ Len(events) \in Nat
      /\ rx \in RxCycle /\ turn.cycle \in Nat /\ turn.cycle <= epoch
      /\ turn.epoch \in Nat /\ turn.epoch <= epoch
      /\ turn.result \in Answer /\ turn.result.next \in Place
  BY <1>1, HolderParts, Lengths DEF CursorsInv, EpochInv, NormalCycle, Answer
<1>3. /\ turn.at = "normalUpdate" /\ UNCHANGED <<events, requests, run, uncovered, fair>>
      /\ UNCHANGED <<scans, clean, epoch, arriving>>
  BY DEF NormalUpdate, durable, proof, outside
<1>4. Framed /\ Silent BY <1>1, <1>3, DurableRests
<1>5. /\ ~scans /\ ~rx.active /\ clean <= turn.epoch /\ ~turn.fair
      /\ turn.result.next.through <= Len(events)
      /\ turn.result.work = NoWork \/ ~turn.result.complete
      /\ turn.result.complete => turn.result.next = NoCursor
  BY <1>1, <1>3 DEF QueueTurn, NormalTurn, NormalPoint, CeilingInv, AnswerInv
<1>6. PICK dirty : dirty = Dirty(normal.dirty, turn.result) OBVIOUS
<1>7. dirty = (normal.dirty \/ turn.result.work # NoWork) /\ dirty \in BOOLEAN BY <1>2, <1>6 DEF Dirty
<1>8. RecordsInv' /\ ExistInv' /\ Len(events') = Len(events) BY <1>4 DEF Framed
<1>9. /\ rx = [active |-> rx.active, cursor |-> rx.cursor, epoch |-> rx.epoch, dirty |-> rx.dirty,
               pending |-> rx.pending]
      /\ rx.cursor \in Place /\ rx.dirty \in BOOLEAN /\ rx.pending \in BOOLEAN
  BY <1>2 DEF RxCycle
<1>10. CASE normal.epoch # turn.cycle
  <2>1. UNCHANGED <<normal, complete, rx>> /\ Stands /\ Dispatch(FALSE, FALSE)
    BY <1>3, <1>10 DEF NormalUpdate, Stands
  <2>2. complete = Unset /\ complete # epoch BY <1>1, <1>2, <1>3, <1>10 DEF NormalTurn, Unset
  <2>3. \/ turn' = Idle
        \/ /\ turn.result.work # NoWork
           /\ turn' = [Idle EXCEPT !.at = "process", !.work = turn.result.work]
    BY <2>1, DispatchTurns
  <2>4. /\ Held /\ WorkInv'
        /\ \/ turn'.at = "idle" /\ turn'.by # "reextract"
           \/ turn'.at \in WorkPoint /\ turn'.work.key[1] # "optional"
    BY <1>1, <1>3, <2>3, Dispatched
  <2>5. World' BY <1>1, <1>4, <2>1, <2>4, WorldStands
  <2>6. Turn' BY <1>3, <1>4, <2>1, <2>2, <2>4, TurnFree, TurnWorks
  <2> QED BY <2>5, <2>6 DEF SweepInv
<1>11. CASE normal.epoch = turn.cycle /\ turn.result.complete /\ ~dirty
  <2>1. /\ normal' = NoNormal
        /\ complete' = IF epoch = turn.cycle THEN turn.cycle ELSE Unset
        /\ rx' = IF epoch = turn.cycle THEN [rx EXCEPT !.active = TRUE, !.epoch = turn.cycle]
                 ELSE [rx EXCEPT !.active = FALSE, !.epoch = Unset]
        /\ Dispatch(TRUE, epoch = turn.cycle)
    BY <1>3, <1>6, <1>11 DEF NormalUpdate
  <2>2. /\ normal' \in NormalCycle /\ normal'.epoch = Unset /\ normal'.cursor = NoCursor
        /\ normal'.epoch <= epoch /\ normal'.cursor.through <= Len(events)
    BY <1>2, <2>1, IdleHolds DEF NoNormal, NormalCycle, Unset
  <2>3. NormalInv' BY <1>2, <1>3, <2>2 DEF NormalInv, Unset
  <2>4. /\ rx' \in RxCycle /\ rx'.epoch <= epoch /\ rx'.cursor = rx.cursor /\ rx'.dirty = rx.dirty
        /\ rx'.pending = rx.pending
    <3>1. rx' = [active |-> epoch = turn.cycle, cursor |-> rx.cursor,
                 epoch |-> IF epoch = turn.cycle THEN turn.cycle ELSE Unset, dirty |-> rx.dirty,
                 pending |-> rx.pending]
      BY <1>9, <2>1
    <3> QED BY <1>2, <1>9, <3>1 DEF RxCycle, Unset
  <2>5. RxInv'
    <3>1. PICK c, d, p : c = rx.cursor /\ d = rx.dirty /\ p = rx.pending OBVIOUS
    <3>2. AtRequest(c, d, p) BY <1>1, <3>1 DEF RxInv
    <3>3. AtRequest(c, d, p)' BY <1>1, <1>4, <1>9, <3>1, <3>2, FrameCovers
    <3> QED BY <2>4, <3>1, <3>3 DEF RxInv
  <2>6. complete' \in Int /\ complete' <= epoch BY <1>2, <2>1 DEF Unset
  <2>7. CompleteInv'
    <3> SUFFICES ASSUME complete' = epoch, ~arriving PROVE AllCovered' BY <1>3 DEF CompleteInv
    <3>1. epoch = turn.cycle BY <1>2, <2>1 DEF Unset
    <3>2. AllCovered BY <1>1, <1>3, <1>7, <1>11, <3>1 DEF NormalAnswer
    <3> QED BY <1>1, <1>4, <3>2, FrameCovers
  <2>8. CASE turn' = Idle
    <3>1. /\ Held /\ WorkInv' /\ turn'.at = "idle" BY <1>1, <1>3, <2>8, Dispatched, IdleHolds
    <3>2. World' BY <1>1, <1>2, <1>3, <1>4, <1>8, <2>2, <2>3, <2>4, <2>5, <2>6, <3>1, CyclesRest, WorldGoes
    <3>3. scans' = FALSE BY <1>1, <1>3, <1>5 DEF CursorsInv
    <3>4. Turn' BY <2>2, <2>7, <3>1, <3>3, TurnOutside
    <3> QED BY <3>2, <3>4 DEF SweepInv
  <2>9. CASE epoch = turn.cycle /\ turn' = [Idle EXCEPT !.at = "rxStart", !.epoch = turn.epoch]
    <3>1. /\ turn' \in Holder /\ turn'.at = "rxStart" /\ turn'.by = "turn" /\ turn'.epoch = turn.epoch
          /\ turn'.cycle = 0 /\ turn'.lease = 0 /\ turn'.fair = FALSE
      <4>1. "rxStart" \in Point BY DEF Point
      <4> QED BY <1>2, <2>9, <4>1, FreshQueue
    <3>2. Held BY <1>2, <1>3, <3>1 DEF Held
    <3>3. World' BY <1>1, <1>2, <1>3, <1>4, <1>8, <2>2, <2>3, <2>4, <2>5, <2>6, <3>2, CyclesRest, WorldGoes
    <3>4. NormalAnswer' /\ RxAnswer' /\ RxTurn' /\ AnswerInv' /\ CeilingInv' /\ WorkInv'
      BY <3>1 DEF NormalAnswer, RxAnswer, RxTurn, AnswerInv, CeilingInv, WorkInv, WorkPoint
    <3>5. QueueTurn' BY <1>3, <1>5, <3>1 DEF QueueTurn, NormalPoint, RxPoint
    <3>6. NormalTurn' BY <2>2, <3>1 DEF NormalTurn, NormalPoint, RxPoint, Unset
    <3>7. OptionalInv' BY <1>3, <1>5, <3>1 DEF OptionalInv, OptionalPoint, WorkPoint
    <3> QED BY <2>7, <3>3, <3>4, <3>5, <3>6, <3>7 DEF SweepInv, Turn
  <2>10. turn.result.work = NoWork BY <1>7, <1>11
  <2> QED BY <1>3, <2>1, <2>8, <2>9, <2>10, DispatchTurns
<1>12. CASE normal.epoch = turn.cycle /\ ~(turn.result.complete /\ ~dirty)
  <2> DEFINE kept == IF turn.result.next = NoCursor THEN normal.cursor ELSE turn.result.next
  <2>1. /\ normal' = IF turn.result.complete
                     THEN [cursor |-> [kept EXCEPT !.after = 0], epoch |-> normal.epoch, dirty |-> FALSE]
                     ELSE [cursor |-> kept, epoch |-> normal.epoch, dirty |-> dirty]
        /\ complete' = Unset
        /\ rx' = IF turn.result.complete THEN [rx EXCEPT !.active = FALSE, !.epoch = Unset] ELSE rx
        /\ Dispatch(TRUE, FALSE)
    BY <1>3, <1>6, <1>12 DEF NormalUpdate
  <2>2. kept \in Place /\ kept.through <= Len(events) BY <1>2, <1>5
  <2>3. kept = [after |-> kept.after, through |-> kept.through] /\ kept.after \in Nat
        /\ kept.through \in Int
    BY <2>2 DEF Place
  <2>4. [kept EXCEPT !.after = 0] = [after |-> 0, through |-> kept.through] BY <2>3
  <2>5. [kept EXCEPT !.after = 0] \in Place BY <2>3, <2>4 DEF Place
  <2> DEFINE back == [kept EXCEPT !.after = 0]
  <2>6. back.after = 0 /\ back.through = kept.through BY <2>4
  <2>7. turn.result.complete => kept = normal.cursor BY <1>5
  <2>8. ~turn.result.complete /\ normal.epoch = epoch /\ ~arriving => AtPlace(kept, dirty)
    <3> SUFFICES ASSUME ~turn.result.complete, normal.epoch = epoch, ~arriving PROVE AtPlace(kept, dirty)
      OBVIOUS
    <3>1. AtPlace(normal.cursor, normal.dirty) BY <1>1 DEF NormalInv
    <3>2. AtPlace(normal.cursor, dirty) BY <1>7, <3>1 DEF AtPlace
    <3>3. AtPlace(turn.result.next, dirty) BY <1>1, <1>3, <1>7, <1>12 DEF NormalAnswer
    <3> QED BY <3>2, <3>3
  <2>9. normal.epoch = epoch /\ ~arriving => AtPlace(back, FALSE) \/ ~turn.result.complete
    <3> SUFFICES ASSUME normal.epoch = epoch, ~arriving, turn.result.complete PROVE AtPlace(back, FALSE)
      OBVIOUS
    <3>1. AtPlace(normal.cursor, normal.dirty) BY <1>1 DEF NormalInv
    <3>2. CASE normal.cursor = NoCursor
      <4>1. back = NoCursor BY <2>4, <2>7, <3>2 DEF NoCursor
      <4> QED BY <4>1 DEF AtPlace
    <3>3. CASE normal.cursor # NoCursor
      <4>1. back.through = Len(events) BY <2>6, <2>7, <3>1, <3>3 DEF AtPlace
      <4>2. Covered(back.after) BY <2>6 DEF Covered
      <4> QED BY <1>2, <2>6, <4>1, <4>2 DEF AtPlace
    <3> QED BY <3>2, <3>3
  <2> HIDE DEF kept, back
  <2>10. PICK c, d : /\ c = IF turn.result.complete THEN back ELSE kept
                     /\ d = IF turn.result.complete THEN FALSE ELSE dirty
    OBVIOUS
  <2>11. /\ c \in Place /\ d \in BOOLEAN /\ c.through <= Len(events)
         /\ normal.epoch = epoch /\ ~arriving => AtPlace(c, d)
    BY <1>7, <2>2, <2>5, <2>6, <2>8, <2>9, <2>10 DEF back
  <2>12. normal' = [cursor |-> c, epoch |-> normal.epoch, dirty |-> d] BY <2>1, <2>10 DEF back
  <2>13. /\ normal' \in NormalCycle /\ normal'.epoch = turn.cycle /\ normal'.epoch # Unset
         /\ normal'.epoch <= epoch /\ normal'.cursor = c /\ normal'.dirty = d
         /\ normal'.cursor.through <= Len(events)
    BY <1>2, <1>12, <2>11, <2>12 DEF NormalCycle, Unset
  <2>14. NormalInv'
    <3>1. AtPlace(c, d) => AtPlace(c, d)' BY <1>1, <1>4, <2>11, FrameCovers
    <3> QED BY <1>3, <1>12, <2>11, <2>13, <3>1 DEF NormalInv
  <2>15. /\ rx' \in RxCycle /\ rx'.epoch <= epoch /\ rx'.cursor = rx.cursor /\ rx'.dirty = rx.dirty
         /\ rx'.pending = rx.pending /\ rx'.active = FALSE
    <3>1. CASE ~turn.result.complete
      BY <1>1, <1>2, <1>5, <1>9, <2>1, <3>1 DEF EpochInv, RxCycle
    <3>2. CASE turn.result.complete
      <4>1. rx' = [active |-> FALSE, cursor |-> rx.cursor, epoch |-> Unset, dirty |-> rx.dirty,
                   pending |-> rx.pending]
        BY <1>9, <2>1, <3>2
      <4> QED BY <1>2, <1>9, <4>1 DEF RxCycle, Unset
    <3> QED BY <3>1, <3>2
  <2>16. RxInv'
    <3>1. PICK x, y, z : x = rx.cursor /\ y = rx.dirty /\ z = rx.pending OBVIOUS
    <3>2. AtRequest(x, y, z) BY <1>1, <3>1 DEF RxInv
    <3>3. AtRequest(x, y, z)' BY <1>1, <1>4, <1>9, <3>1, <3>2, FrameCovers
    <3> QED BY <2>15, <3>1, <3>3 DEF RxInv
  <2>17. \/ turn' = Idle
         \/ /\ turn.result.work # NoWork
            /\ turn' = [Idle EXCEPT !.at = "process", !.work = turn.result.work]
    BY <2>1, DispatchTurns
  <2>18. /\ Held /\ WorkInv'
         /\ turn'.at = "idle" \/ (turn'.at \in WorkPoint /\ turn'.work.key[1] # "optional")
    BY <1>1, <1>3, <2>17, Dispatched
  <2>19. complete' \in Int /\ complete' <= epoch /\ complete' # epoch BY <1>2, <2>1 DEF Unset
  <2>20. World'
    BY <1>1, <1>2, <1>3, <1>4, <1>8, <2>13, <2>14, <2>15, <2>16, <2>18, <2>19, CyclesRest, WorldGoes
  <2>21. CompleteInv' BY <1>3, <2>19 DEF CompleteInv
  <2>22. scans' = FALSE BY <1>1, <1>3, <1>5 DEF CursorsInv
  <2>23. Turn' BY <2>15, <2>18, <2>21, <2>22, TurnOutside
  <2> QED BY <2>20, <2>23 DEF SweepInv
<1> QED BY <1>10, <1>11, <1>12

-----------------------------------------------------------------------------
(* The re-extraction cycle.                                                *)

LEMMA RequestPass ==
    ASSUME RecordsInv, ExistInv, NEW start \in Place, start.through <= Len(requests), NEW result,
           LET answer == DiscoverMemoryReextractionWork(start)
           IN  result = answer.whole \/ result \in answer.partial,
           NEW cursor,
           cursor = IF start = NoCursor THEN [after |-> 0, through |-> Len(requests)] ELSE start
    PROVE  /\ result \in Answer
           /\ result.work = NoWork \/ (Obligation(result.work) /\ ~result.complete)
           /\ result.complete =>
                /\ result.next = NoCursor
                /\ \A i \in cursor.after + 1 .. cursor.through : Done(Reextraction(i))
           /\ ~result.complete =>
                /\ result.next.through = cursor.through
                /\ result.next.after <= cursor.through
                /\ result.work = NoWork =>
                     \A i \in cursor.after + 1 .. result.next.after : Done(Reextraction(i))
<1>1. Len(requests) \in Nat BY Lengths
<1>2. cursor \in Place /\ cursor.through <= Len(requests) BY <1>1 DEF Place
<1>3. cursor.after \in Nat /\ cursor.through \in Int
      /\ cursor = [after |-> cursor.after, through |-> cursor.through]
  BY <1>2 DEF Place
<1> DEFINE todo == {i \in cursor.after + 1 .. cursor.through : memoryWorkNeedsAttention(Reextraction(i))}
           stop == IF todo = {} THEN cursor.through ELSE Least(todo) - 1
<1>4. todo \subseteq cursor.after + 1 .. cursor.through OBVIOUS
<1>5. todo # {} => Least(todo) \in todo /\ \A j \in todo : Least(todo) <= j
  <2>1. todo \subseteq Nat BY <1>3, <1>4
  <2> HIDE DEF todo
  <2> QED BY <2>1, LeastIn
<1>6. \A i \in cursor.after + 1 .. cursor.through : i \in 1 .. Len(requests) BY <1>1, <1>2, <1>3
<1>7. ASSUME NEW i \in cursor.after + 1 .. cursor.through, i \notin todo PROVE Done(Reextraction(i))
  <2>1. i \in 1 .. Len(requests) BY <1>6
  <2>2. Reextraction(i) \in Key /\ Exists(Reextraction(i)) BY <2>1, Lengths DEF ExistInv
  <2>3. memoryWorkNeedsAttention(Reextraction(i)) <=> ~Done(Reextraction(i))
    BY <2>2, RunStates DEF RecordsInv
  <2> QED BY <1>7, <2>3
<1>8. CASE todo = {} /\ result = [NoResult EXCEPT !.complete = TRUE]
  <2>1. result.complete /\ result.next = NoCursor /\ result.work = NoWork /\ result \in Answer
    BY <1>8, IdleHolds DEF NoResult, Answer
  <2>2. \A i \in cursor.after + 1 .. cursor.through : Done(Reextraction(i)) BY <1>7, <1>8
  <2> QED BY <2>1, <2>2
<1>9. CASE /\ todo # {}
           /\ result = [work |-> classify(Reextraction(Least(todo))),
                        next |-> [cursor EXCEPT !.after = Least(todo)], complete |-> FALSE]
  <2>1. PICK i : i = Least(todo) OBVIOUS
  <2>2. i \in cursor.after + 1 .. cursor.through /\ i \in 1 .. Len(requests) /\ i \in Nat
    BY <1>3, <1>4, <1>5, <1>6, <1>9, <2>1
  <2>3. Reextraction(i) \in Key /\ Exists(Reextraction(i)) BY <2>2, Lengths DEF ExistInv
  <2>4. [cursor EXCEPT !.after = i] = [after |-> i, through |-> cursor.through] BY <1>3
  <2>5. result.next = [after |-> i, through |-> cursor.through] /\ result.next \in Place
    BY <1>3, <1>9, <2>1, <2>2, <2>4 DEF Place
  <2>6. /\ classify(Reextraction(i)) \in Item /\ classify(Reextraction(i)).key = Reextraction(i)
        /\ classify(Reextraction(i)) # NoWork
    <3>1. run[Reextraction(i)].state \in RunState BY <2>3, RunStates DEF RecordsInv
    <3>2. CancellationCode(Source(Reextraction(i))) \in Code /\ "" \in Code
      BY DEF CancellationCode, Code
    <3>3. Reextraction(i) # <<>>
      <4>1. Len(Reextraction(i)) = 2 /\ Len(<<>>) = 0 BY DEF Reextraction
      <4> QED BY <4>1
    <3> QED BY <2>3, <3>1, <3>2, <3>3 DEF classify, Found, Item, NoWork
  <2>7. Obligation(result.work)
    BY <1>9, <2>1, <2>3, <2>6, Keys DEF Obligation, IsMemory
  <2>8. result.work = classify(Reextraction(i)) /\ ~result.complete /\ result \in Answer
    BY <1>9, <2>1, <2>5, <2>6 DEF Answer
  <2> QED BY <1>2, <1>3, <2>2, <2>5, <2>6, <2>7, <2>8
<1>10. ASSUME NEW j \in cursor.after .. stop,
              result = [NoResult EXCEPT !.next = [cursor EXCEPT !.after = j]]
       PROVE  /\ result \in Answer /\ result.work = NoWork /\ ~result.complete
              /\ result.next.through = cursor.through /\ result.next.after <= cursor.through
              /\ \A i \in cursor.after + 1 .. result.next.after : Done(Reextraction(i))
  <2>1. stop \in Int /\ stop <= cursor.through BY <1>3, <1>4, <1>5
  <2>2. j \in Nat /\ j <= stop /\ j <= cursor.through BY <1>3, <2>1
  <2>3. [cursor EXCEPT !.after = j] = [after |-> j, through |-> cursor.through] BY <1>3
  <2>4. result = [work |-> NoWork, next |-> [after |-> j, through |-> cursor.through],
                  complete |-> FALSE]
    BY <1>10, <2>3 DEF NoResult
  <2>5. result.next = [after |-> j, through |-> cursor.through] /\ result.next \in Place
    BY <1>3, <2>2, <2>4 DEF Place
  <2>6. ASSUME NEW i \in cursor.after + 1 .. j PROVE Done(Reextraction(i))
    <3>1. i \in cursor.after + 1 .. cursor.through /\ i <= stop BY <1>3, <2>1, <2>2
    <3>2. i \notin todo
      <4>1. CASE todo = {} BY <4>1
      <4>2. CASE todo # {}
        <5>1. stop = Least(todo) - 1 /\ Least(todo) \in Int /\ \A k \in todo : Least(todo) <= k
          BY <1>3, <1>4, <1>5, <4>2
        <5> HIDE DEF todo, stop
        <5> QED BY <1>3, <2>1, <3>1, <5>1
      <4> QED BY <4>1, <4>2
    <3> QED BY <1>7, <3>1, <3>2
  <2>7. result \in Answer BY <2>4, <2>5, IdleHolds DEF Answer
  <2> QED BY <2>2, <2>4, <2>5, <2>6, <2>7
<1>11. CASE result \in {[NoResult EXCEPT !.next = [cursor EXCEPT !.after = j]] :
                          j \in cursor.after .. stop}
  <2> HIDE DEF stop, todo
  <2>1. PICK j \in cursor.after .. stop :
          result = [NoResult EXCEPT !.next = [cursor EXCEPT !.after = j]]
    BY <1>11
  <2> QED BY <1>10, <2>1
<1>12. \/ todo = {} /\ result = [NoResult EXCEPT !.complete = TRUE]
       \/ /\ todo # {}
          /\ result = [work |-> classify(Reextraction(Least(todo))),
                       next |-> [cursor EXCEPT !.after = Least(todo)], complete |-> FALSE]
       \/ result \in {[NoResult EXCEPT !.next = [cursor EXCEPT !.after = j]] :
                          j \in cursor.after .. stop}
  BY DEF DiscoverMemoryReextractionWork
<1> HIDE DEF todo, stop
<1> QED BY <1>8, <1>9, <1>11, <1>12

LEMMA RxStarts == ASSUME SweepInv, RxStart PROVE SweepInv'
<1>1. /\ World /\ Turn /\ RecordsInv /\ ExistInv /\ CursorsInv /\ EpochInv /\ CompleteInv
      /\ RxInv /\ NormalTurn /\ QueueTurn /\ WorkInv
  BY DEF SweepInv, World, Turn
<1>2. /\ turn \in Holder /\ fair \in Place /\ fair.through <= Len(events) /\ epoch \in Nat
      /\ rx \in RxCycle /\ Len(requests) \in Nat
  BY <1>1, Lengths DEF CursorsInv, EpochInv
<1>3. /\ turn.at = "rxStart" /\ UNCHANGED <<events, requests, run, uncovered, fair>>
      /\ UNCHANGED <<normal, complete, scans, clean, epoch, arriving>>
  BY DEF RxStart, durable, proof, outside
<1>4. Framed /\ Silent BY <1>1, <1>3, DurableRests
<1>5. CASE turn' = Idle /\ rx' = rx
  <2>1. Stands BY <1>3, <1>5 DEF Stands
  <2> QED BY <1>3, <1>4, <1>5, <2>1, TurnEnds
<1>6. ASSUME NEW cycle, cycle = IF rx.epoch = Unset THEN turn.epoch ELSE rx.epoch, rx.active,
             rx' = [rx EXCEPT !.epoch = cycle, !.pending = rx.pending /\ rx.cursor # NoCursor],
             turn' = [turn EXCEPT !.at = "rxDiscover", !.cycle = cycle, !.cursor = rx.cursor]
      PROVE  SweepInv'
  <2>1. cycle \in Nat /\ cycle <= epoch
    BY <1>1, <1>2, <1>6, HolderParts DEF RxCycle, EpochInv
  <2>2. /\ rx = [active |-> rx.active, cursor |-> rx.cursor, epoch |-> rx.epoch, dirty |-> rx.dirty,
                 pending |-> rx.pending]
        /\ rx.active \in BOOLEAN /\ rx.cursor \in Place /\ rx.dirty \in BOOLEAN /\ rx.pending \in BOOLEAN
    BY <1>2 DEF RxCycle
  <2>3. PICK pending \in BOOLEAN : pending = (rx.pending /\ rx.cursor # NoCursor) BY <2>2
  <2>4. rx' = [active |-> rx.active, cursor |-> rx.cursor, epoch |-> cycle, dirty |-> rx.dirty,
               pending |-> pending]
    BY <1>6, <2>2, <2>3
  <2>5. /\ rx' \in RxCycle /\ rx'.epoch = cycle /\ rx'.cursor = rx.cursor /\ rx'.dirty = rx.dirty
        /\ rx'.pending = pending /\ rx'.active = rx.active
    BY <2>1, <2>2, <2>4 DEF RxCycle
  <2>6. /\ turn' \in Holder /\ turn'.at = "rxDiscover" /\ turn'.by = turn.by
        /\ turn'.epoch = turn.epoch /\ turn'.cycle = cycle /\ turn'.lease = turn.lease
        /\ turn'.cursor = rx.cursor /\ turn'.fair = turn.fair
    <3>1. PICK a \in Point, cur \in Place : a = "rxDiscover" /\ cur = rx.cursor BY <2>2 DEF Point
    <3>2. turn' = CycleTurn(a, cycle, cur) BY <1>6, <3>1 DEF CycleTurn
    <3>3. /\ turn' \in Holder /\ turn'.at = a /\ turn'.by = turn.by /\ turn'.epoch = turn.epoch
          /\ turn'.cycle = cycle /\ turn'.cursor = cur /\ turn'.fair = turn.fair /\ turn'.lease = turn.lease
      BY <1>2, <2>1, <3>2, MovedCycle
    <3> QED BY <3>1, <3>3
  <2>7. Held BY <1>1, <1>2, <1>3, <2>1, <2>6 DEF Held, EpochInv
  <2>8. RecordsInv' /\ ExistInv' /\ Len(events') = Len(events) /\ Len(requests') = Len(requests)
    BY <1>4 DEF Framed
  <2>9. rx.cursor = NoCursor \/ AtRequest(rx.cursor, rx.dirty, pending)
    BY <1>1, <2>2, <2>3 DEF RxInv
  <2>10. RxInv'
    <3>1. PICK c, d : c = rx.cursor /\ d = rx.dirty OBVIOUS
    <3>2. AtRequest(c, d, pending) => AtRequest(c, d, pending)' BY <1>1, <1>4, <2>2, <3>1, FrameCovers
    <3>3. c = NoCursor \/ AtRequest(c, d, pending)' BY <2>9, <3>1, <3>2
    <3>4. AtRequest(c, d, pending)' BY <3>3 DEF AtRequest, NoCursor, Unset
    <3> QED BY <2>5, <3>1, <3>4 DEF RxInv
  <2>11. World'
    BY <1>1, <1>2, <1>3, <1>4, <2>1, <2>5, <2>7, <2>8, <2>10, CyclesRest, WorldGoes
  <2>12. turn.by # "reextract" BY <1>1, <1>3 DEF WorkInv, WorkPoint
  <2>13. NormalAnswer' /\ RxAnswer' /\ AnswerInv' /\ WorkInv'
    BY <2>6, <2>12 DEF NormalAnswer, RxAnswer, AnswerInv, WorkInv, WorkPoint
  <2>14. CeilingInv'
    <3>1. rx.cursor.through <= Len(requests)
      <4>1. NoCursor.through <= Len(requests) BY <1>2, IdleHolds DEF Unset
      <4> QED BY <1>1, <4>1 DEF RxInv, AtRequest
    <3> QED BY <2>6, <2>8, <3>1 DEF CeilingInv
  <2>15. ~scans /\ clean <= turn.epoch /\ ~turn.fair /\ normal.epoch = Unset
    BY <1>1, <1>3 DEF QueueTurn, NormalTurn, NormalPoint, RxPoint
  <2>16. QueueTurn' BY <1>3, <2>6, <2>15 DEF QueueTurn, NormalPoint, RxPoint
  <2>17. NormalTurn' BY <1>3, <2>6, <2>15 DEF NormalTurn, NormalPoint, RxPoint, Unset
  <2>18. CompleteInv' BY <1>1, <1>3, <1>4, FrameCovers DEF CompleteInv
  <2>19. OptionalInv' BY <1>3, <2>6, <2>15 DEF OptionalInv, OptionalPoint, WorkPoint
  <2>20. RxTurn' BY <2>3, <2>5, <2>6 DEF RxTurn, NoCursor, Unset
  <2> QED BY <2>11, <2>13, <2>14, <2>16, <2>17, <2>18, <2>19, <2>20 DEF SweepInv, Turn
<1> QED BY <1>5, <1>6 DEF RxStart, EndTurn

LEMMA RxDiscovers == ASSUME SweepInv, RxDiscover PROVE SweepInv'
<1>1. /\ World /\ Turn /\ RecordsInv /\ ExistInv /\ CursorsInv /\ EpochInv /\ CompleteInv
      /\ RxInv /\ RxTurn /\ NormalTurn /\ QueueTurn /\ WorkInv /\ CeilingInv
  BY DEF SweepInv, World, Turn
<1>2. /\ turn \in Holder /\ fair \in Place /\ fair.through <= Len(events) /\ epoch \in Nat
      /\ turn.cursor \in Place /\ Len(requests) \in Nat
  BY <1>1, HolderParts, Lengths DEF CursorsInv, EpochInv
<1>3. /\ turn.at = "rxDiscover" /\ UNCHANGED <<events, requests, run, uncovered, fair>> /\ Stands
      /\ Discover(DiscoverMemoryReextractionWork(turn.cursor), "rxUpdate")
  BY DEF RxDiscover, durable, proof, cursors, outside, Stands
<1>4. Framed /\ Silent BY <1>1, <1>3, DurableRests
<1>5. CASE turn' = Idle BY <1>3, <1>4, <1>5, TurnEnds
<1>6. ASSUME NEW r,
             LET answer == DiscoverMemoryReextractionWork(turn.cursor)
             IN  r = answer.whole \/ r \in answer.partial,
             turn' = [turn EXCEPT !.at = "rxUpdate", !.result = r]
      PROVE  SweepInv'
  <2>1. PICK cursor :
          cursor = IF turn.cursor = NoCursor THEN [after |-> 0, through |-> Len(requests)] ELSE turn.cursor
    OBVIOUS
  <2>2. /\ r \in Answer
        /\ r.work = NoWork \/ (Obligation(r.work) /\ ~r.complete)
        /\ r.complete =>
             /\ r.next = NoCursor
             /\ \A i \in cursor.after + 1 .. cursor.through : Done(Reextraction(i))
        /\ ~r.complete =>
             /\ r.next.through = cursor.through /\ r.next.after <= cursor.through
             /\ r.work = NoWork =>
                  \A i \in cursor.after + 1 .. r.next.after : Done(Reextraction(i))
    <3>1. turn.cursor.through <= Len(requests) BY <1>1, <1>3 DEF CeilingInv
    <3> QED BY <1>1, <1>2, <1>6, <2>1, <3>1, RequestPass
  <2>3. /\ turn' \in Holder /\ turn'.at = "rxUpdate" /\ turn'.by = turn.by
        /\ turn'.epoch = turn.epoch /\ turn'.cycle = turn.cycle /\ turn'.lease = turn.lease
        /\ turn'.result = r /\ turn'.fair = turn.fair
    <3>1. "rxUpdate" \in Point BY DEF Point
    <3> QED BY <1>2, <1>6, <2>2, <3>1, MovedResult
  <2>4. Held BY <1>1, <1>2, <1>3, <2>3 DEF Held, EpochInv
  <2>5. World' BY <1>1, <1>3, <1>4, <2>4, WorldStands
  <2>6. turn.by # "reextract" BY <1>1, <1>3 DEF WorkInv, WorkPoint
  <2>7. NormalAnswer' /\ RxTurn' /\ WorkInv' /\ CeilingInv'
    BY <2>3, <2>6 DEF NormalAnswer, RxTurn, WorkInv, WorkPoint, CeilingInv
  <2>8. AnswerInv'
    <3>1. Obligation(r.work) => Obligation(r.work)'
      BY <1>3 DEF Obligation, IsMemory, Key, Mandatory, Reextraction, OptionalKey, Exists
    <3> QED BY <2>2, <2>3, <3>1 DEF AnswerInv, NoWork, NoCursor, Unset
  <2>9. ~scans /\ clean <= turn.epoch /\ ~turn.fair /\ normal.epoch = Unset
    BY <1>1, <1>3 DEF QueueTurn, NormalTurn, NormalPoint, RxPoint
  <2>10. QueueTurn' BY <1>3, <2>3, <2>9 DEF QueueTurn, NormalPoint, RxPoint, Stands
  <2>11. NormalTurn' BY <1>3, <2>3, <2>9 DEF NormalTurn, NormalPoint, RxPoint, Stands, Unset
  <2>12. CompleteInv' BY <1>1, <1>3, <1>4, FrameCovers DEF CompleteInv, Stands
  <2>13. OptionalInv' BY <1>3, <2>3, <2>9 DEF OptionalInv, OptionalPoint, WorkPoint, Stands
  <2>14. RxAnswer'
    <3> SUFFICES ASSUME rx.epoch = turn.cycle
                 PROVE  IF r.complete THEN ~rx.dirty /\ ~rx.pending => AllEnded'
                        ELSE AtRequest(r.next, rx.dirty \/ r.work # NoWork, rx.pending)'
      BY <1>3, <2>3 DEF RxAnswer, Stands, NoWork, AtRequest, NoCursor, Unset
    <3>1. turn.cursor = rx.cursor /\ (rx.cursor = NoCursor => ~rx.pending) BY <1>1, <1>3 DEF RxTurn
    <3>2. AtRequest(rx.cursor, rx.dirty, rx.pending) BY <1>1 DEF RxInv
    <3>3. /\ cursor.through <= Len(requests) /\ (~rx.pending => cursor.through = Len(requests))
          /\ cursor.after \in Nat /\ cursor.through \in Int
          /\ ~rx.dirty => \A i \in 1 .. cursor.after : Done(Reextraction(i))
      <4>1. CASE rx.cursor = NoCursor
        <5>1. cursor = [after |-> 0, through |-> Len(requests)] BY <2>1, <3>1, <4>1
        <5> QED BY <1>2, <5>1
      <4>2. CASE rx.cursor # NoCursor
        BY <1>2, <2>1, <3>1, <3>2, <4>2 DEF AtRequest, EndedTo, Place
      <4> QED BY <4>1, <4>2
    <3>4. \A i : Done(Reextraction(i)) => Done(Reextraction(i))' BY <1>3 DEF Done, Reextraction
    <3>5. CASE r.complete
      <4> SUFFICES ASSUME ~rx.dirty, ~rx.pending PROVE AllEnded' BY <3>5
      <4>1. \A i \in 1 .. Len(requests) : Done(Reextraction(i))
        BY <2>2, <3>3, <3>5
      <4> QED BY <1>3, <3>4, <4>1 DEF AllEnded, EndedTo
    <3>6. CASE ~r.complete
      <4>1. r.next.after \in Nat BY <2>2 DEF Answer, Place
      <4>2. ASSUME ~rx.dirty, r.work = NoWork, NEW i \in 1 .. r.next.after
            PROVE  Done(Reextraction(i))
        BY <2>2, <3>3, <3>6, <4>1, <4>2
      <4>3. /\ r.next.through <= Len(requests) /\ (~rx.pending => r.next.through = Len(requests))
            /\ r.next.after <= Len(requests)
        BY <1>2, <2>2, <3>3, <3>6, <4>1
      <4> QED BY <1>3, <3>4, <3>6, <4>2, <4>3 DEF AtRequest, EndedTo, Stands, NoWork
    <3> QED BY <3>5, <3>6
  <2> QED BY <2>5, <2>7, <2>8, <2>10, <2>11, <2>12, <2>13, <2>14 DEF SweepInv, Turn
<1> QED BY <1>3, <1>5, <1>6, DiscoverTurns

LEMMA RxUpdates == ASSUME SweepInv, RxUpdate PROVE SweepInv'
<1>1. /\ World /\ Turn /\ RecordsInv /\ ExistInv /\ CursorsInv /\ EpochInv /\ CompleteInv
      /\ RxInv /\ RxAnswer /\ NormalTurn /\ QueueTurn /\ WorkInv /\ AnswerInv
  BY DEF SweepInv, World, Turn
<1>2. /\ turn \in Holder /\ fair \in Place /\ fair.through <= Len(events) /\ epoch \in Nat
      /\ rx \in RxCycle /\ Len(requests) \in Nat /\ turn.epoch \in Nat /\ turn.epoch <= epoch
      /\ turn.result \in Answer /\ turn.result.next \in Place
  BY <1>1, HolderParts, Lengths DEF CursorsInv, EpochInv, Answer
<1>3. /\ turn.at = "rxUpdate" /\ UNCHANGED <<events, requests, run, uncovered, fair>>
      /\ UNCHANGED <<normal, scans, clean, epoch, arriving>>
  BY DEF RxUpdate, durable, proof, outside
<1>4. Framed /\ Silent BY <1>1, <1>3, DurableRests
<1>5. /\ ~scans /\ clean <= turn.epoch /\ ~turn.fair /\ normal.epoch = Unset
      /\ turn.result.work = NoWork \/ ~turn.result.complete
      /\ turn.result.complete => turn.result.next = NoCursor
  BY <1>1, <1>3 DEF QueueTurn, NormalTurn, NormalPoint, RxPoint, AnswerInv
<1>6. /\ rx = [active |-> rx.active, cursor |-> rx.cursor, epoch |-> rx.epoch, dirty |-> rx.dirty,
               pending |-> rx.pending]
      /\ rx.cursor \in Place /\ rx.dirty \in BOOLEAN /\ rx.pending \in BOOLEAN
      /\ rx.epoch \in Nat \cup {Unset} /\ rx.epoch <= epoch
  BY <1>1, <1>2 DEF RxCycle, EpochInv
<1>7. PICK dirty : dirty = Dirty(rx.dirty, turn.result) OBVIOUS
<1>8. dirty = (rx.dirty \/ turn.result.work # NoWork) /\ dirty \in BOOLEAN BY <1>6, <1>7 DEF Dirty
<1>9. RecordsInv' /\ ExistInv' /\ Len(events') = Len(events) /\ Len(requests') = Len(requests)
  BY <1>4 DEF Framed
<1>10. scans' = FALSE BY <1>1, <1>3, <1>5 DEF CursorsInv
<1>11. CASE rx.epoch # turn.cycle
  <2>1. UNCHANGED <<complete, rx>> /\ Stands /\ Dispatch(FALSE, FALSE)
    BY <1>3, <1>11 DEF RxUpdate, Stands
  <2>2. \/ turn' = Idle
        \/ /\ turn.result.work # NoWork
           /\ turn' = [Idle EXCEPT !.at = "process", !.work = turn.result.work]
    BY <2>1, DispatchTurns
  <2>3. /\ Held /\ WorkInv'
        /\ \/ turn'.at = "idle" /\ turn'.by # "reextract"
           \/ turn'.at \in WorkPoint /\ turn'.work.key[1] # "optional"
    BY <1>1, <1>3, <2>2, Dispatched
  <2>4. World' BY <1>1, <1>4, <2>1, <2>3, WorldStands
  <2>5. Turn' BY <1>3, <1>4, <2>1, <2>3, TurnFree, TurnWorks
  <2> QED BY <2>4, <2>5 DEF SweepInv
<1>12. CASE rx.epoch = turn.cycle /\ turn.result.complete /\ ~dirty
  <2>1. /\ rx' = RxClosed
        /\ complete' = IF rx.pending THEN Unset ELSE complete
        /\ Dispatch(TRUE, ~rx.pending /\ epoch = turn.cycle)
    BY <1>3, <1>7, <1>12 DEF RxUpdate
  <2>2. rx' = [active |-> FALSE, cursor |-> NoCursor, epoch |-> Unset, dirty |-> FALSE,
               pending |-> rx.pending]
    BY <2>1 DEF RxClosed, NoRx
  <2>3. rx' \in RxCycle /\ rx'.cursor = NoCursor /\ rx'.epoch <= epoch /\ rx'.active = FALSE
    BY <1>2, <1>6, <2>2, IdleHolds DEF RxCycle, Unset
  <2>4. RxInv' BY <2>3 DEF RxInv, AtRequest, NoCursor, Unset
  <2>5. complete' \in Int /\ complete' <= epoch /\ (complete' = epoch => complete = epoch)
    BY <1>1, <1>2, <2>1 DEF EpochInv, Unset
  <2>6. CompleteInv'
    BY <1>1, <1>3, <1>4, <2>5, FrameCovers DEF CompleteInv
  <2>7. CASE turn' = Idle
    <3>1. Held /\ WorkInv' /\ turn'.at = "idle" BY <1>1, <1>3, <2>7, Dispatched, IdleHolds
    <3>2. World' BY <1>1, <1>3, <1>4, <1>9, <1>10, <2>3, <2>4, <2>5, <3>1, CyclesRest, WorldGoes
    <3>3. Turn' BY <1>10, <2>3, <2>6, <3>1, TurnOutside
    <3> QED BY <3>2, <3>3 DEF SweepInv
  <2>8. CASE ~rx.pending /\ turn' = [Idle EXCEPT !.at = "verified", !.epoch = turn.epoch]
    <3>1. /\ turn' \in Holder /\ turn'.at = "verified" /\ turn'.by = "turn" /\ turn'.epoch = turn.epoch
          /\ turn'.cycle = 0 /\ turn'.lease = 0 /\ turn'.fair = FALSE
      <4>1. "verified" \in Point BY DEF Point
      <4> QED BY <1>2, <2>8, <4>1, FreshQueue
    <3>2. Held BY <1>2, <1>3, <3>1 DEF Held
    <3>3. World' BY <1>1, <1>3, <1>4, <1>9, <1>10, <2>3, <2>4, <2>5, <3>2, CyclesRest, WorldGoes
    <3>4. NormalAnswer' /\ RxAnswer' /\ RxTurn' /\ AnswerInv' /\ CeilingInv' /\ WorkInv'
      BY <3>1 DEF NormalAnswer, RxAnswer, RxTurn, AnswerInv, CeilingInv, WorkInv, WorkPoint
    <3>5. AllEnded BY <1>1, <1>3, <1>8, <1>12, <2>8 DEF RxAnswer
    <3>6. AllEnded' BY <1>1, <1>4, <3>5, FrameCovers
    <3>7. QueueTurn' BY <1>3, <1>5, <3>1, <3>6 DEF QueueTurn, NormalPoint, RxPoint
    <3>8. NormalTurn' BY <1>3, <1>5, <2>3, <3>1 DEF NormalTurn, NormalPoint, RxPoint, Unset
    <3>9. OptionalInv' BY <1>3, <1>5, <3>1 DEF OptionalInv, OptionalPoint, WorkPoint
    <3> QED BY <2>6, <3>3, <3>4, <3>7, <3>8, <3>9 DEF SweepInv, Turn
  <2>9. turn.result.work = NoWork BY <1>8, <1>12
  <2> QED BY <1>3, <2>1, <2>7, <2>8, <2>9, DispatchTurns
<1>13. CASE rx.epoch = turn.cycle /\ ~(turn.result.complete /\ ~dirty)
  <2> DEFINE kept == IF turn.result.next = NoCursor THEN rx.cursor ELSE turn.result.next
             back == [kept EXCEPT !.after = 0]
  <2>1. /\ rx' = IF turn.result.complete
                 THEN [rx EXCEPT !.cursor = back, !.dirty = FALSE, !.active = TRUE]
                 ELSE [rx EXCEPT !.cursor = kept, !.dirty = dirty, !.active = TRUE]
        /\ complete' = complete
        /\ Dispatch(TRUE, FALSE)
    BY <1>3, <1>7, <1>13 DEF RxUpdate
  <2>2. kept \in Place BY <1>2, <1>6
  <2>3. kept = [after |-> kept.after, through |-> kept.through] /\ kept.after \in Nat
        /\ kept.through \in Int
    BY <2>2 DEF Place
  <2>4. back = [after |-> 0, through |-> kept.through] BY <2>3
  <2>5. back \in Place /\ back.after = 0 /\ back.through = kept.through BY <2>3, <2>4 DEF Place
  <2>6. turn.result.complete => kept = rx.cursor BY <1>5
  <2>7. ~turn.result.complete => AtRequest(kept, dirty, rx.pending)
    <3> SUFFICES ASSUME ~turn.result.complete PROVE AtRequest(kept, dirty, rx.pending) OBVIOUS
    <3>1. AtRequest(rx.cursor, rx.dirty, rx.pending) BY <1>1 DEF RxInv
    <3>2. AtRequest(rx.cursor, dirty, rx.pending) BY <1>8, <3>1 DEF AtRequest
    <3>3. AtRequest(turn.result.next, dirty, rx.pending) BY <1>1, <1>3, <1>8, <1>13 DEF RxAnswer
    <3> QED BY <3>2, <3>3
  <2>8. turn.result.complete => AtRequest(back, FALSE, rx.pending)
    <3> SUFFICES ASSUME turn.result.complete PROVE AtRequest(back, FALSE, rx.pending) OBVIOUS
    <3>1. AtRequest(rx.cursor, rx.dirty, rx.pending) BY <1>1 DEF RxInv
    <3>2. CASE rx.cursor = NoCursor
      <4>1. back = NoCursor BY <2>4, <2>6, <3>2 DEF NoCursor
      <4> QED BY <4>1 DEF AtRequest
    <3>3. CASE rx.cursor # NoCursor
      <4>1. /\ back.through <= Len(requests) /\ (~rx.pending => back.through = Len(requests))
        BY <2>5, <2>6, <3>1, <3>3 DEF AtRequest
      <4>2. EndedTo(back.after) BY <2>5 DEF EndedTo
      <4> QED BY <1>2, <2>5, <4>1, <4>2 DEF AtRequest
    <3> QED BY <3>2, <3>3
  <2> HIDE DEF kept, back
  <2>9. PICK c, d : /\ c = IF turn.result.complete THEN back ELSE kept
                    /\ d = IF turn.result.complete THEN FALSE ELSE dirty
    OBVIOUS
  <2>10. c \in Place /\ d \in BOOLEAN /\ AtRequest(c, d, rx.pending)
    BY <1>8, <2>2, <2>5, <2>7, <2>8, <2>9
  <2>11. rx' = [active |-> TRUE, cursor |-> c, epoch |-> rx.epoch, dirty |-> d, pending |-> rx.pending]
    BY <1>6, <2>1, <2>9
  <2>12. /\ rx' \in RxCycle /\ rx'.epoch <= epoch /\ rx'.cursor = c /\ rx'.dirty = d
         /\ rx'.pending = rx.pending
    BY <1>6, <2>10, <2>11 DEF RxCycle
  <2>13. RxInv'
    <3>1. PICK p : p = rx.pending OBVIOUS
    <3>2. AtRequest(c, d, p)' BY <1>1, <1>4, <2>10, <3>1, FrameCovers
    <3> QED BY <2>12, <3>1, <3>2 DEF RxInv
  <2>14. \/ turn' = Idle
         \/ /\ turn.result.work # NoWork
            /\ turn' = [Idle EXCEPT !.at = "process", !.work = turn.result.work]
    BY <2>1, DispatchTurns
  <2>15. /\ Held /\ WorkInv'
         /\ turn'.at = "idle" \/ (turn'.at \in WorkPoint /\ turn'.work.key[1] # "optional")
    BY <1>1, <1>3, <2>14, Dispatched
  <2>16. World'
    BY <1>1, <1>3, <1>4, <1>9, <1>10, <2>1, <2>12, <2>13, <2>15, CyclesRest, WorldGoes
  <2>17. CompleteInv' BY <1>1, <1>3, <1>4, <2>1, FrameCovers DEF CompleteInv
  <2>18. Turn' BY <1>3, <1>5, <1>10, <2>15, <2>17, TurnOutside
  <2> QED BY <2>16, <2>18 DEF SweepInv
<1> QED BY <1>11, <1>12, <1>13

-----------------------------------------------------------------------------
(* The proof, and the optional queues behind it.                           *)

\* On to an optional queue, an item of it, or the end of the queues.
LEMMA OptionalOn ==
    ASSUME SweepInv, Framed, Silent, Stands, UNCHANGED fair, normal.epoch = Unset, Proved,
           turn' \in Holder, turn'.epoch <= epoch, turn'.cycle <= epoch, turn'.lease <= epoch,
           turn'.by # "reextract", ~turn'.fair, turn.at \notin {"normalUpdate", "queue"},
           \/ turn'.at \in {"align", "persona", "complete"}
           \/ /\ turn'.at \in {"process", "autonomyGate"}
              /\ turn'.work.key \in Key /\ turn'.work.key[1] = "optional"
    PROVE  SweepInv'
<1>1. World /\ CursorsInv BY DEF SweepInv, World
<1>2. Held BY <1>1 DEF Held, CursorsInv
<1>3. World' BY <1>1, <1>2, WorldStands
<1>4. OptionalPoint' BY DEF OptionalPoint, WorkPoint
<1>5. WorkInv'
  <2>1. turn'.work.key \in Key => turn'.work.key \in Key' BY DEF Key, Mandatory, Reextraction, OptionalKey
  <2> QED BY <2>1 DEF WorkInv, WorkPoint
<1>6. Turn' BY <1>4, <1>5, TurnOptional
<1> QED BY <1>3, <1>6 DEF SweepInv

LEMMA OptionalItem ==
    ASSUME RunType, NEW kind, Due(kind)
    PROVE  OptionalWork(kind) \in Item /\ OptionalWork(kind).key \in Key
           /\ OptionalWork(kind).key[1] = "optional"
<1>1. OptionalKey(kind) \in Key /\ OptionalKey(kind)[1] = "optional" BY Keys DEF Due
<1>2. run[OptionalKey(kind)].state \in RunState BY <1>1, RunStates
<1>3. "" \in Code BY DEF Code
<1> QED BY <1>1, <1>2, <1>3 DEF OptionalWork, Found, Item

LEMMA ProofIsGiven ==
    ASSUME SweepInv, Verified PROVE SweepInv'
<1>1. /\ World /\ Turn /\ RecordsInv /\ ExistInv /\ CursorsInv /\ EpochInv /\ CompleteInv
      /\ NormalTurn /\ QueueTurn /\ WorkInv
  BY DEF SweepInv, World, Turn
<1>2. turn \in Holder /\ turn.epoch \in Nat /\ epoch \in Nat /\ clean \in Int
  BY <1>1, HolderParts DEF CursorsInv, EpochInv
<1>3. turn.at = "verified" /\ UNCHANGED <<events, requests, run, uncovered, fair>> /\ Stands
  BY DEF Verified, durable, proof, cursors, outside, Stands
<1>4. Framed /\ Silent BY <1>1, <1>3, DurableRests
<1>5. CASE turn' = Idle BY <1>3, <1>4, <1>5, TurnEnds
<1>6. ASSUME NEW point \in {"align", "complete"}, complete = turn.epoch,
             turn' = [turn EXCEPT !.at = point]
      PROVE  SweepInv'
  <2>1. point \in Point BY DEF Point
  <2>2. /\ turn' \in Holder /\ turn'.at = point /\ turn'.by = turn.by /\ turn'.epoch = turn.epoch
        /\ turn'.cycle = turn.cycle /\ turn'.lease = turn.lease /\ turn'.fair = turn.fair
    BY <1>2, <1>6, <2>1, Moved
  <2>3. clean <= turn.epoch /\ ~turn.fair /\ normal.epoch = Unset /\ AllEnded
    BY <1>1, <1>3 DEF QueueTurn, NormalTurn
  <2>4. Proved
    <3> SUFFICES ASSUME clean = epoch, ~arriving PROVE AllCovered BY <2>3 DEF Proved
    <3>1. complete = epoch BY <1>1, <1>2, <1>6, <2>3 DEF EpochInv
    <3> QED BY <1>1, <1>3, <3>1 DEF CompleteInv
  <2>5. turn.by # "reextract" BY <1>1, <1>3 DEF WorkInv, WorkPoint
  <2>6. turn'.epoch <= epoch /\ turn'.cycle <= epoch /\ turn'.lease <= epoch
    BY <1>1, <2>2 DEF EpochInv
  <2> QED BY <1>3, <1>4, <1>6, <2>2, <2>3, <2>4, <2>5, <2>6, OptionalOn
<1> QED BY <1>5, <1>6 DEF Verified, Goto, EndTurn

LEMMA ProofIsRecorded ==
    ASSUME SweepInv, SetComplete PROVE SweepInv'
<1>1. /\ World /\ Turn /\ RecordsInv /\ ExistInv /\ CursorsInv /\ EpochInv /\ CompleteInv
      /\ NormalTurn /\ OptionalInv
  BY DEF SweepInv, World, Turn
<1>2. /\ turn.at = "complete" /\ UNCHANGED <<events, requests, run, uncovered, fair>> /\ turn' = Idle
      /\ scans' = (scans \/ epoch = turn.epoch)
      /\ UNCHANGED <<normal, complete, rx, clean, epoch, arriving>>
  BY DEF SetComplete, EndTurn, durable, proof, outside
<1>3. Framed /\ Silent BY <1>1, <1>2, DurableRests
<1>4. normal.epoch = Unset /\ Proved BY <1>1, <1>2 DEF OptionalInv, OptionalPoint
<1>5. RecordsInv' /\ ExistInv' /\ Len(events') = Len(events) BY <1>3 DEF Framed
<1>6. turn'.at = "idle" /\ turn'.by = "turn" BY <1>2, IdleHolds
<1>7. Held BY <1>1, <1>2, IdleHolds DEF Held, CursorsInv, EpochInv
<1>8. scans' \in BOOLEAN BY <1>2
<1>9. World' BY <1>1, <1>2, <1>3, <1>5, <1>7, <1>8, CyclesRest, WorldGoes
<1>10. NormalAnswer' /\ RxAnswer' /\ RxTurn' /\ AnswerInv' /\ CeilingInv' /\ QueueTurn' /\ WorkInv'
  BY <1>6 DEF NormalAnswer, RxAnswer, RxTurn, AnswerInv, CeilingInv, QueueTurn, NormalPoint, RxPoint,
     WorkInv, WorkPoint
<1>11. NormalTurn' BY <1>1, <1>2, <1>6 DEF NormalTurn, NormalPoint, RxPoint, Unset
<1>12. CompleteInv' BY <1>1, <1>2, <1>3, FrameCovers DEF CompleteInv
<1>13. Proved'
  <2>1. (AllCovered => AllCovered') /\ (AllEnded => AllEnded') BY <1>1, <1>3, FrameCovers
  <2> QED BY <1>2, <1>4, <2>1 DEF Proved
<1>14. OptionalInv' BY <1>2, <1>4, <1>6, <1>13 DEF OptionalInv, OptionalPoint, WorkPoint, Unset
<1> QED BY <1>9, <1>10, <1>11, <1>12, <1>14 DEF SweepInv, Turn

LEMMA QueuesLook ==
    ASSUME SweepInv, processMemoryAlignmentQueue \/ processPersonaRevisionQueue PROVE SweepInv'
<1>1. /\ World /\ Turn /\ RecordsInv /\ ExistInv /\ CursorsInv /\ EpochInv /\ OptionalInv /\ WorkInv
      /\ RunType
  BY DEF SweepInv, World, Turn, RecordsInv
<1>2. turn \in Holder BY <1>1 DEF CursorsInv
<1>3. /\ turn.at \in {"align", "persona"} /\ UNCHANGED <<events, requests, run, uncovered, fair>>
      /\ Stands
  BY DEF processMemoryAlignmentQueue, processPersonaRevisionQueue, durable, proof, cursors, outside,
     Stands
<1>4. Framed /\ Silent BY <1>1, <1>3, DurableRests
<1>5. normal.epoch = Unset /\ Proved /\ ~turn.fair BY <1>1, <1>3 DEF OptionalInv, OptionalPoint
<1>6. turn.by # "reextract" BY <1>1, <1>3 DEF WorkInv, WorkPoint
<1>7. turn.epoch <= epoch /\ turn.cycle <= epoch /\ turn.lease <= epoch BY <1>1 DEF EpochInv
<1>8. CASE turn' = Idle BY <1>3, <1>4, <1>8, TurnEnds
<1>9. ASSUME turn' \in Holder, turn'.epoch = turn.epoch, turn'.cycle = turn.cycle,
             turn'.lease = turn.lease, turn'.fair = turn.fair, turn'.by \in {turn.by, "align"},
             \/ turn'.at \in {"persona", "complete"}
             \/ /\ turn'.at = "process" /\ turn'.work.key \in Key
                /\ turn'.work.key[1] = "optional"
      PROVE  SweepInv'
  <2>1. turn'.by # "reextract" /\ ~turn'.fair BY <1>5, <1>6, <1>9
  <2> QED BY <1>3, <1>4, <1>5, <1>7, <1>9, <2>1, OptionalOn
<1>10. "process" \in Point /\ "persona" \in Point /\ "complete" \in Point /\ "align" \in By
  BY DEF Point, By
<1>11. CASE processMemoryAlignmentQueue
  <2>1. CASE Due("alignment")
    <3>1. PICK w : w = OptionalWork("alignment") OBVIOUS
    <3>2. w \in Item /\ w.key \in Key /\ w.key[1] = "optional" BY <1>1, <2>1, <3>1, OptionalItem
    <3>3. turn' = [turn EXCEPT !.at = "process", !.by = "align", !.work = w]
      BY <1>11, <2>1, <3>1 DEF processMemoryAlignmentQueue
    <3>4. /\ turn' \in Holder /\ turn'.at = "process" /\ turn'.by = "align" /\ turn'.epoch = turn.epoch
          /\ turn'.cycle = turn.cycle /\ turn'.lease = turn.lease /\ turn'.fair = turn.fair
          /\ turn'.work = w
      BY <1>2, <1>10, <3>2, <3>3, MovedByWork
    <3> QED BY <1>9, <3>2, <3>4
  <2>2. CASE ~Due("alignment")
    <3>1. turn' = [turn EXCEPT !.at = "persona", !.by = "align"]
      BY <1>11, <2>2 DEF processMemoryAlignmentQueue
    <3>2. /\ turn' \in Holder /\ turn'.at = "persona" /\ turn'.by = "align" /\ turn'.epoch = turn.epoch
          /\ turn'.cycle = turn.cycle /\ turn'.lease = turn.lease /\ turn'.fair = turn.fair
      BY <1>2, <1>10, <3>1, MovedBy
    <3> QED BY <1>9, <3>2
  <2> QED BY <2>1, <2>2
<1>12. CASE processPersonaRevisionQueue
  <2>1. CASE Due("persona")
    <3>1. PICK w : w = OptionalWork("persona") OBVIOUS
    <3>2. w \in Item /\ w.key \in Key /\ w.key[1] = "optional" BY <1>1, <2>1, <3>1, OptionalItem
    <3>3. turn' = [turn EXCEPT !.at = "process", !.work = w]
      BY <1>12, <2>1, <3>1 DEF processPersonaRevisionQueue
    <3>4. /\ turn' \in Holder /\ turn'.at = "process" /\ turn'.by = turn.by /\ turn'.epoch = turn.epoch
          /\ turn'.cycle = turn.cycle /\ turn'.lease = turn.lease /\ turn'.fair = turn.fair
          /\ turn'.work = w
      BY <1>2, <1>10, <3>2, <3>3, MovedWork
    <3> QED BY <1>9, <3>2, <3>4
  <2>2. CASE turn' = [turn EXCEPT !.at = "complete"]
    <3>1. /\ turn' \in Holder /\ turn'.at = "complete" /\ turn'.by = turn.by /\ turn'.epoch = turn.epoch
          /\ turn'.cycle = turn.cycle /\ turn'.lease = turn.lease /\ turn'.fair = turn.fair
      BY <1>2, <1>10, <2>2, Moved
    <3> QED BY <1>9, <3>1
  <2> QED BY <1>8, <1>12, <2>1, <2>2 DEF processPersonaRevisionQueue
<1> QED BY <1>11, <1>12

-----------------------------------------------------------------------------
(* One item of work.                                                       *)

\* The holder goes on with its item, or back to the queue the item is of.
LEMMA WorkGoesOn ==
    ASSUME SweepInv, Framed, Silent, Stands, UNCHANGED fair, turn.at \in WorkPoint,
           turn' \in Holder, turn'.by = turn.by, turn'.epoch = turn.epoch, turn'.cycle = turn.cycle,
           turn'.lease <= epoch, turn'.work.key = turn.work.key, turn'.fair = turn.fair,
           turn'.through = turn.through,
           \/ turn'.at \in WorkPoint
           \/ turn'.at \in {"align", "persona", "complete"} /\ turn.work.key[1] = "optional",
           turn'.at = "call" /\ epoch = turn'.lease => turn.fair \/ clean = epoch,
           turn'.at = "fail" => turn'.exit \in WayOut
                                /\ (turn.work.key[1] # "optional" => turn'.exit = "idle")
    PROVE  SweepInv'
<1>1. World /\ Turn /\ CursorsInv /\ EpochInv /\ OptionalInv /\ WorkInv BY DEF SweepInv, World, Turn
<1>2. Held BY <1>1 DEF Held, CursorsInv, EpochInv
<1>3. World' BY <1>1, <1>2, WorldStands
<1>4. turn.work.key \in Key BY <1>1 DEF WorkInv
<1>5. turn.by = "reextract" => turn.work.key[1] = "request" BY <1>1 DEF WorkInv
<1>6. Exists(turn.work.key) => Exists(turn.work.key)'
  <2>1. PICK key : key = turn.work.key OBVIOUS
  <2>2. Exists(key) => Exists(key)' BY <1>4, <2>1 DEF Framed, Keeps
  <2> QED BY <2>1, <2>2 DEF Exists
<1>7. Len(requests') = Len(requests) BY DEF Framed
<1>8. WorkInv'
  <2>1. turn'.work.key \in Key' BY <1>4 DEF Key, Mandatory, Reextraction, OptionalKey
  <2>2. turn'.at # "autonomyGate" BY DEF WorkPoint
  <2>3. turn'.at \in WorkPoint /\ turn'.work.key[1] = "request" =>
          \/ Exists(turn.work.key)'
          \/ /\ turn'.by = "reextract" /\ turn'.work.key = Reextraction(Len(requests') + 1)
             /\ turn'.through \in Nat
    <3>1. turn.through \in Nat BY HolderParts, <1>1 DEF CursorsInv
    <3>2. turn.work.key[1] = "request" =>
            \/ Exists(turn.work.key)
            \/ turn.by = "reextract" /\ turn.work.key = Reextraction(Len(requests) + 1)
      BY <1>1 DEF WorkInv
    <3> QED BY <1>6, <1>7, <3>1, <3>2 DEF Reextraction
  <2>4. turn'.by = "reextract" =>
          /\ turn'.at \in WorkPoint /\ turn'.work.key[1] = "request" /\ ~scans'
          /\ rx'.pending \/ rx'.cursor = NoCursor'
    BY <1>1, <1>5 DEF WorkInv, Stands, NoCursor, Unset
  <2>5. turn'.at = "fail" /\ turn'.exit # "idle" =>
          turn'.work.key[1] = "optional" /\ turn'.exit \in {"align", "complete", "persona", "retry"}
    BY DEF WayOut
  <2> QED BY <2>1, <2>2, <2>3, <2>4, <2>5 DEF WorkInv, WorkPoint, Reextraction
<1>9. turn.at \notin {"normalUpdate", "queue"} BY DEF WorkPoint
<1>10. CASE turn.work.key[1] = "optional"
  <2>1. OptionalPoint /\ OptionalPoint' BY <1>10 DEF OptionalPoint
  <2>2. ~turn.fair /\ normal.epoch = Unset /\ Proved BY <1>1, <2>1 DEF OptionalInv
  <2>3. Turn' BY <1>8, <1>9, <2>1, <2>2, TurnOptional
  <2> QED BY <1>3, <2>3 DEF SweepInv
<1>11. CASE turn.work.key[1] # "optional"
  <2>1. Turn' BY <1>8, <1>9, <1>11, TurnWorks
  <2> QED BY <1>3, <2>1 DEF SweepInv
<1> QED BY <1>10, <1>11

Why == {"landed", "failed", "refused", "preempted", "rejected"}

\* An extraction ends the turn however it ends.
LEMMA WaysOut ==
    ASSUME turn.work.key \in Key, NEW why \in Why
    PROVE  Exit(why) \in WayOut /\ (turn.work.key[1] # "optional" => Exit(why) = "idle")
<1> DEFINE kind == Kind(turn.work.key)
           e == callAndLandMemoryExtraction[why]
           a == callAndLandMemoryAlignment[why]
           p == callAndLandPersonaRevision[why]
           d == callAndLandMemoryDerivation[why]
           u == callAndLandAutonomous[why]
<1>1. Exit(why) = CASE kind = "extraction" -> e [] kind = "alignment" -> a [] kind = "persona" -> p
                    [] kind = "derive" -> d [] OTHER -> u
  BY DEF Exit
<1>2. e = "idle" BY DEF callAndLandMemoryExtraction, Exits, Why
<1>3. a \in WayOut BY DEF callAndLandMemoryAlignment, Exits, Why, WayOut
<1>4. p \in WayOut BY DEF callAndLandPersonaRevision, Exits, Why, WayOut
<1>5. d \in WayOut BY DEF callAndLandMemoryDerivation, Exits, Why, WayOut
<1>6. u \in WayOut BY DEF callAndLandAutonomous, Exits, Why, WayOut
<1>7. turn.work.key[1] # "optional" => kind = "extraction"
  <2>1. turn.work.key[1] \in {"event", "request", "optional"} BY Keys
  <2> QED BY <2>1 DEF Kind, IsMemory
<1> HIDE DEF kind, e, a, p, d, u
<1>8. Exit(why) \in {e, a, p, d, u} /\ (kind = "extraction" => Exit(why) = e) BY <1>1
<1>9. "idle" \in WayOut BY DEF WayOut
<1> QED BY <1>2, <1>3, <1>4, <1>5, <1>6, <1>7, <1>8, <1>9

LEMMA HolderLeaves ==
    ASSUME SweepInv, Framed, Silent, Stands, UNCHANGED fair, turn.at \in WorkPoint,
           NEW point \in WayOut, turn.work.key[1] # "optional" => point = "idle",
           NEW outcomes, Leave(point, outcomes)
    PROVE  SweepInv'
<1>1. CursorsInv /\ EpochInv /\ turn \in Holder BY DEF SweepInv, World, CursorsInv
<1>2. turn.at \notin {"normalUpdate", "queue"} BY DEF WorkPoint
<1>3. turn.lease <= epoch BY <1>1 DEF EpochInv
<1>4. CASE turn' = Idle BY <1>2, <1>4, TurnEnds
<1>5. CASE turn' = [turn EXCEPT !.at = "process", !.work.state = "retry"]
  <2>1. PICK w : w = [turn.work EXCEPT !.state = "retry"] OBVIOUS
  <2>2. turn.work \in Item BY <1>1, HolderParts
  <2>3. turn.work = [key |-> turn.work.key, state |-> turn.work.state, code |-> turn.work.code]
        /\ turn.work.key \in Key \cup {<<>>} /\ turn.work.code \in Code
    BY <2>2 DEF Item
  <2>4. w = [key |-> turn.work.key, state |-> "retry", code |-> turn.work.code] BY <2>1, <2>3
  <2>5. w \in Item /\ w.key = turn.work.key BY <2>3, <2>4 DEF Item, RunState
  <2>6. turn' = [turn EXCEPT !.at = "process", !.work = w] BY <1>5, <2>1
  <2>7. "process" \in Point BY DEF Point
  <2>8. /\ turn' \in Holder /\ turn'.at = "process" /\ turn'.by = turn.by /\ turn'.epoch = turn.epoch
        /\ turn'.cycle = turn.cycle /\ turn'.lease = turn.lease /\ turn'.fair = turn.fair
        /\ turn'.work = w /\ turn'.through = turn.through
    BY <1>1, <2>5, <2>6, <2>7, MovedWork
  <2>9. turn'.at \in WorkPoint BY <2>8 DEF WorkPoint
  <2> QED BY <1>3, <2>5, <2>8, <2>9, WorkGoesOn
<1>6. CASE point \in {"align", "complete", "persona"} /\ turn' = [turn EXCEPT !.at = point]
  <2>1. point \in Point BY <1>6 DEF Point
  <2>2. /\ turn' \in Holder /\ turn'.at = point /\ turn'.by = turn.by /\ turn'.epoch = turn.epoch
        /\ turn'.cycle = turn.cycle /\ turn'.lease = turn.lease /\ turn'.fair = turn.fair
        /\ turn'.work = turn.work /\ turn'.through = turn.through
    BY <1>1, <1>6, <2>1, Moved
  <2>3. turn.work.key[1] = "optional" BY <1>6
  <2> QED BY <1>3, <1>6, <2>2, <2>3, WorkGoesOn
<1>7. \/ turn' = Idle
      \/ turn' = [turn EXCEPT !.at = "process", !.work.state = "retry"]
      \/ point \in {"align", "complete", "persona"} /\ turn' = [turn EXCEPT !.at = point]
  <2> DEFINE retry == [turn EXCEPT !.at = "process", !.work.state = "retry"]
             onward == [turn EXCEPT !.at = point]
             waits == outcomes[turn.work.key].state = "retry"
  <2>1. turn' = CASE point = "idle" -> Idle [] point = "retry" -> IF waits THEN retry ELSE Idle
                  [] OTHER -> onward
    BY DEF Leave
  <2> HIDE DEF retry, onward, waits
  <2>2. turn' = Idle \/ turn' = retry \/ (point \notin {"idle", "retry"} /\ turn' = onward) BY <2>1
  <2> QED BY <2>2 DEF retry, onward, WayOut
<1> QED BY <1>4, <1>5, <1>6, <1>7

LEMMA ItemsEnter ==
    ASSUME SweepInv, NEW kind, Entering(kind) PROVE SweepInv'
<1>1. RecordsInv /\ ExistInv /\ CursorsInv /\ EpochInv BY DEF SweepInv, World
<1>2. turn \in Holder /\ turn.lease \in Nat /\ turn.lease <= epoch /\ epoch \in Nat
  BY <1>1, HolderParts DEF CursorsInv, EpochInv
<1>3. /\ turn.at = "process" /\ UNCHANGED <<events, requests, run, uncovered, fair>> /\ Stands
  BY DEF Entering, durable, proof, cursors, outside, Stands
<1>4. Framed /\ Silent BY <1>1, <1>3, DurableRests
<1>5. PICK point \in {"register", "admit"}, lease \in {turn.lease, epoch} :
        turn' = [turn EXCEPT !.at = point, !.lease = lease]
  BY DEF Entering, Enter
<1>6. point \in Point /\ point \in WorkPoint /\ point # "call" /\ point # "fail" /\ turn.at \in WorkPoint
  BY <1>3 DEF Point, WorkPoint
<1>7. /\ turn' \in Holder /\ turn'.at = point /\ turn'.by = turn.by /\ turn'.epoch = turn.epoch
      /\ turn'.cycle = turn.cycle /\ turn'.lease = lease /\ turn'.fair = turn.fair
      /\ turn'.work = turn.work /\ turn'.through = turn.through
  BY <1>2, <1>5, <1>6, MovedLease
<1>8. turn'.lease <= epoch BY <1>2, <1>7
<1> QED BY <1>3, <1>4, <1>6, <1>7, <1>8, WorkGoesOn

LEMMA ItemsProcess == ASSUME SweepInv, Process PROVE SweepInv'
<1>1. /\ World /\ Turn /\ RecordsInv /\ ExistInv /\ RunType BY DEF SweepInv, World, Turn, RecordsInv
<1>2. CASE \E kind : Entering(kind) BY <1>2, ItemsEnter
<1>3. CASE processQueuedMemoryExtraction
  <2>1. /\ turn.at = "process" /\ UNCHANGED <<events, requests, run, uncovered, fair>> /\ Stands
        /\ turn' = Idle
    BY <1>3 DEF processQueuedMemoryExtraction, EndTurn, durable, proof, cursors, outside, Stands
  <2>2. Framed /\ Silent BY <1>1, <2>1, DurableRests
  <2> QED BY <2>1, <2>2, TurnEnds
<1>4. CASE cancelMemoryExtraction
  <2>1. /\ turn.at = "process" /\ UNCHANGED <<events, requests, uncovered, fair>> /\ Stands
        /\ turn' = Idle
        /\ run' = Ended(turn.work.key) \/ run' = run
    BY <1>4 DEF cancelMemoryExtraction, EndTurn, proof, cursors, outside, Stands
  <2>2. RunType' /\ Keeps BY <1>1, <2>1, RunEnded, RunRests
  <2>3. Framed /\ Silent BY <1>1, <2>1, <2>2, DurableRuns
  <2> QED BY <2>1, <2>3, TurnEnds
<1> QED BY <1>2, <1>3, <1>4 DEF Process, processMemoryExtractionWork, processMemoryAlignmentWork,
       processPersonaRevisionWork, processMemoryDerivation

\* The attempt is over; what is left is to record how.
LEMMA AttemptFails ==
    ASSUME SweepInv, Framed, Silent, Stands, UNCHANGED fair, turn.at \in WorkPoint,
           NEW failure \in Failure, NEW why \in Why, Fails(failure, why)
    PROVE  SweepInv'
<1>1. CursorsInv /\ EpochInv /\ WorkInv /\ turn \in Holder BY DEF SweepInv, World, Turn, CursorsInv
<1>2. turn.work.key \in Key BY <1>1 DEF WorkInv
<1>3. PICK exit : exit = Exit(why) OBVIOUS
<1>4. exit \in WayOut /\ (turn.work.key[1] # "optional" => exit = "idle") BY <1>2, <1>3, WaysOut
<1>5. turn' = [turn EXCEPT !.at = "fail", !.failure = failure, !.exit = exit] BY <1>3 DEF Fails
<1>6. "fail" \in Point /\ "fail" \in WorkPoint BY DEF Point, WorkPoint
<1>7. /\ turn' \in Holder /\ turn'.at = "fail" /\ turn'.by = turn.by /\ turn'.epoch = turn.epoch
      /\ turn'.cycle = turn.cycle /\ turn'.lease = turn.lease /\ turn'.fair = turn.fair
      /\ turn'.work = turn.work /\ turn'.through = turn.through /\ turn'.exit = exit
  BY <1>1, <1>4, <1>5, <1>6, MovedFailure
<1>8. turn'.lease <= epoch BY <1>1, <1>7 DEF EpochInv
<1> QED BY <1>4, <1>6, <1>7, <1>8, WorkGoesOn

LEMMA AttemptRegisters == ASSUME SweepInv, Register PROVE SweepInv'
<1>1. RecordsInv /\ ExistInv /\ CursorsInv /\ EpochInv BY DEF SweepInv, World
<1>2. turn \in Holder /\ turn.lease \in Nat /\ turn.lease <= epoch /\ epoch \in Nat
  BY <1>1, HolderParts DEF CursorsInv, EpochInv
<1>3. /\ turn.at = "register" /\ UNCHANGED <<events, requests, run, uncovered, fair>> /\ Stands
  BY DEF Register, durable, proof, cursors, outside, Stands
<1>4. Framed /\ Silent BY <1>1, <1>3, DurableRests
<1>5. turn.at \in WorkPoint BY <1>3 DEF WorkPoint
<1>6. CASE Fails("foreground_preempted", "preempted")
  <2>1. "foreground_preempted" \in Failure /\ "preempted" \in Why BY DEF Failure, Why
  <2> QED BY <1>3, <1>4, <1>5, <1>6, <2>1, AttemptFails
<1>7. ASSUME NEW lease \in {turn.lease, epoch}, epoch = lease, turn.fair \/ clean = lease,
             turn' = [turn EXCEPT !.at = "call", !.lease = lease]
      PROVE  SweepInv'
  <2>1. "call" \in Point /\ "call" \in WorkPoint BY DEF Point, WorkPoint
  <2>2. /\ turn' \in Holder /\ turn'.at = "call" /\ turn'.by = turn.by /\ turn'.epoch = turn.epoch
        /\ turn'.cycle = turn.cycle /\ turn'.lease = lease /\ turn'.fair = turn.fair
        /\ turn'.work = turn.work /\ turn'.through = turn.through
    BY <1>2, <1>7, <2>1, MovedLease
  <2>3. turn'.lease <= epoch BY <1>2, <1>7, <2>2
  <2> QED BY <1>3, <1>4, <1>5, <1>7, <2>1, <2>2, <2>3, WorkGoesOn
<1> QED BY <1>6, <1>7 DEF Register, Fails

LEMMA ProviderAnswers == ASSUME SweepInv, Provider PROVE SweepInv'
<1>1. RecordsInv /\ ExistInv /\ CursorsInv /\ EpochInv /\ turn \in Holder
  BY DEF SweepInv, World, CursorsInv
<1>2. /\ turn.at = "call" /\ UNCHANGED <<events, requests, run, uncovered, fair>> /\ Stands
  BY DEF Provider, durable, proof, cursors, outside, Stands
<1>3. Framed /\ Silent BY <1>1, <1>2, DurableRests
<1>4. turn.at \in WorkPoint BY <1>2 DEF WorkPoint
<1>5. CASE \E failure \in Failure, why \in Why : Fails(failure, why)
  BY <1>2, <1>3, <1>4, <1>5, AttemptFails
<1>6. CASE turn' = [turn EXCEPT !.at = "land"]
  <2>1. "land" \in Point /\ "land" \in WorkPoint BY DEF Point, WorkPoint
  <2>2. /\ turn' \in Holder /\ turn'.at = "land" /\ turn'.by = turn.by /\ turn'.epoch = turn.epoch
        /\ turn'.cycle = turn.cycle /\ turn'.lease = turn.lease /\ turn'.fair = turn.fair
        /\ turn'.work = turn.work /\ turn'.through = turn.through
    BY <1>1, <1>6, <2>1, Moved
  <2>3. turn'.lease <= epoch BY <1>1, <2>2 DEF EpochInv
  <2> QED BY <1>2, <1>3, <1>4, <2>1, <2>2, <2>3, WorkGoesOn
<1>7. {"foreground_preempted", "retryable", "terminal"} \subseteq Failure
      /\ {"preempted", "failed"} \subseteq Why
  BY DEF Failure, Why
<1> QED BY <1>5, <1>6, <1>7 DEF Provider, Goto

LEMMA FailureIsRecorded == ASSUME SweepInv, Fail PROVE SweepInv'
<1>1. /\ RecordsInv /\ ExistInv /\ CursorsInv /\ turn \in Holder /\ WorkInv /\ RunType
  BY DEF SweepInv, World, Turn, CursorsInv, RecordsInv
<1>2. /\ turn.at = "fail" /\ UNCHANGED <<events, requests, uncovered, fair>> /\ Stands
  BY DEF Fail, proof, cursors, outside, Stands
<1>3. turn.at \in WorkPoint BY <1>2 DEF WorkPoint
<1>4. turn.work.key \in Key BY <1>1, <1>3 DEF WorkInv
<1>5. turn.exit \in WayOut /\ (turn.work.key[1] # "optional" => turn.exit = "idle")
  BY <1>1, <1>2, HolderParts DEF WorkInv
<1>6. RunType' /\ Keeps
  <2>1. \/ run' = run
        \/ run[turn.work.key].state = "running" /\ run' = Outcome(turn.work.key, turn.failure)
    BY DEF Fail
  <2>2. run[turn.work.key].state = "running" => ~Done(turn.work.key) BY DEF Done
  <2> QED BY <1>1, <1>4, <2>1, <2>2, RunRests, RunFails
<1>7. Framed /\ Silent BY <1>1, <1>2, <1>6, DurableRuns
<1>8. CASE turn' = Idle BY <1>2, <1>7, <1>8, TurnEnds
<1>9. CASE Leave(turn.exit, run') BY <1>2, <1>3, <1>5, <1>7, <1>9, HolderLeaves
<1> QED BY <1>8, <1>9 DEF Fail, EndTurn

LEMMA EnvelopeIsRejected == ASSUME SweepInv, Reject PROVE SweepInv'
<1>1. /\ RecordsInv /\ ExistInv /\ CursorsInv /\ WorkInv /\ RunType
  BY DEF SweepInv, World, Turn, RecordsInv
<1>2. /\ turn.at \in {"admit", "register", "call"} /\ UNCHANGED <<events, requests, uncovered, fair>>
      /\ Stands /\ Leave(Exit("rejected"), run)
      /\ run' = Ended(turn.work.key) \/ run' = run
  BY DEF Reject, proof, cursors, outside, Stands
<1>3. turn.at \in WorkPoint BY <1>2 DEF WorkPoint
<1>4. turn.work.key \in Key BY <1>1, <1>3 DEF WorkInv
<1>5. PICK exit : exit = Exit("rejected") OBVIOUS
<1>6. exit \in WayOut /\ (turn.work.key[1] # "optional" => exit = "idle")
  BY <1>4, <1>5, WaysOut DEF Why
<1>7. RunType' /\ Keeps BY <1>1, <1>2, RunRests, RunEnded
<1>8. Framed /\ Silent BY <1>1, <1>2, <1>7, DurableRuns
<1> QED BY <1>2, <1>3, <1>5, <1>6, <1>8, HolderLeaves

LEMMA RequestAppears ==
    ASSUME SweepInv, turn.at = "admit", UNCHANGED <<events, uncovered, fair>>, Stands,
           turn.work.key[1] = "request", ~Exists(turn.work.key), run' = Running(turn.work.key),
           requests' = Append(requests, turn.through), turn' = [turn EXCEPT !.at = "call"]
    PROVE  SweepInv'
<1>1. /\ World /\ Turn /\ RecordsInv /\ ExistInv /\ CursorsInv /\ EpochInv /\ CleanInv /\ NormalInv
      /\ RxInv /\ NormalTurn /\ CompleteInv /\ WorkInv /\ RunType
  BY DEF SweepInv, World, Turn, RecordsInv
<1>2. /\ turn \in Holder /\ turn.through \in Nat /\ normal.cursor \in Place /\ rx.cursor \in Place
      /\ rx.dirty \in BOOLEAN
  BY <1>1, HolderParts DEF CursorsInv, NormalCycle, RxCycle
<1>3. PICK n : n = Len(requests) + 1 OBVIOUS
<1>4. /\ turn.by = "reextract" /\ turn.work.key = Reextraction(n) /\ turn.work.key \in Key
      /\ ~scans /\ (rx.pending \/ rx.cursor = NoCursor)
  BY <1>1, <1>3 DEF WorkInv, WorkPoint
<1>5. PICK key \in Key : key = turn.work.key BY <1>4
<1>6. /\ Len(events) \in Nat /\ Len(requests) \in Nat /\ requests \in Seq(Nat) /\ MaxRequests \in Nat
      /\ DOMAIN events = 1 .. Len(events)
      /\ \A i \in 1 .. Len(events) : Mandatory(i) \in Key /\ Known(Mandatory(i))
      /\ \A k \in 1 .. Len(requests) : Reextraction(k) \in Key /\ Known(Reextraction(k))
  BY <1>1, Lengths DEF RecordsInv
<1>7. n \in 1 .. MaxRequests
  <2>1. PICK k \in 1 .. MaxRequests : key = Reextraction(k)
    <3>1. key[1] = "request" BY <1>5
    <3> QED BY <3>1, Keys DEF Key
  <2>2. Reextraction(n)[2] = n /\ Reextraction(k)[2] = k BY DEF Reextraction
  <2> QED BY <1>4, <1>5, <2>1, <2>2
<1>8. requests' \in Seq(Nat) /\ Len(requests') = n BY <1>2, <1>3, <1>6
<1>9. ~Done(key) BY <1>1, <1>5, RunStates
<1>10. RunType' /\ Keeps /\ Exists(key)' BY <1>1, <1>5, <1>9, RunRunning
<1>11. RecordsInv' BY <1>1, <1>6, <1>7, <1>8, <1>10 DEF RecordsInv, Event
<1>12. ExistInv'
  <2>1. \A i \in 1 .. Len(events) : Exists(Mandatory(i))' BY <1>1, <1>6, <1>10 DEF ExistInv, Keeps, Mandatory
  <2>2. DOMAIN requests = 1 .. Len(requests) BY <1>1, Lengths
  <2>3. \A k \in 1 .. Len(requests) : Exists(Reextraction(k))'
    BY <1>1, <1>6, <1>10, <2>2 DEF ExistInv, Keeps, Reextraction
  <2>4. Exists(Reextraction(n))' BY <1>4, <1>5, <1>10 DEF Reextraction, Exists
  <2>5. DOMAIN requests' = 1 .. n BY <1>8
  <2>6. \A k \in 1 .. n : k \in 1 .. Len(requests) \/ k = n BY <1>3, <1>6
  <2> QED BY <1>6, <2>1, <2>3, <2>4, <2>5, <2>6 DEF ExistInv
<1>13. ASSUME NEW m \in Nat, m <= Len(events), Covered(m) PROVE Covered(m)'
  <2> SUFFICES ASSUME NEW i \in 1 .. m PROVE i \in uncovered' \/ Done(Mandatory(i))'
    BY DEF Covered
  <2>1. i \in 1 .. Len(events) BY <1>6, <1>13
  <2>2. i \in uncovered \/ Done(Mandatory(i)) BY <1>13 DEF Covered
  <2>3. Done(Mandatory(i)) => Done(Mandatory(i))' BY <1>6, <1>10, <2>1 DEF Keeps, Mandatory
  <2> QED BY <2>2, <2>3
<1>14. CleanInv' BY <1>1 DEF CleanInv, Unclosed, Stands
<1>15. NormalInv'
  <2>1. normal.cursor.after \in Nat BY <1>2 DEF Place
  <2>2. normal' = normal /\ epoch' = epoch /\ arriving' = arriving BY DEF Stands
  <2>3. PICK c, d : c = normal.cursor /\ d = normal.dirty OBVIOUS
  <2>4. AtPlace(c, d) => AtPlace(c, d)' BY <1>13, <2>1, <2>3 DEF AtPlace, NoCursor, Unset
  <2> QED BY <1>1, <2>2, <2>3, <2>4 DEF NormalInv
<1>16. RxInv'
  <2>1. rx.cursor.after \in Nat /\ rx.cursor.through \in Int BY <1>2 DEF Place
  <2>2. rx' = rx BY DEF Stands
  <2>3. CASE rx.cursor = NoCursor BY <2>2, <2>3 DEF RxInv, AtRequest, NoCursor, Unset
  <2>4. CASE rx.cursor # NoCursor
    <3>1. /\ rx.pending /\ rx.cursor.through <= Len(requests)
          /\ ~rx.dirty => rx.cursor.after <= Len(requests) /\ EndedTo(rx.cursor.after)
      BY <1>1, <1>4, <2>4 DEF RxInv, AtRequest
    <3>2. ASSUME ~rx.dirty, NEW k \in 1 .. rx.cursor.after PROVE Done(Reextraction(k))'
      <4>1. k \in 1 .. Len(requests) /\ Done(Reextraction(k)) BY <1>6, <2>1, <3>1, <3>2 DEF EndedTo
      <4> QED BY <1>6, <1>10, <4>1 DEF Keeps, Reextraction
    <3>3. rx.cursor.through <= n /\ (~rx.dirty => rx.cursor.after <= n) BY <1>3, <1>6, <2>1, <3>1
    <3> QED BY <1>8, <2>2, <3>1, <3>2, <3>3 DEF RxInv, AtRequest, EndedTo
  <2> QED BY <2>3, <2>4
<1>17. "call" \in Point /\ "call" \in WorkPoint BY DEF Point, WorkPoint
<1>18. /\ turn' \in Holder /\ turn'.at = "call" /\ turn'.by = turn.by /\ turn'.epoch = turn.epoch
       /\ turn'.cycle = turn.cycle /\ turn'.lease = turn.lease /\ turn'.work = turn.work
  BY <1>2, <1>17, Moved
<1>19. Held BY <1>1, <1>18 DEF Held, CursorsInv, EpochInv
<1>20. World'
  <2>1. /\ scans' \in BOOLEAN /\ clean' \in Int /\ clean' <= epoch /\ complete' \in Int
        /\ complete' <= epoch /\ UNCHANGED <<epoch, arriving>>
        /\ normal' \in NormalCycle /\ (normal'.epoch = Unset => normal'.cursor = NoCursor)
        /\ normal'.epoch <= epoch /\ normal'.cursor.through <= Len(events)
        /\ rx' \in RxCycle /\ rx'.epoch <= epoch
    BY <1>1 DEF Stands, CursorsInv, EpochInv
  <2>2. Len(events') = Len(events) OBVIOUS
  <2> QED BY <1>1, <1>11, <1>12, <1>14, <1>15, <1>16, <1>19, <2>1, <2>2, WorldGoes
<1>21. WorkInv'
  <2>1. turn'.work.key \in Key' BY <1>4, <1>18 DEF Key, Mandatory, Reextraction, OptionalKey
  <2>2. turn'.work.key[1] = "request" /\ turn'.by = "reextract" BY <1>4, <1>18
  <2>3. Exists(turn.work.key)' BY <1>5, <1>10, <1>18 DEF Exists
  <2>4. ~scans' /\ (rx'.pending \/ rx'.cursor = NoCursor') BY <1>4 DEF Stands, NoCursor, Unset
  <2> QED BY <1>18, <2>1, <2>2, <2>3, <2>4 DEF WorkInv, WorkPoint
<1>22. CompleteInv'
  <2>1. turn.at # "normalUpdate" OBVIOUS
  <2> QED BY <1>1, <1>6, <1>13, <2>1 DEF CompleteInv, AllCovered, Stands
<1>23. scans' = FALSE BY <1>1, <1>4 DEF Stands, CursorsInv
<1>24. rx'.active => normal'.epoch = Unset BY <1>1 DEF NormalTurn, Stands
<1>25. turn'.at \in WorkPoint /\ turn'.work.key[1] # "optional" BY <1>17, <1>18
<1>26. Turn' BY <1>21, <1>22, <1>23, <1>24, <1>25, TurnOutside
<1> QED BY <1>20, <1>26 DEF SweepInv

LEMMA WorkIsAdmitted == ASSUME SweepInv, Admit PROVE SweepInv'
<1>1. /\ RecordsInv /\ ExistInv /\ CursorsInv /\ EpochInv /\ WorkInv /\ RunType /\ turn \in Holder
  BY DEF SweepInv, World, Turn, RecordsInv, CursorsInv
<1>2. turn.at = "admit" /\ UNCHANGED <<events, uncovered, fair>> /\ Stands
  BY DEF Admit, proof, cursors, outside, Stands
<1>3. turn.at \in WorkPoint BY <1>2 DEF WorkPoint
<1>4. turn.work.key \in Key BY <1>1, <1>3 DEF WorkInv
<1>5. CASE UNCHANGED <<run, requests>> /\ Leave(Exit("preempted"), run)
  <2>1. Framed /\ Silent BY <1>1, <1>2, <1>5, DurableRests
  <2>2. PICK exit : exit = Exit("preempted") OBVIOUS
  <2>3. exit \in WayOut /\ (turn.work.key[1] # "optional" => exit = "idle")
    BY <1>4, <2>2, WaysOut DEF Why
  <2> QED BY <1>2, <1>3, <1>5, <2>1, <2>2, <2>3, HolderLeaves
<1>6. CASE UNCHANGED <<run, requests>> /\ turn' = Idle
  <2>1. Framed /\ Silent BY <1>1, <1>2, <1>6, DurableRests
  <2> QED BY <1>2, <1>6, <2>1, TurnEnds
<1>7. CASE /\ Registers /\ Startable(turn.work.key) /\ run' = Running(turn.work.key)
           /\ requests' = IF turn.work.key[1] = "request" /\ ~Exists(turn.work.key)
                          THEN Append(requests, turn.through) ELSE requests
           /\ turn' = [turn EXCEPT !.at = "call"]
  <2>1. CASE turn.work.key[1] = "request" /\ ~Exists(turn.work.key)
    BY <1>2, <1>7, <2>1, RequestAppears
  <2>2. CASE ~(turn.work.key[1] = "request" /\ ~Exists(turn.work.key))
    <3>1. requests' = requests BY <1>7, <2>2
    <3>2. ~Done(turn.work.key) BY <1>7 DEF Startable, Done
    <3>3. RunType' /\ Keeps BY <1>1, <1>4, <1>7, <3>2, RunRunning
    <3>4. Framed /\ Silent BY <1>1, <1>2, <3>1, <3>3, DurableRuns
    <3>5. "call" \in Point /\ "call" \in WorkPoint BY DEF Point, WorkPoint
    <3>6. /\ turn' \in Holder /\ turn'.at = "call" /\ turn'.by = turn.by /\ turn'.epoch = turn.epoch
          /\ turn'.cycle = turn.cycle /\ turn'.lease = turn.lease /\ turn'.fair = turn.fair
          /\ turn'.work = turn.work /\ turn'.through = turn.through
      BY <1>1, <1>7, <3>5, Moved
    <3>7. turn'.lease <= epoch /\ (turn.fair \/ clean = epoch)
      BY <1>1, <1>7, <3>6 DEF EpochInv, Registers
    <3> QED BY <1>2, <1>3, <3>4, <3>5, <3>6, <3>7, WorkGoesOn
  <2> QED BY <2>1, <2>2
<1> QED BY <1>5, <1>6, <1>7 DEF Admit, Goto, EndTurn

-----------------------------------------------------------------------------
(* A new evidence event.                                                   *)

LEMMA EventAppears ==
    ASSUME RecordsInv, ExistInv, NEW e \in Event, Len(events) < MaxEvents,
           events' = Append(events, e), UNCHANGED requests,
           NEW before \in [Key -> [state : RunState, fails : Nat]],
           \A key \in Key : /\ Exists(key) => before[key].state # "absent"
                            /\ Done(key) => before[key].state = "ended",
           run' = [before EXCEPT ![Mandatory(Len(events) + 1)].state = "none"]
    PROVE  /\ RecordsInv' /\ ExistInv' /\ Keeps /\ Len(events') = Len(events) + 1
           /\ \A i \in 1 .. Len(events) : events'[i] = events[i]
           /\ events'[Len(events) + 1] = e
<1>1. /\ Len(events) \in Nat /\ Len(requests) \in Nat /\ MaxEvents \in Nat /\ events \in Seq(Event)
      /\ DOMAIN events = 1 .. Len(events) /\ DOMAIN requests = 1 .. Len(requests)
      /\ \A i \in 1 .. Len(events) : Mandatory(i) \in Key
      /\ \A k \in 1 .. Len(requests) : Reextraction(k) \in Key
  BY Lengths DEF RecordsInv
<1>2. PICK n : n = Len(events) + 1 OBVIOUS
<1>3. n \in 1 .. MaxEvents BY <1>1, <1>2
<1>4. PICK new \in Key : new = Mandatory(n) BY <1>3, Keys
<1>5. before[new].fails \in Nat
      /\ before[new] = [state |-> before[new].state, fails |-> before[new].fails]
  OBVIOUS
<1>6. PICK r : r = [before[new] EXCEPT !.state = "none"] OBVIOUS
<1>7. r = [state |-> "none", fails |-> before[new].fails] BY <1>5, <1>6
<1>8. r \in [state : RunState, fails : Nat] /\ r.state = "none" BY <1>5, <1>7 DEF RunState
<1>9. run' = [before EXCEPT ![new] = r] BY <1>2, <1>4, <1>6
<1>10. run' \in [Key -> [state : RunState, fails : Nat]] BY <1>8, <1>9
<1>11. \A key \in Key : run'[key] = IF key = new THEN r ELSE before[key] BY <1>9
<1>12. RunType' BY <1>10 DEF RunType, Key, Mandatory, Reextraction, OptionalKey, RunState
<1>13. /\ events' \in Seq(Event) /\ Len(events') = n
       /\ \A i \in 1 .. Len(events) : events'[i] = events[i]
       /\ events'[n] = e /\ DOMAIN events' = 1 .. n
  BY <1>1, <1>2
<1>14. RecordsInv' BY <1>3, <1>12, <1>13 DEF RecordsInv, Event
<1>15. ~Known(new)
  <2>1. \A i \in 1 .. Len(events) : i # n BY <1>1, <1>2
  <2>2. Mandatory(n)[2] = n /\ (\A i : Mandatory(i)[2] = i) BY DEF Mandatory
  <2>3. \A k : Mandatory(n) # Reextraction(k) BY Keys
  <2> QED BY <1>4, <2>1, <2>2, <2>3 DEF Known
<1>16. Keeps
  <2> SUFFICES ASSUME NEW key \in Key
               PROVE  (Exists(key) => Exists(key)') /\ (Known(key) /\ Done(key) => Done(key)')
    BY DEF Keeps
  <2>1. CASE key = new BY <1>8, <1>11, <1>15, <2>1 DEF Exists
  <2>2. CASE key # new BY <1>11, <2>2 DEF Exists, Done
  <2> QED BY <2>1, <2>2
<1>17. ExistInv'
  <2>1. \A i \in 1 .. Len(events) : Exists(Mandatory(i))'
    BY <1>1, <1>16 DEF ExistInv, Keeps, Mandatory
  <2>2. Exists(Mandatory(n))' BY <1>4, <1>8, <1>11 DEF Exists, Mandatory
  <2>3. \A k \in 1 .. Len(requests) : Exists(Reextraction(k))'
    BY <1>1, <1>16 DEF ExistInv, Keeps, Reextraction
  <2>4. \A i \in 1 .. n : i \in 1 .. Len(events) \/ i = n BY <1>1, <1>2
  <2> QED BY <1>1, <1>13, <2>1, <2>2, <2>3, <2>4 DEF ExistInv
<1> QED BY <1>2, <1>13, <1>14, <1>16, <1>17

\* The cursors and the proofs stand; a later event is above every ceiling.
LEMMA WorldGrows ==
    ASSUME World, RecordsInv', ExistInv', Keeps, Len(events') = Len(events) + 1, UNCHANGED requests,
           UNCHANGED <<normal, complete, rx, scans, epoch, clean, fair>>,
           turn' \in Holder, turn'.epoch <= epoch, turn'.cycle <= epoch, turn'.lease <= epoch,
           arriving' \in BOOLEAN, CleanInv', NormalInv'
    PROVE  World'
<1>1. CursorsInv /\ EpochInv /\ RxInv /\ RecordsInv BY DEF World
<1>2. /\ Len(events) \in Nat /\ Len(requests) \in Nat
      /\ \A k \in 1 .. Len(requests) : Reextraction(k) \in Key /\ Known(Reextraction(k))
  BY <1>1, Lengths
<1>3. CursorsInv'
  <2>1. /\ normal' \in NormalCycle' /\ rx' \in RxCycle'
        /\ normal'.epoch = Unset => normal'.cursor = NoCursor'
    BY <1>1 DEF CursorsInv, NormalCycle, RxCycle, Place, NoCursor, Unset
  <2>2. turn' \in Holder'
    BY DEF Holder, Answer, Place, Item, Point, Key, Mandatory, Reextraction, OptionalKey,
       RunState, Code, Failure, NoFailure, WayOut, By
  <2>3. fair' \in Place' BY <1>1 DEF CursorsInv, Place
  <2>4. normal.cursor.through \in Int /\ fair.through \in Int
    BY <1>1 DEF CursorsInv, NormalCycle, Place
  <2>5. normal'.cursor.through <= Len(events') /\ fair'.through <= Len(events')
    BY <1>1, <1>2, <2>4 DEF CursorsInv
  <2> QED BY <1>1, <2>1, <2>2, <2>3, <2>5 DEF CursorsInv, Unset
<1>4. EpochInv' BY <1>1 DEF EpochInv
<1>5. RxInv'
  <2>1. rx.cursor \in Place BY <1>1 DEF CursorsInv, RxCycle
  <2>2. rx.cursor.after \in Nat BY <2>1 DEF Place
  <2>3. ASSUME NEW m \in Nat, m <= Len(requests), EndedTo(m) PROVE EndedTo(m)'
    <3> SUFFICES ASSUME NEW k \in 1 .. m PROVE Done(Reextraction(k))' BY DEF EndedTo
    <3>1. k \in 1 .. Len(requests) /\ Done(Reextraction(k)) BY <1>2, <2>3 DEF EndedTo
    <3> QED BY <1>2, <3>1 DEF Keeps, Reextraction
  <2>4. PICK c, d, p : c = rx.cursor /\ d = rx.dirty /\ p = rx.pending OBVIOUS
  <2>5. AtRequest(c, d, p) => AtRequest(c, d, p)' BY <2>2, <2>3, <2>4 DEF AtRequest, NoCursor, Unset
  <2> QED BY <1>1, <2>4, <2>5 DEF RxInv
<1> QED BY <1>3, <1>4, <1>5 DEF World

LEMMA SelfTalkLands ==
    ASSUME SweepInv, turn.at = "land", ~arriving, UNCHANGED <<requests, fair>>, Stands,
           turn.work.key = OptionalKey("autonomy"), Len(events) < MaxEvents,
           events' = Append(events, [type |-> "self_talk", dialogue |-> "closed", erased |-> FALSE]),
           run' = [Ended(turn.work.key) EXCEPT ![Mandatory(Len(events) + 1)].state = "none"],
           uncovered' = uncovered \cup {Len(events) + 1}, turn' = Idle
    PROVE  SweepInv'
<1>1. /\ World /\ Turn /\ RecordsInv /\ ExistInv /\ CursorsInv /\ EpochInv /\ CleanInv
      /\ NormalTurn /\ CompleteInv /\ WorkInv /\ OptionalInv /\ RunType
  BY DEF SweepInv, World, Turn, RecordsInv
<1>2. PICK key \in Key : key = turn.work.key BY <1>1 DEF WorkInv, WorkPoint
<1>3. OptionalPoint BY <1>2, Keys DEF OptionalPoint, WorkPoint
<1>4. normal.epoch = Unset /\ Proved BY <1>1, <1>3 DEF OptionalInv
<1>5. PICK e : e = [type |-> "self_talk", dialogue |-> "closed", erased |-> FALSE] OBVIOUS
<1>6. e \in Event /\ e.dialogue = "closed" BY <1>5 DEF Event
<1>7. PICK before : before = Ended(key) OBVIOUS
<1>8. /\ before \in [Key -> [state : RunState, fails : Nat]]
      /\ \A x \in Key : /\ Exists(x) => before[x].state # "absent"
                        /\ Done(x) => before[x].state = "ended"
  <2>1. run[key] = [state |-> run[key].state, fails |-> run[key].fails] /\ run[key].fails \in Nat
    BY <1>1, RunStates
  <2>2. PICK r : r = [run[key] EXCEPT !.state = "ended"] OBVIOUS
  <2>3. r = [state |-> "ended", fails |-> run[key].fails] BY <2>1, <2>2
  <2>4. r \in [state : RunState, fails : Nat] /\ r.state = "ended" BY <2>1, <2>3 DEF RunState
  <2>5. before = [run EXCEPT ![key] = r] BY <1>7, <2>2 DEF Ended
  <2>6. \A x \in Key : before[x] = IF x = key THEN r ELSE run[x] BY <1>1, <2>5 DEF RunType
  <2>7. before \in [Key -> [state : RunState, fails : Nat]] BY <1>1, <2>4, <2>5 DEF RunType
  <2> QED BY <2>4, <2>6, <2>7 DEF Exists, Done
<1>9. PICK n : n = Len(events) + 1 OBVIOUS
<1>10. /\ RecordsInv' /\ ExistInv' /\ Keeps /\ Len(events') = n
       /\ \A i \in 1 .. Len(events) : events'[i] = events[i]
       /\ events'[n] = e
  BY <1>1, <1>2, <1>5, <1>6, <1>7, <1>8, <1>9, EventAppears
<1>11. /\ Len(events) \in Nat /\ Len(requests) \in Nat
       /\ \A i \in 1 .. n : i \in 1 .. Len(events) \/ i = n
       /\ DOMAIN events = 1 .. Len(events) /\ DOMAIN events' = 1 .. n
       /\ \A i \in 1 .. Len(events) : Mandatory(i) \in Key /\ Known(Mandatory(i))
       /\ \A k \in 1 .. Len(requests) : Reextraction(k) \in Key /\ Known(Reextraction(k))
  <2>1. DOMAIN events' = 1 .. Len(events') BY <1>10 DEF RecordsInv
  <2> QED BY <1>1, <1>9, <1>10, <2>1, Lengths
<1>12. CleanInv'
  BY <1>1, <1>6, <1>10, <1>11 DEF CleanInv, Unclosed, Stands
<1>13. NormalInv' BY <1>1, <1>4 DEF NormalInv, Stands, EpochInv, Unset
<1>14. turn' \in Holder /\ turn'.epoch <= epoch /\ turn'.cycle <= epoch /\ turn'.lease <= epoch
       /\ turn'.at = "idle" /\ turn'.by = "turn"
  BY <1>1, IdleHolds DEF EpochInv
<1>15. World' BY <1>1, <1>9, <1>10, <1>12, <1>13, <1>14, WorldGrows DEF Stands, CursorsInv
<1>16. AllCovered => AllCovered'
  <2> SUFFICES ASSUME AllCovered, NEW i \in 1 .. n PROVE i \in uncovered' \/ Done(Mandatory(i))'
    BY <1>10 DEF AllCovered, Covered
  <2>1. CASE i = n BY <1>9, <2>1
  <2>2. CASE i \in 1 .. Len(events)
    <3>1. i \in uncovered \/ Done(Mandatory(i)) BY <2>2 DEF AllCovered, Covered
    <3>2. Done(Mandatory(i)) => Done(Mandatory(i))' BY <1>10, <1>11, <2>2 DEF Keeps, Mandatory
    <3> QED BY <3>1, <3>2
  <2> QED BY <1>11, <2>1, <2>2
<1>17. AllEnded => AllEnded'
  <2> SUFFICES ASSUME AllEnded, NEW k \in 1 .. Len(requests) PROVE Done(Reextraction(k))'
    BY DEF AllEnded, EndedTo
  <2>1. PICK x : x = Reextraction(k) OBVIOUS
  <2>2. x \in Key /\ Known(x)
    <3>1. Reextraction(k) \in Key BY <1>1, Lengths
    <3> QED BY <2>1, <3>1 DEF Known
  <2>3. Done(x) BY <2>1 DEF AllEnded, EndedTo
  <2>4. Done(x)' BY <1>10, <2>2, <2>3 DEF Keeps
  <2> QED BY <2>1, <2>4 DEF Done, Reextraction
<1>18. Proved' BY <1>4, <1>16, <1>17 DEF Proved, Stands
<1>19. NormalAnswer' /\ RxAnswer' /\ RxTurn' /\ AnswerInv' /\ CeilingInv' /\ QueueTurn' /\ WorkInv'
  BY <1>14 DEF NormalAnswer, RxAnswer, RxTurn, AnswerInv, CeilingInv, QueueTurn, NormalPoint, RxPoint,
     WorkInv, WorkPoint
<1>20. NormalTurn' BY <1>4, <1>14 DEF NormalTurn, NormalPoint, RxPoint, Stands, Unset
<1>21. CompleteInv' BY <1>1, <1>16 DEF CompleteInv, Stands
<1>22. OptionalInv' BY <1>4, <1>14, <1>18 DEF OptionalInv, OptionalPoint, WorkPoint, Stands, Unset
<1> QED BY <1>15, <1>19, <1>20, <1>21, <1>22 DEF SweepInv, Turn

LEMMA WorkLands == ASSUME SweepInv, Land PROVE SweepInv'
<1>1. /\ RecordsInv /\ ExistInv /\ CursorsInv /\ WorkInv /\ RunType
  BY DEF SweepInv, World, Turn, RecordsInv
<1>2. turn.at = "land" /\ ~arriving /\ UNCHANGED <<requests, fair>> /\ Stands
  BY DEF Land, proof, cursors, outside, Stands
<1>3. turn.at \in WorkPoint BY <1>2 DEF WorkPoint
<1>4. turn.work.key \in Key BY <1>1, <1>3 DEF WorkInv
<1>5. PICK exit : exit = Exit("landed") OBVIOUS
<1>6. exit \in WayOut /\ (turn.work.key[1] # "optional" => exit = "idle")
  BY <1>4, <1>5, WaysOut DEF Why
<1>7. CASE /\ run' = Ended(turn.work.key) /\ UNCHANGED <<events, uncovered>>
           /\ Leave(Exit("landed"), run)
  <2>1. RunType' /\ Keeps BY <1>1, <1>7, RunEnded
  <2>2. Framed /\ Silent BY <1>1, <1>2, <1>7, <2>1, DurableRuns
  <2> QED BY <1>2, <1>3, <1>5, <1>6, <1>7, <2>2, HolderLeaves
<1>8. CASE UNCHANGED <<events, run, uncovered>> /\ \E failure \in Failure, why \in Why : Fails(failure, why)
  <2>1. Framed /\ Silent BY <1>1, <1>2, <1>8, DurableRests
  <2> QED BY <1>2, <1>3, <1>8, <2>1, AttemptFails
<1>9. CASE /\ turn.work.key = OptionalKey("autonomy") /\ Len(events) < MaxEvents
           /\ events' = Append(events, [type |-> "self_talk", dialogue |-> "closed", erased |-> FALSE])
           /\ run' = [Ended(turn.work.key) EXCEPT ![Mandatory(Len(events) + 1)].state = "none"]
           /\ uncovered' = uncovered \cup {Len(events) + 1}
           /\ Leave(Exit("landed"), run)
  <2>1. Kind(turn.work.key) = "autonomy" BY <1>9 DEF Kind, IsMemory, OptionalKey
  <2>2. exit = callAndLandAutonomous["landed"] BY <1>5, <2>1 DEF Exit
  <2>3. exit = "idle" BY <2>2 DEF callAndLandAutonomous, Exits
  <2>4. turn' = Idle BY <1>5, <1>9, <2>3 DEF Leave
  <2> QED BY <1>2, <1>9, <2>4, SelfTalkLands
<1>10. {"foreground_preempted", "retryable", "terminal"} \subseteq Failure
       /\ {"preempted", "refused"} \subseteq Why
  BY DEF Failure, Why
<1>11. \/ /\ run' = Ended(turn.work.key) /\ UNCHANGED <<events, uncovered>>
          /\ Leave(Exit("landed"), run)
       \/ UNCHANGED <<events, run, uncovered>> /\ \E failure \in Failure, why \in Why : Fails(failure, why)
       \/ /\ turn.work.key = OptionalKey("autonomy") /\ Len(events) < MaxEvents
          /\ events' = Append(events, [type |-> "self_talk", dialogue |-> "closed", erased |-> FALSE])
          /\ run' = [Ended(turn.work.key) EXCEPT ![Mandatory(Len(events) + 1)].state = "none"]
          /\ uncovered' = uncovered \cup {Len(events) + 1}
          /\ Leave(Exit("landed"), run)
  BY <1>10 DEF Land
<1> QED BY <1>7, <1>8, <1>9, <1>11


-----------------------------------------------------------------------------
(* Optional work of a trigger and of an Admin call.                        *)

LEMMA TriggersStart == ASSUME SweepInv, AutonomyStart PROVE SweepInv'
<1>1. /\ RecordsInv /\ ExistInv /\ CursorsInv /\ EpochInv /\ OptionalInv /\ RunType
  BY DEF SweepInv, World, Turn, RecordsInv
<1>2. /\ turn.at = "idle" /\ scans /\ Due("autonomy")
      /\ UNCHANGED <<events, requests, run, uncovered, fair>> /\ Stands
  BY IdleHolds DEF AutonomyStart, durable, proof, cursors, outside, Stands
<1>3. Framed /\ Silent BY <1>1, <1>2, DurableRests
<1>4. normal.epoch = Unset /\ Proved BY <1>1, <1>2 DEF OptionalInv
<1>5. PICK w : w = OptionalWork("autonomy") OBVIOUS
<1>6. w \in Item /\ w.key \in Key /\ w.key[1] = "optional" BY <1>1, <1>2, <1>5, OptionalItem
<1>7. turn' = WorkTurn("autonomyGate", "autonomy", w)
  BY <1>5 DEF AutonomyStart, WorkTurn
<1>8. "autonomyGate" \in Point /\ "autonomy" \in By BY DEF Point, By
<1>9. /\ turn' \in Holder /\ turn'.at = "autonomyGate" /\ turn'.by = "autonomy" /\ turn'.epoch = 0
      /\ turn'.cycle = 0 /\ turn'.lease = 0 /\ turn'.fair = FALSE /\ turn'.work = w
  BY <1>6, <1>7, <1>8, FreshByWork
<1>10. turn'.epoch <= epoch /\ turn'.cycle <= epoch /\ turn'.lease <= epoch BY <1>1, <1>9 DEF EpochInv
<1> QED BY <1>2, <1>3, <1>4, <1>6, <1>9, <1>10, OptionalOn

LEMMA TriggersPass == ASSUME SweepInv, AutonomyGate PROVE SweepInv'
<1>1. /\ World /\ RecordsInv /\ ExistInv /\ CursorsInv /\ EpochInv /\ OptionalInv /\ WorkInv /\ RunType
      /\ turn \in Holder
  BY DEF SweepInv, World, Turn, RecordsInv, CursorsInv
<1>2. /\ turn.at = "autonomyGate"
      /\ UNCHANGED <<events, requests, uncovered, fair>> /\ Stands
  BY DEF AutonomyGate, proof, cursors, outside, Stands
<1>3. /\ turn.work.key \in Key /\ turn.work.key[1] = "optional" /\ normal.epoch = Unset /\ Proved
      /\ ~turn.fair /\ turn.by # "reextract"
  BY <1>1, <1>2 DEF WorkInv, OptionalInv, OptionalPoint, WorkPoint
<1>4. /\ run' = run \/ (run' = Running(turn.work.key) /\ ~Done(turn.work.key))
      /\ \/ turn' = turn \/ turn' = Idle
         \/ turn' = [turn EXCEPT !.at = "register", !.lease = epoch]
  BY DEF AutonomyGate, EndTurn, Done
<1>5. RunType' /\ Keeps BY <1>1, <1>3, <1>4, RunRests, RunRunning
<1>6. Framed /\ Silent BY <1>1, <1>2, <1>5, DurableRuns
<1>7. CASE turn' = turn
  <2>1. Held BY <1>1, <1>2, <1>7 DEF Held, CursorsInv, EpochInv
  <2>2. World' BY <1>1, <1>2, <1>6, <2>1, WorldStands
  <2>3. Turn' BY <1>2, <1>6, <1>7, TurnRests
  <2> QED BY <2>2, <2>3 DEF SweepInv
<1>8. CASE turn' = Idle BY <1>2, <1>6, <1>8, TurnEnds
<1>9. CASE turn' = [turn EXCEPT !.at = "register", !.lease = epoch]
  <2>1. "register" \in Point /\ epoch \in Nat BY <1>1 DEF Point, EpochInv
  <2>2. /\ turn' \in Holder /\ turn'.at = "register" /\ turn'.by = turn.by /\ turn'.epoch = turn.epoch
        /\ turn'.cycle = turn.cycle /\ turn'.lease = epoch /\ turn'.fair = turn.fair
        /\ turn'.work = turn.work
    BY <1>1, <1>9, <2>1, MovedLease
  <2>3. Held BY <1>1, <1>2, <2>1, <2>2 DEF Held, CursorsInv, EpochInv
  <2>4. World' BY <1>1, <1>2, <1>6, <2>3, WorldStands
  <2>5. OptionalPoint' BY <1>3, <2>2 DEF OptionalPoint, WorkPoint
  <2>6. turn'.work.key \in Key' BY <1>3, <2>2 DEF Key, Mandatory, Reextraction, OptionalKey
  <2>7. WorkInv' BY <1>3, <2>2, <2>6 DEF WorkInv, WorkPoint
  <2>8. Turn' BY <1>2, <1>3, <1>6, <2>2, <2>5, <2>7, TurnOptional
  <2> QED BY <2>4, <2>8 DEF SweepInv
<1> QED BY <1>4, <1>7, <1>8, <1>9

LEMMA AdminsCall ==
    ASSUME SweepInv, ProposeMemoryPersona \/ DeriveMemoryClaim PROVE SweepInv'
<1>1. /\ RecordsInv /\ ExistInv /\ CursorsInv /\ EpochInv /\ OptionalInv /\ RunType
  BY DEF SweepInv, World, Turn, RecordsInv
<1>2. /\ turn.at = "idle" /\ scans
      /\ UNCHANGED <<events, requests, run, uncovered, fair>> /\ Stands
  BY IdleHolds DEF ProposeMemoryPersona, DeriveMemoryClaim, AdminCall, durable, proof, cursors, outside,
     Stands
<1>3. Framed /\ Silent BY <1>1, <1>2, DurableRests
<1>4. normal.epoch = Unset /\ Proved /\ 0 <= epoch BY <1>1, <1>2 DEF OptionalInv, EpochInv
<1>5. {"persona", "process"} \subseteq Point /\ {"admin", "derive"} \subseteq By BY DEF Point, By
<1>6. CASE ProposeMemoryPersona
  <2>1. turn' = [Idle EXCEPT !.at = "persona", !.by = "admin"] BY <1>6 DEF ProposeMemoryPersona
  <2>2. "persona" \in Point /\ "admin" \in By BY <1>5
  <2>3. /\ turn' \in Holder /\ turn'.at = "persona" /\ turn'.by = "admin" /\ turn'.epoch = 0
        /\ turn'.cycle = 0 /\ turn'.lease = 0 /\ turn'.fair = FALSE
    BY <2>1, <2>2, FreshBy
  <2> QED BY <1>2, <1>3, <1>4, <2>3, OptionalOn
<1>7. CASE DeriveMemoryClaim
  <2>1. Due("derive") BY <1>7 DEF DeriveMemoryClaim
  <2>2. PICK w : w = OptionalWork("derive") OBVIOUS
  <2>3. w \in Item /\ w.key \in Key /\ w.key[1] = "optional" BY <1>1, <2>1, <2>2, OptionalItem
  <2>4. turn' = WorkTurn("process", "derive", w)
    BY <1>7, <2>2 DEF DeriveMemoryClaim, WorkTurn
  <2>5. "process" \in Point /\ "derive" \in By BY <1>5
  <2>6. /\ turn' \in Holder /\ turn'.at = "process" /\ turn'.by = "derive" /\ turn'.epoch = 0
        /\ turn'.cycle = 0 /\ turn'.lease = 0 /\ turn'.fair = FALSE /\ turn'.work = w
    BY <2>3, <2>4, <2>5, FreshByWork
  <2> QED BY <1>2, <1>3, <1>4, <2>3, <2>6, OptionalOn
<1> QED BY <1>6, <1>7

LEMMA WorkComesDue == ASSUME SweepInv, ComesDue \/ CancelAutonomous PROVE SweepInv'
<1>1. World /\ RecordsInv /\ ExistInv /\ CursorsInv /\ EpochInv /\ RunType
  BY DEF SweepInv, World, RecordsInv
<1>2. UNCHANGED <<events, requests, uncovered, fair, turn>> /\ Stands
  BY DEF ComesDue, CancelAutonomous, proof, cursors, outside, Stands
<1>3. RunType' /\ Keeps
  <2>1. CASE ComesDue
    <3>1. PICK kind \in Optional : /\ run[OptionalKey(kind)].state = "absent"
                                   /\ run' = [run EXCEPT ![OptionalKey(kind)].state = "none"]
      BY <2>1 DEF ComesDue
    <3>2. PICK key \in Key : key = OptionalKey(kind) BY Keys
    <3>3. run[key].fails \in Nat /\ run[key] = [state |-> run[key].state, fails |-> run[key].fails]
      BY <1>1, RunStates
    <3>4. PICK r : r = [run[key] EXCEPT !.state = "none"] OBVIOUS
    <3>5. /\ r.state = "none" /\ r.fails \in Nat /\ r = [state |-> r.state, fails |-> r.fails]
          /\ r.state \in RunState /\ r.state # "absent"
      BY <3>3, <3>4 DEF RunState
    <3>6. run' = [run EXCEPT ![key] = r] BY <3>1, <3>2, <3>4
    <3>7. ~Done(key) BY <3>1, <3>2 DEF Done
    <3> QED BY <1>1, <3>5, <3>6, <3>7, RunMoves
  <2>2. CASE CancelAutonomous
    <3>1. run' = Ended(OptionalKey("autonomy")) BY <2>2 DEF CancelAutonomous
    <3> QED BY <1>1, <3>1, RunEnded
  <2> QED BY <2>1, <2>2
<1>4. Framed /\ Silent BY <1>1, <1>2, <1>3, DurableRuns
<1>5. Held BY <1>1, <1>2 DEF Held, CursorsInv, EpochInv
<1>6. World' BY <1>1, <1>2, <1>4, <1>5, WorldStands
<1>7. Turn' BY <1>2, <1>4, TurnRests
<1> QED BY <1>6, <1>7 DEF SweepInv

LEMMA ArchiveDrains == ASSUME SweepInv, CompleteArchived \/ BoundaryEnd PROVE SweepInv'
<1>1. World /\ RecordsInv /\ ExistInv /\ CursorsInv /\ EpochInv /\ RunType
  BY DEF SweepInv, World, RecordsInv
<1>2. UNCHANGED <<requests, uncovered, fair, turn>> /\ Stands
  BY DEF CompleteArchived, BoundaryEnd, durable, proof, cursors, Stands
<1>3. Framed /\ Silent
  <2>1. CASE BoundaryEnd
    <3>1. UNCHANGED <<events, run>> BY <2>1 DEF BoundaryEnd, durable
    <3> QED BY <1>1, <1>2, <3>1, DurableRests
  <2>2. CASE \E key \in Open(cleaning) : run' = Ended(key) /\ UNCHANGED events
    <3>1. PICK key : run' = Ended(key) /\ UNCHANGED events BY <2>2
    <3>2. RunType' /\ Keeps BY <1>1, <3>1, RunEnded
    <3> QED BY <1>1, <1>2, <3>1, <3>2, DurableRuns
  <2>3. CASE UNCHANGED run /\ \E i \in DOMAIN events : Unclosed(i) /\ Dialogue(i, "closed")
    <3>1. PICK i \in DOMAIN events : Unclosed(i) /\ Dialogue(i, "closed") BY <2>3
    <3>2. PICK state \in {"prepared", "closed"} : Dialogue(i, state) BY <3>1
    <3> QED BY <1>1, <1>2, <2>3, <3>1, <3>2, DurableTalks
  <2>4. CASE UNCHANGED <<events, run>> BY <1>1, <1>2, <2>4, DurableRests
  <2> QED BY <2>1, <2>2, <2>3, <2>4 DEF CompleteArchived
<1>4. Held BY <1>1, <1>2 DEF Held, CursorsInv, EpochInv
<1>5. World' BY <1>1, <1>2, <1>3, <1>4, WorldStands
<1>6. Turn' BY <1>2, <1>3, TurnRests
<1> QED BY <1>5, <1>6 DEF SweepInv


-----------------------------------------------------------------------------
(* An Admin asks for a re-extraction.                                      *)

LEMMA RequestIsPending ==
    ASSUME World, Keeps, invalidateScans, RecordsInv', Len(requests') \in {Len(requests), Len(requests) + 1}
    PROVE  /\ rx' \in RxCycle /\ rx'.epoch = rx.epoch /\ rx'.active = rx.active /\ rx'.pending
           /\ RxInv'
<1>1. RecordsInv /\ CursorsInv /\ RxInv BY DEF World
<1>2. rx \in RxCycle BY <1>1 DEF CursorsInv
<1>3. rx = [active |-> rx.active, cursor |-> rx.cursor, epoch |-> rx.epoch, dirty |-> rx.dirty,
            pending |-> rx.pending]
      /\ rx.active \in BOOLEAN /\ rx.cursor \in Place /\ rx.epoch \in Nat \cup {Unset} /\ rx.dirty \in BOOLEAN
  BY <1>2 DEF RxCycle
<1>4. rx' = [rx EXCEPT !.pending = TRUE] BY DEF invalidateScans
<1>5. rx' = [active |-> rx.active, cursor |-> rx.cursor, epoch |-> rx.epoch, dirty |-> rx.dirty,
             pending |-> TRUE]
  BY <1>3, <1>4
<1>6. rx' \in RxCycle BY <1>3, <1>5 DEF RxCycle
<1>7. rx'.epoch = rx.epoch /\ rx'.active = rx.active /\ rx'.pending /\ rx'.cursor = rx.cursor
      /\ rx'.dirty = rx.dirty
  BY <1>5
<1>8. Len(requests) \in Nat BY <1>1, Lengths
<1>9. rx.cursor.after \in Nat /\ rx.cursor.through \in Int BY <1>3 DEF Place
<1>10. ASSUME NEW k \in 1 .. Len(requests), Done(Reextraction(k)) PROVE Done(Reextraction(k))'
  <2>1. Reextraction(k) \in Key BY <1>1, Lengths
  <2>2. PICK x \in Key : x = Reextraction(k) BY <2>1
  <2>3. Known(x) /\ Done(x) BY <1>10, <2>2 DEF Known
  <2>4. Done(x)' BY <2>3 DEF Keeps
  <2> QED BY <2>2, <2>4 DEF Done, Reextraction
<1>11. RxInv'
  <2> SUFFICES ASSUME rx.cursor # NoCursor
               PROVE  /\ rx.cursor.through <= Len(requests')
                      /\ ~rx.dirty => rx.cursor.after <= Len(requests') /\ EndedTo(rx.cursor.after)'
    BY <1>7 DEF RxInv, AtRequest, NoCursor, Unset
  <2>1. /\ rx.cursor.through <= Len(requests)
        /\ ~rx.dirty => rx.cursor.after <= Len(requests) /\ EndedTo(rx.cursor.after)
    BY <1>1 DEF RxInv, AtRequest
  <2>2. ASSUME ~rx.dirty, NEW k \in 1 .. rx.cursor.after PROVE Done(Reextraction(k))'
    <3>1. k \in 1 .. Len(requests) BY <1>8, <1>9, <2>1, <2>2
    <3>2. Done(Reextraction(k)) BY <2>1, <2>2 DEF EndedTo
    <3> QED BY <1>10, <3>1, <3>2
  <2>3. rx.cursor.through <= Len(requests') /\ (~rx.dirty => rx.cursor.after <= Len(requests'))
    BY <1>8, <1>9, <2>1
  <2> QED BY <1>7, <2>2, <2>3 DEF EndedTo
<1> QED BY <1>6, <1>7, <1>11

\* The events and the normal cycle stand.
LEMMA EventsRest ==
    ASSUME World, Keeps, UNCHANGED <<events, uncovered, normal, complete, epoch, clean, arriving>>
    PROVE  CleanInv' /\ NormalInv' /\ (AllCovered => AllCovered')
<1>1. RecordsInv /\ CursorsInv /\ CleanInv /\ NormalInv BY DEF World
<1>2. Len(events) \in Nat /\ (\A i \in 1 .. Len(events) : Mandatory(i) \in Key) BY <1>1, Lengths
<1>3. ASSUME NEW m \in Nat, m <= Len(events), Covered(m) PROVE Covered(m)'
  <2> SUFFICES ASSUME NEW i \in 1 .. m PROVE i \in uncovered' \/ Done(Mandatory(i))'
    BY DEF Covered
  <2>1. i \in 1 .. Len(events) BY <1>2, <1>3
  <2>2. i \in uncovered \/ Done(Mandatory(i)) BY <1>3 DEF Covered
  <2>3. PICK x \in Key : x = Mandatory(i) BY <1>2, <2>1
  <2>4. Known(x) BY <2>1, <2>3 DEF Known
  <2>5. Done(x) => Done(x)' BY <2>4 DEF Keeps
  <2> QED BY <2>2, <2>3, <2>5 DEF Done, Mandatory
<1>4. CleanInv' BY <1>1 DEF CleanInv, Unclosed
<1>5. NormalInv'
  <2>1. normal.cursor \in Place BY <1>1 DEF CursorsInv, NormalCycle
  <2>2. normal.cursor.after \in Nat BY <2>1 DEF Place
  <2>3. PICK c, d : c = normal.cursor /\ d = normal.dirty OBVIOUS
  <2>4. AtPlace(c, d) => AtPlace(c, d)' BY <1>3, <2>2, <2>3 DEF AtPlace, NoCursor, Unset
  <2> QED BY <1>1, <2>3, <2>4 DEF NormalInv
<1>6. AllCovered => AllCovered' BY <1>2, <1>3 DEF AllCovered
<1> QED BY <1>4, <1>5, <1>6

\* The call has the resident lock, and the proof of the scans is taken back.
LEMMA ReextractionBegins ==
    ASSUME SweepInv, turn = Idle, invalidateScans, UNCHANGED <<events, uncovered, epoch, clean, arriving>>,
           Keeps, RecordsInv', ExistInv', Len(requests') \in {Len(requests), Len(requests) + 1},
           turn' \in Holder, turn'.epoch <= epoch, turn'.cycle <= epoch, turn'.lease <= epoch,
           turn'.at = "idle" \/ (turn'.at \in WorkPoint /\ turn'.work.key[1] # "optional"),
           WorkInv'
    PROVE  SweepInv'
<1>1. /\ World /\ Turn /\ CursorsInv /\ EpochInv /\ NormalTurn /\ CompleteInv
  BY DEF SweepInv, World, Turn
<1>2. UNCHANGED <<fair, normal, complete>> /\ scans' = FALSE BY DEF invalidateScans
<1>3. rx' \in RxCycle /\ rx'.epoch = rx.epoch /\ rx'.active = rx.active /\ RxInv'
  BY <1>1, RequestIsPending
<1>4. CleanInv' /\ NormalInv' /\ (AllCovered => AllCovered') BY <1>1, <1>2, EventsRest
<1>5. Held BY <1>1, <1>2 DEF Held, CursorsInv
<1>6. World'
  <2>1. /\ scans' \in BOOLEAN /\ clean' \in Int /\ clean' <= epoch /\ complete' \in Int
        /\ complete' <= epoch
        /\ normal' \in NormalCycle /\ (normal'.epoch = Unset => normal'.cursor = NoCursor)
        /\ normal'.epoch <= epoch /\ normal'.cursor.through <= Len(events)
        /\ rx'.epoch <= epoch
    BY <1>1, <1>2, <1>3 DEF CursorsInv, EpochInv
  <2>2. Len(events') = Len(events) OBVIOUS
  <2> QED BY <1>1, <1>3, <1>4, <1>5, <2>1, <2>2, WorldGoes
<1>7. turn.at = "idle" BY IdleHolds
<1>8. CompleteInv' BY <1>1, <1>2, <1>4, <1>7 DEF CompleteInv
<1>9. rx'.active => normal'.epoch = Unset BY <1>1, <1>2, <1>3 DEF NormalTurn
<1>10. Turn' BY <1>2, <1>8, <1>9, TurnOutside
<1> QED BY <1>6, <1>10 DEF SweepInv


LEMMA RequestIsRepeated == ASSUME SweepInv, ReextractAgain PROVE SweepInv'
<1>1. World /\ RecordsInv /\ ExistInv /\ CursorsInv /\ EpochInv /\ RunType BY DEF SweepInv, World, RecordsInv
<1>2. turn = Idle /\ invalidateScans /\ UNCHANGED <<events, requests, run, uncovered, epoch, clean, arriving>>
  BY DEF ReextractAgain, durable, proof, outside
<1>3. RunType' /\ Keeps BY <1>1, <1>2, RunRests
<1>4. Framed BY <1>1, <1>2, <1>3, DurableRuns
<1>5. RecordsInv' /\ ExistInv' /\ Len(requests') = Len(requests) BY <1>4 DEF Framed
<1>6. PICK k \in DOMAIN requests :
        /\ memoryWorkNeedsAttention(Reextraction(k))
        /\ turn' = [Idle EXCEPT !.at = "process", !.by = "reextract", !.work = classify(Reextraction(k))]
  BY DEF ReextractAgain
<1>7. k \in 1 .. Len(requests) /\ Reextraction(k) \in Key BY <1>1, Lengths
<1>8. PICK key \in Key : key = Reextraction(k) BY <1>7
<1>9. PICK w : w = classify(key) OBVIOUS
<1>10. w \in Item /\ w.key = key
  <2>1. run[key].state \in RunState BY <1>1, RunStates
  <2>2. CancellationCode(Source(key)) \in Code /\ "" \in Code BY DEF CancellationCode, Code
  <2> QED BY <1>9, <2>1, <2>2 DEF classify, Found, Item
<1>11. key[1] = "request" BY <1>8, Keys
<1>12. Exists(key) BY <1>6, <1>8 DEF memoryWorkNeedsAttention, Exists
<1>13. turn' = WorkTurn("process", "reextract", w) BY <1>6, <1>8, <1>9 DEF WorkTurn
<1>14. "process" \in Point /\ "process" \in WorkPoint /\ "reextract" \in By BY DEF Point, WorkPoint, By
<1>15. /\ turn' \in Holder /\ turn'.at = "process" /\ turn'.by = "reextract" /\ turn'.epoch = 0
       /\ turn'.cycle = 0 /\ turn'.lease = 0 /\ turn'.work = w
  BY <1>10, <1>13, <1>14, FreshByWork
<1>16. turn'.epoch <= epoch /\ turn'.cycle <= epoch /\ turn'.lease <= epoch BY <1>1, <1>15 DEF EpochInv
<1>17. ~scans' /\ rx'.pending
  <2>1. rx'.pending BY <1>1, <1>2, <1>3, <1>5, RequestIsPending
  <2> QED BY <1>2, <2>1 DEF invalidateScans
<1>18. WorkInv'
  <2>1. turn'.work.key \in Key' BY <1>10, <1>15 DEF Key, Mandatory, Reextraction, OptionalKey
  <2>2. Exists(turn.work.key)' BY <1>2, <1>10, <1>12, <1>15 DEF Exists
  <2> QED BY <1>10, <1>11, <1>15, <1>17, <2>1, <2>2 DEF WorkInv, WorkPoint
<1>19. turn'.at \in WorkPoint /\ turn'.work.key[1] # "optional" BY <1>10, <1>11, <1>14, <1>15
<1> QED BY <1>2, <1>3, <1>5, <1>15, <1>16, <1>18, <1>19, ReextractionBegins

LEMMA RequestIsMade == ASSUME SweepInv, ReextractNew PROVE SweepInv'
<1>1. World /\ RecordsInv /\ ExistInv /\ CursorsInv /\ EpochInv /\ RunType BY DEF SweepInv, World, RecordsInv
<1>2. /\ turn = Idle /\ invalidateScans /\ UNCHANGED <<events, uncovered, epoch, clean, arriving>>
      /\ Len(requests) < MaxRequests
  BY DEF ReextractNew, AdminCall, proof, outside
<1>3. /\ Len(events) \in Nat /\ Len(requests) \in Nat /\ MaxRequests \in Nat /\ requests \in Seq(Nat)
      /\ DOMAIN events = 1 .. Len(events) /\ DOMAIN requests = 1 .. Len(requests)
      /\ \A j \in 1 .. Len(events) : Mandatory(j) \in Key
      /\ \A j \in 1 .. Len(requests) : Reextraction(j) \in Key
  BY <1>1, Lengths DEF RecordsInv
<1>4. PICK n : n = Len(requests) + 1 OBVIOUS
<1>5. n \in 1 .. MaxRequests BY <1>2, <1>3, <1>4
<1>6. PICK key \in Key : key = Reextraction(n) BY <1>5, Keys
<1>7. PICK i \in DOMAIN events :
        \/ requests' = Append(requests, i) /\ run' = Ended(key) /\ UNCHANGED turn
        \/ /\ turn' = [Idle EXCEPT !.at = "admit", !.by = "reextract", !.through = i,
                                   !.work = Found(key, "absent", ""), !.lease = epoch]
           /\ UNCHANGED <<requests, run>>
  BY <1>4, <1>6 DEF ReextractNew
<1>8. i \in Nat /\ epoch \in Nat BY <1>1, <1>3 DEF EpochInv
<1>9. CASE requests' = Append(requests, i) /\ run' = Ended(key) /\ UNCHANGED turn
  <2>1. RunType' /\ Keeps /\ Done(key)' BY <1>1, <1>9, RunEnded
  <2>2. requests' \in Seq(Nat) /\ Len(requests') = n BY <1>3, <1>4, <1>8, <1>9
  <2>3. RecordsInv' BY <1>1, <1>2, <1>3, <1>5, <2>1, <2>2 DEF RecordsInv, Event
  <2>4. ExistInv'
    <3>1. \A j \in 1 .. Len(events) : Exists(Mandatory(j))' BY <1>1, <1>3, <2>1 DEF ExistInv, Keeps, Mandatory
    <3>2. \A j \in 1 .. Len(requests) : Exists(Reextraction(j))'
      BY <1>1, <1>3, <2>1 DEF ExistInv, Keeps, Reextraction
    <3>3. Exists(Reextraction(n))'
      <4>1. Exists(key)' BY <2>1 DEF Done, Exists
      <4> QED BY <1>6, <4>1 DEF Exists, Reextraction
    <3>4. DOMAIN requests' = 1 .. n BY <2>2
    <3>5. \A j \in 1 .. n : j \in 1 .. Len(requests) \/ j = n BY <1>3, <1>4
    <3>6. DOMAIN events' = 1 .. Len(events) BY <1>2, <1>3
    <3> QED BY <3>1, <3>2, <3>3, <3>4, <3>5, <3>6 DEF ExistInv
  <2>5. /\ turn' \in Holder /\ turn'.at = "idle" /\ turn'.by = "turn" /\ turn'.epoch <= epoch
        /\ turn'.cycle <= epoch /\ turn'.lease <= epoch
    BY <1>2, <1>8, <1>9, IdleHolds
  <2>6. WorkInv' BY <2>5 DEF WorkInv, WorkPoint
  <2>7. Len(requests') \in {Len(requests), Len(requests) + 1} BY <1>4, <2>2
  <2> QED BY <1>2, <2>1, <2>3, <2>4, <2>5, <2>6, <2>7, ReextractionBegins
<1>10. CASE /\ turn' = [Idle EXCEPT !.at = "admit", !.by = "reextract", !.through = i,
                                    !.work = Found(key, "absent", ""), !.lease = epoch]
            /\ UNCHANGED <<requests, run>>
  <2>1. RunType' /\ Keeps BY <1>1, <1>10, RunRests
  <2>2. Framed BY <1>1, <1>2, <1>10, <2>1, DurableRuns
  <2>3. RecordsInv' /\ ExistInv' /\ Len(requests') = Len(requests) BY <2>2 DEF Framed
  <2>4. PICK w : w = Found(key, "absent", "") OBVIOUS
  <2>5. w \in Item /\ w.key = key BY <2>4 DEF Found, Item, RunState, Code
  <2>6. turn' = [Idle EXCEPT !.at = "admit", !.by = "reextract", !.through = i, !.work = w, !.lease = epoch]
    BY <1>10, <2>4
  <2>7. "admit" \in Point /\ "admit" \in WorkPoint /\ "reextract" \in By BY DEF Point, WorkPoint, By
  <2>8. /\ turn' \in Holder /\ turn'.at = "admit" /\ turn'.by = "reextract" /\ turn'.epoch = 0
        /\ turn'.cycle = 0 /\ turn'.lease = epoch /\ turn'.work = w /\ turn'.through = i
    <3>1. PICK a \in Point, b \in By, m \in Nat, l \in Nat :
            a = "admit" /\ b = "reextract" /\ m = i /\ l = epoch
      BY <1>8, <2>7
    <3>2. turn' = RequestTurn(a, b, m, w, l)
      BY <2>6, <3>1 DEF RequestTurn
    <3>3. /\ turn' \in Holder /\ turn'.at = a /\ turn'.by = b /\ turn'.epoch = 0
          /\ turn'.cycle = 0 /\ turn'.lease = l /\ turn'.work = w /\ turn'.through = m
      BY <2>5, <3>2, FreshRequest
    <3> QED BY <3>1, <3>3
  <2>9. turn'.epoch <= epoch /\ turn'.cycle <= epoch /\ turn'.lease <= epoch BY <1>8, <2>8
  <2>10. key[1] = "request" BY <1>6, Keys
  <2>11. ~scans' /\ rx'.pending
    <3>1. rx'.pending BY <1>1, <1>2, <2>1, <2>3, RequestIsPending
    <3> QED BY <1>2, <3>1 DEF invalidateScans
  <2>12. WorkInv'
    <3>1. turn'.work.key \in Key' BY <2>5, <2>8 DEF Key, Mandatory, Reextraction, OptionalKey
    <3>2. turn'.work.key = Reextraction(Len(requests') + 1) /\ turn'.through \in Nat
      BY <1>4, <1>6, <1>8, <2>3, <2>5, <2>8 DEF Reextraction
    <3> QED BY <2>5, <2>8, <2>10, <2>11, <3>1, <3>2 DEF WorkInv, WorkPoint, Reextraction
  <2>13. turn'.at \in WorkPoint /\ turn'.work.key[1] # "optional" BY <2>5, <2>7, <2>8, <2>10
  <2>14. Len(requests') \in {Len(requests), Len(requests) + 1} BY <2>3
  <2> QED BY <1>2, <2>1, <2>3, <2>8, <2>9, <2>12, <2>13, <2>14, ReextractionBegins
<1> QED BY <1>7, <1>9, <1>10


-----------------------------------------------------------------------------
(* Ingress.                                                                *)

\* Between its Commit and its preemption a message outdates every proof.
LEMMA MessageArrives == ASSUME SweepInv, Accept PROVE SweepInv'
<1>1. /\ World /\ RecordsInv /\ ExistInv /\ CursorsInv /\ EpochInv /\ RunType
      /\ NormalTurn /\ RxAnswer /\ RxTurn /\ CeilingInv /\ QueueTurn /\ AnswerInv /\ WorkInv /\ OptionalInv
  BY DEF SweepInv, World, Turn, RecordsInv
<1>2. /\ Len(events) < MaxEvents /\ arriving' = TRUE
      /\ UNCHANGED <<requests, normal, complete, rx, scans, epoch, clean, fair, turn, uncovered>>
      /\ events' = Append(events, [type |-> "user", dialogue |-> "open", erased |-> FALSE])
      /\ run' = [run EXCEPT ![Mandatory(Len(events) + 1)].state = "none"]
  BY DEF Accept, proof, cursors
<1>3. PICK e \in Event : e = [type |-> "user", dialogue |-> "open", erased |-> FALSE] BY DEF Event
<1>4. /\ RecordsInv' /\ ExistInv' /\ Keeps /\ Len(events') = Len(events) + 1
  <2>1. PICK before \in [Key -> [state : RunState, fails : Nat]] : before = run BY <1>1 DEF RunType
  <2>2. \A key \in Key : /\ Exists(key) => before[key].state # "absent"
                         /\ Done(key) => before[key].state = "ended"
    BY <2>1 DEF Exists, Done
  <2>3. run' = [before EXCEPT ![Mandatory(Len(events) + 1)].state = "none"] BY <1>2, <2>1
  <2>4. events' = Append(events, e) /\ UNCHANGED requests BY <1>2, <1>3
  <2> QED BY <1>1, <1>2, <2>2, <2>3, <2>4, EventAppears
<1>5. CleanInv' /\ NormalInv' /\ NormalAnswer' /\ CompleteInv' /\ Proved'
  BY <1>2 DEF CleanInv, NormalInv, NormalAnswer, CompleteInv, Proved
<1>6. World'
  <2>1. turn' \in Holder /\ turn'.epoch <= epoch /\ turn'.cycle <= epoch /\ turn'.lease <= epoch
    BY <1>1, <1>2 DEF CursorsInv, EpochInv
  <2>2. arriving' \in BOOLEAN BY <1>2
  <2> QED BY <1>1, <1>2, <1>4, <1>5, <2>1, <2>2, WorldGrows
<1>7. /\ Len(events) \in Nat /\ Len(requests) \in Nat /\ Len(requests') = Len(requests)
  BY <1>1, <1>2, Lengths
<1>8. ASSUME NEW m \in Nat, m <= Len(requests), EndedTo(m) PROVE EndedTo(m)'
  <2> SUFFICES ASSUME NEW k \in 1 .. m PROVE Done(Reextraction(k))' BY DEF EndedTo
  <2>1. k \in 1 .. Len(requests) BY <1>7, <1>8
  <2>2. Reextraction(k) \in Key BY <1>1, <2>1, Lengths
  <2>3. PICK x \in Key : x = Reextraction(k) BY <2>2
  <2>4. Known(x) /\ Done(x) BY <1>8, <2>1, <2>3 DEF Known, EndedTo
  <2>5. Done(x)' BY <1>4, <2>4 DEF Keeps
  <2> QED BY <2>3, <2>5 DEF Done, Reextraction
<1>9. AllEnded => AllEnded' BY <1>7, <1>8 DEF AllEnded
<1>10. turn \in Holder BY <1>1 DEF CursorsInv
<1>11. turn.result \in Answer /\ turn.cursor \in Place /\ turn.through \in Nat BY <1>10, HolderParts
<1>12. turn.result.next \in Place BY <1>11 DEF Answer
<1>13. RxAnswer'
  <2>1. turn.result.next.after \in Nat BY <1>12 DEF Place
  <2>2. PICK c, d, p : c = turn.result.next /\ d = (rx.dirty \/ turn.result.work # NoWork) /\ p = rx.pending
    OBVIOUS
  <2>3. AtRequest(c, d, p) => AtRequest(c, d, p)' BY <1>7, <1>8, <2>1, <2>2 DEF AtRequest, NoCursor, Unset
  <2> QED BY <1>1, <1>2, <1>9, <2>2, <2>3 DEF RxAnswer, NoWork
<1>14. NormalTurn' /\ RxTurn'
  BY <1>1, <1>2 DEF NormalTurn, RxTurn, NormalPoint, RxPoint, Unset, NoCursor
<1>15. CeilingInv'
  <2>1. turn.cursor.through \in Int /\ turn.result.next.through \in Int BY <1>11, <1>12 DEF Place
  <2> QED BY <1>1, <1>2, <1>4, <1>7, <1>11, <2>1 DEF CeilingInv
<1>16. QueueTurn' BY <1>1, <1>2, <1>9 DEF QueueTurn, NormalPoint, RxPoint
<1>17. \A key \in Key : Exists(key) => Exists(key)' BY <1>4 DEF Keeps
<1>18. AnswerInv'
  <2>1. ASSUME NEW w, Obligation(w) PROVE Obligation(w)'
    BY <1>17, <2>1 DEF Obligation, IsMemory, Key, Mandatory, Reextraction, OptionalKey
  <2> QED BY <1>1, <1>2, <2>1 DEF AnswerInv, NoWork, NoCursor, Unset
<1>19. WorkInv'
  BY <1>1, <1>2, <1>17 DEF WorkInv, WorkPoint, Reextraction, Key, Mandatory, OptionalKey, NoCursor, Unset
<1>20. OptionalInv' BY <1>1, <1>2, <1>5 DEF OptionalInv, OptionalPoint, WorkPoint, Unset
<1> QED BY <1>5, <1>6, <1>13, <1>14, <1>15, <1>16, <1>18, <1>19, <1>20 DEF SweepInv, Turn

\* An epoch that advances outdates every proof for good.
LEMMA MessagePreempts == ASSUME SweepInv, preemptBackground PROVE SweepInv'
<1>1. /\ World /\ RecordsInv /\ ExistInv /\ CursorsInv /\ EpochInv /\ RxInv
      /\ NormalTurn /\ RxAnswer /\ RxTurn /\ CeilingInv /\ QueueTurn /\ AnswerInv /\ WorkInv /\ OptionalInv
  BY DEF SweepInv, World, Turn
<1>2. /\ arriving' = FALSE /\ epoch' = epoch + 1
      /\ UNCHANGED <<events, requests, run, normal, complete, rx, scans, clean, fair, turn, uncovered>>
  BY DEF preemptBackground, durable, cursors
<1>3. Framed /\ Silent BY <1>1, <1>2, DurableRests
<1>4. RecordsInv' /\ ExistInv' BY <1>3 DEF Framed
<1>5. turn \in Holder /\ turn.epoch \in Nat /\ turn.cycle \in Nat /\ turn.lease \in Nat
  BY <1>1, HolderParts DEF CursorsInv
<1>6. EpochInv'
  <2>1. normal.epoch \in Int /\ rx.epoch \in Int BY <1>1 DEF CursorsInv, NormalCycle, RxCycle, Unset
  <2> QED BY <1>1, <1>2, <1>5, <2>1 DEF EpochInv
<1>7. clean # epoch' /\ complete # epoch' /\ normal.epoch # epoch' /\ turn.cycle # epoch' /\ turn.lease # epoch'
  BY <1>1, <1>2, <1>5 DEF EpochInv
<1>8. CleanInv' /\ NormalInv' /\ NormalAnswer' /\ CompleteInv' /\ Proved'
  BY <1>2, <1>7 DEF CleanInv, NormalInv, NormalAnswer, CompleteInv, Proved
<1>9. CursorsInv'
  <2>1. /\ normal' \in NormalCycle' /\ rx' \in RxCycle' /\ fair' \in Place'
        /\ normal'.epoch = Unset => normal'.cursor = NoCursor'
    BY <1>1, <1>2 DEF CursorsInv, NormalCycle, RxCycle, Place, NoCursor, Unset
  <2>2. turn' \in Holder BY <1>2, <1>5
  <2>3. turn' \in Holder'
    BY <2>2 DEF Holder, Answer, Place, Item, Point, Key, Mandatory, Reextraction, OptionalKey,
       RunState, Code, Failure, NoFailure, WayOut, By
  <2> QED BY <1>1, <1>2, <2>1, <2>3 DEF CursorsInv, Unset
<1>10. RxInv' BY <1>1, <1>2, <1>3, CyclesRest
<1>11. World' BY <1>4, <1>6, <1>8, <1>9, <1>10 DEF World
<1>12. AllEnded => AllEnded' BY <1>1, <1>3, FrameCovers
<1>13. RxAnswer'
  <2>1. turn.result \in Answer BY <1>5, HolderParts
  <2>2. turn.result.next \in Place BY <2>1 DEF Answer
  <2> QED BY <1>1, <1>2, <1>3, <1>12, <2>2, FrameCovers DEF RxAnswer, NoWork
<1>14. NormalTurn' /\ RxTurn' /\ CeilingInv'
  BY <1>1, <1>2 DEF NormalTurn, RxTurn, CeilingInv, NormalPoint, RxPoint, Unset, NoCursor
<1>15. QueueTurn' BY <1>1, <1>2, <1>12 DEF QueueTurn, NormalPoint, RxPoint
<1>16. AnswerInv' /\ WorkInv'
  <2>1. AnswerInv'
    BY <1>1, <1>2 DEF AnswerInv, Obligation, IsMemory, Exists, Reextraction, Key, Mandatory, OptionalKey,
       NoWork, NoCursor, Unset
  <2>2. WorkInv'
    BY <1>1, <1>2 DEF WorkInv, WorkPoint, Exists, Reextraction, Key, Mandatory, OptionalKey, NoCursor, Unset
  <2> QED BY <2>1, <2>2
<1>17. OptionalInv' BY <1>1, <1>2, <1>7, <1>8 DEF OptionalInv, OptionalPoint, WorkPoint, Unset
<1> QED BY <1>8, <1>11, <1>13, <1>14, <1>15, <1>16, <1>17 DEF SweepInv, Turn

-----------------------------------------------------------------------------
(* Selection, archive, crash and restart.                                  *)

LEMMA CyclesReset ==
    ASSUME RecordsInv, resetMemoryDiscovery, events' = events, arriving' \in BOOLEAN, turn' \in Holder
    PROVE  /\ normal'.epoch = Unset /\ rx'.epoch = Unset /\ complete' = Unset /\ ~scans' /\ ~rx'.active
           /\ rx'.cursor = NoCursor' /\ CursorsInv' /\ RxInv'
<1>1. /\ fair' = NoCursor /\ normal' = NoNormal /\ complete' = Unset /\ rx' = NoRx /\ scans' = FALSE
  BY DEF resetMemoryDiscovery
<1>2. NoNormal = [cursor |-> NoCursor, epoch |-> Unset, dirty |-> FALSE] BY DEF NoNormal
<1>3. NoRx = [active |-> FALSE, cursor |-> NoCursor, epoch |-> Unset, dirty |-> FALSE, pending |-> FALSE]
  BY DEF NoRx
<1>4. NoCursor' = NoCursor BY DEF NoCursor, Unset
<1>5. RxInv' BY <1>1, <1>3, <1>4 DEF RxInv, AtRequest
<1>6. CursorsInv'
  <2>1. NoCursor \in Place /\ NoCursor.through = Unset BY IdleHolds
  <2>2. NoNormal \in NormalCycle /\ NoRx \in RxCycle BY <1>2, <1>3, <2>1 DEF NormalCycle, RxCycle
  <2>3. /\ normal' \in NormalCycle' /\ rx' \in RxCycle' /\ fair' \in Place'
    BY <1>1, <2>1, <2>2 DEF NormalCycle, RxCycle, Place, Unset
  <2>4. turn' \in Holder'
    BY DEF Holder, Answer, Place, Item, Point, Key, Mandatory, Reextraction, OptionalKey,
       RunState, Code, Failure, NoFailure, WayOut, By
  <2>5. normal'.cursor = NoCursor BY <1>1, <1>2
  <2>6. Len(events') \in Nat BY Lengths
  <2>7. normal'.cursor.through <= Len(events') /\ fair'.through <= Len(events')
    BY <1>1, <2>1, <2>5, <2>6 DEF Unset
  <2> QED BY <1>1, <1>4, <2>3, <2>4, <2>5, <2>7 DEF CursorsInv
<1> QED BY <1>1, <1>2, <1>3, <1>4, <1>5, <1>6

LEMMA BoundaryBegins == ASSUME SweepInv, BoundaryBegin PROVE SweepInv'
<1>1. /\ World /\ RecordsInv /\ ExistInv /\ CursorsInv /\ EpochInv
      /\ CeilingInv /\ QueueTurn /\ AnswerInv /\ WorkInv /\ OptionalInv
  BY DEF SweepInv, World, Turn
<1>2. /\ epoch' = epoch + 1 /\ clean' = Unset /\ resetMemoryDiscovery
      /\ UNCHANGED <<events, requests, run, turn, arriving, uncovered>>
  BY DEF BoundaryBegin, durable
<1>3. Framed /\ Silent BY <1>1, <1>2, DurableRests
<1>4. RecordsInv' /\ ExistInv' BY <1>3 DEF Framed
<1>5. turn \in Holder /\ turn.epoch \in Nat /\ turn.cycle \in Nat /\ turn.lease \in Nat
  BY <1>1, HolderParts DEF CursorsInv
<1>6. /\ normal'.epoch = Unset /\ rx'.epoch = Unset /\ complete' = Unset /\ ~scans' /\ ~rx'.active
      /\ rx'.cursor = NoCursor' /\ CursorsInv' /\ RxInv'
  <2>1. arriving' \in BOOLEAN /\ turn' \in Holder BY <1>1, <1>2, <1>5 DEF CursorsInv
  <2> QED BY <1>1, <1>2, <2>1, CyclesReset
<1>7. EpochInv' BY <1>1, <1>2, <1>5, <1>6 DEF EpochInv, Unset
<1>8. /\ clean' # epoch' /\ complete' # epoch' /\ normal'.epoch # epoch' /\ turn'.lease # epoch'
      /\ normal'.epoch # turn'.cycle /\ rx'.epoch # turn'.cycle
  BY <1>1, <1>2, <1>5, <1>6 DEF EpochInv, Unset
<1>9. CleanInv' /\ NormalInv' /\ NormalAnswer' /\ CompleteInv' /\ Proved' /\ RxAnswer' /\ RxTurn'
  BY <1>8 DEF CleanInv, NormalInv, NormalAnswer, CompleteInv, Proved, RxAnswer, RxTurn
<1>10. World' BY <1>4, <1>6, <1>7, <1>9 DEF World
<1>11. AllEnded => AllEnded' BY <1>1, <1>3, FrameCovers
<1>12. NormalTurn' BY <1>6, <1>8 DEF NormalTurn, Unset
<1>13. CeilingInv' BY <1>1, <1>2 DEF CeilingInv
<1>14. QueueTurn'
  <2>1. clean' <= turn'.epoch BY <1>2, <1>5 DEF Unset
  <2> QED BY <1>1, <1>2, <1>6, <1>11, <2>1 DEF QueueTurn, NormalPoint, RxPoint
<1>15. AnswerInv' /\ WorkInv'
  <2>1. AnswerInv'
    BY <1>1, <1>2 DEF AnswerInv, Obligation, IsMemory, Exists, Reextraction, Key, Mandatory, OptionalKey,
       NoWork, NoCursor, Unset
  <2>2. WorkInv'
    BY <1>1, <1>2, <1>6 DEF WorkInv, WorkPoint, Exists, Reextraction, Key, Mandatory, OptionalKey, NoCursor, Unset
  <2> QED BY <2>1, <2>2
<1>16. OptionalInv' BY <1>1, <1>2, <1>6, <1>8, <1>9 DEF OptionalInv, OptionalPoint, WorkPoint, Unset
<1> QED BY <1>9, <1>10, <1>12, <1>13, <1>14, <1>15, <1>16 DEF SweepInv, Turn

LEMMA ProcessDies == ASSUME SweepInv, Crash PROVE SweepInv'
<1>1. World /\ RecordsInv /\ ExistInv /\ CursorsInv BY DEF SweepInv, World
<1>2. /\ epoch' = 0 /\ clean' = Unset /\ resetMemoryDiscovery /\ arriving' = FALSE
      /\ UNCHANGED <<events, requests, run>> /\ turn' = Idle
  BY DEF Crash, durable, EndTurn
<1>3. RecordsInv' BY <1>1, <1>2 DEF RecordsInv, RunType, Event, Key, Mandatory, Reextraction, OptionalKey, RunState
<1>4. ExistInv' BY <1>1, <1>2 DEF ExistInv, Exists, Mandatory, Reextraction
<1>5. /\ turn' \in Holder /\ turn'.at = "idle" /\ turn'.by = "turn" /\ turn'.epoch = 0 /\ turn'.cycle = 0
      /\ turn'.lease = 0
  BY <1>2, IdleHolds
<1>6. /\ normal'.epoch = Unset /\ rx'.epoch = Unset /\ complete' = Unset /\ ~scans' /\ ~rx'.active
      /\ CursorsInv' /\ RxInv'
  <2>1. arriving' \in BOOLEAN BY <1>2
  <2> QED BY <1>1, <1>2, <1>5, <2>1, CyclesReset
<1>7. EpochInv' BY <1>2, <1>5, <1>6 DEF EpochInv, Unset
<1>8. clean' # epoch' /\ complete' # epoch' /\ normal'.epoch # epoch' BY <1>2, <1>6 DEF Unset
<1>9. CleanInv' /\ NormalInv' /\ CompleteInv'
  BY <1>8 DEF CleanInv, NormalInv, CompleteInv
<1>10. World' BY <1>3, <1>4, <1>6, <1>7, <1>9 DEF World
<1>11. WorkInv' BY <1>5 DEF WorkInv, WorkPoint
<1>12. scans' = FALSE BY <1>2 DEF resetMemoryDiscovery
<1>13. Turn' BY <1>5, <1>6, <1>9, <1>11, <1>12, TurnOutside
<1> QED BY <1>10, <1>13 DEF SweepInv


\* Erased content and a resident that is gone only close what was open.
LEMMA ProcessStarts == ASSUME SweepInv, Restart PROVE SweepInv'
<1>1. World /\ RecordsInv /\ ExistInv /\ CursorsInv /\ EpochInv /\ RunType BY DEF SweepInv, World, RecordsInv
<1>2. UNCHANGED <<requests, uncovered, fair, turn>> /\ Stands
  BY DEF Restart, proof, cursors, outside, Stands
<1>3. PICK erased :
        /\ events' = [i \in DOMAIN events |->
             [events[i] EXCEPT !.erased = i \in erased \/ events[i].erased,
                               !.dialogue = IF ~(i \in erased \/ events[i].erased) /\ Available
                                            THEN @ ELSE "closed"]]
        /\ run' = [key \in Key |->
             IF key[1] = "event" /\ memoryWorkNeedsAttention(key)
                /\ ((key[2] \in erased \/ events[key[2]].erased) \/ ~active)
             THEN [run[key] EXCEPT !.state = "ended"]
             ELSE IF run[key].state = "running" THEN Outcome(key, "runtime_interrupted")[key]
             ELSE run[key]]
  BY DEF Restart
<1>4. events \in Seq(Event) /\ Len(events) \in Nat /\ DOMAIN events = 1 .. Len(events)
  BY <1>1, Lengths DEF RecordsInv
<1> DEFINE F(i) == [events[i] EXCEPT !.erased = i \in erased \/ events[i].erased,
                                     !.dialogue = IF ~(i \in erased \/ events[i].erased) /\ Available
                                                  THEN @ ELSE "closed"]
<1>5. ASSUME NEW i \in 1 .. Len(events)
      PROVE  /\ F(i) \in Event /\ F(i).type = events[i].type
             /\ F(i).dialogue \in {events[i].dialogue, "closed"}
  <2>1. events[i] \in Event BY <1>4
  <2>2. PICK t, d, g, a, b :
          /\ t = events[i].type /\ d = events[i].dialogue /\ g = events[i].erased
          /\ a = (i \in erased \/ events[i].erased)
          /\ b = IF ~(i \in erased \/ events[i].erased) /\ Available THEN d ELSE "closed"
    OBVIOUS
  <2>3. events[i] = [type |-> t, dialogue |-> d, erased |-> g] /\ t \in {"user", "self_talk"}
        /\ d \in {"open", "prepared", "closed"}
    BY <2>1, <2>2 DEF Event
  <2>4. a \in BOOLEAN /\ b \in {d, "closed"} BY <2>2
  <2>5. F(i) = [type |-> t, dialogue |-> b, erased |-> a]
    <3>1. F(i) = [events[i] EXCEPT !.erased = a, !.dialogue = b] BY <2>2, Zenon
    <3> HIDE DEF F
    <3>2. PICK e : e = events[i] OBVIOUS
    <3>3. e = [type |-> t, dialogue |-> d, erased |-> g] BY <2>3, <3>2
    <3>4. F(i) = [e EXCEPT !.erased = a, !.dialogue = b] BY <3>1, <3>2
    <3>5. PICK f : f = [e EXCEPT !.erased = a] OBVIOUS
    <3>6. f = [type |-> t, dialogue |-> d, erased |-> a] BY <3>3, <3>5
    <3>7. [f EXCEPT !.dialogue = b] = [type |-> t, dialogue |-> b, erased |-> a] BY <3>6
    <3> QED BY <3>4, <3>5, <3>7
  <2> HIDE DEF F
  <2> QED BY <2>2, <2>3, <2>4, <2>5 DEF Event
<1>6. events' = [i \in 1 .. Len(events) |-> F(i)] BY <1>3, <1>4
<1> HIDE DEF F
<1>7. events' \in Seq(Event) /\ Len(events') = Len(events) /\ DOMAIN events' = 1 .. Len(events)
      /\ \A i \in 1 .. Len(events) : events'[i] = F(i)
  BY <1>4, <1>5, <1>6
<1>8. Silent BY <1>5, <1>7 DEF Silent, Unclosed
<1> DEFINE G(key) == IF key[1] = "event" /\ memoryWorkNeedsAttention(key)
                        /\ ((key[2] \in erased \/ events[key[2]].erased) \/ ~active)
                     THEN [run[key] EXCEPT !.state = "ended"]
                     ELSE IF run[key].state = "running" THEN Outcome(key, "runtime_interrupted")[key]
                     ELSE run[key]
<1>9. ASSUME NEW key \in Key
      PROVE  /\ G(key) \in [state : RunState, fails : Nat]
             /\ Exists(key) => G(key).state # "absent"
             /\ Done(key) => G(key).state = "ended"
  <2>1. /\ run[key].state \in RunState /\ run[key].fails \in Nat
        /\ run[key] = [state |-> run[key].state, fails |-> run[key].fails]
    BY <1>1, RunStates
  <2>2. PICK a : a = [run[key] EXCEPT !.state = "ended"] OBVIOUS
  <2>3. a = [state |-> "ended", fails |-> run[key].fails] BY <2>1, <2>2
  <2>4. a \in [state : RunState, fails : Nat] /\ a.state = "ended" BY <2>1, <2>3 DEF RunState
  <2>5. PICK r : /\ Outcome(key, "runtime_interrupted") = [run EXCEPT ![key] = r]
                 /\ r.state \in RunState \ {"absent"} /\ r.fails \in Nat
                 /\ r = [state |-> r.state, fails |-> r.fails]
    BY <1>1, OutcomeOf
  <2>6. Outcome(key, "runtime_interrupted")[key] = r BY <1>1, <2>5 DEF RunType
  <2>7. r \in [state : RunState, fails : Nat] BY <2>5
  <2>8. run[key] \in [state : RunState, fails : Nat] BY <2>1
  <2>9. \/ G(key) = a
        \/ run[key].state = "running" /\ G(key) = r
        \/ G(key) = run[key]
    BY <2>2, <2>6
  <2> HIDE DEF G
  <2> QED BY <2>4, <2>5, <2>7, <2>8, <2>9 DEF Exists, Done
<1>10. run' = [key \in Key |-> G(key)] BY <1>3
<1> HIDE DEF G
<1>11. run' \in [Key -> [state : RunState, fails : Nat]] BY <1>9, <1>10
<1>12. RunType' BY <1>11 DEF RunType, Key, Mandatory, Reextraction, OptionalKey, RunState
<1>13. Keeps
  <2>1. \A key \in Key : run'[key] = G(key) BY <1>10
  <2> QED BY <1>9, <2>1 DEF Keeps, Exists, Done
<1>14. RecordsInv' BY <1>1, <1>2, <1>7, <1>12 DEF RecordsInv, Event
<1>15. ExistInv'
  BY <1>1, <1>2, <1>7, <1>13, Lengths DEF ExistInv, Keeps, Mandatory, Reextraction
<1>16. Framed BY <1>2, <1>7, <1>13, <1>14, <1>15 DEF Framed
<1>17. Held BY <1>1, <1>2 DEF Held, CursorsInv, EpochInv
<1>18. World' BY <1>1, <1>2, <1>8, <1>16, <1>17, WorldStands
<1>19. Turn' BY <1>2, <1>16, TurnRests
<1> QED BY <1>18, <1>19 DEF SweepInv

-----------------------------------------------------------------------------
(* The theorem.                                                            *)

LEMMA SweepStarts == ASSUME Init PROVE SweepInv
<1>1. /\ events = <<>> /\ requests = <<>> /\ run = [key \in Key |-> [state |-> "absent", fails |-> 0]]
      /\ epoch = 0 /\ clean = Unset /\ fair = NoCursor /\ normal = NoNormal /\ complete = Unset
      /\ rx = NoRx /\ scans = FALSE /\ turn = Idle /\ arriving = FALSE
  BY DEF Init
<1>2. MaxEvents \in Nat /\ MaxRequests \in Nat BY MemoryAssumption
<1>3. RunType
  <2>1. [state |-> "absent", fails |-> 0] \in [state : RunState, fails : Nat] BY DEF RunState
  <2> QED BY <1>1, <2>1 DEF RunType
<1>4. RecordsInv /\ ExistInv BY <1>1, <1>2, <1>3 DEF RecordsInv, ExistInv
<1>5. /\ turn \in Holder /\ turn.at = "idle" /\ turn.by = "turn" /\ turn.epoch = 0 /\ turn.cycle = 0
      /\ turn.lease = 0 /\ NoCursor \in Place /\ NoCursor.through = Unset
  BY <1>1, IdleHolds
<1>6. normal = [cursor |-> NoCursor, epoch |-> Unset, dirty |-> FALSE]
      /\ rx = [active |-> FALSE, cursor |-> NoCursor, epoch |-> Unset, dirty |-> FALSE, pending |-> FALSE]
  BY <1>1 DEF NoNormal, NoRx
<1>7. normal \in NormalCycle /\ rx \in RxCycle BY <1>5, <1>6 DEF NormalCycle, RxCycle
<1>8. /\ normal.cursor = NoCursor /\ normal.epoch = Unset /\ rx.cursor = NoCursor /\ rx.epoch = Unset
      /\ ~rx.active
  BY <1>6
<1>9. CursorsInv
  <2>1. Len(events) = 0 BY <1>1
  <2>2. normal.cursor.through <= Len(events) /\ fair.through <= Len(events)
    BY <1>1, <1>5, <1>8, <2>1 DEF Unset
  <2>3. scans \in BOOLEAN /\ arriving \in BOOLEAN /\ fair \in Place BY <1>1, <1>5
  <2> QED BY <1>5, <1>7, <1>8, <2>2, <2>3 DEF CursorsInv
<1>10. EpochInv BY <1>1, <1>5, <1>8 DEF EpochInv, Unset
<1>11. CleanInv /\ NormalInv /\ RxInv /\ CompleteInv
  BY <1>1, <1>8 DEF CleanInv, NormalInv, RxInv, CompleteInv, AtRequest, Unset
<1>12. Turn
  BY <1>1, <1>5, <1>8, <1>11 DEF Turn, NormalAnswer, NormalTurn, RxAnswer, RxTurn, CeilingInv, QueueTurn, AnswerInv,
     WorkInv, OptionalInv, OptionalPoint, NormalPoint, RxPoint, WorkPoint
<1> QED BY <1>4, <1>9, <1>10, <1>11, <1>12 DEF SweepInv, World

LEMMA SweepRests == ASSUME SweepInv, UNCHANGED vars PROVE SweepInv'
<1>1. World /\ RecordsInv /\ ExistInv /\ CursorsInv /\ EpochInv BY DEF SweepInv, World
<1>2. UNCHANGED <<events, requests, run, uncovered, fair, turn>> /\ Stands
  BY DEF vars, durable, proof, cursors, outside, Stands
<1>3. Framed /\ Silent BY <1>1, <1>2, DurableRests
<1>4. Held BY <1>1, <1>2 DEF Held, CursorsInv, EpochInv
<1>5. World' BY <1>1, <1>2, <1>3, <1>4, WorldStands
<1>6. Turn' BY <1>2, <1>3, TurnRests
<1> QED BY <1>5, <1>6 DEF SweepInv


LEMMA SweepStep == ASSUME SweepInv, [Next]_vars PROVE SweepInv'
<1>1. CASE TurnStart \/ ScanDialogue BY <1>1, ScanKeeps
<1>2. CASE ScanClean BY <1>2, ScanCleans
<1>3. CASE FairDiscover BY <1>3, FairDiscovers
<1>4. CASE FairUpdate BY <1>4, FairUpdates
<1>5. CASE QueueStep
  <2>1. CASE QueueStart BY <2>1, QueueStarts
  <2>2. CASE NormalStart BY <2>2, NormalStarts
  <2>3. CASE NormalDiscover BY <2>3, NormalDiscovers
  <2>4. CASE NormalUpdate BY <2>4, NormalUpdates
  <2>5. CASE RxStart BY <2>5, RxStarts
  <2>6. CASE RxDiscover BY <2>6, RxDiscovers
  <2>7. CASE RxUpdate BY <2>7, RxUpdates
  <2>8. CASE Verified BY <2>8, ProofIsGiven
  <2>9. CASE SetComplete BY <2>9, ProofIsRecorded
  <2>10. CASE processMemoryAlignmentQueue \/ processPersonaRevisionQueue BY <2>10, QueuesLook
  <2> QED BY <1>5, <2>1, <2>2, <2>3, <2>4, <2>5, <2>6, <2>7, <2>8, <2>9, <2>10 DEF QueueStep
<1>6. CASE WorkStep
  <2>1. CASE Process BY <2>1, ItemsProcess
  <2>2. CASE Reject BY <2>2, EnvelopeIsRejected
  <2>3. CASE Admit BY <2>3, WorkIsAdmitted
  <2>4. CASE Register BY <2>4, AttemptRegisters
  <2>5. CASE Provider BY <2>5, ProviderAnswers
  <2>6. CASE Land BY <2>6, WorkLands
  <2>7. CASE Fail BY <2>7, FailureIsRecorded
  <2> QED BY <1>6, <2>1, <2>2, <2>3, <2>4, <2>5, <2>6, <2>7 DEF WorkStep
<1>7. CASE AutonomyStart BY <1>7, TriggersStart
<1>8. CASE AutonomyGate BY <1>8, TriggersPass
<1>9. CASE ComesDue \/ CancelAutonomous BY <1>9, WorkComesDue
<1>10. CASE AdminStep
  <2>1. CASE ProposeMemoryPersona \/ DeriveMemoryClaim BY <2>1, AdminsCall
  <2>2. CASE ReextractNew BY <2>2, RequestIsMade
  <2>3. CASE ReextractAgain BY <2>3, RequestIsRepeated
  <2> QED BY <1>10, <2>1, <2>2, <2>3 DEF AdminStep
<1>11. CASE Accept BY <1>11, MessageArrives
<1>12. CASE preemptBackground BY <1>12, MessagePreempts
<1>13. CASE BoundaryBegin BY <1>13, BoundaryBegins
<1>14. CASE CompleteArchived \/ BoundaryEnd BY <1>14, ArchiveDrains
<1>15. CASE Crash BY <1>15, ProcessDies
<1>16. CASE Restart BY <1>16, ProcessStarts
<1>17. CASE UNCHANGED vars BY <1>17, SweepRests
<1> QED
  BY <1>1, <1>2, <1>3, <1>4, <1>5, <1>6, <1>7, <1>8, <1>9, <1>10, <1>11, <1>12, <1>13, <1>14, <1>15,
     <1>16, <1>17
  DEF Next, TurnStep, Boundary

LEMMA SweepProves == ASSUME SweepInv PROVE MandatoryFirst
<1> SUFFICES ASSUME OptionalCall
             PROVE  /\ \A i \in DOMAIN events :
                         ~Unclosed(i) /\ (i \in uncovered \/ ~Pending(Mandatory(i)))
                    /\ \A k \in DOMAIN requests : ~Pending(Reextraction(k))
  BY DEF MandatoryFirst
<1>1. RecordsInv /\ CleanInv /\ OptionalInv BY DEF SweepInv, World, Turn
<1>2. turn.at = "call" /\ OptionalPoint /\ epoch = turn.lease /\ ~arriving
  BY DEF OptionalCall, OptionalPoint, WorkPoint
<1>3. clean = epoch /\ Proved BY <1>1, <1>2 DEF OptionalInv
<1>4. AllCovered /\ AllEnded BY <1>2, <1>3 DEF Proved
<1>5. DOMAIN events = 1 .. Len(events) /\ DOMAIN requests = 1 .. Len(requests) BY <1>1, Lengths
<1>6. \A key : Done(key) => ~Pending(key) BY DEF Done, Pending
<1>7. ASSUME NEW i \in DOMAIN events PROVE ~Unclosed(i) /\ (i \in uncovered \/ ~Pending(Mandatory(i)))
  <2>1. ~Unclosed(i) BY <1>1, <1>2, <1>3 DEF CleanInv
  <2>2. i \in uncovered \/ Done(Mandatory(i)) BY <1>4, <1>5 DEF AllCovered, Covered
  <2> QED BY <1>6, <2>1, <2>2
<1>8. ASSUME NEW k \in DOMAIN requests PROVE ~Pending(Reextraction(k))
  <2>1. Done(Reextraction(k)) BY <1>4, <1>5 DEF AllEnded, EndedTo
  <2> QED BY <1>6, <2>1
<1> QED BY <1>7, <1>8

\* Whenever optional work (alignment, persona, derivation, autonomy) is with
\* the provider and nothing has arrived since, every dialogue is closed, every
\* re-extraction has ended and every extraction the sweep covered has: for
\* every number of events, requests, calls and faults, through budget stops,
\* dirty cycles, preemptions, selections, archives and crashes.
\* (processMemoryExtractionQueue and what it calls.)
THEOREM MandatoryAlwaysFirst == Spec => []MandatoryFirst
<1>1. Init => SweepInv BY SweepStarts
<1>2. SweepInv /\ [Next]_vars => SweepInv' BY SweepStep
<1>3. SweepInv => MandatoryFirst BY SweepProves
<1> QED BY <1>1, <1>2, <1>3, PTL DEF Spec

=============================================================================
