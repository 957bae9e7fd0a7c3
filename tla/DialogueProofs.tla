---------------------------- MODULE DialogueProofs ----------------------------
(***************************************************************************)
(* Proofs about the dialogue of a resident: the obligations, for any       *)
(* residents and messages, any retry budget and any number of disruptions  *)
(* and owner operations, and the scan that finds them, for every window,   *)
(* page size and page budget.                                              *)
(*                                                                         *)
(* About the obligations, the argument is what a step may append to a      *)
(* history: Legal names the five cases, every action is shown to append    *)
(* nothing else, and the properties follow from Legal.  About the scan it  *)
(* is what a cycle has passed: its clean proof is sound.                   *)
(***************************************************************************)
EXTENDS DialogueObligations, DialogueScan, TLAPS

Reason == {"erased", "inactive", "unselected"}
Working == {"serving", "stopping"}
OfResident(r) == {e \in Event : ResidentOf[e] = r}

HasRunning(e) == HasRun(e) /\ Latest(e).state = "running"

\* Rows an attempt begins with, one that ends it, and a retryable end that is
\* made final.
Begins(e, new) ==
    /\ Available(ResidentOf[e]) /\ phase \in Working
    /\ \/ ~HasRun(e) /\ new = <<Running(1)>>
       \/ HasRun(e) /\ RetryEligible(e) /\ new = <<Running(Latest(e).no + 1)>>

Ends(e, new) ==
    /\ HasRunning(e)
    /\ \E s \in Terminal, c \in Code :
          /\ new = <<Ended(Latest(e).no, s, c)>>
          /\ s = "succeeded" =>
                c = "none" /\ Available(ResidentOf[e]) /\ e \notin erased \cup stale
          /\ s = "failed" => status[ResidentOf[e]] = "active"

Closes(e, new) ==
    /\ HasRun(e) /\ Latest(e).state # "running" /\ Retryable(Latest(e).code)
    /\ \E s \in {"failed", "cancelled"}, c \in Code \ {"retryable"} :
          /\ new = <<Running(Latest(e).no + 1), Ended(Latest(e).no + 1, s, c)>>
          /\ s = "failed" => status[ResidentOf[e]] = "active"

Legal(e, new) ==
    \/ new = <<>>
    \/ ~HasRun(e) /\ \E c \in Reason : new = <<Ended(0, "cancelled", c)>>
    \/ Begins(e, new) \/ Ends(e, new) \/ Closes(e, new)

\* A step appends to one history at most, that of a message in S.
Writes(S) ==
    \/ UNCHANGED rows
    \/ \E e \in S : \E new : Apply(e, new) /\ Legal(e, new)

\* HistoryWellFormed of one message, and the retry budget.
Synthetic(e) ==
    /\ Len(rows[e]) = 1 /\ rows[e][1].no = 0 /\ rows[e][1].state = "cancelled"
    /\ ~Retryable(rows[e][1].code)

RowFits(e, i) ==
    /\ rows[e][i].no = (i + 1) \div 2
    /\ IF i % 2 = 1 THEN rows[e][i].state = "running" /\ ~Retryable(rows[e][i].code)
       ELSE rows[e][i].state \in Terminal
    /\ i % 2 = 0 /\ i < Len(rows[e]) => Retryable(rows[e][i].code)

Alternates(e) == \A i \in 1 .. Len(rows[e]) : RowFits(e, i)

History(e) ==
    /\ Synthetic(e) \/ Alternates(e)
    /\ HasRun(e) /\ (Latest(e).state = "running" \/ Retryable(Latest(e).code)) =>
          Latest(e).no <= MaxAttempts

\* What a turn knows of its message.
Fits(r, w) ==
    /\ w.at \notin {"idle", "turn"} => w.event \in OfResident(r)
    /\ w.at = "retry" =>
          \/ status[r] = "archived"
          \/ HasRun(w.event) /\ RetryEligible(w.event) /\ Latest(w.event).no = w.no
    /\ w.at \in {"resume", "reload"} => HasRun(w.event)
    /\ w.at \in {"before", "provider"} => w.no <= MaxAttempts

WorkersFit ==
    \A r \in Resident : /\ Fits(r, worker[r])
                        /\ phase \notin Working => worker[r].at = "idle"

ArchiverFits ==
    /\ archiver.at # "idle" =>
          archiver.resident \in Resident /\ status[archiver.resident] = "archived"
    /\ archiver.at = "cancel" => archiver.event \in OfResident(archiver.resident)

\* Once archived, always archived, and closed if the archive said so.
ArchivedStay == \A r \in archivedOk : status[r] = "archived"

NoneRunning ==
    phase \in {"startMandatory", "stopMandatory"} => \A e \in Event : ~HasRunning(e)

\* The inductive invariant.
ObligationInv ==
    /\ TypeOK
    /\ \A e \in Event : History(e)
    /\ WorkersFit /\ ArchiverFits /\ ArchivedStay /\ ArchiveClosed /\ NoneRunning

-----------------------------------------------------------------------------
(* Rows and histories.                                                     *)

LEMMA LatestTyped ==
    ASSUME TypeOK, NEW e \in Event, HasRun(e)
    PROVE  /\ rows[e] \in Seq(Row) /\ Len(rows[e]) \in Nat \ {0}
           /\ Latest(e) \in Row
           /\ Latest(e).no \in 0 .. MaxAttempts + 1
           /\ Latest(e).code \in Code
  <1>1. rows[e] \in Seq(Row)
    BY DEF TypeOK
  <1>2. Len(rows[e]) \in Nat \ {0}
    BY <1>1 DEF HasRun
  <1>3. Latest(e) \in Row
    BY <1>1, <1>2 DEF Latest
  <1> QED
    BY <1>1, <1>2, <1>3 DEF Row

\* One row, and two rows, after a history.
LEMMA AddOne ==
    ASSUME NEW S, NEW h \in Seq(S), NEW x \in S
    PROVE  /\ h \o <<x>> \in Seq(S)
           /\ Len(h \o <<x>>) = Len(h) + 1
           /\ (h \o <<x>>)[Len(h) + 1] = x
           /\ \A i \in 1 .. Len(h) : (h \o <<x>>)[i] = h[i]
           /\ h \o <<x>> # <<>>
  OBVIOUS

LEMMA AddTwo ==
    ASSUME NEW S, NEW h \in Seq(S), NEW x \in S, NEW y \in S
    PROVE  /\ h \o <<x, y>> \in Seq(S)
           /\ Len(h \o <<x, y>>) = Len(h) + 2
           /\ (h \o <<x, y>>)[Len(h) + 1] = x
           /\ (h \o <<x, y>>)[Len(h) + 2] = y
           /\ \A i \in 1 .. Len(h) : (h \o <<x, y>>)[i] = h[i]
           /\ h \o <<x, y>> # <<>>
  OBVIOUS

LEMMA EndedTyped ==
    ASSUME NEW m \in 0 .. MaxAttempts + 1,
           NEW s \in {"running", "succeeded", "failed", "cancelled"}, NEW c \in Code
    PROVE  /\ Ended(m, s, c) \in Row
           /\ Ended(m, s, c).no = m /\ Ended(m, s, c).state = s
           /\ Ended(m, s, c).code = c
  BY DEF Ended, Row

LEMMA RunningTyped ==
    ASSUME NEW m \in 0 .. MaxAttempts + 1
    PROVE  /\ Running(m) \in Row
           /\ Running(m).no = m /\ Running(m).state = "running"
           /\ Running(m).code = "none"
  BY DEF Running, Row, Code

LEMMA Halves ==
    ASSUME NEW m \in Nat
    PROVE  /\ m % 2 \in {0, 1}
           /\ (m + 1) \div 2 \in Nat /\ (m # 0 => (m + 1) \div 2 # 0)
           /\ (m + 1) % 2 = 1 - (m % 2)
           /\ (m + 2) % 2 = m % 2
           /\ m % 2 = 1 => (m + 2) \div 2 = (m + 1) \div 2
           /\ m % 2 = 0 => (m + 2) \div 2 = (m + 1) \div 2 + 1
           /\ m % 2 = 0 => (m + 3) \div 2 = (m + 1) \div 2 + 1
  OBVIOUS

\* The parity of a history tells whether its latest attempt runs.
LEMMA LatestParity ==
    ASSUME TypeOK, NEW e \in Event, History(e), HasRun(e),
           Latest(e).state = "running" \/ Retryable(Latest(e).code)
    PROVE  /\ Alternates(e)
           /\ Latest(e).no = (Len(rows[e]) + 1) \div 2
           /\ Latest(e).no \in 1 .. MaxAttempts
           /\ Latest(e).state = "running" =>
                Len(rows[e]) % 2 = 1 /\ ~Retryable(Latest(e).code)
           /\ Retryable(Latest(e).code) => Len(rows[e]) % 2 = 0
  <1>1. /\ Len(rows[e]) \in Nat \ {0} /\ Latest(e).no \in 0 .. MaxAttempts + 1
        /\ Len(rows[e]) \in 1 .. Len(rows[e])
    BY LatestTyped
  <1>2. /\ Len(rows[e]) % 2 \in {0, 1}
        /\ (Len(rows[e]) + 1) \div 2 \in Nat \ {0}
    BY <1>1, Halves
  <1>3. Alternates(e)
    BY DEF History, Latest, Synthetic
  <1>4. RowFits(e, Len(rows[e]))
    BY <1>1, <1>3 DEF Alternates
  <1>5. Latest(e).no = (Len(rows[e]) + 1) \div 2
    BY <1>4 DEF Latest, RowFits
  <1>6. Latest(e).no \in 1 .. MaxAttempts
    <2>1. Latest(e).no <= MaxAttempts
      BY DEF History
    <2>2. Latest(e).no \in Nat \ {0}
      BY <1>2, <1>5
    <2>3. MaxAttempts \in Nat
      BY ObligationAssumption
    <2> QED
      BY <2>1, <2>2, <2>3
  <1>7. /\ Latest(e).state = "running" =>
              Len(rows[e]) % 2 = 1 /\ ~Retryable(Latest(e).code)
        /\ Retryable(Latest(e).code) => Len(rows[e]) % 2 = 0
    BY <1>2, <1>4 DEF Latest, RowFits, Terminal
  <1> QED
    BY <1>3, <1>5, <1>6, <1>7

\* Rows a step appends are typed, and keep the history well formed.
LEMMA BeginsHistory ==
    ASSUME TypeOK, NEW e \in Event, History(e), NEW new, Begins(e, new),
           Apply(e, new)
    PROVE  rows' \in [Event -> Seq(Row)] /\ History(e)' /\ HasRun(e)'
  <1>0. /\ rows \in [Event -> Seq(Row)] /\ rows[e] \in Seq(Row)
        /\ MaxAttempts \in Nat \ {0} /\ Len(rows[e]) \in Nat
    BY ObligationAssumption DEF TypeOK
  <1>1. PICK m \in 1 .. MaxAttempts :
            /\ new = <<Running(m)>> /\ Alternates(e)
            /\ Len(rows[e]) % 2 = 0 /\ m = (Len(rows[e]) + 2) \div 2
            /\ Len(rows[e]) # 0 => Retryable(rows[e][Len(rows[e])].code)
    <2>1. CASE ~HasRun(e) /\ new = <<Running(1)>>
      <3>1. Len(rows[e]) = 0
        BY <1>0, <2>1 DEF HasRun
      <3> QED
        BY <1>0, <2>1, <3>1 DEF Alternates
    <2>2. CASE HasRun(e) /\ RetryEligible(e) /\ new = <<Running(Latest(e).no + 1)>>
      <3>1. /\ Alternates(e) /\ Len(rows[e]) % 2 = 0
            /\ Latest(e).no = (Len(rows[e]) + 1) \div 2
            /\ Latest(e).no \in 1 .. MaxAttempts /\ Latest(e).no < MaxAttempts
            /\ Retryable(rows[e][Len(rows[e])].code)
        BY <2>2, LatestParity DEF RetryEligible, Latest
      <3>2. Latest(e).no + 1 = (Len(rows[e]) + 2) \div 2
        BY <1>0, <3>1, Halves
      <3> QED
        BY <1>0, <2>2, <3>1, <3>2
    <2> QED
      BY <2>1, <2>2 DEF Begins
  <1>2. /\ Running(m) \in Row /\ Running(m).no = m
        /\ Running(m).state = "running" /\ Running(m).code = "none"
    BY <1>0, <1>1, RunningTyped
  <1> DEFINE h == rows[e] \o <<Running(m)>>
  <1>3. /\ h \in Seq(Row) /\ h # <<>> /\ Len(h) = Len(rows[e]) + 1
        /\ h[Len(rows[e]) + 1] = Running(m)
        /\ \A i \in 1 .. Len(rows[e]) : h[i] = rows[e][i]
    BY <1>0, <1>2, AddOne
  <1>4. rows' = [rows EXCEPT ![e] = h]
    BY <1>1 DEF Apply
  <1> HIDE DEF h
  <1>5. rows'[e] = h /\ rows' \in [Event -> Seq(Row)] /\ HasRun(e)'
    BY <1>0, <1>3, <1>4 DEF HasRun
  <1>6. Latest(e)' = Running(m)
    BY <1>3, <1>5 DEF Latest
  <1>7. ASSUME NEW i \in 1 .. Len(rows'[e])
        PROVE  RowFits(e, i)'
    <2>1. CASE i \in 1 .. Len(rows[e])
      <3>1. RowFits(e, i) /\ rows'[e][i] = rows[e][i]
        BY <1>1, <1>3, <1>5, <2>1 DEF Alternates
      <3>2. i = Len(rows[e]) => Retryable(rows[e][i].code)
        BY <1>1, <2>1
      <3> QED
        BY <1>0, <1>3, <1>5, <2>1, <3>1, <3>2 DEF RowFits
    <2>2. CASE i = Len(rows[e]) + 1
      <3>1. (Len(rows[e]) + 1) % 2 = 1
        BY <1>0, <1>1, Halves
      <3>2. rows'[e][i] = Running(m) /\ (i + 1) = Len(rows[e]) + 2
        BY <1>0, <1>3, <1>5, <2>2
      <3>3. (i + 1) \div 2 = m /\ i % 2 = 1
        BY <1>1, <2>2, <3>1, <3>2
      <3> QED
        BY <1>2, <3>2, <3>3 DEF RowFits, Retryable
    <2> QED
      BY <1>0, <1>3, <1>5, <2>1, <2>2
  <1>8. Latest(e)'.no <= MaxAttempts
    BY <1>0, <1>1, <1>2, <1>6
  <1> QED
    BY <1>5, <1>7, <1>8 DEF History, Alternates

LEMMA EndsHistory ==
    ASSUME TypeOK, NEW e \in Event, History(e), NEW new, Ends(e, new),
           Apply(e, new)
    PROVE  /\ rows' \in [Event -> Seq(Row)] /\ History(e)' /\ HasRun(e)'
           /\ Latest(e)'.state \in Terminal
           /\ Latest(e)'.state = "succeeded" =>
                 Available(ResidentOf[e]) /\ e \notin erased \cup stale
           /\ Latest(e)'.state = "failed" => status[ResidentOf[e]] = "active"
  <1>0. /\ rows \in [Event -> Seq(Row)] /\ rows[e] \in Seq(Row)
        /\ MaxAttempts \in Nat \ {0} /\ Len(rows[e]) \in Nat
    BY ObligationAssumption DEF TypeOK
  <1>1. PICK s \in Terminal, c \in Code :
            /\ new = <<Ended(Latest(e).no, s, c)>>
            /\ s = "succeeded" => Available(ResidentOf[e]) /\ e \notin erased \cup stale
            /\ s = "failed" => status[ResidentOf[e]] = "active"
    BY DEF Ends
  <1>2. /\ Alternates(e) /\ Len(rows[e]) % 2 = 1
        /\ Latest(e).no = (Len(rows[e]) + 1) \div 2
        /\ Latest(e).no \in 1 .. MaxAttempts
    BY LatestParity DEF Ends, HasRunning
  <1> DEFINE x == Ended(Latest(e).no, s, c)
  <1>3. x \in Row /\ x.no = Latest(e).no /\ x.state = s /\ x.code = c
    BY <1>0, <1>2, EndedTyped DEF Terminal
  <1> DEFINE h == rows[e] \o <<x>>
  <1>4. rows' = [rows EXCEPT ![e] = h]
    BY <1>1 DEF Apply
  <1> HIDE DEF x
  <1>5. /\ h \in Seq(Row) /\ h # <<>> /\ Len(h) = Len(rows[e]) + 1
        /\ h[Len(rows[e]) + 1] = x
        /\ \A i \in 1 .. Len(rows[e]) : h[i] = rows[e][i]
    BY <1>0, <1>3, AddOne
  <1> HIDE DEF h
  <1>6. rows'[e] = h /\ rows' \in [Event -> Seq(Row)] /\ HasRun(e)'
    BY <1>0, <1>4, <1>5 DEF HasRun
  <1>7. Latest(e)' = x
    BY <1>5, <1>6 DEF Latest
  <1>8. /\ (Len(rows[e]) + 1) % 2 = 0
        /\ (Len(rows[e]) + 2) \div 2 = (Len(rows[e]) + 1) \div 2
    BY <1>0, <1>2, Halves
  <1>9. ASSUME NEW i \in 1 .. Len(rows'[e])
        PROVE  RowFits(e, i)'
    <2>1. CASE i \in 1 .. Len(rows[e])
      <3>1. RowFits(e, i) /\ rows'[e][i] = rows[e][i]
        BY <1>2, <1>5, <1>6, <2>1 DEF Alternates
      <3>2. i = Len(rows[e]) => i % 2 = 1
        BY <1>2
      <3> QED
        BY <1>0, <1>5, <1>6, <2>1, <3>1, <3>2 DEF RowFits
    <2>2. CASE i = Len(rows[e]) + 1
      <3>1. rows'[e][i] = x /\ (i + 1) = Len(rows[e]) + 2 /\ i = Len(rows'[e])
        BY <1>0, <1>5, <1>6, <2>2
      <3>2. (i + 1) \div 2 = x.no /\ i % 2 = 0
        BY <1>2, <1>3, <1>8, <2>2, <3>1
      <3>3. ~(i < Len(rows'[e]))
        BY <3>1
      <3>4. rows'[e][i].no = (i + 1) \div 2 /\ rows'[e][i].state \in Terminal
        BY <1>1, <1>3, <3>1, <3>2 DEF Terminal
      <3>5. i % 2 = 0 /\ i % 2 # 1
        BY <3>2
      <3> QED
        BY <3>3, <3>4, <3>5 DEF RowFits
    <2> QED
      BY <1>0, <1>5, <1>6, <2>1, <2>2
  <1>10. Latest(e)'.no <= MaxAttempts
    BY <1>0, <1>2, <1>3, <1>7
  <1>11. History(e)'
    BY <1>9, <1>10 DEF History, Alternates
  <1> QED
    BY <1>1, <1>3, <1>6, <1>7, <1>11

LEMMA ClosesHistory ==
    ASSUME TypeOK, NEW e \in Event, History(e), NEW new, Closes(e, new),
           Apply(e, new)
    PROVE  /\ rows' \in [Event -> Seq(Row)] /\ History(e)' /\ HasRun(e)'
           /\ Latest(e)'.state \in {"failed", "cancelled"}
           /\ ~Retryable(Latest(e)'.code)
           /\ Latest(e)'.state = "failed" => status[ResidentOf[e]] = "active"
  <1>0. /\ rows \in [Event -> Seq(Row)] /\ rows[e] \in Seq(Row)
        /\ MaxAttempts \in Nat \ {0} /\ Len(rows[e]) \in Nat
    BY ObligationAssumption DEF TypeOK
  <1>1. PICK s \in {"failed", "cancelled"}, c \in Code \ {"retryable"} :
            /\ new = <<Running(Latest(e).no + 1), Ended(Latest(e).no + 1, s, c)>>
            /\ s = "failed" => status[ResidentOf[e]] = "active"
    BY DEF Closes
  <1>2. /\ Alternates(e) /\ Len(rows[e]) % 2 = 0
        /\ Latest(e).no = (Len(rows[e]) + 1) \div 2
        /\ Latest(e).no \in 1 .. MaxAttempts
        /\ Retryable(rows[e][Len(rows[e])].code)
    BY LatestParity DEF Closes, Latest
  <1> DEFINE m == Latest(e).no + 1
             x == Running(m)
             y == Ended(m, s, c)
  <1>3. m \in 0 .. MaxAttempts + 1 /\ m = (Len(rows[e]) + 1) \div 2 + 1
    BY <1>0, <1>2
  <1>4. rows' = [rows EXCEPT ![e] = rows[e] \o <<x, y>>]
    BY <1>1 DEF Apply
  <1> HIDE DEF m
  <1>5. /\ x \in Row /\ x.no = m /\ x.state = "running" /\ ~Retryable(x.code)
        /\ y \in Row /\ y.no = m /\ y.state = s /\ y.code = c
    <2>1. x \in Row /\ x.no = m /\ x.state = "running" /\ x.code = "none"
      BY <1>3, RunningTyped
    <2>2. y \in Row /\ y.no = m /\ y.state = s /\ y.code = c
      BY <1>1, <1>3 DEF Ended, Row
    <2> QED
      BY <2>1, <2>2 DEF Retryable
  <1> HIDE DEF x, y
  <1> DEFINE h == rows[e] \o <<x, y>>
  <1>6. /\ h \in Seq(Row) /\ h # <<>> /\ Len(h) = Len(rows[e]) + 2
        /\ h[Len(rows[e]) + 1] = x /\ h[Len(rows[e]) + 2] = y
        /\ \A i \in 1 .. Len(rows[e]) : h[i] = rows[e][i]
    BY <1>0, <1>5, AddTwo
  <1> HIDE DEF h
  <1>7. rows'[e] = h /\ rows' \in [Event -> Seq(Row)] /\ HasRun(e)'
    BY <1>0, <1>4, <1>6 DEF HasRun, h
  <1>8. Latest(e)' = y
    BY <1>6, <1>7 DEF Latest
  <1>9. /\ (Len(rows[e]) + 1) % 2 = 1 /\ (Len(rows[e]) + 2) % 2 = 0
        /\ (Len(rows[e]) + 2) \div 2 = m /\ (Len(rows[e]) + 3) \div 2 = m
    BY <1>0, <1>2, <1>3, Halves
  <1>10. ASSUME NEW i \in 1 .. Len(rows'[e])
         PROVE  RowFits(e, i)'
    <2>1. CASE i \in 1 .. Len(rows[e])
      <3>1. RowFits(e, i) /\ rows'[e][i] = rows[e][i]
        BY <1>2, <1>6, <1>7, <2>1 DEF Alternates
      <3>2. i = Len(rows[e]) => Retryable(rows[e][i].code)
        BY <1>2
      <3> QED
        BY <1>0, <1>6, <1>7, <2>1, <3>1, <3>2 DEF RowFits
    <2>2. CASE i = Len(rows[e]) + 1
      <3>1. rows'[e][i] = x /\ (i + 1) = Len(rows[e]) + 2
        BY <1>0, <1>6, <1>7, <2>2
      <3>2. (i + 1) \div 2 = m /\ i % 2 = 1
        BY <1>9, <2>2, <3>1
      <3> QED
        BY <1>5, <3>1, <3>2 DEF RowFits
    <2>3. CASE i = Len(rows[e]) + 2
      <3>1. rows'[e][i] = y /\ (i + 1) = Len(rows[e]) + 3 /\ i = Len(rows'[e])
        BY <1>0, <1>6, <1>7, <2>3
      <3>2. (i + 1) \div 2 = m /\ i % 2 = 0
        BY <1>9, <2>3, <3>1
      <3>3. ~(i < Len(rows'[e]))
        BY <3>1
      <3>4. rows'[e][i].no = (i + 1) \div 2 /\ rows'[e][i].state \in Terminal
        BY <1>1, <1>5, <3>1, <3>2 DEF Terminal
      <3>5. i % 2 = 0 /\ i % 2 # 1
        BY <3>2
      <3> QED
        BY <3>3, <3>4, <3>5 DEF RowFits
    <2> QED
      BY <1>0, <1>6, <1>7, <2>1, <2>2, <2>3
  <1>11. History(e)'
    BY <1>1, <1>5, <1>8, <1>10 DEF History, Alternates, Retryable
  <1> QED
    BY <1>1, <1>5, <1>7, <1>8, <1>11 DEF Retryable

LEMMA SyntheticHistory ==
    ASSUME TypeOK, NEW e \in Event, ~HasRun(e), NEW c \in Reason,
           Apply(e, <<Ended(0, "cancelled", c)>>)
    PROVE  /\ rows' \in [Event -> Seq(Row)] /\ History(e)' /\ HasRun(e)'
           /\ Latest(e)'.state = "cancelled" /\ ~Retryable(Latest(e)'.code)
  <1> DEFINE x == Ended(0, "cancelled", c)
  <1>0. /\ rows \in [Event -> Seq(Row)] /\ rows[e] = <<>>
        /\ MaxAttempts \in Nat \ {0}
    BY ObligationAssumption DEF TypeOK, HasRun
  <1>1. x \in Row /\ x.no = 0 /\ x.state = "cancelled" /\ ~Retryable(x.code)
    BY <1>0, EndedTyped DEF Reason, Code, Retryable
  <1>2. rows' = [rows EXCEPT ![e] = rows[e] \o <<x>>]
    BY DEF Apply
  <1> HIDE DEF x
  <1>3. rows'[e] = <<x>>
    BY <1>0, <1>1, <1>2
  <1>4. rows' \in [Event -> Seq(Row)]
    BY <1>0, <1>1, <1>2
  <1>5. HasRun(e)' /\ Latest(e)' = x /\ Len(rows'[e]) = 1 /\ rows'[e][1] = x
    BY <1>3 DEF HasRun, Latest
  <1> QED
    BY <1>1, <1>4, <1>5 DEF History, Synthetic

\* What a legal write leaves: a well-formed history whose latest row tells
\* which case it was.
LEMMA LegalWrite ==
    ASSUME TypeOK, NEW e \in Event, History(e), NEW new, Legal(e, new),
           Apply(e, new)
    PROVE  /\ rows' \in [Event -> Seq(Row)] /\ History(e)'
           /\ \A f \in Event \ {e} : rows'[f] = rows[f]
           /\ \/ rows' = rows
              \/ HasRun(e)' /\ Begins(e, new)
              \/ HasRun(e)' /\ Latest(e)'.state \in Terminal /\ HasRunning(e)
              \/ HasRun(e)' /\ Latest(e)'.state \in Terminal /\ ~Retryable(Latest(e)'.code)
           /\ rows'[e] # rows[e] =>
                /\ Latest(e)'.state = "succeeded" =>
                      Available(ResidentOf[e]) /\ e \notin erased \cup stale
                /\ status[ResidentOf[e]] = "archived" => Latest(e)'.state = "cancelled"
  <1>0. rows \in [Event -> Seq(Row)] /\ rows[e] \in Seq(Row)
    BY DEF TypeOK
  <1>1. \A f \in Event \ {e} : rows'[f] = rows[f]
    BY <1>0 DEF Apply
  <1>2. CASE new = <<>>
    <2>1. rows' = rows
      BY <1>0, <1>2 DEF Apply
    <2> QED
      BY <1>0, <2>1 DEF History, Synthetic, Alternates, RowFits, HasRun, Latest
  <1>3. CASE ~HasRun(e) /\ \E c \in Reason : new = <<Ended(0, "cancelled", c)>>
    BY <1>1, <1>3, SyntheticHistory DEF Terminal
  <1>4. CASE Begins(e, new)
    <2>1. rows' \in [Event -> Seq(Row)] /\ History(e)' /\ HasRun(e)'
      BY <1>4, BeginsHistory
    <2>2. status[ResidentOf[e]] = "active"
      BY <1>4 DEF Begins, Available
    <2>3. Latest(e)'.state = "running"
      <3>1. PICK m : new = <<Running(m)>>
        BY <1>4 DEF Begins
      <3>2. rows'[e] = rows[e] \o <<Running(m)>>
        BY <1>0, <3>1 DEF Apply
      <3>3. Latest(e)' = Running(m)
        BY <1>0, <3>2 DEF Latest
      <3> QED
        BY <3>3 DEF Running
    <2> QED
      BY <1>1, <1>4, <2>1, <2>2, <2>3
  <1>5. CASE Ends(e, new)
    <2>1. HasRunning(e)
      BY <1>5 DEF Ends
    <2> QED
      BY <1>1, <1>5, <2>1, EndsHistory DEF Terminal, Available
  <1>6. CASE Closes(e, new)
    BY <1>1, <1>6, ClosesHistory DEF Terminal
  <1> QED
    BY <1>2, <1>3, <1>4, <1>5, <1>6 DEF Legal

-----------------------------------------------------------------------------
(* What a legal write keeps.                                               *)

LEMMA Attends ==
    ASSUME NEW e \in Event
    PROVE  NeedsAttention(e) <=>
              \/ ~HasRun(e) \/ HasRunning(e)
              \/ HasRun(e) /\ Latest(e).state \notin {"running", "succeeded"}
                 /\ RetryEligible(e)
  BY DEF NeedsAttention, WorkState, HasRunning

LEMMA WritesKeep ==
    ASSUME TypeOK, \A e \in Event : History(e), NEW S \in SUBSET Event, Writes(S)
    PROVE  /\ rows' \in [Event -> Seq(Row)]
           /\ \A e \in Event :
                /\ History(e)'
                /\ HasRun(e) => HasRun(e)'
                /\ e \notin S => rows'[e] = rows[e]
                /\ status[ResidentOf[e]] = "archived" /\ ~NeedsAttention(e)
                   => ~NeedsAttention(e)'
                /\ phase \notin Working /\ ~HasRunning(e) => ~HasRunning(e)'
                /\ rows'[e] # rows[e] =>
                     /\ Latest(e)'.state = "succeeded" =>
                           Available(ResidentOf[e]) /\ e \notin erased \cup stale
                     /\ status[ResidentOf[e]] = "archived" =>
                           Latest(e)'.state = "cancelled"
  <1>0. rows \in [Event -> Seq(Row)]
    BY DEF TypeOK
  <1>1. ASSUME NEW e \in Event, rows'[e] = rows[e]
        PROVE  /\ History(e)' /\ (HasRun(e) <=> HasRun(e)')
               /\ (NeedsAttention(e) <=> NeedsAttention(e)')
               /\ (HasRunning(e) <=> HasRunning(e)')
    <2>1. Latest(e)' = Latest(e) /\ (HasRun(e) <=> HasRun(e)')
      BY <1>1 DEF Latest, HasRun
    <2>2. History(e)'
      BY <1>1, <2>1 DEF History, Synthetic, Alternates, RowFits
    <2>3. HasRunning(e) <=> HasRunning(e)'
      BY <2>1 DEF HasRunning
    <2>4. NeedsAttention(e)' <=>
              \/ ~HasRun(e)' \/ HasRunning(e)'
              \/ HasRun(e)' /\ Latest(e)'.state \notin {"running", "succeeded"}
                 /\ RetryEligible(e)'
      BY DEF NeedsAttention, WorkState, HasRunning
    <2>5. NeedsAttention(e) <=> NeedsAttention(e)'
      BY <2>1, <2>3, <2>4, Attends DEF RetryEligible
    <2> QED
      BY <2>1, <2>2, <2>3, <2>5
  <1>2. CASE UNCHANGED rows
    BY <1>0, <1>1, <1>2
  <1>3. CASE \E e \in S : \E new : Apply(e, new) /\ Legal(e, new)
    <2>1. PICK f \in S : \E new : Apply(f, new) /\ Legal(f, new)
      BY <1>3
    <2>2. PICK new : Apply(f, new) /\ Legal(f, new)
      BY <2>1
    <2>3. f \in Event /\ History(f)
      BY <2>1
    <2>4. /\ rows' \in [Event -> Seq(Row)] /\ History(f)'
          /\ \A g \in Event \ {f} : rows'[g] = rows[g]
          /\ \/ rows' = rows
             \/ HasRun(f)' /\ Begins(f, new)
             \/ HasRun(f)' /\ Latest(f)'.state \in Terminal /\ HasRunning(f)
             \/ HasRun(f)' /\ Latest(f)'.state \in Terminal /\ ~Retryable(Latest(f)'.code)
          /\ rows'[f] # rows[f] =>
               /\ Latest(f)'.state = "succeeded" =>
                     Available(ResidentOf[f]) /\ f \notin erased \cup stale
               /\ status[ResidentOf[f]] = "archived" => Latest(f)'.state = "cancelled"
      BY <2>2, <2>3, LegalWrite
    <2>5. CASE rows'[f] = rows[f]
      BY <1>1, <2>1, <2>4, <2>5
    <2>6. CASE rows'[f] # rows[f]
      <3>1. rows' # rows
        BY <2>6
      <3>2. Begins(f, new) => status[ResidentOf[f]] # "archived" /\ phase \in Working
        BY DEF Begins, Available
      <3>3. status[ResidentOf[f]] = "archived" /\ ~NeedsAttention(f)
            => ~NeedsAttention(f)'
        <4>1. NeedsAttention(f)' <=>
                  \/ ~HasRun(f)' \/ HasRunning(f)'
                  \/ HasRun(f)' /\ Latest(f)'.state \notin {"running", "succeeded"}
                     /\ RetryEligible(f)'
          BY DEF NeedsAttention, WorkState, HasRunning
        <4>2. HasRunning(f) => NeedsAttention(f)
          BY <2>3, Attends
        <4> QED
          BY <2>4, <3>1, <3>2, <4>1, <4>2 DEF HasRunning, RetryEligible, Terminal
      <3>4. phase \notin Working /\ ~HasRunning(f) => ~HasRunning(f)'
        BY <2>4, <3>1, <3>2 DEF HasRunning, Terminal
      <3>5. HasRun(f)'
        BY <2>4, <3>1
      <3> QED
        BY <1>1, <2>1, <2>3, <2>4, <3>3, <3>4, <3>5
    <2> QED
      BY <2>5, <2>6
  <1> QED
    BY <1>2, <1>3 DEF Writes

-----------------------------------------------------------------------------
(* What the commands append.                                               *)

LEMMA ReasonTyped ==
    ASSUME NEW e
    PROVE  RecoveryReason(e) \in Reason \cup {"none"}
  BY DEF RecoveryReason, Reason

LEMMA CancelLegal ==
    ASSUME NEW e \in Event, NEW c \in Reason
    PROVE  Legal(e, CancelRows(e, c))
  <1>0. c \in Code /\ c # "retryable"
    BY DEF Reason, Code
  <1>1. CASE ~HasRun(e)
    BY <1>1 DEF Legal, CancelRows
  <1>2. CASE HasRunning(e)
    <2>1. CancelRows(e, c) = <<Ended(Latest(e).no, "cancelled", c)>>
      BY <1>2 DEF CancelRows, Close, HasRunning
    <2>2. Ends(e, CancelRows(e, c))
      BY <1>0, <1>2, <2>1 DEF Ends, Terminal
    <2> QED
      BY <2>2 DEF Legal
  <1>3. CASE HasRun(e) /\ Latest(e).state # "running" /\ Retryable(Latest(e).code)
    <2>1. CancelRows(e, c) =
              <<Running(Latest(e).no + 1), Ended(Latest(e).no + 1, "cancelled", c)>>
      BY <1>3 DEF CancelRows, Close
    <2>2. Closes(e, CancelRows(e, c))
      BY <1>0, <1>3, <2>1 DEF Closes
    <2> QED
      BY <2>2 DEF Legal
  <1>4. CASE HasRun(e) /\ Latest(e).state # "running" /\ ~Retryable(Latest(e).code)
    BY <1>4 DEF CancelRows, Legal
  <1> QED
    BY <1>1, <1>2, <1>3, <1>4 DEF HasRunning

LEMMA RejectLegal ==
    ASSUME NEW e \in Event, RejectAllowed(e), status[ResidentOf[e]] = "active"
    PROVE  Legal(e, Close(e, "failed", "unsupported"))
  <1>1. CASE HasRunning(e)
    <2>1. Close(e, "failed", "unsupported") = <<Ended(Latest(e).no, "failed", "unsupported")>>
      BY <1>1 DEF Close, HasRunning
    <2>2. Ends(e, Close(e, "failed", "unsupported"))
      BY <1>1, <2>1 DEF Ends, Terminal, Code
    <2> QED
      BY <2>2 DEF Legal
  <1>2. CASE Latest(e).state # "running"
    <2>1. Close(e, "failed", "unsupported") =
              <<Running(Latest(e).no + 1), Ended(Latest(e).no + 1, "failed", "unsupported")>>
      BY <1>2 DEF Close
    <2>2. Closes(e, Close(e, "failed", "unsupported"))
      BY <1>2, <2>1 DEF Closes, RejectAllowed, Code
    <2> QED
      BY <2>2 DEF Legal
  <1> QED
    BY <1>1, <1>2 DEF RejectAllowed, HasRunning

\* FailAttempt, a bound cancellation and the recovery of a running attempt.
LEMMA EndLegal ==
    ASSUME NEW e \in Event, HasRunning(e), NEW s \in {"failed", "cancelled"},
           NEW c \in Code, s = "failed" => status[ResidentOf[e]] = "active"
    PROVE  Legal(e, <<Ended(Latest(e).no, s, c)>>)
  <1>1. Ends(e, <<Ended(Latest(e).no, s, c)>>)
    BY DEF Ends, Terminal
  <1> QED
    BY <1>1 DEF Legal

LEMMA LandLegal ==
    ASSUME NEW e \in Event, NEW m, LandAllowed(e, m)
    PROVE  Legal(e, <<Ended(m, "succeeded", "none")>>)
  <1>1. Ends(e, <<Ended(m, "succeeded", "none")>>)
    BY DEF Ends, Terminal, Code, LandAllowed, Terminates, HasRunning
  <1> QED
    BY <1>1 DEF Legal

\* However a submission ends, its rows are there or they are not.
LEMMA Submission ==
    ASSUME TypeOK, NEW S, NEW e \in S, NEW new,
           \/ Refused
           \/ Legal(e, new) /\ (Submitted(e, new) \/ Lost(e, new) \/ LostHard(e, new))
    PROVE  Writes(S) /\ poisoned' \in BOOLEAN /\ disruptions' \in 0 .. MaxDisruptions
  <1>1. Writes(S)
    BY DEF Refused, Submitted, Lost, LostHard, Writes
  <1>2. poisoned' \in BOOLEAN
    BY Zenon DEF TypeOK, Refused, Submitted, Lost, LostHard
  <1>3. disruptions' \in 0 .. MaxDisruptions
    BY ObligationAssumption DEF TypeOK, Refused, Submitted, Lost, LostHard, Disrupt
  <1> QED
    BY <1>1, <1>2, <1>3

-----------------------------------------------------------------------------
(* The steps of a turn.                                                    *)

TurnEffect(r) ==
    /\ Writes(OfResident(r))
    /\ poisoned' \in BOOLEAN /\ disruptions' \in 0 .. MaxDisruptions
    /\ launched' \subseteq Resident /\ UNCHANGED turnFrame
    /\ \E x \in Turn : Become(r, x) /\ Fits(r, x)'

LEMMA TurnTyped ==
    ASSUME TypeOK, NEW r \in Resident
    PROVE  /\ worker[r] \in Turn /\ worker[r].at \in WorkerPoint
           /\ worker[r].event \in Event \cup {None}
           /\ worker[r].no \in 0 .. MaxAttempts + 1 /\ worker[r].code \in Code
  BY DEF TypeOK, Turn

\* A turn that moves and notes its error code keeps its message and its attempt.
LEMMA TurnCodes ==
    ASSUME NEW w \in Turn, NEW p \in WorkerPoint, NEW c \in Code
    PROVE  [w EXCEPT !.at = p, !.code = c] = [at |-> p, event |-> w.event, no |-> w.no, code |-> c]
  <1>1. [w EXCEPT !.at = p] = [at |-> p, event |-> w.event, no |-> w.no, code |-> w.code]
    BY DEF Turn
  <1>2. PICK v : v = [w EXCEPT !.at = p]
    OBVIOUS
  <1>3. v = [at |-> p, event |-> w.event, no |-> w.no, code |-> w.code]
    BY <1>1, <1>2
  <1>4. [v EXCEPT !.code = c] = [at |-> p, event |-> w.event, no |-> w.no, code |-> c]
    BY <1>3
  <1>5. [w EXCEPT !.at = p, !.code = c] = [v EXCEPT !.code = c]
    BY <1>2
  <1> QED
    BY <1>4, <1>5

\* The edits of a turn, field by field.
LEMMA TurnEdits ==
    ASSUME NEW w \in Turn, NEW p \in WorkerPoint, NEW c \in Code,
           NEW m \in 0 .. MaxAttempts + 1
    PROVE  /\ [w EXCEPT !.at = p] = [at |-> p, event |-> w.event, no |-> w.no, code |-> w.code]
           /\ [w EXCEPT !.at = p, !.code = c] =
                 [at |-> p, event |-> w.event, no |-> w.no, code |-> c]
           /\ [w EXCEPT !.at = p, !.no = m] =
                 [at |-> p, event |-> w.event, no |-> m, code |-> w.code]
           /\ [at |-> p, event |-> w.event, no |-> w.no, code |-> w.code] \in Turn
           /\ [at |-> p, event |-> w.event, no |-> w.no, code |-> c] \in Turn
           /\ [at |-> p, event |-> w.event, no |-> m, code |-> w.code] \in Turn
  <1>1. [w EXCEPT !.at = p] = [at |-> p, event |-> w.event, no |-> w.no, code |-> w.code]
    BY DEF Turn
  <1>2. PICK v : v = [w EXCEPT !.at = p]
    OBVIOUS
  <1>3. v = [at |-> p, event |-> w.event, no |-> w.no, code |-> w.code]
    BY <1>1, <1>2
  <1>4. [w EXCEPT !.at = p, !.code = c] = [at |-> p, event |-> w.event, no |-> w.no, code |-> c]
    BY TurnCodes
  <1>5. [v EXCEPT !.no = m] = [at |-> p, event |-> w.event, no |-> m, code |-> w.code]
    BY <1>3
  <1>6. [w EXCEPT !.at = p, !.no = m] = [v EXCEPT !.no = m]
    BY <1>2
  <1>7. /\ [at |-> p, event |-> w.event, no |-> w.no, code |-> w.code] \in Turn
        /\ [at |-> p, event |-> w.event, no |-> w.no, code |-> c] \in Turn
        /\ [at |-> p, event |-> w.event, no |-> m, code |-> w.code] \in Turn
    BY DEF Turn
  <1> QED
    BY <1>1, <1>4, <1>5, <1>6, <1>7

LEMMA TurnEnds ==
    ASSUME NEW r \in Resident, Become(r, Idle) \/ Carry(r)
    PROVE  \E x \in Turn : Become(r, x) /\ Fits(r, x)'
  <1>1. Idle \in Turn /\ InTurn \in Turn
    BY ObligationAssumption DEF Idle, InTurn, Turn, WorkerPoint, Code
  <1>2. Idle.at = "idle" /\ InTurn.at = "turn"
    BY DEF Idle, InTurn
  <1>3. \A x \in {Idle, InTurn} : Fits(r, x)'
    BY <1>2 DEF Fits
  <1> QED
    BY <1>1, <1>3 DEF Carry

\* A turn that goes on with the same message.
LEMMA TurnMoves ==
    ASSUME TypeOK, WorkersFit, NEW r \in Resident,
           worker[r].at \notin {"idle", "turn"},
           NEW p \in WorkerPoint \ {"retry", "resume", "reload", "before", "provider"},
           \/ Goto(r, p)
           \/ \E c \in Code : Become(r, [worker[r] EXCEPT !.at = p, !.code = c])
    PROVE  \E x \in Turn : Become(r, x) /\ Fits(r, x)'
  <1>0. worker[r] \in Turn /\ worker[r].event \in OfResident(r)
    BY TurnTyped DEF WorkersFit, Fits
  <1>m. worker[r].no \in 0 .. MaxAttempts + 1
    BY TurnTyped
  <1>1. PICK c \in Code :
            Become(r, [at |-> p, event |-> worker[r].event, no |-> worker[r].no, code |-> c])
    <2>1. CASE Goto(r, p)
      <3>1. worker[r].code \in Code
        BY TurnTyped
      <3>2. Become(r, [at |-> p, event |-> worker[r].event, no |-> worker[r].no,
                       code |-> worker[r].code])
        BY <1>0, <1>m, <2>1, <3>1, TurnEdits DEF Goto
      <3> QED
        BY <3>1, <3>2
    <2>2. CASE \E c \in Code : Become(r, [worker[r] EXCEPT !.at = p, !.code = c])
      <3>1. PICK c \in Code : Become(r, [worker[r] EXCEPT !.at = p, !.code = c])
        BY <2>2
      <3>2. [worker[r] EXCEPT !.at = p, !.code = c] =
                [at |-> p, event |-> worker[r].event, no |-> worker[r].no, code |-> c]
        <4>1. PICK w \in Turn, q \in WorkerPoint : w = worker[r] /\ q = p
          BY <1>0
        <4>2. [w EXCEPT !.at = q, !.code = c] = [at |-> q, event |-> w.event, no |-> w.no, code |-> c]
          BY TurnCodes
        <4> QED
          BY <4>1, <4>2
      <3> QED
        BY <3>1, <3>2
    <2> QED
      BY <2>1, <2>2
  <1>2. PICK x : x = [at |-> p, event |-> worker[r].event, no |-> worker[r].no, code |-> c]
    OBVIOUS
  <1>3. x \in Turn /\ x.at = p /\ x.event = worker[r].event /\ Become(r, x)
    BY <1>0, <1>1, <1>2, TurnTyped DEF Turn
  <1>4. Fits(r, x)'
    BY <1>0, <1>3 DEF Fits, OfResident
  <1> QED
    BY <1>3, <1>4

LEMMA DiscoverEffect ==
    ASSUME ObligationInv, NEW r \in Resident, Discover(r)
    PROVE  TurnEffect(r)
  <1>0. TypeOK /\ UNCHANGED <<turnFrame, rows, poisoned, disruptions>>
    BY DEF ObligationInv, Discover, readFrame
  <1>1. Writes(OfResident(r)) /\ disruptions' \in 0 .. MaxDisruptions
    BY <1>0 DEF Writes, TypeOK
  <1>2. poisoned' \in BOOLEAN
    BY <1>0, Zenon DEF TypeOK
  <1>3. launched' \subseteq Resident
    BY <1>0 DEF Discover, TypeOK
  <1>4. \E x \in Turn : Become(r, x) /\ Fits(r, x)'
    <2>1. CASE Become(r, Idle)
      BY <2>1, TurnEnds
    <2>2. CASE \E i \in Attention(r) :
                  Become(r, [at |-> PointFor(accepted[i]), event |-> accepted[i],
                             no |-> IF HasRun(accepted[i]) THEN Latest(accepted[i]).no ELSE 0,
                             code |-> RecoveryReason(accepted[i])])
      <3>1. PICK i \in Attention(r) :
                  Become(r, [at |-> PointFor(accepted[i]), event |-> accepted[i],
                             no |-> IF HasRun(accepted[i]) THEN Latest(accepted[i]).no ELSE 0,
                             code |-> RecoveryReason(accepted[i])])
        BY <2>2
      <3>2. PICK e \in Event : e = accepted[i] /\ ResidentOf[e] = r /\ NeedsAttention(e)
        BY <1>0, <3>1 DEF Attention, TypeOK
      <3> DEFINE m == IF HasRun(e) THEN Latest(e).no ELSE 0
      <3>3. PointFor(e) \in {"cancel", "prepare", "resume", "retry"}
        BY DEF PointFor
      <3>4. /\ PointFor(e) = "resume" => HasRun(e)
            /\ PointFor(e) = "retry" => HasRun(e) /\ RetryEligible(e)
        BY <3>2 DEF PointFor, NeedsAttention, WorkState
      <3>5. m \in 0 .. MaxAttempts + 1
        BY <1>0, LatestTyped, ObligationAssumption
      <3>6. RecoveryReason(e) \in Code
        BY ReasonTyped DEF Reason, Code
      <3>7. PICK x : x = [at |-> PointFor(e), event |-> e, no |-> m,
                          code |-> RecoveryReason(e)]
        OBVIOUS
      <3>8. /\ x \in Turn /\ Become(r, x)
            /\ x.at = PointFor(e) /\ x.event = e /\ x.no = m
        BY <3>1, <3>2, <3>3, <3>5, <3>6, <3>7 DEF Turn, WorkerPoint
      <3>9. HasRun(e)' = HasRun(e) /\ Latest(e)' = Latest(e)
            /\ (RetryEligible(e)' <=> RetryEligible(e))
        BY <1>0 DEF HasRun, Latest, RetryEligible
      <3>10. e \in OfResident(r)
        BY <3>2 DEF OfResident
      <3>11. Fits(r, x)'
        BY <3>3, <3>4, <3>8, <3>9, <3>10 DEF Fits, OfResident
      <3> QED
        BY <3>8, <3>11
    <2> QED
      BY <2>1, <2>2 DEF Discover
  <1> QED
    BY <1>0, <1>1, <1>2, <1>3, <1>4 DEF TurnEffect

\* A turn that goes on to read its run, or to call the provider.
LEMMA TurnReads ==
    ASSUME TypeOK, WorkersFit, NEW r \in Resident,
           worker[r].at \notin {"idle", "turn"}, NEW f, worker[r].event = f,
           NEW p \in {"reload", "before", "provider"},
           NEW m \in 0 .. MaxAttempts + 1,
           \/ Goto(r, p) /\ m = worker[r].no
           \/ Become(r, [worker[r] EXCEPT !.at = p, !.no = m]),
           p = "reload" => HasRun(f)',
           p # "reload" => m <= MaxAttempts
    PROVE  \E x \in Turn : Become(r, x) /\ Fits(r, x)'
  <1>0. worker[r] \in Turn /\ worker[r].event \in OfResident(r) /\ worker[r].code \in Code
    BY TurnTyped DEF WorkersFit, Fits
  <1>1. p \in WorkerPoint
    BY DEF WorkerPoint
  <1>2. Become(r, [at |-> p, event |-> worker[r].event, no |-> m, code |-> worker[r].code])
    <2>1. CASE Goto(r, p) /\ m = worker[r].no
      BY <1>0, <1>1, <2>1, TurnEdits DEF Goto
    <2>2. CASE Become(r, [worker[r] EXCEPT !.at = p, !.no = m])
      BY <1>0, <1>1, <2>2, TurnEdits
    <2> QED
      BY <2>1, <2>2
  <1>4. PICK x : x = [at |-> p, event |-> f, no |-> m, code |-> worker[r].code]
    OBVIOUS
  <1>5. /\ x \in Turn /\ x.at = p /\ x.event = f /\ x.no = m /\ Become(r, x)
        /\ f \in OfResident(r)
    BY <1>0, <1>1, <1>2, <1>4 DEF Turn
  <1>6. Fits(r, x)'
    BY <1>5 DEF Fits, OfResident
  <1> QED
    BY <1>5, <1>6

\* The steps that submit nothing.
LEMMA ReadEffect ==
    ASSUME ObligationInv, NEW r \in Resident,
           TurnResume(r) \/ TurnReload(r) \/ TurnBoundary(r) \/ TurnProvider(r)
    PROVE  TurnEffect(r)
  <1>0. /\ TypeOK /\ WorkersFit /\ \A e \in Event : History(e)
        /\ UNCHANGED <<turnFrame, rows, poisoned, disruptions, launched>>
    BY DEF ObligationInv, TurnResume, TurnReload, TurnBoundary, TurnProvider, readFrame
  <1>1. /\ Writes(OfResident(r)) /\ disruptions' \in 0 .. MaxDisruptions
        /\ launched' \subseteq Resident
    BY <1>0 DEF Writes, TypeOK
  <1>2. poisoned' \in BOOLEAN
    BY <1>0, Zenon DEF TypeOK
  <1> SUFFICES \E x \in Turn : Become(r, x) /\ Fits(r, x)'
    BY <1>0, <1>1, <1>2 DEF TurnEffect
  <1>3. worker[r].at \notin {"idle", "turn"}
    BY DEF TurnResume, TurnReload, TurnBoundary, TurnProvider
  <1>4. PICK e \in Event : worker[r].event = e /\ ResidentOf[e] = r
    BY <1>0, <1>3 DEF WorkersFit, Fits, OfResident
  <1>5. HasRun(e)' <=> HasRun(e)
    BY <1>0 DEF HasRun
  <1>6. worker[r].no \in 0 .. MaxAttempts + 1
    BY <1>0, TurnTyped
  <1>7. CASE Become(r, Idle) \/ Carry(r)
    BY <1>7, TurnEnds
  <1>8. CASE TurnResume(r) /\ Goto(r, "reload")
    <2>1. HasRun(e)'
      BY <1>0, <1>4, <1>5, <1>8 DEF WorkersFit, Fits, TurnResume
    <2> QED
      BY <1>0, <1>3, <1>4, <1>6, <1>8, <2>1, TurnReads
  <1>9. CASE \E p \in {"reject", "after", "land"} : Goto(r, p)
    BY <1>0, <1>3, <1>9, TurnMoves DEF WorkerPoint
  <1>10. CASE TurnReload(r) /\ Latest(e).state = "running"
              /\ Become(r, [worker[r] EXCEPT !.at = "before", !.no = Latest(e).no])
    <2>1. HasRun(e)
      BY <1>0, <1>4, <1>10 DEF WorkersFit, Fits, TurnReload
    <2>2. Latest(e).no \in 0 .. MaxAttempts + 1 /\ Latest(e).no <= MaxAttempts
      BY <1>0, <1>10, <2>1, LatestTyped DEF History
    <2>3. PICK m : m = Latest(e).no
      OBVIOUS
    <2> QED
      BY <1>0, <1>3, <1>4, <1>10, <2>2, <2>3, TurnReads
  <1>11. CASE /\ TurnBoundary(r)
              /\ \E c \in Code : Become(r, [worker[r] EXCEPT !.at = "stop", !.code = c])
    BY <1>0, <1>3, <1>11, TurnMoves DEF WorkerPoint
  <1>12. CASE TurnBoundary(r) /\ worker[r].at = "before" /\ Goto(r, "provider")
    <2>1. worker[r].no <= MaxAttempts
      BY <1>0, <1>12 DEF WorkersFit, Fits
    <2>2. PICK m : m = worker[r].no
      OBVIOUS
    <2> QED
      BY <1>0, <1>3, <1>4, <1>6, <1>12, <2>1, <2>2, TurnReads
  <1>13. CASE \E c \in Code : Become(r, [worker[r] EXCEPT !.at = "fail", !.code = c])
    BY <1>0, <1>3, <1>13, TurnMoves DEF WorkerPoint
  <1>14. CASE TurnResume(r)
    BY <1>7, <1>8, <1>14 DEF TurnResume
  <1>15. CASE TurnReload(r)
    BY <1>4, <1>7, <1>9, <1>10, <1>15 DEF TurnReload
  <1>16. CASE TurnBoundary(r)
    <2>1. CASE worker[r].at = "before" /\ Goto(r, "provider")
      BY <1>12, <1>16, <2>1
    <2>2. CASE \E c \in Code : Become(r, [worker[r] EXCEPT !.at = "stop", !.code = c])
      BY <1>11, <1>16, <2>2
    <2>3. {"inactive", "unselected"} \subseteq Code
      BY DEF Code
    <2> QED
      BY <1>7, <1>9, <1>16, <2>1, <2>2, <2>3 DEF TurnBoundary
  <1>17. CASE TurnProvider(r)
    <2>1. {"retryable", "provider"} \subseteq Code
      BY DEF Code
    <2> QED
      BY <1>9, <1>13, <1>17, <2>1 DEF TurnProvider
  <1> QED
    BY <1>14, <1>15, <1>16, <1>17

LEMMA TurnContext ==
    ASSUME ObligationInv, NEW r \in Resident, worker[r].at \notin {"idle", "turn"}
    PROVE  /\ TypeOK /\ WorkersFit /\ phase \in Working
           /\ worker[r].event \in Event /\ ResidentOf[worker[r].event] = r
           /\ worker[r].event \in OfResident(r)
           /\ worker[r].no \in 0 .. MaxAttempts + 1 /\ worker[r].code \in Code
  BY TurnTyped DEF ObligationInv, WorkersFit, Fits, OfResident

\* The steps that submit a command.
LEMMA SubmitEffect ==
    ASSUME ObligationInv, NEW r \in Resident, NEW e \in OfResident(r), NEW new,
           UNCHANGED <<turnFrame, launched>>,
           \E x \in Turn : Become(r, x) /\ Fits(r, x)',
           \/ Refused
           \/ Legal(e, new) /\ (Submitted(e, new) \/ Lost(e, new) \/ LostHard(e, new))
    PROVE  TurnEffect(r)
  <1>1. TypeOK /\ launched' \subseteq Resident
    BY DEF ObligationInv, TypeOK
  <1> QED
    BY <1>1, Submission DEF TurnEffect

LEMMA CancelEffect ==
    ASSUME ObligationInv, NEW r \in Resident, TurnCancel(r) \/ TurnStop(r)
    PROVE  TurnEffect(r)
  <1>1. worker[r].at \notin {"idle", "turn"} /\ UNCHANGED <<turnFrame, launched>>
    BY DEF TurnCancel, TurnStop
  <1>2. PICK e \in OfResident(r) : worker[r].event = e
    BY <1>1, TurnContext
  <1>3. PICK c : c = worker[r].code
    OBVIOUS
  <1>4. PICK new : new = CancelRows(e, c)
    OBVIOUS
  <1>5. CancelAllowed(e, c) => Legal(e, new)
    BY <1>4, CancelLegal, ReasonTyped DEF CancelAllowed, OfResident
  <1>6. Become(r, Idle) \/ Carry(r)
    BY DEF TurnCancel, TurnStop
  <1>7. \/ Refused
        \/ CancelAllowed(e, c) /\ (Submitted(e, new) \/ Lost(e, new) \/ LostHard(e, new))
    BY <1>2, <1>3, <1>4 DEF TurnCancel, TurnStop
  <1> QED
    BY <1>1, <1>5, <1>6, <1>7, TurnEnds, SubmitEffect

LEMMA PrepareEffect ==
    ASSUME ObligationInv, NEW r \in Resident, TurnPrepare(r)
    PROVE  TurnEffect(r)
  <1>1. worker[r].at \notin {"idle", "turn"} /\ UNCHANGED <<turnFrame, launched>>
    BY DEF TurnPrepare
  <1>2. PICK e \in OfResident(r) : worker[r].event = e /\ e \in Event
    BY <1>1, TurnContext
  <1>3. /\ TypeOK /\ WorkersFit /\ phase \in Working
        /\ worker[r].no \in 0 .. MaxAttempts + 1
    BY <1>1, TurnContext
  <1>4. PICK new : new = <<Running(1)>>
    OBVIOUS
  <1>5. PrepareAllowed(e) => Legal(e, new)
    BY <1>3, <1>4 DEF PrepareAllowed, Legal, Begins
  <1>6. CASE Refused /\ Become(r, Idle)
    BY <1>1, <1>6, TurnEnds, SubmitEffect
  <1>7. CASE PrepareAllowed(e) /\ Lost(e, new) /\ Become(r, Idle)
    BY <1>1, <1>5, <1>7, TurnEnds, SubmitEffect
  <1>8. CASE PrepareAllowed(e) /\ Submitted(e, new) /\ Goto(r, "reload")
    <2>1. rows'[e] = rows[e] \o <<Running(1)>> /\ rows[e] \in Seq(Row)
      BY <1>2, <1>3, <1>4, <1>8 DEF Submitted, Apply, TypeOK
    <2>2. HasRun(e)'
      BY <2>1 DEF HasRun
    <2>3. PICK m : m = worker[r].no
      OBVIOUS
    <2>4. \E x \in Turn : Become(r, x) /\ Fits(r, x)'
      BY <1>1, <1>2, <1>3, <1>8, <2>2, <2>3, TurnReads
    <2> QED
      BY <1>1, <1>5, <1>8, <2>4, SubmitEffect
  <1> QED
    BY <1>2, <1>4, <1>6, <1>7, <1>8 DEF TurnPrepare

LEMMA RetryEffect ==
    ASSUME ObligationInv, NEW r \in Resident, TurnRetry(r)
    PROVE  TurnEffect(r)
  <1>1. worker[r].at \notin {"idle", "turn"} /\ UNCHANGED <<turnFrame, launched>>
    BY DEF TurnRetry
  <1>2. PICK e \in OfResident(r) : worker[r].event = e /\ e \in Event /\ ResidentOf[e] = r
    BY <1>1, TurnContext
  <1>3. /\ TypeOK /\ WorkersFit /\ phase \in Working
        /\ worker[r].no \in 0 .. MaxAttempts + 1
    BY <1>1, TurnContext
  <1>4. PICK m : m = worker[r].no
    OBVIOUS
  <1>5. PICK new : new = <<Running(m + 1)>>
    OBVIOUS
  <1>6. StartAllowed(e, m + 1) => Legal(e, new)
    <2>1. \/ status[r] = "archived"
          \/ HasRun(e) /\ RetryEligible(e) /\ Latest(e).no = m
      BY <1>2, <1>3, <1>4 DEF WorkersFit, Fits, TurnRetry
    <2> QED
      BY <1>2, <1>3, <1>5, <2>1 DEF StartAllowed, Available, Legal, Begins
  <1>7. CASE Refused /\ Become(r, Idle)
    BY <1>1, <1>7, TurnEnds, SubmitEffect
  <1>8. CASE Refused /\ Goto(r, "reject")
    <2>1. \E x \in Turn : Become(r, x) /\ Fits(r, x)'
      BY <1>1, <1>3, <1>8, TurnMoves DEF WorkerPoint
    <2> QED
      BY <1>1, <1>8, <2>1, SubmitEffect
  <1>9. CASE StartAllowed(e, m + 1) /\ Lost(e, new) /\ Become(r, Idle)
    BY <1>1, <1>6, <1>9, TurnEnds, SubmitEffect
  <1>10. CASE StartAllowed(e, m + 1) /\ Submitted(e, new) /\ Goto(r, "reload")
    <2>1. rows'[e] = rows[e] \o <<Running(m + 1)>> /\ rows[e] \in Seq(Row)
      BY <1>2, <1>3, <1>5, <1>10 DEF Submitted, Apply, TypeOK
    <2>2. HasRun(e)'
      BY <2>1 DEF HasRun
    <2>3. \E x \in Turn : Become(r, x) /\ Fits(r, x)'
      BY <1>1, <1>2, <1>3, <1>4, <1>10, <2>2, TurnReads
    <2> QED
      BY <1>1, <1>6, <1>10, <2>3, SubmitEffect
  <1> QED
    BY <1>2, <1>4, <1>5, <1>7, <1>8, <1>9, <1>10 DEF TurnRetry

LEMMA EndEffect ==
    ASSUME ObligationInv, NEW r \in Resident,
           TurnReject(r) \/ TurnFail(r) \/ TurnCancelBound(r)
    PROVE  TurnEffect(r)
  <1>1. worker[r].at \notin {"idle", "turn"} /\ UNCHANGED <<turnFrame, launched>>
    BY DEF TurnReject, TurnFail, TurnCancelBound
  <1>2. PICK e \in OfResident(r) : worker[r].event = e /\ e \in Event /\ ResidentOf[e] = r
    BY <1>1, TurnContext
  <1>3. PICK m : m = worker[r].no
    OBVIOUS
  <1>4. PICK c \in Code : c = worker[r].code
    BY <1>1, TurnContext
  <1>5. Become(r, Idle) \/ Carry(r)
    BY DEF TurnReject, TurnFail, TurnCancelBound
  <1>6. CASE Refused
    BY <1>1, <1>5, <1>6, TurnEnds, SubmitEffect
  <1>7. CASE TurnReject(r) /\ ~Refused
    <2>1. PICK new : new = Close(e, "failed", "unsupported")
      OBVIOUS
    <2>2. /\ status[ResidentOf[e]] = "active" /\ RejectAllowed(e)
          /\ Submitted(e, new) \/ LostHard(e, new)
      BY <1>2, <1>7, <2>1 DEF TurnReject
    <2> QED
      BY <1>1, <1>2, <1>5, <2>1, <2>2, RejectLegal, TurnEnds, SubmitEffect
  <1>8. CASE TurnFail(r) /\ ~Refused
    <2>1. PICK new : new = <<Ended(m, "failed", c)>>
      OBVIOUS
    <2>2. /\ status[ResidentOf[e]] = "active" /\ Terminates(e, m)
          /\ Submitted(e, new) \/ LostHard(e, new)
      BY <1>2, <1>3, <1>4, <1>8, <2>1 DEF TurnFail
    <2>3. Legal(e, new)
      BY <1>2, <1>4, <2>1, <2>2, EndLegal DEF Terminates, HasRunning
    <2> QED
      BY <1>1, <1>5, <2>2, <2>3, TurnEnds, SubmitEffect
  <1>9. CASE TurnCancelBound(r) /\ ~Refused
    <2>1. PICK new : new = <<Ended(m, "cancelled", "erased")>>
      OBVIOUS
    <2>2. Terminates(e, m) /\ (Submitted(e, new) \/ LostHard(e, new))
      BY <1>2, <1>3, <1>9, <2>1 DEF TurnCancelBound
    <2>3. "erased" \in Code
      BY DEF Code
    <2>4. Legal(e, new)
      BY <1>2, <2>1, <2>2, <2>3, EndLegal DEF Terminates, HasRunning
    <2> QED
      BY <1>1, <1>5, <2>2, <2>4, TurnEnds, SubmitEffect
  <1> QED
    BY <1>6, <1>7, <1>8, <1>9

LEMMA LandEffect ==
    ASSUME ObligationInv, NEW r \in Resident, TurnLand(r)
    PROVE  TurnEffect(r)
  <1>1. worker[r].at \notin {"idle", "turn"} /\ UNCHANGED <<turnFrame, launched>>
    BY DEF TurnLand
  <1>2. PICK e \in OfResident(r) : worker[r].event = e /\ e \in Event
    BY <1>1, TurnContext
  <1>3. TypeOK /\ WorkersFit
    BY <1>1, TurnContext
  <1>4. PICK m : m = worker[r].no
    OBVIOUS
  <1>5. PICK new : new = <<Ended(m, "succeeded", "none")>>
    OBVIOUS
  <1>6. LandAllowed(e, m) => Legal(e, new)
    BY <1>2, <1>5, LandLegal
  <1>7. {"erased", "retryable"} \subseteq Code
    BY DEF Code
  <1>8. \E x \in Turn : Become(r, x) /\ Fits(r, x)'
    <2>1. CASE Become(r, Idle) \/ Carry(r)
      BY <2>1, TurnEnds
    <2>2. CASE \E p \in {"cancelBound", "failLanding"} : \E c \in Code :
                  Become(r, [worker[r] EXCEPT !.at = p, !.code = c])
      BY <1>1, <1>3, <2>2, TurnMoves DEF WorkerPoint
    <2> QED
      BY <1>7, <2>1, <2>2 DEF TurnLand
  <1>9. \/ Refused
        \/ LandAllowed(e, m) /\ (Submitted(e, new) \/ Lost(e, new))
    BY <1>2, <1>4, <1>5 DEF TurnLand
  <1> QED
    BY <1>1, <1>6, <1>8, <1>9, SubmitEffect

LEMMA AbandonEffect ==
    ASSUME ObligationInv, NEW r \in Resident, TurnAbandon(r)
    PROVE  TurnEffect(r)
  <1>0. TypeOK /\ UNCHANGED <<turnFrame, rows, poisoned, launched>>
    BY DEF ObligationInv, TurnAbandon
  <1>1. Writes(OfResident(r)) /\ launched' \subseteq Resident
    BY <1>0 DEF Writes, TypeOK
  <1>2. poisoned' \in BOOLEAN
    BY <1>0, Zenon DEF TypeOK
  <1>3. disruptions' \in 0 .. MaxDisruptions
    BY <1>0, ObligationAssumption DEF TypeOK, TurnAbandon, Disrupt
  <1> QED
    BY <1>0, <1>1, <1>2, <1>3, TurnEnds DEF TurnEffect, TurnAbandon

-----------------------------------------------------------------------------
(* The invariant.                                                          *)

LEMMA AcceptedTyped == TypeOK => Accepted \subseteq Event
  BY DEF TypeOK, Accepted

\* A turn that does not move still knows its message.
LEMMA FitsKept ==
    ASSUME NEW q \in Resident, Fits(q, worker[q]), worker'[q] = worker[q],
           status[q] = "archived" => status'[q] = "archived",
           \A e \in OfResident(q) :
              /\ rows'[e] = rows[e] \/ status[q] = "archived"
              /\ HasRun(e) => HasRun(e)'
    PROVE  Fits(q, worker[q])'
  <1>1. PICK w : w = worker[q]
    OBVIOUS
  <1>2. PICK f : f = w.event
    OBVIOUS
  <1>3. f \in OfResident(q) =>
            /\ HasRun(f) => HasRun(f)'
            /\ \/ status'[q] = "archived"
               \/ /\ status[q] # "archived" /\ Latest(f)' = Latest(f)
                  /\ RetryEligible(f)' <=> RetryEligible(f)
    BY DEF Latest, RetryEligible
  <1>4. Fits(q, w)'
    BY <1>1, <1>2, <1>3 DEF Fits, OfResident
  <1> QED
    BY <1>1, <1>4

LEMMA TurnWorking ==
    ASSUME ObligationInv, NEW r \in Resident, TurnStep(r) \/ TurnAbandon(r)
    PROVE  TurnEffect(r) /\ phase \in Working
  <1>1. TurnEffect(r)
    BY DiscoverEffect, ReadEffect, CancelEffect, PrepareEffect, RetryEffect,
       EndEffect, LandEffect, AbandonEffect DEF TurnStep
  <1>2. worker[r].at = "idle" => phase \in Working
    BY DEF TurnStep, Discover, TurnCancel, TurnPrepare, TurnResume, TurnRetry,
       TurnReload, TurnReject, TurnBoundary, TurnStop, TurnProvider, TurnLand,
       TurnFail, TurnCancelBound, TurnAbandon, Working
  <1>3. worker[r].at # "idle" => phase \in Working
    BY DEF ObligationInv, WorkersFit
  <1> QED
    BY <1>1, <1>2, <1>3

LEMMA TurnKeeps ==
    ASSUME ObligationInv, NEW r \in Resident, TurnEffect(r), phase \in Working
    PROVE  ObligationInv'
  <1>0. /\ TypeOK /\ WorkersFit /\ ArchiverFits /\ ArchivedStay /\ ArchiveClosed
        /\ \A e \in Event : History(e)
    BY DEF ObligationInv
  <1>1. /\ UNCHANGED <<accepted, erased, stale, unresolvable, status, selected, phase,
                       unsupported, archiver, archivedOk, moves>>
        /\ Writes(OfResident(r)) /\ OfResident(r) \in SUBSET Event
    BY DEF TurnEffect, turnFrame, OfResident
  <1>2. /\ rows' \in [Event -> Seq(Row)]
        /\ \A e \in Event :
             /\ History(e)' /\ (HasRun(e) => HasRun(e)')
             /\ e \notin OfResident(r) => rows'[e] = rows[e]
             /\ status[ResidentOf[e]] = "archived" /\ ~NeedsAttention(e)
                => ~NeedsAttention(e)'
    BY <1>0, <1>1, WritesKeep
  <1>3. PICK x \in Turn : Become(r, x) /\ Fits(r, x)'
    BY DEF TurnEffect
  <1>4. worker' = [worker EXCEPT ![r] = x] /\ worker \in [Resident -> Turn]
    BY <1>0, <1>3 DEF Become, TypeOK
  <1>5. worker' \in [Resident -> Turn]
    BY <1>3, <1>4
  <1>6. TypeOK'
    <2>1. poisoned' \in BOOLEAN
      BY Zenon DEF TurnEffect
    <2> QED
      BY <1>0, <1>1, <1>2, <1>5, <2>1 DEF TypeOK, TurnEffect
  <1>7. WorkersFit'
    <2> SUFFICES ASSUME NEW q \in Resident PROVE Fits(q, worker[q])'
      BY <1>1 DEF WorkersFit
    <2>1. CASE q = r
      BY <1>3, <1>4, <2>1
    <2>2. CASE q # r
      <3>1. worker'[q] = worker[q]
        BY <1>4, <2>2
      <3>2. \A e \in OfResident(q) : rows'[e] = rows[e] /\ (HasRun(e) => HasRun(e)')
        BY <1>2, <2>2 DEF OfResident
      <3>3. Fits(q, worker[q])
        BY <1>0 DEF WorkersFit
      <3> QED
        BY <1>1, <3>1, <3>2, <3>3, FitsKept
    <2> QED
      BY <2>1, <2>2
  <1>8. ArchiveClosed'
    <2>1. Accepted' = Accepted
      BY <1>1 DEF Accepted
    <2> QED
      BY <1>0, <1>1, <1>2, <2>1, AcceptedTyped DEF ArchiveClosed, ArchivedStay
  <1>9. ArchiverFits' /\ ArchivedStay' /\ NoneRunning'
    BY <1>0, <1>1 DEF ArchiverFits, ArchivedStay, NoneRunning, Working, OfResident
  <1> QED
    BY <1>2, <1>6, <1>7, <1>8, <1>9 DEF ObligationInv

\* Everything an archive step may append: cancellations for its resident.
LEMMA ArchiveWrites ==
    ASSUME ObligationInv, ArchiveStep
    PROVE  /\ Writes(OfResident(archiver.resident)) /\ poisoned' \in BOOLEAN
           /\ disruptions' \in 0 .. MaxDisruptions
  <1>0. TypeOK /\ ArchiverFits
    BY DEF ObligationInv
  <1>1. archiver.at # "idle"
    BY DEF ArchiveStep, ArchiveRunning, ArchiveDiscover, ArchiveCancel
  <1>2. PICK r \in Resident : r = archiver.resident
    BY <1>0, <1>1 DEF ArchiverFits
  <1> SUFFICES /\ Writes(OfResident(r)) /\ poisoned' \in BOOLEAN
               /\ disruptions' \in 0 .. MaxDisruptions
    BY <1>2
  <1>3. CASE UNCHANGED <<rows, poisoned, disruptions>>
    <2>1. poisoned' \in BOOLEAN
      BY <1>0, <1>3, Zenon DEF TypeOK
    <2> QED
      BY <1>0, <1>3, <2>1 DEF Writes, TypeOK
  <1>4. CASE ArchiveRunning /\ ~UNCHANGED <<rows, poisoned, disruptions>>
    <2>1. PICK e \in RunningOf(r) :
              \/ Submitted(e, <<Ended(Latest(e).no, "cancelled", "inactive")>>)
              \/ Refused
              \/ LostHard(e, <<Ended(Latest(e).no, "cancelled", "inactive")>>)
      BY <1>2, <1>4 DEF ArchiveRunning
    <2>2. e \in OfResident(r) /\ e \in Event /\ HasRunning(e)
      BY <2>1 DEF RunningOf, OfResident, HasRunning
    <2>3. PICK new : new = <<Ended(Latest(e).no, "cancelled", "inactive")>>
      OBVIOUS
    <2>4. "inactive" \in Code
      BY DEF Code
    <2>5. Legal(e, new)
      BY <2>2, <2>3, <2>4, EndLegal
    <2> QED
      BY <1>0, <2>1, <2>2, <2>3, <2>5, Submission
  <1>5. CASE ArchiveCancel
    <2>1. PICK e \in OfResident(r) : e = archiver.event /\ e \in Event
      BY <1>0, <1>2, <1>5 DEF ArchiveCancel, ArchiverFits, OfResident
    <2>2. PICK c : c = archiver.code
      OBVIOUS
    <2>3. PICK new : new = CancelRows(e, c)
      OBVIOUS
    <2>4. CancelAllowed(e, c) => Legal(e, new)
      BY <2>1, <2>3, CancelLegal, ReasonTyped DEF CancelAllowed
    <2>5. \/ Refused
          \/ CancelAllowed(e, c) /\ (Submitted(e, new) \/ LostHard(e, new))
      BY <2>1, <2>2, <2>3, <1>5 DEF ArchiveCancel
    <2> QED
      BY <1>0, <2>4, <2>5, Submission
  <1> QED
    BY <1>3, <1>4, <1>5 DEF ArchiveStep, ArchiveDiscover

\* Everything an archive step may do: cancel for its resident, move on, or
\* report success when nothing is open.
LEMMA ArchiveKeeps ==
    ASSUME ObligationInv, ArchiveStep
    PROVE  ObligationInv'
  <1>0. /\ TypeOK /\ WorkersFit /\ ArchiverFits /\ ArchivedStay /\ ArchiveClosed
        /\ NoneRunning /\ \A e \in Event : History(e)
    BY DEF ObligationInv
  <1>1. /\ UNCHANGED <<accepted, erased, stale, unresolvable, status, selected, phase,
                       unsupported, launched, worker, moves>>
        /\ archiver.at # "idle"
    BY DEF ArchiveStep, ArchiveRunning, ArchiveDiscover, ArchiveCancel, archiveFrame
  <1>2. PICK r \in Resident : r = archiver.resident /\ status[r] = "archived"
    BY <1>0, <1>1 DEF ArchiverFits
  <1>3. OfResident(r) \in SUBSET Event /\ archiver \in Archiver
    BY <1>0 DEF OfResident, TypeOK
  <1>4. Writes(OfResident(r)) /\ poisoned' \in BOOLEAN /\ disruptions' \in 0 .. MaxDisruptions
    BY <1>1, <1>2, ArchiveWrites
  <1>5. /\ rows' \in [Event -> Seq(Row)]
        /\ \A e \in Event :
             /\ History(e)' /\ (HasRun(e) => HasRun(e)')
             /\ e \notin OfResident(r) => rows'[e] = rows[e]
             /\ status[ResidentOf[e]] = "archived" /\ ~NeedsAttention(e)
                => ~NeedsAttention(e)'
             /\ phase \notin Working /\ ~HasRunning(e) => ~HasRunning(e)'
    BY <1>0, <1>3, <1>4, WritesKeep
  <1>6. archiver' \in Archiver /\ ArchiverFits'
    <2>1. NoArchive \in Archiver /\ NoArchive.at = "idle"
      BY DEF NoArchive, Archiver, ArchivePoint, Code
    <2>2. CASE archiver' = NoArchive
      BY <2>1, <2>2 DEF ArchiverFits
    <2>3. CASE UNCHANGED archiver
      BY <1>0, <1>1, <1>3, <2>3 DEF ArchiverFits, OfResident
    <2>4. CASE archiver' = [archiver EXCEPT !.at = "dialogues"]
      <3>1. /\ archiver' \in Archiver /\ archiver'.at = "dialogues"
            /\ archiver'.resident = archiver.resident
        BY <1>3, <2>4 DEF Archiver, ArchivePoint
      <3> QED
        BY <1>1, <1>2, <3>1 DEF ArchiverFits
    <2>5. CASE archiver' = [archiver EXCEPT !.at = "dialogues", !.event = None, !.code = "none"]
      <3>1. PICK a : a = [archiver EXCEPT !.at = "dialogues"]
        OBVIOUS
      <3>2. a = [at |-> "dialogues", resident |-> archiver.resident,
                 event |-> archiver.event, code |-> archiver.code]
        BY <1>3, <3>1 DEF Archiver
      <3>3. PICK b : b = [a EXCEPT !.event = None]
        OBVIOUS
      <3>4. b = [at |-> "dialogues", resident |-> archiver.resident,
                 event |-> None, code |-> archiver.code]
        BY <3>2, <3>3
      <3>5. archiver' = [b EXCEPT !.code = "none"]
        BY <2>5, <3>1, <3>3
      <3>6. archiver' = [at |-> "dialogues", resident |-> archiver.resident,
                         event |-> None, code |-> "none"]
        BY <3>4, <3>5
      <3>7. archiver' \in Archiver
        BY <1>3, <3>6 DEF Archiver, ArchivePoint, Code
      <3> QED
        BY <1>1, <1>2, <3>6, <3>7 DEF ArchiverFits
    <2>6. CASE \E e \in OpenAfterArchive(r) :
                  archiver' = [archiver EXCEPT !.at = "cancel", !.event = e,
                                               !.code = RecoveryReason(e)]
      <3>1. PICK e \in OpenAfterArchive(r) :
                  archiver' = [archiver EXCEPT !.at = "cancel", !.event = e,
                                               !.code = RecoveryReason(e)]
        BY <2>6
      <3>2. e \in OfResident(r)
        BY <1>0 DEF OpenAfterArchive, Attention, OfResident, TypeOK
      <3>3. PICK c \in Code : c = RecoveryReason(e)
        BY ReasonTyped DEF Reason, Code
      <3>4. PICK a : a = [archiver EXCEPT !.at = "cancel"]
        OBVIOUS
      <3>5. a = [at |-> "cancel", resident |-> archiver.resident,
                 event |-> archiver.event, code |-> archiver.code]
        BY <1>3, <3>4 DEF Archiver
      <3>6. PICK b : b = [a EXCEPT !.event = e]
        OBVIOUS
      <3>7. b = [at |-> "cancel", resident |-> archiver.resident,
                 event |-> e, code |-> archiver.code]
        BY <3>5, <3>6
      <3>8. archiver' = [b EXCEPT !.code = c]
        BY <3>1, <3>3, <3>4, <3>6
      <3>9. archiver' = [at |-> "cancel", resident |-> archiver.resident,
                         event |-> e, code |-> c]
        BY <3>7, <3>8
      <3>10. archiver' \in Archiver
        BY <1>3, <3>2, <3>3, <3>9 DEF Archiver, ArchivePoint, OfResident
      <3> QED
        BY <1>1, <1>2, <3>2, <3>9, <3>10 DEF ArchiverFits, OfResident
    <2> QED
      BY <1>2, <2>2, <2>3, <2>4, <2>5, <2>6
      DEF ArchiveStep, ArchiveRunning, ArchiveDiscover, ArchiveCancel
  <1>7. archivedOk' \subseteq Resident /\ ArchivedStay'
    BY <1>0, <1>1, <1>2 DEF ArchiveStep, ArchiveRunning, ArchiveDiscover,
       ArchiveCancel, ArchivedStay, TypeOK
  <1>8. TypeOK'
    <2>1. poisoned' \in BOOLEAN
      BY <1>4
    <2> QED
      BY <1>0, <1>1, <1>4, <1>5, <1>6, <1>7, <2>1 DEF TypeOK
  <1>9. WorkersFit'
    <2> SUFFICES ASSUME NEW q \in Resident PROVE Fits(q, worker[q])'
      BY <1>0, <1>1 DEF WorkersFit
    <2>1. \A e \in OfResident(q) :
              /\ rows'[e] = rows[e] \/ status[q] = "archived"
              /\ HasRun(e) => HasRun(e)'
      BY <1>2, <1>5 DEF OfResident
    <2>2. Fits(q, worker[q])
      BY <1>0 DEF WorkersFit
    <2> QED
      BY <1>1, <2>1, <2>2, FitsKept
  <1>10. ArchiveClosed'
    <2> SUFFICES ASSUME NEW e \in Accepted', ResidentOf[e] \in archivedOk'
                 PROVE  ~NeedsAttention(e)'
      BY DEF ArchiveClosed
    <2>1. e \in Accepted /\ e \in Event
      BY <1>0, <1>1, AcceptedTyped DEF Accepted
    <2>2. CASE ResidentOf[e] \in archivedOk
      BY <1>0, <1>5, <2>1, <2>2 DEF ArchiveClosed, ArchivedStay
    <2>3. CASE ResidentOf[e] \notin archivedOk
      <3>1. /\ ArchiveDiscover /\ OpenAfterArchive(r) = {} /\ ResidentOf[e] = r
        BY <1>2, <2>3 DEF ArchiveStep, ArchiveRunning, ArchiveDiscover, ArchiveCancel
      <3>2. ~NeedsAttention(e)
        BY <2>1, <3>1 DEF OpenAfterArchive, Attention, Accepted
      <3> QED
        BY <1>2, <1>5, <2>1, <3>1, <3>2
    <2> QED
      BY <2>2, <2>3
  <1>11. NoneRunning'
    BY <1>0, <1>1, <1>5 DEF NoneRunning, Working
  <1> QED
    BY <1>5, <1>6, <1>7, <1>8, <1>9, <1>10, <1>11 DEF ObligationInv

\* What a recovery appends: the end of a running attempt, or the cancellation of
\* a message that cannot be answered any more.
LEMMA RecoveryWrites ==
    ASSUME ObligationInv, Recovery
    PROVE  /\ Writes(Event) /\ poisoned' \in BOOLEAN
           /\ disruptions' \in 0 .. MaxDisruptions
  <1>0. TypeOK
    BY DEF ObligationInv
  <1>1. CASE UNCHANGED <<rows, poisoned, disruptions>>
    <2>1. poisoned' \in BOOLEAN
      BY <1>0, <1>1, Zenon DEF TypeOK
    <2> QED
      BY <1>0, <1>1, <2>1 DEF Writes, TypeOK
  <1>2. CASE \E e \in RunningEvents :
                Recovered(e, <<Ended(Latest(e).no, "cancelled", "retryable")>>)
    <2>1. PICK e \in RunningEvents :
                Recovered(e, <<Ended(Latest(e).no, "cancelled", "retryable")>>)
      BY <1>2
    <2>2. e \in Event /\ HasRunning(e)
      BY <2>1 DEF RunningEvents, RunningOf, HasRunning
    <2>3. PICK new : new = <<Ended(Latest(e).no, "cancelled", "retryable")>>
      OBVIOUS
    <2>4. "retryable" \in Code
      BY DEF Code
    <2>5. Legal(e, new)
      BY <2>2, <2>3, <2>4, EndLegal
    <2> QED
      BY <1>0, <2>1, <2>2, <2>3, <2>5, Submission DEF Recovered
  <1>3. CASE \E e \in MandatoryEvents : Recovered(e, CancelRows(e, RecoveryReason(e)))
    <2>1. PICK e \in MandatoryEvents : Recovered(e, CancelRows(e, RecoveryReason(e)))
      BY <1>3
    <2>2. e \in Event /\ RecoveryReason(e) \in Reason
      BY <1>0, <2>1, AcceptedTyped, ReasonTyped DEF MandatoryEvents
    <2>3. PICK new : new = CancelRows(e, RecoveryReason(e))
      OBVIOUS
    <2>4. Legal(e, new)
      BY <2>2, <2>3, CancelLegal
    <2> QED
      BY <1>0, <2>1, <2>2, <2>3, <2>4, Submission DEF Recovered
  <1> QED
    BY <1>1, <1>2, <1>3 DEF Recovery, RecoverRunning, RecoverMandatory

LEMMA RecoveryKeeps ==
    ASSUME ObligationInv, Recovery
    PROVE  ObligationInv'
  <1>0. /\ TypeOK /\ WorkersFit /\ ArchiverFits /\ ArchivedStay /\ ArchiveClosed
        /\ NoneRunning /\ \A e \in Event : History(e)
    BY DEF ObligationInv
  <1>1. /\ UNCHANGED <<accepted, erased, stale, unresolvable, status, selected, archivedOk,
                       moves, unsupported, worker, archiver>>
        /\ phase \notin Working
    BY DEF Recovery, RecoverRunning, RecoverMandatory, ownerFrame, Working
  <1>2. /\ Writes(Event) /\ poisoned' \in BOOLEAN /\ disruptions' \in 0 .. MaxDisruptions
    BY RecoveryWrites
  <1>3. /\ rows' \in [Event -> Seq(Row)]
        /\ \A e \in Event :
             /\ History(e)'
             /\ status[ResidentOf[e]] = "archived" /\ ~NeedsAttention(e)
                => ~NeedsAttention(e)'
             /\ ~HasRunning(e) => ~HasRunning(e)'
    BY <1>0, <1>1, <1>2, WritesKeep
  <1>4. phase' \in Phase /\ launched' \subseteq Resident
    BY <1>0, ObligationAssumption
    DEF Recovery, RecoverRunning, RecoverMandatory, Recovered, StartWorkers, TypeOK, Phase
  <1>5. TypeOK'
    <2>1. poisoned' \in BOOLEAN
      BY <1>2
    <2> QED
      BY <1>0, <1>1, <1>2, <1>3, <1>4, <2>1 DEF TypeOK
  <1>6. WorkersFit'
    BY <1>0, <1>1 DEF WorkersFit, Fits
  <1>7. ArchiveClosed'
    <2>1. Accepted' = Accepted
      BY <1>1 DEF Accepted
    <2> QED
      BY <1>0, <1>1, <1>3, <2>1, AcceptedTyped DEF ArchiveClosed, ArchivedStay
  <1>8. ArchiverFits' /\ ArchivedStay'
    BY <1>0, <1>1 DEF ArchiverFits, ArchivedStay, OfResident
  <1>9. NoneRunning'
    <2> SUFFICES ASSUME phase' \in {"startMandatory", "stopMandatory"}
                 PROVE  \A e \in Event : ~HasRunning(e)'
      BY DEF NoneRunning
    <2>1. CASE RunningEvents = {}
      <3>1. \A e \in Event : ~HasRunning(e)
        BY <2>1, ObligationAssumption DEF RunningEvents, RunningOf, HasRunning
      <3> QED
        BY <1>3, <3>1
    <2>2. CASE phase \in {"startMandatory", "stopMandatory"}
      BY <1>0, <1>3, <2>2 DEF NoneRunning
    <2> QED
      BY <2>1, <2>2 DEF Recovery, RecoverRunning, RecoverMandatory, Recovered
  <1> QED
    BY <1>3, <1>5, <1>6, <1>7, <1>8, <1>9 DEF ObligationInv

\* The owner's operations and the life of the process write no history.
LEMMA NothingWritten ==
    ASSUME ObligationInv, UNCHANGED rows
    PROVE  /\ \A e \in Event : History(e)'
           /\ \A e \in Event : /\ NeedsAttention(e)' <=> NeedsAttention(e)
                               /\ HasRunning(e)' <=> HasRunning(e)
                               /\ HasRun(e) => HasRun(e)'
  BY DEF ObligationInv, History, Synthetic, Alternates, RowFits, HasRun, Latest,
     HasRunning, NeedsAttention, WorkState, RetryEligible

LEMMA OwnerKeeps ==
    ASSUME ObligationInv,
           \/ \E e \in Event : Ingress(e) \/ EraseEvent(e) \/ EraseClaim(e)
           \/ \E r \in Resident : SelectResident(r) \/ ArchiveResident(r) \/ LoseRevision(r)
    PROVE  ObligationInv'
  <1>0. /\ TypeOK /\ WorkersFit /\ ArchiverFits /\ ArchivedStay /\ ArchiveClosed
        /\ NoneRunning
    BY DEF ObligationInv
  <1>1. UNCHANGED <<rows, phase, unsupported, worker, archivedOk>>
    BY DEF Ingress, EraseEvent, EraseClaim, SelectResident, ArchiveResident, LoseRevision,
       processVars, archiveFrame
  <1>2. /\ status' \in [Resident -> {"active", "archived"}]
        /\ \A q \in Resident : status[q] = "archived" => status'[q] = "archived"
    BY <1>0 DEF Ingress, EraseEvent, EraseClaim, SelectResident, ArchiveResident, LoseRevision, TypeOK
  <1>3. poisoned' \in BOOLEAN
    BY <1>0, Zenon DEF Ingress, EraseEvent, EraseClaim, SelectResident,
       ArchiveResident, LoseRevision, TypeOK, processVars
  <1>4. /\ disruptions' \in 0 .. MaxDisruptions /\ moves' \in 0 .. MaxMoves
        /\ {erased', stale', unresolvable'} \subseteq SUBSET Event
        /\ selected' \in Resident \cup {None} /\ launched' \subseteq Resident
    <2>1. MaxDisruptions \in Nat /\ MaxMoves \in Nat /\ ResidentOf \in [Event -> Resident]
      BY ObligationAssumption
    <2>2. /\ disruptions \in 0 .. MaxDisruptions /\ moves \in 0 .. MaxMoves
          /\ {erased, stale, unresolvable} \subseteq SUBSET Event
          /\ selected \in Resident \cup {None} /\ launched \subseteq Resident
      BY <1>0 DEF TypeOK
    <2>3. disruptions' = disruptions \/ Disrupt
      BY DEF Ingress, EraseEvent, EraseClaim, SelectResident, ArchiveResident, LoseRevision
    <2>4. moves' = moves \/ Move
      BY DEF Ingress, EraseEvent, EraseClaim, SelectResident, ArchiveResident, LoseRevision
    <2>5. disruptions' \in 0 .. MaxDisruptions /\ moves' \in 0 .. MaxMoves
      BY <2>1, <2>2, <2>3, <2>4 DEF Disrupt, Move
    <2>6. {erased', stale', unresolvable'} \subseteq SUBSET Event
      BY <1>0, <2>2, AcceptedTyped DEF Ingress, EraseEvent, EraseClaim, SelectResident, ArchiveResident, LoseRevision,
         archiveFrame
    <2>7. selected' \in Resident \cup {None} /\ launched' \subseteq Resident
      BY <2>1, <2>2 DEF Ingress, EraseEvent, EraseClaim, SelectResident,
         ArchiveResident, LoseRevision, archiveFrame, processVars
    <2> QED
      BY <2>5, <2>6, <2>7
  <1>5. archiver' \in Archiver /\ ArchiverFits'
    <2>1. CASE UNCHANGED archiver
      BY <1>0, <1>2, <2>1 DEF ArchiverFits, TypeOK, OfResident
    <2>2. CASE \E r \in Resident :
                  /\ ArchiveResident(r) /\ status'[r] = "archived"
                  /\ archiver' = [NoArchive EXCEPT !.at = "running", !.resident = r]
      <3>1. PICK r \in Resident :
                  /\ status'[r] = "archived"
                  /\ archiver' = [NoArchive EXCEPT !.at = "running", !.resident = r]
        BY <2>2
      <3>2. archiver' = [at |-> "running", resident |-> r, event |-> None, code |-> "none"]
        BY <3>1 DEF NoArchive
      <3> QED
        BY <3>1, <3>2 DEF Archiver, ArchivePoint, Code, ArchiverFits
    <2> QED
      BY <1>0, <1>2, <2>1, <2>2 DEF Ingress, EraseEvent, EraseClaim, SelectResident,
         ArchiveResident, LoseRevision, TypeOK
  <1>6. WorkersFit' /\ ArchivedStay' /\ NoneRunning'
    <2>1. \A q \in Resident : Fits(q, worker[q])'
      <3> TAKE q \in Resident
      <3>1. Fits(q, worker[q]) /\ worker[q] \in Turn
        BY <1>0 DEF WorkersFit, TypeOK
      <3> QED
        BY <1>0, <1>1, <1>2, <3>1, NothingWritten, FitsKept DEF OfResident
    <2>2. WorkersFit'
      BY <1>0, <1>1, <2>1 DEF WorkersFit
    <2>3. ArchivedStay'
      BY <1>0, <1>1, <1>2 DEF ArchivedStay, TypeOK
    <2>4. NoneRunning'
      BY <1>0, <1>1, NothingWritten DEF NoneRunning
    <2> QED
      BY <2>2, <2>3, <2>4
  <1>7. CASE UNCHANGED accepted
    <2>1. TypeOK'
      BY <1>0, <1>1, <1>2, <1>3, <1>4, <1>5, <1>7 DEF TypeOK
    <2>2. Accepted' = Accepted
      BY <1>7 DEF Accepted
    <2>3. ArchiveClosed'
      BY <1>0, <1>1, <2>2, AcceptedTyped, NothingWritten DEF ArchiveClosed
    <2> QED
      BY <1>1, <1>5, <1>6, <2>1, <2>3, NothingWritten DEF ObligationInv
  <1>8. CASE \E e \in Event : Ingress(e)
    <2>1. PICK e \in Event : Ingress(e)
      BY <1>8
    <2>2. /\ accepted' = Append(accepted, e) /\ accepted \in Seq(Event)
          /\ status[ResidentOf[e]] = "active" /\ UNCHANGED status
      BY <1>0, <2>1 DEF Ingress, Available, TypeOK
    <2>3. accepted' \in Seq(Event) /\ Accepted' \subseteq Accepted \cup {e}
      BY <2>2 DEF Accepted
    <2>4. TypeOK'
      BY <1>0, <1>1, <1>2, <1>3, <1>4, <1>5, <2>3 DEF TypeOK
    <2>5. ArchiveClosed'
      BY <1>0, <1>1, <2>2, <2>3, AcceptedTyped, NothingWritten
      DEF ArchiveClosed, ArchivedStay
    <2> QED
      BY <1>1, <1>5, <1>6, <2>4, <2>5, NothingWritten DEF ObligationInv
  <1> QED
    BY <1>7, <1>8 DEF EraseEvent, EraseClaim, SelectResident, ArchiveResident, LoseRevision, archiveFrame

LEMMA ProcessKeeps ==
    ASSUME ObligationInv, Start \/ Stop \/ Join \/ Crash
    PROVE  ObligationInv'
  <1>0. /\ TypeOK /\ WorkersFit /\ ArchiverFits /\ ArchivedStay /\ ArchiveClosed
        /\ NoneRunning
    BY DEF ObligationInv
  <1>1. UNCHANGED <<accepted, erased, stale, unresolvable, status, selected, archivedOk,
                    moves, rows>>
    BY DEF Start, Stop, Join, Crash, ownerFrame
  <1>2. poisoned' \in BOOLEAN
    BY <1>0, Zenon DEF Start, Stop, Join, Crash, TypeOK
  <1>3. /\ disruptions' \in 0 .. MaxDisruptions /\ phase' \in Phase
        /\ unsupported' \subseteq Event /\ launched' \subseteq Resident
    BY <1>0, ObligationAssumption DEF Start, Stop, Join, Crash, TypeOK, Disrupt, Phase
  <1>4. archiver' \in Archiver /\ ArchiverFits'
    <2>1. CASE UNCHANGED archiver
      BY <1>0, <1>1, <2>1 DEF ArchiverFits, TypeOK, OfResident
    <2>2. CASE archiver' = NoArchive
      BY <2>2 DEF NoArchive, Archiver, ArchivePoint, Code, ArchiverFits
    <2> QED
      BY <2>1, <2>2 DEF Start, Stop, Join, Crash
  <1>5. worker' \in [Resident -> Turn] /\ WorkersFit'
    <2>1. CASE UNCHANGED worker
      <3>1. \A q \in Resident : Fits(q, worker[q])'
        <4> TAKE q \in Resident
        <4>1. Fits(q, worker[q])
          BY <1>0 DEF WorkersFit
        <4> QED
          BY <1>1, <2>1, <4>1, NothingWritten, FitsKept DEF OfResident
      <3>2. phase' \notin Working => \A q \in Resident : worker[q].at = "idle"
        BY <1>0, <2>1 DEF Start, Stop, Join, Crash, WorkersFit, Working, Idle
      <3> QED
        BY <1>0, <2>1, <3>1, <3>2 DEF WorkersFit, TypeOK
    <2>2. CASE worker' = [r \in Resident |-> Idle]
      <3>1. Idle \in Turn /\ Idle.at = "idle"
        BY ObligationAssumption DEF Idle, Turn, WorkerPoint, Code
      <3> QED
        BY <2>2, <3>1 DEF WorkersFit, Fits
    <2> QED
      BY <2>1, <2>2 DEF Start, Stop, Join, Crash
  <1>6. TypeOK'
    BY <1>0, <1>1, <1>2, <1>3, <1>4, <1>5 DEF TypeOK
  <1>7. ArchiveClosed'
    <2>1. Accepted' = Accepted
      BY <1>1 DEF Accepted
    <2> QED
      BY <1>0, <1>1, <2>1, AcceptedTyped, NothingWritten DEF ArchiveClosed
  <1>8. phase' \notin {"startMandatory", "stopMandatory"}
    BY DEF Start, Stop, Join, Crash
  <1> QED
    BY <1>0, <1>1, <1>4, <1>5, <1>6, <1>7, <1>8, NothingWritten
    DEF ObligationInv, ArchivedStay, NoneRunning

LEMMA ObligationInit == Init => ObligationInv
  <1> SUFFICES ASSUME Init PROVE ObligationInv
    OBVIOUS
  <1>1. Idle \in Turn /\ Idle.at = "idle" /\ NoArchive \in Archiver /\ NoArchive.at = "idle"
    BY ObligationAssumption
    DEF Idle, Turn, WorkerPoint, Code, NoArchive, Archiver, ArchivePoint
  <1>2. poisoned \in BOOLEAN
    BY Zenon DEF Init
  <1>3. TypeOK
    BY <1>1, <1>2, ObligationAssumption DEF Init, TypeOK, Phase
  <1>4. \A e \in Event : History(e)
    BY DEF Init, History, Alternates, HasRun
  <1>5. WorkersFit /\ ArchiverFits
    BY <1>1 DEF Init, WorkersFit, Fits, ArchiverFits
  <1>6. ArchivedStay /\ ArchiveClosed /\ NoneRunning
    BY DEF Init, ArchivedStay, ArchiveClosed, NoneRunning
  <1> QED
    BY <1>3, <1>4, <1>5, <1>6 DEF ObligationInv

LEMMA ObligationStep == ObligationInv /\ [Next]_vars => ObligationInv'
  <1> SUFFICES ASSUME ObligationInv, [Next]_vars PROVE ObligationInv'
    OBVIOUS
  <1>1. CASE Next
    BY <1>1, TurnWorking, TurnKeeps, ArchiveKeeps, RecoveryKeeps, OwnerKeeps,
       ProcessKeeps DEF Next
  <1>2. CASE UNCHANGED vars
    <2>0. UNCHANGED <<accepted, erased, stale, unresolvable, status, selected, rows, phase,
                      poisoned, unsupported, launched, worker, archiver, archivedOk,
                      disruptions, moves>>
      BY <1>2 DEF vars, durableVars, processVars
    <2>1. TypeOK' /\ ArchiverFits' /\ ArchivedStay'
      BY <2>0 DEF ObligationInv, TypeOK, ArchiverFits, ArchivedStay
    <2>2. WorkersFit'
      BY <2>0 DEF ObligationInv, WorkersFit, Fits, HasRun, Latest, RetryEligible
    <2>3. ArchiveClosed' /\ NoneRunning'
      BY <2>0 DEF ObligationInv, ArchiveClosed, NoneRunning, Accepted, NeedsAttention,
         WorkState, HasRunning, HasRun, Latest, RetryEligible
    <2> QED
      BY <2>0, <2>1, <2>2, <2>3, NothingWritten DEF ObligationInv
  <1> QED
    BY <1>1, <1>2

-----------------------------------------------------------------------------
(* The theorems.                                                           *)

LEMMA ObligationAlways == Spec => []ObligationInv
  BY ObligationInit, ObligationStep, PTL DEF Spec

\* The process, the workers and the durable state keep their types, whatever the
\* retry budget and however many disruptions there are.
THEOREM ObligationTyped == Spec => []TypeOK
  <1>1. ObligationInv => TypeOK
    BY DEF ObligationInv
  <1> QED
    BY <1>1, ObligationAlways, PTL

\* No interleaving of workers, archive, erasure, lost answers, crashes and
\* recovery writes a history that reduceGenerationOutcomeHistory would refuse.
THEOREM HistoriesWellFormed == Spec => []HistoryWellFormed
  <1>1. ObligationInv => HistoryWellFormed
    BY DEF ObligationInv, HistoryWellFormed, History, Synthetic, Alternates, RowFits
  <1> QED
    BY <1>1, ObligationAlways, PTL

\* Once ArchiveResident has returned nil, no message of the resident is open, and
\* none becomes open again.
THEOREM ArchivesStayClosed == Spec => []ArchiveClosed
  <1>1. ObligationInv => ArchiveClosed
    BY DEF ObligationInv
  <1> QED
    BY <1>1, ObligationAlways, PTL

\* A worker calls the provider only for an attempt within MaxAttempts, although
\* the row that says so was read, and written, several steps earlier.
THEOREM ProviderAlwaysBounded == Spec => []ProviderBounded
  <1>1. ObligationInv => ProviderBounded
    BY DEF ObligationInv, ProviderBounded, WorkersFit, Fits
  <1> QED
    BY <1>1, ObligationAlways, PTL

\* Every step appends to one history at most, and something legal.
LEMMA StepWrites ==
    ASSUME ObligationInv, [Next]_vars
    PROVE  Writes(Event)
  <1>1. \A S \in SUBSET Event : Writes(S) => Writes(Event)
    BY DEF Writes
  <1>2. CASE \E r \in Resident : TurnStep(r) \/ TurnAbandon(r)
    <2>1. PICK r \in Resident : TurnStep(r) \/ TurnAbandon(r)
      BY <1>2
    <2>2. Writes(OfResident(r)) /\ OfResident(r) \in SUBSET Event
      BY <2>1, TurnWorking DEF TurnEffect, OfResident
    <2> QED
      BY <1>1, <2>2
  <1>3. CASE ArchiveStep
    <2>1. OfResident(archiver.resident) \in SUBSET Event
      BY DEF OfResident
    <2> QED
      BY <1>1, <1>3, <2>1, ArchiveWrites
  <1>4. CASE Recovery
    BY <1>4, RecoveryWrites
  <1>5. CASE UNCHANGED rows
    BY <1>5 DEF Writes
  <1>6. CASE \/ \E e \in Event : Ingress(e) \/ EraseEvent(e) \/ EraseClaim(e)
             \/ \E r \in Resident : SelectResident(r) \/ ArchiveResident(r) \/ LoseRevision(r)
             \/ Start \/ Stop \/ Join \/ Crash
    <2>1. UNCHANGED rows
      BY <1>6 DEF Ingress, EraseEvent, EraseClaim, SelectResident, ArchiveResident,
         LoseRevision, Start, Stop, Join, Crash
    <2> QED
      BY <1>5, <2>1
  <1>7. CASE UNCHANGED vars
    BY <1>5, <1>7 DEF vars, durableVars
  <1> QED
    BY <1>2, <1>3, <1>4, <1>6, <1>7 DEF Next

\* However long a provider call, a retry or a restart took: an archived resident
\* gets cancellations only, and a reply lands only for a present message of the
\* active and selected resident.
THEOREM BoundaryAlwaysHolds == Spec => BoundaryHolds
  <1> DEFINE Kept == \A e \in Event : rows'[e] # rows[e] =>
                        LET new == rows'[e][Len(rows'[e])] IN
                        /\ status[ResidentOf[e]] = "archived" => new.state = "cancelled"
                        /\ new.state = "succeeded" =>
                              Available(ResidentOf[e]) /\ e \notin erased \cup stale
  <1>1. ObligationInv /\ [Next]_vars => Kept
    <2> SUFFICES ASSUME ObligationInv, [Next]_vars PROVE Kept
      OBVIOUS
    <2>1. TypeOK /\ (\A e \in Event : History(e)) /\ Writes(Event) /\ Event \in SUBSET Event
      BY StepWrites DEF ObligationInv
    <2>2. \A e \in Event : rows'[e] # rows[e] =>
              /\ Latest(e)'.state = "succeeded" =>
                    Available(ResidentOf[e]) /\ e \notin erased \cup stale
              /\ status[ResidentOf[e]] = "archived" => Latest(e)'.state = "cancelled"
      BY <2>1, WritesKeep
    <2> QED
      BY <2>2 DEF Latest
  <1>2. ObligationInv /\ [Next]_vars => [Kept]_vars
    BY <1>1
  <1> QED
    BY <1>2, ObligationAlways, PTL DEF Spec, BoundaryHolds

\* A start serves and a shutdown ends only after every running attempt was ended
\* and every obligation that cannot be met was closed for good; what has no
\* cancellation envelope is left without a run by a shutdown and keeps the
\* service closed.
THEOREM RecoveryAlwaysComplete == Spec => RecoveryComplete
  <1> DEFINE Completes ==
        (phase \in {"startMandatory", "stopMandatory"} /\ phase' \in {"serving", "stopped"})
          => /\ RunningEvents = {}
             /\ \A e \in Accepted : RecoveryReason(e) # "none" =>
                    \/ HasRun(e) /\ ~Retryable(Latest(e).code)
                    \/ phase' = "stopped" /\ ~HasRun(e) /\ e \in unresolvable
  <1>1. ObligationInv /\ [Next]_vars => Completes
    <2> SUFFICES ASSUME ObligationInv, [Next]_vars,
                        phase \in {"startMandatory", "stopMandatory"},
                        phase' \in {"serving", "stopped"}
                 PROVE  /\ RunningEvents = {}
                        /\ \A e \in Accepted : RecoveryReason(e) # "none" =>
                               \/ HasRun(e) /\ ~Retryable(Latest(e).code)
                               \/ phase' = "stopped" /\ ~HasRun(e) /\ e \in unresolvable
      OBVIOUS
    <2>1. \A e \in Event : ~HasRunning(e)
      BY DEF ObligationInv, NoneRunning
    <2>2. RunningEvents = {}
      BY <2>1 DEF RunningEvents, RunningOf, HasRunning
    <2>3. phase' # phase
      OBVIOUS
    <2>4. ~\E r \in Resident : TurnStep(r) \/ TurnAbandon(r)
      BY <2>3, TurnWorking DEF Working
    <2>5. ~ArchiveStep
      BY <2>3 DEF ArchiveStep, ArchiveRunning, ArchiveDiscover, ArchiveCancel, archiveFrame
    <2>6. /\ ~\E e \in Event : Ingress(e) \/ EraseEvent(e) \/ EraseClaim(e)
          /\ ~\E r \in Resident : SelectResident(r) \/ ArchiveResident(r) \/ LoseRevision(r)
      BY <2>3 DEF Ingress, EraseEvent, EraseClaim, SelectResident, ArchiveResident,
         LoseRevision, processVars, archiveFrame
    <2>7. ~(Start \/ Stop \/ Join \/ Crash)
      BY DEF Start, Stop, Join, Crash
    <2>8. ~RecoverRunning /\ ~UNCHANGED vars
      BY <2>3 DEF RecoverRunning, vars, processVars
    <2>9. RecoverMandatory
      BY <2>4, <2>5, <2>6, <2>7, <2>8 DEF Next, Recovery
    <2>10. /\ MandatoryEvents = UnresolvedCandidates
           /\ phase' = "serving" => MandatoryEvents = {}
      BY <2>9 DEF RecoverMandatory, Recovered, UnresolvedCandidates
    <2>11. ASSUME NEW e \in Accepted, RecoveryReason(e) # "none",
                  ~(HasRun(e) /\ ~Retryable(Latest(e).code))
           PROVE  phase' = "stopped" /\ ~HasRun(e) /\ e \in unresolvable
      <3>1. e \in MandatoryEvents
        BY <2>11 DEF MandatoryEvents
      <3> QED
        BY <2>10, <3>1 DEF UnresolvedCandidates, Resolvable
    <2> QED
      BY <2>2, <2>11
  <1>2. ObligationInv /\ [Next]_vars => [Completes]_vars
    BY <1>1
  <1> QED
    BY <1>2, ObligationAlways, PTL DEF Spec, RecoveryComplete

-----------------------------------------------------------------------------
(* The historical scan.                                                    *)

\* Every epoch was paid for by a message or a fault; proofs and cycles are
\* never ahead of it; a cycle that has not started has no cursor; and a
\* discovery belongs to a cycle.
Bookkeeping ==
    /\ epoch + (IF ingress = "submitted" THEN 1 ELSE 0) <= n + faults
    /\ clean <= epoch
    /\ cycle.epoch <= epoch
    /\ cycle.epoch = NoCycle => cycle.cursor = Top
    /\ turn.at \in {"recent", "older", "decide", "work"} => cycle.epoch # NoCycle
    /\ turn.at = "older" => ~turn.complete /\ turn.next = Top

ScanInv == ScanTypeOK /\ Bookkeeping /\ ScanCoverage /\ CleanProofSound

\* The initial states satisfy the inductive invariant.
LEMMA ScanBegins == ScanInit => ScanInv
  BY BudgetAssumption
  DEF ScanInit, ScanInv, ScanTypeOK, Bookkeeping, ScanCoverage, CleanProofSound, Passed,
      ScanTurn, IdleScan, Epoch, Seqs, Top, Unproved, NoCycle

\* The initial turn and its variants are turns.
LEMMA IdleTurn ==
    /\ IdleScan \in ScanTurn /\ IdleScan.at = "idle"
    /\ \A x \in {"recent", "background"} :
           [IdleScan EXCEPT !.at = x] \in ScanTurn /\ [IdleScan EXCEPT !.at = x].at = x
    /\ \A b \in BOOLEAN :
           /\ [IdleScan EXCEPT !.at = "recent", !.restarted = b] \in ScanTurn
           /\ [IdleScan EXCEPT !.at = "recent", !.restarted = b].at = "recent"
  <1>1. {} \in SUBSET Seqs /\ Top \in 1 .. Top /\ 0 \in 0 .. OlderPages
    BY BudgetAssumption DEF Top
  <1> QED
    BY <1>1 DEF IdleScan, ScanTurn

\* A turn goes on with no message, epoch or cycle changed.
LEMMA ScanTurnMoves ==
    ASSUME ScanTypeOK, Bookkeeping, UNCHANGED <<n, ingress, epoch, clean, cycle>>,
           open' \subseteq open, Fault \/ UNCHANGED faults, turn' \in ScanTurn, turn'.at # "older",
           cycle.epoch = NoCycle => turn'.at \notin {"recent", "older", "decide", "work"}
    PROVE  ScanTypeOK' /\ Bookkeeping'
  <1>1. n \in Nat /\ epoch \in Nat /\ MaxFaults \in Nat /\ faults \in 0 .. MaxFaults
    BY BudgetAssumption DEF ScanTypeOK, Epoch
  <1>2. faults' \in 0 .. MaxFaults /\ faults <= faults' /\ faults \in Nat /\ faults' \in Nat
    BY <1>1 DEF Fault
  <1>3. ScanTypeOK'
    BY <1>2 DEF ScanTypeOK
  <1>4. epoch' + (IF ingress' = "submitted" THEN 1 ELSE 0) <= n' + faults'
    BY <1>1, <1>2 DEF Bookkeeping
  <1>5. Bookkeeping'
    BY <1>4 DEF Bookkeeping
  <1> QED
    BY <1>3, <1>5

\* Types and bookkeeping are preserved by every step.
LEMMA ScanTypes ==
    ASSUME ScanTypeOK, Bookkeeping, [ScanNext]_scanVars
    PROVE  ScanTypeOK' /\ Bookkeeping'
  <1>a. /\ Top = MaxMessages + 1 /\ Epoch = 0 .. MaxMessages + MaxFaults
        /\ Unproved = -1 /\ NoCycle = -1
    BY DEF Top, Epoch, Unproved, NoCycle
  <1>b. open \in SUBSET Seqs
    BY BudgetAssumption DEF ScanTypeOK, Seqs
  <1> USE BudgetAssumption, <1>a DEF ScanTypeOK, Bookkeeping
  <1>1. CASE IngressSubmit
    <2>1. CASE n < MaxMessages /\ n' = n + 1 /\ open' = open \cup {n + 1} /\ UNCHANGED faults
      <3>1. n' \in 0 .. MaxMessages /\ open' \subseteq 1 .. n'
        BY <2>1
      <3> QED
        BY <1>1, <2>1, <3>1 DEF IngressSubmit
    <2>2. CASE Fault /\ UNCHANGED <<n, open>>
      BY <1>1, <2>2 DEF IngressSubmit, Fault
    <2> QED
      BY <1>1, <2>1, <2>2 DEF IngressSubmit
  <1>2. CASE IngressPreempt
    BY <1>2 DEF IngressPreempt, PreemptedClean
  <1>3. CASE Invalidate
    BY <1>3 DEF Invalidate, Fault
  <1>4. CASE CloseElsewhere
    BY <1>4 DEF CloseElsewhere, Fault
  <1>5. CASE TurnStart
    <2>1. cycle' \in [epoch : Epoch \cup {NoCycle}, cursor : 1 .. Top]
      BY <1>5 DEF TurnStart, CycleEpoch
    <2>2. cycle'.epoch = CycleEpoch /\ cycle'.cursor = cycle.cursor
      BY <1>5 DEF TurnStart
    <2>3. turn' \in ScanTurn
      BY <1>5, IdleTurn DEF TurnStart
    <2> QED
      BY <1>5, <2>1, <2>2, <2>3 DEF TurnStart, CycleEpoch
  <1>6. CASE ScanRecent
    <2> DEFINE seen == {s \in open : s > n - RecentCandidates}
    <2>1. seen \in SUBSET Seqs
      BY <1>b
    <2>2. n >= RecentCandidates => OlderStart \in 1 .. Top
      BY DEF OlderStart, Lower
    <2>3. Top \in 1 .. Top /\ 0 \in 0 .. OlderPages
      OBVIOUS
    <2> HIDE DEF seen
    <2>4. turn \in ScanTurn
      OBVIOUS
    <2>5. turn' \in ScanTurn /\ (turn'.at = "older" => ~turn'.complete /\ turn'.next = Top)
      <3> HIDE DEF ScanTypeOK, Bookkeeping
      <3>1. CASE n < RecentCandidates
        <4>1. turn' = [turn EXCEPT !.at = "decide", !.found = seen, !.next = Top, !.complete = TRUE]
          BY <1>6, <3>1 DEF ScanRecent, seen
        <4> QED
          BY <2>1, <2>3, <2>4, <4>1 DEF ScanTurn
      <3>2. CASE ~(n < RecentCandidates)
        <4>1. OlderStart \in 1 .. Top
          BY <2>2, <3>2 DEF ScanTypeOK
        <4>2. turn' = [turn EXCEPT !.at = "older", !.found = seen, !.next = Top,
                                   !.complete = FALSE, !.pages = 0, !.cursor = OlderStart]
          BY <1>6, <3>2 DEF ScanRecent, seen
        <4> QED
          BY <2>1, <2>3, <2>4, <4>1, <4>2 DEF ScanTurn
      <3> QED
        BY <3>1, <3>2
    <2> QED
      BY <1>6, <2>5 DEF ScanRecent
  <1>7. CASE ScanOlder
    <2>1. turn' \in ScanTurn
      <3> DEFINE page == {s \in 1 .. n : s < turn.cursor /\ s >= turn.cursor - OlderPageSize}
                 short == turn.cursor <= OlderPageSize
                 last == IF short THEN 1 ELSE turn.cursor - OlderPageSize
      <3>1. /\ turn.cursor \in 1 .. Top /\ turn.pages \in 0 .. OlderPages
            /\ turn.found \in SUBSET Seqs
        BY DEF ScanTurn
      <3>2. last \in 1 .. Top
        BY <3>1
      <3>3. turn.found \cup (page \cap open) \in SUBSET Seqs
        BY <3>1, <1>b
      <3>4. turn.pages < OlderPages => turn.pages + 1 \in 0 .. OlderPages
        BY <3>1
      <3>5. \/ turn' = [turn EXCEPT !.at = "decide", !.next = turn.cursor]
            \/ turn' = [turn EXCEPT !.at = "decide",
                            !.found = turn.found \cup (page \cap open), !.next = turn.cursor]
            \/ turn' = [turn EXCEPT !.at = "decide", !.complete = TRUE]
            \/ /\ turn.pages < OlderPages
               /\ turn' = [turn EXCEPT !.pages = turn.pages + 1, !.cursor = last]
        BY <1>7, Zenon DEF ScanOlder, ActionableCursor
      <3>6. turn \in ScanTurn
        OBVIOUS
      <3>7. PICK found \in SUBSET Seqs : found = turn.found \cup (page \cap open)
        BY <3>3
      <3> HIDE DEF page, last, ScanTypeOK, Bookkeeping
      <3>8. /\ [turn EXCEPT !.at = "decide", !.next = turn.cursor] \in ScanTurn
            /\ [turn EXCEPT !.at = "decide", !.complete = TRUE] \in ScanTurn
        BY <3>1, <3>6 DEF ScanTurn
      <3>9. [turn EXCEPT !.at = "decide", !.found = found, !.next = turn.cursor] \in ScanTurn
        BY <3>1, <3>6 DEF ScanTurn
      <3>10. turn.pages < OlderPages => [turn EXCEPT !.pages = turn.pages + 1, !.cursor = last] \in ScanTurn
        BY <3>2, <3>4, <3>6 DEF ScanTurn
      <3> QED
        BY <3>5, <3>7, <3>8, <3>9, <3>10
    <2>2. turn'.at = "older" => turn'.complete = turn.complete /\ turn'.next = turn.next
      <3>1. turn \in ScanTurn
        OBVIOUS
      <3> HIDE DEF ScanTypeOK, Bookkeeping
      <3> QED
        BY <1>7, <3>1 DEF ScanOlder, ScanTurn
    <2> QED
      BY <1>7, <2>1, <2>2 DEF ScanOlder
  <1>8. CASE ScanElapsed
    <2>1. turn' \in ScanTurn
      BY <1>8 DEF ScanElapsed, ScanTurn
    <2>2. turn'.at = "decide" /\ cycle.epoch # NoCycle
      BY <1>8 DEF ScanElapsed, ScanTurn
    <2>3. Fault /\ open' \subseteq open /\ UNCHANGED <<n, ingress, epoch, clean, cycle>>
      BY <1>8 DEF ScanElapsed
    <2> HIDE <1>a DEF ScanTypeOK, Bookkeeping
    <2> QED
      BY <2>1, <2>2, <2>3, ScanTurnMoves
  <1>9. CASE Decide
    <2>1. turn.next \in 1 .. Top /\ turn.found \in SUBSET Seqs /\ turn.restarted \in BOOLEAN
      BY DEF ScanTurn
    <2>2. cycle.epoch # NoCycle
      BY <1>9 DEF Decide
    <2>3. turn' \in ScanTurn
      <3>1. CASE turn' = [turn EXCEPT !.at = "work"]
        BY <3>1 DEF ScanTurn
      <3>2. [IdleScan EXCEPT !.at = "recent", !.restarted = TRUE] \in ScanTurn
        BY IdleTurn
      <3> QED
        BY <1>9, <3>1, <3>2, IdleTurn DEF Decide
    <2>7. turn'.at # "older"
      BY <1>9, IdleTurn DEF Decide, ScanTurn
    <2>4. CASE cycle' = [cycle EXCEPT !.cursor = IF turn.next = Top THEN @ ELSE turn.next]
               /\ UNCHANGED clean
      <3>1. /\ cycle' \in [epoch : Epoch \cup {NoCycle}, cursor : 1 .. Top]
            /\ cycle'.epoch = cycle.epoch
        BY <2>1, <2>4
      <3> QED
        BY <1>9, <2>2, <2>3, <2>4, <2>7, <3>1 DEF Decide
    <2>5. CASE /\ cycle' = [epoch |-> NoCycle, cursor |-> Top]
               /\ clean' \in {clean, epoch}
               /\ turn' \in {IdleScan, [IdleScan EXCEPT !.at = "background"]}
      <3>1. /\ cycle' \in [epoch : Epoch \cup {NoCycle}, cursor : 1 .. Top]
            /\ cycle'.epoch = NoCycle /\ cycle'.cursor = Top
        BY <2>5
      <3>2. turn'.at \notin {"recent", "older", "decide", "work"}
        BY <2>5, IdleTurn
      <3>3. turn.at = "decide" /\ UNCHANGED <<n, open, ingress, epoch, faults>>
        BY <1>9 DEF Decide
      <3>4. ScanTypeOK'
        BY <2>3, <2>5, <3>1, <3>3
      <3>5. Bookkeeping'
        BY <2>3, <2>5, <3>1, <3>2, <3>3
      <3> QED
        BY <3>4, <3>5
    <2>6. CASE cycle' = [epoch |-> epoch, cursor |-> Top] /\ UNCHANGED clean
      <3>1. /\ cycle' \in [epoch : Epoch \cup {NoCycle}, cursor : 1 .. Top]
            /\ cycle'.epoch = epoch /\ cycle'.cursor = Top
        BY <2>6
      <3> QED
        BY <1>9, <2>3, <2>6, <2>7, <3>1 DEF Decide
    <2> QED
      BY <1>9, <2>4, <2>5, <2>6 DEF Decide
  <1>10. CASE Work
    <2>1. turn' \in ScanTurn
      <3>1. turn.restarted \in BOOLEAN
        BY DEF ScanTurn
      <3> QED
        BY <1>10, <3>1, IdleTurn DEF Work
    <2>2. open' \subseteq open
      BY <1>10 DEF Work
    <2>4. turn'.at # "older"
      BY <1>10, IdleTurn DEF Work, ScanTurn
    <2>3. cycle.epoch = NoCycle => turn'.at \notin {"recent", "older", "decide", "work"}
      BY <1>10, IdleTurn DEF Work
    <2>5. (Fault \/ UNCHANGED faults) /\ UNCHANGED <<n, ingress, epoch, clean, cycle>>
      BY <1>10 DEF Work
    <2> HIDE <1>a DEF ScanTypeOK, Bookkeeping
    <2> QED
      BY <2>1, <2>2, <2>3, <2>4, <2>5, ScanTurnMoves
  <1>11. CASE Background
    BY <1>11, IdleTurn DEF Background
  <1>12. CASE ScanFails
    <2>1. turn' \in ScanTurn /\ turn'.at = "idle"
      BY <1>12, IdleTurn DEF ScanFails
    <2> QED
      BY <1>12, <2>1 DEF ScanFails, Fault
  <1>13. CASE UNCHANGED scanVars
    BY <1>13 DEF scanVars
  <1> QED
    BY <1>1, <1>2, <1>3, <1>4, <1>5, <1>6, <1>7, <1>8, <1>9, <1>10, <1>11, <1>12,
       <1>13 DEF ScanNext, ScanTurnStep

\* Coverage is preserved: a page is passed only when it has no open message, and
\* whatever adds a message also moves the epoch before the cycle can use it.
LEMMA ScanCovers ==
    ASSUME ScanInv, [ScanNext]_scanVars
    PROVE  ScanCoverage'
  <1> DEFINE Covers ==
        /\ Passed(cycle.cursor)'
        /\ turn'.at = "older" =>
            /\ Passed(turn.cursor)'
            /\ \A s \in open' : s > n' - RecentCandidates => s \in turn'.found
        /\ turn'.at = "decide" =>
            /\ turn'.next # Top => Passed(turn.next)'
            /\ turn'.complete /\ turn'.found = {} => open' = {}
  <1> SUFFICES ASSUME cycle'.epoch = epoch', ingress' = "idle"
               PROVE  Covers
    BY DEF ScanCoverage
  <1>a. /\ Top = MaxMessages + 1 /\ NoCycle = -1
        /\ n \in 0 .. MaxMessages /\ open \subseteq 1 .. n /\ epoch \in Nat
        /\ cycle \in [epoch : Epoch \cup {NoCycle}, cursor : 1 .. Top]
        /\ turn \in ScanTurn /\ turn.cursor \in 1 .. Top /\ turn.next \in 1 .. Top
        /\ cycle.epoch <= epoch /\ cycle.epoch \in Int
        /\ cycle.epoch = NoCycle => cycle.cursor = Top
    BY BudgetAssumption DEF ScanInv, ScanTypeOK, Bookkeeping, ScanTurn, Epoch, NoCycle, Top
  <1>b. CASE IngressSubmit \/ IngressPreempt \/ Invalidate
    BY <1>a, <1>b DEF IngressSubmit, IngressPreempt, Invalidate
  <1>c. CASE CloseElsewhere
    BY <1>a, <1>c DEF CloseElsewhere, ScanInv, ScanCoverage, Passed
  <1>d. CASE TurnStart
    <2>1. /\ cycle'.cursor = cycle.cursor /\ cycle'.epoch = CycleEpoch
          /\ open' = open /\ n' = n /\ epoch' = epoch /\ ingress' = ingress
          /\ turn'.at = "recent"
      BY <1>a, <1>d, IdleTurn DEF TurnStart
    <2>2. CASE cycle.epoch = NoCycle
      BY <1>a, <2>1, <2>2, BudgetAssumption DEF Passed
    <2>3. CASE cycle.epoch # NoCycle
      BY <1>a, <2>1, <2>3 DEF CycleEpoch, ScanInv, ScanCoverage, Passed
    <2> QED
      BY <2>2, <2>3
  <1>e. CASE ScanRecent \/ ScanOlder \/ ScanElapsed
    <2>1. /\ cycle' = cycle /\ open' = open /\ n' = n /\ epoch' = epoch
          /\ ingress' = ingress
      BY <1>e DEF ScanRecent, ScanOlder, ScanElapsed
    <2>2. Passed(cycle.cursor) /\ Passed(cycle.cursor)'
      BY <2>1 DEF ScanInv, ScanCoverage, Passed
    <2>3. CASE ScanRecent
      <3>1. CASE n < RecentCandidates
        <4>0. \A s \in open : s > n - RecentCandidates
          BY <1>a, <3>1, BudgetAssumption
        <4>1. {s \in open : s > n - RecentCandidates} = open
          BY <4>0, Zenon
        <4>2. turn'.at = "decide" /\ turn'.found = open /\ turn'.next = Top
          BY <1>a, <2>3, <3>1, <4>1 DEF ScanRecent, ScanTurn
        <4> QED
          BY <2>1, <2>2, <4>2
      <3>2. CASE ~(n < RecentCandidates)
        <4> DEFINE seen == {s \in open : s > n - RecentCandidates}
        <4>0. turn' = [turn EXCEPT !.at = "older", !.found = seen, !.next = Top,
                           !.complete = FALSE, !.pages = 0, !.cursor = OlderStart]
          BY <2>3, <3>2 DEF ScanRecent
        <4> HIDE DEF seen
        <4>1. /\ turn'.at = "older" /\ turn'.cursor = OlderStart
              /\ turn'.found = seen
          BY <1>a, <4>0 DEF ScanTurn
        <4> USE DEF seen
        <4>2. Passed(turn.cursor)'
          BY <1>a, <2>1, <2>2, <4>1, BudgetAssumption DEF Passed, OlderStart, Lower
        <4> QED
          BY <2>1, <2>2, <4>1, <4>2
      <3> QED
        BY <1>a, <3>1, <3>2, BudgetAssumption
    <2>4. CASE ScanOlder
      <3>1. /\ Passed(turn.cursor)
            /\ \A s \in open : s > n - RecentCandidates => s \in turn.found
        BY <2>1, <2>4 DEF ScanInv, ScanCoverage, ScanOlder
      <3> DEFINE page == {s \in 1 .. n : s < turn.cursor /\ s >= turn.cursor - OlderPageSize}
                 short == turn.cursor <= OlderPageSize
                 last == IF short THEN 1 ELSE turn.cursor - OlderPageSize
      <3>2. CASE \/ turn' = [turn EXCEPT !.at = "decide", !.next = turn.cursor]
                 \/ /\ page \cap open # {}
                    /\ turn' = [turn EXCEPT !.at = "decide",
                                    !.found = turn.found \cup (page \cap open),
                                    !.next = turn.cursor]
        <4>1. turn'.at = "decide" /\ turn'.next = turn.cursor
          BY <1>a, <3>2 DEF ScanTurn
        <4>2. turn'.complete /\ turn'.found = {} => turn.complete /\ turn.found = {}
          BY <1>a, <3>2 DEF ScanTurn
        <4>3. turn.at = "older" => ~turn.complete
          BY DEF ScanInv, Bookkeeping
        <4> QED
          BY <2>1, <2>2, <2>4, <3>1, <4>1, <4>2, <4>3 DEF ScanOlder, Passed
      <3>3. CASE /\ page \cap open = {} /\ short
                 /\ turn' = [turn EXCEPT !.at = "decide", !.complete = TRUE]
        <4>1. turn'.at = "decide" /\ turn'.found = turn.found /\ turn'.next = turn.next
          BY <1>a, <3>3 DEF ScanTurn
        <4>2. turn.next = Top
          BY <2>4 DEF ScanInv, Bookkeeping, ScanOlder
        <4>3. \A s \in open : s >= turn.cursor
          BY <1>a, <3>3, BudgetAssumption
        <4>4. \A s \in open : s \in turn.found
          <5> TAKE s \in open
          <5>1. s \in Int /\ turn.cursor \in Int
            BY <1>a DEF ScanTurn
          <5>2. s >= turn.cursor
            BY <4>3
          <5>3. s < turn.cursor \/ s > n - RecentCandidates
            BY <3>1 DEF Passed
          <5>4. s > n - RecentCandidates
            BY <5>1, <5>2, <5>3
          <5> QED
            BY <3>1, <5>4
        <4> QED
          BY <2>1, <2>2, <4>1, <4>2, <4>4
      <3>4. CASE /\ page \cap open = {} /\ ~short
                 /\ turn' = [turn EXCEPT !.pages = turn.pages + 1, !.cursor = last]
        <4>1. /\ turn'.at = turn.at /\ turn'.found = turn.found
              /\ turn'.cursor = turn.cursor - OlderPageSize
          BY <1>a, <3>4 DEF ScanTurn
        <4>2. Passed(turn.cursor)'
          BY <1>a, <2>1, <3>1, <3>4, <4>1, BudgetAssumption DEF Passed
        <4> QED
          BY <2>1, <2>2, <2>4, <3>1, <4>1, <4>2 DEF ScanOlder
      <3>5. \/ turn' = [turn EXCEPT !.at = "decide", !.next = turn.cursor]
            \/ /\ page \cap open # {}
               /\ turn' = [turn EXCEPT !.at = "decide",
                               !.found = turn.found \cup (page \cap open),
                               !.next = turn.cursor]
            \/ /\ page \cap open = {} /\ short
               /\ turn' = [turn EXCEPT !.at = "decide", !.complete = TRUE]
            \/ /\ page \cap open = {} /\ ~short
               /\ turn' = [turn EXCEPT !.pages = turn.pages + 1, !.cursor = last]
        BY <2>4, Zenon DEF ScanOlder, ActionableCursor
      <3> HIDE DEF page, short, last, Covers
      <3> QED
        BY <3>2, <3>3, <3>4, <3>5
    <2>5. CASE ScanElapsed
      <3>1. turn'.at = "decide" /\ turn'.next = turn.cursor /\ turn'.complete = turn.complete
        BY <1>a, <2>5 DEF ScanElapsed, ScanTurn
      <3>2. Passed(turn.cursor) /\ ~turn.complete
        BY <2>1, <2>5 DEF ScanInv, ScanCoverage, Bookkeeping, ScanElapsed
      <3> QED
        BY <2>1, <2>2, <3>1, <3>2 DEF Passed
    <2> QED
      BY <1>e, <2>3, <2>4, <2>5
  <1>f. CASE Decide
    <2>1. open' = open /\ n' = n /\ epoch' = epoch /\ ingress' = ingress
      BY <1>f DEF Decide
    <2>2. CASE cycle' = [cycle EXCEPT !.cursor = IF turn.next = Top THEN @ ELSE turn.next]
      <3>1. /\ cycle'.epoch = cycle.epoch
            /\ cycle'.cursor = IF turn.next = Top THEN cycle.cursor ELSE turn.next
        BY <1>a, <2>2
      <3>2. Passed(cycle.cursor)'
        BY <1>f, <2>1, <3>1 DEF ScanInv, ScanCoverage, Passed, Decide
      <3>3. turn'.at \notin {"older", "decide"}
        BY <1>a, <1>f, <2>2, IdleTurn DEF Decide, ScanTurn
      <3> QED
        BY <3>2, <3>3
    <2>3. CASE cycle' = [epoch |-> NoCycle, cursor |-> Top]
      BY <1>a, <2>1, <2>3
    <2>4. CASE cycle' = [epoch |-> epoch, cursor |-> Top]
      <3>1. Passed(cycle.cursor)'
        BY <1>a, <2>1, <2>4, BudgetAssumption DEF Passed
      <3>2. turn'.at \notin {"older", "decide"}
        BY <1>a, <1>f, IdleTurn DEF Decide, ScanTurn
      <3> QED
        BY <3>1, <3>2
    <2> QED
      BY <1>f, <2>2, <2>3, <2>4 DEF Decide
  <1>g. CASE Work \/ Background \/ ScanFails
    <2>1. /\ cycle' = cycle /\ open' \subseteq open /\ n' = n /\ epoch' = epoch
          /\ ingress' = ingress
      BY <1>g DEF Work, Background, ScanFails
    <2>2. turn'.at \in {"idle", "recent"}
      BY <1>g, IdleTurn DEF Work, Background, ScanFails
    <2> QED
      BY <2>1, <2>2 DEF ScanInv, ScanCoverage, Passed
  <1>h. CASE UNCHANGED scanVars
    BY <1>h DEF scanVars, ScanInv, ScanCoverage, Passed
  <1> QED
    BY <1>b, <1>c, <1>d, <1>e, <1>f, <1>g, <1>h DEF ScanNext, ScanTurnStep

\* Only Decide publishes a proof, and only with everything closed.
LEMMA ScanSound ==
    ASSUME ScanInv, [ScanNext]_scanVars
    PROVE  CleanProofSound'
  <1> USE BudgetAssumption DEF ScanInv, ScanTypeOK, Bookkeeping, CleanProofSound,
          ScanTurn, Epoch, Seqs, Top, Unproved, NoCycle
  <1>1. CASE IngressSubmit
    BY <1>1 DEF IngressSubmit
  <1>2. CASE IngressPreempt
    BY <1>2 DEF IngressPreempt, PreemptedClean
  <1>3. CASE Invalidate
    BY <1>3 DEF Invalidate
  <1>4. CASE CloseElsewhere
    BY <1>4 DEF CloseElsewhere
  <1>5. CASE Decide
    BY <1>5 DEF Decide, ProofCurrent, ScanCoverage
  <1>6. CASE Work
    BY <1>6 DEF Work
  <1>7. CASE TurnStart \/ ScanRecent \/ ScanOlder \/ ScanElapsed \/ Background
               \/ ScanFails \/ UNCHANGED scanVars
    BY <1>7 DEF TurnStart, ScanRecent, ScanOlder, ScanElapsed, Background, ScanFails, scanVars
  <1> QED
    BY <1>1, <1>2, <1>3, <1>4, <1>5, <1>6, <1>7 DEF ScanNext, ScanTurnStep

\* The variables keep their types, and no epoch is ever spent twice.
THEOREM ScanTypeCorrect == ScanSpec => []ScanTypeOK
  <1>1. ScanTypeOK /\ Bookkeeping /\ [ScanNext]_scanVars => (ScanTypeOK /\ Bookkeeping)'
    BY ScanTypes
  <1>2. ScanInit => ScanTypeOK /\ Bookkeeping
    BY ScanBegins DEF ScanInv
  <1> QED
    BY <1>1, <1>2, PTL DEF ScanSpec

\* The scan's clean proof is sound whatever the sizes of its windows, pages and
\* budgets, the number of messages and the moments they arrive at.
THEOREM CleanProofAlwaysSound == ScanSpec => []CleanProofSound
  <1>1. ScanInv /\ [ScanNext]_scanVars => ScanInv'
    BY ScanTypes, ScanCovers, ScanSound DEF ScanInv
  <1>2. ScanInv => CleanProofSound
    BY DEF ScanInv
  <1> QED
    BY ScanBegins, <1>1, <1>2, PTL DEF ScanSpec

\* What a cycle of the current epoch has passed stays closed.
THEOREM ScanAlwaysCovers == ScanSpec => []ScanCoverage
  <1>1. ScanInv /\ [ScanNext]_scanVars => ScanInv'
    BY ScanTypes, ScanCovers, ScanSound DEF ScanInv
  <1>2. ScanInv => ScanCoverage
    BY DEF ScanInv
  <1> QED
    BY ScanBegins, <1>1, <1>2, PTL DEF ScanSpec
=============================================================================
