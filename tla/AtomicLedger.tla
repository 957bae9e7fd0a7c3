----------------------------- MODULE AtomicLedger -----------------------------
(***************************************************************************)
(* What the Canonical Writer promises its callers: an append-only list of  *)
(* commits with dense cursors and increasing ledger times, and replies     *)
(* that tell the truth about it.                                           *)
(***************************************************************************)
EXTENDS Naturals, Sequences

CONSTANTS Request, MaxInstant

VARIABLES log, reply

Committed == {log[i].req : i \in DOMAIN log}

Init ==
    /\ log = <<>>
    /\ reply = [r \in Request |-> "pending"]

\* One request becomes one row.  A request whose caller was told "rejected"
\* never does; one whose caller lost track of it still may.
Append1(r) ==
    /\ r \notin Committed
    /\ reply[r] \in {"pending", "unknown"}
    /\ \E at \in 0 .. MaxInstant :
        /\ log # <<>> => at > log[Len(log)].at
        /\ log' = Append(log, [seq |-> Len(log) + 1, at |-> at, req |-> r])
    /\ UNCHANGED reply

\* "committed" is said only of a row, "rejected" only when there is none.
Tell(r) ==
    /\ reply[r] = "pending"
    /\ \E a \in {"committed", "rejected", "unknown"} :
        /\ a = "committed" => r \in Committed
        /\ a = "rejected" => r \notin Committed
        /\ reply' = [reply EXCEPT ![r] = a]
    /\ UNCHANGED log

\* A crash loses track of several callers at once.
Lose ==
    /\ \E S \in SUBSET {r \in Request : reply[r] = "pending"} :
        reply' = [r \in Request |-> IF r \in S THEN "unknown" ELSE reply[r]]
    /\ UNCHANGED log

Next ==
    \/ \E r \in Request : Append1(r) \/ Tell(r)
    \/ Lose

Spec == Init /\ [][Next]_<<log, reply>>

=============================================================================
