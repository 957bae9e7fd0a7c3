----------------------------- MODULE WriteGate -----------------------------
(***************************************************************************)
(* The write-priority gate in front of SQLite's single writer connection.  *)
(* Canonical and operational transactions enter with acquireHigh, those of *)
(* the projections with acquireProjection.  A caller that cannot enter     *)
(* keeps the channel `changed' it saw under the mutex and sleeps on it;    *)
(* closing that channel wakes everyone who sleeps, and each of them looks  *)
(* at the gate again under the mutex.                                      *)
(***************************************************************************)
EXTENDS Naturals, FiniteSets

CONSTANTS High,  \* callers of acquireHigh
          Low    \* callers of acquireProjection

ASSUME CallersDistinct == High \cap Low = {}
ASSUME HighFinite == IsFiniteSet(High)

VARIABLES active,       \* gate.active: a write transaction is running
          highWaiting,  \* gate.highWaiting
          at            \* where each caller is

gateVars == <<active, highWaiting, at>>

Caller == High \cup Low
Places == {"out", "waiting", "woken", "in"}

GateTypeOK ==
    /\ active \in BOOLEAN
    /\ highWaiting \in Nat
    /\ at \in [Caller -> Places]

GateInit ==
    /\ active = FALSE
    /\ highWaiting = 0
    /\ at = [p \in Caller |-> "out"]

\* close(gate.changed): whoever sleeps on the old channel wakes up.
signalLocked(place) ==
    [p \in Caller |-> IF place[p] = "waiting" THEN "woken" ELSE place[p]]

\* The loop conditions of acquireHigh and of acquireProjection.
Held(p, waiting) == active \/ (p \in Low /\ waiting > 0)

\* gate.highWaiting++ happens before the loop, so even a caller that need not
\* wait is counted for the length of one critical section.
Enter(p) ==
    /\ at[p] = "out"
    /\ IF Held(p, highWaiting)
       THEN /\ at' = [at EXCEPT ![p] = "waiting"]
            /\ highWaiting' = IF p \in High THEN highWaiting + 1 ELSE highWaiting
            /\ UNCHANGED active
       ELSE /\ at' = [at EXCEPT ![p] = "in"]
            /\ active' = TRUE
            /\ UNCHANGED highWaiting

\* A woken caller evaluates the loop condition again.
Recheck(p) ==
    /\ at[p] = "woken"
    /\ IF Held(p, highWaiting)
       THEN /\ at' = [at EXCEPT ![p] = "waiting"]
            /\ UNCHANGED <<active, highWaiting>>
       ELSE /\ at' = [at EXCEPT ![p] = "in"]
            /\ active' = TRUE
            /\ highWaiting' = IF p \in High THEN highWaiting - 1 ELSE highWaiting

\* A slip: the waiter leaves, and nobody is told.
AfterCancelSilent(p, place) == place

\* What a cancelled waiter leaves behind: a high one was the reason why the
\* projections sleep, so it wakes them.
AfterCancel(p, place) == IF p \in High THEN signalLocked(place) ELSE place

\* ctx.Done() is chosen in the select, also when the channel is closed.
Cancel(p) ==
    /\ at[p] \in {"waiting", "woken"}
    /\ at' = AfterCancel(p, [at EXCEPT ![p] = "out"])
    /\ highWaiting' = IF p \in High THEN highWaiting - 1 ELSE highWaiting
    /\ UNCHANGED active

releaseFunc(p) ==
    /\ at[p] = "in"
    /\ active' = FALSE
    /\ at' = signalLocked([at EXCEPT ![p] = "out"])
    /\ UNCHANGED highWaiting

GateNext ==
    \E p \in Caller : Enter(p) \/ Recheck(p) \/ Cancel(p) \/ releaseFunc(p)

GateSpec == GateInit /\ [][GateNext]_gateVars

Waiting == {p \in High : at[p] \in {"waiting", "woken"}}

\* The gate admits one transaction at a time, `active' tells whether there is
\* one, and highWaiting counts exactly the high callers that have not entered:
\* if it stayed above that number no projection would ever be written again.
GateSound ==
    /\ \A p, q \in Caller : at[p] = "in" /\ at[q] = "in" => p = q
    /\ active <=> \E p \in Caller : at[p] = "in"
    /\ highWaiting = Cardinality(Waiting)

============================================================================
