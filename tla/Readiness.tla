------------------------------ MODULE Readiness ----------------------------
(***************************************************************************)
(* Whether a data directory may serve: the facts one read snapshot takes   *)
(* of it, and the ordered contract that start-up, health, restore and the  *)
(* administration commands apply to them.                                  *)
(*                                                                         *)
(* The service facts of a directory are a record                           *)
(*   resident    "none" or the status of the selected resident             *)
(*   policy      the version of its active memory policy                   *)
(*   configured  the session policy of runtime_config, or "none"           *)
(*   saved       the policies the saved activity_sessions watermark names  *)
(*   predicates  the integrity predicates that hold now                    *)
(***************************************************************************)
EXTENDS Integers, Sequences, FiniteSets

NoService == [resident |-> "none", policy |-> "none", configured |-> "none", saved |-> {},
              predicates |-> {}]

captureReadinessSelection(s) == s.resident # "none"

captureReadinessResidentStatus(s) == s.resident

\* A resident whose policy is the initial or the current one may be served;
\* the historical enabled ones only finish frozen work.
captureReadinessMemoryPolicyServiceCurrent(s) == s.policy \in {"v1", "v4", "v5"}

\* A version that is unknown, or whose stored definition is not the canonical
\* one of this program, resolves to nothing.
loadValidReadinessSessionPolicy(id) == {id} \ {"invalid", "none"}

\* The configured policy alone when there is one, otherwise the only valid one
\* the saved sessions depend on: never a newest or a default.
resolveReadinessSessionPolicy(s) ==
    LET candidates ==
          IF s.configured # "none" THEN loadValidReadinessSessionPolicy(s.configured)
          ELSE UNION {loadValidReadinessSessionPolicy(id) : id \in s.saved} IN
    IF Cardinality(candidates) = 1 THEN CHOOSE id \in candidates : TRUE ELSE "none"

BlockingRules == {"revision_erased", "running_input_erased", "envelope_unresolvable"}

captureReadinessPredicates(s) == s.predicates \cap BlockingRules

\* One read transaction; an unselected directory has no resident facts.
CaptureServiceReadiness(s, head) ==
    LET selected == captureReadinessSelection(s) IN
    [head |-> head, selected |-> selected,
     status |-> captureReadinessResidentStatus(s),
     policy |-> selected /\ captureReadinessMemoryPolicyServiceCurrent(s),
     session |-> IF selected THEN resolveReadinessSessionPolicy(s) ELSE "none",
     blocked |-> captureReadinessPredicates(s) # {}]

\* The selected resident is active, with a current policy and one session policy.
ProjectionApplicable(snapshot) ==
    snapshot.status = "active" /\ snapshot.policy /\ snapshot.session # "none"

\* A projection proof is bound to a head and a session policy; one that was
\* made for others is an error, never a reason.
Bound(proof, snapshot) ==
    ProjectionApplicable(snapshot) =>
        proof.head = snapshot.head /\ proof.session = snapshot.session

\* The ordered contract, as the set of its reasons; none of them means ready.
EvaluateServiceReadiness(snapshot, started, current, stopping) ==
    (IF started THEN {} ELSE {"startup_incomplete"})
    \cup (IF snapshot.selected THEN {} ELSE {"resident_unselected"})
    \cup (IF snapshot.selected /\ snapshot.status # "active"
          THEN {"resident_not_active"} ELSE {})
    \cup (IF snapshot.status = "active" /\ ~snapshot.policy THEN {"memory_policy"} ELSE {})
    \cup (IF snapshot.selected /\ snapshot.session = "none"
          THEN {"session_unresolved"} ELSE {})
    \cup (IF snapshot.blocked THEN {"integrity_blocked"} ELSE {})
    \cup (IF ProjectionApplicable(snapshot) /\ ~current
          THEN {"projection_not_current"} ELSE {})
    \cup (IF stopping THEN {"shutdown"} ELSE {})
============================================================================
