-------------------------- MODULE MCCanonicalWriter --------------------------
(***************************************************************************)
(* Submissions for one resident: an ordinary command r1 and a fence        *)
(* command r2 (resident erasure).  r3 would be a global command.           *)
(***************************************************************************)
EXTENDS CanonicalWriter

CONSTANTS r1, r2, r3, ada

MCScopeOf == [r \in Request |-> IF r = r3 THEN Global ELSE ada]

=============================================================================
