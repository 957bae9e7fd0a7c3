------------------------ MODULE MCDialogueObligations ------------------------
(* Model-checking instances of DialogueObligations.                        *)
EXTENDS DialogueObligations, TLC

CONSTANTS r1, r2, e1, e2

OneResident == (e1 :> r1) @@ (e2 :> r1)

=============================================================================
