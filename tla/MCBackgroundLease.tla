-------------------------- MODULE MCBackgroundLease --------------------------
(* Two residents with ids 1 and 2.                                         *)
EXTENDS BackgroundLease

=============================================================================
