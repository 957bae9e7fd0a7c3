---------------------------- MODULE MCDialogueScan ----------------------------
(* Model-checking instance of DialogueScan: all values are in the cfg.     *)
EXTENDS DialogueScan
=============================================================================
