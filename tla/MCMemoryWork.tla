----------------------------- MODULE MCMemoryWork -----------------------------
(* MemoryWork on small bounds.                                             *)
EXTENDS MemoryWork
=============================================================================
