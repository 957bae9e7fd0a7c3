------------------------------ MODULE MCBlobStore ------------------------------
(* Model-checking instances of BlobStore.                                  *)
EXTENDS BlobStore, TLC

CONSTANTS r1, r2, d1, d2

\* Two requests that share a content, one of them with a second content.
Shared == (r1 :> <<d1>>) @@ (r2 :> <<d1, d2>>)
=============================================================================
