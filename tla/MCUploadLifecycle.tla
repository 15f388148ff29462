------------------------- MODULE MCUploadLifecycle -------------------------
(***************************************************************************)
(* Instances of UploadLifecycle for TLC: a root with one folder below it,  *)
(* so that a file can be inside or outside the folder that is deleted.     *)
(***************************************************************************)
EXTENDS UploadLifecycle, TLC

CONSTANT Sub

MCAnc == (Root :> {Root}) @@ (Sub :> {Root, Sub})

=============================================================================
