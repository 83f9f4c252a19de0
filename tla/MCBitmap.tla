------------------------------ MODULE MCBitmap ------------------------------
(* Instances of Bitmap for TLC. *)
EXTENDS Bitmap
=============================================================================
