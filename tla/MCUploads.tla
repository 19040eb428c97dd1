------------------------------ MODULE MCUploads ------------------------------
(* Uploads on a small instance.                                             *)
EXTENDS Uploads, TLC

CONSTANTS r1, r2, r3, a, b

Streams == r1 :> a @@ r2 :> b @@ r3 :> b
=============================================================================
