----------------------------- MODULE MCUploads ------------------------------
(* Instance of Uploads for TLC. *)
EXTENDS Uploads

CONSTANT r1
=============================================================================
