----------------------------- MODULE MCLearning -----------------------------
(* Instances of Learning for TLC. *)
EXTENDS Learning

CONSTANTS d1, d2
=============================================================================
