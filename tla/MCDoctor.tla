------------------------------ MODULE MCDoctor ------------------------------
(* Instances of Doctor for TLC, which include those of Bootstrap. *)
EXTENDS Doctor
=============================================================================
