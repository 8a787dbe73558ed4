---------------------------- MODULE MCResumption ----------------------------
(* Resumption for TLC. *)
EXTENDS Resumption

=============================================================================
