-------------------------- MODULE MCLibcryptoInit ---------------------------
(* LibcryptoInit for TLC. *)
EXTENDS LibcryptoInit

=============================================================================
