----------------------------- MODULE MCAuthStore -----------------------------
(* Instances of AuthStore for TLC. *)
EXTENDS AuthStore
=============================================================================
