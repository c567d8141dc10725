----------------------------- MODULE MCSessions -----------------------------
(* Instances of Sessions for TLC. *)
EXTENDS Sessions, TLC

MCRoleOf == [u \in Users |-> IF u = "ada" THEN "admin" ELSE "member"]

Interchangeable == Permutations(Requests)
=============================================================================
