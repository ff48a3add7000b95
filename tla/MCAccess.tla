------------------------------ MODULE MCAccess ------------------------------
EXTENDS Access, TLC

(* Addresses, tenants, invitations and requests are interchangeable. *)
Symmetry == Permutations(Users) \cup Permutations(Tenants)
              \cup Permutations(Invitations) \cup Permutations(Requests)
=============================================================================
