----------------------------- MODULE MCIdentityDb ---------------------------
(* Documents of one and two cells are accepted, three cells are too long.   *)
(* The order of the uids plays no role.                                     *)
EXTENDS IdentityDb

Symmetry == Permutations(Uid)
=============================================================================
