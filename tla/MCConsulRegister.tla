--------------------------- MODULE MCConsulRegister ---------------------------
(* Instances of ConsulRegister.  Symmetry is used for safety only.          *)
EXTENDS ConsulRegister, TLC

Symmetry == Permutations(Timer) \union Permutations(Beat)
=============================================================================
