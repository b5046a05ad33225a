------------------------- MODULE MCAtomicDictionary --------------------------
(* An instance of AtomicDictionary: two keys share a hash code, and so a   *)
(* semaphore.                                                              *)
EXTENDS AtomicDictionary, TLC

CONSTANTS k1, k2, h1

MCHashCode == (k1 :> h1) @@ (k2 :> h1)
=============================================================================
