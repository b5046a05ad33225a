------------------------- MODULE MCRoundLoadBalancer -------------------------
(* An instance of RoundLoadBalancer: one service whose list never changes,  *)
(* passed in several orders, and one with lists of several lengths.         *)
EXTENDS RoundLoadBalancer, TLC

CONSTANTS steady, varying

MCLists ==
  (steady :> {<<1, 2, 3>>, <<3, 1, 2>>})
    @@ (varying :> {<<1>>, <<2, 1>>, <<3, 1, 2>>, <<2, 1, 2>>})

Symmetry == Permutations(Thread)
=============================================================================
