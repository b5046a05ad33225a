---------------------------- MODULE MCChannelLeaks ---------------------------
(* Instances of ChannelLeaks.                                               *)
EXTENDS ChannelLeaks, TLC

Symmetry == Permutations(Thread) \union Permutations(Endpoint)
=============================================================================
