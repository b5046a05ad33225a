---------------------------- MODULE MCChannelPool ----------------------------
(* Instances of ChannelPool.                                                *)
EXTENDS ChannelPool, TLC

Symmetry == Permutations(Thread) \union Permutations(Endpoint)

\* A state constraint: the list changes only in behaviours in which all servers
\* are up and nothing else goes wrong, which keeps the run small.
OneTrouble ==
  \/ seen["changes"] = 0
  \/ up = Endpoint /\ \A e \in {"flips", "losses", "failures"} : seen[e] = 0
=============================================================================
