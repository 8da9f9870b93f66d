-------------------------- MODULE MCConnectionPool --------------------------
(* ConnectionPool with few connections and tunnels.  All tunnels go to the   *)
(* same target: that is when affinity and sharing interfere most.            *)
EXTENDS ConnectionPool, TLC

CONSTANT OneTarget

MCTargets == {OneTarget}
MCTargetOf == [t \in Tunnels |-> OneTarget]
Symmetric == Permutations(Conns) \union Permutations(Tunnels)
=============================================================================
