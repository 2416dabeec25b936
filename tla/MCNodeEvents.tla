---------------------------- MODULE MCNodeEvents ----------------------------
(* TLC instance of NodeEvents. *)
EXTENDS NodeEvents, TLC

Symmetry == Permutations(Threads) \union Permutations(Conns)

=============================================================================
