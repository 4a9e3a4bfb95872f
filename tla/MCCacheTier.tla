----------------------------- MODULE MCCacheTier -----------------------------
(* A small instance of CacheTier: prices that differ from every quantity.   *)
EXTENDS CacheTier, TLC

CONSTANTS Pieces    \* of each item at the start

MCStock == [i \in Items |-> Pieces]
MCPrice == [i \in Items |-> 7]

Symmetry == Permutations(Clients) \cup Permutations(Items)
=============================================================================
