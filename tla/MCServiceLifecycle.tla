------------------------- MODULE MCServiceLifecycle -------------------------
(* Generations, handlers and addresses are interchangeable.                *)
EXTENDS ServiceLifecycle, TLC

Symmetry == Permutations(Gens) \cup Permutations(Listens) \cup Permutations(Addrs)
=============================================================================
