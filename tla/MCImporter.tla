----------------------------- MODULE MCImporter -----------------------------
(* Generations, connections and addresses are interchangeable.             *)
EXTENDS Importer, TLC

Symmetry == Permutations(Gens) \cup Permutations(Conns) \cup Permutations(Addrs)
=============================================================================
