---------------------------- MODULE MCRendezvous ----------------------------
(* Rendezvous on small instances: the symmetry of its interchangeable calls. *)
EXTENDS Rendezvous, TLC

Symmetry ==
    Permutations(Conns) \cup Permutations(Listens) \cup Permutations(Accepts)
        \cup Permutations(Tokens) \cup Permutations(Objs)
=============================================================================
