----------------------------- MODULE MCExporter -----------------------------
(* Objects, connections, addresses and the servers other than Home are     *)
(* interchangeable.                                                        *)
EXTENDS Exporter, TLC

Symmetry ==
    Permutations(Objs) \cup Permutations(Conns) \cup Permutations(Addrs)
        \cup Permutations(Servers \ {Home})
=============================================================================
