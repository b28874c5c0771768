----------------------------- MODULE MCCluster ------------------------------
(* Cluster on small instances.                                             *)
EXTENDS Cluster, TLC

CONSTANTS h1, h2, s1, s2, e1, e2, i1

\* Two streams of one service, or one.
TwoExported == (e1 :> s1) @@ (e2 :> s1)
OneExported == e1 :> s1

\* No importer, one of that service, one of another service.
NoneImported == <<>>
OneImported == i1 :> s1
OtherImported == i1 :> s2
=============================================================================
