------------------------------ MODULE MCTunnel ------------------------------
(* How many messages each side sends.                                      *)
EXTENDS Tunnel

OneWay == [down |-> 2, up |-> 0]
Greeting == [down |-> 0, up |-> 1]
Answer == [down |-> 1, up |-> 1]
=============================================================================
