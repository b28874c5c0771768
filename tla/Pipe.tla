-------------------------------- MODULE Pipe --------------------------------
(***************************************************************************)
(* What a tunnel promises: in each direction, what is received is what was *)
(* sent, in order, without gaps, from the first byte on.                   *)
(***************************************************************************)
EXTENDS Naturals, Sequences

CONSTANT Dirs \* directions

VARIABLES
    sent, \* what was sent in each direction
    got   \* what was received

Init == sent = [d \in Dirs |-> <<>>] /\ got = [d \in Dirs |-> <<>>]

Send(d) ==
    /\ \E m \in {Len(sent[d]) + 1} : sent' = [sent EXCEPT ![d] = Append(@, m)]
    /\ UNCHANGED got

Receive(d) ==
    /\ Len(got[d]) < Len(sent[d])
    /\ got' = [got EXCEPT ![d] = Append(@, sent[d][Len(@) + 1])]
    /\ UNCHANGED sent

Next == \E d \in Dirs : Send(d) \/ Receive(d)

Spec == Init /\ [][Next]_<<sent, got>>
=============================================================================
