-------------------------------- MODULE MCHub --------------------------------
(* Small instances of Hub for TLC.                                         *)
EXTENDS Hub, TLC

CONSTANTS c1, c2, c3, b1, b2

OneClient == {c1}
TwoClients == {c1, c2}
ThreeClients == {c1, c2, c3}
TwoBroadcasters == {b1, b2}
OneBroadcaster == {b1}

(* Attempts and broadcasting goroutines are interchangeable.               *)
Symmetry == Permutations(Clients) \cup Permutations(Broadcasters)
=============================================================================
