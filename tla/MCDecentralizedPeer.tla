------------------------ MODULE MCDecentralizedPeer ------------------------
(* Small instances of DecentralizedPeer. *)
EXTENDS DecentralizedPeer

CONSTANTS A, B, C, F, h1

ThreePeers == {A, B, C}
OneFile == {F}
OneHandler == {h1}
AandB == {A, B}

Triangle == [p \in Peers |-> Peers \ {p}]
\* B and C have F.
BandCHaveF == [p \in Peers |-> IF p = A THEN {} ELSE {F}]
Fetch == [do |-> "request", file |-> F]
Look == [do |-> "search", file |-> F]
\* A downloads F twice, B looks for its own and downloads it.
TwiceAndOwn == [p \in Peers |-> IF p = A THEN <<Fetch, Fetch>> ELSE IF p = B THEN <<Look, Fetch>> ELSE <<>>]
=============================================================================
