------------------------- MODULE MCCentralizedPeer -------------------------
(* Small instances of CentralizedPeer. *)
EXTENDS CentralizedPeer

CONSTANTS A, B, F, w1, w2, h1, h2, s1

TwoPeers == {A, B}
OneFile == {F}
OneWorker == {w1}
TwoWorkers == {w1, w2}
OneHandler == {h1}
TwoHandlers == {h1, h2}
OneSocket == {s1}
Nobody == {}

\* A has F.
AHasF == [p \in Peers |-> IF p = A THEN {F} ELSE {}]
Fetch == [do |-> "request", file |-> F]
Name == [do |-> "register", file |-> F]
Look == [do |-> "search", file |-> F]
\* A registers F by name; B looks for it, downloads it and registers its directory.
ListThenFetch == [p \in Peers |-> IF p = A THEN <<Name>> ELSE <<Look, Fetch, Directory>>]
\* Both register their directory, then B asks for F.
AllListAndFetch == [p \in Peers |-> IF p = A THEN <<Directory>> ELSE <<Directory, Fetch>>]
=============================================================================
