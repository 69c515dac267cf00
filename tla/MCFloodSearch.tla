--------------------------- MODULE MCFloodSearch ---------------------------
(* Instances of FloodSearch for TLC: overlays, and who searches for what.   *)
EXTENDS FloodSearch, TLC

CONSTANTS a, b, c, s1, s2, f

\* Every pair is linked.
Clique == [n \in Peers |-> Peers \ {n}]

OneFile == {f}
AllWantF == [s \in Searches |-> f]
FromA == [s \in Searches |-> a]
FromAB == (s1 :> a) @@ (s2 :> b)

\* Two bits of peer and two of counter; the counter of a is about to wrap.
Base == (a :> 4) @@ (b :> 8) @@ (c :> 12)
AnyCount == (a :> 15) @@ (b :> 0) @@ (c :> 2)
=============================================================================
