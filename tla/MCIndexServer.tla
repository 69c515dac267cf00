--------------------------- MODULE MCIndexServer ---------------------------
(* Small instances of IndexServer. *)
EXTENDS IndexServer

CONSTANTS A, B, C, F, w1, w2, s1, s2

ThreePeers == {A, B, C}
OneFile == {F}
TwoWorkers == {w1, w2}
TwoSockets == {s1, s2}
OnlyC == {C}
=============================================================================
