----------------------------- MODULE MCFraming -----------------------------
(* Small instances of Framing. *)
EXTENDS Framing

WholePacket == {SendSize}
AnyRead == FileHeader..SendSize
=============================================================================
