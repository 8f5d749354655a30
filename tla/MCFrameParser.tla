--------------------------- MODULE MCFrameParser ---------------------------
(* FrameParser for TLC: the limits are scaled down in their cfg, in order. *)
EXTENDS FrameParser
=============================================================================
