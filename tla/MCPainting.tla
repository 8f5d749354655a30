----------------------------- MODULE MCPainting -----------------------------
(* Painting on a canvas of a few cells, wider than high.                   *)
EXTENDS Painting
=============================================================================
