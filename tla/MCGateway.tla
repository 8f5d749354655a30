----------------------------- MODULE MCGateway -----------------------------
(* Gateway with addresses that are interchangeable.                        *)
EXTENDS Gateway, TLC

Symmetry == Permutations(Conns) \cup Permutations(Sessions)
=============================================================================
