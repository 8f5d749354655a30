------------------------------ MODULE MCInput ------------------------------
(* One key of each class that the handlers tell apart.                     *)
EXTENDS Input

OneChar == {"a"}
OneOther == {"shift"}
=============================================================================
