-------------------------- MODULE MCConfiguration --------------------------
(* Configuration with files that set nothing, everything, and something    *)
(* bad before and after what they change.                                  *)
EXTENDS Configuration, TLC

CONSTANTS h1, h2

MCDestinations == {h1, h2}
MCPorts == {3389}

File(order, deny, host, port, nowdrag) ==
    [order |-> order, deny |-> deny, host |-> host, port |-> port, nowdrag |-> nowdrag]

MCFiles == {
    File(Absent, h2, Absent, Absent, Absent),
    File(FALSE, Absent, h1, 3389, FALSE),
    File(FALSE, h1, h2, Bad, TRUE),
    File(Bad, Absent, h1, 3389, Absent) }

Symmetry == Permutations(Reloaders)
=============================================================================
