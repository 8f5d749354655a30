---------------------------- MODULE MCRdpSession ----------------------------
(***************************************************************************)
(* Instances of RdpSession small enough for TLC.  The error words stand    *)
(* for the classes ThreadFunc tells apart: 1 ends the session without a    *)
(* message, 5 (another user) and 16 (any other word) are reported.         *)
(***************************************************************************)
EXTENDS RdpSession

OneQuiet  == {1}
OneLoud   == {5}
TwoLoud   == {5, 16}
=============================================================================
