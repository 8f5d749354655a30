-------------------------- MODULE SessionContract --------------------------
(***************************************************************************)
(* What a browser may rely on when it looks at one RDP session through its *)
(* WebSocket: a connection that was asked for either fails and may be      *)
(* asked for again, or starts a session; from then on the session is       *)
(* started until it ends (that it may be connected anew for a stranger is  *)
(* no step here); it ends once, and nothing starts behind its end; the     *)
(* socket can go away at any time.                                         *)
(***************************************************************************)
VARIABLE phase

Phases == {"waiting", "connecting", "started", "over", "gone"}

Init == phase = "waiting"

Move(from, to) == phase = from /\ phase' = to

Attempt == Move("waiting", "connecting")
Fail    == Move("connecting", "waiting")
Succeed == Move("connecting", "started")
End     == Move("started", "over")
Leave   == phase # "gone" /\ phase' = "gone"

Next == Attempt \/ Fail \/ Succeed \/ End \/ Leave

SafeSpec == Init /\ [][Next]_phase

\* An attempt is always answered.
Spec == SafeSpec /\ WF_phase(Fail \/ Succeed)
=============================================================================
