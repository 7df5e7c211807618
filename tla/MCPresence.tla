----------------------------- MODULE MCPresence -----------------------------
(* A media changer, a drive, and a second process for that drive. *)
EXTENDS PresenceProps, TLC
CONSTANTS c, t, u
Processes == {c, t, u}
MinorNumbers == {10, 11}
Numbers == (c :> 10) @@ (t :> 11) @@ (u :> 11)
Changers == {10}
=============================================================================
