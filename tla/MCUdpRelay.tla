----------------------------- MODULE MCUdpRelay -----------------------------
(***************************************************************************)
(* Four addresses and two sessions: two calls, and a third party for each. *)
(***************************************************************************)
EXTENDS UdpRelay, TLC
CONSTANTS x1, x2, x3, x4, s1, s2
Addrs == {x1, x2, x3, x4}
Sessions == {s1, s2}
=============================================================================
