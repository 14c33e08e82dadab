---------------------------- MODULE MCDiscovery ----------------------------
(***************************************************************************)
(* Discovery on small instances.                                           *)
(***************************************************************************)
EXTENDS Discovery

CONSTANTS u1, lo, eth, wlan

OneUdn == {u1}
OneIp == {eth}
PlainIps == {eth, wlan}
ThreeIps == {lo, eth, wlan}
JustLo == {lo}
=============================================================================
