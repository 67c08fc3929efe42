----------------------------- MODULE MCGenaDevice -----------------------------
(* Small instances of GenaDevice for TLC.                                   *)
EXTENDS GenaDevice, TLC

CONSTANTS s1, s2, b1, b2

Symmetry == Permutations({s1, s2}) \cup Permutations({b1, b2})
LimitsLoweredAndLifted == {UPNP_INFINITE, 1}
===============================================================================
