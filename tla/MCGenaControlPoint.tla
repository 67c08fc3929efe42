-------------------------- MODULE MCGenaControlPoint --------------------------
(* Small instances of GenaControlPoint for TLC.                             *)
EXTENDS GenaControlPoint, TLC

CONSTANTS a1, a2, n1, n2, e1, e2, e3, s1, s2, x1, x2

AppSymmetry == Permutations({a1, a2})
SidSymmetry == Permutations({s1, s2}) \cup Permutations({x1, x2})
EventSymmetry == Permutations({e1, e2, e3})
Symmetry == AppSymmetry \cup SidSymmetry \cup EventSymmetry
===============================================================================
