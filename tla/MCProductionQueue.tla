-------------------------- MODULE MCProductionQueue --------------------------
(* Instances of ProductionQueue for TLC.  Two stills are interchangeable; a  *)
(* still and a reel are not.                                                 *)
EXTENDS ProductionQueue, TLC

CONSTANTS s1, s2, r1

StillSymmetry == Permutations({s1, s2})
=============================================================================
