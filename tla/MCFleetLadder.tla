---------------------------- MODULE MCFleetLadder ----------------------------
(* FleetLadder on a small fleet.                                           *)
EXTENDS FleetLadder
=============================================================================
