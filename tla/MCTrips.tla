------------------------------- MODULE MCTrips -------------------------------
(* Instances of Trips for TLC.                                             *)
EXTENDS Trips, TLC

DriverSymmetry == Permutations(Drivers)

=============================================================================
