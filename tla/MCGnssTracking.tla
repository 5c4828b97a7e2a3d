--------------------------- MODULE MCGnssTracking ---------------------------
(* Option sets and small instances of GnssTracking for TLC. *)
EXTENDS GnssTracking, TLC

ClientSymmetry == Permutations(Clients)

TimeOption(interval, power) ==
    [size |-> 1, interval |-> interval, power |-> power, distance |-> 0, tbm |-> FALSE]
DistanceOption(interval, distance) ==
    [size |-> 1, interval |-> interval, power |-> 2, distance |-> distance, tbm |-> FALSE]

\* 1 is below MinInterval and is raised to it
FastAndSlow == {TimeOption(1, 3), TimeOption(5, 2)}
FastAndFar == {TimeOption(1, 3), DistanceOption(5, 10)}
SlowAndFar == {TimeOption(5, 2), DistanceOption(5, 10)}
FastOrUnset == {TimeOption(1, 3), Unset}
=============================================================================
