--------------------------- MODULE MCReservations ---------------------------
(* A stem with a loop at one end, on which a train comes back in the other   *)
(* direction, and an exit at the other: every kind of node, two ways at the  *)
(* switch, ways back from a deadlock, and a place where a train must turn.   *)
EXTENDS Reservations

\* 0 S, 2 A, 4 B, 10 D; 6 W, facing; 8 X.
\* S > W, W > A or B', A > D > B > W', S' > X.
SmallTrack ==
  <<Sensor(1, E(6, 100, 7, 0)), Sensor(0, E(8, 100, 9, 0)),
    Sensor(3, E(10, 100, 11, 0)), Sensor(2, E(7, 100, 6, 0)),
    Sensor(5, E(7, 100, 6, 1)), Sensor(4, E(11, 100, 10, 0)),
    Branch(1, 7, E(2, 100, 3, 0), E(5, 100, 4, 0)), Merge(1, 6, E(1, 100, 0, 0)),
    Exit(9), Enter(8, E(0, 100, 1, 0)),
    Sensor(11, E(4, 100, 5, 0)), Sensor(10, E(3, 100, 2, 0))>>

\* What is assumed of the small track holds on the real ones.
ASSUME RealTracks ==
  \A t \in {TrackA, TrackB} : SoundTrack(t, [n \in Nodes(t) |-> Section(t, n)])

SmallStart == [t \in Train |-> IF t = 13 THEN <<9>> ELSE <<2>>]
=============================================================================
