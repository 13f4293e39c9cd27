----------------------------- MODULE TrackLocks -----------------------------
(***************************************************************************)
(* What the reservations of the train control server promise: a section of *)
(* the track has one owner or none.  A train takes sections that are free  *)
(* or its own, and only their owner gives them back.                       *)
(***************************************************************************)
CONSTANTS Lock, Train, Nobody

VARIABLE owner

Init == owner = [s \in Lock |-> Nobody]

Take(t, s) ==
  /\ owner[s] \in {Nobody, t}
  /\ owner' = [owner EXCEPT ![s] = t]

Give(t, s) ==
  /\ owner[s] = t
  /\ owner' = [owner EXCEPT ![s] = Nobody]

Next == \E t \in Train, s \in Lock : Take(t, s) \/ Give(t, s)

Spec == Init /\ [][Next]_owner
=============================================================================
