----------------------------- MODULE MCPathfind -----------------------------
(* Searches on track B, the layout the server and the trees use, from and   *)
(* to nodes of every type, with nothing reserved and with sections of        *)
(* another train in the way.                                                 *)
EXTENDS Pathfind

CONSTANTS Starts, Goals

\* C14 and D15 reserved by train 24, E8 and what is next to it by train 13.
SomeHeld == {{}, {[node |-> 45, id |-> 24], [node |-> 62, id |-> 24], [node |-> 71, id |-> 13]}}

MCQueries ==
  [start : Starts, goal : Goals, id : {13}, held : SomeHeld]
    \cup [start : Starts, goal : {71}, id : {0}, held : SomeHeld]

=============================================================================
