---------------------------- MODULE MCArcadeBounds ----------------------------
(***************************************************************************)
(* Two bounds of the arcade in one run: two tabs and sockets with one move,  *)
(* and one tab with one socket and enough moves to be raised to the levels   *)
(* whose world advances, to play there and to hold a charge.                 *)
(***************************************************************************)
EXTENDS ArcadeEngine

CONSTANTS t1, s1
VARIABLE bound

Both == INSTANCE ArcadeEngine WITH MaxMoves <- 1, Level <- Level \ {10}

BoundInit == bound \in {"both", "alone"} /\ Init

BoundNext ==
    \/ bound = "both" /\ Both!Next /\ UNCHANGED bound
    \/ /\ bound = "alone" /\ Next /\ UNCHANGED bound
       /\ \A t \in Tab \ {t1} : UNCHANGED tab[t]
       /\ \A s \in Socket \ {s1} : UNCHANGED ready[s]

\* Fairness as in the module; it asks for no step that a bound forbids.
BoundSpec == BoundInit /\ [][BoundNext]_<<vars, bound>> /\ Fairness
==============================================================================
