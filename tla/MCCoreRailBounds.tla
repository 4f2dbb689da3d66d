------------------------- MODULE MCCoreRailBounds -------------------------
(***************************************************************************)
(* Three bounds of the core rail engine in one run: Long lets every address *)
(* grow, Wide has more faults, and Deep lets the backlog of one address     *)
(* outgrow the pages of a scan.                                             *)
(***************************************************************************)
EXTENDS MCCoreRailEngine

VARIABLE bound

Long == INSTANCE CoreRailEngine WITH MaxChain <- 3, MaxFaults <- 1
Wide == INSTANCE CoreRailEngine WITH MaxChain <- 2
Deep == INSTANCE CoreRailEngine WITH MaxFaults <- 0

BoundInit == bound \in {"long", "wide", "deep"} /\ Init

BoundNext ==
    \/ bound = "long" /\ Long!Next /\ UNCHANGED bound
    \/ bound = "wide" /\ Wide!Next /\ UNCHANGED bound
    \/ bound = "deep" /\ Deep!Next /\ UNCHANGED <<bound, chain[a1]>>

\* Fairness as in the module; it asks for no step that a bound forbids.
BoundSpec == BoundInit /\ [][BoundNext]_<<vars, bound>> /\ Fairness
=============================================================================
