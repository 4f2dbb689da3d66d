-------------------------- MODULE MCCoreRailEngine --------------------------
(* Model values and on-chain failures for the TLC runs of CoreRailEngine.    *)
EXTENDS CoreRailEngine

CONSTANTS a1, a2, w1, w2

NothingReverted == {}
SecondReverted == {<<a1, 2>>}
=============================================================================
