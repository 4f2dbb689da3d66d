------------------------- MODULE MCDeadLetterReplay -------------------------
(* Small instances of the dead-letter replay for TLC.                       *)
EXTENDS DeadLetterReplay, TLC

Symmetric == Permutations(Command)
=============================================================================
