\* Two commands, the engine evicting and restarting.
SPECIFICATION Spec
CONSTANTS
    Command = {c1, c2}
    MaxLetters = 2
    MaxAudits = 1
    MaxSelected = 2
    MaxId = 3
    MaxFaults = 2
SYMMETRY Symmetric
INVARIANTS ProtectionLasts MarkersAreTrue
PROPERTY UnforcedOnce
