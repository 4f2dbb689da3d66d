---------------------------- MODULE MCArcadeEngine ----------------------------
EXTENDS ArcadeEngine
==============================================================================
