------------------------------ MODULE MCFighter ------------------------------
EXTENDS Fighter
==============================================================================
