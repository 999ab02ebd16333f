------------------------------ MODULE MCCombat ------------------------------
EXTENDS Combat
=============================================================================
