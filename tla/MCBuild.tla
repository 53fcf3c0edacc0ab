------------------------------ MODULE MCBuild -------------------------------
EXTENDS Build, TLC

Symmetric == Permutations(Names) \cup Permutations(Contents)
=============================================================================
