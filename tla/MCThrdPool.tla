----------------------------- MODULE MCThrdPool -----------------------------
EXTENDS ThrdPool, TLC

Symmetry == Permutations(Workers) \cup Permutations(Tasks)
=============================================================================
