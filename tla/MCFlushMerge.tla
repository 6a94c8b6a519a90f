--------------------------- MODULE MCFlushMerge ---------------------------
EXTENDS FlushMerge, TLC

\* Tasks are interchangeable in every action and safety property.
TaskSymmetry == Permutations(Tasks)
=============================================================================
