------------------------------ MODULE MCBatchAuth ------------------------------
EXTENDS BatchAuth, TLC

MCDerived == [p \in Prs |-> CHOOSE k \in Keys : TRUE]

Symmetry == Permutations(Sessions) \cup Permutations(Prs)
=============================================================================
