----------------------------- MODULE MCTaskStatus -----------------------------
EXTENDS TaskStatus, TLC

Symmetry == Permutations(Threads) \union Permutations(Workers)

\* The messages whose payload is no valid Task.
CONSTANT bad
MCMalformed == Ids \intersect {bad}
=============================================================================
