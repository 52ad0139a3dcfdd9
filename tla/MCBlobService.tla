---------------------------- MODULE MCBlobService ----------------------------
EXTENDS BlobService, TLC

\* One blob is longer than the others.
CONSTANT long
MCSize == [i \in Ids |-> IF i = long THEN 2 ELSE 1]

Symmetry == Permutations(Threads) \union Permutations(Workers)
=============================================================================
