------------------------------- MODULE MCScribe -------------------------------
EXTENDS Scribe, TLC

CONSTANTS j1, j2, l1, l2

\* As the source is, with the route only, and with both mismatches resolved.
MCDeployments ==
    {[transcribers |-> {}, served |-> FALSE],
     [transcribers |-> Loops, served |-> FALSE],
     [transcribers |-> Loops, served |-> TRUE]}

Symmetry == Permutations(Workers) \union Permutations(Loops)
=============================================================================
