----------------------------- MODULE MCLoadBalancer -----------------------------
EXTENDS LoadBalancer

CONSTANTS r1, r2, s1, s2

MCServiceOf == [r \in {r1, r2} |-> IF r = r1 THEN s1 ELSE s2]
=============================================================================
