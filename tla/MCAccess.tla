------------------------------- MODULE MCAccess -------------------------------
EXTENDS Access, TLC

Limits == [p \in Policies |-> IF p = "LOGIN" THEN 2 ELSE 1]
AllPolicies == {"LOGIN", "READ", "MUTATION", "PUBLIC", "EDGE"}
Symmetry == Permutations(Tabs) \cup Permutations(Challenges)
              \cup Permutations(Sessions) \cup Permutations(Organisations)
=============================================================================
