----------------------------- MODULE MCDashboard -----------------------------
EXTENDS Dashboard, TLC

CONSTANTS d1

OneDomain == [a \in Addresses |-> d1]

Alike == Permutations(Operators) \union Permutations(Ids) \union Permutations(Addresses)
=============================================================================
