---------------------------- MODULE MCKeyRegistry ----------------------------
EXTENDS KeyRegistry, TLC

CONSTANTS d1

OneDomain == [a \in Addresses |-> d1]

Alike == Permutations(Operators) \union Permutations(Ids)
=============================================================================
