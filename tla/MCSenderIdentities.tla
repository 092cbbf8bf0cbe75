-------------------------- MODULE MCSenderIdentities --------------------------
EXTENDS SenderIdentities, TLC

CONSTANTS d1

OneDomain == [a \in Addresses |-> d1]

\* A sweep of a zone that lacks some records, in which some lookups fail.
Swept(lacking, failing) ==
    [zone |-> [r \in Records |-> IF r \in lacking THEN {} ELSE {"right"}],
     failing |-> failing, demands |-> Demandable]

\* Everything in order; a record gone; a resolver that failed.
TellingSweeps == {Swept({}, {}), Swept({"mx"}, {}), Swept({}, {"spf"})}

\* The DKIM key is there when the domain is added, or is yet to be made.
KeyOrNot == {Demandable, Demandable \ {"dkim"}}

Alike == Permutations(Operators) \union Permutations(Passwords)
=============================================================================
