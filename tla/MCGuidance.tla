------------------------------ MODULE MCGuidance ------------------------------
EXTENDS Guidance

CONSTANTS d1

OneDomain == [a \in Addresses |-> d1]

\* The resolvers answer, or fail for a record.
SometimesFailing == {{}, {"spf"}}

\* The DKIM key is there when the domain is added.
KeyThere == {Demandable}
=============================================================================
