---------------------------- MODULE SenderCatalogue ----------------------------
(***************************************************************************)
(* What domains and mailboxes promise the rest of emaild: ingest and the   *)
(* dashboard read two tables that domains.py and provisioning.py write.    *)
(* A domain once tracked and a mailbox once stored are never removed; a    *)
(* sweep moves a domain among three standings; only a domain somebody can  *)
(* send as is ready.                                                       *)
(***************************************************************************)

CONSTANTS Domains, Addresses,
          DomainOf     \* the domain of each address

ASSUME CatalogueConstants == DomainOf \in [Addresses -> Domains]

VARIABLES
    standing,          \* domains.status, as far as anybody outside asks
    senders            \* the addresses in the mailboxes table

catalogue == <<standing, senders>>

Standings == {"untracked", "unready", "verified", "ready"}

SenderOn(d) == \E a \in senders : DomainOf[a] = d

CatalogueInit ==
    /\ standing = [d \in Domains |-> "untracked"]
    /\ senders = {}

TrackDomain(d) ==
    /\ standing[d] = "untracked"
    /\ standing' = [standing EXCEPT ![d] = "unready"]
    /\ UNCHANGED senders

\* A sweep.
Resweep(d) ==
    /\ standing[d] # "untracked"
    /\ \E found \in {"unready", "verified", "ready"} :
          /\ found = "ready" => SenderOn(d)
          /\ standing' = [standing EXCEPT ![d] = found]
    /\ UNCHANGED senders

\* A mailbox, which may be what the domain lacked.
AddSender(a) ==
    LET d == DomainOf[a] IN
    /\ standing[d] # "untracked"
    /\ senders' = senders \union {a}
    /\ \/ UNCHANGED standing
       \/ standing' = [standing EXCEPT ![d] = "ready"]

CatalogueNext ==
    \/ \E d \in Domains : TrackDomain(d) \/ Resweep(d)
    \/ \E a \in Addresses : AddSender(a)

CatalogueSpec == CatalogueInit /\ [][CatalogueNext]_catalogue
=============================================================================
