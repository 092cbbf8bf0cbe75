----------------------------- MODULE DashboardProofs -----------------------------
(***************************************************************************)
(* Theorems about KeyRegistry and Dashboard: for every number of           *)
(* operators, visitors, domains, addresses and keys, and every order of    *)
(* their SELECTs, writes and COMMITs.                                      *)
(***************************************************************************)
EXTENDS Dashboard, TLAPS, FiniteSetTheorems

-----------------------------------------------------------------------------
(* The registry's invariant *)

\* What keys rest on, in the table and in an operator's hands.
KeysFounded ==
    /\ \A k, l \in keys : k.id = l.id => k = l
    /\ \A k \in keys : k.scopes # {} /\ k.scopes \subseteq senders
    /\ \A o \in Operators :
          work[o].doing = "key" => work[o].scopes # {} /\ work[o].scopes \subseteq senders
    /\ \A a \in senders : standing[DomainOf[a]] # "untracked"

RegistryInv == TypeOK /\ ProjectNamesUnique /\ KeysFounded

\* What operators and the catalogue do to the api_keys table.
KeyAdded(k) ==
    /\ keys' = keys \union {k} /\ k \in KeyRow /\ k.scopes # {} /\ k.scopes \subseteq senders
    /\ \A l \in keys : l.id # k.id

KeyRevoked(id) == keys' = {IF k.id = id THEN Revoked(k) ELSE k : k \in keys}

LEMMA WorkKinds ==
    ASSUME NEW w \in Work
    PROVE  /\ w.doing \in {"nothing", "project", "key", "revoke"}
           /\ w.doing = "project" => w.name \in ProjectNames
           /\ w.doing = "key" => /\ w.name \in KeyNames /\ w.project \in Ids
                                 /\ w.scopes \in SUBSET Addresses
           /\ w.doing = "revoke" => w.id \in Ids
BY DEF Work, AtRest, Failed

LEMMA RevokedTyped ==
    ASSUME NEW k \in KeyRow
    PROVE  /\ Revoked(k) \in KeyRow /\ Revoked(k).id = k.id /\ Revoked(k).scopes = k.scopes
           /\ ~Revoked(k).active
BY DEF Revoked, KeyRow

\* What a step does to each table.
LEMMA ProjectsMove ==
    ASSUME [Next]_vars, TypeOK
    PROVE  \/ UNCHANGED projects
           \/ \E row \in ProjectRow : /\ projects' = projects \union {row}
                                      /\ \A other \in projects : other.name # row.name
<1> USE DEF catalogue, registry
<1>1. ASSUME NEW o \in Operators, OperatorStep(o), ~InsertProject(o)
      PROVE  UNCHANGED projects
  BY <1>1 DEF OperatorStep, SelectProject, SelectForKey, InsertKey, SelectToRevoke,
              UpdateRevoked, Abort, Refuse, Resume
<1>2. ASSUME NEW o \in Operators, InsertProject(o), projects' # projects
      PROVE  \E row \in ProjectRow : /\ projects' = projects \union {row}
                                     /\ \A other \in projects : other.name # row.name
  <2>1. work[o] \in Work /\ work[o].doing = "project"
    BY <1>2 DEF TypeOK, InsertProject
  <2>2. work[o].name \in ProjectNames
    BY <2>1, WorkKinds
  <2>3. PICK id \in FreshIds(projects) : projects' = projects \union {[id |-> id, name |-> work[o].name]}
    BY <1>2 DEF InsertProject, Refuse
  <2>4. ~ProjectTaken(work[o].name)
    BY <1>2 DEF InsertProject, Refuse
  <2>5. [id |-> id, name |-> work[o].name] \in ProjectRow
    BY <2>2 DEF ProjectRow, FreshIds
  <2> QED
    BY <2>3, <2>4, <2>5 DEF ProjectTaken, ProjectsNamed
<1> QED
  BY <1>1, <1>2 DEF Next, vars

LEMMA KeysMove ==
    ASSUME [Next]_vars, TypeOK, KeysFounded
    PROVE  \/ UNCHANGED keys
           \/ \E k \in KeyRow : KeyAdded(k) /\ UNCHANGED catalogue
           \/ \E id \in Ids : KeyRevoked(id) /\ UNCHANGED catalogue
<1> USE DEF catalogue, registry
<1>1. ASSUME NEW o \in Operators, OperatorStep(o), ~InsertKey(o), ~UpdateRevoked(o)
      PROVE  UNCHANGED keys
  BY <1>1 DEF OperatorStep, SelectProject, InsertProject, SelectForKey, SelectToRevoke,
              Abort, Refuse, Resume
<1>2. ASSUME NEW o \in Operators, InsertKey(o)
      PROVE  \E k \in KeyRow : KeyAdded(k) /\ UNCHANGED catalogue
  <2>1. work[o] \in Work /\ work[o].doing = "key"
    BY <1>2 DEF TypeOK, InsertKey
  <2>2. PICK id \in FreshIds(keys) :
           keys' = keys \union {[id |-> id, name |-> work[o].name, project |-> work[o].project,
                                 scopes |-> work[o].scopes, active |-> TRUE]}
    BY <1>2 DEF InsertKey
  <2> DEFINE k == [id |-> id, name |-> work[o].name, project |-> work[o].project,
                   scopes |-> work[o].scopes, active |-> TRUE]
  <2>3. k \in KeyRow
    BY <2>1, WorkKinds DEF KeyRow, FreshIds
  <2>4. \A l \in keys : l.id # id
    BY DEF FreshIds
  <2>5. KeyAdded(k)
    BY <2>1, <2>2, <2>3, <2>4 DEF KeyAdded, KeysFounded
  <2> QED
    BY <1>2, <2>3, <2>5 DEF InsertKey
<1>3. ASSUME NEW o \in Operators, UpdateRevoked(o)
      PROVE  \E id \in Ids : KeyRevoked(id) /\ UNCHANGED catalogue
  <2>1. work[o].id \in Ids
    BY <1>3, WorkKinds DEF TypeOK, UpdateRevoked
  <2> QED
    BY <1>3, <2>1 DEF UpdateRevoked, KeyRevoked
<1> QED
  BY <1>1, <1>2, <1>3 DEF Next, vars

\* The catalogue only moves by its own steps, and takes nothing back.
LEMMA CatalogueMoves ==
    ASSUME [Next]_vars, TypeOK
    PROVE  /\ standing' \in [Domains -> Standings] /\ senders' \in SUBSET Addresses
           /\ senders \subseteq senders'
           /\ \A d \in Domains : standing[d] # "untracked" => standing'[d] # "untracked"
           /\ \A a \in senders' \ senders : standing'[DomainOf[a]] # "untracked"
<1> USE DEF catalogue, registry, Standings
<1>1. CASE UNCHANGED catalogue
  BY <1>1 DEF TypeOK
<1>2. ASSUME NEW d \in Domains, TrackDomain(d) \/ Resweep(d)
      PROVE  /\ standing' \in [Domains -> Standings] /\ UNCHANGED senders
             /\ \A e \in Domains : standing[e] # "untracked" => standing'[e] # "untracked"
  BY <1>2 DEF TypeOK, TrackDomain, Resweep
<1>3. ASSUME NEW a \in Addresses, AddSender(a)
      PROVE  /\ standing' \in [Domains -> Standings] /\ senders' = senders \union {a}
             /\ \A d \in Domains : standing[d] # "untracked" => standing'[d] # "untracked"
             /\ standing'[DomainOf[a]] # "untracked"
  BY <1>3, CatalogueConstants DEF TypeOK, AddSender
<1>4. ASSUME NEW o \in Operators, OperatorStep(o)
      PROVE  UNCHANGED catalogue
  BY <1>4 DEF OperatorStep, SelectProject, InsertProject, SelectForKey, InsertKey,
              SelectToRevoke, UpdateRevoked, Abort, Refuse, Resume
<1> QED
  BY <1>1, <1>2, <1>3, <1>4, CatalogueConstants DEF Next, vars, CatalogueNext, TypeOK

\* An operator's hands: a key under way is for senders there are.
LEMMA WorkMoves ==
    ASSUME [Next]_vars, TypeOK, KeysFounded
    PROVE  /\ work' \in [Operators -> Work]
           /\ \A o \in Operators : work'[o].doing = "key" =>
                 work'[o].scopes # {} /\ work'[o].scopes \subseteq senders
<1> USE DEF catalogue, registry
<1>1. CASE UNCHANGED work
  BY <1>1 DEF TypeOK, KeysFounded
<1>2. ASSUME NEW o \in Operators, NEW w \in Work,
             w.doing = "key" => w.scopes # {} /\ w.scopes \subseteq senders,
             work' = [work EXCEPT ![o] = w]
      PROVE  /\ work' \in [Operators -> Work]
             /\ \A p \in Operators : work'[p].doing = "key" =>
                   work'[p].scopes # {} /\ work'[p].scopes \subseteq senders
  BY <1>2 DEF TypeOK, KeysFounded
<1>3. AtRest \in Work /\ AtRest.doing = "nothing" /\ Failed \in Work /\ Failed.doing = "nothing"
  BY DEF Work, AtRest, Failed
<1>4. ASSUME NEW o \in Operators, Rest(o) \/ Resume(o, Failed)
      PROVE  /\ work' \in [Operators -> Work]
             /\ \A p \in Operators : work'[p].doing = "key" =>
                   work'[p].scopes # {} /\ work'[p].scopes \subseteq senders
  BY <1>2, <1>3, <1>4 DEF Rest, Resume
<1>5. ASSUME NEW o \in Operators, NEW p \in ProjectNames,
             Resume(o, [doing |-> "project", name |-> p])
      PROVE  /\ work' \in [Operators -> Work]
             /\ \A q \in Operators : work'[q].doing = "key" =>
                   work'[q].scopes # {} /\ work'[q].scopes \subseteq senders
  <2>1. [doing |-> "project", name |-> p] \in Work
    BY DEF Work
  <2> QED
    BY <1>2, <1>5, <2>1 DEF Resume
<1>6. ASSUME NEW o \in Operators, NEW n \in KeyNames, NEW p \in ProjectNames,
             NEW wanted \in SUBSET Addresses, NEW id \in ProjectIds(p), Grantable(wanted),
             Resume(o, [doing |-> "key", name |-> n, project |-> id, scopes |-> wanted])
      PROVE  /\ work' \in [Operators -> Work]
             /\ \A q \in Operators : work'[q].doing = "key" =>
                   work'[q].scopes # {} /\ work'[q].scopes \subseteq senders
  <2>1. id \in Ids
    BY DEF TypeOK, ProjectIds, ProjectsNamed, ProjectRow
  <2>2. [doing |-> "key", name |-> n, project |-> id, scopes |-> wanted] \in Work
    BY <2>1 DEF Work
  <2> QED
    BY <1>2, <1>6, <2>2 DEF Resume, Grantable
<1>7. ASSUME NEW o \in Operators, NEW k \in keys, Resume(o, [doing |-> "revoke", id |-> k.id])
      PROVE  /\ work' \in [Operators -> Work]
             /\ \A q \in Operators : work'[q].doing = "key" =>
                   work'[q].scopes # {} /\ work'[q].scopes \subseteq senders
  <2>1. k.id \in Ids
    BY DEF TypeOK, KeyRow
  <2>2. [doing |-> "revoke", id |-> k.id] \in Work
    BY <2>1 DEF Work
  <2> QED
    BY <1>2, <1>7, <2>2 DEF Resume
<1>8. ASSUME NEW o \in Operators, OperatorStep(o)
      PROVE  /\ work' \in [Operators -> Work]
             /\ \A q \in Operators : work'[q].doing = "key" =>
                   work'[q].scopes # {} /\ work'[q].scopes \subseteq senders
  <2>1. CASE \E p \in ProjectNames : SelectProject(o, p)
    BY <1>4, <1>5, <2>1 DEF SelectProject, Refuse
  <2>2. CASE \E n \in KeyNames, p \in ProjectNames, wanted \in SUBSET Addresses :
                SelectForKey(o, n, p, wanted)
    BY <1>4, <1>6, <2>2 DEF SelectForKey, Refuse
  <2>3. CASE \E n \in KeyNames : SelectToRevoke(o, n)
    BY <1>4, <1>7, <2>3 DEF SelectToRevoke, Refuse, Named
  <2>4. CASE InsertProject(o) \/ InsertKey(o) \/ UpdateRevoked(o) \/ Abort(o)
    BY <1>4, <2>4 DEF InsertProject, InsertKey, UpdateRevoked, Abort, Refuse
  <2> QED
    BY <1>8, <2>1, <2>2, <2>3, <2>4 DEF OperatorStep
<1> QED
  BY <1>1, <1>8 DEF Next, vars

LEMMA RegistryStep ==
    ASSUME RegistryInv, [Next]_vars
    PROVE  RegistryInv'
<1> USE DEF RegistryInv
<1>1. projects' \in SUBSET ProjectRow /\ ProjectNamesUnique'
  BY ProjectsMove DEF TypeOK, ProjectNamesUnique
<1>2. \/ UNCHANGED keys \/ (\E k \in KeyRow : KeyAdded(k)) \/ (\E id \in Ids : KeyRevoked(id))
  BY KeysMove
<1>3. /\ keys' \in SUBSET KeyRow
      /\ \A k, l \in keys' : k.id = l.id => k = l
      /\ \A k \in keys' : k.scopes # {} /\ k.scopes \subseteq senders
  <2>1. CASE UNCHANGED keys
    BY <2>1 DEF TypeOK, KeysFounded
  <2>2. ASSUME NEW k \in KeyRow, KeyAdded(k)
        PROVE  <1>3!1 /\ <1>3!2 /\ <1>3!3
    BY <2>2 DEF KeyAdded, TypeOK, KeysFounded
  <2>3. ASSUME NEW id \in Ids, KeyRevoked(id)
        PROVE  <1>3!1 /\ <1>3!2 /\ <1>3!3
    <3>1. \A k \in keys' : \E l \in keys : k.id = l.id /\ k.scopes = l.scopes /\ k \in KeyRow
                                          /\ k = IF l.id = id THEN Revoked(l) ELSE l
      BY <2>3, RevokedTyped DEF KeyRevoked, TypeOK
    <3> QED
      BY <3>1 DEF KeysFounded
  <2> QED
    BY <1>2, <2>1, <2>2, <2>3
<1>4. TypeOK'
  BY <1>1, <1>3, CatalogueMoves, WorkMoves DEF TypeOK
<1>5. KeysFounded'
  <2>1. \A a \in senders' : standing'[DomainOf[a]] # "untracked"
    BY CatalogueMoves, CatalogueConstants DEF KeysFounded, TypeOK
  <2> QED
    BY <1>3, <2>1, CatalogueMoves, WorkMoves DEF KeysFounded
<1> QED
  BY <1>1, <1>4, <1>5

LEMMA RegistryInit ==
    ASSUME Init
    PROVE  RegistryInv
<1>1. AtRest \in Work /\ AtRest.doing = "nothing"
  BY DEF Work, AtRest
<1> QED
  BY <1>1 DEF Init, CatalogueInit, RegistryInv, TypeOK, ProjectNamesUnique, KeysFounded, Standings

-----------------------------------------------------------------------------
(* What a page rests on *)

\* Of values, so that it can be carried from a state to the next: a key read is
\* still in the table with its scopes, and as it was unless it is among those
\* disturbed; and a pair can be sent with, unless it is.
Traced(k, D, ks) == \E l \in ks : l.id = k.id /\ l.scopes = k.scopes /\ (l = k \/ l.id \in D)

Backed(pair, D, ks, st) ==
    \E k \in ks : /\ k.id = pair.key /\ pair.sender \in k.scopes
                  /\ \/ {pair.key, pair.sender} \intersect D # {}
                     \/ k.active /\ st[DomainOf[pair.sender]] = "ready"

\* The page of one visitor, stage by stage.
Blank(v) ==
    pages[v].stage = "none" =>
       /\ pages[v].offered = {} /\ pages[v].boxes = {}
       /\ begun[v] = {} /\ disturbed[v] = {}

KeysRead(v) ==
    pages[v].stage = "keys" =>
       /\ \A k \in pages[v].live : k.active /\ Traced(k, disturbed[v], keys)
       /\ \A k \in keys : k.active => k.id \in disturbed[v] \/ k \in pages[v].live

OffersBacked(v) ==
    /\ \A pair \in pages[v].offered : Backed(pair, disturbed[v], keys, standing)
    /\ pages[v].stage = "taken" => /\ pages[v].chosen \in [key : Ids, sender : Addresses]
                                   /\ Backed(pages[v].chosen, disturbed[v], keys, standing)
    /\ pages[v].stage \in {"options", "domains", "mailboxes", "shown"} =>
          \A a \in begun[v] \ disturbed[v], k \in keys :
             k.id \notin disturbed[v] /\ WouldSend(k, a) =>
                [key |-> k.id, sender |-> a] \in pages[v].offered

SnapshotsAgree(v) ==
    /\ pages[v].stage \in {"domains", "mailboxes"} =>
          \A a \in Addresses \ disturbed[v] : pages[v].seen[DomainOf[a]] = standing[DomainOf[a]]
    /\ pages[v].stage = "mailboxes" => begun[v] \subseteq pages[v].boxes
    /\ pages[v].boxes \subseteq senders /\ begun[v] \subseteq senders

\* Of a page that is shown: what it says of a sender, and of an empty domain.
SenderTold(v, a) ==
    /\ pages[v].blocked[a] = "none" <=> \E k \in keys : WouldSend(k, a)
    /\ pages[v].blocked[a] = "key" <=>
          standing[DomainOf[a]] = "ready" /\ ~\E k \in keys : WouldSend(k, a)

DomainTold(v, d) ==
    standing[d] # "untracked" /\ ~SenderOn(d) => pages[v].blocked[d] # "none"

ReasonsGiven(v) ==
    pages[v].stage = "shown" =>
       /\ \A a \in begun[v] : Undisturbed(v, a) => SenderTold(v, a)
       /\ \A a \in Addresses \ disturbed[v] : DomainTold(v, DomainOf[a])

RefusalExplained(v) ==
    pages[v].stage = "refused" /\ (pages[v].recipient = "fit" \/ pages[v].fault = "pair") =>
       {pages[v].chosen.key, pages[v].chosen.sender} \intersect disturbed[v] # {}

PageSound(v) ==
    /\ Blank(v) /\ KeysRead(v) /\ OffersBacked(v)
    /\ SnapshotsAgree(v) /\ ReasonsGiven(v) /\ RefusalExplained(v)

PagesInv ==
    /\ RegistryInv /\ DashboardTypeOK
    /\ \A v \in Visitors : PageSound(v)

-----------------------------------------------------------------------------
(* The rest of emaild moves *)

\* What one step elsewhere may do to the rows a page has read.
LEMMA KeysTraced ==
    ASSUME RegistryInv, [Next]_vars, NEW k \in keys
    PROVE  Traced(k, Changed, keys')
<1> USE DEF RegistryInv, Traced
<1>0. \/ UNCHANGED keys \/ (\E new \in KeyRow : KeyAdded(new)) \/ (\E id \in Ids : KeyRevoked(id))
  BY KeysMove
<1>1. CASE UNCHANGED keys
  BY <1>1
<1>2. ASSUME NEW new \in KeyRow, KeyAdded(new)
      PROVE  k \in keys'
  BY <1>2 DEF KeyAdded
<1>3. ASSUME NEW id \in Ids, KeyRevoked(id)
      PROVE  Traced(k, Changed, keys')
  <2>1. CASE k.id # id
    BY <1>3, <2>1 DEF KeyRevoked
  <2>2. CASE k.id = id
    <3>1. Revoked(k) \in keys' /\ Revoked(k).id = k.id /\ Revoked(k).scopes = k.scopes
      BY <1>3, <2>2, RevokedTyped DEF KeyRevoked, TypeOK
    <3>2. k \in keys \ keys' => k.id \in Changed
      BY DEF Changed
    <3> QED
      BY <3>1, <3>2
  <2> QED
    BY <2>1, <2>2
<1> QED
  BY <1>0, <1>1, <1>2, <1>3

LEMMA WhatChanges ==
    ASSUME RegistryInv, [Next]_vars
    PROVE  /\ \A k \in keys' \ keys : k.id \in Changed
           /\ \A a \in Addresses \ Changed : standing'[DomainOf[a]] = standing[DomainOf[a]]
           /\ senders \subseteq senders' /\ Changed \subseteq Addresses \union Ids
<1>1. keys \subseteq KeyRow /\ keys' \subseteq KeyRow
  BY RegistryStep DEF RegistryInv, TypeOK
<1>2. Changed \subseteq Addresses \union Ids
  BY <1>1 DEF Changed, KeyRow
<1> QED
  BY <1>2, CatalogueMoves DEF Changed, RegistryInv

LEMMA TracedKept ==
    ASSUME RegistryInv, [Next]_vars, NEW k, NEW D, NEW E, D \union Changed \subseteq E,
           Traced(k, D, keys)
    PROVE  Traced(k, E, keys')
<1>1. PICK l \in keys : l.id = k.id /\ l.scopes = k.scopes /\ (l = k \/ l.id \in D)
  BY DEF Traced
<1>2. PICK m \in keys' : m.id = l.id /\ m.scopes = l.scopes /\ (m = l \/ m.id \in Changed)
  BY KeysTraced DEF Traced
<1> QED
  BY <1>1, <1>2 DEF Traced

LEMMA BackedKept ==
    ASSUME RegistryInv, [Next]_vars, NEW D, NEW E, D \union Changed \subseteq E,
           NEW pair \in [key : Ids, sender : Addresses], Backed(pair, D, keys, standing)
    PROVE  Backed(pair, E, keys', standing')
<1>1. PICK k \in keys : /\ k.id = pair.key /\ pair.sender \in k.scopes
                        /\ \/ {pair.key, pair.sender} \intersect D # {}
                           \/ k.active /\ standing[DomainOf[pair.sender]] = "ready"
  BY DEF Backed
<1>2. PICK l \in keys' : l.id = k.id /\ l.scopes = k.scopes /\ (l = k \/ l.id \in Changed)
  BY KeysTraced DEF Traced
<1>3. pair.sender \in Changed \/ standing'[DomainOf[pair.sender]] = standing[DomainOf[pair.sender]]
  BY WhatChanges
<1> QED
  BY <1>1, <1>2, <1>3 DEF Backed

\* A sender nobody disturbed is in the scopes of the same keys as before.
LEMMA SameKeys ==
    ASSUME RegistryInv, [Next]_vars, NEW v \in Visitors, NEW a \in Addresses,
           disturbed[v] \union Changed \subseteq disturbed'[v], Undisturbed(v, a)'
    PROVE  /\ Undisturbed(v, a) /\ standing'[DomainOf[a]] = standing[DomainOf[a]]
           /\ \A k \in keys : a \in k.scopes => k \in keys'
           /\ \A k \in keys' : a \in k.scopes => k \in keys
<1>1. a \notin disturbed'[v] /\ \A k \in keys' : a \in k.scopes => k.id \notin disturbed'[v]
  BY DEF Undisturbed
<1>2. \A k \in keys : a \in k.scopes => k \in keys' /\ k.id \notin disturbed'[v]
  BY <1>1, KeysTraced DEF Traced
<1>3. \A k \in keys' : a \in k.scopes => k \in keys
  BY <1>1, WhatChanges
<1>4. Undisturbed(v, a)
  BY <1>1, <1>2 DEF Undisturbed
<1> QED
  BY <1>1, <1>2, <1>3, <1>4, WhatChanges

LEMMA ElsewhereSound ==
    ASSUME PagesInv, Elsewhere, NEW v \in Visitors
    PROVE  PageSound(v)'
<1> USE DEF PagesInv
<1>1. /\ [Next]_vars /\ RegistryInv /\ PageSound(v) /\ UNCHANGED <<pages, begun>>
      /\ pages[v] \in Page /\ begun[v] \subseteq Addresses
      /\ disturbed'[v] = IF pages[v].stage = "none" THEN {} ELSE disturbed[v] \union Changed
  BY DEF Elsewhere, DashboardTypeOK
<1>2. CASE pages[v].stage = "none"
  BY <1>1, <1>2 DEF PageSound, Blank, KeysRead, OffersBacked, SnapshotsAgree, ReasonsGiven,
                    RefusalExplained
<1>3. CASE pages[v].stage # "none"
  <2>1. disturbed[v] \union Changed \subseteq disturbed'[v] /\ disturbed'[v] = disturbed[v] \union Changed
    BY <1>1, <1>3
  <2>2. Blank(v)'
    BY <1>1, <1>3 DEF Blank
  <2>3. KeysRead(v)'
    <3> SUFFICES ASSUME pages[v].stage = "keys"
                 PROVE  /\ \A k \in pages[v].live : k.active /\ Traced(k, disturbed'[v], keys')
                        /\ \A k \in keys' : k.active => k.id \in disturbed'[v] \/ k \in pages[v].live
      BY <1>1 DEF KeysRead
    <3>1. /\ \A k \in pages[v].live : k.active /\ Traced(k, disturbed[v], keys)
          /\ \A k \in keys : k.active => k.id \in disturbed[v] \/ k \in pages[v].live
      BY <1>1 DEF PageSound, KeysRead
    <3>2. \A k \in pages[v].live : Traced(k, disturbed'[v], keys')
      BY <1>1, <2>1, <3>1, TracedKept
    <3> QED
      BY <1>1, <2>1, <3>1, <3>2, WhatChanges
  <2>4. OffersBacked(v)'
    <3>1. ASSUME NEW pair \in pages[v].offered
          PROVE  Backed(pair, disturbed'[v], keys', standing')
      <4>1. pair \in [key : Ids, sender : Addresses]
        BY <1>1 DEF Page
      <4>2. Backed(pair, disturbed[v], keys, standing)
        BY <1>1 DEF PageSound, OffersBacked
      <4> QED
        BY <1>1, <2>1, <4>1, <4>2, BackedKept
    <3>2. ASSUME pages[v].stage = "taken"
          PROVE  /\ pages[v].chosen \in [key : Ids, sender : Addresses]
                 /\ Backed(pages[v].chosen, disturbed'[v], keys', standing')
      <4>1. /\ pages[v].chosen \in [key : Ids, sender : Addresses]
            /\ Backed(pages[v].chosen, disturbed[v], keys, standing)
        BY <1>1, <3>2 DEF PageSound, OffersBacked
      <4> QED
        BY <1>1, <2>1, <4>1, BackedKept
    <3>3. ASSUME pages[v].stage \in {"options", "domains", "mailboxes", "shown"},
                 NEW a \in begun[v] \ disturbed'[v], NEW k \in keys',
                 k.id \notin disturbed'[v], WouldSend(k, a)'
          PROVE  [key |-> k.id, sender |-> a] \in pages[v].offered
      <4>1. k \in keys /\ WouldSend(k, a)
        BY <1>1, <2>1, <3>3, WhatChanges DEF WouldSend
      <4> QED
        BY <1>1, <2>1, <3>3, <4>1 DEF PageSound, OffersBacked
    <3> QED
      BY <1>1, <3>1, <3>2, <3>3 DEF OffersBacked
  <2>5. SnapshotsAgree(v)'
    BY <1>1, <2>1, WhatChanges DEF PageSound, SnapshotsAgree
  <2>6. ReasonsGiven(v)'
    <3> SUFFICES ASSUME pages[v].stage = "shown"
                 PROVE  /\ \A a \in begun[v] : Undisturbed(v, a)' => SenderTold(v, a)'
                        /\ \A a \in Addresses \ disturbed'[v] : DomainTold(v, DomainOf[a])'
      BY <1>1 DEF ReasonsGiven
    <3>1. ASSUME NEW a \in begun[v], Undisturbed(v, a)'
          PROVE  SenderTold(v, a)'
      <4>1. /\ a \in Addresses /\ Undisturbed(v, a)
            /\ standing'[DomainOf[a]] = standing[DomainOf[a]]
            /\ \A k \in keys : a \in k.scopes => k \in keys'
            /\ \A k \in keys' : a \in k.scopes => k \in keys
        BY <1>1, <2>1, <3>1, SameKeys
      <4>2. SenderTold(v, a)
        BY <1>1, <4>1 DEF PageSound, ReasonsGiven
      <4> QED
        BY <1>1, <4>1, <4>2 DEF SenderTold, WouldSend
    <3>2. ASSUME NEW a \in Addresses \ disturbed'[v]
          PROVE  DomainTold(v, DomainOf[a])'
      <4>1. DomainTold(v, DomainOf[a])
        BY <1>1, <2>1, <3>2 DEF PageSound, ReasonsGiven
      <4>2. standing'[DomainOf[a]] = standing[DomainOf[a]] /\ senders \subseteq senders'
        BY <1>1, <2>1, <3>2, WhatChanges
      <4> QED
        BY <1>1, <4>1, <4>2 DEF DomainTold, SenderOn
    <3> QED
      BY <3>1, <3>2
  <2>7. RefusalExplained(v)'
    BY <1>1, <2>1 DEF PageSound, RefusalExplained
  <2> QED
    BY <2>2, <2>3, <2>4, <2>5, <2>6, <2>7 DEF PageSound
<1> QED
  BY <1>2, <1>3

-----------------------------------------------------------------------------
(* A visitor moves *)

\* Nothing a page rests on has moved, nor the page.
LEMMA PageKept ==
    ASSUME NEW v, PageSound(v), UNCHANGED <<vars, pages[v], begun[v], disturbed[v]>>
    PROVE  PageSound(v)'
<1> USE DEF vars, registry, catalogue
<1>1. Blank(v)' /\ KeysRead(v)' /\ SnapshotsAgree(v)' /\ RefusalExplained(v)'
  BY DEF PageSound, Blank, KeysRead, SnapshotsAgree, RefusalExplained
<1>2. OffersBacked(v)'
  BY DEF PageSound, OffersBacked, WouldSend
<1>3. ReasonsGiven(v)'
  BY DEF PageSound, ReasonsGiven, SenderTold, DomainTold, Undisturbed, WouldSend, SenderOn
<1> QED
  BY <1>1, <1>2, <1>3 DEF PageSound

\* A page that is not begun, and one that is left.
LEMMA NoPageTyped == NoPage \in Page
BY DEF NoPage, Page, Standings, Reasons, Recipients

\* Every pair the second SELECT makes of the keys the first one read.
LEMMA PairsBacked ==
    ASSUME RegistryInv, NEW live, NEW D, \A k \in live : k.active /\ Traced(k, D, keys)
    PROVE  /\ \A pair \in Pairs(live, ReadySenders) : Backed(pair, D, keys, standing)
           /\ \A k \in live : \A a \in k.scopes \intersect ReadySenders :
                 [key |-> k.id, sender |-> a] \in Pairs(live, ReadySenders)
<1>1. ASSUME NEW pair \in Pairs(live, ReadySenders)
      PROVE  Backed(pair, D, keys, standing)
  <2>1. PICK k \in live : \E a \in k.scopes \intersect ReadySenders :
                             pair = [key |-> k.id, sender |-> a]
    BY DEF Pairs
  <2>2. PICK a \in k.scopes \intersect ReadySenders : pair = [key |-> k.id, sender |-> a]
    BY <2>1
  <2>3. pair.key = k.id /\ pair.sender = a /\ standing[DomainOf[a]] = "ready"
    BY <2>2 DEF ReadySenders
  <2>4. PICK l \in keys : l.id = k.id /\ l.scopes = k.scopes /\ (l = k \/ l.id \in D)
    BY DEF Traced
  <2> QED
    BY <2>2, <2>3, <2>4 DEF Backed
<1>2. ASSUME NEW k \in live, NEW a \in k.scopes \intersect ReadySenders
      PROVE  [key |-> k.id, sender |-> a] \in Pairs(live, ReadySenders)
  BY DEF Pairs
<1> QED
  BY <1>1, <1>2

LEMMA PairsTyped ==
    ASSUME NEW live \in SUBSET KeyRow, NEW ready \in SUBSET Addresses
    PROVE  Pairs(live, ready) \in SUBSET [key : Ids, sender : Addresses]
<1> SUFFICES ASSUME NEW pair \in Pairs(live, ready)
             PROVE  pair \in [key : Ids, sender : Addresses]
  OBVIOUS
<1>1. PICK k \in live : pair \in {[key |-> k.id, sender |-> a] : a \in k.scopes \intersect ready}
  BY DEF Pairs
<1>2. PICK a \in k.scopes \intersect ready : pair = [key |-> k.id, sender |-> a]
  BY <1>1
<1> QED
  BY <1>2 DEF KeyRow

LEMMA BlockedTyped ==
    ASSUME NEW seen, NEW boxes, NEW live
    PROVE  BlockedSenders(seen, boxes, live) \in [Addresses \union Domains -> Reasons]
BY DEF BlockedSenders, WhyNobody, WhyNot, Reasons

LEMMA VisitorTyped ==
    ASSUME RegistryInv, DashboardTypeOK, NEW v \in Visitors, VisitorStep(v)
    PROVE  DashboardTypeOK'
<1> USE DEF DashboardTypeOK
<1>0. TypeOK' /\ pages[v] \in Page
  <2>1. UNCHANGED vars
    BY DEF VisitorStep, ReadKeys, ReadReadySenders, ReadDomains, ReadMailboxes, ReadScopes,
           SelectPrincipal, Ingest, Leave
  <2> QED
    BY <2>1 DEF vars, registry, catalogue, TypeOK
<1>1. ASSUME NEW page \in Page, Turn(v, page), sent' \in BOOLEAN,
             \/ UNCHANGED <<begun, disturbed>>
             \/ /\ begun' = [begun EXCEPT ![v] = senders]
                /\ disturbed' = [disturbed EXCEPT ![v] = {}]
             \/ /\ begun' = [begun EXCEPT ![v] = {}]
                /\ disturbed' = [disturbed EXCEPT ![v] = {}]
      PROVE  DashboardTypeOK'
  BY <1>0, <1>1 DEF Turn, TypeOK
<1>2. CASE ReadKeys(v)
  <2>1. Live(keys) \in SUBSET KeyRow
    BY DEF Live, TypeOK
  <2>2. [NoPage EXCEPT !.stage = "keys", !.live = Live(keys)] \in Page
    BY <2>1, NoPageTyped DEF Page
  <2> QED
    BY <1>1, <1>2, <2>2 DEF ReadKeys
<1>3. CASE ReadReadySenders(v)
  <2>1. ReadySenders \in SUBSET Addresses /\ pages[v].live \in SUBSET KeyRow
    BY <1>0 DEF ReadySenders, TypeOK, Page
  <2> DEFINE offered == Pairs(pages[v].live, ReadySenders)
  <2>2. offered \in SUBSET [key : Ids, sender : Addresses]
    BY <2>1, PairsTyped
  <2> HIDE DEF offered
  <2>3. [pages[v] EXCEPT !.stage = "options", !.live = {}, !.offered = offered] \in Page
    BY <1>0, <2>2 DEF Page
  <2> QED
    BY <1>1, <1>3, <2>3 DEF ReadReadySenders, offered
<1>4. CASE ReadDomains(v)
  <2>1. [pages[v] EXCEPT !.stage = "domains", !.seen = standing] \in Page
    BY <1>0 DEF Page, TypeOK
  <2> QED
    BY <1>1, <1>4, <2>1 DEF ReadDomains
<1>5. CASE ReadMailboxes(v)
  <2>1. [pages[v] EXCEPT !.stage = "mailboxes", !.boxes = senders] \in Page
    BY <1>0 DEF Page, TypeOK
  <2> QED
    BY <1>1, <1>5, <2>1 DEF ReadMailboxes
<1>6. CASE ReadScopes(v)
  <2> DEFINE blocked == BlockedSenders(pages[v].seen, pages[v].boxes, Live(keys))
             page == [NoPage EXCEPT !.stage = "shown", !.offered = pages[v].offered,
                                    !.blocked = blocked]
  <2>1. blocked \in [Addresses \union Domains -> Reasons]
    BY BlockedTyped
  <2> HIDE DEF blocked
  <2>2. page \in Page
    BY <1>0, <2>1, NoPageTyped DEF Page
  <2>3. Turn(v, page)
    BY <1>6 DEF ReadScopes, blocked
  <2> HIDE DEF page
  <2> QED
    BY <1>1, <1>6, <2>2, <2>3 DEF ReadScopes
<1>7. ASSUME NEW pair \in pages[v].offered, NEW recipient \in Recipients,
             SelectPrincipal(v, pair, recipient)
      PROVE  DashboardTypeOK'
  <2>1. pair \in [key : Ids, sender : Addresses]
    BY <1>0 DEF Page
  <2>2. PICK stage \in {"taken", "refused"}, fault \in {"none", "pair", "recipient"} :
           Turn(v, [NoPage EXCEPT !.stage = stage, !.chosen = pair,
                                  !.recipient = recipient, !.fault = fault])
    BY <1>7 DEF SelectPrincipal
  <2>3. [NoPage EXCEPT !.stage = stage, !.chosen = pair,
                       !.recipient = recipient, !.fault = fault] \in Page
    BY <2>1, NoPageTyped DEF Page
  <2> QED
    BY <1>1, <1>7, <2>2, <2>3 DEF SelectPrincipal
<1>8. CASE \E pair \in pages[v].offered, recipient \in Recipients :
              SelectPrincipal(v, pair, recipient)
  BY <1>7, <1>8
<1>9. CASE Ingest(v)
  <2>1. /\ [pages[v] EXCEPT !.stage = "queued"] \in Page
        /\ \A fault \in {"pair", "recipient"} :
              [pages[v] EXCEPT !.stage = "refused", !.fault = fault] \in Page
    BY <1>0 DEF Page
  <2>2. \/ sent' = TRUE /\ Turn(v, [pages[v] EXCEPT !.stage = "queued"])
        \/ /\ UNCHANGED sent
           /\ \E fault \in {"pair", "recipient"} :
                 Turn(v, [pages[v] EXCEPT !.stage = "refused", !.fault = fault])
    BY <1>9 DEF Ingest
  <2> QED
    BY <1>1, <1>9, <2>1, <2>2 DEF Ingest
<1>10. CASE Leave(v)
  BY <1>1, <1>10, NoPageTyped DEF Leave
<1> QED
  BY <1>2, <1>3, <1>4, <1>5, <1>6, <1>8, <1>9, <1>10 DEF VisitorStep

\* What blocked_senders says, of the snapshots it was given.
LEMMA ScopedLive ==
    ASSUME NEW a
    PROVE  a \in Scoped(Live(keys)) <=> \E k \in keys : k.active /\ a \in k.scopes
BY DEF Scoped, Live

LEMMA Told ==
    ASSUME RegistryInv, NEW v \in Visitors, PageSound(v), pages[v].stage = "mailboxes",
           NEW a \in Addresses \ disturbed[v], NEW blocked,
           blocked = BlockedSenders(pages[v].seen, pages[v].boxes, Live(keys))
    PROVE  /\ a \in begun[v] =>
                 /\ blocked[a] = "none" <=> \E k \in keys : WouldSend(k, a)
                 /\ blocked[a] = "key" <=>
                       standing[DomainOf[a]] = "ready" /\ ~\E k \in keys : WouldSend(k, a)
           /\ standing[DomainOf[a]] # "untracked" /\ ~SenderOn(DomainOf[a]) =>
                 blocked[DomainOf[a]] # "none"
<1> DEFINE d == DomainOf[a]
<1>1. /\ d \in Domains /\ a \notin Domains /\ pages[v].seen[d] = standing[d]
      /\ begun[v] \subseteq pages[v].boxes /\ pages[v].boxes \subseteq senders
      /\ begun[v] \subseteq senders
  BY CatalogueConstants, DashboardConstants DEF PageSound, SnapshotsAgree
<1>2. /\ blocked[a] = IF a \in pages[v].boxes THEN WhyNot(a, pages[v].seen, Live(keys)) ELSE "none"
      /\ blocked[d] = WhyNobody(d, pages[v].seen, pages[v].boxes)
  BY <1>1 DEF BlockedSenders
<1>3. ASSUME a \in begun[v]
      PROVE  /\ blocked[a] = "none" <=> \E k \in keys : WouldSend(k, a)
             /\ blocked[a] = "key" <=>
                   standing[d] = "ready" /\ ~\E k \in keys : WouldSend(k, a)
  <2>1. standing[d] # "untracked"
    BY <1>1, <1>3 DEF RegistryInv, KeysFounded
  <2>2. blocked[a] = WhyNot(a, pages[v].seen, Live(keys))
    BY <1>1, <1>2, <1>3
  <2>3. blocked[a] = IF standing[d] # "ready" THEN "recheck"
                     ELSE IF a \notin Scoped(Live(keys)) THEN "key" ELSE "none"
    BY <1>1, <2>1, <2>2 DEF WhyNot
  <2>4. (\E k \in keys : WouldSend(k, a)) <=> standing[d] = "ready" /\ a \in Scoped(Live(keys))
    BY ScopedLive DEF WouldSend
  <2> QED
    BY <2>3, <2>4
<1>4. ASSUME standing[d] # "untracked", ~SenderOn(d)
      PROVE  blocked[d] # "none"
  BY <1>1, <1>2, <1>4 DEF WhyNobody, SenderOn
<1> QED
  BY <1>3, <1>4

LEMMA VisitorSound ==
    ASSUME PagesInv, NEW v \in Visitors, VisitorStep(v)
    PROVE  PageSound(v)'
<1> USE DEF PagesInv
<1>0. /\ RegistryInv /\ PageSound(v) /\ pages[v] \in Page
      /\ begun[v] \subseteq Addresses /\ senders \subseteq Addresses
  BY DEF DashboardTypeOK, RegistryInv, TypeOK
<1>1. ASSUME UNCHANGED vars, NEW page, Turn(v, page)
      PROVE  pages'[v] = page /\ UNCHANGED <<keys, standing, senders>>
  BY <1>1 DEF Turn, DashboardTypeOK, vars, registry, catalogue
<1>2. CASE ReadKeys(v)
  <2>1. /\ pages'[v] = [NoPage EXCEPT !.stage = "keys", !.live = Live(keys)]
        /\ UNCHANGED <<keys, standing, senders>>
        /\ begun'[v] = senders /\ disturbed'[v] = {}
    BY <1>1, <1>2 DEF ReadKeys, DashboardTypeOK
  <2>2. /\ pages'[v].stage = "keys" /\ pages'[v].live = Live(keys)
        /\ pages'[v].offered = {} /\ pages'[v].boxes = {}
    BY <2>1 DEF NoPage
  <2> QED
    BY <2>1, <2>2 DEF PageSound, Blank, KeysRead, OffersBacked, SnapshotsAgree, ReasonsGiven,
                      RefusalExplained, Live, Traced
<1>3. CASE ReadReadySenders(v)
  <2> DEFINE offered == Pairs(pages[v].live, ReadySenders)
  <2>1. /\ pages'[v] = [pages[v] EXCEPT !.stage = "options", !.live = {}, !.offered = offered]
        /\ UNCHANGED <<keys, standing, senders, begun, disturbed>>
    BY <1>1, <1>3 DEF ReadReadySenders
  <2>2. /\ \A k \in pages[v].live : k.active /\ Traced(k, disturbed[v], keys)
        /\ \A k \in keys : k.active => k.id \in disturbed[v] \/ k \in pages[v].live
    BY <1>0, <1>3 DEF PageSound, KeysRead, ReadReadySenders
  <2>3. /\ \A pair \in offered : Backed(pair, disturbed[v], keys, standing)
        /\ \A k \in pages[v].live : \A a \in k.scopes \intersect ReadySenders :
              [key |-> k.id, sender |-> a] \in offered
    BY <1>0, <2>2, PairsBacked
  <2> HIDE DEF offered
  <2>4. pages'[v].stage = "options" /\ pages'[v].offered = offered /\ pages'[v].boxes = pages[v].boxes
    BY <1>0, <2>1 DEF Page
  <2>5. ASSUME NEW a \in begun[v] \ disturbed[v], NEW k \in keys, k.id \notin disturbed[v],
               WouldSend(k, a)
        PROVE  [key |-> k.id, sender |-> a] \in offered
    <3>1. k \in pages[v].live
      BY <2>2, <2>5 DEF WouldSend
    <3>2. a \in k.scopes \intersect ReadySenders
      BY <1>0, <2>5 DEF WouldSend, ReadySenders, PageSound, SnapshotsAgree
    <3> QED
      BY <2>3, <3>1, <3>2
  <2>6. OffersBacked(v)'
    BY <2>1, <2>3, <2>4, <2>5 DEF OffersBacked, WouldSend
  <2> QED
    BY <1>0, <2>1, <2>4, <2>6 DEF PageSound, Blank, KeysRead, SnapshotsAgree, ReasonsGiven,
                                  RefusalExplained
\* The two SELECTs that add a snapshot.
<1>4. ASSUME NEW stage \in {"domains", "mailboxes"}, UNCHANGED <<vars, begun, disturbed>>,
             pages[v].stage \in {"options", "domains"}, pages'[v].stage = stage,
             pages'[v].offered = pages[v].offered,
             pages'[v].boxes \subseteq senders,
             stage = "mailboxes" => pages'[v].boxes = senders,
             \A a \in Addresses \ disturbed[v] : pages'[v].seen[DomainOf[a]] = standing[DomainOf[a]]
      PROVE  PageSound(v)'
  <2>1. UNCHANGED <<keys, standing, senders>>
    BY <1>4 DEF vars, registry, catalogue
  <2>2. OffersBacked(v)'
    BY <1>0, <1>4, <2>1 DEF PageSound, OffersBacked, WouldSend
  <2> QED
    BY <1>0, <1>4, <2>1, <2>2 DEF PageSound, Blank, KeysRead, SnapshotsAgree, ReasonsGiven,
                                  RefusalExplained
<1>5. CASE ReadDomains(v)
  <2>1. pages'[v] = [pages[v] EXCEPT !.stage = "domains", !.seen = standing]
    BY <1>1, <1>5 DEF ReadDomains
  <2>2. /\ pages'[v].stage = "domains" /\ pages'[v].seen = standing
        /\ pages'[v].offered = pages[v].offered /\ pages'[v].boxes = pages[v].boxes
    BY <1>0, <2>1 DEF Page
  <2> QED
    BY <1>0, <1>4, <1>5, <2>2 DEF ReadDomains, PageSound, SnapshotsAgree
<1>6. CASE ReadMailboxes(v)
  <2>1. pages'[v] = [pages[v] EXCEPT !.stage = "mailboxes", !.boxes = senders]
    BY <1>1, <1>6 DEF ReadMailboxes
  <2>2. /\ pages'[v].stage = "mailboxes" /\ pages'[v].seen = pages[v].seen
        /\ pages'[v].offered = pages[v].offered /\ pages'[v].boxes = senders
    BY <1>0, <2>1 DEF Page
  <2> QED
    BY <1>0, <1>4, <1>6, <2>2 DEF ReadMailboxes, PageSound, SnapshotsAgree
<1>7. CASE ReadScopes(v)
  <2> DEFINE blocked == BlockedSenders(pages[v].seen, pages[v].boxes, Live(keys))
  <2>1. /\ pages'[v] = [NoPage EXCEPT !.stage = "shown", !.offered = pages[v].offered,
                                      !.blocked = blocked]
        /\ UNCHANGED <<keys, standing, senders, begun, disturbed>>
        /\ pages[v].stage = "mailboxes"
    BY <1>1, <1>7 DEF ReadScopes
  <2>2. /\ \A a \in begun[v] \ disturbed[v] :
              /\ blocked[a] = "none" <=> \E k \in keys : WouldSend(k, a)
              /\ blocked[a] = "key" <=>
                    standing[DomainOf[a]] = "ready" /\ ~\E k \in keys : WouldSend(k, a)
        /\ \A a \in Addresses \ disturbed[v] :
              standing[DomainOf[a]] # "untracked" /\ ~SenderOn(DomainOf[a]) =>
                 blocked[DomainOf[a]] # "none"
    BY <1>0, <2>1, Told
  <2> HIDE DEF blocked
  <2>3. /\ pages'[v].stage = "shown" /\ pages'[v].blocked = blocked
        /\ pages'[v].offered = pages[v].offered /\ pages'[v].boxes = {}
    BY <2>1 DEF NoPage
  <2>4. ReasonsGiven(v)'
    BY <2>1, <2>2, <2>3 DEF ReasonsGiven, Undisturbed, SenderTold, DomainTold, WouldSend, SenderOn
  <2>5. OffersBacked(v)'
    BY <1>0, <2>1, <2>3 DEF PageSound, OffersBacked, WouldSend
  <2> QED
    BY <1>0, <2>1, <2>3, <2>4, <2>5 DEF PageSound, Blank, KeysRead, SnapshotsAgree, RefusalExplained
\* POST /test/send: from here on only the pair chosen matters.
<1>8. ASSUME UNCHANGED <<vars, begun, disturbed>>,
             pages[v].stage \in {"shown", "taken"},
             pages'[v].stage \in {"taken", "queued", "refused"},
             pages'[v].offered \subseteq pages[v].offered,
             pages'[v].boxes \subseteq pages[v].boxes,
             pages'[v].stage = "taken" =>
                /\ pages'[v].chosen \in [key : Ids, sender : Addresses]
                /\ Backed(pages'[v].chosen, disturbed[v], keys, standing),
             RefusalExplained(v)'
      PROVE  PageSound(v)'
  <2>1. UNCHANGED <<keys, standing, senders>>
    BY <1>8 DEF vars, registry, catalogue
  <2> QED
    BY <1>0, <1>8, <2>1 DEF PageSound, Blank, KeysRead, OffersBacked, SnapshotsAgree,
                            ReasonsGiven
<1>9. ASSUME NEW pair \in pages[v].offered, NEW recipient \in Recipients,
             SelectPrincipal(v, pair, recipient)
      PROVE  PageSound(v)'
  <2> DEFINE rows == KeyTested(pair.key)
             found == rows # {} /\ rows \subseteq Live(keys)
             fault == IF recipient = "blank" THEN "recipient"
                      ELSE IF found THEN "none" ELSE "pair"
             stage == IF fault = "none" THEN "taken" ELSE "refused"
  <2>1. /\ pages'[v] = [NoPage EXCEPT !.stage = stage, !.chosen = pair,
                                      !.recipient = recipient, !.fault = fault]
        /\ UNCHANGED <<vars, begun, disturbed>> /\ pages[v].stage = "shown"
    BY <1>1, <1>9 DEF SelectPrincipal
  <2>2. pair \in [key : Ids, sender : Addresses] /\ Backed(pair, disturbed[v], keys, standing)
    BY <1>0 DEF Page, PageSound, OffersBacked
  <2>3. found \/ {pair.key, pair.sender} \intersect disturbed[v] # {}
    BY <1>0, <2>2 DEF Backed, KeyTested, Live, RegistryInv, KeysFounded
  <2> HIDE DEF found
  <2>4. /\ pages'[v].stage = stage /\ pages'[v].chosen = pair
        /\ pages'[v].recipient = recipient /\ pages'[v].fault = fault
        /\ pages'[v].offered = {} /\ pages'[v].boxes = {}
    BY <2>1 DEF NoPage
  <2>5. RefusalExplained(v)'
    BY <2>1, <2>3, <2>4 DEF RefusalExplained
  <2> QED
    BY <1>8, <2>1, <2>2, <2>4, <2>5
<1>10. CASE Ingest(v)
  <2> DEFINE pair == pages[v].chosen
             permitted == pair.sender \in Scoped(KeyTested(pair.key)) \intersect ReadySenders
             fault == IF ~permitted THEN "pair"
                      ELSE IF pages[v].recipient # "fit" THEN "recipient" ELSE "none"
  <2>1. /\ UNCHANGED <<vars, begun, disturbed>> /\ pages[v].stage = "taken"
        /\ \/ pages'[v] = [pages[v] EXCEPT !.stage = "queued"]
           \/ /\ fault # "none"
              /\ pages'[v] = [pages[v] EXCEPT !.stage = "refused", !.fault = fault]
    BY <1>1, <1>10 DEF Ingest
  <2>2. /\ pair \in [key : Ids, sender : Addresses]
        /\ Backed(pair, disturbed[v], keys, standing)
    BY <1>0, <2>1 DEF PageSound, OffersBacked
  <2>3. permitted \/ {pair.key, pair.sender} \intersect disturbed[v] # {}
    <3>1. PICK k \in keys : /\ k.id = pair.key /\ pair.sender \in k.scopes
                            /\ \/ {pair.key, pair.sender} \intersect disturbed[v] # {}
                               \/ k.active /\ standing[DomainOf[pair.sender]] = "ready"
      BY <2>2 DEF Backed
    <3>2. pair.sender \in Scoped(KeyTested(pair.key))
      BY <3>1 DEF Scoped, KeyTested
    <3>3. pair.sender \in senders
      BY <1>0, <3>1 DEF RegistryInv, KeysFounded
    <3> QED
      BY <3>1, <3>2, <3>3 DEF ReadySenders
  <2> HIDE DEF permitted
  <2>4. /\ pages'[v].stage \in {"queued", "refused"}
        /\ pages'[v].stage = "refused" => fault # "none" /\ pages'[v].fault = fault
        /\ pages'[v].chosen = pair /\ pages'[v].recipient = pages[v].recipient
        /\ pages'[v].offered = pages[v].offered /\ pages'[v].boxes = pages[v].boxes
    BY <1>0, <2>1 DEF Page
  <2>5. RefusalExplained(v)'
    BY <2>1, <2>3, <2>4 DEF RefusalExplained
  <2> QED
    BY <1>8, <2>1, <2>4, <2>5
<1>11. CASE Leave(v)
  <2>1. /\ pages'[v] = NoPage /\ begun'[v] = {} /\ disturbed'[v] = {}
        /\ UNCHANGED <<keys, standing, senders>>
    BY <1>1, <1>11 DEF Leave, DashboardTypeOK
  <2>2. pages'[v].stage = "none" /\ pages'[v].offered = {} /\ pages'[v].boxes = {}
    BY <2>1 DEF NoPage
  <2> QED
    BY <2>1, <2>2 DEF PageSound, Blank, KeysRead, OffersBacked, SnapshotsAgree, ReasonsGiven,
                      RefusalExplained
<1> QED
  BY <1>2, <1>3, <1>5, <1>6, <1>7, <1>9, <1>10, <1>11 DEF VisitorStep

-----------------------------------------------------------------------------
(* The theorems *)

LEMMA DashboardInitHolds ==
    ASSUME DashboardInit
    PROVE  PagesInv
<1>1. RegistryInv
  BY RegistryInit DEF DashboardInit
<1>2. DashboardTypeOK
  BY <1>1, NoPageTyped DEF DashboardInit, DashboardTypeOK, RegistryInv
<1>3. \A v \in Visitors : PageSound(v)
  BY DEF DashboardInit, NoPage, PageSound, Blank, KeysRead, OffersBacked, SnapshotsAgree,
         ReasonsGiven, RefusalExplained
<1> QED
  BY <1>1, <1>2, <1>3 DEF PagesInv

LEMMA DashboardStep ==
    ASSUME PagesInv, [DashboardNext]_dashboardVars
    PROVE  PagesInv'
<1>1. ASSUME UNCHANGED vars
      PROVE  RegistryInv'
  BY <1>1, RegistryStep DEF PagesInv
<1>2. CASE Elsewhere
  <2>1. RegistryInv'
    BY <1>2, RegistryStep DEF PagesInv, Elsewhere
  <2>2. DashboardTypeOK'
    <3>1. Changed \subseteq Addresses \union Ids
      BY <1>2, WhatChanges DEF PagesInv, Elsewhere
    <3>2. disturbed' \in [Visitors -> SUBSET (Addresses \union Ids)]
      BY <1>2, <3>1 DEF Elsewhere, PagesInv, DashboardTypeOK
    <3> QED
      BY <1>2, <2>1, <3>2 DEF Elsewhere, PagesInv, DashboardTypeOK, RegistryInv
  <2> QED
    BY <1>2, <2>1, <2>2, ElsewhereSound DEF PagesInv
<1>3. ASSUME NEW v \in Visitors, VisitorStep(v)
      PROVE  PagesInv'
  <2>1. /\ UNCHANGED vars
        /\ \A u \in Visitors \ {v} : UNCHANGED <<pages[u], begun[u], disturbed[u]>>
    BY <1>3 DEF VisitorStep, ReadKeys, ReadReadySenders, ReadDomains, ReadMailboxes, ReadScopes,
                SelectPrincipal, Ingest, Leave, Turn, PagesInv, DashboardTypeOK
  <2>2. \A u \in Visitors \ {v} : PageSound(u)'
    BY <2>1, PageKept DEF PagesInv
  <2>3. PageSound(v)'
    BY <1>3, VisitorSound
  <2>4. DashboardTypeOK'
    BY <1>3, VisitorTyped DEF PagesInv
  <2> QED
    BY <1>1, <2>1, <2>2, <2>3, <2>4 DEF PagesInv
<1>4. CASE ApplicationSends \/ UNCHANGED dashboardVars
  <2>1. UNCHANGED <<vars, pages, begun, disturbed>> /\ sent' \in BOOLEAN
    BY <1>4 DEF ApplicationSends, dashboardVars, PagesInv, DashboardTypeOK
  <2>2. \A u \in Visitors : PageSound(u)'
    BY <2>1, PageKept DEF PagesInv
  <2> QED
    BY <1>1, <2>1, <2>2 DEF PagesInv, DashboardTypeOK, RegistryInv
<1> QED
  BY <1>2, <1>3, <1>4 DEF DashboardNext

\* The inductive invariant, of the registry and of every page stage by stage.
THEOREM DashboardInvariant == DashboardSpec => []PagesInv
BY DashboardInitHolds, DashboardStep, PTL DEF DashboardSpec

\* DashboardTypeOK, for every number of operators, visitors and keys.
THEOREM DashboardTyped == DashboardSpec => []DashboardTypeOK
<1>1. PagesInv => DashboardTypeOK
  BY DEF PagesInv
<1> QED
  BY <1>1, DashboardInvariant, PTL

\* However many operators create projects at once, a name stands for one of them
\* (the UNIQUE constraint that create_project meets).
THEOREM ProjectsUnique == DashboardSpec => []ProjectNamesUnique
<1>1. PagesInv => ProjectNamesUnique
  BY DEF PagesInv, RegistryInv
<1> QED
  BY <1>1, DashboardInvariant, PTL

LEMMA InvAdvises ==
    ASSUME RegistryInv
    PROVE  AdviceIsPossible
<1> USE DEF RegistryInv
<1>1. ASSUME Actions = {}
      PROVE  \A d \in Tracked : standing[d] = "ready"
  <2>1. \A d \in Tracked : DomainAction(d) = "nothing"
    BY <1>1 DEF Actions
  <2> QED
    BY <2>1 DEF DomainAction
<1>2. ASSUME Actions = {}
      PROVE  ReadySenders = senders
  <2>1. \A a \in senders : DomainOf[a] \in Tracked
    BY CatalogueConstants DEF KeysFounded, Tracked, TypeOK
  <2> QED
    BY <1>1, <1>2, <2>1 DEF ReadySenders
<1>3. ASSUME "provision" \in NextSteps
      PROVE  \E d \in Tracked : standing[d] # "unready" /\ ~SenderOn(d)
  <2>1. CASE Actions # {}
    <3>1. Tracked # {} /\ "provision" \in Actions
      BY <1>3, <2>1 DEF NextSteps
    <3>2. PICK d \in Tracked : DomainAction(d) = "provision"
      BY <3>1 DEF Actions
    <3> QED
      BY <3>2 DEF DomainAction
  <2>2. CASE Actions = {}
    <3>1. Tracked # {} /\ senders = {}
      BY <1>3, <2>2 DEF NextSteps
    <3> QED
      BY <1>1, <2>2, <3>1 DEF SenderOn
  <2> QED
    BY <2>1, <2>2
<1>4. "create key" \notin Actions /\ Actions \intersect {"send test", "done"} = {}
  BY DEF Actions, DomainAction
<1>5. ASSUME "create key" \in NextSteps
      PROVE  projects # {} /\ ReadySenders # {}
  <2>1. Actions = {} /\ senders # {} /\ projects # {}
    BY <1>4, <1>5 DEF NextSteps
  <2> QED
    BY <1>2, <2>1
<1>6. ASSUME NextSteps \intersect {"send test", "done"} # {}
      PROVE  \E k \in keys, a \in senders : WouldSend(k, a)
  <2>1. Actions = {} /\ Live(keys) # {}
    BY <1>4, <1>6 DEF NextSteps
  <2>2. PICK k \in keys : k.active
    BY <2>1 DEF Live
  <2>3. PICK a \in k.scopes : a \in senders
    BY DEF KeysFounded
  <2>4. standing[DomainOf[a]] = "ready"
    BY <1>2, <2>1, <2>3 DEF ReadySenders
  <2> QED
    BY <2>2, <2>3, <2>4 DEF WouldSend
<1> QED
  BY <1>3, <1>5, <1>6 DEF AdviceIsPossible

\* next_step never names an action that would be refused, and says "Ready to send"
\* only when some key sends (setup_state.py).
THEOREM AdvicePossible == DashboardSpec => []AdviceIsPossible
<1>1. PagesInv => AdviceIsPossible
  BY InvAdvises DEF PagesInv
<1> QED
  BY <1>1, DashboardInvariant, PTL

LEMMA InvOffers ==
    ASSUME PagesInv
    PROVE  OffersHold
BY DEF PagesInv, PageSound, RefusalExplained, OffersHold

\* A test send of a pair that the page offered, to an address that may be written
\* to, is refused only if its key or its sender's domain changed since; and so is
\* any other that is refused for the key or the sender rather than its recipient
\* (send_options, _principal_for, authorize_sender, ingest_message).
THEOREM OffersHonoured == DashboardSpec => []OffersHold
BY InvOffers, DashboardInvariant, PTL

LEMMA InvTells ==
    ASSUME PagesInv
    PROVE  PageTellsAll
<1> SUFFICES ASSUME NEW v \in Visitors, pages[v].stage = "shown"
             PROVE  /\ \A a \in begun[v] : Undisturbed(v, a) =>
                          /\ \A k \in keys : WouldSend(k, a) <=>
                                              [key |-> k.id, sender |-> a] \in pages[v].offered
                          /\ Offered(v, a) <=> pages[v].blocked[a] = "none"
                          /\ pages[v].blocked[a] = "key" <=> a \in ReadySenders /\ ~Offered(v, a)
                    /\ \A a \in Addresses : LET d == DomainOf[a] IN
                          a \notin disturbed[v] /\ d \in Tracked /\ ~SenderOn(d) =>
                             pages[v].blocked[d] # "none"
  BY DEF PageTellsAll
<1>1. RegistryInv /\ PageSound(v)
  BY DEF PagesInv
<1>2. ASSUME NEW a \in begun[v], Undisturbed(v, a)
      PROVE  /\ \A k \in keys : WouldSend(k, a) <=>
                                 [key |-> k.id, sender |-> a] \in pages[v].offered
             /\ Offered(v, a) <=> pages[v].blocked[a] = "none"
             /\ pages[v].blocked[a] = "key" <=> a \in ReadySenders /\ ~Offered(v, a)
  <2>1. a \in senders /\ a \notin disturbed[v] /\ SenderTold(v, a)
    BY <1>1, <1>2 DEF PageSound, SnapshotsAgree, ReasonsGiven, Undisturbed
  <2>2. ASSUME NEW k \in keys, WouldSend(k, a)
        PROVE  [key |-> k.id, sender |-> a] \in pages[v].offered
    BY <1>1, <1>2, <2>1, <2>2 DEF PageSound, OffersBacked, Undisturbed, WouldSend
  <2>3. ASSUME NEW k \in keys, [key |-> k.id, sender |-> a] \in pages[v].offered
        PROVE  WouldSend(k, a)
    <3>1. Backed([key |-> k.id, sender |-> a], disturbed[v], keys, standing)
      BY <1>1, <2>3 DEF PageSound, OffersBacked
    <3>2. PICK l \in keys : /\ l.id = k.id /\ a \in l.scopes
                            /\ \/ {k.id, a} \intersect disturbed[v] # {}
                               \/ l.active /\ standing[DomainOf[a]] = "ready"
      BY <3>1 DEF Backed
    <3>3. l = k
      BY <1>1, <3>2 DEF RegistryInv, KeysFounded
    <3> QED
      BY <1>2, <2>1, <3>2, <3>3 DEF Undisturbed, WouldSend
  <2>4. Offered(v, a) <=> \E k \in keys : WouldSend(k, a)
    BY <2>2, <2>3 DEF Offered
  <2> QED
    BY <2>1, <2>2, <2>3, <2>4 DEF SenderTold, ReadySenders
<1>3. ASSUME NEW a \in Addresses, a \notin disturbed[v], DomainOf[a] \in Tracked,
             ~SenderOn(DomainOf[a])
      PROVE  pages[v].blocked[DomainOf[a]] # "none"
  BY <1>1, <1>3 DEF PageSound, ReasonsGiven, DomainTold, Tracked
<1> QED
  BY <1>2, <1>3

\* The test page divides the senders between what it offers and what it explains,
\* over five snapshots and whatever is created, revoked and swept meanwhile
\* (send_options, blocked_senders).
THEOREM PageTells == DashboardSpec => []PageTellsAll
BY InvTells, DashboardInvariant, PTL

-----------------------------------------------------------------------------
(* Keys of one name *)

ActiveNamed(n) == {k \in keys : k.name = n /\ k.active}

Creating(n) == {o \in Operators : work[o].doing = "key" /\ work[o].name = n}

\* The inductive strengthening of TwinsBounded: a key under creation counts as made.
TwinsCounted ==
    \A n \in KeyNames :
        /\ IsFiniteSet(ActiveNamed(n))
        /\ Cardinality(ActiveNamed(n)) + Cardinality(Creating(n)) <= Cardinality(Operators)

LEMMA CreatorsFinite ==
    ASSUME NEW creators \in SUBSET Operators
    PROVE  /\ IsFiniteSet(creators) /\ Cardinality(creators) \in Nat
           /\ Cardinality(creators) <= Cardinality(Operators) /\ Cardinality(Operators) \in Nat
BY RegistryConstants, FS_Subset, FS_CardinalityType

LEMMA TwinsInit == DashboardInit => TwinsCounted
<1> SUFFICES ASSUME DashboardInit, NEW n \in KeyNames
             PROVE  /\ IsFiniteSet(ActiveNamed(n))
                    /\ Cardinality(ActiveNamed(n)) + Cardinality(Creating(n)) <= Cardinality(Operators)
  BY DEF TwinsCounted
<1>1. ActiveNamed(n) = {}
  BY DEF DashboardInit, Init, ActiveNamed
<1>2. Creating(n) \in SUBSET Operators
  BY DEF Creating
<1> QED
  BY <1>1, <1>2, CreatorsFinite, FS_EmptySet

\* A step after which the name has no more active keys and no more creators.
LEMMA TwinsNarrow ==
    ASSUME TwinsCounted, NEW n \in KeyNames,
           ActiveNamed(n)' \subseteq ActiveNamed(n), Creating(n)' \subseteq Creating(n)
    PROVE  /\ IsFiniteSet(ActiveNamed(n)')
           /\ Cardinality(ActiveNamed(n)') + Cardinality(Creating(n)') <= Cardinality(Operators)
<1> DEFINE a == Cardinality(ActiveNamed(n))
           c == Cardinality(Creating(n))
           b == Cardinality(ActiveNamed(n)')
           d == Cardinality(Creating(n)')
           all == Cardinality(Operators)
<1>1. IsFiniteSet(ActiveNamed(n)) /\ a + c <= all
  BY DEF TwinsCounted
<1>2. Creating(n) \in SUBSET Operators /\ Creating(n)' \in SUBSET Operators
  BY DEF Creating
<1>3. IsFiniteSet(ActiveNamed(n)') /\ a \in Nat /\ b \in Nat /\ b <= a
  BY <1>1, FS_Subset, FS_CardinalityType
<1>4. c \in Nat /\ d \in Nat /\ d <= c /\ all \in Nat
  BY <1>2, CreatorsFinite, FS_Subset
<1> HIDE DEF a, b, c, d, all
<1>5. b + d <= all
  BY <1>1, <1>3, <1>4
<1> QED
  BY <1>3, <1>5 DEF b, d, all

\* Creators come only when a name has no active key, and none counts twice.
LEMMA CreatorsMove ==
    ASSUME [Next]_vars, TypeOK, NEW n \in KeyNames
    PROVE  \/ Creating(n)' \subseteq Creating(n)
           \/ ActiveNamed(n) = {} /\ UNCHANGED keys
<1> USE DEF catalogue, registry
<1>1. CASE UNCHANGED work
  BY <1>1 DEF Creating
<1>2. ASSUME NEW o \in Operators, NEW w, w.doing # "key", work' = [work EXCEPT ![o] = w]
      PROVE  Creating(n)' \subseteq Creating(n)
  BY <1>2 DEF TypeOK, Creating
<1>3. AtRest.doing # "key" /\ Failed.doing # "key"
  BY DEF AtRest, Failed
<1>4. ASSUME NEW o \in Operators, Rest(o) \/ Resume(o, Failed)
      PROVE  Creating(n)' \subseteq Creating(n)
  BY <1>2, <1>3, <1>4 DEF Rest, Resume
<1>5. ASSUME NEW o \in Operators, NEW p \in ProjectNames, SelectProject(o, p)
      PROVE  Creating(n)' \subseteq Creating(n)
  <2>1. [doing |-> "project", name |-> p].doing # "key"
    OBVIOUS
  <2> QED
    BY <1>2, <1>4, <1>5, <2>1 DEF SelectProject, Refuse, Resume
<1>6. ASSUME NEW o \in Operators, NEW m \in KeyNames, SelectToRevoke(o, m)
      PROVE  Creating(n)' \subseteq Creating(n)
  <2>1. \A id : [doing |-> "revoke", id |-> id].doing # "key"
    OBVIOUS
  <2> QED
    BY <1>2, <1>4, <1>6, <2>1 DEF SelectToRevoke, Refuse, Resume
<1>7. ASSUME NEW o \in Operators, NEW m \in KeyNames, NEW p \in ProjectNames,
             NEW wanted \in SUBSET Addresses, SelectForKey(o, m, p, wanted)
      PROVE  \/ Creating(n)' \subseteq Creating(n)
             \/ ActiveNamed(n) = {} /\ UNCHANGED keys
  <2>1. CASE Refuse(o) \/ Resume(o, Failed)
    BY <1>4, <2>1 DEF Refuse
  <2>2. ASSUME NEW id,
               Resume(o, [doing |-> "key", name |-> m, project |-> id, scopes |-> wanted]),
               ~InUse(Named(m))
        PROVE  \/ Creating(n)' \subseteq Creating(n)
               \/ ActiveNamed(n) = {} /\ UNCHANGED keys
    <3>1. UNCHANGED keys
      BY <2>2 DEF Resume
    <3>2. CASE m = n
      BY <2>2, <3>1, <3>2 DEF InUse, Named, ActiveNamed
    <3>3. CASE m # n
      <4>1. work'[o].name # n /\ \A q \in Operators : q # o => work'[q] = work[q]
        BY <2>2, <3>3 DEF Resume, TypeOK
      <4> QED
        BY <4>1 DEF Creating
    <3> QED
      BY <3>2, <3>3
  <2> QED
    BY <1>7, <2>1, <2>2 DEF SelectForKey
<1>8. ASSUME NEW o \in Operators, InsertProject(o) \/ InsertKey(o) \/ UpdateRevoked(o) \/ Abort(o)
      PROVE  Creating(n)' \subseteq Creating(n)
  BY <1>4, <1>8 DEF InsertProject, InsertKey, UpdateRevoked, Abort, Refuse
<1> QED
  BY <1>1, <1>5, <1>6, <1>7, <1>8 DEF Next, vars, OperatorStep

LEMMA TwinsStep ==
    ASSUME RegistryInv, TwinsCounted, [Next]_vars
    PROVE  TwinsCounted'
<1> SUFFICES ASSUME NEW n \in KeyNames
             PROVE  /\ IsFiniteSet(ActiveNamed(n)')
                    /\ Cardinality(ActiveNamed(n)') + Cardinality(Creating(n)') <= Cardinality(Operators)
  BY DEF TwinsCounted
<1> USE DEF RegistryInv
<1>1. CASE ActiveNamed(n) = {} /\ UNCHANGED keys
  <2>1. ActiveNamed(n)' = {} /\ Creating(n)' \in SUBSET Operators
    BY <1>1 DEF ActiveNamed, Creating
  <2> QED
    BY <2>1, CreatorsFinite, FS_EmptySet
<1>2. CASE Creating(n)' \subseteq Creating(n) /\ \A o \in Operators : ~InsertKey(o)
  <2>1. CASE UNCHANGED keys
    BY <1>2, <2>1, TwinsNarrow DEF ActiveNamed
  <2>2. ASSUME NEW o \in Operators, UpdateRevoked(o)
        PROVE  ActiveNamed(n)' \subseteq ActiveNamed(n)
    <3> SUFFICES ASSUME NEW k \in keys', k.name = n, k.active
                 PROVE  k \in keys
      BY DEF ActiveNamed
    <3>1. PICK l \in keys : k = IF l.id = work[o].id THEN Revoked(l) ELSE l
      BY <2>2 DEF UpdateRevoked
    <3> QED
      BY <3>1, RevokedTyped DEF TypeOK
  <2>3. UNCHANGED keys \/ \E o \in Operators : UpdateRevoked(o)
    BY <1>2 DEF Next, vars, registry, catalogue, OperatorStep, SelectProject, InsertProject,
                SelectForKey, SelectToRevoke, Abort, Refuse, Resume
  <2> QED
    BY <1>2, <2>1, <2>2, <2>3, TwinsNarrow
<1>3. ASSUME NEW o \in Operators, InsertKey(o)
      PROVE  /\ IsFiniteSet(ActiveNamed(n)')
             /\ Cardinality(ActiveNamed(n)') + Cardinality(Creating(n)') <= Cardinality(Operators)
  <2>1. PICK id \in FreshIds(keys) :
           keys' = keys \union {[id |-> id, name |-> work[o].name, project |-> work[o].project,
                                 scopes |-> work[o].scopes, active |-> TRUE]}
    BY <1>3 DEF InsertKey
  <2> DEFINE new == [id |-> id, name |-> work[o].name, project |-> work[o].project,
                     scopes |-> work[o].scopes, active |-> TRUE]
  <2>2. new.name = work[o].name /\ keys' = keys \union {new}
    BY <2>1
  <2> HIDE DEF new
  <2>3. work'[o].doing = "nothing" /\ \A q \in Operators : q # o => work'[q] = work[q]
    BY <1>3 DEF InsertKey, Rest, AtRest, TypeOK
  <2>4. Creating(n)' \subseteq Creating(n) \ {o}
    BY <2>3 DEF Creating
  <2>5. CASE work[o].name # n
    <3>1. ActiveNamed(n)' \subseteq ActiveNamed(n)
      BY <2>2, <2>5 DEF ActiveNamed
    <3> QED
      BY <2>4, <3>1, TwinsNarrow
  <2>6. CASE work[o].name = n
    <3> DEFINE a == Cardinality(ActiveNamed(n))
               c == Cardinality(Creating(n))
               b == Cardinality(ActiveNamed(n)')
               d == Cardinality(Creating(n)')
               all == Cardinality(Operators)
    <3>1. o \in Creating(n)
      BY <1>3, <2>6 DEF InsertKey, Creating
    <3>2. IsFiniteSet(ActiveNamed(n)) /\ a + c <= all
      BY DEF TwinsCounted
    <3>3. ActiveNamed(n)' \subseteq ActiveNamed(n) \union {new}
      BY <2>2 DEF ActiveNamed
    <3>4. /\ IsFiniteSet(ActiveNamed(n) \union {new})
          /\ \/ Cardinality(ActiveNamed(n) \union {new}) = a
             \/ Cardinality(ActiveNamed(n) \union {new}) = a + 1
      BY <3>2, FS_AddElement
    <3>5. /\ IsFiniteSet(ActiveNamed(n)') /\ b \in Nat
          /\ b <= Cardinality(ActiveNamed(n) \union {new})
      BY <3>3, <3>4, FS_Subset, FS_CardinalityType
    <3>6. a \in Nat
      BY <3>2, FS_CardinalityType
    <3>7. Creating(n) \in SUBSET Operators
      BY DEF Creating
    <3>8. IsFiniteSet(Creating(n)) /\ c \in Nat /\ all \in Nat
      BY <3>7, CreatorsFinite
    <3>9. IsFiniteSet(Creating(n) \ {o}) /\ Cardinality(Creating(n) \ {o}) = c - 1
      BY <3>1, <3>8, FS_RemoveElement
    <3>10. d \in Nat /\ d <= c - 1
      BY <2>4, <3>9, FS_Subset, FS_CardinalityType
    <3> HIDE DEF a, b, c, d, all
    <3>11. b + d <= all
      BY <3>2, <3>4, <3>5, <3>6, <3>8, <3>10
    <3> QED
      BY <3>5, <3>11 DEF b, d, all
  <2> QED
    BY <2>5, <2>6
<1> QED
  BY <1>1, <1>2, <1>3, CreatorsMove

\* A name never has more active keys than there are operators: create-key looks for an
\* active key of the name first, so only creations in flight together leave twins
\* (create_key; api_keys.name has no UNIQUE).
THEOREM TwinsAreBounded == DashboardSpec => []TwinsBounded
<1>1. DashboardInit => PagesInv /\ TwinsCounted
  BY DashboardInitHolds, TwinsInit
<1>2. ASSUME PagesInv, TwinsCounted, [DashboardNext]_dashboardVars
      PROVE  PagesInv' /\ TwinsCounted'
  <2>1. [Next]_vars
    <3>1. ASSUME NEW v \in Visitors, VisitorStep(v)
          PROVE  UNCHANGED vars
      BY <3>1 DEF VisitorStep, ReadKeys, ReadReadySenders, ReadDomains, ReadMailboxes,
                  ReadScopes, SelectPrincipal, Ingest, Leave
    <3> QED
      BY <1>2, <3>1 DEF DashboardNext, ApplicationSends, Elsewhere, dashboardVars
  <2>2. RegistryInv
    BY <1>2 DEF PagesInv
  <2> QED
    BY <1>2, <2>1, <2>2, DashboardStep, TwinsStep
<1>3. TwinsCounted => TwinsBounded
  <2> SUFFICES ASSUME TwinsCounted, NEW n \in KeyNames
               PROVE  Cardinality(ActiveNamed(n)) <= Cardinality(Operators)
    BY DEF TwinsBounded, ActiveNamed
  <2>1. /\ IsFiniteSet(ActiveNamed(n))
        /\ Cardinality(ActiveNamed(n)) + Cardinality(Creating(n)) <= Cardinality(Operators)
    BY DEF TwinsCounted
  <2>2. Creating(n) \in SUBSET Operators
    BY DEF Creating
  <2>3. /\ Cardinality(ActiveNamed(n)) \in Nat /\ Cardinality(Creating(n)) \in Nat
        /\ Cardinality(Operators) \in Nat
    BY <2>1, <2>2, CreatorsFinite, FS_CardinalityType
  <2> QED
    BY <2>1, <2>3
<1> QED
  BY <1>1, <1>2, <1>3, PTL DEF DashboardSpec
=============================================================================
