------------------------------ MODULE KeyRegistry ------------------------------
(***************************************************************************)
(* Projects and API keys as operators manage them, from the dashboard and  *)
(* the admin CLI at once (emaild/management.py).  Each operation runs in   *)
(* one READ COMMITTED transaction: first its SELECTs, then its INSERT or   *)
(* UPDATE with the COMMIT, and another operation may fall in between.      *)
(* Project names have a unique constraint, key names have none.  A key's   *)
(* scopes are mailboxes of the catalogue, chosen once, at its creation.    *)
(***************************************************************************)
EXTENDS Naturals, FiniteSets, SenderCatalogue

CONSTANTS
    Operators,         \* dashboard requests and CLI commands in progress
    ProjectNames, KeyNames,
    Ids                \* bound: primary keys to give out, for either table

ASSUME RegistryConstants == IsFiniteSet(Operators)

VARIABLES
    projects,          \* the projects table
    keys,              \* the api_keys table
    work               \* the operation each operator has in progress

registry == <<projects, keys, work>>
vars == <<registry, catalogue>>

ProjectRow == [id : Ids, name : ProjectNames]
KeyRow == [id : Ids, name : KeyNames, project : Ids, scopes : SUBSET Addresses,
           active : BOOLEAN]

\* An operation between its SELECTs and its write.  What an operator is left
\* with is an answer, or the error page of an exception nobody caught.
AtRest == [doing |-> "nothing"]
Failed == [doing |-> "nothing", failed |-> TRUE]
Work == {AtRest, Failed}
     \union [doing : {"project"}, name : ProjectNames]
     \union [doing : {"key"}, name : KeyNames, project : Ids, scopes : SUBSET Addresses]
     \union [doing : {"revoke"}, id : Ids]

Free(o) == work[o].doing = "nothing"

\* SELECT ... WHERE name = n, read with scalar_one_or_none(): more than one row
\* raises MultipleResultsFound, which nobody catches.
Named(n) == {k \in keys : k.name = n}
Ambiguous(rows) == Cardinality(rows) > 1

ProjectsNamed(p) == {row \in projects : row.name = p}

\* Mutant: a key refers to its project by name.
ProjectIdsByName(p) == {row.name : row \in ProjectsNamed(p)}

ProjectIds(p) == {row.id : row \in ProjectsNamed(p)}

\* projects.name is UNIQUE.
ProjectTaken(p) == ProjectsNamed(p) # {}

Revoked(k) == [k EXCEPT !.active = FALSE]

FreshIds(rows) == Ids \ {row.id : row \in rows}

Init ==
    /\ projects = {} /\ keys = {}
    /\ work = [o \in Operators |-> AtRest]
    /\ CatalogueInit

-----------------------------------------------------------------------------
Rest(o) == work' = [work EXCEPT ![o] = AtRest]

Refuse(o) == Rest(o) /\ UNCHANGED <<projects, keys, catalogue>>

Resume(o, w) ==
    work' = [work EXCEPT ![o] = w] /\ UNCHANGED <<projects, keys, catalogue>>

\* create_project
SelectProject(o, p) ==
    /\ Free(o)
    /\ \/ ProjectsNamed(p) # {} /\ Refuse(o)
       \/ ProjectsNamed(p) = {} /\ Resume(o, [doing |-> "project", name |-> p])

InsertProject(o) ==
    /\ work[o].doing = "project"
    /\ LET p == work[o].name IN
       \/ ProjectTaken(p) /\ Refuse(o)
       \/ /\ ~ProjectTaken(p)
          /\ \E id \in FreshIds(projects) :
                projects' = projects \union {[id |-> id, name |-> p]}
          /\ Rest(o)
          /\ UNCHANGED <<keys, catalogue>>

\* Mutant: the name is not looked at.
NeverInUse(rows) == FALSE

\* create_api_key refuses a name in use: a revoked one is free again.
InUse(rows) == \E k \in rows : k.active

\* create_api_key: at least one sender identity, and all of them known.
Grantable(wanted) == wanted # {} /\ wanted \subseteq senders

\* create_api_key: the project, the sender identities and the name.
SelectForKey(o, n, p, wanted) ==
    LET asked == ProjectsNamed(p) # {} /\ Grantable(wanted) IN
    /\ Free(o)
    /\ \/ ~asked /\ Refuse(o)
       \/ asked /\ Ambiguous(Named(n)) /\ Resume(o, Failed)
       \/ asked /\ ~Ambiguous(Named(n)) /\ InUse(Named(n)) /\ Refuse(o)
       \/ /\ asked /\ ~Ambiguous(Named(n)) /\ ~InUse(Named(n))
          /\ \E id \in ProjectIds(p) :
                Resume(o, [doing |-> "key", name |-> n, project |-> id, scopes |-> wanted])

InsertKey(o) ==
    /\ work[o].doing = "key"
    /\ \E id \in FreshIds(keys) :
          keys' = keys \union {[id |-> id, name |-> work[o].name,
                                project |-> work[o].project, scopes |-> work[o].scopes,
                                active |-> TRUE]}
    /\ Rest(o)
    /\ UNCHANGED <<projects, catalogue>>

\* revoke_api_key
SelectToRevoke(o, n) ==
    /\ Free(o)
    /\ \/ Named(n) = {} /\ Refuse(o)
       \/ Ambiguous(Named(n)) /\ Resume(o, Failed)
       \/ /\ ~Ambiguous(Named(n))
          /\ \E k \in Named(n) :
                \/ ~k.active /\ Refuse(o)
                \/ k.active /\ Resume(o, [doing |-> "revoke", id |-> k.id])

UpdateRevoked(o) ==
    /\ work[o].doing = "revoke"
    /\ keys' = {IF k.id = work[o].id THEN Revoked(k) ELSE k : k \in keys}
    /\ Rest(o)
    /\ UNCHANGED <<projects, catalogue>>

\* The process dies or the connection drops before the COMMIT.
Abort(o) == ~Free(o) /\ Refuse(o)

OperatorStep(o) ==
    \/ \E p \in ProjectNames : SelectProject(o, p)
    \/ \E n \in KeyNames, p \in ProjectNames, wanted \in SUBSET Addresses :
          SelectForKey(o, n, p, wanted)
    \/ \E n \in KeyNames : SelectToRevoke(o, n)
    \/ InsertProject(o) \/ InsertKey(o) \/ UpdateRevoked(o) \/ Abort(o)

Next ==
    \/ \E o \in Operators : OperatorStep(o)
    \/ CatalogueNext /\ UNCHANGED registry

Spec == Init /\ [][Next]_vars

-----------------------------------------------------------------------------
(* Properties *)

\* Every variable keeps its type.
TypeOK ==
    /\ projects \in SUBSET ProjectRow
    /\ keys \in SUBSET KeyRow
    /\ work \in [Operators -> Work]
    /\ standing \in [Domains -> Standings] /\ senders \in SUBSET Addresses

\* Keys are created for a project looked up by name: creators that race never
\* make the name stand for two projects.
ProjectNamesUnique ==
    \A p, q \in projects : p.name = q.name => p = q

\* "An active key named ... already exists" (management.py).  Creators that race
\* can all find a name free, and then it has a key of each; but there they stop,
\* whatever is revoked and created anew: never more than creators at once.
TwinsBounded ==
    \A n \in KeyNames :
        Cardinality({k \in keys : k.name = n /\ k.active}) <= Cardinality(Operators)

-----------------------------------------------------------------------------
(* A claim of the repository that the code does not keep *)

\* vision.md: keys "can be named, audited, revoked, and replaced".  Revoking a
\* name that has an active key does not fail.
ActiveKeysRevocable ==
    [][\A o \in Operators, n \in KeyNames :
         SelectToRevoke(o, n) /\ InUse(Named(n)) => work'[o].doing = "revoke"]_vars
=============================================================================
