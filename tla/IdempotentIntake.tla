--------------------------- MODULE IdempotentIntake ---------------------------
(***************************************************************************)
(* What the API promises a client that submits mail under an               *)
(* Idempotency-Key (docs/integration.md, "Don't send twice"): a key stands *)
(* for at most one message of its project, and whoever is told that a      *)
(* request was accepted is told the id of a message that was made for just *)
(* such a request and that exists for good.                                *)
(***************************************************************************)
CONSTANTS
    Projects,          \* sending projects
    Keys,              \* idempotency keys
    NoKey,             \* the header was not sent
    Bodies,            \* request bodies
    Ids                \* public ids of messages

VARIABLES
    accepted,          \* the messages that exist
    told               \* what clients were told: this request became that id

vars == <<accepted, told>>

Submission == [project : Projects, key : Keys \union {NoKey}, body : Bodies]

Init == accepted = {} /\ told = {}

Free(s) ==
    s.key # NoKey =>
        \A m \in accepted : ~(m.project = s.project /\ m.key = s.key)

Accept(s, id) ==
    /\ Free(s)
    /\ \A m \in accepted : m.id # id
    /\ accepted' = accepted \union
         {[id |-> id, project |-> s.project, key |-> s.key, body |-> s.body]}
    /\ UNCHANGED told

Tell(s, m) ==
    /\ m.project = s.project /\ m.key = s.key /\ m.body = s.body
    /\ told' = told \union {[submission |-> s, id |-> m.id]}
    /\ UNCHANGED accepted

Next ==
    \E s \in Submission :
        \/ \E id \in Ids : Accept(s, id)
        \/ \E m \in accepted : Tell(s, m)

Spec == Init /\ [][Next]_vars
=============================================================================
