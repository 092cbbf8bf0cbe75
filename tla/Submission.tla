------------------------------ MODULE Submission ------------------------------
(***************************************************************************)
(* POST /v1/emails: a client's submission from the bearer key to the       *)
(* durable row (emaild/api/v1.py, auth.py, ingest.py).                     *)
(*                                                                         *)
(* Calls run concurrently in the API's event loop.  A call authenticates   *)
(* in a transaction of its own and ingests in a second one; at READ        *)
(* COMMITTED every SELECT sees what was committed before it, so each is a  *)
(* step, and so is the closing INSERT and COMMIT.  Clients time out and    *)
(* repeat a submission while the first call still runs; calls die with the *)
(* process; answers get lost.  A test send from the dashboard takes the    *)
(* same steps, without an Idempotency-Key.                                 *)
(***************************************************************************)
EXTENDS Naturals, FiniteSets

CONSTANTS
    Calls,             \* HTTP requests the server may have in hand at once
    Ids,               \* bound: public ids there are to give out
    Projects, ApiKeys, Senders, Addresses,
    Keys,              \* idempotency keys
    NoKey,             \* no Idempotency-Key header
    Bodies,            \* request bodies (their hash tells them apart)
    ProjectOf,         \* the project of each API key
    Scope,             \* the sender identities each API key may use
    SenderOf,          \* the `from` of a body
    RecipientsOf,      \* to + cc + bcc of a body
    Valid,             \* bodies within the recipient and size limits
    Requests,          \* the submissions clients make
    ReadyAtFirst, SuppressedAtFirst,
    MaxChanges,        \* bound: changes to keys, domains and suppressions
    NoRequest,         \* a call that is not in use
    NoId               \* an answer without a message

Request == [apiKey : ApiKeys, key : Keys \union {NoKey}, body : Bodies]

ASSUME SubmissionConstants ==
    /\ ProjectOf \in [ApiKeys -> Projects]
    /\ Scope \in [ApiKeys -> SUBSET Senders]
    /\ SenderOf \in [Bodies -> Senders]
    /\ RecipientsOf \in [Bodies -> SUBSET Addresses]
    /\ Valid \subseteq Bodies
    /\ Requests \subseteq Request
    /\ ReadyAtFirst \subseteq Senders /\ SuppressedAtFirst \subseteq Addresses
    /\ MaxChanges \in Nat
    /\ NoKey \notin Keys /\ NoId \notin Ids /\ NoRequest \notin Request

VARIABLES
    mail,              \* the messages table
    seen,              \* the idempotency_keys table
    active,            \* API keys neither revoked nor inactive
    ready,             \* senders whose domain is READY
    suppressed,        \* the suppressions table
    calls,             \* the calls in hand
    fit,               \* history: which checks could have passed since a call arrived
    told,              \* history: the ids clients were told
    changes            \* counts against MaxChanges

tables == <<mail, seen>>
policy == <<active, ready, suppressed, changes>>
vars == <<tables, policy, calls, fit, told>>

-----------------------------------------------------------------------------
(* Rows and calls *)

Mail == [id : Ids, apiKey : ApiKeys, key : Keys \union {NoKey}, body : Bodies]

\* The stored response is the message's id; the hash is the body's.
Stored == [project : Projects, key : Keys, body : Bodies, id : Ids]

Results == {"none", "ok", "unauthenticated", "forbidden", "not_ready", "invalid",
            "suppressed", "key_reused", "conflict"}

\* A call carries its principal (the senders as they were when loaded) and, at
\* the end, its answer.  `late` is history: its key was stored before it came.
Call == [place : {"free", "arrived", "identified", "authenticated", "screened",
                  "fresh", "answered"},
         request : Requests \union {NoRequest},
         senders : SUBSET Senders, result : Results, id : Ids \union {NoId},
         late : BOOLEAN]

FreeCall == [place |-> "free", request |-> NoRequest, senders |-> {},
             result |-> "none", id |-> NoId, late |-> FALSE]

Project(r) == ProjectOf[r.apiKey]

\* Mutant: the row looked up for the credential that stored it.
StoredForCredential(r) ==
    {row \in seen : /\ row.project = Project(r) /\ row.key = r.key
                    /\ \E m \in mail : m.id = row.id /\ m.apiKey = r.apiKey}

\* The idempotency row of a request: at most one, by uq_idempotency_project_key.
StoredFor(r) == {row \in seen : row.project = Project(r) /\ row.key = r.key}

\* Mutant: a unique constraint that a different body slips through.
KeyTakenByTwin(r) ==
    \E row \in seen : row.project = Project(r) /\ row.key = r.key /\ row.body = r.body

\* What the INSERT collides with.
KeyTaken(r) == \E row \in seen : row.project = Project(r) /\ row.key = r.key

FreshIds == Ids \ {m.id : m \in mail}

\* Mutants: the replay answers whatever the body; a hash that is never the same.
SameBodyAssumed(row, r) == TRUE
SameBodyNever(row, r) == FALSE

\* request_hash compared.
SameBody(row, r) == row.body = r.body

\* Mutant: the principal of a key is its scope, whatever the domains' state.
UsableIgnoringDomains(k) == Scope[k]

\* The scoped mailboxes on READY domains.
Usable(k) == Scope[k] \intersect ready

Blocked(body) == RecipientsOf[body] \intersect suppressed # {}

-----------------------------------------------------------------------------
Init ==
    /\ mail = {} /\ seen = {}
    /\ active = ApiKeys /\ ready = ReadyAtFirst /\ suppressed = SuppressedAtFirst
    /\ calls = [c \in Calls |-> FreeCall]
    /\ fit = [c \in Calls |-> {}]
    /\ told = {} /\ changes = 0

-----------------------------------------------------------------------------
(* A call's steps *)

\* History: the checks the request would pass against this policy.
Passing(r, act, rdy, supp) ==
    {check \in {"key", "sender", "recipients"} :
        CASE check = "key" -> r.apiKey \in act
          [] check = "sender" -> SenderOf[r.body] \in Scope[r.apiKey] \intersect rdy
          [] check = "recipients" -> RecipientsOf[r.body] \intersect supp = {}}

Arrive(c, r) ==
    /\ calls[c].place = "free"
    /\ calls' = [calls EXCEPT ![c] = [FreeCall EXCEPT !.place = "arrived", !.request = r,
                                                      !.late = KeyTaken(r)]]
    /\ fit' = [fit EXCEPT ![c] = Passing(r, active, ready, suppressed)]
    /\ UNCHANGED <<tables, policy, told>>

\* A step that only reads: the call moves on, or is answered.
Step(c, call) ==
    /\ calls' = [calls EXCEPT ![c] = call]
    /\ UNCHANGED <<tables, policy, fit, told>>

Proceed(c, place) == Step(c, [calls[c] EXCEPT !.place = place])

Answer(c, result, id) ==
    Step(c, [calls[c] EXCEPT !.place = "answered", !.result = result, !.id = id])

\* resolve_principal: the key's row ...
Authenticate(c) ==
    LET k == calls[c].request.apiKey IN
    /\ calls[c].place = "arrived"
    /\ \/ k \in active /\ Proceed(c, "identified")
       \/ k \notin active /\ Answer(c, "unauthenticated", NoId)

\* ... and the mailboxes in its scope, with their domains.
LoadSenders(c) ==
    /\ calls[c].place = "identified"
    /\ Step(c, [calls[c] EXCEPT !.place = "authenticated",
                                !.senders = Usable(calls[c].request.apiKey)])

\* ingest_message: authorize_sender and the limits look at the principal and the
\* body alone; _check_suppressions reads the table.
Screen(c) ==
    LET r == calls[c].request
        allowed == SenderOf[r.body] \in calls[c].senders IN
    /\ calls[c].place = "authenticated"
    /\ \/ /\ SenderOf[r.body] \notin Scope[r.apiKey]
          /\ Answer(c, "forbidden", NoId)
       \/ /\ SenderOf[r.body] \in Scope[r.apiKey] /\ ~allowed
          /\ Answer(c, "not_ready", NoId)
       \/ allowed /\ r.body \notin Valid /\ Answer(c, "invalid", NoId)
       \/ /\ allowed /\ r.body \in Valid /\ Blocked(r.body)
          /\ Answer(c, "suppressed", NoId)
       \/ /\ allowed /\ r.body \in Valid /\ ~Blocked(r.body)
          /\ Proceed(c, "screened")

\* _replay_if_seen.  A row is never visible without its response: both are
\* inserted in the transaction that writes the message.
Replay(c) ==
    LET r == calls[c].request IN
    /\ calls[c].place = "screened"
    /\ \/ StoredFor(r) = {} /\ Proceed(c, "fresh")
       \/ \E row \in StoredFor(r) :
             \/ SameBody(row, r) /\ Answer(c, "ok", row.id)
             \/ ~SameBody(row, r) /\ Answer(c, "key_reused", NoId)

\* Mutant: the row stored before the message has an id.
StoredRowWithoutId(r, id) ==
    IF r.key = NoKey THEN {}
    ELSE {[project |-> Project(r), key |-> r.key, body |-> r.body, id |-> NoId]}

StoredRow(r, id) ==
    IF r.key = NoKey THEN {}
    ELSE {[project |-> Project(r), key |-> r.key, body |-> r.body, id |-> id]}

\* The durable write: message and key in one COMMIT.
Commit(c) ==
    LET r == calls[c].request IN
    /\ calls[c].place = "fresh" /\ ~KeyTaken(r)
    /\ \E id \in FreshIds :
          /\ mail' = mail \union
                {[id |-> id, apiKey |-> r.apiKey, key |-> r.key, body |-> r.body]}
          /\ seen' = seen \union StoredRow(r, id)
          /\ calls' = [calls EXCEPT ![c] =
                         [@ EXCEPT !.place = "answered", !.result = "ok", !.id = id]]
    /\ UNCHANGED <<policy, fit, told>>

\* The INSERT collides: another call stored the key since the lookup.
LoseRace(c) ==
    /\ calls[c].place = "fresh" /\ KeyTaken(calls[c].request)
    /\ Answer(c, "conflict", NoId)

\* The client gets its answer.
Respond(c) ==
    /\ calls[c].place = "answered"
    /\ calls' = [calls EXCEPT ![c] = FreeCall]
    /\ fit' = [fit EXCEPT ![c] = {}]
    /\ told' = IF calls[c].result = "ok"
               THEN told \union {[request |-> calls[c].request, id |-> calls[c].id]}
               ELSE told
    /\ UNCHANGED <<tables, policy>>

\* The process dies, a statement raises, or the client stops listening: what was
\* not committed is rolled back and nobody gets an answer.
Vanish(c) ==
    /\ calls[c].place # "free"
    /\ calls' = [calls EXCEPT ![c] = FreeCall]
    /\ fit' = [fit EXCEPT ![c] = {}]
    /\ UNCHANGED <<tables, policy, told>>

-----------------------------------------------------------------------------
(* What operators, bounces and the DNS sweep change meanwhile *)

Change(act, rdy, supp) ==
    /\ changes < MaxChanges
    /\ changes' = changes + 1
    /\ active' = act /\ ready' = rdy /\ suppressed' = supp
    /\ fit' = [c \in Calls |->
                 IF calls[c].place = "free" THEN {}
                 ELSE fit[c] \union Passing(calls[c].request, act, rdy, supp)]
    /\ UNCHANGED <<tables, calls, told>>

RevokeKey(k) == k \in active /\ Change(active \ {k}, ready, suppressed)

\* refresh_domain moves a domain out of READY or back.
DomainChanges(s) ==
    \/ s \in ready /\ Change(active, ready \ {s}, suppressed)
    \/ s \notin ready /\ Change(active, ready \union {s}, suppressed)

Suppress(a) == a \notin suppressed /\ Change(active, ready, suppressed \union {a})

Unsuppress(a) == a \in suppressed /\ Change(active, ready, suppressed \ {a})

-----------------------------------------------------------------------------
Next ==
    \/ \E c \in Calls : \E r \in Requests : Arrive(c, r)
    \/ \E c \in Calls :
          \/ Authenticate(c) \/ LoadSenders(c) \/ Screen(c) \/ Replay(c)
          \/ Commit(c) \/ LoseRace(c) \/ Respond(c) \/ Vanish(c)
    \/ \E k \in ApiKeys : RevokeKey(k)
    \/ \E s \in Senders : DomainChanges(s)
    \/ \E a \in Addresses : Suppress(a) \/ Unsuppress(a)

Spec == Init /\ [][Next]_vars

-----------------------------------------------------------------------------
(* Properties *)

Checks == {"key", "sender", "recipients"}

Receipt == [request : Requests, id : Ids]

\* Every variable keeps its type.
TypeOK ==
    /\ mail \in SUBSET Mail
    /\ seen \in SUBSET Stored
    /\ active \in SUBSET ApiKeys
    /\ ready \in SUBSET Senders
    /\ suppressed \in SUBSET Addresses
    /\ calls \in [Calls -> Call]
    /\ fit \in [Calls -> SUBSET Checks]
    /\ told \in SUBSET Receipt
    /\ changes \in Nat

\* "Replaying the same key ... creates nothing" (docs/integration.md): however
\* many calls race with one key, its project has one message under it.
OneMailPerKey ==
    \A m, n \in mail :
        m.key # NoKey /\ m.key = n.key /\ Project(m) = Project(n) => m = n

\* The three checks read the principal, the domains and the suppressions at three
\* moments.  A call about to write has passed each one as it was at some moment
\* since the call arrived: nothing is accepted on a permission or a list that was
\* already out of date when the client sent it.
AcceptedWasPermitted ==
    \A c \in Calls : calls[c].place = "fresh" => fit[c] = Checks

\* 409 idempotency_conflict: "Retry shortly".  The retry is not told the same
\* again: a call that came after its key was stored never loses the race.
RetryDoesNotConflict ==
    \A c \in Calls : calls[c].result = "conflict" => ~calls[c].late

\* "Replaying the same key with the same body returns the original `id`"
\* (docs/integration.md).  The checks come before the lookup, so a change to keys,
\* domains or suppressions may refuse the repeat; nothing else does.
ReplayReturnsOriginal ==
    \A c \in Calls, m \in mail :
        LET r == calls[c].request IN
        /\ calls[c].place = "answered" /\ calls[c].late /\ changes = 0
        /\ m.key = r.key /\ m.apiKey = r.apiKey /\ m.body = r.body
        => calls[c].result = "ok" /\ calls[c].id = m.id

\* The calls implement the intake the documentation promises.
SubmissionOf(r) == [project |-> Project(r), key |-> r.key, body |-> r.body]

Intake == INSTANCE IdempotentIntake WITH
    accepted <- {[id |-> m.id, project |-> Project(m), key |-> m.key, body |-> m.body] :
                    m \in mail},
    told <- {[submission |-> SubmissionOf(t.request), id |-> t.id] : t \in told}

\* A key stands for one message for good, and a client is told "ok" only of a
\* message made for the very request it sent, which exists: no answer runs ahead
\* of the COMMIT, comes from another project or stands for another body.
KeepsIntake == Intake!Spec

=============================================================================
