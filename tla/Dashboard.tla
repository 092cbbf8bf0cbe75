------------------------------- MODULE Dashboard -------------------------------
(***************************************************************************)
(* What the dashboard tells an operator (emaild/dashboard): the one next   *)
(* step (setup_state.py), the senders a key may be given (routes.py), and  *)
(* the page that sends a test message (testsend.py), which offers the      *)
(* pairs of key and sender that work and says of every other sender what   *)
(* it lacks.                                                               *)
(*                                                                         *)
(* A page is composed of several SELECTs in one READ COMMITTED             *)
(* transaction, each with a snapshot of its own, while operators manage    *)
(* keys and the catalogue changes; and it is looked at, and submitted,     *)
(* long after.                                                             *)
(***************************************************************************)
EXTENDS KeyRegistry

CONSTANT Visitors      \* browsers on the test page

\* A page speaks of addresses, of domains and of keys, and never mixes them up.
ASSUME DashboardConstants == Addresses \intersect (Domains \union Ids) = {}

VARIABLES
    sent,              \* whether there is any message
    pages,             \* the page each visitor has, as far as it is composed
    begun,             \* history: the senders there were when it was begun
    disturbed          \* history: senders and keys it is about that changed since

dashboardVars == <<vars, sent, pages, begun, disturbed>>

Reasons == {"none", "recheck", "key", "provision", "publish"}

\* What is typed as the recipient of a test: an address that may be written to,
\* nothing but blanks, or one that is malformed or on the suppression list.
Recipients == {"fit", "blank", "unfit"}

\* A page holds what its SELECTs have read; then what it offers and why it does
\* not offer the rest; then the choice submitted, what became of it, and what a
\* refusal complains of: the key or the sender of the pair, or the recipient.
Page == [stage : {"none", "keys", "options", "domains", "mailboxes", "shown", "taken",
                  "queued", "refused"},
         live : SUBSET KeyRow, offered : SUBSET [key : Ids, sender : Addresses],
         seen : [Domains -> Standings], boxes : SUBSET Addresses,
         blocked : [Addresses \union Domains -> Reasons],
         chosen : [key : Ids, sender : Addresses] \union {<<>>},
         recipient : Recipients, fault : {"none", "pair", "recipient"}]

NoPage == [stage |-> "none", live |-> {}, offered |-> {},
           seen |-> [d \in Domains |-> "untracked"], boxes |-> {},
           blocked |-> [subject \in Addresses \union Domains |-> "none"],
           chosen |-> <<>>, recipient |-> "fit", fault |-> "none"]

-----------------------------------------------------------------------------
(* What the SELECTs ask *)

Live(rows) == {k \in rows : k.active}

\* Mailboxes on READY domains: what the keys form and the integration brief offer.
ReadySenders == {a \in senders : standing[DomainOf[a]] = "ready"}

\* send_options
Pairs(live, ready) ==
    UNION {{[key |-> k.id, sender |-> a] : a \in k.scopes \intersect ready} : k \in live}

Scoped(live) == UNION {k.scopes : k \in live}

\* Mutant: the key is looked for before the domain.
WhyNotKeyFirst(a, seen, live) ==
    IF seen[DomainOf[a]] = "untracked" THEN "none"
    ELSE IF a \notin Scoped(live) THEN "key"
    ELSE IF seen[DomainOf[a]] # "ready" THEN "recheck" ELSE "none"

\* blocked_senders, by address: a domain it has not read, the first thing missing.
WhyNot(a, seen, live) ==
    IF seen[DomainOf[a]] = "untracked" THEN "none"
    ELSE IF seen[DomainOf[a]] # "ready" THEN "recheck"
    ELSE IF a \notin Scoped(live) THEN "key" ELSE "none"

\* blocked_senders, by domain without a mailbox.
WhyNobody(d, seen, boxes) ==
    IF seen[d] = "untracked" \/ \E a \in boxes : DomainOf[a] = d THEN "none"
    ELSE IF seen[d] \in {"ready", "verified"} THEN "provision" ELSE "publish"

BlockedSenders(seen, boxes, live) ==
    [subject \in Addresses \union Domains |->
        IF subject \in Domains THEN WhyNobody(subject, seen, boxes)
        ELSE IF subject \in boxes THEN WhyNot(subject, seen, live) ELSE "none"]

-----------------------------------------------------------------------------
(* next_step *)

\* domain_next_action
DomainAction(d) ==
    IF standing[d] = "unready" THEN "publish"
    ELSE IF standing[d] = "ready" THEN "nothing"
    ELSE IF SenderOn(d) THEN "recheck" ELSE "provision"

Tracked == {d \in Domains : standing[d] # "untracked"}

Actions == {DomainAction(d) : d \in Tracked} \ {"nothing"}

\* Mutant: a revoked key counts.
NextStepsAnyKey ==
    IF Tracked = {} THEN {"add domain"}
    ELSE IF Actions # {} THEN Actions
    ELSE IF senders = {} THEN {"provision"}
    ELSE IF projects = {} THEN {"create project"}
    ELSE IF keys = {} THEN {"create key"}
    ELSE IF ~sent THEN {"send test"} ELSE {"done"}

\* The step shown is one of these: which of several domains comes first is a
\* matter of their names.  The counts are read one after the other; the step is
\* judged by the tables as they stand at one moment.
NextSteps ==
    IF Tracked = {} THEN {"add domain"}
    ELSE IF Actions # {} THEN Actions
    ELSE IF senders = {} THEN {"provision"}
    ELSE IF projects = {} THEN {"create project"}
    ELSE IF Live(keys) = {} THEN {"create key"}
    ELSE IF ~sent THEN {"send test"} ELSE {"done"}

-----------------------------------------------------------------------------
DashboardInit ==
    /\ Init /\ sent = FALSE
    /\ pages = [v \in Visitors |-> NoPage]
    /\ begun = [v \in Visitors |-> {}] /\ disturbed = [v \in Visitors |-> {}]

Turn(v, page) == pages' = [pages EXCEPT ![v] = page]

(* GET /test: send_options, then blocked_senders *)

ReadKeys(v) ==
    /\ pages[v].stage = "none"
    /\ Turn(v, [NoPage EXCEPT !.stage = "keys", !.live = Live(keys)])
    /\ begun' = [begun EXCEPT ![v] = senders]
    /\ disturbed' = [disturbed EXCEPT ![v] = {}]
    /\ UNCHANGED <<vars, sent>>

ReadReadySenders(v) ==
    /\ pages[v].stage = "keys"
    /\ Turn(v, [pages[v] EXCEPT !.stage = "options", !.live = {},
                                !.offered = Pairs(pages[v].live, ReadySenders)])
    /\ UNCHANGED <<vars, sent, begun, disturbed>>

ReadDomains(v) ==
    /\ pages[v].stage = "options"
    /\ Turn(v, [pages[v] EXCEPT !.stage = "domains", !.seen = standing])
    /\ UNCHANGED <<vars, sent, begun, disturbed>>

ReadMailboxes(v) ==
    /\ pages[v].stage = "domains"
    /\ Turn(v, [pages[v] EXCEPT !.stage = "mailboxes", !.boxes = senders])
    /\ UNCHANGED <<vars, sent, begun, disturbed>>

ReadScopes(v) ==
    /\ pages[v].stage = "mailboxes"
    /\ Turn(v, [NoPage EXCEPT !.stage = "shown", !.offered = pages[v].offered,
                   !.blocked = BlockedSenders(pages[v].seen, pages[v].boxes, Live(keys))])
    /\ UNCHANGED <<vars, sent, begun, disturbed>>

(* POST /test/send *)

\* Mutant: the key is looked up by the name on the form.
KeyTestedByName(id) == UNION {Named(k.name) : k \in {row \in keys : row.id = id}}

KeyTested(id) == {k \in keys : k.id = id}

\* A blank recipient is refused before anything is read; then _principal_for: the
\* key, if it is still active.  The form itself is gone from the browser.
SelectPrincipal(v, pair, recipient) ==
    LET rows == KeyTested(pair.key)
        fault == IF recipient = "blank" THEN "recipient"
                 ELSE IF rows # {} /\ rows \subseteq Live(keys) THEN "none" ELSE "pair" IN
    /\ pages[v].stage = "shown" /\ pair \in pages[v].offered
    /\ Turn(v, [NoPage EXCEPT !.stage = IF fault = "none" THEN "taken" ELSE "refused",
                              !.chosen = pair, !.recipient = recipient, !.fault = fault])
    /\ UNCHANGED <<vars, sent, begun, disturbed>>

\* Its mailboxes with their domains, authorize_sender, then what ingest_message
\* asks of the recipient, and the message.
Ingest(v) ==
    LET pair == pages[v].chosen
        permitted == pair.sender \in Scoped(KeyTested(pair.key)) \intersect ReadySenders
        fault == IF ~permitted THEN "pair"
                 ELSE IF pages[v].recipient # "fit" THEN "recipient" ELSE "none" IN
    /\ pages[v].stage = "taken"
    /\ \/ /\ fault = "none" /\ sent' = TRUE
          /\ Turn(v, [pages[v] EXCEPT !.stage = "queued"])
       \/ /\ fault # "none" /\ UNCHANGED sent
          /\ Turn(v, [pages[v] EXCEPT !.stage = "refused", !.fault = fault])
    /\ UNCHANGED <<vars, begun, disturbed>>

Leave(v) ==
    /\ pages[v].stage \in {"shown", "queued", "refused"}
    /\ Turn(v, NoPage)
    /\ begun' = [begun EXCEPT ![v] = {}] /\ disturbed' = [disturbed EXCEPT ![v] = {}]
    /\ UNCHANGED <<vars, sent>>

VisitorStep(v) ==
    \/ ReadKeys(v) \/ ReadReadySenders(v) \/ ReadDomains(v) \/ ReadMailboxes(v) \/ ReadScopes(v)
    \/ \E pair \in pages[v].offered, recipient \in Recipients :
          SelectPrincipal(v, pair, recipient)
    \/ Ingest(v) \/ Leave(v)

-----------------------------------------------------------------------------
(* The rest of emaild *)

\* An application sends with a key of its own.
ApplicationSends ==
    /\ ~sent /\ Scoped(Live(keys)) \intersect ReadySenders # {}
    /\ sent' = TRUE
    /\ UNCHANGED <<vars, pages, begun, disturbed>>

\* What a change disturbs: the senders on a domain whose standing changes, the
\* keys that come, and those that are revoked.
Changed ==
    {a \in Addresses : standing'[DomainOf[a]] # standing[DomainOf[a]]}
      \union {k.id : k \in (keys' \ keys) \union (keys \ keys')}

Elsewhere ==
    /\ Next
    /\ disturbed' = [v \in Visitors |-> IF pages[v].stage = "none" THEN {}
                                        ELSE disturbed[v] \union Changed]
    /\ UNCHANGED <<sent, pages, begun>>

DashboardNext ==
    \/ \E v \in Visitors : VisitorStep(v)
    \/ ApplicationSends \/ Elsewhere

DashboardSpec == DashboardInit /\ [][DashboardNext]_dashboardVars

-----------------------------------------------------------------------------
(* Properties *)

\* Every variable keeps its type.
DashboardTypeOK ==
    /\ TypeOK
    /\ sent \in BOOLEAN /\ pages \in [Visitors -> Page]
    /\ begun \in [Visitors -> SUBSET Addresses]
    /\ disturbed \in [Visitors -> SUBSET (Addresses \union Ids)]

\* What a send with the key as the sender comes down to.
WouldSend(k, a) == k.active /\ a \in k.scopes /\ standing[DomainOf[a]] = "ready"

Offered(v, a) == \E k \in keys : [key |-> k.id, sender |-> a] \in pages[v].offered

Undisturbed(v, a) ==
    a \notin disturbed[v] /\ \A k \in keys : a \in k.scopes => k.id \notin disturbed[v]

\* "Silence is the wrong answer for an absence" (testsend.py): two queries that
\* know nothing of each other, over five snapshots, divide the senders there were
\* between them.  What did not change meanwhile is offered with the keys that
\* would send, or else is there with the reason, and so is an empty domain.
PageTellsAll ==
    \A v \in Visitors : pages[v].stage = "shown" =>
        /\ \A a \in begun[v] : Undisturbed(v, a) =>
              /\ \A k \in keys : WouldSend(k, a) <=>
                                  [key |-> k.id, sender |-> a] \in pages[v].offered
              /\ Offered(v, a) <=> pages[v].blocked[a] = "none"
              /\ pages[v].blocked[a] = "key" <=> a \in ReadySenders /\ ~Offered(v, a)
        /\ \A a \in Addresses : LET d == DomainOf[a] IN
              a \notin disturbed[v] /\ d \in Tracked /\ ~SenderOn(d) =>
                 pages[v].blocked[d] # "none"

\* "the only combinations that would not fail" (send_options): a test send of an
\* offered pair to an address that may be written to is refused only when its key
\* was revoked or its domain swept to another status since the page was begun; and
\* a refusal of any other send that complains of the key or the sender (the first
\* thing refused is what the operator reads) is true for the same reason.
OffersHold ==
    \A v \in Visitors :
        pages[v].stage = "refused" /\ (pages[v].recipient = "fit" \/ pages[v].fault = "pair") =>
           {pages[v].chosen.key, pages[v].chosen.sender} \intersect disturbed[v] # {}

\* "Advice that names an impossible action is the exact failure this panel was
\* added to stop" (testsend.py).  Nor does next_step: a key can be made for a
\* sender when it says so, there is a pair to test with, and "Ready to send"
\* means that some key sends.
AdviceIsPossible ==
    /\ "provision" \in NextSteps => \E d \in Tracked : standing[d] # "unready" /\ ~SenderOn(d)
    /\ "create key" \in NextSteps => projects # {} /\ ReadySenders # {}
    /\ NextSteps \intersect {"send test", "done"} # {} =>
          \E k \in keys, a \in senders : WouldSend(k, a)
=============================================================================
