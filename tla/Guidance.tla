------------------------------- MODULE Guidance -------------------------------
(***************************************************************************)
(* The dashboard tells the operator what a domain needs next               *)
(* (domain_next_action in dashboard/setup_state.py) and lists the records  *)
(* to publish.  Here one operator, the guide's follower, does nothing but  *)
(* what it says, while others enqueue requests for the same domains,       *)
(* provisioners work them off, and the registrar's zone, which every sweep *)
(* sees, loses records.                                                    *)
(***************************************************************************)
EXTENDS SenderIdentities

CONSTANTS Follower,    \* the operator who follows the advice
          Failings     \* which lookups of a sweep may fail at once

ASSUME GuidanceConstants == Follower \in Operators /\ Failings \subseteq SUBSET Records

VARIABLE dns           \* the zone served for each domain

guidanceVars == <<vars, dns>>

-----------------------------------------------------------------------------
(* The advice *)

\* Mutant: whether the domain has a mailbox is not asked.
AdviceBlind(current, inhabited) ==
    IF current = "untracked" THEN "add"
    ELSE IF current = "ready" THEN "nothing"
    ELSE IF current = "verified" THEN "provision"
    ELSE "publish"

\* domain_next_action; without a domain next_step says to add one.
DomainNextAction(current, inhabited) ==
    IF current = "untracked" THEN "add"
    ELSE IF current = "ready" THEN "nothing"
    ELSE IF current # "verified" THEN "publish"
    ELSE IF inhabited THEN "recheck" ELSE "provision"

Advice(d) == DomainNextAction(status[d], Inhabited(d))

-----------------------------------------------------------------------------
(* Following it, with the commands it names *)

Published(d) == \A r \in listed[d] : Fine(dns[d], r)

Publish(d) ==
    /\ Advice(d) = "publish" /\ ~Published(d)
    /\ dns' = [dns EXCEPT ![d] = [r \in Records |-> IF r \in listed[d] THEN {"right"} ELSE @[r]]]
    /\ UNCHANGED vars

\* "re-check once they resolve": the button, which makes a request, or the command.
Recheck(d) ==
    /\ Advice(d) = "recheck" \/ (Advice(d) = "publish" /\ Published(d))
    /\ LookToRequest(Follower, "verify", d) \/ LookToVerify(Follower, d, 0)
    /\ UNCHANGED dns

Add(d) ==
    /\ Advice(d) = "add"
    /\ LookToRequest(Follower, "add", d) \/ LookToAdd(Follower, d, 0)
    /\ UNCHANGED dns

\* "./appctl admin mailboxes provision noreply@..."
Provision(d) ==
    /\ Advice(d) = "provision"
    /\ \E a \in Addresses : DomainOf[a] = d /\ LookToProvision(Follower, a, FALSE)
    /\ UNCHANGED dns

Follow == \E d \in Domains : Publish(d) \/ Recheck(d) \/ Add(d) \/ Provision(d)

-----------------------------------------------------------------------------
(* What is done besides *)

\* A sweep sees the zone, as far as lookups do not fail.  MXRoute has made its DKIM
\* key for the domain by the first sweep, if not when the domain was added
\* (AddAnswers): "the domain cannot reach 'ready' until it exists" (admin.py), and
\* nothing an operator does brings it about.
SweepZone(o, failing) ==
    /\ Finds(o, [zone |-> dns[hands[o].domain], failing |-> failing, demands |-> Demandable])
    /\ UNCHANGED dns

ProvisionerStep(p) ==
    \/ (TakeUp(p) \/ GoOn(p)) /\ UNCHANGED dns
    \/ \E failing \in Failings : SweepZone(p, failing)

FollowerStep ==
    \/ (GoOn(Follower) \/ GoOnAlone(Follower)) /\ UNCHANGED dns
    \/ \E failing \in Failings : SweepZone(Follower, failing)

Request(o) ==
    /\ InsertJob(o) \/ \E kind \in {"add", "verify"}, d \in Domains : LookToRequest(o, kind, d)
    /\ UNCHANGED dns

\* A record disappears at the registrar, or a second SPF record appears.
Spoil(d) ==
    /\ Fault
    /\ \E r \in Required \union {"ownership"} :
          dns' = [dns EXCEPT ![d][r] = IF r = "spf" THEN {"right", "other"} ELSE {}]
    /\ UNCHANGED <<tables, provider, hands, adapters, history>>

\* MXRoute takes a domain whose ownership record is published; the rest is not.
GuidanceInit ==
    /\ Init
    /\ dns = [d \in Domains |-> [r \in Records |-> IF r = "ownership" THEN {"right"} ELSE {}]]

GuidanceNext ==
    \/ Follow \/ FollowerStep
    \/ \E p \in Provisioners : ProvisionerStep(p)
    \/ \E o \in Operators \ {Follower} : Request(o)
    \/ \E o \in Processes : GoWrong(o) /\ UNCHANGED dns
    \/ \E d \in Domains : Spoil(d)

\* A provisioner polls, its calls time out, and Docker restarts it.  The
\* follower goes on, and does not meet failing resolvers every time.
GuidanceSpec ==
    /\ GuidanceInit /\ [][GuidanceNext]_guidanceVars
    /\ \A p \in Provisioners : WF_guidanceVars(ProvisionerStep(p))
    /\ WF_guidanceVars(Follow) /\ WF_guidanceVars(FollowerStep)
    /\ SF_guidanceVars(SweepZone(Follower, {}))

-----------------------------------------------------------------------------
(* Properties *)

Complete(d) == listed[d] = RequiredRecords(Demandable)

\* How far a domain is from READY: the advice it takes to get there.
Rank(d) ==
    IF status[d] = "ready" THEN 0
    ELSE IF status[d] = "verified" THEN (IF Inhabited(d) THEN 1 ELSE 2)
    ELSE IF status[d] = "untracked" THEN 6
    ELSE IF ~Complete(d) THEN 5
    ELSE IF ~Published(d) THEN 4 ELSE 3

\* Getting there is never undone by resolvers or calls that fail, a process that
\* dies, requests that collide or other operations on the domain: only by a record
\* that is lost, or by a sweep that disproved one, was not told all MXRoute
\* demands, or read a status that has changed since.
AdviceHolds ==
    [][\A d \in Domains : Rank(d)' > Rank(d) =>
          \/ \E r \in listed[d] : Fine(dns[d], r) /\ ~Fine(dns'[d], r)
          \/ \E o \in Processes :
                /\ hands[o].domain = d /\ At(o, "verify", "called") /\ Free(o)'
                /\ \/ Disproved(hands[o].evidence) # {}
                   \/ hands[o].evidence.demands # Demandable
                   \/ hands[o].read # status[d]]_guidanceVars

\* The last step of a re-check that no failure and no other operation disturbed,
\* made when the advice was to make it.
RecheckDone(d) ==
    \E o \in Processes :
        LET op == hands[o] IN
        /\ WriteStatus(o) /\ op.domain = d
        /\ op.read = status[d] /\ op.shown = listed[d] /\ op.inhabited = Inhabited(d)
        /\ op.evidence = [zone |-> dns[d], failing |-> {}, demands |-> Demandable]
        /\ \/ Complete(d) /\ Published(d) /\ Advice(d) \in {"publish", "recheck"}
           \/ ~Complete(d) /\ Advice(d) = "publish"

ProvisionDone(d) ==
    \E o \in Processes : /\ StoreMailbox(o) /\ hands[o].domain = d
                         /\ hands[o].read = status[d] /\ Advice(d) = "provision"

AddDone(d) == \E o \in Processes : Track(o) /\ hands[o].domain = d /\ Advice(d) = "add"

PublishDone(d) == Publish(d) /\ Complete(d)

\* Every piece of advice, once followed, brings the domain nearer to READY: what
\* required_dns_records lists, once MXRoute has its DKIM key, is what _next_status
\* asks for, and what is advised for each status is what leads out of it.
AdviceWorks ==
    [][\A d \in Domains :
          AddDone(d) \/ PublishDone(d) \/ RecheckDone(d) \/ ProvisionDone(d)
             => Rank(d)' < Rank(d)]_guidanceVars

\* A provisioner killed in mid-job, an INSERT that collides, a provider that fails
\* and two requests for the same that both found no other strand no request: time
\* and again all have ended, as succeeded or failed, since requests are bounded.
JobsFinish ==
    []<>(\A j \in JobIds : jobs[j].status \in {"none", "succeeded", "failed"})

\* Whoever does what the page says ends with a domain that is ready (the module
\* was "rewritten after the same operator got stuck a second time"), whatever
\* else sweeps the domain and fails, provided that MXRoute comes to have a DKIM key
\* for the domain (SweepZone), and unless the call that registers the domain was
\* misread: add_domain then takes it for done, now and later.
GuidanceLeads ==
    \A d \in Domains : <>[](status[d] = "ready" \/ d \notin registered)
=============================================================================
