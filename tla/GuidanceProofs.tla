---------------------------- MODULE GuidanceProofs ----------------------------
(***************************************************************************)
(* Theorems about Guidance: what was proved of SenderIdentities holds in   *)
(* it too, where sweeps see a zone that changes, and following the advice  *)
(* leads to READY, step by step.                                           *)
(***************************************************************************)
EXTENDS Guidance, SenderIdentitiesProofs

\* The zones are zones.
ZonesTyped == dns \in [Domains -> Zone]

GuidanceInv == IdentitiesInv /\ ZonesTyped

-----------------------------------------------------------------------------
(* The steps *)

\* Only the zones and the count of faults change.
Elsewhere == UNCHANGED <<tables, provider, hands, adapters, history>> /\ faults' \in Nat

LEMMA SweepOfZone ==
    ASSUME GuidanceInv, NEW o \in Processes, NEW failing \in Failings, SweepZone(o, failing)
    PROVE  AnySweep(o) /\ UNCHANGED dns
<1>1. hands[o].domain \in Domains
  BY DEF GuidanceInv, IdentitiesInv, OperationsSound, Sound, SweepZone, Finds, At
<1>2. [zone |-> dns[hands[o].domain], failing |-> failing, demands |-> Demandable] \in Sweeps
  BY <1>1, GuidanceConstants DEF GuidanceInv, ZonesTyped, Sweeps
<1> QED
  BY <1>2 DEF SweepZone, AnySweep

LEMMA GuidanceSteps ==
    ASSUME GuidanceInv, [GuidanceNext]_guidanceVars
    PROVE  ([AnyStep]_vars /\ UNCHANGED dns) \/ Elsewhere
<1>0. Follower \in Operators /\ Follower \in Processes /\ Provisioners \subseteq Processes
  BY GuidanceConstants DEF Processes
<1>1. ASSUME NEW d \in Domains, Publish(d)
      PROVE  Elsewhere
  BY <1>1 DEF Publish, Elsewhere, vars, tables, provider, history, GuidanceInv, IdentitiesInv, TypeOK
<1>2. ASSUME NEW d \in Domains, Recheck(d) \/ Add(d) \/ Provision(d)
      PROVE  AnyStep /\ UNCHANGED dns
  BY <1>0, <1>2 DEF Recheck, Add, Provision, AnyStep, TakeUp, TakeUpAlone
<1>3. ASSUME FollowerStep
      PROVE  AnyStep /\ UNCHANGED dns
  BY <1>0, <1>3, SweepOfZone DEF FollowerStep, AnyStep
<1>4. ASSUME NEW p \in Provisioners, ProvisionerStep(p)
      PROVE  AnyStep /\ UNCHANGED dns
  BY <1>0, <1>4, SweepOfZone DEF ProvisionerStep, AnyStep
<1>5. ASSUME NEW o \in Operators \ {Follower}, Request(o)
      PROVE  AnyStep /\ UNCHANGED dns
  BY <1>5 DEF Request, AnyStep, TakeUpAlone, GoOnAlone
<1>6. ASSUME NEW o \in Processes, GoWrong(o), UNCHANGED dns
      PROVE  AnyStep /\ UNCHANGED dns
  BY <1>6 DEF AnyStep
<1>7. ASSUME NEW d \in Domains, Spoil(d)
      PROVE  Elsewhere
  BY <1>7 DEF Spoil, Fault, Elsewhere, GuidanceInv, IdentitiesInv, TypeOK
<1>8. CASE UNCHANGED guidanceVars
  BY <1>8 DEF guidanceVars
<1> QED
  BY <1>1, <1>2, <1>3, <1>4, <1>5, <1>6, <1>7, <1>8 DEF GuidanceNext, Follow

LEMMA ZonesStep ==
    ASSUME GuidanceInv, [GuidanceNext]_guidanceVars
    PROVE  ZonesTyped'
<1> USE DEF ZonesTyped
<1>1. ASSUME NEW d \in Domains, Publish(d)
      PROVE  ZonesTyped'
  <2>1. [r \in Records |-> IF r \in listed[d] THEN {"right"} ELSE dns[d][r]] \in Zone
    BY DEF Zone, GuidanceInv
  <2> QED
    BY <1>1, <2>1 DEF Publish, GuidanceInv
<1>2. ASSUME NEW d \in Domains, Spoil(d)
      PROVE  ZonesTyped'
  BY <1>2 DEF Spoil, Zone, GuidanceInv, Required, Records
<1>3. [AnyStep]_vars /\ UNCHANGED dns => ZonesTyped'
  BY DEF GuidanceInv
<1>4. UNCHANGED dns => ZonesTyped'
  BY DEF GuidanceInv
<1> QED
  BY <1>1, <1>2, <1>4
     DEF GuidanceNext, guidanceVars, Follow, Recheck, Add, Provision, FollowerStep,
         ProvisionerStep, Request, SweepZone

LEMMA ElsewhereKeeps ==
    ASSUME IdentitiesInv, Elsewhere
    PROVE  IdentitiesInv'
<1> USE DEF Elsewhere, tables, provider, history
<1>1. TypeOK'
  BY DEF IdentitiesInv, TypeOK
<1>2. OperationsSound'
  BY DEF IdentitiesInv, OperationsSound
<1>3. ReadyIsFounded' /\ OneProvisionerPerJob' /\ ClaimsStand'
  BY DEF IdentitiesInv, ReadyIsFounded, Inhabited, Provisioned, OneProvisionerPerJob, ClaimsStand
<1>4. ASSUME NEW a \in Addresses \ doubtful
      PROVE  Held(a)'
  BY DEF IdentitiesInv, CredentialsHeld, Held, Unstored, Provisioned
<1> QED
  BY <1>1, <1>2, <1>3, <1>4 DEF IdentitiesInv, CredentialsHeld

LEMMA GuidanceInitHolds ==
    ASSUME GuidanceInit
    PROVE  GuidanceInv
<1>1. ZonesTyped
  BY DEF GuidanceInit, ZonesTyped, Zone
<1> QED
  BY <1>1, InitHolds DEF GuidanceInit, GuidanceInv

LEMMA GuidanceInvStep ==
    ASSUME GuidanceInv, [GuidanceNext]_guidanceVars
    PROVE  GuidanceInv'
BY GuidanceSteps, ZonesStep, InvStep, ElsewhereKeeps DEF GuidanceInv

\* The inductive invariant of SenderIdentities holds here too, where sweeps find
\* what the registrar's zone has when they look (refresh_domain).
THEOREM GuidanceInvariant == GuidanceSpec => []GuidanceInv
BY GuidanceInitHolds, GuidanceInvStep, PTL DEF GuidanceSpec

\* However many provisioners poll, a job is in the hands of one (claim_one).
THEOREM GuidedJobsClaimedOnce == GuidanceSpec => []OneProvisionerPerJob
<1>1. GuidanceInv => OneProvisionerPerJob
  BY DEF GuidanceInv, IdentitiesInv
<1> QED
  BY <1>1, GuidanceInvariant, PTL

\* What was recorded on a request stands, whoever follows which advice meanwhile
\* (run_one).
THEOREM GuidedOutcomesStand == GuidanceSpec => OutcomesStand
<1>1. GuidanceInv /\ [GuidanceNext]_guidanceVars => OutcomesKept
  <2>1. GuidanceInv /\ [AnyStep]_vars => OutcomesKept
    BY ClaimsStep DEF GuidanceInv, IdentitiesInv
  <2>2. Elsewhere => OutcomesKept
    BY DEF Elsewhere, tables, OutcomesKept, RowStands
  <2> QED
    BY <2>1, <2>2, GuidanceSteps
<1>2. GuidanceSpec => [][OutcomesKept]_guidanceVars
  BY <1>1, GuidanceInvariant, PTL DEF GuidanceSpec
<1>3. [OutcomesKept]_guidanceVars => [OutcomesKept]_vars
  BY DEF guidanceVars
<1> QED
  BY <1>2, <1>3, PTL DEF OutcomesStand, OutcomesKept, RowStands

\* The rest of emaild sees the catalogue here too.
THEOREM GuidedCatalogue == GuidanceSpec => ImplementsCatalogue
<1>1. GuidanceInit => Catalogue!CatalogueInit
  BY InitImplements DEF GuidanceInit
<1>2. GuidanceInv /\ [GuidanceNext]_guidanceVars => [Catalogue!CatalogueNext]_(Catalogue!catalogue)
  <2>1. GuidanceInv /\ [AnyStep]_vars => [Catalogue!CatalogueNext]_(Catalogue!catalogue)
    BY StepImplements DEF GuidanceInv
  <2>2. Elsewhere => UNCHANGED <<Standings, Senders>>
    BY DEF Elsewhere, tables, Standings, Senders, Provisioned
  <2>3. Elsewhere => [Catalogue!CatalogueNext]_(Catalogue!catalogue)
    BY <2>2 DEF Standings, Senders, Catalogue!catalogue
  <2> QED
    BY <2>1, <2>3, GuidanceSteps
<1> QED
  BY <1>1, <1>2, GuidanceInvariant, PTL
     DEF GuidanceSpec, ImplementsCatalogue, Catalogue!CatalogueSpec

-----------------------------------------------------------------------------
(* The advice holds *)

\* Unless the zone loses a listed record, a domain whose rows are left alone, or
\* that has a mailbox now, is no further from READY.
LEMMA RankKept ==
    ASSUME NEW d \in Domains, status'[d] = status[d], listed'[d] = listed[d],
           Inhabited(d) => Inhabited(d)',
           \A r \in listed[d] : Fine(dns[d], r) => Fine(dns'[d], r)
    PROVE  ~(Rank(d)' > Rank(d))
BY DEF Rank, Complete, Published

\* A sweep that was told all and disproves nothing leaves the status or makes it
\* what a domain in order has.
LEMMA NothingDisproved ==
    ASSUME NEW s \in Sweeps, s.demands = Demandable, Disproved(s) = {},
           NEW current \in Statuses, NEW inhabited \in BOOLEAN
    PROVE  NextStatus(current, s, inhabited)
              \in {current, IF inhabited THEN "ready" ELSE "verified"}
<1>1. \A r \in Required \union {"ownership"} :
         Report(s)[r] = "pass" \/ Report(s)[r] = "error"
  BY ChecksInFull DEF Disproved
<1>2. Report(s).ownership = "pass" \/ Report(s).ownership = "error"
  BY <1>1
<1>3. ~CanSend(Report(s)) => HadLookupErrors(Report(s))
  BY <1>1 DEF CanSend, HadLookupErrors, Required, Records
<1> QED
  BY <1>2, <1>3 DEF NextStatus

\* What the sweep that ends makes of the domain, when nothing speaks against it.
LEMMA SweepHolds ==
    ASSUME GuidanceInv, NEW o \in Processes, WriteStatus(o), NEW d, d = hands[o].domain,
           UNCHANGED dns, hands[o].read = status[d],
           hands[o].evidence.demands = Demandable, Disproved(hands[o].evidence) = {}
    PROVE  ~(Rank(d)' > Rank(d))
<1> DEFINE op == hands[o]
           next == NextStatus(op.read, op.evidence, op.inhabited)
<1> USE DEF GuidanceInv, IdentitiesInv
<1>1. /\ op \in Operation /\ op.kind = "verify" /\ op.stage = "called"
      /\ Sound(op, status, mailboxes, proven, registered)
  BY DEF WriteStatus, At, TypeOK, OperationsSound
<1>2. /\ d \in Domains /\ status[d] \in Statuses \ {"untracked"} /\ op.read \in Statuses
      /\ op.evidence \in Sweeps /\ op.inhabited \in BOOLEAN
      /\ op.read = "ready" => op.inhabited
  BY <1>1 DEF Sound, Operation, TypeOK
<1>3. next \in {op.read, IF op.inhabited THEN "ready" ELSE "verified"}
  BY <1>2, NothingDisproved
<1>4. /\ status' = IF next = op.read THEN status ELSE [status EXCEPT ![d] = next]
      /\ listed' \in {listed, [listed EXCEPT ![d] = RequiredRecords(Demandable)]}
      /\ UNCHANGED mailboxes
  BY DEF WriteStatus
<1>5. Inhabited(d)' <=> Inhabited(d)
  BY <1>4 DEF Inhabited, Provisioned
<1> HIDE DEF op, next
<1>6. op.read = status[d]
  BY DEF op
<1>7. CASE status'[d] = "ready"
  BY <1>2, <1>7 DEF Rank
<1>8. CASE status'[d] = status[d]
  <2>1. CASE listed'[d] = listed[d]
    BY <1>2, <1>5, <1>8, <2>1, RankKept
  <2>2. CASE listed'[d] # listed[d]
    <3>1. Complete(d)' /\ ~Complete(d)
      BY <1>2, <1>4, <2>2 DEF Complete, TypeOK
    <3> QED
      BY <1>5, <1>8, <3>1 DEF Rank
  <2> QED
    BY <2>1, <2>2
<1>9. CASE status'[d] = "verified" /\ status[d] \notin {"verified", "ready", "untracked"}
  BY <1>9 DEF Rank
<1> QED
  BY <1>2, <1>3, <1>4, <1>6, <1>7, <1>8, <1>9 DEF TypeOK

LEMMA HoldsStep ==
    ASSUME GuidanceInv, [GuidanceNext]_guidanceVars, NEW d \in Domains, Rank(d)' > Rank(d)
    PROVE  \/ \E r \in listed[d] : Fine(dns[d], r) /\ ~Fine(dns'[d], r)
           \/ \E o \in Processes :
                 /\ hands[o].domain = d /\ At(o, "verify", "called") /\ Free(o)'
                 /\ \/ Disproved(hands[o].evidence) # {}
                    \/ hands[o].evidence.demands # Demandable
                    \/ hands[o].read # status[d]
<1> DEFINE Goal == \/ \E r \in listed[d] : Fine(dns[d], r) /\ ~Fine(dns'[d], r)
                   \/ \E o \in Processes :
                         /\ hands[o].domain = d /\ At(o, "verify", "called") /\ Free(o)'
                         /\ \/ Disproved(hands[o].evidence) # {}
                            \/ hands[o].evidence.demands # Demandable
                            \/ hands[o].read # status[d]
<1> USE DEF GuidanceInv, IdentitiesInv
<1>1. CASE status'[d] = status[d] /\ listed'[d] = listed[d] /\ (Inhabited(d) => Inhabited(d)')
  BY <1>1, RankKept
<1>2. CASE Elsewhere
  BY <1>1, <1>2 DEF Elsewhere, tables, Inhabited, Provisioned
<1>3. CASE [AnyStep]_vars /\ UNCHANGED dns
  <2>1. Inhabited(d) => Inhabited(d)'
    BY <1>3, StepGrows DEF Grows, Inhabited, Provisioned
  <2>2. CASE UNCHANGED <<status, listed, mailboxes>>
    BY <1>1, <2>2 DEF Inhabited, Provisioned
  <2>3. ASSUME NEW o \in Processes, Track(o)
        PROVE  Goal
    <3>1. hands[o].domain \in Domains
      BY <2>3 DEF Track, At, OperationsSound, Sound
    <3>2. CASE Tracked(hands[o].domain) \/ hands[o].domain # d
      BY <1>1, <2>1, <2>3, <3>1, <3>2 DEF Track, TypeOK
    <3>3. CASE ~Tracked(hands[o].domain) /\ hands[o].domain = d
      <4>1. Rank(d) = 6 /\ status'[d] = "added"
        BY <2>3, <3>3 DEF Rank, Tracked, Track, TypeOK
      <4>2. Rank(d)' \in 3 .. 5
        BY <4>1 DEF Rank
      <4> QED
        BY <4>1, <4>2
    <3> QED
      BY <3>2, <3>3
  <2>4. ASSUME NEW o \in Processes, WriteStatus(o)
        PROVE  Goal
    <3>1. /\ At(o, "verify", "called") /\ hands'[o].stage = "free"
          /\ hands[o].domain \in Domains
      BY <2>4 DEF WriteStatus, End, Hold, Idle, At, OperationsSound, Sound, TypeOK
    <3>2. CASE hands[o].domain = d
      BY <1>3, <2>4, <3>1, <3>2, SweepHolds DEF Free
    <3>3. CASE hands[o].domain # d
      BY <1>1, <2>1, <2>4, <3>1, <3>3 DEF WriteStatus, TypeOK
    <3> QED
      BY <3>2, <3>3
  <2>5. ASSUME NEW o \in Processes, StoreMailbox(o)
        PROVE  Goal
    <3>1. UNCHANGED listed /\ (status'[d] = status[d] \/ status'[d] = "ready")
      BY <2>5 DEF StoreMailbox, TypeOK
    <3>2. status'[d] # "ready"
      BY DEF Rank
    <3> QED
      BY <1>1, <2>1, <3>1, <3>2
  <2>6. ASSUME NEW o \in Processes, StoreRotated(o)
        PROVE  Goal
    BY <1>1, <2>1, <2>6 DEF StoreRotated
  <2> QED
    BY <1>3, <2>2, <2>3, <2>4, <2>5, <2>6, Writers
<1> QED
  BY <1>2, <1>3, GuidanceSteps

\* What the operator has got to is not undone by resolvers or calls that fail, a
\* process that dies, requests that collide or other operations on the domain: only
\* by a record the zone loses, or by a sweep that disproved one, was not told all
\* MXRoute demands, or read a status that has changed since (_next_status,
\* refresh_domain, provision_mailbox).
THEOREM AdviceStands == GuidanceSpec => AdviceHolds
<1> DEFINE Why == \A d \in Domains : Rank(d)' > Rank(d) =>
          \/ \E r \in listed[d] : Fine(dns[d], r) /\ ~Fine(dns'[d], r)
          \/ \E o \in Processes :
                /\ hands[o].domain = d /\ At(o, "verify", "called") /\ Free(o)'
                /\ \/ Disproved(hands[o].evidence) # {}
                   \/ hands[o].evidence.demands # Demandable
                   \/ hands[o].read # status[d]
<1>1. GuidanceInv /\ [GuidanceNext]_guidanceVars => Why
  BY HoldsStep
<1> HIDE DEF Why
<1>2. GuidanceSpec => [][Why]_guidanceVars
  BY <1>1, GuidanceInvariant, PTL DEF GuidanceSpec
<1> QED
  BY <1>2, PTL DEF AdviceHolds, Why

-----------------------------------------------------------------------------
(* The advice works *)

\* There are six pieces of advice at most to go, and none only when there is none.
LEMMA RankBounded ==
    ASSUME GuidanceInv, NEW d \in Domains
    PROVE  Rank(d) \in 0 .. 6 /\ (Rank(d) = 0 <=> Advice(d) = "nothing")
BY DEF Rank, Advice, DomainNextAction

LEMMA AddWorks ==
    ASSUME GuidanceInv, NEW d \in Domains, AddDone(d)
    PROVE  Rank(d)' < Rank(d)
<1> USE DEF GuidanceInv, IdentitiesInv
<1>1. PICK o \in Processes : Track(o) /\ hands[o].domain = d /\ Advice(d) = "add"
  BY DEF AddDone
<1>2. status[d] = "untracked"
  BY <1>1 DEF Advice, DomainNextAction
<1>3. status'[d] = "added"
  BY <1>1, <1>2 DEF Track, Tracked, TypeOK
<1>4. Rank(d) = 6 /\ Rank(d)' \in 3 .. 5
  BY <1>2, <1>3 DEF Rank
<1> QED
  BY <1>4

LEMMA PublishWorks ==
    ASSUME GuidanceInv, NEW d \in Domains, PublishDone(d)
    PROVE  Rank(d)' < Rank(d)
<1> USE DEF GuidanceInv, IdentitiesInv
<1>1. status[d] \notin {"untracked", "ready", "verified"} /\ Complete(d) /\ ~Published(d)
  BY DEF PublishDone, Publish, Advice, DomainNextAction
<1>2. UNCHANGED <<status, listed, mailboxes>>
  BY DEF PublishDone, Publish, vars, tables
<1>3. ASSUME NEW r \in listed[d]
      PROVE  Fine(dns'[d], r)
  <2>1. r \in Records /\ dns'[d][r] = {"right"}
    BY DEF PublishDone, Publish, ZonesTyped, TypeOK
  <2> QED
    BY <2>1 DEF Fine
<1>4. Published(d)' /\ Complete(d)'
  BY <1>1, <1>2, <1>3 DEF Published, Complete
<1> QED
  BY <1>1, <1>2, <1>4 DEF Rank

LEMMA RecheckWorks ==
    ASSUME GuidanceInv, NEW d \in Domains, RecheckDone(d)
    PROVE  Rank(d)' < Rank(d)
<1> USE DEF GuidanceInv, IdentitiesInv
<1>1. PICK o \in Processes :
         /\ WriteStatus(o) /\ hands[o].domain = d
         /\ hands[o].read = status[d] /\ hands[o].shown = listed[d]
         /\ hands[o].inhabited = Inhabited(d)
         /\ hands[o].evidence = [zone |-> dns[d], failing |-> {}, demands |-> Demandable]
         /\ \/ Complete(d) /\ Published(d) /\ Advice(d) \in {"publish", "recheck"}
            \/ ~Complete(d) /\ Advice(d) = "publish"
  BY DEF RecheckDone
<1> DEFINE s == hands[o].evidence
           next == NextStatus(status[d], s, hands[o].inhabited)
<1>2. /\ s \in Sweeps /\ s.demands = Demandable /\ s.failing = {} /\ s.zone = dns[d]
      /\ status[d] \in Statuses \ {"untracked"} /\ hands[o].inhabited \in BOOLEAN
  <2>1. hands[o] \in Operation
    BY DEF TypeOK
  <2>2. Sound(hands[o], status, mailboxes, proven, registered)
    BY DEF OperationsSound
  <2>3. hands[o].kind = "verify"
    BY <1>1 DEF WriteStatus, At
  <2>4. s \in Sweeps /\ hands[o].inhabited \in BOOLEAN
    BY <2>1 DEF Operation
  <2>5. s.demands = Demandable /\ s.failing = {} /\ s.zone = dns[d]
    BY <1>1
  <2>6. status[d] \in Statuses \ {"untracked"}
    BY <1>1, <2>2, <2>3 DEF Sound, TypeOK
  <2> QED
    BY <2>4, <2>5, <2>6
<1>3. status'[d] = next /\ Complete(d)'
  BY <1>1, <1>2 DEF WriteStatus, TypeOK, Complete
<1>4. Inhabited(d)' <=> Inhabited(d)
  BY <1>1 DEF WriteStatus, Inhabited, Provisioned
<1>5. CASE Complete(d) /\ Published(d) /\ Advice(d) \in {"publish", "recheck"}
  <2>1. \A r \in RequiredRecords(Demandable) : Fine(s.zone, r)
    BY <1>2, <1>5 DEF Complete, Published
  <2>2. next = IF hands[o].inhabited THEN "ready" ELSE "verified"
    BY <1>2, <2>1, ListedSuffices
  <2> HIDE DEF next, s
  <2>3. CASE hands[o].inhabited
    <3>1. Rank(d)' = 0
      BY <1>3, <2>2, <2>3 DEF Rank
    <3>2. status[d] # "ready"
      BY <1>5 DEF Advice, DomainNextAction
    <3> QED
      BY <3>1, <3>2 DEF Rank
  <2>4. CASE ~hands[o].inhabited
    <3>1. Rank(d)' = 2
      BY <1>1, <1>3, <1>4, <2>2, <2>4 DEF Rank
    <3>2. status[d] \notin {"ready", "verified"}
      BY <1>1, <1>5, <2>4 DEF Advice, DomainNextAction
    <3> QED
      BY <3>1, <3>2 DEF Rank
  <2> QED
    BY <2>3, <2>4
<1>6. CASE ~Complete(d) /\ Advice(d) = "publish"
  <2>1. next # "untracked"
    BY <1>2, NextStatusTracked
  <2>2. status[d] \notin {"ready", "verified", "untracked"}
    BY <1>2, <1>6 DEF Advice, DomainNextAction
  <2> HIDE DEF next, s
  <2>3. Rank(d) = 5
    BY <1>6, <2>2 DEF Rank
  <2>4. Rank(d)' \in 0 .. 4
    BY <1>3, <2>1 DEF Rank
  <2> QED
    BY <2>3, <2>4
<1> QED
  BY <1>1, <1>5, <1>6

LEMMA ProvisionWorks ==
    ASSUME GuidanceInv, NEW d \in Domains, ProvisionDone(d)
    PROVE  Rank(d)' < Rank(d)
<1> USE DEF GuidanceInv, IdentitiesInv
<1>1. PICK o \in Processes : /\ StoreMailbox(o) /\ hands[o].domain = d
                             /\ hands[o].read = status[d] /\ Advice(d) = "provision"
  BY DEF ProvisionDone
<1>2. status[d] = "verified"
  BY <1>1 DEF Advice, DomainNextAction
<1>3. status'[d] = "ready"
  BY <1>1, <1>2 DEF StoreMailbox, Promoted, TypeOK
<1> QED
  BY <1>2, <1>3 DEF Rank

\* Each piece of advice, followed and not disturbed, brings the domain nearer to
\* READY, from wherever races, failures and lost records have brought it: what the
\* page lists is what the sweep asks for, and the mailbox it asks for promotes
\* (domain_next_action, required_dns_records, _next_status, provision_mailbox).
THEOREM AdviceLeadsOn == GuidanceSpec => AdviceWorks
<1> DEFINE Nearer == \A d \in Domains :
              AddDone(d) \/ PublishDone(d) \/ RecheckDone(d) \/ ProvisionDone(d)
                 => Rank(d)' < Rank(d)
<1>1. GuidanceInv => Nearer
  BY AddWorks, PublishWorks, RecheckWorks, ProvisionWorks
<1> HIDE DEF Nearer
<1>2. GuidanceSpec => [][Nearer]_guidanceVars
  BY <1>1, GuidanceInvariant, PTL
<1> QED
  BY <1>2, PTL DEF AdviceWorks, Nearer
=============================================================================
