------------------------ MODULE SenderIdentitiesProofs ------------------------
(***************************************************************************)
(* Theorems about SenderIdentities: what holds for every number of         *)
(* domains, addresses, operators and provisioners, every sweep, and every  *)
(* order in which operations run, overlap and fail.                        *)
(***************************************************************************)
EXTENDS SenderIdentities, DnsChecksProofs

-----------------------------------------------------------------------------
(* The steps *)

\* A step of SenderIdentities, or of a specification built on it, in which a sweep
\* may find anything there is to find.
AnySweep(o) == \E sweep \in Sweeps : Finds(o, sweep)

AnyStep ==
    \/ \E o \in Processes : TakeUp(o) \/ GoOn(o) \/ AnySweep(o) \/ GoWrong(o)
    \/ \E o \in Operators : TakeUpAlone(o) \/ GoOnAlone(o)
    \/ \E w \in Workers : RestartWorker(w) \/ \E a \in Addresses : Connect(w, a)

LEMMA NextIsAnyStep == [Next]_vars => [AnyStep]_vars
BY IdentityConstants DEF Next, AnyStep, Sweep, AnySweep

-----------------------------------------------------------------------------
(* The invariant *)

\* What an operation rests on: the tables still bear out what it read.  Its
\* parameters are values, so that it can be carried from a state to the next.
Sound(op, st, mb, pr, rg) ==
    LET inhabited == \E a \in Addresses : DomainOf[a] = op.domain /\ mb[a] # None IN
    /\ op.kind \notin {"provision", "rotate"} => op.address = None
    /\ op.stage # "free" => op.kind # "none"
    /\ op.job # 0 => op.kind \in {"add", "verify"}
    /\ op.kind \in {"add", "verify"} => op.domain \in Domains
    /\ op.kind \in {"provision", "rotate"} =>
          op.address \in Addresses /\ op.password \in Passwords
    /\ op.kind = "provision" =>
          /\ op.domain = DomainOf[op.address]
          /\ st[op.domain] # "untracked"
          /\ op.read = "verified" => op.domain \in pr \intersect rg
    /\ op.kind = "rotate" => mb[op.address] # None
    /\ op.kind = "verify" =>
          /\ st[op.domain] # "untracked" /\ op.read # "untracked"
          /\ op.read = "ready" => inhabited
    /\ op.kind = "verify" /\ op.stage = "called" =>
          /\ op.inhabited => inhabited
          /\ op.read = "ready" => op.inhabited
          /\ Sendable(op.evidence) => op.domain \in rg

OperationsSound == \A o \in Processes : Sound(hands[o], status, mailboxes, proven, registered)

\* An address nobody disturbed is under way in one operation at most, whose
\* password its account has taken, or in none, and then the row has it.
Held(a) ==
    /\ \A o, p \in Unstored(a) : o = p
    /\ \A o \in Unstored(a) : accounts[a] = hands[o].password
    /\ Unstored(a) = {} /\ Provisioned(a) => mailboxes[a] = accounts[a]

CredentialsHeld == \A a \in Addresses \ doubtful : Held(a)

\* The job a process works on has not ended, and only provisioners work on one.
ClaimsStand ==
    \A o \in Processes : hands[o].job # 0 =>
        o \in Provisioners /\ jobs[hands[o].job].status = "pending"

IdentitiesInv ==
    /\ TypeOK /\ OperationsSound /\ ReadyIsFounded /\ OneProvisionerPerJob
    /\ ClaimsStand /\ CredentialsHeld

-----------------------------------------------------------------------------
(* Types *)

LEMMA UnseenTyped == Unseen \in Sweeps /\ ~Sendable(Unseen)
<1>1. Unseen \in Sweeps
  BY DEF Unseen, Sweeps, Zone, Records
<1>2. CheckOwnership(Unseen) = "missing"
  BY DEF CheckOwnership, Unseen
<1> QED
  BY <1>1, <1>2 DEF Sendable

LEMMA IdleTyped == Idle \in Operation
BY UnseenTyped, IdentityConstants DEF Idle, Operation, Statuses

LEMMA NextStatusTyped ==
    ASSUME NEW read \in Statuses, NEW sweep \in Sweeps, NEW inhabited \in BOOLEAN
    PROVE  NextStatus(read, sweep, inhabited) \in Statuses
BY DEF NextStatus, Statuses

LEMMA FinishTyped ==
    ASSUME TypeOK, NEW j \in JobIds \union {0}, NEW outcome \in {"succeeded", "failed"},
           Finish(j, outcome)
    PROVE  jobs' \in [JobIds -> Job]
<1>1. CASE j = 0
  BY <1>1 DEF TypeOK, Finish
<1>2. CASE j # 0
  <2>1. j \in JobIds /\ jobs[j] \in Job /\ jobs' = [jobs EXCEPT ![j].status = outcome]
    BY <1>2 DEF TypeOK, Finish
  <2>2. [jobs[j] EXCEPT !.status = outcome] \in Job
    BY <2>1 DEF Job
  <2> QED
    BY <2>1, <2>2 DEF TypeOK
<1> QED
  BY <1>1, <1>2

LEMMA HoldTyped ==
    ASSUME TypeOK, NEW o \in Processes, NEW op \in Operation, Hold(o, op)
    PROVE  hands' \in [Processes -> Operation]
BY DEF TypeOK, Hold

LEMMA EndTyped ==
    ASSUME TypeOK, NEW o \in Processes, NEW outcome \in {"succeeded", "failed"},
           End(o, outcome)
    PROVE  jobs' \in [JobIds -> Job] /\ hands' \in [Processes -> Operation]
<1>1. hands[o].job \in JobIds \union {0}
  BY DEF TypeOK, Operation
<1> QED
  BY <1>1, FinishTyped, HoldTyped, IdleTyped DEF End

LEMMA RecordsListed == \A demands \in SUBSET Demandable : RequiredRecords(demands) \in SUBSET Records
BY DEF RequiredRecords, Demandable, Records

LEMMA CalledTyped ==
    ASSUME NEW op \in Operation, NEW sweep \in Sweeps, NEW inhabited \in BOOLEAN
    PROVE  /\ [op EXCEPT !.stage = "called"] \in Operation
           /\ [op EXCEPT !.stage = "called", !.evidence = sweep, !.inhabited = inhabited]
                 \in Operation
BY DEF Operation

\* TypeOK holds in every step: the operations under way, the rows and the accounts
\* keep their shape in whatever order the SELECTs, calls and COMMITs fall.
LEMMA TypeStep ==
    ASSUME TypeOK, OperationsSound, [AnyStep]_vars
    PROVE  TypeOK'
<1> USE DEF tables, provider, history
<1>1. ASSUME NEW o \in Processes, NEW d \in Domains, NEW j \in JobIds \union {0},
             LookToAdd(o, d, j)
      PROVE  TypeOK'
  <2>1. CASE Refuse(o, j, "succeeded")
    BY <2>1, FinishTyped DEF TypeOK, Refuse
  <2>2. CASE Reads(o, [Idle EXCEPT !.kind = "add", !.stage = "looked", !.job = j, !.domain = d])
    <3>1. [Idle EXCEPT !.kind = "add", !.stage = "looked", !.job = j, !.domain = d] \in Operation
      BY IdleTyped DEF Operation
    <3> QED
      BY <2>2, <3>1, HoldTyped DEF TypeOK, Reads
  <2> QED
    BY <1>1, <2>1, <2>2 DEF LookToAdd
<1>2. ASSUME NEW o \in Processes, NEW d \in Domains, NEW j \in JobIds \union {0},
             LookToVerify(o, d, j)
      PROVE  TypeOK'
  <2>1. CASE Refuse(o, j, "failed")
    BY <2>1, FinishTyped DEF TypeOK, Refuse
  <2> DEFINE op == [Idle EXCEPT !.kind = "verify", !.stage = "looked", !.job = j,
                                !.domain = d, !.read = status[d], !.shown = listed[d]]
  <2>2. CASE Reads(o, op)
    <3>1. op \in Operation
      BY IdleTyped DEF Operation, TypeOK
    <3> HIDE DEF op
    <3> QED
      BY <2>2, <3>1, HoldTyped DEF TypeOK, Reads
  <2> QED
    BY <1>2, <2>1, <2>2 DEF LookToVerify
<1>3. ASSUME NEW o \in Processes, Register(o)
      PROVE  TypeOK'
  <2>1. [hands[o] EXCEPT !.stage = "called"] \in Operation
    BY UnseenTyped, CalledTyped DEF TypeOK
  <2>2. hands[o].domain \in Domains
    BY <1>3 DEF Register, At, OperationsSound, Sound
  <2> QED
    BY <1>3, <2>1, <2>2, HoldTyped DEF TypeOK, Register
<1>4. ASSUME NEW o \in Processes, RegisterFails(o)
      PROVE  TypeOK'
  <2>1. hands[o].domain \in Domains
    BY <1>4 DEF RegisterFails, At, OperationsSound, Sound
  <2> QED
    BY <1>4, <2>1, EndTyped DEF TypeOK, RegisterFails, Fault
<1>5. ASSUME NEW o \in Processes, Track(o)
      PROVE  TypeOK'
  <2>1. jobs' \in [JobIds -> Job] /\ hands' \in [Processes -> Operation]
    BY <1>5, EndTyped, HoldTyped, IdleTyped DEF Track, TypeOK
  <2>2. status' \in [Domains -> Statuses]
    BY <1>5 DEF Track, TypeOK, Statuses
  <2>3. listed' \in [Domains -> SUBSET Records]
    BY <1>5, RecordsListed, IdentityConstants DEF Track, TypeOK, Demanded
  <2>4. faults' \in Nat
    BY <1>5 DEF Track, TypeOK, Fault
  <2> QED
    BY <1>5, <2>1, <2>2, <2>3, <2>4 DEF TypeOK, Track
<1>6. ASSUME NEW o \in Processes, NEW sweep \in Sweeps, Finds(o, sweep)
      PROVE  TypeOK'
  <2> DEFINE op == [hands[o] EXCEPT !.stage = "called", !.evidence = sweep,
                                    !.inhabited = Inhabited(hands[o].domain)]
  <2>1. op \in Operation
    BY CalledTyped DEF TypeOK, Inhabited
  <2> HIDE DEF op
  <2>2. Reads(o, op)
    BY <1>6 DEF op, Finds
  <2> QED
    BY <2>1, <2>2, HoldTyped DEF TypeOK, Reads
<1>7. ASSUME NEW o \in Processes, SweepFails(o)
      PROVE  TypeOK'
  BY <1>7, EndTyped DEF TypeOK, SweepFails, Fault
<1>8. ASSUME NEW o \in Processes, WriteStatus(o)
      PROVE  TypeOK'
  <2>1. hands[o] \in Operation
    BY DEF TypeOK
  <2>2. /\ hands[o].domain \in Domains /\ hands[o].evidence.demands \in SUBSET Demandable
        /\ NextStatus(hands[o].read, hands[o].evidence, hands[o].inhabited) \in Statuses
    BY <1>8, <2>1, NextStatusTyped DEF WriteStatus, At, OperationsSound, Sound, Operation, Sweeps
  <2>3. status' \in [Domains -> Statuses]
    BY <1>8, <2>2 DEF WriteStatus, TypeOK
  <2>4. listed' \in [Domains -> SUBSET Records]
    BY <1>8, <2>2, RecordsListed DEF WriteStatus, TypeOK
  <2>5. proven' \in SUBSET Domains
    BY <1>8, <2>2 DEF WriteStatus, TypeOK
  <2>6. jobs' \in [JobIds -> Job] /\ hands' \in [Processes -> Operation]
    BY <1>8, EndTyped DEF WriteStatus
  <2> QED
    BY <1>8, <2>3, <2>4, <2>5, <2>6 DEF TypeOK, WriteStatus
<1>9. ASSUME NEW o \in Operators, NEW a \in Addresses, NEW additional \in BOOLEAN,
             LookToProvision(o, a, additional)
      PROVE  TypeOK'
  <2>1. PICK password \in FreshPasswords :
           Reads(o, [Idle EXCEPT !.kind = "provision", !.stage = "looked",
                                 !.domain = DomainOf[a], !.address = a,
                                 !.read = status[DomainOf[a]], !.password = password])
    BY <1>9 DEF LookToProvision
  <2> DEFINE op == [Idle EXCEPT !.kind = "provision", !.stage = "looked",
                                !.domain = DomainOf[a], !.address = a,
                                !.read = status[DomainOf[a]], !.password = password]
  <2>2. op \in Operation
    <3>1. DomainOf[a] \in Domains /\ status[DomainOf[a]] \in Statuses /\ password \in Passwords
      BY IdentityConstants DEF TypeOK, FreshPasswords
    <3> QED
      BY <3>1, IdleTyped DEF Operation
  <2> HIDE DEF op
  <2>3. Reads(o, op)
    BY <2>1 DEF op
  <2> QED
    BY <2>2, <2>3, HoldTyped DEF TypeOK, Reads, Processes
<1>10. ASSUME NEW o \in Operators, NEW a \in Addresses, LookToRotate(o, a)
       PROVE  TypeOK'
  <2>1. PICK password \in FreshPasswords :
           Reads(o, [Idle EXCEPT !.kind = "rotate", !.stage = "looked",
                                 !.address = a, !.password = password])
    BY <1>10 DEF LookToRotate
  <2>2. [Idle EXCEPT !.kind = "rotate", !.stage = "looked", !.address = a,
                     !.password = password] \in Operation
    <3>1. password \in Passwords
      BY DEF FreshPasswords
    <3> QED
      BY <3>1, IdleTyped DEF Operation
  <2> QED
    BY <2>1, <2>2, HoldTyped DEF TypeOK, Reads, Processes
<1>11. ASSUME NEW o \in Processes, SetPassword(o)
       PROVE  TypeOK'
  <2>1. hands[o] \in Operation /\ [hands[o] EXCEPT !.stage = "called"] \in Operation
    BY UnseenTyped, CalledTyped DEF TypeOK
  <2>2. hands[o].address \in Addresses /\ hands[o].password \in Passwords
    BY <1>11 DEF SetPassword, At, OperationsSound, Sound
  <2> QED
    BY <1>11, <2>1, <2>2, HoldTyped DEF TypeOK, SetPassword, PasswordSet
<1>12. ASSUME NEW o \in Processes, StoreMailbox(o) \/ StoreCollides(o) \/ StoreRotated(o)
       PROVE  TypeOK'
  <2>1. hands[o].address \in Addresses /\ hands[o].password \in Passwords
    BY <1>12 DEF StoreMailbox, StoreCollides, StoreRotated, At, OperationsSound, Sound
  <2>2. jobs' \in [JobIds -> Job] /\ hands' \in [Processes -> Operation]
    BY <1>12, EndTyped DEF StoreMailbox, StoreCollides, StoreRotated
  <2>3. status' \in [Domains -> Statuses]
    BY <1>12 DEF TypeOK, StoreMailbox, StoreCollides, StoreRotated, Statuses
  <2> QED
    BY <1>12, <2>1, <2>2, <2>3 DEF TypeOK, StoreMailbox, StoreCollides, StoreRotated
<1>13. ASSUME NEW o \in Operators, NEW kind \in {"add", "verify"}, NEW d \in Domains,
              LookToRequest(o, kind, d)
       PROVE  TypeOK'
  <2>1. [Idle EXCEPT !.kind = "request", !.stage = "looked", !.domain = d, !.wants = kind]
           \in Operation
    BY IdleTyped DEF Operation
  <2> QED
    BY <1>13, <2>1, HoldTyped DEF LookToRequest, TypeOK, Reads, Processes
<1>14. ASSUME NEW o \in Processes, InsertJob(o)
       PROVE  TypeOK'
  <2>1. hands[o] \in Operation
    BY DEF TypeOK
  <2>2. [status |-> "pending", kind |-> hands[o].wants, domain |-> hands[o].domain] \in Job
    BY <2>1 DEF Operation, Job
  <2>3. jobs' \in [JobIds -> Job]
    BY <1>14, <2>2 DEF InsertJob, TypeOK
  <2> QED
    BY <1>14, <2>3, HoldTyped, IdleTyped DEF TypeOK, InsertJob
<1>15. ASSUME NEW o \in Processes, Break(o) \/ JobRaises(o)
       PROVE  TypeOK'
  <2>1. CASE Break(o)
    <3>1. hands[o].kind \in {"provision", "rotate"} => hands[o].address \in Addresses
      BY DEF OperationsSound, Sound
    <3> QED
      BY <2>1, <3>1, HoldTyped, IdleTyped DEF TypeOK, Break, Fault, At
  <2>2. CASE JobRaises(o)
    BY <2>2, EndTyped DEF TypeOK, JobRaises, Fault
  <2> QED
    BY <1>15, <2>1, <2>2
<1>16. ASSUME NEW o \in Processes, Misread(o)
       PROVE  TypeOK'
  <2> DEFINE op == [hands[o] EXCEPT !.stage = "called", !.evidence = Unseen,
                                    !.inhabited = Inhabited(hands[o].domain)]
  <2>1. op \in Operation /\ [hands[o] EXCEPT !.stage = "called"] \in Operation
    BY UnseenTyped, CalledTyped DEF TypeOK, Inhabited
  <2>2. hands'\in [Processes -> Operation]
    <3> HIDE DEF op
    <3>1. Hold(o, op) \/ Hold(o, [hands[o] EXCEPT !.stage = "called"])
      BY <1>16 DEF Misread, op
    <3> QED
      BY <2>1, <3>1, HoldTyped
  <2>3. hands[o].kind \in {"provision", "rotate"} => hands[o].address \in Addresses
    BY DEF OperationsSound, Sound
  <2>4. hands[o].kind \in {"add", "verify", "provision", "rotate"}
    BY <1>16 DEF OperationsSound, Sound, Misread, TypeOK, Operation
  <2>5. doubtful' \in SUBSET Addresses
    BY <1>16, <2>3, <2>4 DEF TypeOK, Misread
  <2> QED
    BY <1>16, <2>2, <2>5 DEF TypeOK, Misread, Fault
<1>17. ASSUME NEW w \in Workers, RestartWorker(w) \/ \E a \in Addresses : Connect(w, a)
       PROVE  TypeOK'
  <2>1. adapters' \in [Workers -> [Addresses -> Passwords \union {None}]]
    BY <1>17 DEF TypeOK, RestartWorker, Connect
  <2> QED
    BY <1>17, <2>1 DEF TypeOK, RestartWorker, Connect
<1>18. CASE UNCHANGED vars
  BY <1>18 DEF vars, TypeOK
<1>19. ASSUME NEW o \in Processes, TakeUp(o) \/ GoOn(o) \/ AnySweep(o) \/ GoWrong(o)
       PROVE  TypeOK'
  BY <1>19, <1>1, <1>2, <1>3, <1>4, <1>5, <1>6, <1>7, <1>8, <1>15, <1>16, IdentityConstants
     DEF TakeUp, GoOn, AnySweep, GoWrong
<1>20. ASSUME NEW o \in Operators, TakeUpAlone(o) \/ GoOnAlone(o)
       PROVE  TypeOK'
  BY <1>20, <1>9, <1>10, <1>11, <1>12, <1>13, <1>14 DEF TakeUpAlone, GoOnAlone, Processes
<1> QED
  BY <1>17, <1>18, <1>19, <1>20 DEF AnyStep

-----------------------------------------------------------------------------
(* Operations stay sound *)

\* What is never taken back, by any operation.
Grows ==
    /\ \A d \in Domains : status[d] # "untracked" => status'[d] # "untracked"
    /\ \A a \in Addresses : mailboxes[a] # None => mailboxes'[a] # None
    /\ proven \subseteq proven' /\ registered \subseteq registered'

LEMMA NextStatusTracked ==
    ASSUME NEW read \in Statuses, read # "untracked", NEW sweep, NEW inhabited
    PROVE  NextStatus(read, sweep, inhabited) # "untracked"
BY DEF NextStatus

LEMMA StepGrows ==
    ASSUME TypeOK, OperationsSound, [AnyStep]_vars
    PROVE  Grows
<1> USE DEF tables, provider, history
<1>1. ASSUME NEW o \in Processes, Register(o) \/ RegisterFails(o)
      PROVE  Grows
  BY <1>1 DEF Grows, Register, RegisterFails
<1>2. ASSUME NEW o \in Processes, Track(o)
      PROVE  Grows
  BY <1>2 DEF Grows, Track, Tracked, TypeOK
<1>3. ASSUME NEW o \in Processes, WriteStatus(o)
      PROVE  Grows
  <2>1. hands[o].read \in Statuses /\ hands[o].read # "untracked"
    BY <1>3 DEF TypeOK, Operation, OperationsSound, Sound, WriteStatus, At
  <2>2. NextStatus(hands[o].read, hands[o].evidence, hands[o].inhabited) # "untracked"
    BY <2>1, NextStatusTracked
  <2>3. \A d \in Domains : status[d] # "untracked" => status'[d] # "untracked"
    BY <1>3, <2>2 DEF WriteStatus, TypeOK
  <2> QED
    BY <1>3, <2>3 DEF Grows, WriteStatus
<1>4. ASSUME NEW o \in Processes, StoreMailbox(o) \/ StoreRotated(o)
      PROVE  Grows
  <2>1. hands[o].password # None
    BY <1>4, IdentityConstants DEF StoreMailbox, StoreRotated, At, OperationsSound, Sound
  <2>2. \A d \in Domains : status[d] # "untracked" => status'[d] # "untracked"
    BY <1>4 DEF StoreMailbox, StoreRotated, TypeOK
  <2> QED
    BY <1>4, <2>1, <2>2 DEF Grows, StoreMailbox, StoreRotated, TypeOK
<1>5. CASE UNCHANGED <<status, mailboxes, proven, registered>>
  BY <1>5 DEF Grows
<1>6. ASSUME NEW o \in Processes, TakeUp(o) \/ GoOn(o) \/ AnySweep(o) \/ GoWrong(o)
      PROVE  Grows
  <2>1. ASSUME TakeUp(o) \/ AnySweep(o)
        PROVE  UNCHANGED <<status, mailboxes, proven, registered>>
    BY <2>1 DEF TakeUp, LookToAdd, LookToVerify, AnySweep, Finds, Refuse, Reads
  <2>2. ASSUME SweepFails(o) \/ Misread(o) \/ Break(o) \/ JobRaises(o)
        PROVE  UNCHANGED <<status, mailboxes, proven, registered>>
    BY <2>2 DEF SweepFails, Misread, Break, JobRaises
  <2> QED
    BY <1>1, <1>2, <1>3, <1>5, <1>6, <2>1, <2>2 DEF GoOn, GoWrong
<1>7. ASSUME NEW o \in Operators, TakeUpAlone(o) \/ GoOnAlone(o)
      PROVE  Grows
  <2>1. ASSUME TakeUpAlone(o) \/ SetPassword(o) \/ StoreCollides(o) \/ InsertJob(o)
        PROVE  UNCHANGED <<status, mailboxes, proven, registered>>
    BY <2>1 DEF TakeUpAlone, LookToRotate, LookToProvision, LookToRequest, Reads,
                SetPassword, StoreCollides, InsertJob
  <2> QED
    BY <1>4, <1>5, <1>7, <2>1 DEF GoOnAlone, Processes
<1>8. ASSUME NEW w \in Workers, RestartWorker(w) \/ \E a \in Addresses : Connect(w, a)
      PROVE  Grows
  BY <1>8, <1>5 DEF RestartWorker, Connect
<1> QED
  BY <1>5, <1>6, <1>7, <1>8 DEF AnyStep, vars

LEMMA IdleSound ==
    ASSUME NEW st, NEW mb, NEW pr, NEW rg
    PROVE  Sound(Idle, st, mb, pr, rg)
BY DEF Sound, Idle

LEMMA SoundPersists ==
    ASSUME NEW op, NEW st1, NEW mb1, NEW pr1, NEW rg1, NEW st2, NEW mb2, NEW pr2, NEW rg2,
           \A d \in Domains : st1[d] # "untracked" => st2[d] # "untracked",
           \A a \in Addresses : mb1[a] # None => mb2[a] # None,
           pr1 \subseteq pr2, rg1 \subseteq rg2,
           Sound(op, st1, mb1, pr1, rg1)
    PROVE  Sound(op, st2, mb2, pr2, rg2)
BY IdentityConstants DEF Sound

\* The operation that moves must be sound in the next state; what the others rest
\* on is not taken back.
LEMMA OthersSound ==
    ASSUME TypeOK, OperationsSound, Grows, NEW o \in Processes, NEW op, Hold(o, op),
           Sound(op, status', mailboxes', proven', registered')
    PROVE  OperationsSound'
<1>1. ASSUME NEW p \in Processes
      PROVE  Sound(hands'[p], status', mailboxes', proven', registered')
  <2>1. CASE p = o
    BY <2>1 DEF Hold, TypeOK
  <2>2. CASE p # o
    <3>1. hands'[p] = hands[p]
      BY <2>2 DEF Hold, TypeOK
    <3>2. Sound(hands[p], status, mailboxes, proven, registered)
      BY DEF OperationsSound
    <3>3. Sound(hands[p], status', mailboxes', proven', registered')
      BY <3>2, SoundPersists DEF Grows
    <3> QED
      BY <3>1, <3>3
  <2> QED
    BY <2>1, <2>2
<1> QED
  BY <1>1 DEF OperationsSound

LEMMA NobodyMoved ==
    ASSUME OperationsSound, Grows, UNCHANGED hands
    PROVE  OperationsSound'
<1>1. ASSUME NEW p \in Processes
      PROVE  Sound(hands[p], status', mailboxes', proven', registered')
  <2>1. Sound(hands[p], status, mailboxes, proven, registered)
    BY DEF OperationsSound
  <2> QED
    BY <2>1, SoundPersists DEF Grows
<1> QED
  BY <1>1 DEF OperationsSound

LEMMA EndSound ==
    ASSUME TypeOK, OperationsSound, Grows, NEW o \in Processes, Hold(o, Idle)
    PROVE  OperationsSound'
BY IdleSound, OthersSound

LEMMA SoundStep ==
    ASSUME TypeOK, OperationsSound, ReadyIsFounded, [AnyStep]_vars
    PROVE  OperationsSound'
<1> USE DEF tables, provider, history
<1>0. Grows
  BY StepGrows
<1>1. ASSUME NEW o \in Processes, NEW d \in Domains, NEW j \in JobIds \union {0},
             LookToAdd(o, d, j)
      PROVE  OperationsSound'
  <2> DEFINE op == [Idle EXCEPT !.kind = "add", !.stage = "looked", !.job = j, !.domain = d]
  <2>1. Sound(op, status', mailboxes', proven', registered')
    BY DEF Sound, Idle
  <2> HIDE DEF op
  <2>2. Hold(o, op) \/ UNCHANGED hands
    BY <1>1 DEF op, LookToAdd, Reads, Refuse
  <2> QED
    BY <1>0, <2>1, <2>2, OthersSound, NobodyMoved
<1>2. ASSUME NEW o \in Processes, NEW d \in Domains, NEW j \in JobIds \union {0},
             LookToVerify(o, d, j)
      PROVE  OperationsSound'
  <2> DEFINE op == [Idle EXCEPT !.kind = "verify", !.stage = "looked", !.job = j,
                                !.domain = d, !.read = status[d], !.shown = listed[d]]
  <2>1. CASE Refuse(o, j, "failed")
    BY <1>0, <2>1, NobodyMoved DEF Refuse
  <2>2. CASE Tracked(d) /\ Reads(o, op)
    <3>1. Sound(op, status', mailboxes', proven', registered')
      BY <2>2 DEF Sound, Idle, Reads, ReadyIsFounded, Inhabited, Tracked, Provisioned
    <3> HIDE DEF op
    <3> QED
      BY <1>0, <2>2, <3>1, OthersSound DEF Reads
  <2> QED
    BY <1>2, <2>1, <2>2 DEF LookToVerify
<1>3. ASSUME NEW o \in Processes, Register(o) \/ SetPassword(o)
      PROVE  OperationsSound'
  <2> DEFINE op == [hands[o] EXCEPT !.stage = "called"]
  <2>1. Sound(hands[o], status', mailboxes', proven', registered')
    BY <1>0, SoundPersists DEF OperationsSound, Grows
  <2>2. hands[o].kind \in {"add", "provision", "rotate"} /\ hands[o] \in Operation
    BY <1>3 DEF Register, SetPassword, At, TypeOK
  <2>3. Sound(op, status', mailboxes', proven', registered')
    BY <2>1, <2>2 DEF Sound, Operation
  <2> HIDE DEF op
  <2>4. Hold(o, op)
    BY <1>3 DEF op, Register, SetPassword
  <2> QED
    BY <1>0, <2>3, <2>4, OthersSound
<1>4. ASSUME NEW o \in Processes, Track(o) \/ SweepFails(o) \/ WriteStatus(o)
                                    \/ RegisterFails(o) \/ Break(o) \/ JobRaises(o)
                                    \/ StoreMailbox(o) \/ StoreCollides(o)
                                    \/ StoreRotated(o) \/ InsertJob(o)
      PROVE  OperationsSound'
  <2>1. Hold(o, Idle)
    BY <1>4 DEF Track, SweepFails, WriteStatus, RegisterFails, Break, JobRaises,
                StoreMailbox, StoreCollides, StoreRotated, InsertJob, End
  <2> QED
    BY <1>0, <2>1, EndSound
\* A sweep, or what is taken for one.
<1>5. ASSUME NEW o \in Processes, NEW sweep \in Sweeps, hands[o].kind = "verify",
             hands[o].domain \in registered \/ ~Sendable(sweep),
             UNCHANGED <<tables, provider, proven>>,
             Hold(o, [hands[o] EXCEPT !.stage = "called", !.evidence = sweep,
                                      !.inhabited = Inhabited(hands[o].domain)])
      PROVE  OperationsSound'
  <2> DEFINE op == [hands[o] EXCEPT !.stage = "called", !.evidence = sweep,
                                    !.inhabited = Inhabited(hands[o].domain)]
  <2>1. Sound(hands[o], status', mailboxes', proven', registered')
    BY <1>5 DEF OperationsSound
  <2>2. hands[o] \in Operation
    BY DEF TypeOK
  <2>3. Inhabited(hands[o].domain)' <=> Inhabited(hands[o].domain)
    BY <1>5 DEF Inhabited, Provisioned, Hold
  <2>4. Sound(op, status', mailboxes', proven', registered')
    BY <1>5, <2>1, <2>2 DEF Sound, Operation, Inhabited, Provisioned
  <2> HIDE DEF op
  <2>5. Hold(o, op)
    BY <1>5 DEF op
  <2> QED
    BY <1>0, <2>4, <2>5, OthersSound
<1>6. ASSUME NEW o \in Processes, NEW sweep \in Sweeps, Finds(o, sweep)
      PROVE  OperationsSound'
  BY <1>5, <1>6, IdentityConstants DEF Finds, At, Reads
<1>7. ASSUME NEW o \in Processes, Misread(o)
      PROVE  OperationsSound'
  <2>1. CASE hands[o].kind = "verify"
    BY <1>5, <1>7, <2>1, UnseenTyped DEF Misread
  <2>2. CASE hands[o].kind # "verify"
    <3> DEFINE op == [hands[o] EXCEPT !.stage = "called"]
    <3>1. Sound(hands[o], status', mailboxes', proven', registered')
      BY <1>0, SoundPersists DEF OperationsSound, Grows
    <3>2. hands[o] \in Operation /\ hands[o].stage = "looked"
      BY <1>7 DEF TypeOK, Misread
    <3>3. Sound(op, status', mailboxes', proven', registered')
      BY <2>2, <3>1, <3>2 DEF Sound, Operation
    <3> HIDE DEF op
    <3>4. Hold(o, op)
      BY <1>7, <2>2 DEF op, Misread
    <3> QED
      BY <1>0, <3>3, <3>4, OthersSound
  <2> QED
    BY <2>1, <2>2
<1>8. ASSUME NEW o \in Operators, NEW a \in Addresses, NEW additional \in BOOLEAN,
             LookToProvision(o, a, additional)
      PROVE  OperationsSound'
  <2>1. PICK password \in FreshPasswords :
           Reads(o, [Idle EXCEPT !.kind = "provision", !.stage = "looked",
                                 !.domain = DomainOf[a], !.address = a,
                                 !.read = status[DomainOf[a]], !.password = password])
    BY <1>8 DEF LookToProvision
  <2> DEFINE op == [Idle EXCEPT !.kind = "provision", !.stage = "looked",
                                !.domain = DomainOf[a], !.address = a,
                                !.read = status[DomainOf[a]], !.password = password]
  <2>2. /\ DomainOf[a] \in Domains /\ password \in Passwords /\ ~TooEarly(status[DomainOf[a]])
        /\ status[DomainOf[a]] = "verified" => DomainOf[a] \in proven \intersect registered
        /\ UNCHANGED <<status, proven, registered>>
    BY <1>8, <2>1, IdentityConstants DEF LookToProvision, FreshPasswords, ReadyIsFounded, Reads
  <2>3. Sound(op, status', mailboxes', proven', registered')
    BY <2>2 DEF Sound, Idle, TooEarly
  <2> HIDE DEF op
  <2>4. Hold(o, op)
    BY <2>1 DEF op, Reads
  <2> QED
    BY <1>0, <2>3, <2>4, OthersSound DEF Processes
<1>9. ASSUME NEW o \in Operators, NEW a \in Addresses, LookToRotate(o, a)
      PROVE  OperationsSound'
  <2>1. PICK password \in FreshPasswords :
           Reads(o, [Idle EXCEPT !.kind = "rotate", !.stage = "looked",
                                 !.address = a, !.password = password])
    BY <1>9 DEF LookToRotate
  <2> DEFINE op == [Idle EXCEPT !.kind = "rotate", !.stage = "looked",
                                !.address = a, !.password = password]
  <2>2. password \in Passwords /\ Provisioned(a) /\ UNCHANGED mailboxes
    BY <1>9, <2>1 DEF LookToRotate, FreshPasswords, Reads
  <2>3. Sound(op, status', mailboxes', proven', registered')
    BY <2>2 DEF Sound, Idle, Provisioned
  <2> HIDE DEF op
  <2>4. Hold(o, op)
    BY <2>1 DEF op, Reads
  <2> QED
    BY <1>0, <2>3, <2>4, OthersSound DEF Processes
<1>10. ASSUME NEW o \in Operators, NEW kind \in {"add", "verify"}, NEW d \in Domains,
              LookToRequest(o, kind, d)
       PROVE  OperationsSound'
  <2> DEFINE op == [Idle EXCEPT !.kind = "request", !.stage = "looked", !.domain = d,
                                !.wants = kind]
  <2>1. Sound(op, status', mailboxes', proven', registered')
    BY DEF Sound, Idle
  <2> HIDE DEF op
  <2>2. Hold(o, op)
    BY <1>10 DEF op, LookToRequest, Reads
  <2> QED
    BY <1>0, <2>1, <2>2, OthersSound DEF Processes
<1>11. ASSUME NEW w \in Workers, RestartWorker(w) \/ \E a \in Addresses : Connect(w, a)
       PROVE  OperationsSound'
  BY <1>0, <1>11, NobodyMoved DEF RestartWorker, Connect
<1>12. CASE UNCHANGED vars
  BY <1>0, <1>12, NobodyMoved DEF vars
<1>13. ASSUME NEW o \in Processes, TakeUp(o) \/ GoOn(o) \/ AnySweep(o) \/ GoWrong(o)
       PROVE  OperationsSound'
  BY <1>1, <1>2, <1>3, <1>4, <1>6, <1>7, <1>13 DEF TakeUp, GoOn, AnySweep, GoWrong
<1>14. ASSUME NEW o \in Operators, TakeUpAlone(o) \/ GoOnAlone(o)
       PROVE  OperationsSound'
  BY <1>3, <1>4, <1>8, <1>9, <1>10, <1>14 DEF TakeUpAlone, GoOnAlone, Processes
<1> QED
  BY <1>11, <1>12, <1>13, <1>14 DEF AnyStep

-----------------------------------------------------------------------------
(* What the rest of emaild sees *)

\* The steps that write the tables the rest of emaild and the operator read.
LEMMA Writers ==
    ASSUME [AnyStep]_vars
    PROVE  \/ UNCHANGED <<status, listed, mailboxes>>
           \/ \E o \in Processes : \/ Track(o) \/ WriteStatus(o)
                                   \/ StoreMailbox(o) \/ StoreRotated(o)
<1> USE DEF tables
<1>1. ASSUME NEW o \in Processes, TakeUp(o) \/ AnySweep(o)
      PROVE  UNCHANGED <<status, listed, mailboxes>>
  BY <1>1 DEF TakeUp, LookToAdd, LookToVerify, AnySweep, Finds, Refuse, Reads
<1>2. ASSUME NEW o \in Processes, Register(o) \/ SweepFails(o) \/ GoWrong(o)
      PROVE  UNCHANGED <<status, listed, mailboxes>>
  BY <1>2 DEF Register, SweepFails, GoWrong, RegisterFails, Misread, Break, JobRaises
<1>3. ASSUME NEW o \in Operators, TakeUpAlone(o)
      PROVE  UNCHANGED <<status, listed, mailboxes>>
  BY <1>3 DEF TakeUpAlone, LookToRotate, LookToProvision, LookToRequest, Reads
<1>4. ASSUME NEW o \in Operators, SetPassword(o) \/ StoreCollides(o) \/ InsertJob(o)
      PROVE  UNCHANGED <<status, listed, mailboxes>>
  BY <1>4 DEF SetPassword, StoreCollides, InsertJob
<1>5. ASSUME NEW w \in Workers, RestartWorker(w) \/ \E a \in Addresses : Connect(w, a)
      PROVE  UNCHANGED <<status, listed, mailboxes>>
  BY <1>5 DEF RestartWorker, Connect
<1>6. CASE UNCHANGED vars
  BY <1>6 DEF vars
<1> QED
  BY <1>1, <1>2, <1>3, <1>4, <1>5, <1>6 DEF AnyStep, GoOn, GoOnAlone, Processes

\* What a changed status rests on.
LEMMA NextStatusFounded ==
    ASSUME NEW read \in Statuses, NEW sweep \in Sweeps, NEW inhabited \in BOOLEAN,
           NextStatus(read, sweep, inhabited) # read
    PROVE  /\ NextStatus(read, sweep, inhabited) \in {"verified", "ready"} => Sendable(sweep)
           /\ NextStatus(read, sweep, inhabited) = "ready" => inhabited
BY DEF NextStatus, Sendable, Report

\* What WriteStatus makes of the domain it swept.
LEMMA Swept ==
    ASSUME TypeOK, OperationsSound, NEW o \in Processes, WriteStatus(o)
    PROVE  LET d == hands[o].domain IN
           /\ d \in Domains /\ status[d] # "untracked" /\ status'[d] # "untracked"
           /\ status'[d] \in Statuses
           /\ status'[d] # status[d] =>
                 /\ status'[d] \in {"verified", "ready"} => d \in proven' \intersect registered
                 /\ status'[d] = "ready" => Inhabited(d)
           /\ \A e \in Domains \ {d} : status'[e] = status[e]
<1> DEFINE op == hands[o]
<1> DEFINE next == NextStatus(op.read, op.evidence, op.inhabited)
<1>1. /\ op \in Operation /\ op.kind = "verify" /\ op.stage = "called"
      /\ Sound(op, status, mailboxes, proven, registered)
  BY DEF WriteStatus, At, TypeOK, OperationsSound
<1>2. /\ op.domain \in Domains /\ op.read \in Statuses \ {"untracked"}
      /\ op.evidence \in Sweeps /\ op.inhabited \in BOOLEAN
      /\ status[op.domain] # "untracked"
      /\ op.inhabited => Inhabited(op.domain)
      /\ Sendable(op.evidence) => op.domain \in registered
  BY <1>1 DEF Sound, Operation, Inhabited, Provisioned
<1>3. next \in Statuses /\ next # "untracked"
  BY <1>2, NextStatusTyped, NextStatusTracked
<1>4. next # op.read => /\ next \in {"verified", "ready"} => Sendable(op.evidence)
                        /\ next = "ready" => op.inhabited
  BY <1>2, NextStatusFounded
<1> HIDE DEF op, next
<1>5. /\ status' = IF next = op.read THEN status ELSE [status EXCEPT ![op.domain] = next]
      /\ proven' = IF Sendable(op.evidence) THEN proven \union {op.domain} ELSE proven
  BY DEF WriteStatus, op, next
<1>6. /\ status'[op.domain] # status[op.domain] => next # op.read /\ status'[op.domain] = next
      /\ status'[op.domain] \in Statuses \ {"untracked"}
      /\ \A e \in Domains \ {op.domain} : status'[e] = status[e]
  BY <1>2, <1>3, <1>5 DEF TypeOK
<1>7. status'[op.domain] # status[op.domain] =>
         /\ status'[op.domain] \in {"verified", "ready"} =>
               op.domain \in proven' \intersect registered
         /\ status'[op.domain] = "ready" => Inhabited(op.domain)
  BY <1>2, <1>4, <1>5, <1>6
<1> QED
  BY <1>2, <1>6, <1>7 DEF op

LEMMA FoundedStep ==
    ASSUME TypeOK, OperationsSound, ReadyIsFounded, [AnyStep]_vars
    PROVE  ReadyIsFounded'
<1> USE DEF provider, history
<1>0. Grows
  BY StepGrows
<1>1. \A d \in Domains : Inhabited(d) => Inhabited(d)'
  BY <1>0 DEF Grows, Inhabited, Provisioned
<1>2. SUFFICES ASSUME NEW d \in Domains, status'[d] # status[d]
               PROVE  /\ status'[d] \in {"verified", "ready"} =>
                            d \in proven' \intersect registered'
                      /\ status'[d] = "ready" => Inhabited(d)'
  BY <1>0, <1>1 DEF ReadyIsFounded, Grows
<1>3. PICK o \in Processes : Track(o) \/ WriteStatus(o) \/ StoreMailbox(o)
  BY <1>2, Writers DEF StoreRotated
<1>4. CASE Track(o)
  BY <1>2, <1>4 DEF Track, TypeOK
<1>5. CASE WriteStatus(o)
  <2>1. UNCHANGED registered
    BY <1>5 DEF WriteStatus
  <2> QED
    BY <1>1, <1>2, <1>5, <2>1, Swept
<1>6. CASE StoreMailbox(o)
  <2>1. /\ hands[o].read = "verified" /\ hands[o].domain = d
        /\ d = DomainOf[hands[o].address] /\ hands[o].address \in Addresses
        /\ hands[o].password # None /\ d \in proven \intersect registered
    BY <1>2, <1>6, IdentityConstants
       DEF StoreMailbox, At, OperationsSound, Sound, Promoted, TypeOK
  <2>2. mailboxes'[hands[o].address] # None
    BY <1>6, <2>1 DEF StoreMailbox, TypeOK
  <2> QED
    BY <1>0, <2>1, <2>2 DEF Grows, Inhabited, Provisioned
<1> QED
  BY <1>3, <1>4, <1>5, <1>6

-----------------------------------------------------------------------------
(* Credentials *)

\* An operation on no address, and one that has not changed the account, is in
\* no Unstored set.
LEMMA UnstoredKept ==
    ASSUME TypeOK, NEW a \in Addresses, NEW o \in Processes,
           \A p \in Processes \ {o} : hands'[p] = hands[p],
           ~(hands[o].address = a /\ hands[o].stage = "called"),
           ~(hands'[o].address = a /\ hands'[o].stage = "called")
    PROVE  Unstored(a)' = Unstored(a) /\ \A p \in Unstored(a) : hands'[p] = hands[p]
BY DEF Unstored

LEMMA UnstoredEnded ==
    ASSUME TypeOK, NEW a \in Addresses, NEW o \in Processes, Hold(o, Idle)
    PROVE  /\ Unstored(a)' = Unstored(a) \ {o}
           /\ \A p \in Unstored(a)' : hands'[p] = hands[p]
BY DEF Unstored, Hold, Idle, TypeOK

LEMMA HoldTells ==
    ASSUME TypeOK, NEW o \in Processes, NEW op, Hold(o, op)
    PROVE  hands'[o] = op /\ \A p \in Processes \ {o} : hands'[p] = hands[p]
BY DEF Hold, TypeOK

LEMMA HeldKept ==
    ASSUME NEW a \in Addresses, Held(a), UNCHANGED <<accounts[a], mailboxes[a]>>,
           Unstored(a)' = Unstored(a), \A p \in Unstored(a) : hands'[p] = hands[p]
    PROVE  Held(a)'
BY DEF Held, Provisioned

LEMMA CredentialsStep ==
    ASSUME TypeOK, OperationsSound, CredentialsHeld, [AnyStep]_vars
    PROVE  CredentialsHeld'
<1> USE DEF tables, provider, history
<1> SUFFICES ASSUME NEW a \in Addresses, a \notin doubtful'
             PROVE  Held(a)'
  BY DEF CredentialsHeld
\* Steps that neither take a password to an account nor store one.
<1>1. ASSUME UNCHANGED <<accounts, mailboxes>>, a \notin doubtful, NEW o \in Processes,
             \A p \in Processes \ {o} : hands'[p] = hands[p],
             ~(hands[o].address = a /\ hands[o].stage = "called"),
             ~(hands'[o].address = a /\ hands'[o].stage = "called")
      PROVE  Held(a)'
  <2>1. Held(a)
    BY <1>1 DEF CredentialsHeld
  <2> QED
    BY <1>1, <2>1, UnstoredKept, HeldKept
<1>2. ASSUME UNCHANGED <<accounts, mailboxes, doubtful, hands>>
      PROVE  Held(a)'
  <2>1. Held(a)
    BY <1>2 DEF CredentialsHeld
  <2> QED
    BY <1>2, <2>1 DEF Held, Unstored, Provisioned
\* A process that was free and has looked.
<1>3. ASSUME NEW o \in Processes, Free(o), NEW op, op.stage = "looked", Reads(o, op)
      PROVE  Held(a)'
  BY <1>1, <1>3, HoldTells DEF Reads, Free
<1>4. ASSUME NEW o \in Processes, TakeUp(o)
      PROVE  Held(a)'
  <2>1. PICK d \in Domains, j \in JobIds \union {0} : LookToAdd(o, d, j) \/ LookToVerify(o, d, j)
    BY <1>4 DEF TakeUp
  <2> DEFINE adding == [Idle EXCEPT !.kind = "add", !.stage = "looked", !.job = j, !.domain = d]
             verifying == [Idle EXCEPT !.kind = "verify", !.stage = "looked", !.job = j,
                                       !.domain = d, !.read = status[d], !.shown = listed[d]]
  <2>2. adding.stage = "looked" /\ verifying.stage = "looked"
    BY DEF Idle
  <2> HIDE DEF adding, verifying
  <2>3. \/ Refuse(o, j, "succeeded") \/ Refuse(o, j, "failed")
        \/ Free(o) /\ (Reads(o, adding) \/ Reads(o, verifying))
    BY <2>1 DEF adding, verifying, LookToAdd, LookToVerify, Undertakes
  <2> QED
    BY <1>2, <1>3, <2>2, <2>3 DEF Refuse
<1>5. ASSUME NEW o \in Operators, TakeUpAlone(o)
      PROVE  Held(a)'
  <2>0. o \in Processes
    BY DEF Processes
  <2>1. ASSUME NEW b \in Addresses, LookToRotate(o, b)
        PROVE  Held(a)'
    <3>1. PICK password \in FreshPasswords :
             Reads(o, [Idle EXCEPT !.kind = "rotate", !.stage = "looked",
                                   !.address = b, !.password = password])
      BY <2>1 DEF LookToRotate
    <3>2. [Idle EXCEPT !.kind = "rotate", !.stage = "looked", !.address = b,
                       !.password = password].stage = "looked"
      BY DEF Idle
    <3> QED
      BY <1>3, <2>0, <2>1, <3>1, <3>2 DEF LookToRotate
  <2>2. ASSUME NEW b \in Addresses, NEW additional \in BOOLEAN, LookToProvision(o, b, additional)
        PROVE  Held(a)'
    <3>1. PICK password \in FreshPasswords :
             Reads(o, [Idle EXCEPT !.kind = "provision", !.stage = "looked",
                                   !.domain = DomainOf[b], !.address = b,
                                   !.read = status[DomainOf[b]], !.password = password])
      BY <2>2 DEF LookToProvision
    <3>2. [Idle EXCEPT !.kind = "provision", !.stage = "looked", !.domain = DomainOf[b],
                       !.address = b, !.read = status[DomainOf[b]],
                       !.password = password].stage = "looked"
      BY DEF Idle
    <3> QED
      BY <1>3, <2>0, <2>2, <3>1, <3>2 DEF LookToProvision
  <2>3. ASSUME NEW kind \in {"add", "verify"}, NEW d \in Domains, LookToRequest(o, kind, d)
        PROVE  Held(a)'
    <3>1. [Idle EXCEPT !.kind = "request", !.stage = "looked", !.domain = d,
                       !.wants = kind].stage = "looked"
      BY DEF Idle
    <3> QED
      BY <1>3, <2>0, <2>3, <3>1 DEF LookToRequest
  <2> QED
    BY <1>5, <2>1, <2>2, <2>3 DEF TakeUpAlone
\* Operations on no address.
<1>6. ASSUME NEW o \in Processes, UNCHANGED <<accounts, mailboxes, doubtful>>,
             hands[o].address \notin Addresses, hands'[o].address \notin Addresses,
             \A p \in Processes \ {o} : hands'[p] = hands[p]
      PROVE  Held(a)'
  BY <1>1, <1>6
<1>7. ASSUME NEW o \in Processes,
             \/ Register(o) \/ RegisterFails(o) \/ Track(o) \/ AnySweep(o) \/ SweepFails(o)
             \/ WriteStatus(o) \/ InsertJob(o) \/ JobRaises(o)
             \/ Misread(o) /\ hands[o].kind \in {"add", "verify"}
      PROVE  Held(a)'
  <2>1. hands[o].kind \in {"add", "verify", "request"} /\ hands[o] \in Operation
    BY <1>7 DEF Register, RegisterFails, Track, AnySweep, Finds, SweepFails, WriteStatus,
                InsertJob, JobRaises, At, OperationsSound, Sound, TypeOK
  <2>2. hands[o].address = None
    BY <2>1 DEF OperationsSound, Sound
  <2>3. UNCHANGED <<accounts, mailboxes, doubtful>>
    BY <1>7 DEF Register, RegisterFails, Track, AnySweep, Finds, SweepFails, WriteStatus,
                InsertJob, JobRaises, Misread, Reads
  <2>4. ASSUME NEW op, op.address = None, Hold(o, op)
        PROVE  Held(a)'
    BY <1>6, <2>2, <2>3, <2>4, HoldTells, IdentityConstants
  <2>5. CASE Hold(o, Idle)
    BY <2>4, <2>5 DEF Idle
  <2>6. CASE Hold(o, [hands[o] EXCEPT !.stage = "called"])
    BY <2>1, <2>2, <2>4, <2>6 DEF Operation
  <2>7. ASSUME NEW sweep, Hold(o, [hands[o] EXCEPT !.stage = "called", !.evidence = sweep,
                                     !.inhabited = Inhabited(hands[o].domain)])
        PROVE  Held(a)'
    BY <2>1, <2>2, <2>4, <2>7 DEF Operation
  <2> QED
    BY <1>7, <2>5, <2>6, <2>7 DEF Register, RegisterFails, Track, AnySweep, Finds, SweepFails,
            WriteStatus, InsertJob, JobRaises, Misread, Reads, End
<1>8. ASSUME NEW o \in Processes, Break(o) \/ (Misread(o) /\ hands[o].kind \notin {"add", "verify"})
      PROVE  Held(a)'
  <2>1. /\ hands[o] \in Operation /\ hands[o].kind # "none"
        /\ hands[o].kind \notin {"provision", "rotate"} => hands[o].address # a
    BY <1>8, IdentityConstants DEF Break, Misread, Free, TypeOK, Operation, OperationsSound, Sound
  <2>2. /\ UNCHANGED <<accounts, mailboxes>> /\ a \notin doubtful
        /\ \A p \in Processes \ {o} : hands'[p] = hands[p]
    BY <1>8 DEF Break, Misread, Hold, TypeOK
  <2>3. CASE Break(o)
    <3>1. ~(hands[o].address = a /\ hands[o].stage = "called")
      BY <2>1, <2>3 DEF Break, At, Operation
    <3>2. hands'[o].stage = "free"
      BY <2>3 DEF Break, Hold, Idle, TypeOK
    <3> QED
      BY <1>1, <2>2, <3>1, <3>2
  <2>4. CASE Misread(o) /\ hands[o].kind \notin {"add", "verify"}
    <3>1. hands[o].stage = "looked" /\ hands[o].address # a /\ hands'[o].address = hands[o].address
      BY <2>1, <2>4 DEF Misread, Hold, TypeOK, Operation
    <3> QED
      BY <1>1, <2>2, <3>1
  <2> QED
    BY <1>8, <2>3, <2>4
<1>9. ASSUME NEW o \in Processes, SetPassword(o)
      PROVE  Held(a)'
  <2>1. /\ hands[o] \in Operation /\ hands[o].stage = "looked"
        /\ hands[o].address \in Addresses
        /\ \A p \in Processes \ {o} : hands'[p] = hands[p]
        /\ hands'[o].address = hands[o].address /\ hands'[o].stage = "called"
        /\ hands'[o].password = hands[o].password
    BY <1>9 DEF SetPassword, At, TypeOK, Operation, Hold, OperationsSound, Sound
  <2>2. CASE hands[o].address = a
    <3>1. Unstored(a) = {} /\ accounts'[a] = hands[o].password
      BY <1>9, <2>1, <2>2 DEF SetPassword, PasswordSet, TypeOK
    <3>2. Unstored(a)' = {o}
      BY <2>1, <2>2, <3>1 DEF Unstored
    <3> QED
      BY <2>1, <3>1, <3>2 DEF Held
  <2>3. CASE hands[o].address # a
    <3>1. Held(a) /\ UNCHANGED <<accounts[a], mailboxes[a]>>
      BY <1>9, <2>1, <2>3 DEF SetPassword, TypeOK, CredentialsHeld
    <3>2. Unstored(a)' = Unstored(a) /\ \A p \in Unstored(a) : hands'[p] = hands[p]
      BY <2>1, <2>3, UnstoredKept
    <3> QED
      BY <3>1, <3>2, HeldKept
  <2> QED
    BY <2>2, <2>3
<1>10. ASSUME NEW o \in Processes, StoreMailbox(o) \/ StoreCollides(o) \/ StoreRotated(o)
       PROVE  Held(a)'
  <2>1. /\ hands[o].address \in Addresses /\ hands[o].stage = "called" /\ Hold(o, Idle)
        /\ UNCHANGED accounts
    BY <1>10 DEF StoreMailbox, StoreCollides, StoreRotated, At, OperationsSound, Sound, End
  <2>2. CASE hands[o].address = a
    <3>1. ~StoreCollides(o) /\ a \notin doubtful /\ mailboxes'[a] = hands[o].password
      BY <1>10, <2>2 DEF StoreMailbox, StoreCollides, StoreRotated, TypeOK
    <3>2. Unstored(a) = {o} /\ accounts[a] = hands[o].password
      BY <2>1, <2>2, <3>1 DEF CredentialsHeld, Held, Unstored
    <3>3. Unstored(a)' = {}
      BY <2>1, <3>2, UnstoredEnded
    <3> QED
      BY <2>1, <3>1, <3>2, <3>3 DEF Held
  <2>3. CASE hands[o].address # a
    <3>1. Held(a) /\ UNCHANGED <<accounts[a], mailboxes[a]>>
      BY <1>10, <2>1, <2>3 DEF StoreMailbox, StoreCollides, StoreRotated, TypeOK, CredentialsHeld
    <3>2. o \notin Unstored(a)
      BY <2>3 DEF Unstored
    <3>3. Unstored(a)' = Unstored(a) /\ \A p \in Unstored(a) : hands'[p] = hands[p]
      BY <2>1, <3>2, UnstoredEnded
    <3> QED
      BY <3>1, <3>3, HeldKept
  <2> QED
    BY <2>2, <2>3
<1>11. ASSUME NEW w \in Workers, RestartWorker(w) \/ \E b \in Addresses : Connect(w, b)
       PROVE  Held(a)'
  BY <1>2, <1>11 DEF RestartWorker, Connect
<1>12. CASE UNCHANGED vars
  BY <1>2, <1>12 DEF vars
<1>13. ASSUME NEW o \in Processes, TakeUp(o) \/ GoOn(o) \/ AnySweep(o) \/ GoWrong(o)
       PROVE  Held(a)'
  BY <1>4, <1>7, <1>8, <1>13 DEF GoOn, GoWrong
<1>14. ASSUME NEW o \in Operators, TakeUpAlone(o) \/ GoOnAlone(o)
       PROVE  Held(a)'
  BY <1>5, <1>7, <1>9, <1>10, <1>14 DEF GoOnAlone, Processes
<1> QED
  BY <1>11, <1>12, <1>13, <1>14 DEF AnyStep

-----------------------------------------------------------------------------
(* Jobs *)

LEMMA JobsStep ==
    ASSUME TypeOK, OneProvisionerPerJob, [AnyStep]_vars
    PROVE  OneProvisionerPerJob'
<1> USE DEF tables, provider, history
<1>1. CASE UNCHANGED hands
  BY <1>1 DEF OneProvisionerPerJob
<1>2. ASSUME NEW o \in Processes, NEW op, Hold(o, op),
             \/ op.job \in {0, hands[o].job}
             \/ \A p \in Provisioners : hands[p].job # op.job
      PROVE  OneProvisionerPerJob'
  BY <1>2, HoldTells DEF OneProvisionerPerJob, Processes
<1>3. ASSUME NEW o \in Processes, TakeUp(o)
      PROVE  OneProvisionerPerJob'
  <2>1. PICK d \in Domains, j \in JobIds \union {0} : LookToAdd(o, d, j) \/ LookToVerify(o, d, j)
    BY <1>3 DEF TakeUp
  <2> DEFINE adding == [Idle EXCEPT !.kind = "add", !.stage = "looked", !.job = j, !.domain = d]
             verifying == [Idle EXCEPT !.kind = "verify", !.stage = "looked", !.job = j,
                                       !.domain = d, !.read = status[d], !.shown = listed[d]]
  <2>2. adding.job = j /\ verifying.job = j
    BY DEF Idle
  <2> HIDE DEF adding, verifying
  <2>3. UNCHANGED hands \/ Hold(o, adding) \/ Hold(o, verifying)
    BY <2>1 DEF adding, verifying, LookToAdd, LookToVerify, Refuse, Reads
  <2>4. j = 0 \/ \A p \in Provisioners : hands[p].job # j
    BY <2>1 DEF LookToAdd, LookToVerify, Undertakes, Claimable, Unlocked
  <2> QED
    BY <1>1, <1>2, <2>2, <2>3, <2>4
<1>4. ASSUME NEW o \in Operators, TakeUpAlone(o)
      PROVE  OneProvisionerPerJob'
  <2>1. \A p \in Provisioners : p # o
    BY IdentityConstants
  <2>2. UNCHANGED hands \/ \E op : Hold(o, op)
    BY <1>4 DEF TakeUpAlone, LookToRotate, LookToProvision, LookToRequest, Reads
  <2> QED
    BY <1>1, <2>1, <2>2, HoldTells DEF OneProvisionerPerJob, Processes
<1>5. ASSUME NEW o \in Processes, GoOn(o) \/ AnySweep(o) \/ GoWrong(o) \/ GoOnAlone(o)
      PROVE  OneProvisionerPerJob'
  <2>1. hands[o] \in Operation
    BY DEF TypeOK
  <2>2. CASE Hold(o, Idle)
    <3>1. Idle.job = 0
      BY DEF Idle
    <3> QED
      BY <1>2, <2>2, <3>1
  <2>3. CASE Hold(o, [hands[o] EXCEPT !.stage = "called"])
    <3>1. [hands[o] EXCEPT !.stage = "called"].job = hands[o].job
      BY <2>1 DEF Operation
    <3> QED
      BY <1>2, <2>3, <3>1
  <2>4. ASSUME NEW sweep, Hold(o, [hands[o] EXCEPT !.stage = "called", !.evidence = sweep,
                                     !.inhabited = Inhabited(hands[o].domain)])
        PROVE  OneProvisionerPerJob'
    <3>1. [hands[o] EXCEPT !.stage = "called", !.evidence = sweep,
                           !.inhabited = Inhabited(hands[o].domain)].job = hands[o].job
      BY <2>1 DEF Operation
    <3> QED
      BY <1>2, <2>4, <3>1
  <2> QED
    BY <1>5, <2>2, <2>3, <2>4
       DEF GoOn, GoOnAlone, GoWrong, Register, RegisterFails, Track, AnySweep, Finds, SweepFails,
           WriteStatus, SetPassword, StoreMailbox, StoreCollides, StoreRotated, InsertJob,
           Break, JobRaises, Misread, Reads, End
<1>6. ASSUME NEW w \in Workers, RestartWorker(w) \/ \E a \in Addresses : Connect(w, a)
      PROVE  OneProvisionerPerJob'
  BY <1>1, <1>6 DEF RestartWorker, Connect
<1> QED
  BY <1>1, <1>3, <1>4, <1>5, <1>6 DEF AnyStep, vars, Processes

\* What a step may do to the row of a job.
RowStands(before, after) ==
    before.status # "none" =>
        \/ after = before
        \/ /\ before.status = "pending"
           /\ \E outcome \in {"succeeded", "failed"} : after = [before EXCEPT !.status = outcome]

OutcomesKept == \A j \in JobIds : RowStands(jobs[j], jobs'[j])

LEMMA FinishEnds ==
    ASSUME TypeOK, NEW j \in JobIds \union {0}, NEW outcome \in {"succeeded", "failed"},
           j # 0 => jobs[j].status = "pending", Finish(j, outcome)
    PROVE  OutcomesKept /\ \A i \in JobIds \ {j} : jobs'[i] = jobs[i]
BY DEF TypeOK, Finish, OutcomesKept, RowStands

LEMMA ClaimsStep ==
    ASSUME TypeOK, OneProvisionerPerJob, ClaimsStand, [AnyStep]_vars
    PROVE  ClaimsStand' /\ OutcomesKept
<1> USE DEF tables, provider, history
<1>0. UNCHANGED jobs => OutcomesKept
  BY DEF OutcomesKept, RowStands
<1>1. CASE UNCHANGED <<hands, jobs>>
  BY <1>0, <1>1 DEF ClaimsStand
<1>2. ASSUME NEW o \in Processes, NEW op, Hold(o, op), UNCHANGED jobs,
             \/ op.job \in {0, hands[o].job}
             \/ o \in Provisioners /\ jobs[op.job].status = "pending"
      PROVE  ClaimsStand' /\ OutcomesKept
  <2>1. hands'[o] = op /\ \A p \in Processes \ {o} : hands'[p] = hands[p]
    BY <1>2, HoldTells
  <2> QED
    BY <1>0, <1>2, <2>1 DEF ClaimsStand
\* The job that ends is nobody else's.
<1>3. ASSUME NEW o \in Processes, NEW outcome \in {"succeeded", "failed"}, End(o, outcome)
      PROVE  ClaimsStand' /\ OutcomesKept
  <2>1. /\ hands'[o] = Idle /\ Idle.job = 0
        /\ \A p \in Processes \ {o} : hands'[p] = hands[p]
    BY <1>3, HoldTells DEF End, Idle
  <2>2. /\ hands[o].job \in JobIds \union {0}
        /\ \A p \in Processes : hands[p].job \in JobIds \union {0}
    BY DEF TypeOK, Operation
  <2>3. OutcomesKept /\ \A i \in JobIds \ {hands[o].job} : jobs'[i] = jobs[i]
    BY <1>3, <2>2, FinishEnds DEF End, ClaimsStand
  <2>4. \A p \in Processes \ {o} : hands[p].job # 0 => hands[p].job # hands[o].job
    BY DEF OneProvisionerPerJob, ClaimsStand
  <2> QED
    BY <2>1, <2>2, <2>3, <2>4 DEF ClaimsStand
<1>4. ASSUME NEW o \in Processes, NEW j \in JobIds \union {0}, j = 0 \/ Claimable(j),
             NEW outcome \in {"succeeded", "failed"}, Refuse(o, j, outcome)
      PROVE  ClaimsStand' /\ OutcomesKept
  <2>1. /\ OutcomesKept /\ \A i \in JobIds \ {j} : jobs'[i] = jobs[i]
    BY <1>4, FinishEnds DEF Refuse, Claimable, Unlocked
  <2>2. \A p \in Processes : hands[p].job \in JobIds \union {0}
    BY DEF TypeOK, Operation
  <2>3. UNCHANGED hands /\ \A p \in Provisioners : hands[p].job # 0 => hands[p].job # j
    BY <1>4 DEF Refuse, Claimable, Unlocked
  <2> QED
    BY <2>1, <2>2, <2>3 DEF ClaimsStand
<1>5. ASSUME NEW o \in Processes, InsertJob(o)
      PROVE  ClaimsStand' /\ OutcomesKept
  <2>1. PICK j \in JobIds : /\ \A i \in JobIds : jobs[i].status = "none" <=> i >= j
                            /\ jobs' = [jobs EXCEPT ![j] = [status |-> "pending",
                                                            kind |-> hands[o].wants,
                                                            domain |-> hands[o].domain]]
    BY <1>5 DEF InsertJob
  <2>2. jobs[j].status = "none" /\ \A i \in JobIds \ {j} : jobs'[i] = jobs[i]
    BY <2>1 DEF TypeOK, JobIds
  <2>3. /\ hands'[o] = Idle /\ Idle.job = 0
        /\ \A p \in Processes \ {o} : hands'[p] = hands[p]
    BY <1>5, HoldTells DEF InsertJob, Idle
  <2>4. \A p \in Processes : hands[p].job \in JobIds \union {0}
    BY DEF TypeOK, Operation
  <2>5. OutcomesKept
    BY <2>2 DEF OutcomesKept, RowStands
  <2> QED
    BY <2>2, <2>3, <2>4, <2>5 DEF ClaimsStand
<1>6. ASSUME NEW o \in Processes, TakeUp(o)
      PROVE  ClaimsStand' /\ OutcomesKept
  <2>1. PICK d \in Domains, j \in JobIds \union {0} : LookToAdd(o, d, j) \/ LookToVerify(o, d, j)
    BY <1>6 DEF TakeUp
  <2> DEFINE adding == [Idle EXCEPT !.kind = "add", !.stage = "looked", !.job = j, !.domain = d]
             verifying == [Idle EXCEPT !.kind = "verify", !.stage = "looked", !.job = j,
                                       !.domain = d, !.read = status[d], !.shown = listed[d]]
  <2>2. adding.job = j /\ verifying.job = j
    BY DEF Idle
  <2> HIDE DEF adding, verifying
  <2>3. \/ Refuse(o, j, "succeeded") \/ Refuse(o, j, "failed")
        \/ Reads(o, adding) \/ Reads(o, verifying)
    BY <2>1 DEF adding, verifying, LookToAdd, LookToVerify
  <2>4. j = 0 \/ (o \in Provisioners /\ Claimable(j) /\ jobs[j].status = "pending")
    BY <2>1 DEF LookToAdd, LookToVerify, Undertakes, Claimable, Unlocked
  <2>5. CASE Refuse(o, j, "succeeded") \/ Refuse(o, j, "failed")
    BY <1>4, <2>4, <2>5
  <2>6. CASE Reads(o, adding) \/ Reads(o, verifying)
    BY <1>2, <2>2, <2>4, <2>6 DEF Reads
  <2> QED
    BY <2>3, <2>5, <2>6
<1>7. ASSUME NEW o \in Operators, TakeUpAlone(o)
      PROVE  ClaimsStand' /\ OutcomesKept
  <2>0. o \in Processes
    BY DEF Processes
  <2>1. ASSUME NEW b \in Addresses, LookToRotate(o, b)
        PROVE  ClaimsStand' /\ OutcomesKept
    <3>1. PICK password \in FreshPasswords :
             Reads(o, [Idle EXCEPT !.kind = "rotate", !.stage = "looked",
                                   !.address = b, !.password = password])
      BY <2>1 DEF LookToRotate
    <3>2. [Idle EXCEPT !.kind = "rotate", !.stage = "looked", !.address = b,
                       !.password = password].job = 0
      BY DEF Idle
    <3> QED
      BY <1>2, <2>0, <3>1, <3>2 DEF Reads
  <2>2. ASSUME NEW b \in Addresses, NEW additional \in BOOLEAN, LookToProvision(o, b, additional)
        PROVE  ClaimsStand' /\ OutcomesKept
    <3>1. PICK password \in FreshPasswords :
             Reads(o, [Idle EXCEPT !.kind = "provision", !.stage = "looked",
                                   !.domain = DomainOf[b], !.address = b,
                                   !.read = status[DomainOf[b]], !.password = password])
      BY <2>2 DEF LookToProvision
    <3>2. [Idle EXCEPT !.kind = "provision", !.stage = "looked", !.domain = DomainOf[b],
                       !.address = b, !.read = status[DomainOf[b]],
                       !.password = password].job = 0
      BY DEF Idle
    <3> QED
      BY <1>2, <2>0, <3>1, <3>2 DEF Reads
  <2>3. ASSUME NEW kind \in {"add", "verify"}, NEW d \in Domains, LookToRequest(o, kind, d)
        PROVE  ClaimsStand' /\ OutcomesKept
    <3>1. [Idle EXCEPT !.kind = "request", !.stage = "looked", !.domain = d,
                       !.wants = kind].job = 0
      BY DEF Idle
    <3> QED
      BY <1>2, <2>0, <2>3, <3>1 DEF LookToRequest, Reads
  <2> QED
    BY <1>7, <2>1, <2>2, <2>3 DEF TakeUpAlone
<1>8. ASSUME NEW o \in Processes, GoOn(o) \/ AnySweep(o) \/ GoWrong(o) \/ GoOnAlone(o)
      PROVE  ClaimsStand' /\ OutcomesKept
  <2>1. hands[o] \in Operation /\ Idle.job = 0
    BY DEF TypeOK, Idle
  <2>2. CASE Hold(o, Idle) /\ UNCHANGED jobs
    BY <1>2, <2>1, <2>2
  <2>3. CASE Hold(o, [hands[o] EXCEPT !.stage = "called"]) /\ UNCHANGED jobs
    <3>1. [hands[o] EXCEPT !.stage = "called"].job = hands[o].job
      BY <2>1 DEF Operation
    <3> QED
      BY <1>2, <2>3, <3>1
  <2>4. ASSUME NEW sweep, UNCHANGED jobs,
               Hold(o, [hands[o] EXCEPT !.stage = "called", !.evidence = sweep,
                                        !.inhabited = Inhabited(hands[o].domain)])
        PROVE  ClaimsStand' /\ OutcomesKept
    <3>1. [hands[o] EXCEPT !.stage = "called", !.evidence = sweep,
                           !.inhabited = Inhabited(hands[o].domain)].job = hands[o].job
      BY <2>1 DEF Operation
    <3> QED
      BY <1>2, <2>4, <3>1
  <2>5. CASE End(o, "succeeded") \/ End(o, "failed")
    BY <1>3, <2>5
  <2>6. CASE Register(o) \/ SetPassword(o) \/ Misread(o) \/ AnySweep(o)
    BY <2>3, <2>4, <2>6 DEF Register, SetPassword, Misread, AnySweep, Finds, Reads
  <2>7. CASE Track(o) \/ Break(o)
    BY <2>2, <2>5, <2>7 DEF Track, Break
  <2>8. CASE SweepFails(o) \/ WriteStatus(o) \/ RegisterFails(o) \/ JobRaises(o)
             \/ StoreMailbox(o) \/ StoreCollides(o) \/ StoreRotated(o)
    BY <2>5, <2>8 DEF SweepFails, WriteStatus, RegisterFails, JobRaises, StoreMailbox,
                      StoreCollides, StoreRotated
  <2> QED
    BY <1>5, <1>8, <2>6, <2>7, <2>8 DEF GoOn, GoOnAlone, GoWrong
<1>9. ASSUME NEW w \in Workers, RestartWorker(w) \/ \E a \in Addresses : Connect(w, a)
      PROVE  ClaimsStand' /\ OutcomesKept
  BY <1>1, <1>9 DEF RestartWorker, Connect
<1> QED
  BY <1>1, <1>6, <1>7, <1>8, <1>9 DEF AnyStep, vars, Processes

-----------------------------------------------------------------------------
(* The theorems *)

LEMMA InitHolds ==
    ASSUME Init
    PROVE  IdentitiesInv
<1>1. TypeOK
  BY IdleTyped DEF Init, TypeOK, Job, NoJob, Statuses, Processes
<1>2. OperationsSound
  BY IdleSound DEF Init, OperationsSound
<1>3. ReadyIsFounded /\ OneProvisionerPerJob /\ ClaimsStand
  BY DEF Init, ReadyIsFounded, OneProvisionerPerJob, ClaimsStand, Idle, Processes
<1>4. CredentialsHeld
  BY DEF Init, CredentialsHeld, Held, Unstored, Provisioned, Idle
<1> QED
  BY <1>1, <1>2, <1>3, <1>4 DEF IdentitiesInv

LEMMA InvStep ==
    ASSUME IdentitiesInv, [AnyStep]_vars
    PROVE  IdentitiesInv'
BY TypeStep, SoundStep, FoundedStep, JobsStep, ClaimsStep, CredentialsStep DEF IdentitiesInv

\* The inductive invariant holds in every state that can be reached.
THEOREM IdentitiesInvariant == Spec => []IdentitiesInv
BY InitHolds, InvStep, NextIsAnyStep, PTL DEF Spec

\* TypeOK holds for every number of domains, addresses, processes and jobs.
THEOREM TypeCorrect == Spec => []TypeOK
<1>1. IdentitiesInv => TypeOK
  BY DEF IdentitiesInv
<1> QED
  BY <1>1, IdentitiesInvariant, PTL

\* READY and VERIFIED rest on a sweep that found the domain sendable, on its
\* registration and, for READY, on a mailbox, whatever sweeps, provisioning and
\* jobs run at once and fail (refresh_domain, provision_mailbox).
THEOREM ReadyFounded == Spec => []ReadyIsFounded
<1>1. IdentitiesInv => ReadyIsFounded
  BY DEF IdentitiesInv
<1> QED
  BY <1>1, IdentitiesInvariant, PTL

\* The stored credential and the account's agree on every address that no two
\* operations handled at once and none was cut short or misread on
\* (provision_mailbox, rotate_mailbox_password).
THEOREM CredentialsInAgreement == Spec => []CredentialsAgree
<1>1. IdentitiesInv => CredentialsAgree
  BY DEF IdentitiesInv, CredentialsHeld, Held, CredentialsAgree
<1> QED
  BY <1>1, IdentitiesInvariant, PTL

\* However many provisioners poll, a job is in the hands of one (claim_one).
THEOREM JobsClaimedOnce == Spec => []OneProvisionerPerJob
<1>1. IdentitiesInv => OneProvisionerPerJob
  BY DEF IdentitiesInv
<1> QED
  BY <1>1, IdentitiesInvariant, PTL

LEMMA DemotionStep ==
    ASSUME IdentitiesInv, [AnyStep]_vars,
           NEW d \in Domains, status[d] = "ready", status'[d] # "ready"
    PROVE  \E o \in Processes :
              /\ hands[o].domain = d /\ At(o, "verify", "called")
              /\ \/ Disproved(hands[o].evidence) # {}
                 \/ hands[o].evidence.demands # Demandable
                 \/ hands[o].read # "ready"
<1> USE DEF IdentitiesInv
<1>1. PICK o \in Processes : Track(o) \/ WriteStatus(o) \/ StoreMailbox(o)
  BY Writers DEF StoreRotated
<1>2. ~Track(o)
  BY DEF Track, Tracked, TypeOK
<1>3. ~StoreMailbox(o)
  BY DEF StoreMailbox, TypeOK
<1>4. WriteStatus(o) /\ At(o, "verify", "called")
  BY <1>1, <1>2, <1>3 DEF WriteStatus
<1>5. hands[o].domain = d
  BY <1>4, Swept
<1>6. ASSUME hands[o].read = "ready", hands[o].evidence.demands = Demandable
      PROVE  Disproved(hands[o].evidence) # {}
  <2>1. hands[o].inhabited = TRUE /\ hands[o].evidence \in Sweeps
    BY <1>4, <1>6 DEF At, OperationsSound, Sound, TypeOK, Operation
  <2>2. NextStatus("ready", hands[o].evidence, TRUE) # "ready"
    BY <1>4, <1>6, <2>1 DEF WriteStatus
  <2> QED
    BY <1>6, <2>1, <2>2, DemotionDisproves
<1> QED
  BY <1>4, <1>5, <1>6

\* What takes a domain out of READY is a sweep that looked a record up and did not
\* find it in order, or one that read the status earlier or was not told all
\* MXRoute demands (_next_status, refresh_domain).
THEOREM DemotionOnEvidence == Spec => DemotedOnEvidence
<1> DEFINE Why == \A d \in Domains :
         status[d] = "ready" /\ status'[d] # "ready" =>
            \E o \in Processes :
               /\ hands[o].domain = d /\ At(o, "verify", "called")
               /\ \/ Disproved(hands[o].evidence) # {}
                  \/ hands[o].evidence.demands # Demandable
                  \/ hands[o].read # "ready"
<1>1. IdentitiesInv /\ [AnyStep]_vars => Why
  BY DemotionStep
<1> HIDE DEF Why
<1>2. Spec => [][Why]_vars
  BY <1>1, NextIsAnyStep, IdentitiesInvariant, PTL DEF Spec
<1> QED
  BY <1>2, PTL DEF DemotedOnEvidence, Why

\* What was recorded on a job stands: a provisioner that dies leaves it pending, and
\* nobody finishes a job another one has (claim_one, run_one).
THEOREM OutcomesRecordedOnce == Spec => OutcomesStand
<1>1. IdentitiesInv /\ [AnyStep]_vars => OutcomesKept
  BY ClaimsStep DEF IdentitiesInv
<1>2. Spec => [][OutcomesKept]_vars
  BY <1>1, NextIsAnyStep, IdentitiesInvariant, PTL DEF Spec
<1> QED
  BY <1>2, PTL DEF OutcomesStand, OutcomesKept, RowStands

-----------------------------------------------------------------------------
(* The refinement *)

\* The catalogue this state stands for.
Standings == [d \in Domains |-> Standing(status[d])]
Senders == {a \in Addresses : Provisioned(a)}

LEMMA StandingOf ==
    /\ \A s \in Statuses : s # "untracked" => Standing(s) \in {"unready", "verified", "ready"}
    /\ \A s : Standing(s) = "untracked" <=> s = "untracked"
    /\ \A s : Standing(s) = "ready" <=> s = "ready"
    /\ Standing("added") = "unready" /\ Standing("verified") = "verified"
BY DEF Standing, Statuses

LEMMA InitImplements ==
    ASSUME Init
    PROVE  Catalogue!CatalogueInit
BY DEF Init, Catalogue!CatalogueInit, Standing, Provisioned

LEMMA StepImplements ==
    ASSUME IdentitiesInv, [AnyStep]_vars
    PROVE  [Catalogue!CatalogueNext]_(Catalogue!catalogue)
<1> USE DEF IdentitiesInv
<1>1. CASE UNCHANGED <<status, mailboxes>>
  <2>1. UNCHANGED <<Standings, Senders>>
    BY <1>1 DEF Standings, Senders, Provisioned
  <2> QED
    BY <2>1 DEF Standings, Senders, Catalogue!catalogue
<1>2. ASSUME NEW o \in Processes, Track(o), NEW d, d = hands[o].domain, ~Tracked(d)
      PROVE  Catalogue!TrackDomain(d) /\ d \in Domains
  <2>1. d \in Domains /\ status[d] = "untracked"
    BY <1>2 DEF Track, At, OperationsSound, Sound, Tracked
  <2>2. status' = [status EXCEPT ![d] = "added"] /\ UNCHANGED mailboxes
    BY <1>2 DEF Track
  <2>3. Standings[d] = "untracked" /\ Standings' = [Standings EXCEPT ![d] = "unready"]
    BY <2>1, <2>2, StandingOf DEF Standings, TypeOK
  <2>4. UNCHANGED Senders
    BY <2>2 DEF Senders, Provisioned
  <2> QED
    BY <2>1, <2>3, <2>4 DEF Standings, Senders, Catalogue!TrackDomain
<1>3. ASSUME NEW o \in Processes, WriteStatus(o)
      PROVE  \E d \in Domains : Catalogue!Resweep(d)
  <2> DEFINE d == hands[o].domain
  <2>1. /\ d \in Domains /\ status[d] # "untracked"
        /\ status'[d] \in Statuses \ {"untracked"}
        /\ status'[d] = "ready" => Inhabited(d)
        /\ \A e \in Domains \ {d} : status'[e] = status[e]
    BY <1>3, Swept DEF ReadyIsFounded
  <2>2. UNCHANGED mailboxes
    BY <1>3 DEF WriteStatus
  <2>3. UNCHANGED Senders
    BY <2>2 DEF Senders, Provisioned
  <2> HIDE DEF d
  <2>4. Standings[d] # "untracked" /\ Standings' = [Standings EXCEPT ![d] = Standing(status'[d])]
    BY <2>1, StandingOf DEF Standings
  <2>5. /\ Standing(status'[d]) \in {"unready", "verified", "ready"}
        /\ Standing(status'[d]) = "ready" => \E a \in Senders : DomainOf[a] = d
    BY <2>1, StandingOf DEF Inhabited, Senders
  <2> QED
    BY <2>1, <2>3, <2>4, <2>5 DEF Standings, Senders, Catalogue!Resweep, Catalogue!SenderOn
<1>4. ASSUME NEW o \in Processes, StoreMailbox(o)
      PROVE  \E a \in Addresses : Catalogue!AddSender(a)
  <2> DEFINE a == hands[o].address
             d == hands[o].domain
  <2>1. /\ a \in Addresses /\ d = DomainOf[a] /\ d \in Domains
        /\ hands[o].password # None /\ status[d] # "untracked"
    BY <1>4, IdentityConstants DEF StoreMailbox, At, OperationsSound, Sound
  <2>2. /\ mailboxes' = [mailboxes EXCEPT ![a] = hands[o].password]
        /\ status' = status \/ status' = [status EXCEPT ![d] = "ready"]
    BY <1>4 DEF StoreMailbox
  <2> HIDE DEF a, d
  <2>3. Senders' = Senders \union {a}
    BY <2>1, <2>2 DEF Senders, Provisioned, TypeOK
  <2>4. Standings[d] # "untracked"
    BY <2>1, StandingOf DEF Standings
  <2>5. Standings' = Standings \/ Standings' = [Standings EXCEPT ![d] = "ready"]
    BY <2>1, <2>2, StandingOf DEF Standings, TypeOK
  <2> QED
    BY <2>1, <2>3, <2>4, <2>5 DEF Standings, Senders, Catalogue!AddSender
<1>5. ASSUME NEW o \in Processes, StoreRotated(o)
      PROVE  UNCHANGED <<Standings, Senders>>
  <2>1. /\ hands[o].password # None /\ hands[o].address \in Addresses
        /\ mailboxes[hands[o].address] # None
    BY <1>5, IdentityConstants DEF StoreRotated, At, OperationsSound, Sound
  <2> QED
    BY <1>5, <2>1 DEF StoreRotated, Standings, Senders, Provisioned, TypeOK
<1>6. ASSUME NEW o \in Processes,
             Track(o) \/ WriteStatus(o) \/ StoreMailbox(o) \/ StoreRotated(o)
      PROVE  [Catalogue!CatalogueNext]_(Catalogue!catalogue)
  <2>1. CASE Track(o) /\ ~Tracked(hands[o].domain)
    BY <1>2, <2>1 DEF Catalogue!CatalogueNext
  <2>2. CASE Track(o) /\ Tracked(hands[o].domain)
    BY <1>1, <2>2 DEF Track
  <2>3. CASE WriteStatus(o)
    BY <1>3, <2>3 DEF Catalogue!CatalogueNext
  <2>4. CASE StoreMailbox(o)
    BY <1>4, <2>4 DEF Catalogue!CatalogueNext
  <2>5. CASE StoreRotated(o)
    BY <1>5, <2>5 DEF Catalogue!catalogue, Standings, Senders
  <2> QED
    BY <1>6, <2>1, <2>2, <2>3, <2>4, <2>5
<1> QED
  BY <1>1, <1>6, Writers

\* Domains and mailboxes as domains.py and provisioning.py write them, with every
\* race and failure between, keep what SenderCatalogue promises ingest and the
\* dashboard.
THEOREM CatalogueImplemented == Spec => ImplementsCatalogue
<1>1. Init => Catalogue!CatalogueInit
  BY InitImplements
<1>2. IdentitiesInv /\ [AnyStep]_vars => [Catalogue!CatalogueNext]_(Catalogue!catalogue)
  BY StepImplements
<1> QED
  BY <1>1, <1>2, NextIsAnyStep, IdentitiesInvariant, PTL
     DEF Spec, ImplementsCatalogue, Catalogue!CatalogueSpec
=============================================================================
