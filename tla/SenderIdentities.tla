--------------------------- MODULE SenderIdentities ---------------------------
(***************************************************************************)
(* Domains, the mailboxes that are sender identities on them, and the      *)
(* accounts MXRoute keeps: emaild/domains.py and provisioning.py, called   *)
(* from the admin CLI and, for domains, from the provisioner, which works  *)
(* through the jobs the dashboard enqueues (jobs.py, provisioner.py).      *)
(*                                                                         *)
(* An operation is one READ COMMITTED transaction with calls to MXRoute in *)
(* the middle.  It takes three steps: the SELECTs, the call to MXRoute,    *)
(* whose effect stays whatever becomes of the transaction, and the writes  *)
(* with the COMMIT.  As in the queue the ORM writes the columns whose      *)
(* value differs from the one it read.  A job is claimed, executed and     *)
(* finished in one transaction: its row is locked meanwhile, and nobody    *)
(* ever sees it RUNNING.  What a sweep finds, and the status that follows  *)
(* from it, are in DnsChecks.                                              *)
(***************************************************************************)
EXTENDS Naturals, FiniteSets, DnsChecks

CONSTANTS
    Domains, Addresses,
    DomainOf,          \* the domain of each address
    Operators,         \* CLI commands and dashboard requests in progress
    Provisioners,      \* provisioner processes
    Workers,           \* delivery workers
    Passwords,         \* bound: passwords there are to generate
    Evidence,          \* the sweeps an instance considers
    AddAnswers,        \* what MXRoute may demand when a domain is added
    MaxJobs,           \* bound: jobs enqueued
    MaxFaults,         \* bound: crashes, exceptions and failed calls
    Commands,          \* what operators do in an instance
    None               \* no password, no domain, no address

ASSUME IdentityConstants ==
    /\ Evidence \subseteq Sweeps /\ AddAnswers \subseteq Demanded
    /\ DomainOf \in [Addresses -> Domains]
    /\ Operators \intersect Provisioners = {}
    /\ MaxJobs \in Nat /\ MaxFaults \in Nat
    /\ Commands \subseteq {"add", "verify", "provision", "rotate", "request"}
    /\ None \notin Passwords \union Domains \union Addresses

VARIABLES
    status,            \* domains.status; "untracked" before there is a row
    listed,            \* domains.required_records: what the operator is told to publish
    registered,        \* domains the MXRoute account has
    mailboxes,         \* the password each mailboxes row holds
    accounts,          \* the password each MXRoute account takes
    jobs,              \* provisioning_jobs, by id in order of creation
    hands,             \* the operation each process has in progress
    adapters,          \* the password in each worker's SMTP adapters
    proven,            \* history: domains a sweep found sendable
    doubtful,          \* history: addresses last handled by operations that
                       \* overlapped, were cut short or were misread
    faults             \* counts against MaxFaults

tables == <<status, listed, mailboxes, jobs>>
provider == <<registered, accounts>>
history == <<proven, doubtful>>
vars == <<tables, provider, hands, adapters, history, faults>>

-----------------------------------------------------------------------------
(* Rows and operations *)

JobIds == 1 .. MaxJobs
Job == [status : {"none", "pending", "succeeded", "failed"},
        kind : {"add", "verify"}, domain : Domains \union {None}]
NoJob == [status |-> "none", kind |-> "add", domain |-> None]

Unseen == [zone |-> [r \in Records |-> {}], failing |-> Records, demands |-> {}]

\* An operation: what its SELECTs read (the status, the records listed, whether
\* the domain has a mailbox), what the calls brought (the evidence) or set (the
\* password).
Operation ==
    [kind : {"none", "add", "verify", "provision", "rotate", "request"},
     stage : {"free", "looked", "called"}, job : JobIds \union {0},
     domain : Domains \union {None}, address : Addresses \union {None},
     read : Statuses, shown : SUBSET Records, evidence : Sweeps, inhabited : BOOLEAN,
     password : Passwords \union {None}, wants : {"add", "verify"}]

Idle == [kind |-> "none", stage |-> "free", job |-> 0, domain |-> None, address |-> None,
         read |-> "untracked", shown |-> {}, evidence |-> Unseen, inhabited |-> FALSE,
         password |-> None, wants |-> "add"]

Processes == Operators \union Provisioners

Tracked(d) == status[d] # "untracked"
Provisioned(a) == mailboxes[a] # None
Inhabited(d) == \E a \in Addresses : DomainOf[a] = d /\ Provisioned(a)

\* generate_mailbox_password: one nobody has seen.
FreshPasswords ==
    Passwords \ ({mailboxes[a] : a \in Addresses} \union {accounts[a] : a \in Addresses}
                 \union {hands[o].password : o \in Processes}
                 \union {adapters[w][a] : w \in Workers, a \in Addresses})

\* Operations that have changed an account and not yet stored the password.
Unstored(a) == {o \in Processes : hands[o].address = a /\ hands[o].stage = "called"}

-----------------------------------------------------------------------------
(* What an operation decides and does *)

\* Mutant: everything short of ready is promoted.
PromotedAnyway(read) == read # "ready"

\* provision_mailbox promotes what it read as VERIFIED.
Promoted(read) == read = "verified"

\* Mutant: an account that exists is adopted with the password it has.
PasswordKept(a, password) == IF accounts[a] = None THEN password ELSE accounts[a]

\* create_email_account, or on a conflict update_email_account; rotation updates.
PasswordSet(a, password) == password

\* Mutant: jobs other provisioners are working on are not skipped.
ClaimableAnyway(j) == jobs[j].status = "pending"

\* Mutant: a job that failed is tried again.
UnlockedAgain(j) ==
    jobs[j].status \in {"pending", "failed"} /\ \A p \in Provisioners : hands[p].job # j

\* claim_one: FOR UPDATE SKIP LOCKED, ORDER BY created_at LIMIT 1.
Unlocked(j) == jobs[j].status = "pending" /\ \A p \in Provisioners : hands[p].job # j
Claimable(j) == Unlocked(j) /\ \A i \in JobIds : i < j => ~Unlocked(i)

-----------------------------------------------------------------------------
Init ==
    /\ status = [d \in Domains |-> "untracked"] /\ listed = [d \in Domains |-> {}]
    /\ registered = {}
    /\ mailboxes = [a \in Addresses |-> None] /\ accounts = [a \in Addresses |-> None]
    /\ jobs = [j \in JobIds |-> NoJob]
    /\ hands = [o \in Processes |-> Idle]
    /\ adapters = [w \in Workers |-> [a \in Addresses |-> None]]
    /\ proven = {} /\ doubtful = {} /\ faults = 0

-----------------------------------------------------------------------------
(* Taking an operation up, and ending it *)

Free(o) == hands[o].stage = "free"

At(o, kind, stage) == hands[o].kind = kind /\ hands[o].stage = stage

\* A command has no job; a provisioner takes the oldest one it can lock.
Undertakes(o, kind, d, j) ==
    /\ Free(o)
    /\ \/ o \in Operators /\ kind \in Commands /\ j = 0
       \/ /\ o \in Provisioners /\ j # 0 /\ Claimable(j)
          /\ jobs[j].kind = kind /\ jobs[j].domain = d

Hold(o, op) == hands' = [hands EXCEPT ![o] = op]

\* Mutant: only a failure is recorded.
FinishUnflushed(j, outcome) ==
    jobs' = IF j = 0 \/ outcome = "succeeded" THEN jobs
            ELSE [jobs EXCEPT ![j].status = outcome]

\* run_one records the outcome with the effects of the job.
Finish(j, outcome) ==
    jobs' = IF j = 0 THEN jobs ELSE [jobs EXCEPT ![j].status = outcome]

End(o, outcome) == Hold(o, Idle) /\ Finish(hands[o].job, outcome)

\* Refused after the SELECTs: a job records why, a command prints it.
Refuse(o, j, outcome) ==
    Finish(j, outcome) /\ UNCHANGED <<status, listed, mailboxes, provider, hands, adapters, history, faults>>

Reads(o, op) ==
    Hold(o, op) /\ UNCHANGED <<tables, provider, adapters, history, faults>>

Fault == faults < MaxFaults /\ faults' = faults + 1

-----------------------------------------------------------------------------
(* add_domain *)

LookToAdd(o, d, j) ==
    /\ Undertakes(o, "add", d, j)
    /\ \/ Tracked(d) /\ Refuse(o, j, "succeeded")
       \/ ~Tracked(d) /\ Reads(o, [Idle EXCEPT !.kind = "add", !.stage = "looked",
                                               !.job = j, !.domain = d])

\* list_domains and create_domain; a conflict is an adoption.
Register(o) ==
    /\ At(o, "add", "looked")
    /\ registered' = registered \union {hands[o].domain}
    /\ Hold(o, [hands[o] EXCEPT !.stage = "called"])
    /\ UNCHANGED <<tables, accounts, adapters, history, faults>>

\* MXRoute refuses, or answers in none of the attempts; it may have acted.
RegisterFails(o) ==
    /\ At(o, "add", "looked") /\ Fault
    /\ registered' \in {registered, registered \union {hands[o].domain}}
    /\ End(o, "failed")
    /\ UNCHANGED <<status, listed, mailboxes, accounts, adapters, history>>

\* get_dns brings the records to list, without a DKIM record as long as MXRoute
\* has no key for the domain, unless it fails, which is swallowed.
\* Another operation may have tracked the domain: the INSERT collides, and so
\* does the attempt to record the failure on the job, which goes back to the
\* queue.
Track(o) ==
    LET d == hands[o].domain IN
    /\ At(o, "add", "called")
    /\ \/ /\ ~Tracked(d)
          /\ status' = [status EXCEPT ![d] = "added"]
          /\ \/ /\ \E demands \in AddAnswers :
                       listed' = [listed EXCEPT ![d] = RequiredRecords(demands)]
                /\ UNCHANGED faults
             \/ Fault /\ UNCHANGED listed
          /\ End(o, "succeeded")
       \/ Tracked(d) /\ Hold(o, Idle) /\ UNCHANGED <<status, listed, jobs, faults>>
    /\ UNCHANGED <<mailboxes, provider, adapters, history>>

-----------------------------------------------------------------------------
(* refresh_domain *)

LookToVerify(o, d, j) ==
    /\ Undertakes(o, "verify", d, j)
    /\ \/ ~Tracked(d) /\ Refuse(o, j, "failed")
       \/ Tracked(d) /\ Reads(o, [Idle EXCEPT !.kind = "verify", !.stage = "looked",
                                              !.job = j, !.domain = d, !.read = status[d],
                                              !.shown = listed[d]])

\* get_dns and verify_domain; then the mailboxes are counted.
Finds(o, sweep) ==
    /\ At(o, "verify", "looked") /\ hands[o].domain \in registered
    /\ Reads(o, [hands[o] EXCEPT !.stage = "called", !.evidence = sweep,
                                 !.inhabited = Inhabited(hands[o].domain)])

Sweep(o) == \E sweep \in Evidence : Finds(o, sweep)

\* MXRoute is unreachable, or has no such domain: said so, and the job has done
\* what it could.
SweepFails(o) ==
    /\ At(o, "verify", "looked")
    /\ IF hands[o].domain \in registered THEN Fault ELSE UNCHANGED faults
    /\ End(o, "succeeded")
    /\ UNCHANGED <<status, listed, mailboxes, provider, adapters, history>>

WriteStatus(o) ==
    LET op == hands[o]
        next == NextStatus(op.read, op.evidence, op.inhabited)
        records == RequiredRecords(op.evidence.demands) IN
    /\ At(o, "verify", "called")
    /\ status' = IF next = op.read THEN status ELSE [status EXCEPT ![op.domain] = next]
    /\ listed' = IF records = op.shown THEN listed ELSE [listed EXCEPT ![op.domain] = records]
    /\ proven' = IF Sendable(op.evidence) THEN proven \union {op.domain} ELSE proven
    /\ End(o, "succeeded")
    /\ UNCHANGED <<mailboxes, provider, adapters, doubtful, faults>>

-----------------------------------------------------------------------------
(* provision_mailbox and rotate_mailbox_password *)

\* Mutant: that there is a row is taken for granted.
TooEarlyIfThere(s) == s \in {"added", "ownership_pending"}

\* Provisioning waits for the domain and its ownership record.
TooEarly(s) == s \in {"untracked", "added", "ownership_pending"}

\* A second identity on a domain must be asserted to be one.
LookToProvision(o, a, additional) ==
    LET d == DomainOf[a] IN
    /\ Free(o) /\ o \in Operators /\ "provision" \in Commands
    /\ ~TooEarly(status[d])
    /\ ~Provisioned(a)
    /\ Inhabited(d) => additional
    /\ \E password \in FreshPasswords :
          Reads(o, [Idle EXCEPT !.kind = "provision", !.stage = "looked", !.domain = d,
                                !.address = a, !.read = status[d], !.password = password])

LookToRotate(o, a) ==
    /\ Free(o) /\ o \in Operators /\ "rotate" \in Commands
    /\ Provisioned(a)
    /\ \E password \in FreshPasswords :
          Reads(o, [Idle EXCEPT !.kind = "rotate", !.stage = "looked",
                                !.address = a, !.password = password])

SetPassword(o) ==
    LET a == hands[o].address IN
    /\ At(o, "provision", "looked") \/ At(o, "rotate", "looked")
    /\ accounts' = [accounts EXCEPT ![a] = PasswordSet(a, hands[o].password)]
    /\ doubtful' = IF Unstored(a) # {} THEN doubtful \union {a} ELSE doubtful \ {a}
    /\ Hold(o, [hands[o] EXCEPT !.stage = "called"])
    /\ UNCHANGED <<tables, registered, adapters, proven, faults>>

\* The row; and the domain's status, if it was VERIFIED when read.  Another
\* operation may have stored the address: the INSERT collides.
StoreMailbox(o) ==
    LET op == hands[o] IN
    /\ At(o, "provision", "called") /\ ~Provisioned(op.address)
    /\ mailboxes' = [mailboxes EXCEPT ![op.address] = op.password]
    /\ status' = IF Promoted(op.read) THEN [status EXCEPT ![op.domain] = "ready"] ELSE status
    /\ End(o, "succeeded")
    /\ UNCHANGED <<listed, provider, adapters, history, faults>>

StoreCollides(o) ==
    /\ At(o, "provision", "called") /\ Provisioned(hands[o].address)
    /\ End(o, "failed")
    /\ doubtful' = doubtful \union {hands[o].address}
    /\ UNCHANGED <<status, listed, mailboxes, provider, adapters, proven, faults>>

StoreRotated(o) ==
    /\ At(o, "rotate", "called")
    /\ mailboxes' = [mailboxes EXCEPT ![hands[o].address] = hands[o].password]
    /\ End(o, "succeeded")
    /\ UNCHANGED <<status, listed, provider, adapters, history, faults>>

-----------------------------------------------------------------------------
(* enqueue *)

Outstanding(kind, d) ==
    {j \in JobIds : jobs[j].status = "pending" /\ jobs[j].kind = kind /\ jobs[j].domain = d}

\* Bound: requests are made while MaxJobs leaves them an id.
IdLeft == Cardinality({p \in Operators : hands[p].kind = "request"})
             < Cardinality({j \in JobIds : jobs[j].status = "none"})

\* An outstanding request for the same is handed back.
LookToRequest(o, kind, d) ==
    /\ Free(o) /\ o \in Operators /\ "request" \in Commands
    /\ Outstanding(kind, d) = {} /\ IdLeft
    /\ Reads(o, [Idle EXCEPT !.kind = "request", !.stage = "looked", !.domain = d,
                             !.wants = kind])

InsertJob(o) ==
    /\ At(o, "request", "looked")
    /\ \E j \in JobIds :
          /\ \A i \in JobIds : jobs[i].status = "none" <=> i >= j
          /\ jobs' = [jobs EXCEPT ![j] = [status |-> "pending", kind |-> hands[o].wants,
                                          domain |-> hands[o].domain]]
    /\ Hold(o, Idle)
    /\ UNCHANGED <<status, listed, mailboxes, provider, adapters, history, faults>>

-----------------------------------------------------------------------------
(* Workers, and what goes wrong *)

\* _adapter_for: the adapter made for the identity's first message is kept.
Connect(w, a) ==
    /\ Provisioned(a) /\ adapters[w][a] = None
    /\ adapters' = [adapters EXCEPT ![w][a] = mailboxes[a]]
    /\ UNCHANGED <<tables, provider, hands, history, faults>>

RestartWorker(w) ==
    /\ \E a \in Addresses : adapters[w][a] # None
    /\ adapters' = [adapters EXCEPT ![w] = [a \in Addresses |-> None]]
    /\ UNCHANGED <<tables, provider, hands, history, faults>>

\* The process dies, a call raises or a COMMIT fails: rolled back, and with it
\* the claim on a job.  A call to MXRoute may have taken effect all the same.
Break(o) ==
    LET a == hands[o].address
        set == At(o, "provision", "called") \/ At(o, "rotate", "called") IN
    /\ ~Free(o) /\ Fault
    /\ Hold(o, Idle)
    /\ doubtful' = IF set THEN doubtful \union {a} ELSE doubtful
    /\ UNCHANGED <<tables, provider, adapters, proven>>

\* An exception that is not the provider's: the job is marked, not left RUNNING.
JobRaises(o) ==
    /\ ~Free(o) /\ hands[o].job # 0 /\ Fault
    /\ End(o, "failed")
    /\ UNCHANGED <<status, listed, mailboxes, provider, adapters, history>>

\* MXRoute fails with an empty body (a 5xx, or a 404 to a GET): _handle looks
\* for content before it looks at the status, and what was not done counts as
\* done.  A sweep is then told that MXRoute demands nothing, and passes nothing.
Misread(o) ==
    LET op == hands[o] IN
    /\ op.stage = "looked" /\ op.kind # "request" /\ Fault
    /\ \/ op.kind = "verify"
          /\ Hold(o, [op EXCEPT !.stage = "called", !.evidence = Unseen,
                                !.inhabited = Inhabited(op.domain)])
          /\ UNCHANGED doubtful
       \/ /\ op.kind # "verify" /\ Hold(o, [op EXCEPT !.stage = "called"])
          /\ doubtful' = IF op.kind = "add" THEN doubtful ELSE doubtful \union {op.address}
    /\ UNCHANGED <<tables, provider, adapters, proven>>

-----------------------------------------------------------------------------
\* What operators and provisioners both do, and what operators do alone.
TakeUp(o) ==
    \E d \in Domains, j \in JobIds \union {0} : LookToAdd(o, d, j) \/ LookToVerify(o, d, j)

GoOn(o) == Register(o) \/ Track(o) \/ SweepFails(o) \/ WriteStatus(o)

TakeUpAlone(o) ==
    \/ \E a \in Addresses :
          LookToRotate(o, a) \/ \E additional \in BOOLEAN : LookToProvision(o, a, additional)
    \/ \E kind \in {"add", "verify"}, d \in Domains : LookToRequest(o, kind, d)

GoOnAlone(o) ==
    SetPassword(o) \/ StoreMailbox(o) \/ StoreCollides(o) \/ StoreRotated(o) \/ InsertJob(o)

GoWrong(o) == RegisterFails(o) \/ Misread(o) \/ Break(o) \/ JobRaises(o)

Next ==
    \/ \E o \in Processes : TakeUp(o) \/ GoOn(o) \/ Sweep(o) \/ GoWrong(o)
    \/ \E o \in Operators : TakeUpAlone(o) \/ GoOnAlone(o)
    \/ \E w \in Workers : RestartWorker(w) \/ \E a \in Addresses : Connect(w, a)

Spec == Init /\ [][Next]_vars

-----------------------------------------------------------------------------
(* Properties *)

\* Every variable keeps its type.
TypeOK ==
    /\ status \in [Domains -> Statuses] /\ listed \in [Domains -> SUBSET Records]
    /\ registered \in SUBSET Domains
    /\ mailboxes \in [Addresses -> Passwords \union {None}]
    /\ accounts \in [Addresses -> Passwords \union {None}]
    /\ jobs \in [JobIds -> Job]
    /\ hands \in [Processes -> Operation]
    /\ adapters \in [Workers -> [Addresses -> Passwords \union {None}]]
    /\ proven \in SUBSET Domains /\ doubtful \in SUBSET Addresses
    /\ faults \in Nat

\* READY lets mail in: such a domain was found sendable by some sweep, is on the
\* MXRoute account and has an identity to send as, in whatever order sweeps,
\* provisioning and the jobs ran and failed.
ReadyIsFounded ==
    \A d \in Domains :
        /\ status[d] \in {"verified", "ready"} => d \in proven \intersect registered
        /\ status[d] = "ready" => Inhabited(d)

\* "A domain is never demoted on the strength of a failed DNS lookup"
\* (domains.py): in the sweep behind it some record was looked up and was absent
\* or wrong, unless MXRoute did not say all it demands, or the sweep read the
\* domain before it was ready and writes over that.
DemotedOnEvidence ==
    [][\A d \in Domains :
         status[d] = "ready" /\ status'[d] # "ready" =>
            \E o \in Processes :
               /\ hands[o].domain = d /\ At(o, "verify", "called")
               /\ \/ Disproved(hands[o].evidence) # {}
                  \/ hands[o].evidence.demands # Demandable
                  \/ hands[o].read # "ready"]_vars

\* The credential stored for an identity is the one MXRoute takes, unless an
\* operation on it is under way, was cut short, overlapped with another or was
\* misread; the next undisturbed one puts it right.
CredentialsAgree ==
    \A a \in Addresses :
        Provisioned(a) /\ a \notin doubtful /\ Unstored(a) = {} => mailboxes[a] = accounts[a]

\* A domain as the rest of emaild sees it.
Standing(s) == IF s \in {"untracked", "verified", "ready"} THEN s ELSE "unready"

Catalogue == INSTANCE SenderCatalogue WITH
    standing <- [d \in Domains |-> Standing(status[d])],
    senders <- {a \in Addresses : Provisioned(a)}

\* Whatever races, fails or is misread here, the rest of emaild sees the
\* catalogue: nothing disappears, and no domain is ready that nobody can send as.
ImplementsCatalogue == Catalogue!CatalogueSpec

\* A job is not executed by two provisioners.
OneProvisionerPerJob ==
    \A p, q \in Provisioners : p # q /\ hands[p].job # 0 => hands[p].job # hands[q].job

\* A request stays what was asked for and ends once: no crash, restart or second
\* provisioner takes back the outcome recorded on it (run_one).
OutcomesStand ==
    [][\A j \in JobIds : jobs[j].status # "none" =>
          \/ jobs'[j] = jobs[j]
          \/ /\ jobs[j].status = "pending"
             /\ \E outcome \in {"succeeded", "failed"} :
                   jobs'[j] = [jobs[j] EXCEPT !.status = outcome]]_vars

-----------------------------------------------------------------------------
(* A claim of the repository that the code does not keep *)

\* classify.py: a 535 says the "stored SMTP credential is wrong".
RefusedMeansStoredWrong ==
    \A w \in Workers, a \in Addresses :
        adapters[w][a] \notin {None, accounts[a]} => mailboxes[a] # accounts[a]
=============================================================================
