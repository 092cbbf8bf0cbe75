-------------------------------- MODULE Startup --------------------------------
(***************************************************************************)
(* How processes obtain their secret and the installation's identity when  *)
(* they start (emaild/secretstore.py, bootstrap.py, and config.py, main.py *)
(* and worker.py, which call them).  A secret is a file on a volume that   *)
(* several containers mount and the first one creates; the identity is the *)
(* one row of a table.  Containers start, crash and restart at any moment; *)
(* an operator's commands run in containers of their own.                  *)
(***************************************************************************)
EXTENDS Naturals

CONSTANTS
    Services,          \* containers Docker restarts
    Tools,             \* containers of one command each
    Volumes,           \* secrets directories
    VolumeOf,          \* the directory a container mounts
    Identified,        \* those that ask for the identity
    Encrypters,        \* those that store mailbox passwords
    Values,            \* bound: secrets there are to generate
    Ids,               \* bound: identities there are to generate
    MaxFaults,         \* bound: crashes
    Empty,             \* what a file has before it is written
    None

Processes == Services \union Tools

ASSUME StartupConstants ==
    /\ VolumeOf \in [Processes -> Volumes]
    /\ Identified \subseteq Processes /\ Encrypters \subseteq Processes
    /\ MaxFaults \in Nat
    /\ None \notin Values /\ Empty \notin Values /\ None # Empty
    /\ None \notin Ids /\ None \notin Processes

VARIABLES
    files,             \* the secret's file on each volume
    row,               \* installation.installation_id, as committed
    pending,           \* the process whose INSERT of the row is uncommitted
    at,                \* how far each process has come
    secret,            \* the secret each has read or generated
    candidate,         \* the identity each has generated
    sealed,            \* what stored passwords are encrypted with, per volume
    known,             \* history: identities processes were told
    faults             \* counts against MaxFaults

vars == <<files, row, pending, at, secret, candidate, sealed, known, faults>>

Places == {"down", "reading", "creating", "writing", "rereading", "secured",
           "inserting", "settling", "up"}

File(p) == files[VolumeOf[p]]

\* Mutant: an empty file passes for a secret.
LegibleEmpty(p) == File(p) # None

\* _read_if_present returns what is there, nothing, or raises on an empty file.
Legible(p) == File(p) \notin {None, Empty}

\* Mutants: no O_EXCL; no O_CREAT.
CreatableAnyway(p) == TRUE
CreatableNever(p) == FALSE

\* O_CREAT | O_EXCL
Creatable(p) == File(p) = None

\* Mutant: the insert is trusted.
SettledOnOwn(p) == candidate[p]

\* Re-read after the INSERT: one's own row, or the one that was in its way.
SettledOn(p) == IF pending = p THEN candidate[p] ELSE row

FreshValues ==
    Values \ ({files[v] : v \in Volumes} \union {secret[p] : p \in Processes}
              \union UNION {sealed[v] : v \in Volumes})

FreshIds == Ids \ ({row} \union {candidate[p] : p \in Processes})

Init ==
    /\ files = [v \in Volumes |-> None] /\ row = None /\ pending = None
    /\ at = [p \in Processes |-> "down"]
    /\ secret = [p \in Processes |-> None] /\ candidate = [p \in Processes |-> None]
    /\ sealed = [v \in Volumes |-> {}] /\ known = {} /\ faults = 0

-----------------------------------------------------------------------------
(* The secret *)

Go(p, place) == at' = [at EXCEPT ![p] = place]

Start(p) ==
    /\ at[p] = "down" /\ Go(p, "reading")
    /\ UNCHANGED <<files, row, pending, secret, candidate, sealed, known, faults>>

\* The process ends, and with it what it knew; an uncommitted INSERT is undone.
Leave(p) ==
    /\ Go(p, "down")
    /\ secret' = [secret EXCEPT ![p] = None] /\ candidate' = [candidate EXCEPT ![p] = None]
    /\ pending' = IF pending = p THEN None ELSE pending
    /\ UNCHANGED <<files, row, sealed, known>>

\* SecretStoreError: "Deliberately fatal".
Refuse(p) == Leave(p) /\ UNCHANGED faults

TakeSecret(p) ==
    /\ Legible(p)
    /\ secret' = [secret EXCEPT ![p] = File(p)] /\ Go(p, "secured")
    /\ UNCHANGED <<files, row, pending, candidate, sealed, known, faults>>

ReadSecret(p) ==
    /\ at[p] = "reading"
    /\ \/ TakeSecret(p)
       \/ ~Legible(p) /\ File(p) = Empty /\ Refuse(p)
       \/ /\ File(p) = None /\ Go(p, "creating")
          /\ UNCHANGED <<files, row, pending, secret, candidate, sealed, known, faults>>

CreateSecret(p) ==
    /\ at[p] = "creating"
    /\ \/ /\ Creatable(p)
          /\ files' = [files EXCEPT ![VolumeOf[p]] = Empty]
          /\ \E value \in FreshValues : secret' = [secret EXCEPT ![p] = value]
          /\ Go(p, "writing")
          /\ UNCHANGED <<row, pending, candidate, sealed, known, faults>>
       \/ /\ ~Creatable(p) /\ Go(p, "rereading")
          /\ UNCHANGED <<files, row, pending, secret, candidate, sealed, known, faults>>

WriteSecret(p) ==
    /\ at[p] = "writing"
    /\ files' = [files EXCEPT ![VolumeOf[p]] = secret[p]] /\ Go(p, "secured")
    /\ UNCHANGED <<row, pending, secret, candidate, sealed, known, faults>>

\* The race was lost; but the winner may not have written yet.
RereadSecret(p) ==
    /\ at[p] = "rereading"
    /\ \/ TakeSecret(p)
       \/ ~Legible(p) /\ Refuse(p)

-----------------------------------------------------------------------------
(* The identity *)

\* ensure_installation returns; or was not called.
Settle(p, id) ==
    /\ known' = known \union id /\ Go(p, "up")
    /\ pending' = IF pending = p THEN None ELSE pending
    /\ UNCHANGED <<files, secret, candidate, sealed, faults>>

LookForInstallation(p) ==
    /\ at[p] = "secured"
    /\ \/ p \notin Identified /\ Settle(p, {}) /\ UNCHANGED row
       \/ p \in Identified /\ row # None /\ Settle(p, {row}) /\ UNCHANGED row
       \/ /\ p \in Identified /\ row = None /\ Go(p, "inserting")
          /\ UNCHANGED <<files, row, pending, secret, candidate, sealed, known, faults>>

\* INSERT ... ON CONFLICT DO NOTHING waits for an uncommitted row.
InsertInstallation(p) ==
    /\ at[p] = "inserting" /\ pending = None
    /\ \E id \in FreshIds : candidate' = [candidate EXCEPT ![p] = id]
    /\ pending' = IF row = None THEN p ELSE None
    /\ Go(p, "settling")
    /\ UNCHANGED <<files, row, secret, sealed, known, faults>>

\* The id is read back and returned, and the caller commits.  Between the two there
\* is nothing but a log line: a process that dies there is one that died before.
SettleInstallation(p) ==
    /\ at[p] = "settling"
    /\ Settle(p, {SettledOn(p)})
    /\ row' = IF pending = p THEN candidate[p] ELSE row

-----------------------------------------------------------------------------
(* Afterwards *)

\* An admin command provisions or rotates a mailbox.
Encrypt(p) ==
    /\ at[p] = "up" /\ p \in Encrypters
    /\ sealed' = [sealed EXCEPT ![VolumeOf[p]] = @ \union {secret[p]}]
    /\ UNCHANGED <<files, row, pending, at, secret, candidate, known, faults>>

\* A command is done.
Exit(p) == p \in Tools /\ at[p] = "up" /\ Leave(p) /\ UNCHANGED faults

Crash(p) ==
    /\ at[p] # "down" /\ faults < MaxFaults
    /\ Leave(p) /\ faults' = faults + 1

\* The refusal's advice: "remove the file deliberately to start over".  Nobody
\* acts on it within the instant it takes to write a file.
RemoveEmpty(v) ==
    /\ files[v] = Empty /\ \A p \in Processes : VolumeOf[p] = v => at[p] # "writing"
    /\ files' = [files EXCEPT ![v] = None]
    /\ UNCHANGED <<row, pending, at, secret, candidate, sealed, known, faults>>

-----------------------------------------------------------------------------
Proceed(p) ==
    \/ ReadSecret(p) \/ CreateSecret(p) \/ WriteSecret(p) \/ RereadSecret(p)
    \/ LookForInstallation(p) \/ InsertInstallation(p) \/ SettleInstallation(p)

Next ==
    \/ \E p \in Processes : Start(p) \/ Proceed(p) \/ Encrypt(p) \/ Exit(p) \/ Crash(p)
    \/ \E v \in Volumes : RemoveEmpty(v)

Spec == Init /\ [][Next]_vars

\* A process that runs goes on, and Docker restarts services.
FairSpec ==
    /\ Spec
    /\ \A p \in Processes : WF_vars(Proceed(p))
    /\ \A p \in Services : WF_vars(Start(p))

-----------------------------------------------------------------------------
(* Properties *)

\* Every variable keeps its type.
TypeOK ==
    /\ files \in [Volumes -> Values \union {None, Empty}]
    /\ row \in Ids \union {None} /\ pending \in Processes \union {None}
    /\ at \in [Processes -> Places]
    /\ secret \in [Processes -> Values \union {None}]
    /\ candidate \in [Processes -> Ids \union {None}]
    /\ sealed \in [Volumes -> SUBSET Values]
    /\ known \in SUBSET Ids /\ faults \in Nat

\* "Two different keys here would produce credentials that store cleanly and then
\* fail to send" (deploy/compose.yaml): whoever raced to create the file, crashed
\* over it or removed what it left, every running process that mounts a volume
\* has the one key all passwords stored under it are encrypted with.
CredentialsReadable ==
    \A p \in Processes : at[p] = "up" => sealed[VolumeOf[p]] \subseteq {secret[p]}

\* "Several processes starting at once cannot produce two identities, and a
\* restart cannot replace one" (bootstrap.py): every identity a process was ever
\* told is the one in the table.
IdentityKept == known \subseteq {row}

\* Services come up however they collide, unless a crash left an empty file
\* behind, which only an operator can judge.
StartsUnlessAbandoned ==
    \A s \in Services :
        []<>(\/ at[s] = "up"
             \/ /\ File(s) = Empty
                /\ \A p \in Processes : VolumeOf[p] = VolumeOf[s] => at[p] # "writing")
=============================================================================
