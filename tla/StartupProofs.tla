----------------------------- MODULE StartupProofs -----------------------------
(***************************************************************************)
(* Theorems about Startup, for any number of containers, volumes, crashes  *)
(* and repairs.                                                            *)
(***************************************************************************)
EXTENDS Startup, TLAPS

USE DEF Processes

\* Holders know the secret; it is the one in the file.
Holders == {"secured", "inserting", "settling", "up"}

\* A file that is being written is empty and has one writer; what passwords are
\* encrypted with is what the file holds.
OneKey ==
    /\ \A p \in Processes :
          at[p] \in Holders => secret[p] \in Values /\ secret[p] = File(p)
    /\ \A p \in Processes : at[p] = "writing" => secret[p] \in Values /\ File(p) = Empty
    /\ \A p, q \in Processes :
          at[p] = "writing" /\ at[q] = "writing" /\ VolumeOf[p] = VolumeOf[q] => p = q
    /\ \A v \in Volumes : sealed[v] \subseteq {files[v]}

\* An uncommitted row is a settling process's own; without one, whoever settles
\* finds a committed row.
OneIdentity ==
    /\ pending # None =>
          row = None /\ at[pending] = "settling" /\ candidate[pending] \in Ids
    /\ \A p \in Processes : at[p] = "settling" /\ pending # p => row # None
    /\ known \subseteq {row}

IInv == TypeOK /\ OneKey /\ OneIdentity

\* A step keeps the types; that a settled identity is one, and a password is
\* encrypted with a secret, is what the rest of the invariant is needed for.
LEMMA StepKeepsTypes ==
    ASSUME IInv, [Next]_vars PROVE TypeOK'
<1> USE StartupConstants DEF IInv, TypeOK, Places, OneKey, OneIdentity, Holders, File
<1>1. ASSUME NEW p \in Processes, Start(p) PROVE TypeOK'
  BY <1>1 DEF Start, Go
<1>2. ASSUME NEW p \in Processes, Leave(p), faults' \in Nat PROVE TypeOK'
  BY <1>2 DEF Leave, Go
<1>3. ASSUME NEW p \in Processes, TakeSecret(p), at[p] \in {"reading", "rereading"} PROVE TypeOK'
  BY <1>3 DEF TakeSecret, Go, Legible
<1>4. ASSUME NEW p \in Processes, ReadSecret(p) PROVE TypeOK'
  BY <1>2, <1>3, <1>4 DEF ReadSecret, Refuse, Go
<1>5. ASSUME NEW p \in Processes, CreateSecret(p) PROVE TypeOK'
  BY <1>5 DEF CreateSecret, Go, FreshValues, Creatable
<1>6. ASSUME NEW p \in Processes, WriteSecret(p) PROVE TypeOK'
  BY <1>6 DEF WriteSecret, Go
<1>7. ASSUME NEW p \in Processes, RereadSecret(p) PROVE TypeOK'
  BY <1>2, <1>3, <1>7 DEF RereadSecret, Refuse
<1>8. ASSUME NEW p \in Processes, LookForInstallation(p) PROVE TypeOK'
  BY <1>8 DEF LookForInstallation, Settle, Go
<1>9. ASSUME NEW p \in Processes, InsertInstallation(p) PROVE TypeOK'
  BY <1>9 DEF InsertInstallation, Go, FreshIds
<1>10. ASSUME NEW p \in Processes, SettleInstallation(p) PROVE TypeOK'
  BY <1>10 DEF SettleInstallation, Settle, SettledOn, Go
<1>11. ASSUME NEW p \in Processes, Encrypt(p) PROVE TypeOK'
  BY <1>11 DEF Encrypt
<1>12. ASSUME NEW p \in Processes, Exit(p) \/ Crash(p) PROVE TypeOK'
  BY <1>2, <1>12 DEF Exit, Crash
<1>13. ASSUME NEW v \in Volumes, RemoveEmpty(v) PROVE TypeOK'
  BY <1>13 DEF RemoveEmpty
<1>14. CASE UNCHANGED vars
  BY <1>14 DEF vars
<1> QED
  BY <1>1, <1>4, <1>5, <1>6, <1>7, <1>8, <1>9, <1>10, <1>11, <1>12, <1>13, <1>14
  DEF Next, Proceed, Refuse

\* A step keeps a volume to one key.
LEMMA StepKeepsKey ==
    ASSUME IInv, [Next]_vars PROVE OneKey'
<1> USE StartupConstants DEF IInv, TypeOK, OneKey, Holders, File, Places
<1>1. ASSUME NEW p \in Processes, Start(p) PROVE OneKey'
  BY <1>1 DEF Start, Go
<1>2. ASSUME NEW p \in Processes, Leave(p) PROVE OneKey'
  BY <1>2 DEF Leave, Go
<1>3. ASSUME NEW p \in Processes, TakeSecret(p), at[p] \in {"reading", "rereading"} PROVE OneKey'
  BY <1>3 DEF TakeSecret, Go, Legible
<1>4. ASSUME NEW p \in Processes, ReadSecret(p) PROVE OneKey'
  BY <1>2, <1>3, <1>4 DEF ReadSecret, Refuse, Go
<1>5. ASSUME NEW p \in Processes, CreateSecret(p) PROVE OneKey'
  BY <1>5 DEF CreateSecret, Go, FreshValues, Creatable
<1>6. ASSUME NEW p \in Processes, WriteSecret(p) PROVE OneKey'
  BY <1>6 DEF WriteSecret, Go
<1>7. ASSUME NEW p \in Processes, RereadSecret(p) PROVE OneKey'
  BY <1>2, <1>3, <1>7 DEF RereadSecret, Refuse
<1>8. ASSUME NEW p \in Processes, LookForInstallation(p) PROVE OneKey'
  BY <1>8 DEF LookForInstallation, Settle, Go
<1>9. ASSUME NEW p \in Processes, InsertInstallation(p) PROVE OneKey'
  BY <1>9 DEF InsertInstallation, Go, FreshIds
<1>10. ASSUME NEW p \in Processes, SettleInstallation(p) PROVE OneKey'
  BY <1>10 DEF SettleInstallation, Settle, SettledOn, Go
<1>11. ASSUME NEW p \in Processes, Encrypt(p) PROVE OneKey'
  BY <1>11 DEF Encrypt
<1>12. ASSUME NEW p \in Processes, Exit(p) \/ Crash(p) PROVE OneKey'
  BY <1>2, <1>12 DEF Exit, Crash
<1>13. ASSUME NEW v \in Volumes, RemoveEmpty(v) PROVE OneKey'
  BY <1>13 DEF RemoveEmpty
<1>14. CASE UNCHANGED vars
  BY <1>14 DEF vars
<1> QED
  BY <1>1, <1>4, <1>5, <1>6, <1>7, <1>8, <1>9, <1>10, <1>11, <1>12, <1>13, <1>14
  DEF Next, Proceed, Refuse

\* A step keeps the installation to one identity.
LEMMA StepKeepsIdentity ==
    ASSUME IInv, [Next]_vars PROVE OneIdentity'
<1> USE StartupConstants DEF IInv, TypeOK, OneIdentity, Places
<1>1. ASSUME NEW p \in Processes, Start(p) PROVE OneIdentity'
  BY <1>1 DEF Start, Go
<1>2. ASSUME NEW p \in Processes, Leave(p) PROVE OneIdentity'
  BY <1>2 DEF Leave, Go
<1>3. ASSUME NEW p \in Processes, TakeSecret(p), at[p] \in {"reading", "rereading"} PROVE OneIdentity'
  BY <1>3 DEF TakeSecret, Go, Legible
<1>4. ASSUME NEW p \in Processes, ReadSecret(p) PROVE OneIdentity'
  BY <1>2, <1>3, <1>4 DEF ReadSecret, Refuse, Go
<1>5. ASSUME NEW p \in Processes, CreateSecret(p) PROVE OneIdentity'
  BY <1>5 DEF CreateSecret, Go, FreshValues, Creatable
<1>6. ASSUME NEW p \in Processes, WriteSecret(p) PROVE OneIdentity'
  BY <1>6 DEF WriteSecret, Go
<1>7. ASSUME NEW p \in Processes, RereadSecret(p) PROVE OneIdentity'
  BY <1>2, <1>3, <1>7 DEF RereadSecret, Refuse
<1>8. ASSUME NEW p \in Processes, LookForInstallation(p) PROVE OneIdentity'
  BY <1>8 DEF LookForInstallation, Settle, Go
<1>9. ASSUME NEW p \in Processes, InsertInstallation(p) PROVE OneIdentity'
  BY <1>9 DEF InsertInstallation, Go, FreshIds
<1>10. ASSUME NEW p \in Processes, SettleInstallation(p) PROVE OneIdentity'
  BY <1>10 DEF SettleInstallation, Settle, SettledOn, Go
<1>11. ASSUME NEW p \in Processes, Encrypt(p) PROVE OneIdentity'
  BY <1>11 DEF Encrypt
<1>12. ASSUME NEW p \in Processes, Exit(p) \/ Crash(p) PROVE OneIdentity'
  BY <1>2, <1>12 DEF Exit, Crash
<1>13. ASSUME NEW v \in Volumes, RemoveEmpty(v) PROVE OneIdentity'
  BY <1>13 DEF RemoveEmpty
<1>14. CASE UNCHANGED vars
  BY <1>14 DEF vars
<1> QED
  BY <1>1, <1>4, <1>5, <1>6, <1>7, <1>8, <1>9, <1>10, <1>11, <1>12, <1>13, <1>14
  DEF Next, Proceed, Refuse

LEMMA StartsRight == Init => IInv
BY StartupConstants DEF Init, IInv, TypeOK, Places, OneKey, OneIdentity, Holders, File

LEMMA StaysRight == Spec => []IInv
<1>1. IInv /\ [Next]_vars => IInv'
  <2> SUFFICES ASSUME IInv, [Next]_vars PROVE IInv'
    OBVIOUS
  <2> QED
    BY StepKeepsTypes, StepKeepsKey, StepKeepsIdentity DEF IInv
<1> QED
  BY StartsRight, <1>1, PTL DEF Spec

\* Every variable keeps its type, whichever containers start, race and crash.
THEOREM TypeCorrect == Spec => []TypeOK
<1>1. IInv => TypeOK
  BY DEF IInv
<1> QED
  BY StaysRight, <1>1, PTL

\* No race, crash or repair of an empty file gives two running processes of a
\* volume different keys, or one of them a key that passwords stored earlier are
\* not encrypted with.
THEOREM CredentialsStayReadable == Spec => []CredentialsReadable
<1>1. IInv => CredentialsReadable
  BY StartupConstants DEF IInv, OneKey, CredentialsReadable, Holders, File
<1> QED
  BY StaysRight, <1>1, PTL

\* No process is ever told an identity other than the one in the table.
THEOREM IdentityStays == Spec => []IdentityKept
<1>1. IInv => IdentityKept
  BY DEF IInv, OneIdentity, IdentityKept
<1> QED
  BY StaysRight, <1>1, PTL
=============================================================================
