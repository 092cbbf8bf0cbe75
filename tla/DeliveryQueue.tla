---------------------------- MODULE DeliveryQueue ----------------------------
(***************************************************************************)
(* The durable send queue of emaild: the `messages` table, the workers     *)
(* that claim rows from it, and the reaper and purge passes that tidy it   *)
(* (emaild/worker.py, with ingest.py's durable write, ratelimit.py's gate  *)
(* and suppressions.py's list).                                            *)
(*                                                                         *)
(* A step is a database transaction, except that a delivery transaction is *)
(* two: the SELECTs, then the UPDATEs and the COMMIT.  Postgres runs at    *)
(* READ COMMITTED and the code takes no lock with those SELECTs, so any    *)
(* other transaction may fall between the two halves; the ORM then writes  *)
(* only the columns whose value it believes it has changed.                *)
(*                                                                         *)
(* Time is abstract.  A timestamp is kept as the one comparison the code   *)
(* makes with it: `due` is next_attempt_at <= now, `stale` is claimed_at < *)
(* now - STALE_CLAIM_AFTER, `recent` is last_attempt_at >= now - WINDOW.   *)
(* Any of the three may change at any moment, as the clock runs on.        *)
(***************************************************************************)
EXTENDS Naturals, FiniteSets, Classification

CONSTANTS
    Messages,          \* rows of the messages table
    Workers,           \* worker processes
    Mailboxes,         \* sender identities
    Addresses,         \* recipient addresses
    MailboxOf,         \* the identity that sends each message
    RecipientsOf,      \* the envelope recipients of each message
    Replies,           \* what the provider may reply to a command it refuses
    Hosted,            \* mailboxes whose domain has an smtp_host
    RaisesAt,          \* where delivering each message raises an exception, always
    MaxAttempts,       \* MAX_ATTEMPTS
    BatchSize,         \* BATCH_SIZE
    Ceiling,           \* Budget.ceiling: the identity's hourly allowance
    ClaimsOutliveSends,\* TRUE: no live worker keeps a claim past STALE_CLAIM_AFTER
    MaxInterruptions,  \* bound: crashes, errors and shutdowns in a behaviour
    MaxOperatorActs,   \* bound: suppressions edited by people
    Nobody,            \* claimed_by IS NULL
    NoMessage          \* no message in hand

ASSUME QueueConstants ==
    /\ IsFiniteSet(Messages) /\ IsFiniteSet(Workers)
    /\ MailboxOf \in [Messages -> Mailboxes]
    /\ RecipientsOf \in [Messages -> SUBSET Addresses]
    /\ \A m \in Messages : RecipientsOf[m] # {}
    /\ Replies \subseteq Reply
    /\ Hosted \subseteq Mailboxes
    /\ RaisesAt \in [Messages -> {"nowhere", "loaded", "wire"}]
    /\ MaxAttempts \in Nat \ {0}
    /\ BatchSize \in Nat \ {0}
    /\ Ceiling \in Nat \ {0}
    /\ ClaimsOutliveSends \in BOOLEAN
    /\ MaxInterruptions \in Nat
    /\ MaxOperatorActs \in Nat
    /\ Nobody \notin Workers
    /\ NoMessage \notin Messages

VARIABLES
    msgs,              \* the messages table
    suppressed,        \* the suppressions table
    pc,                \* where each worker is in its loop
    batch,             \* claimed ids the worker has yet to serve
    task,              \* the delivery the worker has in hand
    stopping,          \* Worker._shutdown is set
    hist,              \* history: what became of each message on the wire
    interruptions,     \* counts against MaxInterruptions
    operatorActs       \* counts against MaxOperatorActs

db == <<msgs, suppressed>>
local == <<pc, batch, task, stopping>>
bounds == <<interruptions, operatorActs>>
vars == <<db, local, hist, bounds>>

-----------------------------------------------------------------------------
(* Rows, tasks and answers *)

Statuses == {"absent", "queued", "sending", "accepted_by_provider",
             "temporarily_failed", "permanently_rejected"}

\* Nothing sets CANCELED.
Terminal == {"accepted_by_provider", "permanently_rejected"}

Row == [status : Statuses, claimedBy : Workers \union {Nobody},
        stale : BOOLEAN, due : BOOLEAN, attempts : Nat, recent : BOOLEAN,
        completed : BOOLEAN, purged : BOOLEAN]

NoRow == [status |-> "absent", claimedBy |-> Nobody, stale |-> FALSE,
          due |-> FALSE, attempts |-> 0, recent |-> FALSE,
          completed |-> FALSE, purged |-> FALSE]

\* A DeliveryResult with its verdict: taken by the provider, or refused with a
\* verdict that is retryable or not, and the recipients named as nonexistent.
Answer == [ok : BOOLEAN, retryable : BOOLEAN, dead : SUBSET Addresses]

NoAnswer == [ok |-> FALSE, retryable |-> FALSE, dead |-> {}]

\* What a worker carries from one half of a transaction to the next: the row it
\* read, the gate's decision or the suppressions it found, the attempt number
\* and the provider's answer.
Task == [message : Messages \union {NoMessage}, read : Row, gated : BOOLEAN,
         attempt : Nat, answer : Answer, known : SUBSET Addresses]

NoTask == [message |-> NoMessage, read |-> NoRow, gated |-> FALSE,
           attempt |-> 0, answer |-> NoAnswer, known |-> {}]

Places == {"down", "idle", "polling", "serving", "loaded", "wire", "recording"}

\* The messages a live worker still means to act on.
Held(w) == batch[w] \union ({task[w].message} \ {NoMessage})

\* The row says the worker holds it, and the claim is still fresh.
Owns(w, m) ==
    msgs[m].status = "sending" /\ msgs[m].claimedBy = w /\ ~msgs[m].stale

-----------------------------------------------------------------------------
(* Columns as the ORM writes them: `row` is what the table holds now, `read`
   what this transaction read.  A column is written when the new value differs
   from the one read. *)

ReleasedColumns(row, read) ==
    IF read.claimedBy = Nobody
    THEN row ELSE [row EXCEPT !.claimedBy = Nobody, !.stale = FALSE]

StatusColumn(row, read, status) ==
    IF read.status = status THEN row ELSE [row EXCEPT !.status = status]

\* Mutant: the claim is cleared and the status forgotten.
SettledKeepsStatus(row, read, status) == ReleasedColumns(row, read)

Settled(row, read, status) ==
    StatusColumn(ReleasedColumns(row, read), read, status)

Deferred(row, read, status) ==
    [Settled(row, read, status) EXCEPT !.due = FALSE]

Completed(row, read, status) ==
    [Settled(row, read, status) EXCEPT !.completed = TRUE]

\* Bound: the attempts of a message that cannot be composed are not counted.
\* They have no bound in the code, and only an outcome would look at them.
AttemptsAfter(m, read) ==
    IF RaisesAt[m] = "wire" THEN read.attempts ELSE read.attempts + 1

Stamped(row, read, m) ==
    [row EXCEPT !.attempts = AttemptsAfter(m, read), !.recent = TRUE]

-----------------------------------------------------------------------------
(* The queue primitives *)

\* Mutant: any row that is due, whatever its status.
ClaimableIfDue(m) == msgs[m].status # "absent" /\ msgs[m].due

Claimable(m) ==
    /\ msgs[m].status \in {"queued", "temporarily_failed"}
    /\ msgs[m].due

Claimed(row, w) ==
    [row EXCEPT !.status = "sending", !.claimedBy = w, !.stale = FALSE]

ReleaseClaim(row) ==
    IF row.status = "sending"
    THEN [row EXCEPT !.status = "queued", !.claimedBy = Nobody, !.stale = FALSE]
    ELSE row

\* Mutants: no age limit; the age compared the wrong way round.
ReapableAtAnyAge(row) == row.status = "sending"
ReapableWhileFresh(row) == row.status = "sending" /\ ~row.stale

Reapable(row) == row.status = "sending" /\ row.stale

\* Mutant: a status outside the enumeration.
ReapedToUnknownStatus(row) ==
    [row EXCEPT !.status = "failed", !.claimedBy = Nobody, !.stale = FALSE]

Reaped(row) ==
    [row EXCEPT !.status = "temporarily_failed", !.claimedBy = Nobody,
                !.stale = FALSE, !.due = TRUE]

\* Mutant: bodies purged by age, settled or not.
PurgeableUnsettled(m) == msgs[m].status # "absent" /\ ~msgs[m].purged

\* purge_expired_bodies looks at completed_at alone, never at the status.
Purgeable(m) == msgs[m].completed /\ ~msgs[m].purged

\* current_budget: rows of this identity attempted within the window.
RecentRows(mb) == {m \in Messages : MailboxOf[m] = mb /\ msgs[m].recent}

\* Mutant: the gate closes one attempt late.
ExhaustedLate(m) == Cardinality(RecentRows(MailboxOf[m])) > Ceiling

Exhausted(m) == Cardinality(RecentRows(MailboxOf[m])) >= Ceiling

-----------------------------------------------------------------------------
(* Initial state: an empty table and freshly started workers *)

Init ==
    /\ msgs = [m \in Messages |-> NoRow]
    /\ suppressed = {}
    /\ pc = [w \in Workers |-> "idle"]
    /\ batch = [w \in Workers |-> {}]
    /\ task = [w \in Workers |-> NoTask]
    /\ stopping = [w \in Workers |-> FALSE]
    /\ hist = [m \in Messages |-> [taken |-> 0, silent |-> 0, unrecorded |-> 0]]
    /\ interruptions = 0
    /\ operatorActs = 0

-----------------------------------------------------------------------------
(* The API *)

\* The durable write of ingest_message; the suppression check precedes it.
Accept(m) ==
    /\ msgs[m].status = "absent"
    /\ RecipientsOf[m] \intersect suppressed = {}
    /\ msgs' = [msgs EXCEPT ![m] = [NoRow EXCEPT !.status = "queued", !.due = TRUE]]
    /\ UNCHANGED <<suppressed, local, hist, bounds>>

AddSuppression(a) ==
    /\ operatorActs < MaxOperatorActs
    /\ a \notin suppressed
    /\ suppressed' = suppressed \union {a}
    /\ operatorActs' = operatorActs + 1
    /\ UNCHANGED <<msgs, local, hist, interruptions>>

RemoveSuppression(a) ==
    /\ operatorActs < MaxOperatorActs
    /\ a \in suppressed
    /\ suppressed' = suppressed \ {a}
    /\ operatorActs' = operatorActs + 1
    /\ UNCHANGED <<msgs, local, hist, interruptions>>

-----------------------------------------------------------------------------
(* The worker's loop *)

\* Every pass runs the loop test; one in five minutes also runs maintenance.
Iterate(w) ==
    /\ pc[w] = "idle" /\ ~stopping[w]
    /\ pc' = [pc EXCEPT ![w] = "polling"]
    /\ UNCHANGED <<db, batch, task, stopping, hist, bounds>>

\* reap_stale_claims and purge_expired_bodies, in one transaction.
Maintenance(w) ==
    /\ pc[w] = "idle" /\ ~stopping[w]
    /\ pc' = [pc EXCEPT ![w] = "polling"]
    /\ \E expired \in SUBSET {m \in Messages : Purgeable(m)} :
          msgs' = [m \in Messages |->
                     LET row == IF Reapable(msgs[m]) THEN Reaped(msgs[m]) ELSE msgs[m]
                     IN  IF m \in expired THEN [row EXCEPT !.purged = TRUE] ELSE row]
    /\ UNCHANGED <<suppressed, batch, task, stopping, hist, bounds>>

\* FOR UPDATE SKIP LOCKED, ORDER BY next_attempt_at LIMIT BATCH_SIZE: as many
\* due rows as fit, in an order the abstraction of time leaves open.
ClaimMessages(w) ==
    /\ pc[w] = "polling"
    /\ \E ids \in SUBSET {m \in Messages : Claimable(m)} :
          /\ ids # {}
          /\ Cardinality(ids) <= BatchSize
          /\ Cardinality(ids) < BatchSize => \A m \in Messages : Claimable(m) => m \in ids
          /\ batch' = [batch EXCEPT ![w] = ids]
          /\ msgs' = [m \in Messages |->
                        IF m \in ids THEN Claimed(msgs[m], w) ELSE msgs[m]]
    /\ pc' = [pc EXCEPT ![w] = "serving"]
    /\ UNCHANGED <<suppressed, task, stopping, hist, bounds>>

NothingToClaim(w) ==
    /\ pc[w] = "polling"
    /\ \A m \in Messages : ~Claimable(m)
    /\ pc' = [pc EXCEPT ![w] = "idle"]
    /\ UNCHANGED <<db, batch, task, stopping, hist, bounds>>

\* release_claim, for each message left when shutdown was requested.
ReleaseUnserved(w, m) ==
    /\ pc[w] = "serving" /\ stopping[w]
    /\ m \in batch[w]
    /\ batch' = [batch EXCEPT ![w] = @ \ {m}]
    /\ msgs' = [msgs EXCEPT ![m] = ReleaseClaim(@)]
    /\ UNCHANGED <<suppressed, pc, task, stopping, hist, bounds>>

FinishBatch(w) ==
    /\ pc[w] = "serving" /\ batch[w] = {}
    /\ pc' = [pc EXCEPT ![w] = "idle"]
    /\ UNCHANGED <<db, batch, task, stopping, hist, bounds>>

-----------------------------------------------------------------------------
(* Delivering one message: the first transaction *)

\* SELECT the row, then count the identity's recent attempts.
LoadMessage(w, m) ==
    /\ pc[w] = "serving" /\ ~stopping[w]
    /\ m \in batch[w]
    /\ pc' = [pc EXCEPT ![w] = "loaded"]
    /\ batch' = [batch EXCEPT ![w] = @ \ {m}]
    /\ task' = [task EXCEPT ![w] =
                  [NoTask EXCEPT !.message = m, !.read = msgs[m], !.gated = Exhausted(m)]]
    /\ UNCHANGED <<db, stopping, hist, bounds>>

\* Write what becomes of the message in hand and go on with the batch.
Conclude(w, row) ==
    /\ msgs' = [msgs EXCEPT ![task[w].message] = row]
    /\ pc' = [pc EXCEPT ![w] = "serving"]
    /\ task' = [task EXCEPT ![w] = NoTask]

RateGated(w) ==
    /\ pc[w] = "loaded" /\ task[w].gated
    /\ Conclude(w, Deferred(msgs[task[w].message], task[w].read, "queued"))
    /\ UNCHANGED <<suppressed, batch, stopping, hist, bounds>>

FailWithoutHost(w) ==
    /\ pc[w] = "loaded" /\ ~task[w].gated
    /\ MailboxOf[task[w].message] \notin Hosted
    /\ Conclude(w, Completed(msgs[task[w].message], task[w].read, "permanently_rejected"))
    /\ UNCHANGED <<suppressed, batch, stopping, hist, bounds>>

\* What raises for a message raises every time it gets there: the password of its
\* mailbox does not decrypt, before the attempt is stamped, or build_mime, outside
\* the try of SmtpAdapter.send, refuses a subject or a name with a line break in it.
Raises(w) == pc[w] = RaisesAt[task[w].message]

\* Stamp the attempt before the wire.
StampAttempt(w) ==
    LET m == task[w].message IN
    /\ pc[w] = "loaded" /\ ~task[w].gated
    /\ MailboxOf[m] \in Hosted
    /\ ~Raises(w)
    /\ msgs' = [msgs EXCEPT ![m] = Stamped(@, task[w].read, m)]
    /\ task' = [task EXCEPT ![w].attempt = AttemptsAfter(m, task[w].read)]
    /\ pc' = [pc EXCEPT ![w] = "wire"]
    /\ UNCHANGED <<suppressed, batch, stopping, hist, bounds>>

\* The main loop swallows the exception and the batch goes with it: nothing was
\* sent or recorded, and the rows stay in `sending` until they are reaped.
DeliveryRaises(w) ==
    /\ pc[w] \in {"loaded", "wire"} /\ Raises(w)
    /\ pc[w] = "loaded" => ~task[w].gated /\ MailboxOf[task[w].message] \in Hosted
    /\ pc' = [pc EXCEPT ![w] = "idle"]
    /\ batch' = [batch EXCEPT ![w] = {}]
    /\ task' = [task EXCEPT ![w] = NoTask]
    /\ UNCHANGED <<db, stopping, hist, bounds>>

-----------------------------------------------------------------------------
(* The wire and the second transaction *)

\* _suppress_dead_recipients judges each refused recipient by its own reply.
DeadAmong(refused) == {r \in DOMAIN refused : ShouldSuppress(refused[r])}

\* Some recipients are taken, the others refused.
PartialAnswers(recipients) ==
    {[ok |-> TRUE, retryable |-> FALSE, dead |-> DeadAmong(refused)] :
        refused \in UNION {[some -> Replies] : some \in (SUBSET recipients) \ {recipients}}}

\* All are refused, and the first one's reply stands for the message.
RefusalAnswers(recipients) ==
    {[ok |-> FALSE, retryable |-> Classify(refused[first]).retryable,
      dead |-> DeadAmong(refused)] :
        refused \in [recipients -> Replies], first \in recipients}

\* The message is refused as a whole, or there was no reply.  Only when it has
\* one recipient can the reply be about an address.
WholeAnswers(recipients) ==
    {[ok |-> FALSE, retryable |-> Classify(reply).retryable,
      dead |-> {r \in recipients : recipients = {r} /\ ShouldSuppress(reply)}] :
        reply \in Replies \union {NoReply}}

AnswersFor(m) ==
    PartialAnswers(RecipientsOf[m]) \union RefusalAnswers(RecipientsOf[m])
        \union WholeAnswers(RecipientsOf[m])

\* A transport failure says nothing of what the provider did: it may have taken
\* the message and its answer been lost.  To the queue it looks like a deferral.
MayBeTaken(a) == ~a.ok /\ a.retryable /\ a.dead = {}

\* History: the provider took the message, and said so or not.
Witnessed(h, ok, silent) ==
    [taken |-> IF ok \/ silent THEN h.taken + 1 ELSE h.taken,
     silent |-> IF silent THEN h.silent + 1 ELSE h.silent,
     unrecorded |-> h.unrecorded]

\* adapter.send returns; the second transaction SELECTs the row and, for the
\* recipients refused as nonexistent, the suppressions that exist already.
ProviderAnswers(w) ==
    LET m == task[w].message IN
    /\ pc[w] = "wire" /\ ~Raises(w)
    /\ \E a \in AnswersFor(m), silent \in BOOLEAN :
          /\ silent => MayBeTaken(a)
          /\ task' = [task EXCEPT ![w] =
                        [@ EXCEPT !.answer = a, !.read = msgs[m],
                                  !.known = suppressed \intersect a.dead]]
          /\ hist' = [hist EXCEPT ![m] = Witnessed(@, a.ok, silent)]
    /\ pc' = [pc EXCEPT ![w] = "recording"]
    /\ UNCHANGED <<db, batch, stopping, bounds>>

\* Mutant: one retry too many.
MayRetryOnceMore(t) == t.answer.retryable /\ t.attempt <= MaxAttempts

MayRetry(t) == t.answer.retryable /\ t.attempt < MaxAttempts

\* Mutants: a partial success retried whole; a refusal with named recipients
\* taken for a partial success.
OutcomeRetriesPartial(row, t) ==
    IF t.answer.ok /\ t.answer.dead # {} THEN Deferred(row, t.read, "temporarily_failed")
    ELSE IF t.answer.ok THEN Completed(row, t.read, "accepted_by_provider")
    ELSE IF MayRetry(t) THEN Deferred(row, t.read, "temporarily_failed")
    ELSE Completed(row, t.read, "permanently_rejected")
OutcomeTakesRefusal(row, t) ==
    IF t.answer.ok \/ t.answer.dead # {} THEN Completed(row, t.read, "accepted_by_provider")
    ELSE IF MayRetry(t) THEN Deferred(row, t.read, "temporarily_failed")
    ELSE Completed(row, t.read, "permanently_rejected")

\* _record_outcome and _apply_failure: the columns the outcome writes.
Outcome(row, t) ==
    IF t.answer.ok THEN Completed(row, t.read, "accepted_by_provider")
    ELSE IF MayRetry(t) THEN Deferred(row, t.read, "temporarily_failed")
    ELSE Completed(row, t.read, "permanently_rejected")

\* Somebody suppressed one of the dead recipients after it was looked up.
SuppressionRaced(w) ==
    (task[w].answer.dead \ task[w].known) \intersect suppressed # {}

RecordOutcome(w) ==
    /\ pc[w] = "recording" /\ ~SuppressionRaced(w)
    /\ Conclude(w, Outcome(msgs[task[w].message], task[w]))
    /\ suppressed' = suppressed \union task[w].answer.dead
    /\ UNCHANGED <<batch, stopping, hist, bounds>>

OutcomeLost(m) == hist' = [hist EXCEPT ![m].unrecorded = @ + 1]

\* add_suppression's INSERT collides and it rolls the session back, the outcome
\* with it.  Another refused recipient makes the loop read the expired row,
\* which raises and ends the batch.
LoseOutcome(w) ==
    /\ pc[w] = "recording" /\ SuppressionRaced(w)
    /\ OutcomeLost(task[w].message)
    /\ task' = [task EXCEPT ![w] = NoTask]
    /\ \/ /\ pc' = [pc EXCEPT ![w] = "serving"]
          /\ UNCHANGED batch
       \/ /\ Cardinality(task[w].answer.dead) > 1
          /\ pc' = [pc EXCEPT ![w] = "idle"]
          /\ batch' = [batch EXCEPT ![w] = {}]
    /\ UNCHANGED <<db, stopping, bounds>>

-----------------------------------------------------------------------------
(* Shutdown, errors, crashes *)

Interrupt ==
    /\ interruptions < MaxInterruptions
    /\ interruptions' = interruptions + 1
    /\ UNCHANGED operatorActs

\* Everything in hand is dropped, and with it any outcome not yet recorded.
Abandon(w) ==
    /\ Interrupt
    /\ batch' = [batch EXCEPT ![w] = {}]
    /\ task' = [task EXCEPT ![w] = NoTask]
    /\ IF pc[w] \in {"wire", "recording"}
       THEN OutcomeLost(task[w].message) ELSE UNCHANGED hist
    /\ UNCHANGED db

RequestShutdown(w) ==
    /\ pc[w] # "down" /\ ~stopping[w]
    /\ Interrupt
    /\ stopping' = [stopping EXCEPT ![w] = TRUE]
    /\ UNCHANGED <<db, pc, batch, task, hist>>

\* An exception that the next attempt does not meet again, out of a transaction or
\* the adapter: rolled back, logged by the main loop, which goes round again.
UnexpectedError(w) ==
    /\ pc[w] \notin {"down", "idle"}
    /\ Abandon(w)
    /\ pc' = [pc EXCEPT ![w] = "idle"]
    /\ UNCHANGED stopping

Crash(w) ==
    /\ pc[w] # "down"
    /\ Abandon(w)
    /\ pc' = [pc EXCEPT ![w] = "down"]
    /\ stopping' = [stopping EXCEPT ![w] = FALSE]

Stop(w) ==
    /\ pc[w] = "idle" /\ stopping[w]
    /\ pc' = [pc EXCEPT ![w] = "down"]
    /\ stopping' = [stopping EXCEPT ![w] = FALSE]
    /\ UNCHANGED <<db, batch, task, hist, bounds>>

\* The container's restart policy.
Restart(w) ==
    /\ pc[w] = "down"
    /\ pc' = [pc EXCEPT ![w] = "idle"]
    /\ UNCHANGED <<db, batch, task, stopping, hist, bounds>>

-----------------------------------------------------------------------------
(* The clock *)

ClaimAges(m) ==
    /\ msgs[m].claimedBy # Nobody /\ ~msgs[m].stale
    /\ ClaimsOutliveSends => \A w \in Workers : m \notin Held(w)
    /\ msgs' = [msgs EXCEPT ![m].stale = TRUE]
    /\ UNCHANGED <<suppressed, local, hist, bounds>>

BecomesDue(m) ==
    /\ msgs[m].status \in {"queued", "temporarily_failed"} /\ ~msgs[m].due
    /\ msgs' = [msgs EXCEPT ![m].due = TRUE]
    /\ UNCHANGED <<suppressed, local, hist, bounds>>

WindowSlides(m) ==
    /\ msgs[m].recent
    /\ msgs' = [msgs EXCEPT ![m].recent = FALSE]
    /\ UNCHANGED <<suppressed, local, hist, bounds>>

-----------------------------------------------------------------------------
(* The specification *)

\* What a running worker does of its own accord.
WorkerStep(w) ==
    \/ Iterate(w) \/ Maintenance(w) \/ ClaimMessages(w) \/ NothingToClaim(w)
    \/ FinishBatch(w) \/ Stop(w)
    \/ \E m \in Messages : ReleaseUnserved(w, m) \/ LoadMessage(w, m)
    \/ RateGated(w) \/ FailWithoutHost(w) \/ StampAttempt(w)
    \/ DeliveryRaises(w) \/ ProviderAnswers(w) \/ RecordOutcome(w) \/ LoseOutcome(w)

Clock == \E m \in Messages : ClaimAges(m) \/ BecomesDue(m) \/ WindowSlides(m)

Next ==
    \/ \E m \in Messages : Accept(m)
    \/ \E a \in Addresses : AddSuppression(a) \/ RemoveSuppression(a)
    \/ \E w \in Workers : WorkerStep(w)
    \/ \E w \in Workers :
          RequestShutdown(w) \/ UnexpectedError(w) \/ Crash(w) \/ Restart(w)
    \/ Clock

Spec == Init /\ [][Next]_vars

\* A running worker keeps running: SMTP calls time out, Docker restarts it, and
\* the five-minute timer brings maintenance round again.  The clock runs on.
Fairness ==
    /\ \A w \in Workers : /\ WF_vars(WorkerStep(w)) /\ WF_vars(Restart(w))
                          /\ SF_vars(Maintenance(w))
    /\ \A m \in Messages : WF_vars(ClaimAges(m)) /\ WF_vars(BecomesDue(m))
                           /\ WF_vars(WindowSlides(m))

FairSpec == Spec /\ Fairness

-----------------------------------------------------------------------------
(* Properties *)

\* Every variable keeps its type.
TypeOK ==
    /\ msgs \in [Messages -> Row]
    /\ suppressed \in SUBSET Addresses
    /\ pc \in [Workers -> Places]
    /\ batch \in [Workers -> SUBSET Messages]
    /\ task \in [Workers -> Task]
    /\ stopping \in [Workers -> BOOLEAN]
    /\ hist \in [Messages -> [taken : Nat, silent : Nat, unrecorded : Nat]]
    /\ interruptions \in Nat
    /\ operatorActs \in Nat

\* "A slow-but-alive send is never stolen" (worker.py, STALE_CLAIM_AFTER): what a
\* live worker still means to act on is claimed, by it, in the table.  Two
\* workers therefore never hold the same message.
ClaimHeld == \A w \in Workers : \A m \in Held(w) : Owns(w, m)

\* Only the reaper recovers a row left in `sending`, and it finds it by its
\* claim: a row in `sending` without one would be lost for good.
NothingStranded ==
    \A m \in Messages : msgs[m].status = "sending" => msgs[m].claimedBy # Nobody

\* TERMINAL_STATUSES: once a message is settled no transaction settles it
\* otherwise or puts it back on the queue.
TerminalIsFinal ==
    [][\A m \in Messages :
         msgs[m].status \in Terminal => msgs'[m].status = msgs[m].status]_vars

\* The provider takes a message twice only if an earlier outcome was lost: the
\* worker died before recording it, or the provider's answer never arrived.
DuplicatesExplained ==
    \A m \in Messages : hist[m].taken <= 1 + hist[m].unrecorded + hist[m].silent

\* MAX_ATTEMPTS bounds the attempts whose outcome was recorded.  Those of a message
\* that cannot be composed have none, and no bound.
AttemptsAccounted ==
    \A m \in Messages :
        RaisesAt[m] # "wire" => msgs[m].attempts <= MaxAttempts + hist[m].unrecorded

\* What goes on the wire is the message as accepted, not one whose body the
\* retention pass has dropped.
BodyOnTheWire ==
    \A w \in Workers : pc[w] = "wire" => ~task[w].read.purged

\* The gate reads the count in one statement and stamps in a later one: workers
\* that race through it exceed the ceiling by at most one message each.
GateOvershootBounded ==
    \A mb \in Mailboxes :
        Cardinality(RecentRows(mb)) < Ceiling + Cardinality(Workers)

\* `accepted_by_provider` is only ever said of a message the provider took.
AcceptedMeansTaken ==
    \A m \in Messages : msgs[m].status = "accepted_by_provider" => hist[m].taken > 0

\* The table that decides on a retry and the expression that declares addresses
\* dead (classify.py, bounce.py) agree: no message goes back to the queue when
\* its outcome has just suppressed every one of its recipients.
RetriedForSomeone ==
    \A w \in Workers :
        pc[w] = "recording" /\ MayRetry(task[w]) =>
            task[w].answer.dead # RecipientsOf[task[w].message]

\* A message whose delivery raises every time is reaped and claimed again for ever:
\* it is never settled.  It endangers whatever is claimed along with it and dropped
\* with the batch, and, as its attempts are stamped before they come to nothing,
\* whatever its identity has to send besides.
Endangered(m) ==
    \E p \in Messages :
        /\ RaisesAt[p] # "nowhere"
        /\ \/ \E w \in Workers : {m, p} \subseteq Held(w)
           \/ p \in RecentRows(MailboxOf[m]) /\ Exhausted(m)

\* Every other accepted message reaches a terminal status, through crashes,
\* rollbacks and rate gates, unless it is so endangered time and again.
EventuallySettled ==
    \A m \in Messages :
        \/ (msgs[m].status # "absent") ~> (msgs[m].status \in Terminal)
        \/ []<>Endangered(m)

-----------------------------------------------------------------------------
(* The queue keeps the promise made to the client *)

\* What the API's `status` amounts to: pending until it is terminal.
FateOf(status) ==
    IF status = "absent" THEN "unknown"
    ELSE IF status = "accepted_by_provider" THEN "accepted"
    ELSE IF status = "permanently_rejected" THEN "rejected"
    ELSE "pending"

Promise == INSTANCE MailPromise WITH
    fate <- [m \in Messages |-> FateOf(msgs[m].status)],
    copies <- [m \in Messages |-> hist[m].taken]

\* Accept, claim, retry, reap and crash are all, to the client, a message that
\* stays pending until it is settled, once.  Whether it is, EventuallySettled says.
KeepsPromise == Promise!Spec

-----------------------------------------------------------------------------
(* A claim of the repository that the code does not keep *)

\* add_suppression: losing the race to insert is the "same outcome either way".
\* A worker that goes on with its batch has recorded the answer it was given.
RaceChangesNothing ==
    [][\A w \in Workers :
         pc[w] = "recording" /\ pc'[w] = "serving" =>
            msgs'[task[w].message].status # "sending"]_vars
=============================================================================
