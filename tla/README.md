# emaild, specified

TLA+ specifications of `emaild`, the internal e-mail gateway in `src/`: what
its processes do to the database, which interleavings, crashes and lost answers
they survive, and which they do not. TLC checks every claim on small instances;
TLAPS proves the most important ones for every value of the constants.

## 1. The system

`emaild` is one Python package run as several processes around one PostgreSQL
database. The API and dashboard (`role=api`) accept mail and store it, workers
(`role=worker`) deliver it through MXRoute's SMTP, the provisioner
(`provisioner.py`, `role=admin`) talks to MXRoute's management API, and an
operator's CLI (`admin.py`, `role=admin`) shares the same operations. Only the
database connects them, and the volumes their secrets are on: every operation is
a READ COMMITTED transaction opened by `session_scope` (`db.py`), committed at
its end and rolled back by any exception.

| Component | State | Operations | Interacts with |
|---|---|---|---|
| Durable queue and worker (`worker.py`) | `messages` rows; the loop, batch and message in hand of each worker | claim, release, reap, deliver (gate, stamp, send, record), retry, suppress, purge, shutdown | rows written by ingest; the gate; the list; the adapter |
| Ingest (`ingest.py`, `api/v1.py`, `auth.py`) | `messages`, `idempotency_keys` | authenticate, load senders, screen, replay, durable write | domains' status, key scopes, suppressions |
| Rate gate (`ratelimit.py`) | `last_attempt_at` of messages | count the window, find the next opening | called by the worker |
| Suppression list (`suppressions.py`) | `suppressions` | add, remove, look up | ingest reads it; workers and operators write it |
| Projects and API keys (`management.py`) | `projects`, `api_keys`, `api_key_scopes` | create project, create key, revoke key | read by authentication |
| Domain lifecycle (`domains.py`, `dnscheck.py`) | `domains.status`, `required_records`, `dns_state` | add, refresh with its five DNS checks, `_next_status` | READY gates ingest; the records listed guide the operator |
| Mailbox provisioning (`provisioning.py`, `crypto.py`) | `mailboxes`, MXRoute's accounts | create or adopt, rotate password | the worker caches credentials |
| Provisioning jobs (`jobs.py`, `provisioner.py`) | `provisioning_jobs` | enqueue, claim, execute, finish, reap | domains, provisioning |
| Secret store, installation (`secretstore.py`, `bootstrap.py`) | files, the `installation` row | read or create | start-up of every process |
| Failure classification (`delivery/classify.py`, `bounce.py`) | none | SMTP result to verdict | worker |
| MXRoute client, SMTP adapter (`providers/`, `delivery/`) | connection | requests, retries | external service |
| Dashboard (`dashboard/`) | pages composed of several SELECTs | next step, keys form, test page and test send, requests for jobs | every table; ingest |
| CLI, health, metrics, config, logging | none of their own | front ends and reports | the operations above |

What is hard here is that two transactions interleave at every statement and
nothing in the code locks a row it has read, except the claim's `FOR UPDATE SKIP
LOCKED`. `PROJECT.json` lists each hazard at its line. The main ones:

- a claim outlives its worker, or a worker its claim (crash, slow send, reaper);
- the outcome of a send is lost (crash before recording, answer never received,
  a rollback somebody else causes), and the message is sent again;
- checks are made in one statement and relied on in another (rate gate,
  suppression, authorization, key names, idempotency lookup);
- clients time out and repeat themselves while the first call still runs;
- MXRoute keeps what a call did when the transaction around it is lost, and
  some of its error answers are taken for success;
- a dashboard page is several snapshots, and is acted on long after.

## 2. The modules

| Module | Models | Role |
|---|---|---|
| `DeliveryQueue` | worker, queue, gate, list, purge | detailed specification |
| `RateWindow` | the window the gate counts, its opening, and the delays between retries, in seconds | operators, over the queue's states |
| `MailPromise` | what a client is promised of an accepted message | abstract specification |
| `Classification` | what a provider's reply means | operators, used by the queue |
| `Submission` | `POST /v1/emails`, from the bearer key to the COMMIT | detailed specification |
| `IdempotentIntake` | what a client is promised of a submission | abstract specification |
| `DnsChecks` | the five checks of a sweep over what a zone has, and `_next_status` | operators |
| `SenderIdentities` | domains, mailboxes, MXRoute's accounts, provisioning jobs, workers' cached credentials | detailed specification |
| `SenderCatalogue` | what domains and mailboxes promise ingest and the dashboard | abstract specification of `SenderIdentities` |
| `Guidance` | `SenderIdentities` with an operator who does what the dashboard says, and the registrar's zone | composition |
| `KeyRegistry` | projects and API keys under concurrent operators, over the `SenderCatalogue` | detailed specification |
| `Dashboard` | `KeyRegistry` with visitors on the test page, and the advice | composition |
| `Startup` | secret files and the installation's identity when processes start | detailed specification |
| `DeliveryQueueProofs`, `ClassificationProofs`, `SubmissionProofs`, `StartupProofs`, `DnsChecksProofs`, `SenderIdentitiesProofs`, `GuidanceProofs`, `DashboardProofs` | | theorems about the module each is named for (`DashboardProofs`: `KeyRegistry` too; `DeliveryQueueProofs`: `RateWindow` too) |
| `MCDeliveryQueue`, `MCSubmission`, `MCKeyRegistry`, `MCDashboard`, `MCSenderIdentities`, `MCGuidance`, `MCStartup` | constants for TLC | small instances |

The modules meet in two places. `SenderIdentities` is shown to implement
`SenderCatalogue`, and `KeyRegistry` and `Dashboard` are built on
`SenderCatalogue` instead of on all of `SenderIdentities`: whatever order
sweeps, jobs and provisioning take, the dashboard's properties see no more of
them than the catalogue moves. `DeliveryQueue` computes what the provider's
replies mean with `Classification`.

Every action stands for a whole transaction, or for the part of one between two
statements when another transaction may fall in between; its comment names the
function. An operation that raises leaves the tables alone. Definitions called
"Mutant" in a comment are faulty variants of their neighbour: replacing one by
the other makes a checked property fail, which shows that the property depends
on that line of code. No specification uses them.

### 2.1 DeliveryQueue

A row of `messages` keeps `status`, `claimed_by`, `attempts`, and its timestamps
as the one comparison the code makes with each: `due` for `next_attempt_at <=
now`, `stale` for `claimed_at < now - STALE_CLAIM_AFTER`, `recent` for
`last_attempt_at >= now - WINDOW`, `completed` for `completed_at IS NOT NULL`.
The clock (`ClaimAges`, `BecomesDue`, `WindowSlides`) changes them at any moment.

What that leaves out is in `RateWindow`, which extends the queue without steps of
its own: the last attempt of each message of an identity in seconds
(`AttemptTables`), what `current_budget` counts of it (`InWindow`, `Shut`),
`NextWindowOpening`, and the least time between attempts that were answered with
a deferral (`LeastDelay`, `Scheduled`). `OpeningIsExact` meets the queue in the
rows the gate counts: it is asked of a worker about to hand back its message, for
all instants at which the attempts behind its `recent` rows can have been made.

`_deliver_one` is two transactions around the wire, and each is two steps: the
SELECTs (`LoadMessage`, `ProviderAnswers`), then the UPDATEs and COMMIT
(`RateGated`, `FailWithoutHost`, `StampAttempt`; `RecordOutcome`, `LoseOutcome`).
SQLAlchemy writes only the columns whose value differs from the one it read;
`StatusColumn` and `ReleasedColumns` do the same. `hist` is a history variable:
how often the provider took a message, how often without its answer arriving, and
how many outcomes went unrecorded.

What the provider answers is computed from its replies. `AnswersFor` has the
three ways `SmtpAdapter.send` returns: some recipients refused, all refused, and
the message refused as a whole or no reply at all; `Classify` turns replies into
retry decisions and `DeadAmong` into suppressions.

An exception has two models. `UnexpectedError` is one that the next attempt does
not meet again (the database went away); it counts against `MaxInterruptions`.
`RaisesAt` says of each message whether its delivery raises *every time*: on the
"wire", because `build_mime` is called outside the `try` of `SmtpAdapter.send`
(`smtp.py:121`) and refuses a subject with a line break, which `schemas.py:45`
accepts and `ingest.py` stores; or when "loaded", because the adapter cannot be
made (`worker.py:252`, a password that does not decrypt). `DeliveryRaises` is that
step. It is not bounded: the loop swallows the exception with the rest of the
batch (`worker.py:123`), nothing is recorded, the reaper puts the row back, and the
cap on attempts, which only `_apply_failure` looks at, never applies. The attempts
of a message that raises on the wire are stamped (`recent`) and not counted
(`AttemptsAfter`), so that what repeats for ever is a finite model; no decision
reads their number.

`MailPromise` is the client's view: a message is pending, the provider takes it
some number of times, and its fate is told at most once. It is refined with `fate`
read off the status and `copies` off `hist`. It promises nothing of when, or that
a fate is told at all: `EventuallySettled` says for which messages it is.

### 2.2 Submission

A call is a record with the step it has reached, the principal it loaded and
finally its answer. `Authenticate` and `LoadSenders` are the two SELECTs of
`resolve_principal`, in a transaction of their own; `Screen` is
`authorize_sender`, the limits and `_check_suppressions`; `Replay` is
`_replay_if_seen`; `Commit` and `LoseRace` are the two ways the final INSERTs
end. `Vanish` may kill a call at any step, also after its COMMIT and before its
answer. Key revocation, domain status and suppressions change in between. `fit`
records which checks the request could have passed at some moment since it
arrived, `told` the answers clients received.

### 2.3 DnsChecks

A zone has, under each name a sweep looks up, the record `emaild` wants
(`right`), another of its kind (`other`), both or neither; some lookups fail,
and MXRoute's `GET /domains/{d}/dns` may leave out what it demands. `CheckMx`
to `CheckOwnership` are the functions of `dnscheck.py` on that, `CanSend` and
`HadLookupErrors` the properties of its report, `NextStatus` is `_next_status`.
`Disproved` is the yardstick the properties use: what the sweep looked up and
did not find in order.

### 2.4 SenderIdentities, SenderCatalogue and Guidance

`add_domain`, `refresh_domain`, `provision_mailbox` and
`rotate_mailbox_password` each take three steps: the SELECTs, the call to
MXRoute (or the DNS sweep), and the writes with the COMMIT. `hands` holds what a
process carries from one to the next. MXRoute (`registered`, `accounts`) keeps
what a call did even if the transaction that made it rolls back; a call may also
be refused, act and its answer be lost, or fail with an empty body, which
`_handle` (`mxroute.py:208`) takes for success (`Misread`). `listed` is
`required_records`, the records the operator is told to publish. The provisioner
runs the same operations for the jobs the dashboard enqueues, with the claim,
the work and the outcome in one transaction; `enqueue` looks for an outstanding
job and then inserts; a job whose own INSERT collides goes back to `pending`.
`adapters` is the password each worker decrypted when it first sent for an
identity. `proven` and `doubtful` are history.

`SenderCatalogue` keeps of this what ingest and the dashboard read: the standing
of a domain (`untracked`, `unready`, `verified`, `ready`; the statuses between
`added` and `verified` are one) and the set of mailboxes. Tracked stays tracked,
a mailbox stays, and only a domain with a mailbox is ready.

`Guidance` adds an operator, the `Follower`, who does what
`domain_next_action` of `dashboard/setup_state.py` says of a domain: add it,
publish the records *listed* (not those needed), re-check, provision; with the
dashboard's buttons, which make requests, or with the commands. `dns` is
the zone at the registrar, which sweeps see and which loses records (`Spoil`).
Other operators enqueue requests at the same time, so that two may both find
none outstanding and both insert theirs. Neither the advice nor the
list is trusted by the model; that they lead to a ready domain is the property
(`GuidanceLeads`). Its safety core is stated apart: `Rank` counts the pieces of
advice between a domain and READY, `AdviceWorks` says that each, once followed,
lowers it, and `AdviceHolds` names all that may raise it.

### 2.5 KeyRegistry and Dashboard

Each operation on projects and keys is its SELECTs, then its INSERT or UPDATE
with COMMIT. `scalar_one_or_none` on two rows raises `MultipleResultsFound`,
which nothing catches: the operation "failed". Project names have a unique
constraint, key names have none. A key's scopes are mailboxes, chosen when it
is created (`Grantable`: at least one, all known).

A visitor's page is built by five SELECTs of one READ COMMITTED transaction:
`ReadKeys` and `ReadReadySenders` are `send_options`, `ReadDomains`,
`ReadMailboxes` and `ReadScopes` are `blocked_senders`. Keys and catalogue
change between them, and between the page and its submission (`SelectPrincipal`
is `_principal_for`, after the refusal of a blank recipient; `Ingest` is
`authorize_sender`, then what `ingest_message` asks of the recipient, and the
message). The recipient typed is `fit`, `blank`, or `unfit`: malformed, or on the
suppression list when it is looked up. A refused send keeps what it was refused
for (`fault`), in the order in which the code looks, which is what the operator
reads. A test send has no idempotency key and calls the same `ingest_message` as
the API, of which `Submission` has the detail. `begun` (the senders there were when the page was
begun) and `disturbed` (the senders and keys that changed since) are history,
and let the properties say "unless it changed". `NextSteps` is `next_step`; it is
a set because the order among domains is that of their names.

### 2.6 Startup

`read_or_create` is the read, the exclusive create (`O_CREAT | O_EXCL`), the
write, and, for the process that lost the create, one more read; a crash between
create and write leaves an empty file, which every later start refuses and which
an operator may remove. `RemoveEmpty` assumes that nobody removes a file within
the instant in which a live process is about to write it. `ensure_installation`
is the SELECT, the INSERT that waits for whoever inserted first, and the COMMIT
or the rereading. Processes mount volumes as in `deploy/compose.yaml`: the admin
container shares the workers' volume, and the provisioner, which mounts none, is
left out.

### 2.7 Classification

A reply is its code (`NoCode` for none) and the set of phrases its wording
matches. `Classify` is `classify`, the rules in the order of the code;
`ShouldSuppress` is `should_suppress`. Wordings that no expression of either
file tells apart are one phrase, so that `"user unknown"` stands for what both
files know, `"address not found"` for what only `bounce.py` knows. The operators
have no state; the queue uses them in `AnswersFor`.

## 3. What is checked

| Run | Instance | Shows |
|---|---|---|
| `queue_takeover` | 2 workers, 3 messages of one identity, batches of 2, a gate of 1, 1 interruption | type correctness; a message in hand is claimed by exactly its worker; nothing is stranded in `sending`; settled stays settled; bodies on the wire are whole; the gate is overshot by less than the number of workers; who is turned away waits until it opens and no longer (5 instants); the queue implements `MailPromise` |
| `queue_suppression` | 2 workers, 2 messages with overlapping recipients, 4 telling replies, 1 operator act | every duplicate and every attempt over the cap is paid for by a lost outcome; "accepted" is only said of mail the provider took; no message is retried whose recipients its own outcome has all suppressed. |
| `queue_settles` | 1 worker, batches of 3, 3 messages: two of one identity with a gate of 1, of which one cannot be composed, and one of an identity without a host; 1 interruption | every accepted message but the one that raises reaches a terminal status, unless time and again it is claimed in one batch with that one or is turned away by a gate its attempts keep shut |
| `submission_intake` | 2 calls, 2 projects, 3 credentials, one idempotency key, 3 bodies, 1 policy change | one message per key and project; what is written passed each check at some moment since its call arrived; a repeat does not conflict, and gets the original id while policy stands still; the API implements `IdempotentIntake` |
| `keys_racing` | `Dashboard`: 2 operators, 1 project name, 1 key name, 3 ids, 2 addresses on 1 domain, 1 visitor | a name has no more active keys than creators at once; a loaded page offers every sender that would send or gives the reason; a test send of an offer to a fit recipient is refused only if its key or sender changed, and no refusal blames them otherwise; no advice is impossible |
| `identities_racing` | `SenderIdentities`: 2 operators, 1 provisioner, 1 domain, 1 address, 3 passwords, 1 job, 1 fault, all commands, 3 telling sweeps, the DKIM key there or yet to be made when the domain is added | READY rests on a sweep, a registration and a mailbox and is lost on evidence only; passwords agree at both ends once undisturbed; `SenderCatalogue` is implemented |
| `identities_jobs` | `Guidance`: a follower, another operator, 2 provisioners, 2 jobs, 1 fault | every requested job ends, duplicates included, and its outcome stands; no job has two provisioners; each piece of advice brings the domain nearer to READY, only lost records and stale or adverse sweeps take it back, and whoever follows the advice ends with a ready domain |
| `startup_racing` | 3 services, 1 admin command, 2 volumes, 1 crash | passwords stay readable with the key of every running process; one identity is ever told; services come up unless a crash left an empty secret |

The remaining runs end in a counterexample, each to something the repository
says of itself (`PROJECT.json`, "findings"):

| Run | What the code does |
|---|---|
| `queue_stolen` | a worker slower than `STALE_CLAIM_AFTER` is reaped alive, and the message goes out twice |
| `queue_lost_outcome` | `add_suppression`, losing a race, rolls back the outcome its caller wrote in the same session |
| `keys_irrevocable` | after one rotation under the same name the live key cannot be revoked |
| `identities_cached` | a worker goes on logging in with the password from before a rotation and rejects mail for it |

**Bounds.** `MaxInterruptions`, `MaxOperatorActs` (queue), `MaxChanges`
(submission), `MaxFaults`, `MaxJobs` (identities, start-up) cap what may happen
to the system from outside; `Ids`, `Passwords` and `Values` cap what may be
generated. Two workers are enough for one to take over from the other, and a
third party (the operator) to race both; three messages fill a batch and leave
one; two share a recipient; `MaxAttempts = 2` has a retry and a last attempt
(`queue_takeover`, which is about claims, has 1). Two calls let a key be stored,
lost to and replayed, from any pair of requests. A page, two operators and three
ids let a key of one name be made twice, revoked and made again while the page is
read. The sweeps of `identities_racing` are one in order, one that disproves a
record and one whose lookup fails, which is all `NextStatus` can do to a domain
beyond its ownership record; `identities_jobs` sweeps the zone itself, with one
lookup failing or none. The instants of `queue_takeover` are two beginnings and the
ends of a window; `RetriesPerWindow`, which no state matters to, is an ASSUME of
`MCDeliveryQueue` that TLC evaluates, in `queue_suppression` on the instants of a
message retried as soon as it may be. Three services and a command
make each of them winner, loser and latecomer of each file. `queue_settles` has one
worker, since what two do to each other is the other runs' question, and a batch
that takes every message: which of the due rows a smaller one takes is the order of
`next_attempt_at`, which the model leaves open, so that a row might be passed over
for ever. Everything else is
finite by itself. Symmetry is used only where no liveness is checked.

**`ClaimsOutliveSends`.** TRUE says that a claim does not become stale while
its live worker has the message in its batch. The code assumes it
(`worker.py:63`), and does not enforce it: one claim covers ten sends of up to
the SMTP timeout each. The passing runs and the theorems on claims assume it;
`queue_stolen` shows what happens without it. With FALSE in `queue_takeover`,
TLC also finds `TerminalIsFinal` violated (the robbed worker writes over the
status the other recorded) and `NothingStranded` (column-wise writes of the two
leave `sending` without a claim, which no reaper finds).

**Deadlock** is checked but in `identities_jobs`, where the system may stop: the
jobs are done, the domain is ready, and there is nothing to advise.

**Fairness** (`queue_settles`, `identities_jobs`, `startup_racing`). A running
worker or provisioner takes steps (SMTP and HTTP calls have timeouts), a stopped
service is restarted (`restart: unless-stopped`), and maintenance, whose
five-minute timer comes round again and again while the loop iterates, is
strongly fair. The clock is weakly fair: claims age, retries fall due, windows
slide. In `Guidance` the follower, who is by definition somebody who goes on
doing what the page says, is weakly fair, and a sweep of theirs without a failing
lookup is strongly fair: resolvers do not time out on every single one. MXRoute
has its DKIM key for the domain by the first sweep; without one "the domain cannot
reach 'ready'" (`admin.py:180`), and the follower would go round in a circle.
Nothing is assumed of clients, other operators, the registrar or the provider's verdicts.

**Divergences noted without a run**, because the models show them as plain
behaviours:

- A message whose MIME cannot be composed is never settled: it goes round between
  `sending`, the reaper and `queued` for ever, where `worker.py:19` and
  `docs/operations.md:44` say of a claim that its message is "never lost",
  `worker.py:416` gives up after `MAX_ATTEMPTS`, and `jobs.py:223` keeps a job that
  raises from being retried for ever. It takes its batch with it each time, and its
  stamped attempts hold a place in its identity's window. `Endangered` names both,
  and without either of them TLC refutes `EventuallySettled`: a message of the same
  identity is gated for ever (a gate of 1), and a message of any identity that is
  claimed in every batch with it is dropped for ever.
- Interrupted attempts are not capped by `MAX_ATTEMPTS` (`AttemptsAccounted`
  adds the lost outcomes).
- Mail queued before an address is suppressed is still sent to it.
- A repeat under an idempotency key is refused by suppression or domain checks
  that precede the replay lookup (`docs/integration.md:62`;
  `ReplayReturnsOriginal` asks for the original only while policy stands still).
- Two creators of one key name both succeed; only project names are unique.
- `provision_mailbox` decides on the status it read before its call to MXRoute,
  so it may write READY over a `dns_incomplete` that a sweep has committed
  meanwhile, where `provisioning.py:141` says "Only VERIFIED is promoted -- never
  DNS_INCOMPLETE". The next sweep puts it right.
- A rotation whose transaction dies after MXRoute took the password leaves the
  stored one wrong, where `docs/operations.md:79` says a failure leaves the old
  one working at both ends (`CredentialsAgree` exempts what was cut short).
- The loser of the race for a secret file may find it still empty; it refuses
  and is restarted, where `secretstore.py` says the loser "reads the winner's
  value instead".
- A 4xx with the wording of a rejection (450 "mailbox unavailable") is final,
  where `classify.py:143` and `tests/test_phase5.py:105` say that a 4xx is
  retryable by definition. Theorem `SomeDeferralsAreFinal` states it.
- `reap_stale` of provisioning jobs never finds a row: RUNNING is never
  committed.
- `_handle` of the MXRoute client looks for content before it looks at the
  status, so that an error without a body is a success (`Misread`). A rotation
  then stores a password MXRoute never took (`provisioning.py:163` and
  `docs/operations.md:79` say the old one goes on working); a sweep demotes the
  domain to `ownership_pending` and lists only DMARC; an added domain is tracked
  and never registered, which no command repairs (`GuidanceLeads` exempts it).
- `enqueue` allows "One outstanding request per domain per type"
  (`jobs.py:84`), but looks and then inserts: two at once both insert. Nothing
  comes of it (`JobsFinish`).
- No sweep is automatic, where `domains.py:32` and `setup_state.py:80` mention
  one: READY is as fresh as the last sweep somebody requested.
- `had_lookup_errors` counts the advisory DMARC lookup (`dnscheck.py:76`), so a
  READY domain whose MX was proved missing is held while `_dmarc` times out;
  `domains.py:65` says that a *required* check errored.
- The rate gate counts messages by their last attempt, so several attempts of
  one message within the hour count once, where `models.py:388` and
  `ratelimit.py` say that a burst of retries must not sail past the ceiling.
  `GateOvershootBounded` bounds what the gate counts, theorem `AttemptsPerHour`
  how many attempts that may be: five to a message. Theorem `BurstsPassTheGate`
  states that they may.
- A policy rejection (5xx) that also says "user unknown" suppresses the
  recipient, where `bounce.py` says that policy and reputation rejections never
  count. Theorem `SomePolicyRejectionsSuppress` states it.
- `metrics.queue_health` ages only messages that are queued or deferred: with all
  workers down, one left in `sending` shows as healthy, where its module says
  that queue age "catches a dead worker".
- Two operators who provision different addresses of one domain at once both
  find no sibling, and neither is asked to assert a further identity.
- `blocked_senders` has advice for an inactive mailbox, and `next_step` for a
  ready domain without one; no state reaches either.

## 4. What is proved

The theorems hold for any number of workers, messages, calls, projects, keys,
operators, domains, addresses, jobs, faults, visitors, processes and volumes,
for every reply and every sweep.

**Delivery queue** (`DeliveryQueueProofs`).

- `TypeCorrect`: type invariance. `Shape` adds that a worker has a message in
  hand exactly while it delivers one, which is not in its batch as well; types
  alone are not inductive, since a worker writes the row of its message in hand.
- `ClaimsAreHeld`: under `ClaimsOutliveSends`, a message in hand is claimed by
  its worker. The inductive invariant `Claims` is `Shape`, the property itself,
  and that the row a worker read was its own: the ORM writes only columns that
  differ from what was read, so a release needs to have read the claim. The
  reaper is harmless because it takes stale rows only.
- `TerminalStaysFinal`: from the same invariant, the rows an action rewrites are
  in `sending` or on the queue, hence not terminal.
- `NothingIsStranded`, `BodiesReachTheWire`, `DuplicatesAreExplained`,
  `AttemptsAreAccounted` (of messages that can be composed): all from `Claims` and one more
  inductive invariant, the `Ledger` of rows and history. It says of every row
  what the properties say (`RowKept`); of a row no worker has in flight that it
  has an attempt to spare and no unexplained copy (`RowWaiting`); and of a
  worker's task at each step how what it read earlier agrees with the row now
  (`TaskKept`). The properties alone are not inductive: a worker stamps an
  attempt it computed from the row it read, so the count must be carried along
  the way, and a copy taken by the provider is explained only once its outcome
  is recorded or lost.
- `AcceptedWereTaken`: without any assumption on claims. The invariant `Credit`
  says of a message that is recorded as accepted, and of a worker's answer that
  says so, that the provider took it; who holds the claim does not enter into it,
  since nothing records an outcome but the worker that was answered.
- `PromiseKept`: under the same assumption as the claims every step of the queue is a step of
  `MailPromise` or a stutter, with the ledger supplying the guards (what is told
  a client as accepted was taken).
- `RetriesReachSomeone`: an answer that asks for a retry leaves one recipient
  that its outcome does not suppress, whichever way `send` returned. It rests on
  `DeadIsFinal`, and needs `Replies` only to be replies.
- `OvershootIsBounded`: without any assumption on claims. `GateCounted` counts
  the workers that have passed the gate and not yet stamped together with the
  rows in the window: fewer than the ceiling plus the workers. Passing means that
  the window was below the ceiling, and every other worker adds one at most.
- `ShutUntilOpening`, `OpeningExact`: whatever is attempted meanwhile, a shut gate stays shut until
  `next_window_opening`; if nothing is and the budget was not overdrawn, it is
  open then. The oldest attempt in the window exists because every nonempty set
  of naturals has a least element, and everything that was in the window is still
  in it a second before.
- `AttemptsPerHour`, `BurstsPassTheGate`: five answered attempts of one message
  fit in an hour and a sixth does not; with fewer messages than the ceiling, that
  many of each leave the gate open. An attempt whose answer was lost is retried
  by the reaper, without a backoff, and is not bounded by this.

**Classification** (`ClassificationProofs`): `classify` always reaches a verdict;
no reply both declares its address dead and asks for a retry (`DeadIsFinal`);
refusals with unknown wording are retried (`UnrecognisedIsRetried`), and so are
rate limits (`RateLimitIsRetried`). `SuppressedOnTwoGrounds` says exactly what an
address is suppressed for, `OwnFaultsSpareRecipients` that a reply about our own
credentials or sender never does, `SomeDeferralsAreFinal` and
`SomePolicyRejectionsSuppress` where the rules depart from what is said of them.
The rules are compared case by case.

**Submission** (`SubmissionProofs`).

- `KeysNameOneMail`: `Integrity` says that every message with a key has exactly
  its row in `idempotency_keys` and the rows are unique per project and key; an
  insert that collides leaves both alone.
- `AcceptedOnlyIfPermitted`: `Progress` says for each step a call has reached
  which checks are in `fit`, and that the senders it loaded are permitted then.
- `RetriesConverge`: a call that came late finds the row, since rows are never
  deleted, so it does not reach the insert without one.
- `RepeatsGetTheOriginal`: `Original` says that while policy stands still every
  message in the table would be accepted again, and that every call on its way
  stands where such a request must stand.
- `ImplementsIntake`: with `Integrity`, each step of `Submission` maps to a step
  of `IdempotentIntake` or a stutter.

**Domains and identities** (`DnsChecksProofs`, `SenderIdentitiesProofs`,
`GuidanceProofs`).

- `SendableIsPublished`, `DemotionDisproves`, `InOrderIsKept`: about one sweep.
  What lets a domain send was looked up, was demanded and is in the zone; what
  takes it out of READY was looked up and found out of order.
- `FailuresOnlyHold`, `ListedSuffices`: a failed lookup delays what a sweep
  decides and never decides it; the records listed for the operator are all that
  a sweep asks for.
- `ReadyFounded`, `JobsClaimedOnce`, `CredentialsInAgreement`: one inductive
  invariant, `IdentitiesInv`. `Sound` says of each operation under way that the
  tables still bear out what it read (that the domain was tracked, was proven,
  has a mailbox): true because these facts only ever grow (`Grows`), though the
  status itself moves back and forth. `Held` says of an address nobody disturbed
  that at most one operation has set its password without storing it, that the
  account has that password, and that otherwise the row has the account's.
- `DemotionOnEvidence`: only `WriteStatus` takes a domain out of READY, and then
  `DemotionDisproves` applies to the evidence in hand.
- `OutcomesRecordedOnce`: a provisioner has only pending jobs in hand
  (`ClaimsStand`), for nobody else changes a job that is locked.
- `CatalogueImplemented`: every step maps to a step of `SenderCatalogue` or a
  stutter; the guards of the abstract steps come from `IdentitiesInv`.
- `GuidedJobsClaimedOnce`, `GuidedOutcomesStand`, `GuidedCatalogue`: the same of
  `Guidance`. The lemmas on steps are stated for `AnyStep`, which is `Next` with a
  sweep of any zone and any set of failing lookups, so that `SenderIdentities`,
  whose sweeps are those of its instance, and `Guidance`, which sweeps the zone it
  keeps, are both covered by one inductive invariant.
- `AdviceStands`: a step that raises `Rank` writes a status (a sweep) or takes a
  record from the zone. A sweep that read the status that is still there,
  was told everything and disproved nothing keeps it or writes READY or VERIFIED,
  and what it lists is complete (`SweepHolds`); the other writers, `Track` and
  `StoreMailbox`, write nothing that ranks higher than what they find.
- `AdviceLeadsOn`: for each piece of advice, `ListedSuffices` and the table of
  `domain_next_action` give a lower rank. With `AdviceStands`, and since a rank is
  a natural number, this is the safety half of `GuidanceLeads`: what is left to
  TLC is that the follower gets round to following it.

**Keys and pages** (`DashboardProofs`), over any catalogue that keeps
`SenderCatalogue`.

- `ProjectsUnique` (which the unique constraint gives, and no run repeats),
  `AdvicePossible`: `RegistryInv` adds that every key has a
  scope, and every scope a mailbox that is still there.
- `OffersHonoured`, `PageTells`: `PageSound` follows the page through its
  SELECTs. Every key it read is still in the table with its scopes and, unless
  `disturbed`, as it was (`Traced`); every pair it offers would send unless
  `disturbed` (`Backed`), so that a refusal for any reason but the recipient
  finds it disturbed; each snapshot agrees with the table but for what is
  disturbed; and what is shown at the end gives the reason it should.
- `TwinsAreBounded`: `TwinsCounted` counts an operator between the SELECT and the
  INSERT as a key already made. Only creators who found no active key are in
  that place.

**Start-up** (`StartupProofs`): `CredentialsStayReadable`, `IdentityStays`. The
inductive invariant is the type, `OneKey` and `OneIdentity`. `OneKey` says that a
process with a secret has the one in its volume's file, that at most one process
is about to write a file and then it is empty, and that nothing is sealed under a
volume but with what the file holds. `OneIdentity` says that a told identity is
the committed one, and only the process with the uncommitted INSERT can commit
one.

The assumptions are those on the constants (`QueueConstants`,
`SubmissionConstants`, `IdentityConstants`, `CatalogueConstants`,
`RegistryConstants`, `DashboardConstants`, `StartupConstants`), which TLC
evaluates in the runs, and `ClaimsOutliveSends` where stated.

Only model-checked: liveness and everything about fairness (`EventuallySettled`,
`JobsFinish`, `GuidanceLeads`, `StartsUnlessAbandoned`), which with ENABLED is
beyond the prover, as is induction over data. Every invariant and every action
property of the passing runs is proved, and so are the refinements.

## 5. What is not modelled

- State nothing reads: the heartbeat, the event log's contents, send counters,
  `last_used_at`, and `expires_at` of idempotency keys (set, never consulted).
- Branches no state reaches: `SUSPENDED` domains, inactive projects and
  mailboxes (no code sets them), and the replay of a row without a response
  (row and response are inserted together).
- Seconds, in the queue: time is one comparison per row there, so that *when* a
  deferred message falls due is any moment. `RateWindow` has the arithmetic, but
  no clock of its own.
- Queries shown to people and acted on by nobody in the code: `metrics.py`,
  `health.py`, the overview, message and suppression pages. They change no
  state; what is odd in them is listed above.
- `dashboard/auth.py` and `csrf.py`, which compare a request with a secret, and
  `dashboard/forms.py`, whose stash hands a new key from one response to the next
  within one process for two minutes.
- The MXRoute client's own rate limiter and its retries of one call: a call acts
  or not, once, whatever was retried within it.
- An answer of MXRoute without a DKIM key, in a sweep: `DnsChecks` and its theorems
  have the case, and an add that lists the records without it is a step of
  `SenderIdentities` (`AddAnswers`), but no sweep of `Guidance` meets it.
- The SELECTs of `next_step`, which are read one after the other, and the log line
  between `ensure_installation`'s return and its caller's COMMIT: `NextSteps` is
  judged by one state, and `SettleInstallation` is both (a process that dies
  between the two has logged an id that the rollback takes back).
- A provisioner without MXRoute's credentials, which idles: jobs then stay pending
  until it has them, and `JobsFinish` assumes it does.
- Formatting and I/O: what a MIME message consists of, HTTP, logging, templates,
  deployment, migrations.

## 6. Plan

*Done:* the detailed specifications of every component that keeps state, three
abstract specifications with their refinements, two compositions, and the proofs
above. What would come next, in this order:

1. A second address per domain in `identities_racing`, for the policy gate on
   further identities; the theorems already cover it, TLC's instance does not.
2. The gate's window in seconds within the queue, so that the attempts it does
   not see are counted across workers and reaped attempts too.
3. `Submission` over the `SenderCatalogue`, as `Dashboard` is, instead of its own
   `ready` set.

Three hazards in `PROJECT.json` have no property: suppressions added after a
message was accepted (`ingest.py:214`), two operators provisioning different
addresses of one domain (`provisioning.py:84`), and the attempts the gate does not
count (`ratelimit.py:68`), on which there are theorems. The models have these
behaviours.
