-------------------------- MODULE DeliveryQueueProofs --------------------------
(***************************************************************************)
(* What TLAPS proves of DeliveryQueue, for any set of messages, workers    *)
(* and identities and any bounds.                                          *)
(***************************************************************************)
EXTENDS RateWindow, ClassificationProofs, FiniteSetTheorems,
        WellFoundedInduction

-----------------------------------------------------------------------------
(* Type correctness *)

\* The column writers turn rows into rows.
LEMMA RowsStayRows ==
    ASSUME NEW row \in Row, NEW read \in Row, NEW status \in Statuses, NEW w \in Workers
    PROVE  /\ ReleasedColumns(row, read) \in Row
           /\ Settled(row, read, status) \in Row
           /\ Deferred(row, read, status) \in Row
           /\ Completed(row, read, status) \in Row
           /\ \A m \in Messages : Stamped(row, read, m) \in Row
           /\ Claimed(row, w) \in Row
           /\ ReleaseClaim(row) \in Row
           /\ Reaped(row) \in Row
           /\ [row EXCEPT !.purged = TRUE] \in Row
  <1>1. ReleasedColumns(row, read) \in Row
    BY DEF ReleasedColumns, Row
  <1>2. Settled(row, read, status) \in Row
    BY <1>1 DEF Settled, StatusColumn, Row
  <1>3. Deferred(row, read, status) \in Row
    BY <1>2 DEF Deferred, Row
  <1>4. Completed(row, read, status) \in Row
    BY <1>2 DEF Completed, Row
  <1>5. ASSUME NEW m \in Messages PROVE Stamped(row, read, m) \in Row
    <2>1. \A n \in Nat : [row EXCEPT !.attempts = n, !.recent = TRUE] \in Row
      BY DEF Row
    <2>2. AttemptsAfter(m, read) \in Nat
      BY DEF AttemptsAfter, Row
    <2> QED
      BY <2>1, <2>2 DEF Stamped
  <1>6. Claimed(row, w) \in Row
    BY DEF Claimed, Row, Statuses
  <1>7. ReleaseClaim(row) \in Row
    BY DEF ReleaseClaim, Row, Statuses
  <1>8. Reaped(row) \in Row
    BY DEF Reaped, Row, Statuses
  <1>9. [row EXCEPT !.purged = TRUE] \in Row
    BY DEF Row
  <1> QED
    BY <1>1, <1>2, <1>3, <1>4, <1>5, <1>6, <1>7, <1>8, <1>9

\* The tasks a worker can come to carry.
LEMMA TasksStayTasks ==
    ASSUME NEW t \in Task, NEW m \in Messages, NEW row \in Row, NEW g \in BOOLEAN,
           NEW n \in Nat, NEW a \in Answer, NEW k \in SUBSET Addresses
    PROVE  /\ [NoTask EXCEPT !.message = m, !.read = row, !.gated = g] \in Task
           /\ [t EXCEPT !.attempt = n] \in Task
           /\ [t EXCEPT !.answer = a, !.read = row, !.known = k] \in Task
  <1>1. NoRow \in Row
    BY DEF NoRow, Row, Statuses
  <1>2. NoAnswer \in Answer
    BY DEF NoAnswer, Answer
  <1>3. NoTask \in Task
    BY <1>1, <1>2 DEF NoTask, Task
  <1>4. [NoTask EXCEPT !.message = m, !.read = row, !.gated = g] \in Task
    BY <1>3 DEF Task
  <1>5. [t EXCEPT !.attempt = n] \in Task
    BY DEF Task
  <1>6. [t EXCEPT !.answer = a, !.read = row, !.known = k] \in Task
    BY DEF Task
  <1> QED
    BY <1>4, <1>5, <1>6

\* A verdict says whether to retry, and never to when it declares the address dead.
LEMMA Verdicts ==
    ASSUME NEW reply \in Replies \union {NoReply}
    PROVE  /\ Classify(reply).retryable \in BOOLEAN
           /\ ShouldSuppress(reply) => ~Classify(reply).retryable
  <1>1. NoReply \in Reply
    BY DEF NoReply, NoCode, Reply
  <1>2. reply \in Reply
    BY <1>1, QueueConstants
  <1>3. Classify(reply).retryable \in BOOLEAN
    BY <1>2, ClassifyIsTotal, RetryShape, FinalShape
  <1> QED
    BY <1>2, <1>3, DeadIsFinal

\* An answer is one of Answer, and one that asks for a retry leaves somebody alive.
LEMMA AnswersLeaveSomeone ==
    ASSUME NEW m \in Messages, NEW a \in AnswersFor(m)
    PROVE  a \in Answer /\ (a.retryable => a.dead # RecipientsOf[m])
  <1> DEFINE recipients == RecipientsOf[m]
  <1>1. recipients \in SUBSET Addresses /\ recipients # {}
    BY QueueConstants
  <1>2. CASE a \in PartialAnswers(recipients)
    <2>1. PICK refused \in UNION {[some -> Replies] : some \in (SUBSET recipients) \ {recipients}} :
             a = [ok |-> TRUE, retryable |-> FALSE, dead |-> DeadAmong(refused)]
      BY <1>2 DEF PartialAnswers
    <2>2. DeadAmong(refused) \in SUBSET Addresses
      <3>1. PICK some \in SUBSET recipients : refused \in [some -> Replies]
        BY <2>1
      <3> QED
        BY <1>1, <3>1 DEF DeadAmong
    <2> QED
      BY <2>1, <2>2 DEF Answer
  <1>3. CASE a \in RefusalAnswers(recipients)
    <2>1. PICK refused \in [recipients -> Replies], first \in recipients :
             a = [ok |-> FALSE, retryable |-> Classify(refused[first]).retryable,
                  dead |-> DeadAmong(refused)]
      BY <1>3 DEF RefusalAnswers
    <2>2. DeadAmong(refused) \in SUBSET Addresses
      BY <1>1, <2>1 DEF DeadAmong
    <2>3. refused[first] \in Replies \union {NoReply}
      BY <2>1
    <2>4. Classify(refused[first]).retryable \in BOOLEAN
      BY <2>3, Verdicts
    <2>5. Classify(refused[first]).retryable => first \notin DeadAmong(refused)
      BY <2>3, Verdicts DEF DeadAmong
    <2> QED
      BY <2>1, <2>2, <2>4, <2>5 DEF Answer
  <1>4. CASE a \in WholeAnswers(recipients)
    <2>1. PICK reply \in Replies \union {NoReply} :
             a = [ok |-> FALSE, retryable |-> Classify(reply).retryable,
                  dead |-> {r \in recipients : recipients = {r} /\ ShouldSuppress(reply)}]
      BY <1>4 DEF WholeAnswers
    <2>2. Classify(reply).retryable \in BOOLEAN
      BY <2>1, Verdicts
    <2>3. a.dead \in SUBSET Addresses
      BY <1>1, <2>1
    <2>4. a \in Answer
      BY <2>1, <2>2, <2>3 DEF Answer
    <2>5. a.retryable => a.dead = {}
      BY <2>1, Verdicts
    <2> QED
      BY <1>1, <2>4, <2>5
  <1> QED
    BY <1>2, <1>3, <1>4 DEF AnswersFor

LEMMA ConstantRecords ==
    /\ NoRow \in Row
    /\ NoTask \in Task
    /\ \A m \in Messages : \A a \in AnswersFor(m) : a \in Answer
  <1>1. NoRow \in Row
    BY DEF NoRow, Row, Statuses
  <1>2. NoAnswer \in Answer
    BY DEF NoAnswer, Answer
  <1>3. NoTask \in Task
    BY <1>1, <1>2 DEF NoTask, Task
  <1>4. \A m \in Messages : \A a \in AnswersFor(m) : a \in Answer
    BY AnswersLeaveSomeone
  <1> QED
    BY <1>1, <1>3, <1>4

\* A worker has a message in hand exactly while it delivers one, that message is
\* no longer in its batch, and it has a batch only while it serves one.
TaskShape ==
    \A w \in Workers :
        /\ pc[w] \in {"loaded", "wire", "recording"} <=> task[w].message # NoMessage
        /\ task[w].message \notin batch[w]
        /\ pc[w] \in {"down", "idle", "polling"} => batch[w] = {}

Shape == TypeOK /\ TaskShape

LEMMA ShapeInit == Init => Shape
  <1> SUFFICES ASSUME Init PROVE Shape
    OBVIOUS
  <1>1. TypeOK
    BY ConstantRecords DEF Init, TypeOK, Places
  <1>2. TaskShape
    BY DEF Init, TaskShape, NoTask
  <1> QED
    BY <1>1, <1>2 DEF Shape

\* Writing a row of Row into the table, or a task of Task into a slot.
LEMMA ShapeConclude ==
    ASSUME Shape, NEW w \in Workers, NEW row \in Row, Conclude(w, row),
           pc[w] \in {"loaded", "wire", "recording"},
           suppressed' \in SUBSET Addresses,
           UNCHANGED <<batch, stopping, hist, interruptions, operatorActs>>
    PROVE  Shape'
  <1>1. task[w].message \in Messages
    BY DEF Shape, TypeOK, TaskShape, Task
  <1>2. TypeOK'
    <2>1. msgs' \in [Messages -> Row]
      BY <1>1 DEF Conclude, Shape, TypeOK
    <2>2. pc' \in [Workers -> Places]
      BY DEF Conclude, Shape, TypeOK, Places
    <2>3. task' \in [Workers -> Task]
      BY ConstantRecords DEF Conclude, Shape, TypeOK
    <2> QED
      BY <2>1, <2>2, <2>3 DEF Shape, TypeOK
  <1>3. TaskShape'
    <2> SUFFICES ASSUME NEW v \in Workers
                 PROVE  /\ pc'[v] \in {"loaded", "wire", "recording"} <=> task'[v].message # NoMessage
                        /\ task'[v].message \notin batch'[v]
                        /\ pc'[v] \in {"down", "idle", "polling"} => batch'[v] = {}
      BY DEF TaskShape
    <2>1. CASE v = w
      BY <2>1, QueueConstants DEF Conclude, Shape, TypeOK, TaskShape, NoTask
    <2>2. CASE v # w
      BY <2>2 DEF Conclude, Shape, TypeOK, TaskShape
    <2> QED
      BY <2>1, <2>2
  <1> QED
    BY <1>2, <1>3 DEF Shape

\* One more outcome lost.
LEMMA HistoryGrows ==
    ASSUME NEW h \in [taken : Nat, silent : Nat, unrecorded : Nat]
    PROVE  [h EXCEPT !.unrecorded = @ + 1] \in [taken : Nat, silent : Nat, unrecorded : Nat]
  <1>1. \A n \in Nat :
           [h EXCEPT !.unrecorded = n] \in [taken : Nat, silent : Nat, unrecorded : Nat]
    OBVIOUS
  <1>2. h.unrecorded + 1 \in Nat
    OBVIOUS
  <1> QED
    BY <1>1, <1>2

\* Abandoning a delivery leaves a history a history.
LEMMA ShapeAbandon ==
    ASSUME Shape, NEW w \in Workers, Abandon(w)
    PROVE  hist' \in [Messages -> [taken : Nat, silent : Nat, unrecorded : Nat]]
  <1>1. CASE pc[w] \in {"wire", "recording"}
    <2>1. task[w].message \in Messages
      BY <1>1 DEF Shape, TypeOK, TaskShape, Task
    <2>2. [hist[task[w].message] EXCEPT !.unrecorded = @ + 1]
             \in [taken : Nat, silent : Nat, unrecorded : Nat]
      <3>1. hist[task[w].message] \in [taken : Nat, silent : Nat, unrecorded : Nat]
        BY <2>1 DEF Shape, TypeOK
      <3> QED
        BY <3>1, HistoryGrows
    <2> QED
      BY <1>1, <2>1, <2>2 DEF Abandon, OutcomeLost, Shape, TypeOK
  <1>2. CASE pc[w] \notin {"wire", "recording"}
    BY <1>2 DEF Abandon, Shape, TypeOK
  <1> QED
    BY <1>1, <1>2

LEMMA ShapeStep == Shape /\ [Next]_vars => Shape'
  <1> SUFFICES ASSUME Shape, [Next]_vars PROVE Shape'
    OBVIOUS
  <1> USE QueueConstants
  <1>1. ASSUME NEW m \in Messages, Accept(m) PROVE Shape'
    <2>1. [NoRow EXCEPT !.status = "queued", !.due = TRUE] \in Row
      BY ConstantRecords DEF Row, Statuses
    <2>2. TypeOK'
      BY <1>1, <2>1 DEF Accept, Shape, TypeOK, local, bounds
    <2>3. TaskShape'
      BY <1>1 DEF Accept, Shape, TaskShape, local
    <2> QED
      BY <2>2, <2>3 DEF Shape
  <1>2. ASSUME NEW a \in Addresses, AddSuppression(a) PROVE Shape'
    <2>1. TypeOK'
      BY <1>2 DEF AddSuppression, Shape, TypeOK, db, local, bounds, Places
    <2>2. TaskShape'
      BY <1>2 DEF AddSuppression, Shape, TypeOK, TaskShape, db, local, bounds
    <2> QED
      BY <2>1, <2>2 DEF Shape
  <1>3. ASSUME NEW a \in Addresses, RemoveSuppression(a) PROVE Shape'
    <2>1. TypeOK'
      BY <1>3 DEF RemoveSuppression, Shape, TypeOK, db, local, bounds, Places
    <2>2. TaskShape'
      BY <1>3 DEF RemoveSuppression, Shape, TypeOK, TaskShape, db, local, bounds
    <2> QED
      BY <2>1, <2>2 DEF Shape
  <1>4. ASSUME NEW w \in Workers, Iterate(w) PROVE Shape'
    <2>1. TypeOK'
      BY <1>4 DEF Iterate, Shape, TypeOK, db, local, bounds, Places
    <2>2. TaskShape'
      BY <1>4 DEF Iterate, Shape, TypeOK, TaskShape, db, local, bounds
    <2> QED
      BY <2>1, <2>2 DEF Shape
  <1>5. ASSUME NEW w \in Workers, Maintenance(w) PROVE Shape'
    <2>1. PICK expired \in SUBSET Messages :
            msgs' = [m \in Messages |->
                       LET row == IF Reapable(msgs[m]) THEN Reaped(msgs[m]) ELSE msgs[m]
                       IN  IF m \in expired THEN [row EXCEPT !.purged = TRUE] ELSE row]
      BY <1>5 DEF Maintenance
    <2>2. ASSUME NEW m \in Messages PROVE msgs'[m] \in Row
      <3>1. msgs[m] \in Row /\ Reaped(msgs[m]) \in Row
        BY RowsStayRows DEF Shape, TypeOK, Row
      <3> QED
        BY <2>1, <3>1 DEF Row
    <2>3. msgs' \in [Messages -> Row]
      BY <2>1, <2>2
    <2>4. TypeOK'
      BY <1>5, <2>3 DEF Maintenance, Shape, TypeOK, Places, bounds
    <2>5. TaskShape'
      BY <1>5 DEF Maintenance, Shape, TypeOK, TaskShape
    <2> QED
      BY <2>4, <2>5 DEF Shape
  <1>6. ASSUME NEW w \in Workers, ClaimMessages(w) PROVE Shape'
    <2>1. PICK ids \in SUBSET Messages :
            /\ batch' = [batch EXCEPT ![w] = ids]
            /\ msgs' = [m \in Messages |->
                          IF m \in ids THEN Claimed(msgs[m], w) ELSE msgs[m]]
      BY <1>6 DEF ClaimMessages
    <2>2. ASSUME NEW m \in Messages PROVE Claimed(msgs[m], w) \in Row /\ msgs[m] \in Row
      BY RowsStayRows DEF Shape, TypeOK, Row
    <2>3. msgs' \in [Messages -> Row]
      BY <2>1, <2>2
    <2>4. TypeOK'
      BY <1>6, <2>1, <2>3 DEF ClaimMessages, Shape, TypeOK, Places, bounds
    <2>5. TaskShape'
      BY <1>6, <2>1 DEF ClaimMessages, Shape, TypeOK, TaskShape
    <2> QED
      BY <2>4, <2>5 DEF Shape
  <1>7. ASSUME NEW w \in Workers, NothingToClaim(w) PROVE Shape'
    <2>1. TypeOK'
      BY <1>7 DEF NothingToClaim, Shape, TypeOK, db, local, bounds, Places
    <2>2. TaskShape'
      BY <1>7 DEF NothingToClaim, Shape, TypeOK, TaskShape, db, local, bounds
    <2> QED
      BY <2>1, <2>2 DEF Shape
  <1>8. ASSUME NEW w \in Workers, FinishBatch(w) PROVE Shape'
    <2>1. TypeOK'
      BY <1>8 DEF FinishBatch, Shape, TypeOK, db, local, bounds, Places
    <2>2. TaskShape'
      BY <1>8 DEF FinishBatch, Shape, TypeOK, TaskShape, db, local, bounds
    <2> QED
      BY <2>1, <2>2 DEF Shape
  <1>9. ASSUME NEW w \in Workers, Stop(w) PROVE Shape'
    <2>1. TypeOK'
      BY <1>9 DEF Stop, Shape, TypeOK, db, local, bounds, Places
    <2>2. TaskShape'
      BY <1>9 DEF Stop, Shape, TypeOK, TaskShape, db, local, bounds
    <2> QED
      BY <2>1, <2>2 DEF Shape
  <1>10. ASSUME NEW w \in Workers, NEW m \in Messages, ReleaseUnserved(w, m) PROVE Shape'
    <2>1. ReleaseClaim(msgs[m]) \in Row
      BY RowsStayRows DEF Shape, TypeOK, Row
    <2>2. TypeOK'
      BY <1>10, <2>1 DEF ReleaseUnserved, Shape, TypeOK, bounds
    <2>3. TaskShape'
      BY <1>10 DEF ReleaseUnserved, Shape, TypeOK, TaskShape
    <2> QED
      BY <2>2, <2>3 DEF Shape
  <1>11. ASSUME NEW w \in Workers, NEW m \in Messages, LoadMessage(w, m) PROVE Shape'
    <2>1. msgs[m] \in Row
      BY DEF Shape, TypeOK
    <2>2. [NoTask EXCEPT !.message = m, !.read = msgs[m], !.gated = Exhausted(m)] \in Task
      <3>1. Exhausted(m) \in BOOLEAN
        BY DEF Exhausted
      <3> QED
        BY <2>1, <3>1, ConstantRecords DEF Task
    <2>3. TypeOK'
      BY <1>11, <2>2 DEF LoadMessage, Shape, TypeOK, Places, db, bounds
    <2>4. TaskShape'
      BY <1>11 DEF LoadMessage, Shape, TypeOK, TaskShape, NoTask
    <2> QED
      BY <2>3, <2>4 DEF Shape
  <1>12. ASSUME NEW w \in Workers, RateGated(w) PROVE Shape'
    <2>1. task[w].message \in Messages /\ task[w] \in Task /\ pc[w] \in {"loaded", "wire", "recording"}
      BY <1>12 DEF RateGated, Shape, TypeOK, TaskShape, Task
    <2>2. msgs[task[w].message] \in Row /\ task[w].read \in Row
      BY <2>1 DEF Shape, TypeOK, Task
    <2>3. Deferred(msgs[task[w].message], task[w].read, "queued") \in Row
      BY <2>2, RowsStayRows DEF Statuses
    <2> QED
      BY <1>12, <2>1, <2>3, ShapeConclude DEF RateGated, Shape, TypeOK, bounds
  <1>13. ASSUME NEW w \in Workers, FailWithoutHost(w) PROVE Shape'
    <2>1. task[w].message \in Messages /\ task[w] \in Task /\ pc[w] \in {"loaded", "wire", "recording"}
      BY <1>13 DEF FailWithoutHost, Shape, TypeOK, TaskShape, Task
    <2>2. msgs[task[w].message] \in Row /\ task[w].read \in Row
      BY <2>1 DEF Shape, TypeOK, Task
    <2>3. Completed(msgs[task[w].message], task[w].read, "permanently_rejected") \in Row
      BY <2>2, RowsStayRows DEF Statuses
    <2> QED
      BY <1>13, <2>1, <2>3, ShapeConclude DEF FailWithoutHost, Shape, TypeOK, bounds
  <1>14. ASSUME NEW w \in Workers, StampAttempt(w) PROVE Shape'
    <2>1. task[w].message \in Messages /\ task[w] \in Task
      BY <1>14 DEF StampAttempt, Shape, TypeOK, TaskShape, Task
    <2>2. msgs[task[w].message] \in Row /\ task[w].read \in Row
      BY <2>1 DEF Shape, TypeOK, Task
    <2>3. Stamped(msgs[task[w].message], task[w].read, task[w].message) \in Row
      BY <2>1, <2>2, RowsStayRows DEF Row
    <2> DEFINE n == AttemptsAfter(task[w].message, task[w].read)
    <2>4. n \in Nat
      BY <2>2 DEF AttemptsAfter, Row
    <2> HIDE DEF n
    <2>5. [task[w] EXCEPT !.attempt = n] \in Task
      BY <2>1, <2>4 DEF Task
    <2>6. task' = [task EXCEPT ![w] = [task[w] EXCEPT !.attempt = n]]
      BY <1>14 DEF StampAttempt, Shape, TypeOK, n
    <2>7. TypeOK'
      BY <1>14, <2>1, <2>3, <2>5, <2>6 DEF StampAttempt, Shape, TypeOK, Places, bounds
    <2>8. TaskShape'
      BY <1>14, <2>1, <2>6 DEF StampAttempt, Shape, TypeOK, TaskShape, Task
    <2> QED
      BY <2>7, <2>8 DEF Shape
  <1>15. ASSUME NEW w \in Workers, ProviderAnswers(w) PROVE Shape'
    <2> DEFINE m == task[w].message
    <2>1. m \in Messages /\ task[w] \in Task /\ msgs[m] \in Row
      BY <1>15 DEF ProviderAnswers, Shape, TypeOK, TaskShape, Task
    <2>2. PICK a \in AnswersFor(m), silent \in BOOLEAN :
            /\ task' = [task EXCEPT ![w] =
                         [@ EXCEPT !.answer = a, !.read = msgs[m],
                                   !.known = suppressed \intersect a.dead]]
            /\ hist' = [hist EXCEPT ![m] = Witnessed(@, a.ok, silent)]
      BY <1>15 DEF ProviderAnswers
    <2>3. a \in Answer
      BY <2>1, ConstantRecords
    <2>4. [task[w] EXCEPT !.answer = a, !.read = msgs[m],
                          !.known = suppressed \intersect a.dead] \in Task
      <3>1. suppressed \intersect a.dead \in SUBSET Addresses
        BY DEF Shape, TypeOK
      <3> QED
        BY <2>1, <2>3, <3>1 DEF Task
    <2>5. Witnessed(hist[m], a.ok, silent) \in [taken : Nat, silent : Nat, unrecorded : Nat]
      BY <2>1 DEF Witnessed, Shape, TypeOK
    <2>6. TypeOK'
      BY <1>15, <2>1, <2>2, <2>4, <2>5 DEF ProviderAnswers, Shape, TypeOK, Places, db, bounds
    <2>7. TaskShape'
      BY <1>15, <2>1, <2>2 DEF ProviderAnswers, Shape, TypeOK, TaskShape, Task
    <2> QED
      BY <2>6, <2>7 DEF Shape
  <1>16. ASSUME NEW w \in Workers, RecordOutcome(w) PROVE Shape'
    <2>1. task[w].message \in Messages /\ task[w] \in Task /\ pc[w] \in {"loaded", "wire", "recording"}
      BY <1>16 DEF RecordOutcome, Shape, TypeOK, TaskShape, Task
    <2>2. msgs[task[w].message] \in Row /\ task[w].read \in Row
      BY <2>1 DEF Shape, TypeOK, Task
    <2>3. Outcome(msgs[task[w].message], task[w]) \in Row
      <3>1. Completed(msgs[task[w].message], task[w].read, "accepted_by_provider") \in Row
        BY <2>2, RowsStayRows DEF Statuses
      <3>2. Completed(msgs[task[w].message], task[w].read, "permanently_rejected") \in Row
        BY <2>2, RowsStayRows DEF Statuses
      <3>3. Deferred(msgs[task[w].message], task[w].read, "temporarily_failed") \in Row
        BY <2>2, RowsStayRows DEF Statuses
      <3> QED
        BY <3>1, <3>2, <3>3 DEF Outcome
    <2>4. suppressed' \in SUBSET Addresses
      BY <1>16, <2>1 DEF RecordOutcome, Shape, TypeOK, Task, Answer
    <2> QED
      BY <1>16, <2>1, <2>3, ShapeConclude, <2>4 DEF RecordOutcome, bounds
  <1>17. ASSUME NEW w \in Workers, LoseOutcome(w) PROVE Shape'
    <2>1. task[w].message \in Messages
      BY <1>17 DEF LoseOutcome, Shape, TypeOK, TaskShape, Task
    <2>2. [hist[task[w].message] EXCEPT !.unrecorded = @ + 1]
             \in [taken : Nat, silent : Nat, unrecorded : Nat]
      <3>1. hist[task[w].message] \in [taken : Nat, silent : Nat, unrecorded : Nat]
        BY <2>1 DEF Shape, TypeOK
      <3> QED
        BY <3>1, HistoryGrows
    <2>3. hist' \in [Messages -> [taken : Nat, silent : Nat, unrecorded : Nat]]
      BY <1>17, <2>1, <2>2 DEF LoseOutcome, OutcomeLost, Shape, TypeOK
    <2>4. TypeOK'
      BY <1>17, <2>3, ConstantRecords DEF LoseOutcome, Shape, TypeOK, Places, db, bounds
    <2>5. TaskShape'
      BY <1>17 DEF LoseOutcome, Shape, TypeOK, TaskShape, NoTask
    <2> QED
      BY <2>4, <2>5 DEF Shape
  <1>18. ASSUME NEW w \in Workers, RequestShutdown(w) PROVE Shape'
    <2>1. TypeOK'
      BY <1>18 DEF RequestShutdown, Interrupt, Shape, TypeOK, db, local, bounds, Places
    <2>2. TaskShape'
      BY <1>18 DEF RequestShutdown, Interrupt, Shape, TypeOK, TaskShape, db, local, bounds
    <2> QED
      BY <2>1, <2>2 DEF Shape
  <1>19. ASSUME NEW w \in Workers, UnexpectedError(w) PROVE Shape'
    <2>1. hist' \in [Messages -> [taken : Nat, silent : Nat, unrecorded : Nat]]
      BY <1>19, ShapeAbandon DEF UnexpectedError
    <2>2. TypeOK'
      BY <1>19, <2>1, ConstantRecords DEF UnexpectedError, Abandon, Interrupt, Shape, TypeOK, Places, db, bounds
    <2>3. TaskShape'
      BY <1>19 DEF UnexpectedError, Abandon, Shape, TypeOK, TaskShape, NoTask
    <2> QED
      BY <2>2, <2>3 DEF Shape
  <1>20. ASSUME NEW w \in Workers, Crash(w) PROVE Shape'
    <2>1. hist' \in [Messages -> [taken : Nat, silent : Nat, unrecorded : Nat]]
      BY <1>20, ShapeAbandon DEF Crash
    <2>2. TypeOK'
      BY <1>20, <2>1, ConstantRecords DEF Crash, Abandon, Interrupt, Shape, TypeOK, Places, db, bounds
    <2>3. TaskShape'
      BY <1>20 DEF Crash, Abandon, Shape, TypeOK, TaskShape, NoTask
    <2> QED
      BY <2>2, <2>3 DEF Shape
  <1>21. ASSUME NEW w \in Workers, Restart(w) PROVE Shape'
    <2>1. TypeOK'
      BY <1>21 DEF Restart, Shape, TypeOK, db, local, bounds, Places
    <2>2. TaskShape'
      BY <1>21 DEF Restart, Shape, TypeOK, TaskShape, db, local, bounds
    <2> QED
      BY <2>1, <2>2 DEF Shape
  <1>22. ASSUME NEW m \in Messages, ClaimAges(m) PROVE Shape'
    <2>1. [msgs[m] EXCEPT !.stale = TRUE] \in Row
      <3>1. msgs[m] \in Row
        BY DEF Shape, TypeOK
      <3> QED
        BY <3>1 DEF Row
    <2>2. TypeOK'
      BY <1>22, <2>1 DEF ClaimAges, Shape, TypeOK, local, bounds
    <2>3. TaskShape'
      BY <1>22 DEF ClaimAges, Shape, TaskShape, local
    <2> QED
      BY <2>2, <2>3 DEF Shape
  <1>23. ASSUME NEW m \in Messages, BecomesDue(m) PROVE Shape'
    <2>1. [msgs[m] EXCEPT !.due = TRUE] \in Row
      <3>1. msgs[m] \in Row
        BY DEF Shape, TypeOK
      <3> QED
        BY <3>1 DEF Row
    <2>2. TypeOK'
      BY <1>23, <2>1 DEF BecomesDue, Shape, TypeOK, local, bounds
    <2>3. TaskShape'
      BY <1>23 DEF BecomesDue, Shape, TaskShape, local
    <2> QED
      BY <2>2, <2>3 DEF Shape
  <1>24. ASSUME NEW m \in Messages, WindowSlides(m) PROVE Shape'
    <2>1. [msgs[m] EXCEPT !.recent = FALSE] \in Row
      <3>1. msgs[m] \in Row
        BY DEF Shape, TypeOK
      <3> QED
        BY <3>1 DEF Row
    <2>2. TypeOK'
      BY <1>24, <2>1 DEF WindowSlides, Shape, TypeOK, local, bounds
    <2>3. TaskShape'
      BY <1>24 DEF WindowSlides, Shape, TaskShape, local
    <2> QED
      BY <2>2, <2>3 DEF Shape
  <1>25. CASE UNCHANGED vars
    <2>1. TypeOK'
      BY <1>25 DEF vars, db, local, bounds, Shape, TypeOK
    <2>2. TaskShape'
      BY <1>25 DEF vars, local, Shape, TaskShape
    <2> QED
      BY <2>1, <2>2 DEF Shape
  <1>26. ASSUME NEW w \in Workers, DeliveryRaises(w) PROVE Shape'
    <2>1. TypeOK'
      BY <1>26, ConstantRecords DEF DeliveryRaises, Shape, TypeOK, Places, db, bounds
    <2>2. TaskShape'
      BY <1>26 DEF DeliveryRaises, Shape, TypeOK, TaskShape, NoTask
    <2> QED
      BY <2>1, <2>2 DEF Shape
  <1> QED
    BY <1>1, <1>2, <1>3, <1>4, <1>5, <1>6, <1>7, <1>8, <1>9, <1>10, <1>11, <1>12, <1>13, <1>14, <1>15, <1>16, <1>17, <1>18, <1>19, <1>20, <1>21, <1>22, <1>23, <1>24, <1>25, <1>26 DEF Next, WorkerStep, Clock

\* Every variable of the queue keeps its type, however the workers interleave.
THEOREM TypeCorrect == Spec => []TypeOK
  <1>1. Init => Shape
    BY ShapeInit
  <1>2. Shape /\ [Next]_vars => Shape'
    BY ShapeStep
  <1>3. Shape => TypeOK
    BY DEF Shape
  <1> QED
    BY <1>1, <1>2, <1>3, PTL DEF Spec

-----------------------------------------------------------------------------
(* Claims, while no live worker outlasts its own *)

\* What a delivery transaction read is still a row claimed by this worker, so
\* every column it means to write it does write.
ReadOwned ==
    \A w \in Workers :
        pc[w] \in {"loaded", "wire", "recording"} =>
            task[w].read.status = "sending" /\ task[w].read.claimedBy = w

\* The inductive strengthening of ClaimHeld.
Claims == Shape /\ ClaimHeld /\ ReadOwned

\* A message is held by at most one worker.
LEMMA HeldByOne ==
    ASSUME Claims, NEW v \in Workers, NEW w \in Workers, NEW m \in Messages,
           m \in Held(v), m \in Held(w)
    PROVE  v = w
  BY DEF Claims, ClaimHeld, Owns

\* The message in hand is a message and is held.
LEMMA InHand ==
    ASSUME Claims, NEW w \in Workers, pc[w] \in {"loaded", "wire", "recording"}
    PROVE  /\ task[w].message \in Messages
           /\ task[w].message \in Held(w)
           /\ Owns(w, task[w].message)
           /\ task[w].read.status = "sending" /\ task[w].read.claimedBy = w
           /\ task[w] \in Task
  <1>1. task[w].message \in Messages /\ task[w].message # NoMessage /\ task[w] \in Task
    BY DEF Claims, Shape, TypeOK, TaskShape, Task
  <1>2. task[w].message \in Held(w)
    BY <1>1 DEF Held
  <1> QED
    BY <1>1, <1>2 DEF Claims, ClaimHeld, ReadOwned

LEMMA HeldAreMessages ==
    ASSUME Shape, NEW w \in Workers
    PROVE  Held(w) \subseteq Messages
  BY DEF Held, Shape, TypeOK, Task

\* A step that takes on nothing new and leaves alone the claims of what is still
\* held keeps ClaimHeld.
LEMMA ClaimHeldKept ==
    ASSUME Claims,
           \A w \in Workers : Held(w)' \subseteq Held(w),
           \A w \in Workers : \A m \in Held(w)' :
               /\ msgs'[m].status = msgs[m].status
               /\ msgs'[m].claimedBy = msgs[m].claimedBy
               /\ msgs'[m].stale = msgs[m].stale
    PROVE  ClaimHeld'
  BY DEF Claims, ClaimHeld, Owns

\* A settled row is no longer the worker's.
LEMMA ConcludeClaims ==
    ASSUME Claims, NEW w \in Workers, NEW row, Conclude(w, row), batch' = batch,
           pc[w] \in {"loaded", "wire", "recording"}
    PROVE  ClaimHeld' /\ ReadOwned'
  <1> DEFINE mine == task[w].message
  <1>1. mine \in Held(w) /\ mine \in Messages
    BY InHand
  <1>2. Held(w)' = Held(w) \ {mine}
    <2>1. task'[w] = NoTask /\ batch'[w] = batch[w]
      BY DEF Conclude, Claims, Shape, TypeOK
    <2>2. mine \notin batch[w]
      BY DEF Claims, Shape, TaskShape
    <2>3. mine # NoMessage
      BY <1>1, QueueConstants
    <2> QED
      BY <2>1, <2>2, <2>3 DEF Held, NoTask
  <1>3. ASSUME NEW v \in Workers, v # w PROVE Held(v)' = Held(v) /\ mine \notin Held(v)
    <2>1. Held(v)' = Held(v)
      BY <1>3 DEF Conclude, Held, Claims, Shape, TypeOK
    <2> QED
      BY <2>1, <1>1, <1>3, HeldByOne
  <1>4. \A v \in Workers : Held(v)' \subseteq Held(v) /\ mine \notin Held(v)'
    BY <1>2, <1>3
  <1>5. \A v \in Workers : \A m \in Held(v)' : msgs'[m] = msgs[m]
    BY <1>4, HeldAreMessages DEF Conclude, Claims, Shape, TypeOK
  <1>6. ClaimHeld'
    BY <1>4, <1>5, ClaimHeldKept
  <1>7. ReadOwned'
    BY DEF ReadOwned, Conclude, Claims, Shape, TypeOK
  <1> QED
    BY <1>6, <1>7

\* Dropping everything in hand leaves the claims of the others alone.
LEMMA DropClaims ==
    ASSUME Claims, NEW w \in Workers, NEW place \in {"serving", "idle", "down"},
           msgs' = msgs, pc' = [pc EXCEPT ![w] = place],
           task' = [task EXCEPT ![w] = NoTask],
           \A v \in Workers : batch'[v] \subseteq batch[v]
    PROVE  ClaimHeld' /\ ReadOwned'
  <1>1. \A v \in Workers : Held(v)' \subseteq Held(v)
    BY DEF Held, NoTask, Claims, Shape, TypeOK
  <1>2. ClaimHeld'
    BY <1>1, ClaimHeldKept
  <1>3. ReadOwned'
    BY DEF ReadOwned, Claims, Shape, TypeOK
  <1> QED
    BY <1>2, <1>3

\* Every step keeps the claims, as long as only an abandoned claim grows old.
LEMMA ClaimsStep == ClaimsOutliveSends /\ Claims /\ [Next]_vars => Claims'
  <1> SUFFICES ASSUME ClaimsOutliveSends, Claims, [Next]_vars PROVE Claims'
    OBVIOUS
  <1> USE QueueConstants
  <1>1. ASSUME NEW m \in Messages, Accept(m) PROVE ClaimHeld' /\ ReadOwned'
    <2>1. \A v \in Workers : Held(v)' = Held(v)
      BY <1>1 DEF Accept, Held, local
    <2>2. \A v \in Workers : m \notin Held(v)
      BY <1>1 DEF Accept, Claims, ClaimHeld, Owns
    <2>3. \A v \in Workers : \A x \in Held(v)' : msgs'[x] = msgs[x]
      BY <1>1, <2>1, <2>2, HeldAreMessages DEF Accept, Claims, Shape, TypeOK
    <2>4. ClaimHeld'
      BY <2>1, <2>3, ClaimHeldKept
    <2>5. ReadOwned'
      BY <1>1 DEF Accept, local, Claims, ReadOwned
    <2> QED
      BY <2>4, <2>5
  <1>2. ASSUME NEW a \in Addresses, AddSuppression(a) PROVE ClaimHeld' /\ ReadOwned'
    <2>1. \A v \in Workers : Held(v)' \subseteq Held(v)
      BY <1>2 DEF AddSuppression, Held, local
    <2>2. ClaimHeld'
      BY <1>2, <2>1, ClaimHeldKept DEF AddSuppression, db
    <2>3. ReadOwned'
      BY <1>2 DEF AddSuppression, Claims, Shape, TypeOK, ReadOwned, local
    <2> QED
      BY <2>2, <2>3
  <1>3. ASSUME NEW a \in Addresses, RemoveSuppression(a) PROVE ClaimHeld' /\ ReadOwned'
    <2>1. \A v \in Workers : Held(v)' \subseteq Held(v)
      BY <1>3 DEF RemoveSuppression, Held, local
    <2>2. ClaimHeld'
      BY <1>3, <2>1, ClaimHeldKept DEF RemoveSuppression, db
    <2>3. ReadOwned'
      BY <1>3 DEF RemoveSuppression, Claims, Shape, TypeOK, ReadOwned, local
    <2> QED
      BY <2>2, <2>3
  <1>4. ASSUME NEW w \in Workers, Iterate(w) PROVE ClaimHeld' /\ ReadOwned'
    <2>1. \A v \in Workers : Held(v)' \subseteq Held(v)
      BY <1>4 DEF Iterate, Held, local
    <2>2. ClaimHeld'
      BY <1>4, <2>1, ClaimHeldKept DEF Iterate, db
    <2>3. ReadOwned'
      BY <1>4 DEF Iterate, Claims, Shape, TypeOK, ReadOwned, local
    <2> QED
      BY <2>2, <2>3
  <1>5. ASSUME NEW w \in Workers, Maintenance(w) PROVE ClaimHeld' /\ ReadOwned'
    <2>1. PICK expired \in SUBSET Messages :
            msgs' = [m \in Messages |->
                       LET row == IF Reapable(msgs[m]) THEN Reaped(msgs[m]) ELSE msgs[m]
                       IN  IF m \in expired THEN [row EXCEPT !.purged = TRUE] ELSE row]
      BY <1>5 DEF Maintenance
    <2>2. \A v \in Workers : Held(v)' = Held(v)
      BY <1>5 DEF Maintenance, Held
    <2>3. ASSUME NEW v \in Workers, NEW m \in Held(v)'
          PROVE  /\ msgs'[m].status = msgs[m].status
                 /\ msgs'[m].claimedBy = msgs[m].claimedBy
                 /\ msgs'[m].stale = msgs[m].stale
      <3>1. m \in Messages /\ ~Reapable(msgs[m]) /\ msgs[m] \in Row
        BY <2>2, <2>3, HeldAreMessages DEF Claims, ClaimHeld, Owns, Reapable, Shape, TypeOK
      <3>2. msgs'[m] = IF m \in expired THEN [msgs[m] EXCEPT !.purged = TRUE] ELSE msgs[m]
        BY <2>1, <3>1
      <3> QED
        BY <3>1, <3>2 DEF Row
    <2>4. ClaimHeld'
      BY <2>2, <2>3, ClaimHeldKept
    <2>5. ReadOwned'
      BY <1>5 DEF Maintenance, Claims, Shape, TypeOK, ReadOwned
    <2> QED
      BY <2>4, <2>5
  <1>6. ASSUME NEW w \in Workers, ClaimMessages(w) PROVE ClaimHeld' /\ ReadOwned'
    <2>1. PICK ids \in SUBSET {m \in Messages : Claimable(m)} :
            /\ batch' = [batch EXCEPT ![w] = ids]
            /\ msgs' = [m \in Messages |->
                          IF m \in ids THEN Claimed(msgs[m], w) ELSE msgs[m]]
      BY <1>6 DEF ClaimMessages
    <2>2. task[w].message = NoMessage /\ task' = task
      BY <1>6 DEF ClaimMessages, Claims, Shape, TaskShape
    <2>3. ASSUME NEW v \in Workers, NEW m \in Held(v)' PROVE Owns(v, m)'
      <3>1. CASE v = w
        <4>1. m \in ids
          BY <2>1, <2>2, <2>3, <3>1 DEF Held, Claims, Shape, TypeOK
        <4>2. msgs'[m] = Claimed(msgs[m], w) /\ msgs[m] \in Row
          BY <2>1, <4>1 DEF Claims, Shape, TypeOK
        <4> QED
          BY <3>1, <4>2 DEF Claimed, Row, Owns
      <3>2. CASE v # w
        <4>1. m \in Held(v) /\ m \in Messages
          BY <2>1, <2>2, <2>3, <3>2, HeldAreMessages DEF Held, Claims, Shape, TypeOK
        <4>2. ~Claimable(m)
          BY <4>1 DEF Claims, ClaimHeld, Owns, Claimable
        <4>3. msgs'[m] = msgs[m]
          BY <2>1, <4>1, <4>2
        <4> QED
          BY <4>1, <4>3 DEF Claims, ClaimHeld, Owns
      <3> QED
        BY <3>1, <3>2
    <2>4. ReadOwned'
      BY <1>6, <2>2 DEF ClaimMessages, Claims, Shape, TypeOK, ReadOwned
    <2> QED
      BY <2>3, <2>4 DEF ClaimHeld
  <1>7. ASSUME NEW w \in Workers, NothingToClaim(w) PROVE ClaimHeld' /\ ReadOwned'
    <2>1. \A v \in Workers : Held(v)' \subseteq Held(v)
      BY <1>7 DEF NothingToClaim, Held, local
    <2>2. ClaimHeld'
      BY <1>7, <2>1, ClaimHeldKept DEF NothingToClaim, db
    <2>3. ReadOwned'
      BY <1>7 DEF NothingToClaim, Claims, Shape, TypeOK, ReadOwned, local
    <2> QED
      BY <2>2, <2>3
  <1>8. ASSUME NEW w \in Workers, FinishBatch(w) PROVE ClaimHeld' /\ ReadOwned'
    <2>1. \A v \in Workers : Held(v)' \subseteq Held(v)
      BY <1>8 DEF FinishBatch, Held, local
    <2>2. ClaimHeld'
      BY <1>8, <2>1, ClaimHeldKept DEF FinishBatch, db
    <2>3. ReadOwned'
      BY <1>8 DEF FinishBatch, Claims, Shape, TypeOK, ReadOwned, local
    <2> QED
      BY <2>2, <2>3
  <1>9. ASSUME NEW w \in Workers, Stop(w) PROVE ClaimHeld' /\ ReadOwned'
    <2>1. \A v \in Workers : Held(v)' \subseteq Held(v)
      BY <1>9 DEF Stop, Held, local
    <2>2. ClaimHeld'
      BY <1>9, <2>1, ClaimHeldKept DEF Stop, db
    <2>3. ReadOwned'
      BY <1>9 DEF Stop, Claims, Shape, TypeOK, ReadOwned, local
    <2> QED
      BY <2>2, <2>3
  <1>10. ASSUME NEW w \in Workers, NEW m \in Messages, ReleaseUnserved(w, m) PROVE ClaimHeld' /\ ReadOwned'
    <2>1. m \in Held(w) /\ task[w].message = NoMessage
      BY <1>10 DEF ReleaseUnserved, Held, Claims, Shape, TaskShape
    <2>2. Held(w)' = Held(w) \ {m}
      BY <1>10, <2>1 DEF ReleaseUnserved, Held, Claims, Shape, TypeOK
    <2>3. ASSUME NEW v \in Workers, v # w PROVE Held(v)' = Held(v) /\ m \notin Held(v)
      BY <1>10, <2>1, <2>3, HeldByOne DEF ReleaseUnserved, Held, Claims, Shape, TypeOK
    <2>4. \A v \in Workers : Held(v)' \subseteq Held(v) /\ m \notin Held(v)'
      BY <2>2, <2>3
    <2>5. \A v \in Workers : \A x \in Held(v)' : msgs'[x] = msgs[x]
      BY <1>10, <2>4, HeldAreMessages DEF ReleaseUnserved, Claims, Shape, TypeOK
    <2>6. ClaimHeld'
      BY <2>4, <2>5, ClaimHeldKept
    <2>7. ReadOwned'
      BY <1>10 DEF ReleaseUnserved, Claims, ReadOwned
    <2> QED
      BY <2>6, <2>7
  <1>11. ASSUME NEW w \in Workers, NEW m \in Messages, LoadMessage(w, m) PROVE ClaimHeld' /\ ReadOwned'
    <2>1. m \in Held(w) /\ task'[w].message = m /\ task'[w].read = msgs[m]
      BY <1>11 DEF LoadMessage, Held, NoTask, Claims, Shape, TypeOK
    <2>2. \A v \in Workers : Held(v)' \subseteq Held(v)
      BY <1>11, <2>1 DEF LoadMessage, Held, Claims, Shape, TypeOK
    <2>3. ClaimHeld'
      BY <1>11, <2>2, ClaimHeldKept DEF LoadMessage, db
    <2>4. ReadOwned'
      BY <1>11, <2>1 DEF LoadMessage, Claims, ClaimHeld, Owns, Shape, TypeOK, ReadOwned
    <2> QED
      BY <2>3, <2>4
  <1>12. ASSUME NEW w \in Workers, RateGated(w) PROVE ClaimHeld' /\ ReadOwned'
    BY <1>12, ConcludeClaims DEF RateGated
  <1>13. ASSUME NEW w \in Workers, FailWithoutHost(w) PROVE ClaimHeld' /\ ReadOwned'
    BY <1>13, ConcludeClaims DEF FailWithoutHost
  <1>14. ASSUME NEW w \in Workers, StampAttempt(w) PROVE ClaimHeld' /\ ReadOwned'
    <2> DEFINE mine == task[w].message
    <2>1. mine \in Messages /\ task[w] \in Task
      BY <1>14, InHand DEF StampAttempt
    <2>2. task'[w].message = mine /\ task'[w].read = task[w].read
      BY <1>14, <2>1 DEF StampAttempt, Claims, Shape, TypeOK, Task
    <2>3. \A v \in Workers : Held(v)' = Held(v)
      BY <1>14, <2>2 DEF StampAttempt, Held, Claims, Shape, TypeOK
    <2>4. ASSUME NEW x \in Messages
          PROVE  /\ msgs'[x].status = msgs[x].status
                 /\ msgs'[x].claimedBy = msgs[x].claimedBy
                 /\ msgs'[x].stale = msgs[x].stale
      <3>1. msgs[mine] \in Row
        BY <2>1 DEF Claims, Shape, TypeOK
      <3>2. msgs'[x] = IF x = mine THEN Stamped(msgs[mine], task[w].read, mine) ELSE msgs[x]
        BY <1>14, <2>1 DEF StampAttempt, Claims, Shape, TypeOK
      <3> QED
        BY <3>1, <3>2 DEF Stamped, Row
    <2>5. ClaimHeld'
      BY <2>3, <2>4, HeldAreMessages, ClaimHeldKept DEF Claims
    <2>6. ReadOwned'
      BY <1>14, <2>2 DEF StampAttempt, Claims, Shape, TypeOK, ReadOwned
    <2> QED
      BY <2>5, <2>6
  <1>15. ASSUME NEW w \in Workers, ProviderAnswers(w) PROVE ClaimHeld' /\ ReadOwned'
    <2> DEFINE mine == task[w].message
    <2>1. mine \in Messages /\ Owns(w, mine) /\ task[w] \in Task
      BY <1>15, InHand DEF ProviderAnswers
    <2>2. task'[w].message = mine /\ task'[w].read = msgs[mine]
      BY <1>15, <2>1 DEF ProviderAnswers, Claims, Shape, TypeOK, Task
    <2>3. \A v \in Workers : v # w => task'[v] = task[v]
      BY <1>15 DEF ProviderAnswers, Claims, Shape, TypeOK
    <2>4. \A v \in Workers : Held(v)' = Held(v)
      BY <1>15, <2>2, <2>3 DEF ProviderAnswers, Held
    <2>5. ClaimHeld'
      BY <1>15, <2>4, ClaimHeldKept DEF ProviderAnswers, db
    <2>6. ReadOwned'
      BY <1>15, <2>1, <2>2, <2>3 DEF ProviderAnswers, Claims, Shape, TypeOK, ReadOwned, Owns
    <2> QED
      BY <2>5, <2>6
  <1>16. ASSUME NEW w \in Workers, RecordOutcome(w) PROVE ClaimHeld' /\ ReadOwned'
    BY <1>16, ConcludeClaims DEF RecordOutcome
  <1>17. ASSUME NEW w \in Workers, LoseOutcome(w) PROVE ClaimHeld' /\ ReadOwned'
    <2>1. \A v \in Workers : batch'[v] \subseteq batch[v]
      BY <1>17 DEF LoseOutcome, Claims, Shape, TypeOK
    <2> QED
      BY <1>17, <2>1, DropClaims DEF LoseOutcome, db
  <1>18. ASSUME NEW w \in Workers, RequestShutdown(w) PROVE ClaimHeld' /\ ReadOwned'
    <2>1. \A v \in Workers : Held(v)' \subseteq Held(v)
      BY <1>18 DEF RequestShutdown, Held, local
    <2>2. ClaimHeld'
      BY <1>18, <2>1, ClaimHeldKept DEF RequestShutdown, db
    <2>3. ReadOwned'
      BY <1>18 DEF RequestShutdown, Claims, Shape, TypeOK, ReadOwned, local
    <2> QED
      BY <2>2, <2>3
  <1>19. ASSUME NEW w \in Workers, UnexpectedError(w) PROVE ClaimHeld' /\ ReadOwned'
    <2>1. \A v \in Workers : batch'[v] \subseteq batch[v]
      BY <1>19 DEF UnexpectedError, Abandon, Claims, Shape, TypeOK
    <2> QED
      BY <1>19, <2>1, DropClaims DEF UnexpectedError, Abandon, db
  <1>20. ASSUME NEW w \in Workers, Crash(w) PROVE ClaimHeld' /\ ReadOwned'
    <2>1. \A v \in Workers : batch'[v] \subseteq batch[v]
      BY <1>20 DEF Crash, Abandon, Claims, Shape, TypeOK
    <2> QED
      BY <1>20, <2>1, DropClaims DEF Crash, Abandon, db
  <1>21. ASSUME NEW w \in Workers, Restart(w) PROVE ClaimHeld' /\ ReadOwned'
    <2>1. \A v \in Workers : Held(v)' \subseteq Held(v)
      BY <1>21 DEF Restart, Held, local
    <2>2. ClaimHeld'
      BY <1>21, <2>1, ClaimHeldKept DEF Restart, db
    <2>3. ReadOwned'
      BY <1>21 DEF Restart, Claims, Shape, TypeOK, ReadOwned, local
    <2> QED
      BY <2>2, <2>3
  <1>22. ASSUME NEW m \in Messages, ClaimAges(m) PROVE ClaimHeld' /\ ReadOwned'
    <2>1. \A v \in Workers : Held(v)' = Held(v) /\ m \notin Held(v)
      BY <1>22 DEF ClaimAges, Held, local
    <2>2. \A v \in Workers : \A x \in Held(v)' : msgs'[x] = msgs[x]
      BY <1>22, <2>1, HeldAreMessages DEF ClaimAges, Claims, Shape, TypeOK
    <2>3. ClaimHeld'
      BY <2>1, <2>2, ClaimHeldKept
    <2>4. ReadOwned'
      BY <1>22 DEF ClaimAges, local, Claims, ReadOwned
    <2> QED
      BY <2>3, <2>4
  <1>23. ASSUME NEW m \in Messages, BecomesDue(m) PROVE ClaimHeld' /\ ReadOwned'
    <2>1. \A v \in Workers : Held(v)' = Held(v)
      BY <1>23 DEF BecomesDue, Held, local
    <2>2. ASSUME NEW x \in Messages
          PROVE  /\ msgs'[x].status = msgs[x].status
                 /\ msgs'[x].claimedBy = msgs[x].claimedBy
                 /\ msgs'[x].stale = msgs[x].stale
      <3>1. msgs[x] \in Row
        BY DEF Claims, Shape, TypeOK
      <3>2. msgs'[x] = IF x = m THEN [msgs[x] EXCEPT !.due = TRUE] ELSE msgs[x]
        BY <1>23 DEF BecomesDue, Claims, Shape, TypeOK
      <3> QED
        BY <3>1, <3>2 DEF Row
    <2>3. ClaimHeld'
      BY <2>1, <2>2, HeldAreMessages, ClaimHeldKept DEF Claims
    <2>4. ReadOwned'
      BY <1>23 DEF BecomesDue, local, Claims, ReadOwned
    <2> QED
      BY <2>3, <2>4
  <1>24. ASSUME NEW m \in Messages, WindowSlides(m) PROVE ClaimHeld' /\ ReadOwned'
    <2>1. \A v \in Workers : Held(v)' = Held(v)
      BY <1>24 DEF WindowSlides, Held, local
    <2>2. ASSUME NEW x \in Messages
          PROVE  /\ msgs'[x].status = msgs[x].status
                 /\ msgs'[x].claimedBy = msgs[x].claimedBy
                 /\ msgs'[x].stale = msgs[x].stale
      <3>1. msgs[x] \in Row
        BY DEF Claims, Shape, TypeOK
      <3>2. msgs'[x] = IF x = m THEN [msgs[x] EXCEPT !.recent = FALSE] ELSE msgs[x]
        BY <1>24 DEF WindowSlides, Claims, Shape, TypeOK
      <3> QED
        BY <3>1, <3>2 DEF Row
    <2>3. ClaimHeld'
      BY <2>1, <2>2, HeldAreMessages, ClaimHeldKept DEF Claims
    <2>4. ReadOwned'
      BY <1>24 DEF WindowSlides, local, Claims, ReadOwned
    <2> QED
      BY <2>3, <2>4
  <1>25. ASSUME UNCHANGED vars PROVE ClaimHeld' /\ ReadOwned'
    <2>1. \A v \in Workers : Held(v)' = Held(v)
      BY <1>25 DEF vars, local, Held
    <2> QED
      BY <1>25, <2>1, ClaimHeldKept DEF vars, db, local, Claims, ReadOwned
  <1>26. ASSUME NEW w \in Workers, DeliveryRaises(w) PROVE ClaimHeld' /\ ReadOwned'
    <2>1. \A v \in Workers : batch'[v] \subseteq batch[v]
      BY <1>26 DEF DeliveryRaises, Claims, Shape, TypeOK
    <2> QED
      BY <1>26, <2>1, DropClaims DEF DeliveryRaises, db
  <1>27. ClaimHeld' /\ ReadOwned'
    BY <1>1, <1>2, <1>3, <1>4, <1>5, <1>6, <1>7, <1>8, <1>9, <1>10, <1>11, <1>12, <1>13, <1>14, <1>15, <1>16, <1>17, <1>18, <1>19, <1>20, <1>21, <1>22, <1>23, <1>24, <1>25, <1>26 DEF Next, WorkerStep, Clock
  <1> QED
    BY <1>27, ShapeStep DEF Claims

LEMMA ClaimsInit == Init => Claims
  <1> SUFFICES ASSUME Init PROVE Claims
    OBVIOUS
  <1>1. ClaimHeld /\ ReadOwned
    BY DEF Init, ClaimHeld, ReadOwned, Held, NoTask
  <1> QED
    BY <1>1, ShapeInit DEF Claims

\* If no live worker keeps a claim past STALE_CLAIM_AFTER, a message in a worker's
\* hands is claimed by it in the table: no send is ever stolen.
THEOREM ClaimsAreHeld == ClaimsOutliveSends => (Spec => []ClaimHeld)
  <1> SUFFICES ASSUME ClaimsOutliveSends PROVE Spec => []ClaimHeld
    OBVIOUS
  <1>1. Init => Claims
    BY ClaimsInit
  <1>2. Claims /\ [Next]_vars => Claims'
    BY ClaimsStep
  <1>3. Claims => ClaimHeld
    BY DEF Claims
  <1> QED
    BY <1>1, <1>2, <1>3, PTL DEF Spec

-----------------------------------------------------------------------------
(* Terminal statuses *)

\* A step that writes only the row of a message in hand, or only rows that are
\* still on the queue, leaves the settled rows settled.
LEMMA InHandUnsettled ==
    ASSUME Claims, NEW w \in Workers, NEW row, Conclude(w, row),
           pc[w] \in {"loaded", "wire", "recording"},
           NEW m \in Messages, msgs[m].status \in Terminal
    PROVE  msgs'[m].status = msgs[m].status
  <1>1. task[w].message \in Messages /\ msgs[task[w].message].status = "sending"
    BY InHand DEF Owns
  <1>2. m # task[w].message
    BY <1>1 DEF Terminal
  <1> QED
    BY <1>1, <1>2 DEF Conclude, Claims, Shape, TypeOK

LEMMA TerminalStep ==
    ASSUME Claims, [Next]_vars, NEW m \in Messages, msgs[m].status \in Terminal
    PROVE  msgs'[m].status = msgs[m].status
  <1> USE DEF Terminal
  <1>1. ASSUME NEW x \in Messages, Accept(x) PROVE msgs'[m].status = msgs[m].status
    BY <1>1 DEF Accept, Claims, Shape, TypeOK
  <1>2. ASSUME NEW w \in Workers, Maintenance(w) PROVE msgs'[m].status = msgs[m].status
    <2>1. PICK expired \in SUBSET Messages :
            msgs' = [x \in Messages |->
                       LET row == IF Reapable(msgs[x]) THEN Reaped(msgs[x]) ELSE msgs[x]
                       IN  IF x \in expired THEN [row EXCEPT !.purged = TRUE] ELSE row]
      BY <1>2 DEF Maintenance
    <2>2. ~Reapable(msgs[m]) /\ msgs[m] \in Row
      BY DEF Reapable, Claims, Shape, TypeOK
    <2>3. msgs'[m] = IF m \in expired THEN [msgs[m] EXCEPT !.purged = TRUE] ELSE msgs[m]
      BY <2>1, <2>2
    <2> QED
      BY <2>2, <2>3 DEF Row
  <1>3. ASSUME NEW w \in Workers, ClaimMessages(w) PROVE msgs'[m].status = msgs[m].status
    BY <1>3 DEF ClaimMessages, Claimable
  <1>4. ASSUME NEW w \in Workers, NEW x \in Messages, ReleaseUnserved(w, x)
        PROVE  msgs'[m].status = msgs[m].status
    BY <1>4 DEF ReleaseUnserved, ReleaseClaim, Claims, Shape, TypeOK
  <1>5. ASSUME NEW w \in Workers, RateGated(w) \/ FailWithoutHost(w) \/ RecordOutcome(w)
        PROVE  msgs'[m].status = msgs[m].status
    BY <1>5, InHandUnsettled DEF RateGated, FailWithoutHost, RecordOutcome
  <1>6. ASSUME NEW w \in Workers, StampAttempt(w) PROVE msgs'[m].status = msgs[m].status
    <2>1. task[w].message \in Messages /\ msgs[task[w].message].status = "sending"
      BY <1>6, InHand DEF StampAttempt, Owns
    <2>2. m # task[w].message
      BY <2>1
    <2> QED
      BY <1>6, <2>1, <2>2 DEF StampAttempt, Claims, Shape, TypeOK
  <1>7. ASSUME NEW x \in Messages, ClaimAges(x) \/ BecomesDue(x) \/ WindowSlides(x)
        PROVE  msgs'[m].status = msgs[m].status
    <2>1. msgs[m] \in Row
      BY DEF Claims, Shape, TypeOK
    <2>2. \/ msgs'[m] = msgs[m]
          \/ msgs'[m] = [msgs[m] EXCEPT !.stale = TRUE]
          \/ msgs'[m] = [msgs[m] EXCEPT !.due = TRUE]
          \/ msgs'[m] = [msgs[m] EXCEPT !.recent = FALSE]
      BY <1>7 DEF ClaimAges, BecomesDue, WindowSlides, Claims, Shape, TypeOK
    <2> QED
      BY <2>1, <2>2 DEF Row
  <1>8. ASSUME msgs' = msgs PROVE msgs'[m].status = msgs[m].status
    BY <1>8
  <1>9. ASSUME NEW w \in Workers,
               \/ LoadMessage(w, m) \/ Iterate(w) \/ NothingToClaim(w)
               \/ FinishBatch(w) \/ Stop(w) \/ ProviderAnswers(w) \/ LoseOutcome(w)
               \/ RequestShutdown(w) \/ UnexpectedError(w) \/ Crash(w) \/ Restart(w)
               \/ DeliveryRaises(w) \/ \E x \in Messages : LoadMessage(w, x)
        PROVE  msgs' = msgs
    BY <1>9 DEF DeliveryRaises, LoadMessage, Iterate, NothingToClaim, FinishBatch, Stop, ProviderAnswers,
                LoseOutcome, RequestShutdown, UnexpectedError, Crash, Abandon, Restart, db
  <1>10. ASSUME NEW a \in Addresses, AddSuppression(a) \/ RemoveSuppression(a)
         PROVE  msgs' = msgs
    BY <1>10 DEF AddSuppression, RemoveSuppression
  <1>11. ASSUME UNCHANGED vars PROVE msgs' = msgs
    BY <1>11 DEF vars, db
  <1> QED
    BY <1>1, <1>2, <1>3, <1>4, <1>5, <1>6, <1>7, <1>8, <1>9, <1>10, <1>11
       DEF Next, WorkerStep, Clock

\* Under the same assumption a settled message is settled for good: no late
\* outcome, gate or release reopens it.
THEOREM TerminalStaysFinal == ClaimsOutliveSends => (Spec => TerminalIsFinal)
  <1> SUFFICES ASSUME ClaimsOutliveSends PROVE Spec => TerminalIsFinal
    OBVIOUS
  <1>1. Init => Claims
    BY ClaimsInit
  <1>2. Claims /\ [Next]_vars => Claims'
    BY ClaimsStep
  <1>3. Claims /\ [Next]_vars
        => [\A m \in Messages :
              msgs[m].status \in Terminal => msgs'[m].status = msgs[m].status]_vars
    BY TerminalStep
  <1> QED
    BY <1>1, <1>2, <1>3, PTL DEF Spec, TerminalIsFinal

-----------------------------------------------------------------------------
(* Retries *)

\* Only the provider's answer takes a worker to its second transaction, and until
\* it concludes nobody touches the answer it carries.
LEMMA OnlyAnswersRecord ==
    ASSUME Shape, [Next]_vars, NEW v \in Workers, ~ProviderAnswers(v),
           pc'[v] = "recording"
    PROVE  pc[v] = "recording" /\ task'[v] = task[v]
  <1> USE DEF Shape, TypeOK
  <1>1. ASSUME NEW m \in Messages,
               Accept(m) \/ ClaimAges(m) \/ BecomesDue(m) \/ WindowSlides(m)
        PROVE  pc[v] = "recording" /\ task'[v] = task[v]
    BY <1>1 DEF Accept, ClaimAges, BecomesDue, WindowSlides, local
  <1>2. ASSUME NEW a \in Addresses, AddSuppression(a) \/ RemoveSuppression(a)
        PROVE  pc[v] = "recording" /\ task'[v] = task[v]
    BY <1>2 DEF AddSuppression, RemoveSuppression, local
  <1>3. ASSUME NEW w \in Workers,
               \/ Iterate(w) \/ Maintenance(w) \/ ClaimMessages(w) \/ NothingToClaim(w)
               \/ FinishBatch(w) \/ Stop(w)
        PROVE  pc[v] = "recording" /\ task'[v] = task[v]
    BY <1>3 DEF Iterate, Maintenance, ClaimMessages, NothingToClaim, FinishBatch, Stop
  <1>4. ASSUME NEW w \in Workers, NEW m \in Messages, ReleaseUnserved(w, m) \/ LoadMessage(w, m)
        PROVE  pc[v] = "recording" /\ task'[v] = task[v]
    BY <1>4 DEF ReleaseUnserved, LoadMessage
  <1>5. ASSUME NEW w \in Workers,
               RateGated(w) \/ FailWithoutHost(w) \/ RecordOutcome(w)
        PROVE  pc[v] = "recording" /\ task'[v] = task[v]
    BY <1>5 DEF RateGated, FailWithoutHost, RecordOutcome, Conclude
  <1>6. ASSUME NEW w \in Workers, StampAttempt(w) \/ LoseOutcome(w) \/ DeliveryRaises(w)
        PROVE  pc[v] = "recording" /\ task'[v] = task[v]
    BY <1>6 DEF StampAttempt, LoseOutcome, DeliveryRaises
  <1>7. ASSUME NEW w \in Workers, ProviderAnswers(w)
        PROVE  pc[v] = "recording" /\ task'[v] = task[v]
    BY <1>7 DEF ProviderAnswers
  <1>8. ASSUME NEW w \in Workers,
               RequestShutdown(w) \/ UnexpectedError(w) \/ Crash(w) \/ Restart(w)
        PROVE  pc[v] = "recording" /\ task'[v] = task[v]
    BY <1>8 DEF RequestShutdown, UnexpectedError, Crash, Abandon, Restart
  <1>9. ASSUME UNCHANGED vars
        PROVE  pc[v] = "recording" /\ task'[v] = task[v]
    BY <1>9 DEF vars, local
  <1> QED
    BY <1>1, <1>2, <1>3, <1>4, <1>5, <1>6, <1>7, <1>8, <1>9 DEF Next, WorkerStep, Clock

\* The answer in hand leaves somebody to retry for.
SomeoneLeft ==
    \A w \in Workers :
        pc[w] = "recording" /\ task[w].answer.retryable =>
            task[w].answer.dead # RecipientsOf[task[w].message]

LEMMA SomeoneLeftStep ==
    ASSUME Shape, SomeoneLeft, [Next]_vars
    PROVE  SomeoneLeft'
  <1> SUFFICES ASSUME NEW v \in Workers, pc'[v] = "recording", task'[v].answer.retryable
               PROVE  task'[v].answer.dead # RecipientsOf[task'[v].message]
    BY DEF SomeoneLeft
  <1>1. ASSUME ProviderAnswers(v)
        PROVE  task'[v].answer.dead # RecipientsOf[task'[v].message]
    <2> DEFINE mine == task[v].message
    <2>1. mine \in Messages /\ task[v] \in Task
      BY <1>1 DEF ProviderAnswers, Shape, TypeOK, TaskShape, Task
    <2>2. PICK a \in AnswersFor(mine) :
             task'[v] = [task[v] EXCEPT !.answer = a, !.read = msgs[mine],
                                        !.known = suppressed \intersect a.dead]
      BY <1>1 DEF ProviderAnswers, Shape, TypeOK
    <2>3. task'[v].answer = a /\ task'[v].message = mine
      BY <2>1, <2>2 DEF Task
    <2> QED
      BY <2>1, <2>3, AnswersLeaveSomeone
  <1>2. ASSUME ~ProviderAnswers(v)
        PROVE  pc[v] = "recording" /\ task'[v] = task[v]
    BY <1>2, OnlyAnswersRecord
  <1> QED
    BY <1>1, <1>2 DEF SomeoneLeft

\* Whatever the provider replies, a message goes back to the queue only while one
\* of its recipients has not been suppressed by the same outcome.
THEOREM RetriesReachSomeone == Spec => []RetriedForSomeone
  <1>1. Init => Shape /\ SomeoneLeft
    BY ShapeInit DEF Init, SomeoneLeft
  <1>2. Shape /\ SomeoneLeft /\ [Next]_vars => Shape' /\ SomeoneLeft'
    BY ShapeStep, SomeoneLeftStep
  <1>3. SomeoneLeft => RetriedForSomeone
    BY DEF SomeoneLeft, RetriedForSomeone, MayRetry
  <1> QED
    BY <1>1, <1>2, <1>3, PTL DEF Spec

-----------------------------------------------------------------------------
(* The credit given to the provider *)

\* What is called accepted was taken, and so was what is about to be.
Credit ==
    /\ AcceptedMeansTaken
    /\ \A w \in Workers :
          pc[w] = "recording" /\ task[w].answer.ok => hist[task[w].message].taken > 0

\* The count of copies taken never goes down.
LEMMA TakenGrows ==
    ASSUME Shape, [Next]_vars, NEW x \in Messages
    PROVE  hist'[x].taken >= hist[x].taken
  <1> USE DEF Shape, TypeOK
  <1>1. hist[x] \in [taken : Nat, silent : Nat, unrecorded : Nat]
    OBVIOUS
  <1>2. ASSUME NEW w \in Workers, ProviderAnswers(w) PROVE hist'[x].taken >= hist[x].taken
    <2>1. PICK a \in AnswersFor(task[w].message), silent \in BOOLEAN :
             hist' = [hist EXCEPT ![task[w].message] = Witnessed(@, a.ok, silent)]
      BY <1>2 DEF ProviderAnswers
    <2>2. hist'[x] = hist[x] \/ hist'[x] = Witnessed(hist[x], a.ok, silent)
      BY <2>1
    <2> QED
      BY <1>1, <2>2 DEF Witnessed
  <1>3. ASSUME NEW w \in Workers, LoseOutcome(w) \/ UnexpectedError(w) \/ Crash(w)
        PROVE  hist'[x].taken >= hist[x].taken
    <2>1. hist' = hist \/ OutcomeLost(task[w].message)
      BY <1>3 DEF LoseOutcome, UnexpectedError, Crash, Abandon
    <2>2. hist'[x] = hist[x] \/ hist'[x] = [hist[x] EXCEPT !.unrecorded = @ + 1]
      BY <2>1 DEF OutcomeLost
    <2> QED
      BY <1>1, <2>2
  <1>4. ASSUME NEW w \in Workers,
               \/ Iterate(w) \/ Maintenance(w) \/ ClaimMessages(w) \/ NothingToClaim(w)
               \/ FinishBatch(w) \/ Stop(w)
               \/ RateGated(w) \/ FailWithoutHost(w) \/ StampAttempt(w) \/ RecordOutcome(w)
               \/ \E m \in Messages : ReleaseUnserved(w, m) \/ LoadMessage(w, m)
               \/ RequestShutdown(w) \/ Restart(w) \/ DeliveryRaises(w)
        PROVE  hist' = hist
    BY <1>4 DEF Iterate, Maintenance, ClaimMessages, NothingToClaim, FinishBatch, Stop,
                RateGated, FailWithoutHost, StampAttempt, RecordOutcome, ReleaseUnserved,
                LoadMessage, RequestShutdown, Restart, DeliveryRaises
  <1>5. ASSUME \/ \E m \in Messages :
                    Accept(m) \/ ClaimAges(m) \/ BecomesDue(m) \/ WindowSlides(m)
               \/ \E a \in Addresses : AddSuppression(a) \/ RemoveSuppression(a)
               \/ UNCHANGED vars
        PROVE  hist' = hist
    BY <1>5 DEF Accept, ClaimAges, BecomesDue, WindowSlides, AddSuppression,
                RemoveSuppression, vars
  <1> QED
    BY <1>1, <1>2, <1>3, <1>4, <1>5 DEF Next, WorkerStep, Clock

\* What a transaction writes says `accepted` only on the provider's word.
LEMMA OnlyAnswersAccept ==
    ASSUME NEW row \in Row, NEW read \in Row, NEW t \in Task,
           row.status # "accepted_by_provider"
    PROVE  /\ Deferred(row, read, "queued").status # "accepted_by_provider"
           /\ Completed(row, read, "permanently_rejected").status # "accepted_by_provider"
           /\ ~t.answer.ok => Outcome(row, t).status # "accepted_by_provider"
  <1>1. ASSUME NEW r \in Row, NEW status \in Statuses \ {"accepted_by_provider"}
        PROVE  /\ Deferred(row, r, status).status # "accepted_by_provider"
               /\ Completed(row, r, status).status # "accepted_by_provider"
    <2>1. /\ ReleasedColumns(row, r) \in Row
          /\ ReleasedColumns(row, r).status # "accepted_by_provider"
      BY DEF ReleasedColumns, Row
    <2>2. Settled(row, r, status) \in Row /\ Settled(row, r, status).status # "accepted_by_provider"
      BY <2>1 DEF Settled, StatusColumn, Row
    <2> QED
      BY <2>2 DEF Deferred, Completed, Row
  <1>2. t.read \in Row
    BY DEF Task
  <1> QED
    BY <1>1, <1>2 DEF Outcome, Statuses

\* Only the outcome of an answer that took the message calls it accepted.
LEMMA AcceptedByAnswer ==
    ASSUME Shape, [Next]_vars, NEW x \in Messages,
           msgs[x].status # "accepted_by_provider", msgs'[x].status = "accepted_by_provider"
    PROVE  \E w \in Workers : pc[w] = "recording" /\ task[w].message = x /\ task[w].answer.ok
  <1> USE DEF Shape, TypeOK
  <1>1. msgs[x] \in Row
    OBVIOUS
  <1>2. ASSUME NEW m \in Messages,
               Accept(m) \/ ClaimAges(m) \/ BecomesDue(m) \/ WindowSlides(m)
        PROVE  FALSE
    <2>1. \/ msgs'[x] = msgs[x]
          \/ msgs'[x] = [NoRow EXCEPT !.status = "queued", !.due = TRUE]
          \/ msgs'[x] = [msgs[x] EXCEPT !.stale = TRUE]
          \/ msgs'[x] = [msgs[x] EXCEPT !.due = TRUE]
          \/ msgs'[x] = [msgs[x] EXCEPT !.recent = FALSE]
      BY <1>2 DEF Accept, ClaimAges, BecomesDue, WindowSlides
    <2> QED
      BY <1>1, <2>1 DEF Row, NoRow
  <1>3. ASSUME NEW w \in Workers, Maintenance(w) PROVE FALSE
    <2>1. PICK expired \in SUBSET Messages :
            msgs' = [m \in Messages |->
                       LET row == IF Reapable(msgs[m]) THEN Reaped(msgs[m]) ELSE msgs[m]
                       IN  IF m \in expired THEN [row EXCEPT !.purged = TRUE] ELSE row]
      BY <1>3 DEF Maintenance
    <2>2. Reaped(msgs[x]) \in Row /\ Reaped(msgs[x]).status = "temporarily_failed"
      BY <1>1, RowsStayRows DEF Reaped, Row
    <2> QED
      BY <1>1, <2>1, <2>2 DEF Row
  <1>4. ASSUME NEW w \in Workers, NEW m \in Messages, ClaimMessages(w) \/ ReleaseUnserved(w, m)
        PROVE  FALSE
    <2>1. msgs'[x] = msgs[x] \/ msgs'[x] = Claimed(msgs[x], w) \/ msgs'[x] = ReleaseClaim(msgs[x])
      BY <1>4 DEF ClaimMessages, ReleaseUnserved
    <2> QED
      BY <1>1, <2>1 DEF Claimed, ReleaseClaim, Row
  <1>5. ASSUME NEW w \in Workers, StampAttempt(w) PROVE FALSE
    <2>1. msgs'[x] = msgs[x] \/ msgs'[x] = Stamped(msgs[x], task[w].read, x)
      BY <1>5 DEF StampAttempt
    <2> QED
      BY <1>1, <2>1 DEF Stamped, Row
  <1>6. ASSUME NEW w \in Workers, RateGated(w) \/ FailWithoutHost(w) PROVE FALSE
    <2>1. task[w] \in Task /\ task[w].read \in Row
      BY DEF Task
    <2>2. \/ msgs'[x] = msgs[x]
          \/ msgs'[x] = Deferred(msgs[x], task[w].read, "queued")
          \/ msgs'[x] = Completed(msgs[x], task[w].read, "permanently_rejected")
      BY <1>6 DEF RateGated, FailWithoutHost, Conclude
    <2> QED
      BY <1>1, <2>1, <2>2, OnlyAnswersAccept
  <1>7. ASSUME NEW w \in Workers, RecordOutcome(w)
        PROVE  pc[w] = "recording" /\ task[w].message = x /\ task[w].answer.ok
    <2>1. task[w] \in Task /\ task[w].read \in Row /\ task[w].message \in Messages
      BY <1>7 DEF RecordOutcome, TaskShape, Task
    <2>2. /\ pc[w] = "recording"
          /\ msgs' = [msgs EXCEPT ![task[w].message] = Outcome(msgs[task[w].message], task[w])]
      BY <1>7 DEF RecordOutcome, Conclude
    <2>3. task[w].message = x /\ msgs'[x] = Outcome(msgs[x], task[w])
      BY <2>1, <2>2
    <2> QED
      BY <1>1, <2>1, <2>2, <2>3, OnlyAnswersAccept
  <1>8. ASSUME NEW w \in Workers,
               \/ Iterate(w) \/ NothingToClaim(w) \/ FinishBatch(w) \/ Stop(w)
               \/ ProviderAnswers(w) \/ LoseOutcome(w) \/ RequestShutdown(w)
               \/ UnexpectedError(w) \/ Crash(w) \/ Restart(w) \/ DeliveryRaises(w)
               \/ \E m \in Messages : LoadMessage(w, m)
        PROVE  FALSE
    BY <1>8 DEF DeliveryRaises, LoadMessage, Iterate, NothingToClaim, FinishBatch, Stop, ProviderAnswers,
                LoseOutcome, RequestShutdown, UnexpectedError, Crash, Abandon, Restart, db
  <1>9. ASSUME \/ \E a \in Addresses : AddSuppression(a) \/ RemoveSuppression(a)
               \/ UNCHANGED vars
        PROVE  FALSE
    BY <1>9 DEF AddSuppression, RemoveSuppression, vars, db
  <1> QED
    BY <1>2, <1>3, <1>4, <1>5, <1>6, <1>7, <1>8, <1>9 DEF Next, WorkerStep, Clock

LEMMA CreditStep ==
    ASSUME Shape, Credit, [Next]_vars
    PROVE  Credit'
  <1> USE DEF Shape, TypeOK
  <1>1. ASSUME NEW x \in Messages
        PROVE  /\ hist[x].taken \in Nat /\ hist'[x].taken \in Nat
               /\ hist[x].taken > 0 => hist'[x].taken > 0
    <2>1. hist[x].taken \in Nat /\ hist'[x].taken \in Nat
      BY ShapeStep
    <2> QED
      BY <2>1, TakenGrows
  <1>2. ASSUME NEW x \in Messages, msgs'[x].status = "accepted_by_provider"
        PROVE  hist'[x].taken > 0
    <2>1. hist[x].taken > 0
      BY <1>2, AcceptedByAnswer DEF Credit, AcceptedMeansTaken
    <2> QED
      BY <1>1, <2>1
  <1>3. ASSUME NEW v \in Workers, pc'[v] = "recording", task'[v].answer.ok
        PROVE  hist'[task'[v].message].taken > 0
    <2>1. CASE ProviderAnswers(v)
      <3> DEFINE mine == task[v].message
      <3>1. mine \in Messages /\ task[v] \in Task
        BY <2>1 DEF ProviderAnswers, TaskShape, Task
      <3>2. PICK a \in AnswersFor(mine), silent \in BOOLEAN :
               /\ task'[v] = [task[v] EXCEPT !.answer = a, !.read = msgs[mine],
                                             !.known = suppressed \intersect a.dead]
               /\ hist' = [hist EXCEPT ![mine] = Witnessed(@, a.ok, silent)]
        BY <2>1 DEF ProviderAnswers
      <3>3. task'[v].answer = a /\ task'[v].message = mine
        BY <3>1, <3>2 DEF Task
      <3>4. hist'[mine] = Witnessed(hist[mine], a.ok, silent) /\ hist[mine].taken \in Nat
        BY <3>1, <3>2
      <3>5. hist'[mine].taken = hist[mine].taken + 1
        BY <1>3, <3>3, <3>4 DEF Witnessed
      <3> QED
        BY <3>3, <3>4, <3>5
    <2>2. CASE ~ProviderAnswers(v)
      <3>1. pc[v] = "recording" /\ task'[v] = task[v]
        BY <1>3, <2>2, OnlyAnswersRecord
      <3>2. task[v].message \in Messages
        BY <3>1 DEF TaskShape, Task
      <3> QED
        BY <1>1, <1>3, <3>1, <3>2 DEF Credit
    <2> QED
      BY <2>1, <2>2
  <1> QED
    BY <1>2, <1>3 DEF Credit, AcceptedMeansTaken

\* No message is called accepted that the provider did not take: not even when a
\* slow worker is taken for dead and its claim is given to another.
THEOREM AcceptedWereTaken == Spec => []AcceptedMeansTaken
  <1>1. Init => Shape /\ Credit
    BY ShapeInit DEF Init, Credit, AcceptedMeansTaken, NoRow
  <1>2. Shape /\ Credit /\ [Next]_vars => Shape' /\ Credit'
    BY ShapeStep, CreditStep
  <1>3. Credit => AcceptedMeansTaken
    BY DEF Credit
  <1> QED
    BY <1>1, <1>2, <1>3, PTL DEF Spec

-----------------------------------------------------------------------------
(* The ledger: attempts made and copies taken, against what was recorded *)

Carrying == {"loaded", "wire", "recording"}

InFlight(m) ==
    \E w \in Workers : pc[w] \in {"wire", "recording"} /\ task[w].message = m

\* A row in `sending` is claimed; only a settled row is completed and only a
\* completed one purged; the counts stay within what its history explains.
RowKept(row, h) ==
    /\ row.status = "sending" => row.claimedBy # Nobody
    /\ row.completed => row.status \in Terminal
    /\ row.purged => row.completed
    /\ row.status = "accepted_by_provider" => h.taken > 0
    /\ row.attempts <= MaxAttempts + h.unrecorded
    /\ h.taken <= 1 + h.unrecorded + h.silent

\* A row that waits for an attempt has one to spare, and no copy of it was taken
\* but those whose answer or outcome was lost.
RowWaiting(row, h) ==
    row.status \notin Terminal =>
        /\ row.attempts < MaxAttempts + h.unrecorded
        /\ h.taken <= h.unrecorded + h.silent

\* What a delivery in hand says agrees with the row, though it was read earlier.
\* An attempt that cannot be composed leaves as many to spare as there were.
TaskKept(place, t, row, h) ==
    /\ place \in {"loaded", "wire"} => ~t.read.purged
    /\ place = "loaded" => t.read.attempts = row.attempts
    /\ place \in {"wire", "recording"} => t.attempt = row.attempts
    /\ place = "wire" /\ RaisesAt[t.message] = "wire" =>
          row.attempts < MaxAttempts + h.unrecorded
    /\ place = "wire" => h.taken <= h.unrecorded + h.silent
    /\ place = "recording" /\ t.answer.ok => h.taken > 0
    /\ place = "recording" /\ ~t.answer.ok => h.taken <= h.unrecorded + h.silent

Ledger ==
    /\ \A m \in Messages : RowKept(msgs[m], hist[m])
    /\ \A m \in Messages : ~InFlight(m) => RowWaiting(msgs[m], hist[m])
    /\ \A w \in Workers :
          pc[w] \in Carrying =>
              TaskKept(pc[w], task[w], msgs[task[w].message], hist[task[w].message])

LEMMA LedgerInit == Init => Ledger
  <1> SUFFICES ASSUME Init PROVE Ledger
    OBVIOUS
  <1>1. \A w \in Workers : pc[w] \notin Carrying
    BY DEF Init, Carrying
  <1>2. \A m \in Messages : RowKept(msgs[m], hist[m]) /\ RowWaiting(msgs[m], hist[m])
    BY QueueConstants DEF Init, NoRow, RowKept, RowWaiting, Terminal
  <1> QED
    BY <1>1, <1>2 DEF Ledger

\* A step of one worker on the message it holds concerns no other message and no
\* other delivery.
LEMMA LedgerOfOne ==
    ASSUME Claims, Ledger, NEW w \in Workers, NEW m \in Messages, m \in Held(w),
           \A v \in Workers : v # w => pc'[v] = pc[v] /\ task'[v] = task[v],
           \A x \in Messages : x # m => msgs'[x] = msgs[x] /\ hist'[x] = hist[x],
           pc[w] \in Carrying => task[w].message = m,
           pc'[w] \in Carrying => task'[w].message = m,
           RowKept(msgs'[m], hist'[m]),
           pc'[w] \notin {"wire", "recording"} => RowWaiting(msgs'[m], hist'[m]),
           pc'[w] \in Carrying => TaskKept(pc'[w], task'[w], msgs'[m], hist'[m])
    PROVE  Ledger'
  <1>1. \A x \in Messages : RowKept(msgs'[x], hist'[x])
    BY DEF Ledger
  <1>2. ASSUME NEW x \in Messages, ~InFlight(x)' PROVE RowWaiting(msgs'[x], hist'[x])
    <2>1. CASE x = m
      BY <1>2, <2>1 DEF InFlight, Carrying
    <2>2. CASE x # m
      <3>1. ~InFlight(x)
        BY <1>2, <2>2 DEF InFlight, Carrying
      <3> QED
        BY <2>2, <3>1 DEF Ledger
    <2> QED
      BY <2>1, <2>2
  <1>3. ASSUME NEW v \in Workers, pc'[v] \in Carrying
        PROVE  TaskKept(pc'[v], task'[v], msgs'[task'[v].message], hist'[task'[v].message])
    <2>1. CASE v = w
      BY <1>3, <2>1
    <2>2. CASE v # w
      <3>1. pc[v] \in Carrying /\ pc'[v] = pc[v] /\ task'[v] = task[v]
        BY <1>3, <2>2
      <3>2. task[v].message \in Messages /\ task[v].message \in Held(v)
        BY <3>1, InHand DEF Carrying
      <3>3. task[v].message # m
        BY <2>2, <3>2, HeldByOne
      <3> QED
        BY <3>1, <3>2, <3>3 DEF Ledger
    <2> QED
      BY <2>1, <2>2
  <1> QED
    BY <1>1, <1>2, <1>3 DEF Ledger

\* A step that leaves every delivery in hand alone, and no row with more attempts
\* or reopened.
LEMMA LedgerOfRows ==
    ASSUME Claims, Claims', Ledger, hist' = hist,
           \A v \in Workers : pc[v] \in Carrying \/ pc'[v] \in Carrying =>
               pc'[v] = pc[v] /\ task'[v] = task[v],
           \A x \in Messages :
               /\ RowKept(msgs'[x], hist[x])
               /\ msgs'[x].attempts <= msgs[x].attempts
               /\ msgs[x].status \in Terminal => msgs'[x].status \in Terminal,
           \A v \in Workers : pc[v] \in Carrying =>
               msgs'[task[v].message].attempts = msgs[task[v].message].attempts
    PROVE  Ledger'
  <1>1. \A x \in Messages : RowKept(msgs'[x], hist'[x])
    OBVIOUS
  <1>2. ASSUME NEW x \in Messages, ~InFlight(x)' PROVE RowWaiting(msgs'[x], hist'[x])
    <2>1. ~InFlight(x)
      BY <1>2 DEF InFlight, Carrying
    <2>2. RowWaiting(msgs[x], hist[x])
      BY <2>1 DEF Ledger
    <2>3. msgs[x].attempts \in Nat /\ msgs'[x].attempts \in Nat /\ hist[x].unrecorded \in Nat
      BY DEF Claims, Shape, TypeOK, Row
    <2> QED
      BY <2>2, <2>3, QueueConstants DEF RowWaiting
  <1>3. ASSUME NEW v \in Workers, pc'[v] \in Carrying
        PROVE  TaskKept(pc'[v], task'[v], msgs'[task'[v].message], hist'[task'[v].message])
    <2>1. TaskKept(pc[v], task[v], msgs[task[v].message], hist[task[v].message])
      BY <1>3 DEF Ledger
    <2> QED
      BY <1>3, <2>1 DEF TaskKept
  <1> QED
    BY <1>1, <1>2, <1>3 DEF Ledger

\* What a settled row keeps: a transaction that read its own claim writes the
\* status it means to and leaves the counts alone.
LEMMA SettledOwned ==
    ASSUME NEW row \in Row, NEW read \in Row, NEW status \in Statuses,
           read.status = "sending", read.claimedBy # Nobody, status # "sending"
    PROVE  /\ Deferred(row, read, status).status = status
           /\ Deferred(row, read, status).attempts = row.attempts
           /\ Deferred(row, read, status).completed = row.completed
           /\ Deferred(row, read, status).purged = row.purged
           /\ Deferred(row, read, status).recent = row.recent
           /\ Completed(row, read, status).status = status
           /\ Completed(row, read, status).attempts = row.attempts
           /\ Completed(row, read, status).completed
           /\ Completed(row, read, status).recent = row.recent
  <1>1. Settled(row, read, status)
          = [[row EXCEPT !.claimedBy = Nobody, !.stale = FALSE] EXCEPT !.status = status]
    BY DEF Settled, StatusColumn, ReleasedColumns
  <1>2. Settled(row, read, status) \in Row
    BY <1>1 DEF Row
  <1> QED
    BY <1>1, <1>2 DEF Deferred, Completed, Row

\* The message in hand is settled and let go.
LEMMA ConcludeLedger ==
    ASSUME Claims, Ledger, NEW w \in Workers, NEW row \in Row, Conclude(w, row),
           batch' = batch, hist' = hist, pc[w] \in Carrying,
           RowKept(row, hist[task[w].message]), RowWaiting(row, hist[task[w].message])
    PROVE  Ledger'
  <1> DEFINE m == task[w].message
  <1>1. m \in Messages /\ m \in Held(w)
    BY InHand DEF Carrying
  <1>2. /\ \A x \in Messages : msgs'[x] = IF x = m THEN row ELSE msgs[x]
        /\ \A v \in Workers : v # w => pc'[v] = pc[v] /\ task'[v] = task[v]
        /\ pc'[w] = "serving"
    BY <1>1 DEF Conclude, Claims, Shape, TypeOK
  <1>3. pc'[w] \notin Carrying
    BY <1>2 DEF Carrying
  <1> HIDE DEF m
  <1> QED
    BY <1>1, <1>2, <1>3, LedgerOfOne DEF m

\* An attempt made and its outcome lost.
LEMMA LostLedger ==
    ASSUME Claims, Ledger, NEW w \in Workers, pc[w] \in {"wire", "recording"},
           NEW place \in {"serving", "idle", "down"},
           pc' = [pc EXCEPT ![w] = place], task' = [task EXCEPT ![w] = NoTask],
           msgs' = msgs, OutcomeLost(task[w].message)
    PROVE  Ledger'
  <1> DEFINE m == task[w].message
  <1>1. m \in Messages /\ m \in Held(w)
    BY InHand
  <1>2. \A v \in Workers : v # w => pc'[v] = pc[v] /\ task'[v] = task[v]
    BY DEF Claims, Shape, TypeOK
  <1>3. pc'[w] \notin Carrying
    BY DEF Carrying, Claims, Shape, TypeOK
  <1>4. \A x \in Messages : x # m => hist'[x] = hist[x]
    BY <1>1 DEF OutcomeLost, Claims, Shape, TypeOK
  <1>5. hist[m] \in [taken : Nat, silent : Nat, unrecorded : Nat]
    BY <1>1 DEF Claims, Shape, TypeOK
  <1>6. /\ hist'[m].unrecorded = hist[m].unrecorded + 1
        /\ hist'[m].taken = hist[m].taken /\ hist'[m].silent = hist[m].silent
    BY <1>1, <1>5 DEF OutcomeLost, Claims, Shape, TypeOK
  <1>7. msgs[m].attempts \in Nat
    BY <1>1 DEF Claims, Shape, TypeOK, Row
  <1>8. RowKept(msgs[m], hist[m])
    BY <1>1 DEF Ledger
  <1> HIDE DEF m
  <1>9. RowKept(msgs'[m], hist'[m])
    BY <1>5, <1>6, <1>7, <1>8, QueueConstants DEF RowKept
  <1>10. RowWaiting(msgs'[m], hist'[m])
    BY <1>5, <1>6, <1>7, <1>8, QueueConstants DEF RowKept, RowWaiting
  <1>11. pc[w] \in Carrying => task[w].message = m
    BY DEF m
  <1> QED
    BY <1>1, <1>2, <1>3, <1>4, <1>9, <1>10, <1>11, LedgerOfOne

\* Nothing but the places of workers between deliveries changes.
LEMMA LedgerIdle ==
    ASSUME Claims, Claims', Ledger, msgs' = msgs, hist' = hist,
           \A v \in Workers : pc[v] \in Carrying \/ pc'[v] \in Carrying =>
               pc'[v] = pc[v] /\ task'[v] = task[v]
    PROVE  Ledger'
  <1>1. ASSUME NEW x \in Messages
        PROVE  RowKept(msgs'[x], hist[x]) /\ msgs'[x].attempts <= msgs[x].attempts
    BY DEF Ledger, Claims, Shape, TypeOK, Row
  <1> QED
    BY <1>1, LedgerOfRows

\* A change of columns the ledger does not read.
LEMMA LedgerOfClock ==
    ASSUME Claims, Claims', Ledger, hist' = hist, pc' = pc, task' = task,
           \A x \in Messages :
               /\ msgs'[x].status = msgs[x].status
               /\ msgs'[x].claimedBy = msgs[x].claimedBy
               /\ msgs'[x].attempts = msgs[x].attempts
               /\ msgs'[x].completed = msgs[x].completed
               /\ msgs'[x].purged => msgs[x].completed
    PROVE  Ledger'
  <1>1. ASSUME NEW x \in Messages
        PROVE  RowKept(msgs'[x], hist[x]) /\ msgs'[x].attempts <= msgs[x].attempts
    <2>1. RowKept(msgs[x], hist[x]) /\ msgs[x].attempts \in Nat
      BY DEF Ledger, Claims, Shape, TypeOK, Row
    <2> QED
      BY <2>1 DEF RowKept
  <1>2. \A v \in Workers : pc[v] \in Carrying => task[v].message \in Messages
    BY InHand DEF Carrying
  <1> QED
    BY <1>1, <1>2, LedgerOfRows

LEMMA LedgerStep ==
    ASSUME ClaimsOutliveSends, Claims, Ledger, [Next]_vars
    PROVE  Ledger'
  <1>0. Claims'
    BY ClaimsStep
  <1> USE <1>0, QueueConstants
  <1>1. ASSUME NEW m \in Messages, Accept(m) PROVE Ledger'
    <2> DEFINE new == [NoRow EXCEPT !.status = "queued", !.due = TRUE]
    <2>1. msgs[m].status = "absent" /\ msgs' = [msgs EXCEPT ![m] = new] /\ hist' = hist
          /\ pc' = pc /\ task' = task
      BY <1>1 DEF Accept, local
    <2>2. new \in Row /\ new.status = "queued" /\ new.attempts = 0 /\ ~new.completed /\ ~new.purged
      BY ConstantRecords DEF NoRow, Row, Statuses
    <2> HIDE DEF new
    <2>3. \A x \in Messages : msgs'[x] = IF x = m THEN new ELSE msgs[x]
      BY <2>1 DEF Claims, Shape, TypeOK
    <2>4. ASSUME NEW x \in Messages
          PROVE  /\ RowKept(msgs'[x], hist[x])
                 /\ msgs'[x].attempts <= msgs[x].attempts
                 /\ msgs[x].status \in Terminal => msgs'[x].status \in Terminal
      <3>1. RowKept(msgs[x], hist[x]) /\ msgs[x].attempts \in Nat
            /\ hist[x] \in [taken : Nat, silent : Nat, unrecorded : Nat]
        BY DEF Ledger, Claims, Shape, TypeOK, Row
      <3> QED
        BY <2>1, <2>2, <2>3, <3>1 DEF RowKept, Terminal
    <2>5. ASSUME NEW v \in Workers, pc[v] \in Carrying
          PROVE  msgs'[task[v].message].attempts = msgs[task[v].message].attempts
      <3>1. task[v].message \in Messages /\ msgs[task[v].message].status = "sending"
        BY <2>5, InHand DEF Carrying, Owns
      <3> QED
        BY <2>1, <2>3, <3>1
    <2> QED
      BY <2>1, <2>4, <2>5, LedgerOfRows
  <1>2. ASSUME NEW w \in Workers, Maintenance(w) PROVE Ledger'
    <2>1. PICK expired \in SUBSET {x \in Messages : Purgeable(x)} :
            msgs' = [x \in Messages |->
                       LET row == IF Reapable(msgs[x]) THEN Reaped(msgs[x]) ELSE msgs[x]
                       IN  IF x \in expired THEN [row EXCEPT !.purged = TRUE] ELSE row]
      BY <1>2 DEF Maintenance
    <2>2. ASSUME NEW x \in Messages
          PROVE  /\ RowKept(msgs'[x], hist[x])
                 /\ msgs'[x].attempts = msgs[x].attempts
                 /\ msgs[x].status \in Terminal => msgs'[x].status \in Terminal
      <3>1. msgs[x] \in Row /\ msgs'[x] \in Row /\ RowKept(msgs[x], hist[x])
        BY DEF Ledger, Claims, Shape, TypeOK
      <3>2. CASE Reapable(msgs[x])
        <4>1. x \notin expired
          BY <3>1, <3>2 DEF Purgeable, Reapable, RowKept, Terminal
        <4>2. msgs'[x] = Reaped(msgs[x])
          BY <2>1, <3>2, <4>1
        <4> QED
          BY <3>1, <3>2, <4>2 DEF Reaped, Reapable, RowKept, Row, Terminal
      <3>3. CASE ~Reapable(msgs[x])
        <4>1. msgs'[x] = IF x \in expired THEN [msgs[x] EXCEPT !.purged = TRUE] ELSE msgs[x]
          BY <2>1, <3>3
        <4>2. x \in expired => msgs[x].completed
          BY DEF Purgeable
        <4> QED
          BY <3>1, <4>1, <4>2 DEF RowKept, Row
      <3> QED
        BY <3>2, <3>3
    <2>3. ASSUME NEW x \in Messages PROVE msgs'[x].attempts <= msgs[x].attempts
      BY <2>2 DEF Claims, Shape, TypeOK, Row
    <2>4. \A v \in Workers : pc[v] \in Carrying => task[v].message \in Messages
      BY InHand DEF Carrying
    <2>5. \A v \in Workers : pc[v] \in Carrying \/ pc'[v] \in Carrying =>
             pc'[v] = pc[v] /\ task'[v] = task[v]
      BY <1>2 DEF Maintenance, Carrying, Claims, Shape, TypeOK
    <2>6. hist' = hist
      BY <1>2 DEF Maintenance
    <2> QED
      BY <2>2, <2>3, <2>4, <2>5, <2>6, LedgerOfRows
  <1>3. ASSUME NEW w \in Workers, ClaimMessages(w) PROVE Ledger'
    <2>1. PICK ids \in SUBSET {x \in Messages : Claimable(x)} :
            msgs' = [x \in Messages |-> IF x \in ids THEN Claimed(msgs[x], w) ELSE msgs[x]]
      BY <1>3 DEF ClaimMessages
    <2>2. ASSUME NEW x \in Messages
          PROVE  /\ RowKept(msgs'[x], hist[x])
                 /\ msgs'[x].attempts = msgs[x].attempts
                 /\ msgs[x].status \in Terminal => msgs'[x].status \in Terminal
      <3>1. msgs[x] \in Row /\ RowKept(msgs[x], hist[x])
        BY DEF Ledger, Claims, Shape, TypeOK
      <3>2. msgs'[x] = IF x \in ids THEN Claimed(msgs[x], w) ELSE msgs[x]
        BY <2>1
      <3>3. x \in ids => msgs[x].status \notin Terminal
        BY DEF Claimable, Terminal
      <3> QED
        BY <3>1, <3>2, <3>3 DEF Claimed, RowKept, Row, Terminal
    <2>3. ASSUME NEW x \in Messages PROVE msgs'[x].attempts <= msgs[x].attempts
      BY <2>2 DEF Claims, Shape, TypeOK, Row
    <2>4. \A v \in Workers : pc[v] \in Carrying => task[v].message \in Messages
      BY InHand DEF Carrying
    <2>5. \A v \in Workers : pc[v] \in Carrying \/ pc'[v] \in Carrying =>
             pc'[v] = pc[v] /\ task'[v] = task[v]
      BY <1>3 DEF ClaimMessages, Carrying, Claims, Shape, TypeOK
    <2>6. hist' = hist
      BY <1>3 DEF ClaimMessages
    <2> QED
      BY <2>2, <2>3, <2>4, <2>5, <2>6, LedgerOfRows
  <1>4. ASSUME NEW w \in Workers, NEW m \in Messages, ReleaseUnserved(w, m) PROVE Ledger'
    <2>1. m \in Held(w) /\ pc[w] \notin Carrying /\ pc' = pc /\ task' = task /\ hist' = hist
      BY <1>4 DEF ReleaseUnserved, Held, Carrying
    <2>2. \A x \in Messages : x # m => msgs'[x] = msgs[x]
      BY <1>4 DEF ReleaseUnserved, Claims, Shape, TypeOK
    <2>3. msgs[m] \in Row /\ msgs[m].status = "sending"
      BY <2>1 DEF Claims, ClaimHeld, Owns, Shape, TypeOK
    <2>4. msgs'[m] = [msgs[m] EXCEPT !.status = "queued", !.claimedBy = Nobody, !.stale = FALSE]
      BY <1>4, <2>3 DEF ReleaseUnserved, ReleaseClaim, Claims, Shape, TypeOK
    <2>5. ~InFlight(m)
      <3> SUFFICES ASSUME NEW v \in Workers, pc[v] \in {"wire", "recording"}, task[v].message = m
                   PROVE  FALSE
        BY DEF InFlight
      <3>1. m \in Held(v)
        BY InHand
      <3>2. v = w
        BY <2>1, <3>1, HeldByOne
      <3> QED
        BY <2>1, <3>2 DEF Carrying
    <2>6. RowKept(msgs[m], hist[m]) /\ RowWaiting(msgs[m], hist[m])
      BY <2>5 DEF Ledger
    <2>7. RowKept(msgs'[m], hist'[m]) /\ RowWaiting(msgs'[m], hist'[m])
      BY <2>1, <2>3, <2>4, <2>6 DEF RowKept, RowWaiting, Row, Terminal
    <2> QED
      BY <2>1, <2>2, <2>7, LedgerOfOne
  <1>5. ASSUME NEW w \in Workers, NEW m \in Messages, LoadMessage(w, m) PROVE Ledger'
    <2>1. m \in Held(w) /\ pc[w] \notin Carrying /\ msgs' = msgs /\ hist' = hist
      BY <1>5 DEF LoadMessage, Held, Carrying, db
    <2>2. /\ \A v \in Workers : v # w => pc'[v] = pc[v] /\ task'[v] = task[v]
          /\ pc'[w] = "loaded" /\ task'[w].message = m /\ task'[w].read = msgs[m]
      BY <1>5 DEF LoadMessage, NoTask, Claims, Shape, TypeOK
    <2>3. ~InFlight(m)
      <3> SUFFICES ASSUME NEW v \in Workers, pc[v] \in {"wire", "recording"}, task[v].message = m
                   PROVE  FALSE
        BY DEF InFlight
      <3>1. m \in Held(v)
        BY InHand
      <3>2. v = w
        BY <2>1, <3>1, HeldByOne
      <3> QED
        BY <2>1, <3>2 DEF Carrying
    <2>4. RowKept(msgs[m], hist[m]) /\ RowWaiting(msgs[m], hist[m]) /\ msgs[m].status = "sending"
      BY <2>1, <2>3 DEF Ledger, Claims, ClaimHeld, Owns
    <2>5. TaskKept(pc'[w], task'[w], msgs'[m], hist'[m])
      BY <2>1, <2>2, <2>4 DEF TaskKept, RowKept, Terminal
    <2> QED
      BY <2>1, <2>2, <2>4, <2>5, LedgerOfOne
  <1>6. ASSUME NEW w \in Workers, RateGated(w) \/ FailWithoutHost(w) PROVE Ledger'
    <2> DEFINE m == task[w].message
               deferred == Deferred(msgs[m], task[w].read, "queued")
               rejected == Completed(msgs[m], task[w].read, "permanently_rejected")
    <2>1. /\ pc[w] = "loaded" /\ batch' = batch /\ hist' = hist
          /\ Conclude(w, deferred) \/ Conclude(w, rejected)
      BY <1>6 DEF RateGated, FailWithoutHost
    <2>2. /\ m \in Messages /\ Owns(w, m) /\ task[w] \in Task
          /\ task[w].read.status = "sending" /\ task[w].read.claimedBy = w
      BY <2>1, InHand
    <2>3. msgs[m] \in Row /\ task[w].read \in Row
      BY <2>2 DEF Claims, Shape, TypeOK, Task
    <2>4. deferred \in Row /\ rejected \in Row
      BY <2>3, RowsStayRows DEF Statuses
    <2>5. /\ deferred.status = "queued" /\ deferred.attempts = msgs[m].attempts
          /\ deferred.completed = msgs[m].completed /\ deferred.purged = msgs[m].purged
          /\ rejected.status = "permanently_rejected"
          /\ rejected.attempts = msgs[m].attempts /\ rejected.completed
      BY <2>2, <2>3, SettledOwned DEF Statuses
    <2>6. ~InFlight(m)
      <3> SUFFICES ASSUME NEW v \in Workers, pc[v] \in {"wire", "recording"}, task[v].message = m
                   PROVE  FALSE
        BY DEF InFlight
      <3>1. m \in Held(v) /\ m \in Held(w)
        BY <2>1, InHand
      <3>2. v = w
        BY <2>2, <3>1, HeldByOne
      <3> QED
        BY <2>1, <3>2
    <2>7. RowKept(msgs[m], hist[m]) /\ RowWaiting(msgs[m], hist[m]) /\ msgs[m].status = "sending"
      BY <2>2, <2>6 DEF Ledger, Owns
    <2> HIDE DEF deferred, rejected
    <2>8. RowKept(deferred, hist[m]) /\ RowWaiting(deferred, hist[m])
      BY <2>5, <2>7 DEF RowKept, RowWaiting, Terminal
    <2>9. RowKept(rejected, hist[m]) /\ RowWaiting(rejected, hist[m])
      BY <2>5, <2>7 DEF RowKept, RowWaiting, Terminal
    <2> QED
      BY <2>1, <2>4, <2>8, <2>9, ConcludeLedger DEF Carrying
  <1>7. ASSUME NEW w \in Workers, StampAttempt(w) PROVE Ledger'
    <2> DEFINE m == task[w].message
    <2>1. pc[w] = "loaded" /\ hist' = hist
      BY <1>7 DEF StampAttempt
    <2>2. m \in Messages /\ m \in Held(w) /\ Owns(w, m) /\ task[w] \in Task
      BY <2>1, InHand
    <2>3. msgs[m] \in Row /\ task[w].read \in Row
      BY <2>2 DEF Claims, Shape, TypeOK, Task
    <2>4. /\ \A v \in Workers : v # w => pc'[v] = pc[v] /\ task'[v] = task[v]
          /\ \A x \in Messages : x # m => msgs'[x] = msgs[x]
          /\ msgs'[m] = Stamped(msgs[m], task[w].read, m)
          /\ pc'[w] = "wire"
          /\ task'[w] = [task[w] EXCEPT !.attempt = AttemptsAfter(m, task[w].read)]
      BY <1>7, <2>2 DEF StampAttempt, Claims, Shape, TypeOK
    <2>5. /\ task'[w].message = m /\ task'[w].read = task[w].read
          /\ task'[w].attempt = AttemptsAfter(m, task[w].read)
      BY <2>2, <2>4 DEF Task
    <2>6. /\ msgs'[m].attempts = AttemptsAfter(m, task[w].read)
          /\ msgs'[m].status = msgs[m].status /\ msgs'[m].claimedBy = msgs[m].claimedBy
          /\ msgs'[m].completed = msgs[m].completed /\ msgs'[m].purged = msgs[m].purged
      BY <2>3, <2>4 DEF Stamped, Row
    <2>7. ~InFlight(m)
      <3> SUFFICES ASSUME NEW v \in Workers, pc[v] \in {"wire", "recording"}, task[v].message = m
                   PROVE  FALSE
        BY DEF InFlight
      <3>1. m \in Held(v)
        BY InHand
      <3>2. v = w
        BY <2>2, <3>1, HeldByOne
      <3> QED
        BY <2>1, <3>2
    <2>8. /\ RowKept(msgs[m], hist[m]) /\ RowWaiting(msgs[m], hist[m])
          /\ msgs[m].status = "sending"
          /\ TaskKept("loaded", task[w], msgs[m], hist[m])
      BY <2>1, <2>2, <2>7 DEF Ledger, Owns, Carrying
    <2>9. msgs[m].attempts \in Nat /\ hist[m] \in [taken : Nat, silent : Nat, unrecorded : Nat]
      BY <2>2, <2>3 DEF Claims, Shape, TypeOK, Row
    <2>10. task[w].message = m
      OBVIOUS
    <2> HIDE DEF m
    <2>11. /\ task[w].read.attempts = msgs[m].attempts
           /\ msgs[m].attempts < MaxAttempts + hist[m].unrecorded
      BY <2>8 DEF TaskKept, RowWaiting, Terminal
    <2>12. /\ msgs'[m].attempts <= MaxAttempts + hist[m].unrecorded
           /\ RaisesAt[m] = "wire" => msgs'[m].attempts < MaxAttempts + hist[m].unrecorded
      BY <2>6, <2>9, <2>11, QueueConstants DEF AttemptsAfter
    <2>13. RowKept(msgs'[m], hist'[m])
      BY <2>1, <2>6, <2>8, <2>12 DEF RowKept
    <2>14. TaskKept(pc'[w], task'[w], msgs'[m], hist'[m])
      BY <2>1, <2>4, <2>5, <2>6, <2>8, <2>12 DEF TaskKept, RowWaiting, Terminal
    <2> QED
      BY <2>1, <2>2, <2>4, <2>5, <2>10, <2>13, <2>14, LedgerOfOne
  <1>8. ASSUME NEW w \in Workers, ProviderAnswers(w) PROVE Ledger'
    <2> DEFINE m == task[w].message
    <2>1. pc[w] = "wire" /\ msgs' = msgs
      BY <1>8 DEF ProviderAnswers, db
    <2>2. m \in Messages /\ m \in Held(w) /\ task[w] \in Task /\ task[w].message = m
      BY <2>1, InHand
    <2>3. PICK a \in AnswersFor(m), silent \in BOOLEAN :
            /\ silent => MayBeTaken(a)
            /\ task' = [task EXCEPT ![w] =
                         [@ EXCEPT !.answer = a, !.read = msgs[m],
                                   !.known = suppressed \intersect a.dead]]
            /\ hist' = [hist EXCEPT ![m] = Witnessed(@, a.ok, silent)]
      BY <1>8 DEF ProviderAnswers
    <2>4. a.ok \in BOOLEAN
      BY <2>2, ConstantRecords DEF Answer
    <2>5. task'[w] = [task[w] EXCEPT !.answer = a, !.read = msgs[m],
                                     !.known = suppressed \intersect a.dead]
      BY <2>3 DEF Claims, Shape, TypeOK
    <2>6. task'[w].message = m /\ task'[w].answer = a /\ task'[w].attempt = task[w].attempt
      BY <2>2, <2>5 DEF Task
    <2>7. /\ \A v \in Workers : v # w => pc'[v] = pc[v] /\ task'[v] = task[v]
          /\ \A x \in Messages : x # m => hist'[x] = hist[x]
          /\ pc'[w] = "recording"
      BY <1>8, <2>2, <2>3 DEF ProviderAnswers, Claims, Shape, TypeOK
    <2>8. hist'[m] = Witnessed(hist[m], a.ok, silent)
      BY <2>2, <2>3 DEF Claims, Shape, TypeOK
    <2>9. /\ hist'[m].taken = IF a.ok \/ silent THEN hist[m].taken + 1 ELSE hist[m].taken
          /\ hist'[m].silent = IF silent THEN hist[m].silent + 1 ELSE hist[m].silent
          /\ hist'[m].unrecorded = hist[m].unrecorded
      BY <2>8 DEF Witnessed
    <2>10. RowKept(msgs[m], hist[m]) /\ TaskKept("wire", task[w], msgs[m], hist[m])
      BY <2>1, <2>2 DEF Ledger, Carrying
    <2>11. hist[m] \in [taken : Nat, silent : Nat, unrecorded : Nat]
      BY <2>2 DEF Claims, Shape, TypeOK
    <2>12. silent => ~a.ok
      BY <2>3 DEF MayBeTaken
    <2> HIDE DEF m
    <2>13. hist[m].taken <= hist[m].unrecorded + hist[m].silent
      BY <2>10 DEF TaskKept
    <2>14. RowKept(msgs'[m], hist'[m])
      BY <2>1, <2>4, <2>9, <2>10, <2>11, <2>12, <2>13 DEF RowKept
    <2>15. /\ a.ok => hist'[m].taken > 0
           /\ ~a.ok => hist'[m].taken <= hist'[m].unrecorded + hist'[m].silent
      BY <2>4, <2>9, <2>11, <2>13
    <2>16. TaskKept(pc'[w], task'[w], msgs'[m], hist'[m])
      BY <2>1, <2>6, <2>7, <2>10, <2>15 DEF TaskKept
    <2> QED
      BY <2>1, <2>2, <2>6, <2>7, <2>14, <2>16, LedgerOfOne
  <1>9. ASSUME NEW w \in Workers, RecordOutcome(w) PROVE Ledger'
    <2> DEFINE m == task[w].message
               taken == Completed(msgs[m], task[w].read, "accepted_by_provider")
               deferred == Deferred(msgs[m], task[w].read, "temporarily_failed")
               rejected == Completed(msgs[m], task[w].read, "permanently_rejected")
    <2>1. /\ pc[w] = "recording" /\ batch' = batch /\ hist' = hist
          /\ Conclude(w, Outcome(msgs[m], task[w]))
      BY <1>9 DEF RecordOutcome
    <2>2. /\ m \in Messages /\ Owns(w, m) /\ task[w] \in Task
          /\ task[w].read.status = "sending" /\ task[w].read.claimedBy = w
      BY <2>1, InHand
    <2>3. msgs[m] \in Row /\ task[w].read \in Row
      BY <2>2 DEF Claims, Shape, TypeOK, Task
    <2>4. taken \in Row /\ deferred \in Row /\ rejected \in Row
      BY <2>3, RowsStayRows DEF Statuses
    <2>5. /\ taken.status = "accepted_by_provider" /\ taken.attempts = msgs[m].attempts
          /\ taken.completed
          /\ deferred.status = "temporarily_failed" /\ deferred.attempts = msgs[m].attempts
          /\ deferred.completed = msgs[m].completed /\ deferred.purged = msgs[m].purged
          /\ rejected.status = "permanently_rejected"
          /\ rejected.attempts = msgs[m].attempts /\ rejected.completed
      BY <2>2, <2>3, SettledOwned DEF Statuses
    <2>6. /\ RowKept(msgs[m], hist[m]) /\ msgs[m].status = "sending"
          /\ TaskKept("recording", task[w], msgs[m], hist[m])
      BY <2>1, <2>2 DEF Ledger, Owns, Carrying
    <2>7. hist[m] \in [taken : Nat, silent : Nat, unrecorded : Nat]
          /\ msgs[m].attempts \in Nat
      BY <2>2, <2>3 DEF Claims, Shape, TypeOK, Row
    <2>8. \/ task[w].answer.ok /\ Outcome(msgs[m], task[w]) = taken
          \/ /\ ~task[w].answer.ok /\ task[w].attempt < MaxAttempts
             /\ Outcome(msgs[m], task[w]) = deferred
          \/ Outcome(msgs[m], task[w]) = rejected
      BY DEF Outcome, MayRetry
    <2> HIDE DEF taken, deferred, rejected
    <2>9. task[w].answer.ok => RowKept(taken, hist[m]) /\ RowWaiting(taken, hist[m])
      BY <2>5, <2>6 DEF RowKept, RowWaiting, TaskKept, Terminal
    <2>10. ~task[w].answer.ok /\ task[w].attempt < MaxAttempts
             => RowKept(deferred, hist[m]) /\ RowWaiting(deferred, hist[m])
      BY <2>5, <2>6, <2>7 DEF RowKept, RowWaiting, TaskKept, Terminal
    <2>11. RowKept(rejected, hist[m]) /\ RowWaiting(rejected, hist[m])
      BY <2>5, <2>6 DEF RowKept, RowWaiting, Terminal
    <2> DEFINE written == Outcome(msgs[m], task[w])
    <2>12. written \in Row /\ RowKept(written, hist[m]) /\ RowWaiting(written, hist[m])
      BY <2>4, <2>8, <2>9, <2>10, <2>11
    <2> HIDE DEF written
    <2>13. Conclude(w, written)
      BY <2>1 DEF written
    <2> QED
      BY <2>1, <2>12, <2>13, ConcludeLedger DEF Carrying
  <1>10. ASSUME NEW w \in Workers, LoseOutcome(w) PROVE Ledger'
    <2>1. /\ pc[w] \in {"wire", "recording"} /\ msgs' = msgs
          /\ task' = [task EXCEPT ![w] = NoTask] /\ OutcomeLost(task[w].message)
          /\ \E place \in {"serving", "idle", "down"} : pc' = [pc EXCEPT ![w] = place]
      BY <1>10 DEF LoseOutcome, db
    <2> QED
      BY <2>1, LostLedger
  <1>11. ASSUME NEW w \in Workers, UnexpectedError(w) \/ Crash(w) PROVE Ledger'
    <2>1. /\ Abandon(w) /\ msgs' = msgs /\ task' = [task EXCEPT ![w] = NoTask]
          /\ \E place \in {"serving", "idle", "down"} : pc' = [pc EXCEPT ![w] = place]
      BY <1>11 DEF UnexpectedError, Crash, Abandon, db
    <2>2. CASE pc[w] \in {"wire", "recording"}
      BY <2>1, <2>2, LostLedger DEF Abandon
    <2>3. CASE pc[w] \notin {"wire", "recording"}
      <3>1. hist' = hist
        BY <2>1, <2>3 DEF Abandon
      <3>2. CASE pc[w] \notin Carrying
        <4>1. \A v \in Workers : pc[v] \in Carrying \/ pc'[v] \in Carrying =>
                 pc'[v] = pc[v] /\ task'[v] = task[v]
          BY <2>1, <3>2 DEF Carrying, Claims, Shape, TypeOK
        <4> QED
          BY <2>1, <3>1, <4>1, LedgerIdle
      <3>3. CASE pc[w] \in Carrying
        <4> DEFINE m == task[w].message
        <4>1. m \in Messages /\ m \in Held(w) /\ pc[w] = "loaded" /\ task[w].message = m
          BY <2>3, <3>3, InHand DEF Carrying
        <4>2. ~InFlight(m)
          <5> SUFFICES ASSUME NEW v \in Workers, pc[v] \in {"wire", "recording"},
                              task[v].message = m
                       PROVE  FALSE
            BY DEF InFlight
          <5>1. m \in Held(v)
            BY InHand
          <5>2. v = w
            BY <4>1, <5>1, HeldByOne
          <5> QED
            BY <4>1, <5>2
        <4>3. RowKept(msgs[m], hist[m]) /\ RowWaiting(msgs[m], hist[m])
          BY <4>1, <4>2 DEF Ledger
        <4>4. \A v \in Workers : v # w => pc'[v] = pc[v] /\ task'[v] = task[v]
          BY <2>1 DEF Claims, Shape, TypeOK
        <4>5. pc'[w] \notin Carrying
          BY <2>1 DEF Carrying, Claims, Shape, TypeOK
        <4> HIDE DEF m
        <4> QED
          BY <2>1, <3>1, <4>1, <4>3, <4>4, <4>5, LedgerOfOne
      <3> QED
        BY <3>2, <3>3
    <2> QED
      BY <2>2, <2>3
  <1>12. ASSUME NEW w \in Workers,
                Iterate(w) \/ NothingToClaim(w) \/ FinishBatch(w) \/ Stop(w)
                  \/ RequestShutdown(w) \/ Restart(w)
         PROVE  Ledger'
    <2>1. msgs' = msgs /\ hist' = hist
      BY <1>12 DEF Iterate, NothingToClaim, FinishBatch, Stop, RequestShutdown, Restart, db
    <2>2. \A v \in Workers : pc[v] \in Carrying \/ pc'[v] \in Carrying =>
             pc'[v] = pc[v] /\ task'[v] = task[v]
      BY <1>12 DEF Iterate, NothingToClaim, FinishBatch, Stop, RequestShutdown, Restart,
                   Carrying, Claims, Shape, TypeOK
    <2> QED
      BY <2>1, <2>2, LedgerIdle
  <1>13. ASSUME \/ \E a \in Addresses : AddSuppression(a) \/ RemoveSuppression(a)
                \/ UNCHANGED vars
         PROVE  Ledger'
    <2>1. msgs' = msgs /\ hist' = hist /\ pc' = pc /\ task' = task
      BY <1>13 DEF AddSuppression, RemoveSuppression, vars, local, db
    <2> QED
      BY <2>1, LedgerIdle
  <1>14. ASSUME NEW m \in Messages, ClaimAges(m) \/ BecomesDue(m) \/ WindowSlides(m)
         PROVE  Ledger'
    <2>1. hist' = hist /\ pc' = pc /\ task' = task
      BY <1>14 DEF ClaimAges, BecomesDue, WindowSlides, local
    <2>2. ASSUME NEW x \in Messages
          PROVE  /\ msgs'[x].status = msgs[x].status
                 /\ msgs'[x].claimedBy = msgs[x].claimedBy
                 /\ msgs'[x].attempts = msgs[x].attempts
                 /\ msgs'[x].completed = msgs[x].completed
                 /\ msgs'[x].purged => msgs[x].completed
      <3>1. msgs[x] \in Row /\ RowKept(msgs[x], hist[x])
        BY DEF Ledger, Claims, Shape, TypeOK
      <3>2. \/ msgs'[x] = msgs[x]
            \/ msgs'[x] = [msgs[x] EXCEPT !.stale = TRUE]
            \/ msgs'[x] = [msgs[x] EXCEPT !.due = TRUE]
            \/ msgs'[x] = [msgs[x] EXCEPT !.recent = FALSE]
        BY <1>14 DEF ClaimAges, BecomesDue, WindowSlides, Claims, Shape, TypeOK
      <3> QED
        BY <3>1, <3>2 DEF Row, RowKept
    <2> QED
      BY <2>1, <2>2, LedgerOfClock
  <1>15. ASSUME NEW w \in Workers, DeliveryRaises(w) PROVE Ledger'
    <2> DEFINE m == task[w].message
    <2>1. /\ pc[w] \in {"loaded", "wire"} /\ pc[w] = RaisesAt[m]
          /\ msgs' = msgs /\ hist' = hist
      BY <1>15 DEF DeliveryRaises, Raises, db
    <2>2. m \in Messages /\ m \in Held(w) /\ task[w].message = m
      BY <2>1, InHand
    <2>3. \A v \in Workers : v # w => pc'[v] = pc[v] /\ task'[v] = task[v]
      BY <1>15 DEF DeliveryRaises, Claims, Shape, TypeOK
    <2>4. pc'[w] \notin Carrying
      BY <1>15 DEF DeliveryRaises, Carrying, Claims, Shape, TypeOK
    <2>5. RowKept(msgs[m], hist[m])
      BY <2>2 DEF Ledger
    <2>6. RowWaiting(msgs[m], hist[m])
      <3>1. CASE pc[w] = "loaded"
        <4>1. ~InFlight(m)
          <5> SUFFICES ASSUME NEW v \in Workers, pc[v] \in {"wire", "recording"},
                              task[v].message = m
                       PROVE  FALSE
            BY DEF InFlight
          <5>1. m \in Held(v)
            BY InHand
          <5>2. v = w
            BY <2>2, <5>1, HeldByOne
          <5> QED
            BY <3>1, <5>2
        <4> QED
          BY <2>2, <4>1 DEF Ledger
      <3>2. CASE pc[w] = "wire"
        <4>1. TaskKept("wire", task[w], msgs[m], hist[m])
          BY <2>2, <3>2 DEF Ledger, Carrying
        <4> QED
          BY <2>1, <3>2, <4>1 DEF TaskKept, RowWaiting
      <3> QED
        BY <2>1, <3>1, <3>2
    <2> HIDE DEF m
    <2> QED
      BY <2>1, <2>2, <2>3, <2>4, <2>5, <2>6, LedgerOfOne
  <1> QED
    BY <1>1, <1>2, <1>3, <1>4, <1>5, <1>6, <1>7, <1>8, <1>9, <1>10, <1>11, <1>12, <1>13, <1>14, <1>15
       DEF Next, WorkerStep, Clock

LEMMA LedgerAlways == ClaimsOutliveSends => (Spec => [](Claims /\ Ledger))
  <1> SUFFICES ASSUME ClaimsOutliveSends PROVE Spec => [](Claims /\ Ledger)
    OBVIOUS
  <1>1. Init => Claims /\ Ledger
    BY ClaimsInit, LedgerInit
  <1>2. Claims /\ Ledger /\ [Next]_vars => Claims' /\ Ledger'
    BY ClaimsStep, LedgerStep
  <1> QED
    BY <1>1, <1>2, PTL DEF Spec

\* A row left in `sending` always carries the claim the reaper finds it by.
THEOREM NothingIsStranded == ClaimsOutliveSends => (Spec => []NothingStranded)
  <1>1. Claims /\ Ledger => NothingStranded
    BY DEF Ledger, RowKept, NothingStranded
  <1> QED
    BY <1>1, LedgerAlways, PTL

\* What goes on the wire still has its body: the retention pass never drops the
\* body of a message that is yet to be sent.
THEOREM BodiesReachTheWire == ClaimsOutliveSends => (Spec => []BodyOnTheWire)
  <1>1. Claims /\ Ledger => BodyOnTheWire
    BY DEF Ledger, TaskKept, Carrying, BodyOnTheWire
  <1> QED
    BY <1>1, LedgerAlways, PTL

\* A second copy always has a lost answer or a lost outcome to explain it.
THEOREM DuplicatesAreExplained == ClaimsOutliveSends => (Spec => []DuplicatesExplained)
  <1>1. Claims /\ Ledger => DuplicatesExplained
    BY DEF Ledger, RowKept, DuplicatesExplained
  <1> QED
    BY <1>1, LedgerAlways, PTL

\* MAX_ATTEMPTS bounds the attempts, but for those whose outcome was lost.
THEOREM AttemptsAreAccounted == ClaimsOutliveSends => (Spec => []AttemptsAccounted)
  <1>1. Claims /\ Ledger => AttemptsAccounted
    BY DEF Ledger, RowKept, AttemptsAccounted
  <1> QED
    BY <1>1, LedgerAlways, PTL

-----------------------------------------------------------------------------
(* The promise to the client *)

\* A step that moves the fate or the copies of no message is invisible to it.
LEMMA PromiseStutters ==
    ASSUME \A x \in Messages : FateOf(msgs'[x].status) = FateOf(msgs[x].status),
           \A x \in Messages : hist'[x].taken = hist[x].taken
    PROVE  UNCHANGED Promise!vars
  BY DEF Promise!vars

\* A step on one message, as the client sees it.
LEMMA PromiseMoves ==
    ASSUME NEW m \in Messages,
           \A x \in Messages \ {m} : /\ msgs'[x].status = msgs[x].status
                                     /\ hist'[x].taken = hist[x].taken,
           \/ /\ msgs[m].status = "absent" /\ FateOf(msgs'[m].status) = "pending"
              /\ hist'[m].taken = hist[m].taken
           \/ /\ FateOf(msgs[m].status) = "pending" /\ msgs'[m].status = msgs[m].status
              /\ hist'[m].taken = hist[m].taken + 1
           \/ /\ FateOf(msgs[m].status) = "pending" /\ hist'[m].taken = hist[m].taken
              /\ \/ FateOf(msgs'[m].status) = "rejected"
                 \/ FateOf(msgs'[m].status) = "accepted" /\ hist[m].taken > 0
    PROVE  Promise!Next
  <1> DEFINE fate == [x \in Messages |-> FateOf(msgs[x].status)]
             copies == [x \in Messages |-> hist[x].taken]
             told == [x \in Messages |-> FateOf(msgs'[x].status)]
             counted == [x \in Messages |-> hist'[x].taken]
  <1>1. \A x \in Messages : x # m => told[x] = fate[x] /\ counted[x] = copies[x]
    OBVIOUS
  <1>2. CASE msgs[m].status = "absent" /\ FateOf(msgs'[m].status) = "pending"
              /\ hist'[m].taken = hist[m].taken
    <2>1. fate[m] = "unknown"
      BY <1>2 DEF FateOf
    <2>2. told = [fate EXCEPT ![m] = "pending"] /\ counted = copies
      BY <1>1, <1>2
    <2>3. Promise!Undertake(m)
      BY <2>1, <2>2 DEF Promise!Undertake
    <2> QED
      BY <2>3 DEF Promise!Next
  <1>3. CASE FateOf(msgs[m].status) = "pending" /\ msgs'[m].status = msgs[m].status
              /\ hist'[m].taken = hist[m].taken + 1
    <2>1. fate[m] = "pending" /\ told = fate /\ counted = [copies EXCEPT ![m] = @ + 1]
      BY <1>1, <1>3
    <2>2. Promise!HandOver(m)
      BY <2>1 DEF Promise!HandOver
    <2> QED
      BY <2>2 DEF Promise!Next
  <1>4. CASE /\ FateOf(msgs[m].status) = "pending" /\ hist'[m].taken = hist[m].taken
             /\ \/ FateOf(msgs'[m].status) = "rejected"
                \/ FateOf(msgs'[m].status) = "accepted" /\ hist[m].taken > 0
    <2>1. /\ fate[m] = "pending" /\ counted = copies
          /\ \/ copies[m] > 0 /\ told = [fate EXCEPT ![m] = "accepted"]
             \/ told = [fate EXCEPT ![m] = "rejected"]
      BY <1>1, <1>4
    <2>2. Promise!Settle(m)
      BY <2>1 DEF Promise!Settle
    <2> QED
      BY <2>2 DEF Promise!Next
  <1> QED
    BY <1>2, <1>3, <1>4

\* No copies are counted but by ProviderAnswers.
LEMMA CountedOnTheWire ==
    ASSUME Claims, [Next]_vars, \A w \in Workers : ~ProviderAnswers(w), NEW x \in Messages
    PROVE  hist'[x].taken = hist[x].taken
  <1> USE DEF Claims, Shape, TypeOK
  <1>1. ASSUME NEW w \in Workers, LoseOutcome(w) PROVE hist'[x].taken = hist[x].taken
    BY <1>1 DEF LoseOutcome, OutcomeLost
  <1>2. ASSUME NEW w \in Workers, UnexpectedError(w) \/ Crash(w)
        PROVE  hist'[x].taken = hist[x].taken
    <2>1. hist' = hist \/ OutcomeLost(task[w].message)
      BY <1>2 DEF UnexpectedError, Crash, Abandon
    <2> QED
      BY <2>1 DEF OutcomeLost
  <1>3. ASSUME NEW w \in Workers,
               \/ Iterate(w) \/ Maintenance(w) \/ ClaimMessages(w) \/ NothingToClaim(w)
               \/ FinishBatch(w) \/ Stop(w) \/ RateGated(w) \/ FailWithoutHost(w)
               \/ StampAttempt(w) \/ RecordOutcome(w) \/ RequestShutdown(w) \/ Restart(w)
               \/ DeliveryRaises(w) \/ \E m \in Messages : ReleaseUnserved(w, m) \/ LoadMessage(w, m)
        PROVE  hist' = hist
    BY <1>3 DEF Iterate, Maintenance, ClaimMessages, NothingToClaim, FinishBatch, Stop,
                RateGated, FailWithoutHost, StampAttempt, RecordOutcome, RequestShutdown,
                Restart, ReleaseUnserved, LoadMessage, DeliveryRaises
  <1>4. ASSUME \/ \E m \in Messages : Accept(m) \/ ClaimAges(m) \/ BecomesDue(m) \/ WindowSlides(m)
               \/ \E a \in Addresses : AddSuppression(a) \/ RemoveSuppression(a)
               \/ UNCHANGED vars
        PROVE  hist' = hist
    BY <1>4 DEF Accept, ClaimAges, BecomesDue, WindowSlides, AddSuppression,
                RemoveSuppression, vars
  <1> QED
    BY <1>1, <1>2, <1>3, <1>4 DEF Next, WorkerStep, Clock

\* A row that is on the queue before and after.
Pending(status) == status \notin Terminal \union {"absent"}

LEMMA PendingFate ==
    ASSUME NEW status
    PROVE  Pending(status) <=> FateOf(status) = "pending"
  BY DEF Pending, Terminal, FateOf

\* Statuses change only as the client may see them change.
LEMMA StatusMoves ==
    ASSUME Claims, Ledger, [Next]_vars, NEW x \in Messages,
           \A m \in Messages : ~Accept(m),
           \A w \in Workers : ~FailWithoutHost(w) /\ ~RecordOutcome(w)
    PROVE  \/ msgs'[x].status = msgs[x].status
           \/ Pending(msgs[x].status) /\ Pending(msgs'[x].status)
  <1> USE DEF Pending, Terminal
  <1>1. msgs[x] \in Row
    BY DEF Claims, Shape, TypeOK
  <1>2. ASSUME NEW w \in Workers, Maintenance(w)
        PROVE  \/ msgs'[x].status = msgs[x].status
               \/ Pending(msgs[x].status) /\ Pending(msgs'[x].status)
    <2>1. PICK expired \in SUBSET Messages :
            msgs' = [m \in Messages |->
                       LET row == IF Reapable(msgs[m]) THEN Reaped(msgs[m]) ELSE msgs[m]
                       IN  IF m \in expired THEN [row EXCEPT !.purged = TRUE] ELSE row]
      BY <1>2 DEF Maintenance
    <2>2. CASE Reapable(msgs[x])
      <3>1. Reaped(msgs[x]) \in Row /\ Reaped(msgs[x]).status = "temporarily_failed"
        BY <1>1, RowsStayRows DEF Reaped, Row
      <3>2. msgs'[x].status = "temporarily_failed"
        BY <2>1, <2>2, <3>1 DEF Row
      <3> QED
        BY <2>2, <3>2 DEF Reapable
    <2>3. CASE ~Reapable(msgs[x])
      BY <1>1, <2>1, <2>3 DEF Row
    <2> QED
      BY <2>2, <2>3
  <1>3. ASSUME NEW w \in Workers, ClaimMessages(w)
        PROVE  \/ msgs'[x].status = msgs[x].status
               \/ Pending(msgs[x].status) /\ Pending(msgs'[x].status)
    <2>1. PICK ids \in SUBSET {m \in Messages : Claimable(m)} :
            msgs' = [m \in Messages |-> IF m \in ids THEN Claimed(msgs[m], w) ELSE msgs[m]]
      BY <1>3 DEF ClaimMessages
    <2> QED
      BY <1>1, <2>1 DEF Claimable, Claimed, Row
  <1>4. ASSUME NEW w \in Workers, NEW m \in Messages, ReleaseUnserved(w, m)
        PROVE  \/ msgs'[x].status = msgs[x].status
               \/ Pending(msgs[x].status) /\ Pending(msgs'[x].status)
    <2>1. msgs'[x] = IF x = m THEN ReleaseClaim(msgs[x]) ELSE msgs[x]
      BY <1>4 DEF ReleaseUnserved, Claims, Shape, TypeOK
    <2> QED
      BY <1>1, <2>1 DEF ReleaseClaim, Row
  <1>5. ASSUME NEW w \in Workers, RateGated(w)
        PROVE  \/ msgs'[x].status = msgs[x].status
               \/ Pending(msgs[x].status) /\ Pending(msgs'[x].status)
    <2> DEFINE m == task[w].message
    <2>1. /\ m \in Messages /\ msgs[m].status = "sending" /\ task[w] \in Task
          /\ task[w].read.status = "sending" /\ task[w].read.claimedBy = w
      BY <1>5, InHand DEF RateGated, Owns
    <2>2. msgs[m] \in Row /\ task[w].read \in Row
      BY <2>1 DEF Claims, Shape, TypeOK, Task
    <2>3. Deferred(msgs[m], task[w].read, "queued").status = "queued"
      BY <2>1, <2>2, SettledOwned, QueueConstants DEF Statuses
    <2>4. msgs'[x] = IF x = m THEN Deferred(msgs[m], task[w].read, "queued") ELSE msgs[x]
      BY <1>5, <2>1 DEF RateGated, Conclude, Claims, Shape, TypeOK
    <2> QED
      BY <2>1, <2>3, <2>4
  <1>6. ASSUME NEW w \in Workers, StampAttempt(w) PROVE msgs'[x].status = msgs[x].status
    <2>1. \/ msgs'[x] = msgs[x]
          \/ msgs'[x] = Stamped(msgs[x], task[w].read, x)
      BY <1>6 DEF StampAttempt, Claims, Shape, TypeOK
    <2> QED
      BY <1>1, <2>1 DEF Stamped, Row
  <1>7. ASSUME NEW m \in Messages, ClaimAges(m) \/ BecomesDue(m) \/ WindowSlides(m)
        PROVE  msgs'[x].status = msgs[x].status
    <2>1. \/ msgs'[x] = msgs[x]
          \/ msgs'[x] = [msgs[x] EXCEPT !.stale = TRUE]
          \/ msgs'[x] = [msgs[x] EXCEPT !.due = TRUE]
          \/ msgs'[x] = [msgs[x] EXCEPT !.recent = FALSE]
      BY <1>7 DEF ClaimAges, BecomesDue, WindowSlides, Claims, Shape, TypeOK
    <2> QED
      BY <1>1, <2>1 DEF Row
  <1>8. ASSUME NEW w \in Workers,
               \/ Iterate(w) \/ NothingToClaim(w) \/ FinishBatch(w) \/ Stop(w)
               \/ ProviderAnswers(w) \/ LoseOutcome(w) \/ RequestShutdown(w)
               \/ UnexpectedError(w) \/ Crash(w) \/ Restart(w) \/ DeliveryRaises(w)
               \/ \E m \in Messages : LoadMessage(w, m)
        PROVE  msgs' = msgs
    BY <1>8 DEF DeliveryRaises, LoadMessage, Iterate, NothingToClaim, FinishBatch, Stop, ProviderAnswers,
                LoseOutcome, RequestShutdown, UnexpectedError, Crash, Abandon, Restart, db
  <1>9. ASSUME \/ \E a \in Addresses : AddSuppression(a) \/ RemoveSuppression(a)
               \/ UNCHANGED vars
        PROVE  msgs' = msgs
    BY <1>9 DEF AddSuppression, RemoveSuppression, vars, db
  <1> QED
    BY <1>2, <1>3, <1>4, <1>5, <1>6, <1>7, <1>8, <1>9 DEF Next, WorkerStep, Clock

LEMMA PromiseStep ==
    ASSUME ClaimsOutliveSends, Claims, Ledger, [Next]_vars
    PROVE  [Promise!Next]_(Promise!vars)
  <1>1. ASSUME NEW m \in Messages, Accept(m) PROVE Promise!Next
    <2>1. /\ \A x \in Messages \ {m} : msgs'[x].status = msgs[x].status
          /\ msgs[m].status = "absent" /\ hist' = hist
          /\ msgs'[m] = [NoRow EXCEPT !.status = "queued", !.due = TRUE]
      BY <1>1 DEF Accept, Claims, Shape, TypeOK
    <2>2. FateOf(msgs'[m].status) = "pending"
      BY <2>1 DEF NoRow, FateOf
    <2> QED
      BY <2>1, <2>2, PromiseMoves
  <1>2. ASSUME NEW w \in Workers, ProviderAnswers(w)
        PROVE  [Promise!Next]_(Promise!vars)
    <2> DEFINE m == task[w].message
    <2>1. m \in Messages /\ msgs[m].status = "sending" /\ msgs' = msgs
      BY <1>2, InHand DEF ProviderAnswers, Owns, db
    <2>2. PICK a \in AnswersFor(m), silent \in BOOLEAN :
            hist' = [hist EXCEPT ![m] = Witnessed(@, a.ok, silent)]
      BY <1>2 DEF ProviderAnswers
    <2>3. \A x \in Messages \ {m} : hist'[x] = hist[x]
      BY <2>2 DEF Claims, Shape, TypeOK
    <2>4. hist'[m].taken = hist[m].taken \/ hist'[m].taken = hist[m].taken + 1
      BY <2>1, <2>2 DEF Witnessed, Claims, Shape, TypeOK
    <2>5. FateOf(msgs[m].status) = "pending"
      BY <2>1 DEF FateOf
    <2> HIDE DEF m
    <2>6. CASE hist'[m].taken = hist[m].taken + 1
      BY <2>1, <2>3, <2>5, <2>6, PromiseMoves
    <2>7. CASE hist'[m].taken = hist[m].taken
      BY <2>1, <2>3, <2>7, PromiseStutters
    <2> QED
      BY <2>4, <2>6, <2>7
  <1>3. ASSUME NEW w \in Workers, FailWithoutHost(w) \/ RecordOutcome(w)
        PROVE  [Promise!Next]_(Promise!vars)
    <2> DEFINE m == task[w].message
               row == IF pc[w] = "loaded"
                      THEN Completed(msgs[m], task[w].read, "permanently_rejected")
                      ELSE Outcome(msgs[m], task[w])
    <2>1. /\ pc[w] \in {"loaded", "recording"} /\ hist' = hist
          /\ msgs' = [msgs EXCEPT ![m] = row]
      BY <1>3 DEF FailWithoutHost, RecordOutcome, Conclude
    <2>2. /\ m \in Messages /\ msgs[m].status = "sending" /\ task[w] \in Task
          /\ task[w].read.status = "sending" /\ task[w].read.claimedBy = w
      BY <2>1, InHand DEF Owns
    <2>3. msgs[m] \in Row /\ task[w].read \in Row
      BY <2>2 DEF Claims, Shape, TypeOK, Task
    <2>4. /\ Completed(msgs[m], task[w].read, "accepted_by_provider").status = "accepted_by_provider"
          /\ Completed(msgs[m], task[w].read, "permanently_rejected").status = "permanently_rejected"
          /\ Deferred(msgs[m], task[w].read, "temporarily_failed").status = "temporarily_failed"
      BY <2>2, <2>3, SettledOwned, QueueConstants DEF Statuses
    <2>5. /\ msgs'[m] = row
          /\ \A x \in Messages : x # m => msgs'[x] = msgs[x]
      BY <2>1, <2>2 DEF Claims, Shape, TypeOK
    <2>6. FateOf(msgs[m].status) = "pending"
      BY <2>2 DEF FateOf
    <2>7. \/ row.status = "permanently_rejected"
          \/ row.status = "temporarily_failed"
          \/ row.status = "accepted_by_provider" /\ hist[m].taken > 0
      <3>1. CASE pc[w] = "loaded"
        BY <2>4, <3>1
      <3>2. CASE pc[w] = "recording"
        <4>1. TaskKept("recording", task[w], msgs[m], hist[m])
          BY <2>2, <3>2 DEF Ledger, Carrying
        <4> QED
          BY <2>4, <3>2, <4>1 DEF TaskKept, Outcome
      <3> QED
        BY <2>1, <3>1, <3>2
    <2> HIDE DEF m, row
    <2>8. CASE row.status = "temporarily_failed"
      <3>1. FateOf(row.status) = "pending"
        BY <2>8 DEF FateOf
      <3> QED
        BY <2>1, <2>5, <2>6, <3>1, PromiseStutters
    <2>9. CASE row.status = "permanently_rejected"
      <3>1. FateOf(msgs'[m].status) = "rejected"
        BY <2>5, <2>9 DEF FateOf
      <3> QED
        BY <2>1, <2>2, <2>5, <2>6, <3>1, PromiseMoves
    <2>10. CASE row.status = "accepted_by_provider" /\ hist[m].taken > 0
      <3>1. FateOf(msgs'[m].status) = "accepted"
        BY <2>5, <2>10 DEF FateOf
      <3> QED
        BY <2>1, <2>2, <2>5, <2>6, <2>10, <3>1, PromiseMoves
    <2> QED
      BY <2>7, <2>8, <2>9, <2>10
  <1>4. ASSUME \A m \in Messages : ~Accept(m),
               \A w \in Workers : ~ProviderAnswers(w) /\ ~FailWithoutHost(w) /\ ~RecordOutcome(w)
        PROVE  UNCHANGED Promise!vars
    <2>1. \A x \in Messages : hist'[x].taken = hist[x].taken
      BY <1>4, CountedOnTheWire
    <2>2. \A x \in Messages : FateOf(msgs'[x].status) = FateOf(msgs[x].status)
      BY <1>4, StatusMoves, PendingFate
    <2> QED
      BY <2>1, <2>2, PromiseStutters
  <1> QED
    BY <1>1, <1>2, <1>3, <1>4

\* Whatever the workers, the reaper and the crashes do, and whichever messages cannot
\* be sent, a client sees a message undertaken, handed over and settled once, if ever.
THEOREM PromiseKept == ClaimsOutliveSends => (Spec => KeepsPromise)
  <1> SUFFICES ASSUME ClaimsOutliveSends PROVE Spec => KeepsPromise
    OBVIOUS
  <1>1. Init => Promise!Init
    BY DEF Init, NoRow, FateOf, Promise!Init
  <1>2. Claims /\ Ledger /\ [Next]_vars => [Promise!Next]_(Promise!vars)
    BY PromiseStep
  <1> QED
    BY <1>1, <1>2, LedgerAlways, PTL DEF Spec, KeepsPromise, Promise!Spec

-----------------------------------------------------------------------------
(* The rate gate *)

\* The workers that have passed the gate and not yet stamped their attempt.
Passing(mb) ==
    {w \in Workers : /\ pc[w] = "loaded" /\ ~task[w].gated
                     /\ MailboxOf[task[w].message] = mb}

\* The inductive strengthening of GateOvershootBounded: an attempt stamped takes
\* the place of a worker that had passed.
GateCounted ==
    \A mb \in Mailboxes :
        Cardinality(RecentRows(mb)) + Cardinality(Passing(mb))
            < Ceiling + Cardinality(Workers)

LEMMA GateFinite ==
    /\ \A mb \in Mailboxes :
          /\ IsFiniteSet(RecentRows(mb)) /\ Cardinality(RecentRows(mb)) \in Nat
          /\ IsFiniteSet(Passing(mb)) /\ Cardinality(Passing(mb)) \in Nat
          /\ Cardinality(Passing(mb)) <= Cardinality(Workers)
    /\ Cardinality(Workers) \in Nat
  <1>1. IsFiniteSet(Messages) /\ IsFiniteSet(Workers)
    BY QueueConstants
  <1>2. Cardinality(Workers) \in Nat
    BY <1>1, FS_CardinalityType
  <1>3. ASSUME NEW mb \in Mailboxes
        PROVE  /\ IsFiniteSet(RecentRows(mb)) /\ Cardinality(RecentRows(mb)) \in Nat
               /\ IsFiniteSet(Passing(mb)) /\ Cardinality(Passing(mb)) \in Nat
               /\ Cardinality(Passing(mb)) <= Cardinality(Workers)
    <2>1. RecentRows(mb) \subseteq Messages /\ Passing(mb) \subseteq Workers
      BY DEF RecentRows, Passing
    <2> QED
      BY <1>1, <2>1, FS_Subset, FS_CardinalityType
  <1> QED
    BY <1>2, <1>3

\* A step after which no more rows are recent and no more workers have passed.
LEMMA GateNarrows ==
    ASSUME GateCounted, NEW mb \in Mailboxes,
           RecentRows(mb)' \subseteq RecentRows(mb), Passing(mb)' \subseteq Passing(mb)
    PROVE  Cardinality(RecentRows(mb)') + Cardinality(Passing(mb)')
             < Ceiling + Cardinality(Workers)
  <1> DEFINE rows == RecentRows(mb)'
             passed == Passing(mb)'
  <1>1. /\ Cardinality(rows) \in Nat /\ Cardinality(rows) <= Cardinality(RecentRows(mb))
        /\ Cardinality(passed) \in Nat /\ Cardinality(passed) <= Cardinality(Passing(mb))
    BY GateFinite, FS_Subset, FS_CardinalityType
  <1>2. /\ Cardinality(RecentRows(mb)) \in Nat /\ Cardinality(Passing(mb)) \in Nat
        /\ Cardinality(Workers) \in Nat /\ Ceiling \in Nat
    BY GateFinite, QueueConstants
  <1>3. Cardinality(RecentRows(mb)) + Cardinality(Passing(mb)) < Ceiling + Cardinality(Workers)
    BY DEF GateCounted
  <1> HIDE DEF rows, passed
  <1>4. Cardinality(rows) + Cardinality(passed) < Ceiling + Cardinality(Workers)
    BY <1>1, <1>2, <1>3
  <1> QED
    BY <1>4 DEF rows, passed

\* The outcome of a delivery leaves the row as recent as it was.
LEMMA WritesKeepRecent ==
    ASSUME NEW row \in Row, NEW read \in Row, NEW t \in Task
    PROVE  /\ \A status \in Statuses :
                 /\ Deferred(row, read, status).recent = row.recent
                 /\ Completed(row, read, status).recent = row.recent
           /\ Outcome(row, t).recent = row.recent
  <1>1. ASSUME NEW r \in Row, NEW status \in Statuses
        PROVE  /\ Deferred(row, r, status).recent = row.recent
               /\ Completed(row, r, status).recent = row.recent
    <2>1. ReleasedColumns(row, r) \in Row /\ ReleasedColumns(row, r).recent = row.recent
      BY DEF ReleasedColumns, Row
    <2>2. Settled(row, r, status) \in Row /\ Settled(row, r, status).recent = row.recent
      BY <2>1 DEF Settled, StatusColumn, Row
    <2> QED
      BY <2>2 DEF Deferred, Completed, Row
  <1>2. t.read \in Row
    BY DEF Task
  <1>3. Outcome(row, t).recent = row.recent
    BY <1>1, <1>2 DEF Outcome, Statuses
  <1> QED
    BY <1>1, <1>3

LEMMA GateInit == Init => GateCounted
  <1> SUFFICES ASSUME Init, NEW mb \in Mailboxes
               PROVE  Cardinality(RecentRows(mb)) + Cardinality(Passing(mb))
                        < Ceiling + Cardinality(Workers)
    BY DEF GateCounted
  <1>1. RecentRows(mb) = {} /\ Passing(mb) = {}
    BY DEF Init, RecentRows, Passing, NoRow
  <1>2. Cardinality({}) = 0
    BY FS_EmptySet
  <1> QED
    BY <1>1, <1>2, GateFinite, QueueConstants

\* Nobody but StampAttempt makes a row recent.
LEMMA OnlyStampsAreRecent ==
    ASSUME Shape, [Next]_vars, \A w \in Workers : ~StampAttempt(w),
           NEW x \in Messages, msgs'[x].recent
    PROVE  msgs[x].recent
  <1> USE DEF Shape, TypeOK
  <1>1. msgs[x] \in Row
    OBVIOUS
  <1>2. ASSUME NEW m \in Messages,
               Accept(m) \/ ClaimAges(m) \/ BecomesDue(m) \/ WindowSlides(m)
        PROVE  msgs[x].recent
    <2>1. \/ msgs'[x] = msgs[x]
          \/ msgs'[x] = [NoRow EXCEPT !.status = "queued", !.due = TRUE]
          \/ msgs'[x] = [msgs[x] EXCEPT !.stale = TRUE]
          \/ msgs'[x] = [msgs[x] EXCEPT !.due = TRUE]
          \/ msgs'[x] = [msgs[x] EXCEPT !.recent = FALSE]
      BY <1>2 DEF Accept, ClaimAges, BecomesDue, WindowSlides
    <2> QED
      BY <1>1, <2>1 DEF Row, NoRow
  <1>3. ASSUME NEW w \in Workers, Maintenance(w) PROVE msgs[x].recent
    <2>1. PICK expired \in SUBSET Messages :
            msgs' = [m \in Messages |->
                       LET row == IF Reapable(msgs[m]) THEN Reaped(msgs[m]) ELSE msgs[m]
                       IN  IF m \in expired THEN [row EXCEPT !.purged = TRUE] ELSE row]
      BY <1>3 DEF Maintenance
    <2>2. Reaped(msgs[x]) \in Row /\ Reaped(msgs[x]).recent = msgs[x].recent
      BY <1>1, RowsStayRows DEF Reaped, Row
    <2> QED
      BY <1>1, <2>1, <2>2 DEF Row
  <1>4. ASSUME NEW w \in Workers, ClaimMessages(w) PROVE msgs[x].recent
    <2>1. msgs'[x] = msgs[x] \/ msgs'[x] = Claimed(msgs[x], w)
      BY <1>4 DEF ClaimMessages
    <2> QED
      BY <1>1, <2>1 DEF Claimed, Row
  <1>5. ASSUME NEW w \in Workers, NEW m \in Messages, ReleaseUnserved(w, m)
        PROVE  msgs[x].recent
    <2>1. msgs'[x] = msgs[x] \/ msgs'[x] = ReleaseClaim(msgs[x])
      BY <1>5 DEF ReleaseUnserved
    <2> QED
      BY <1>1, <2>1 DEF ReleaseClaim, Row
  <1>6. ASSUME NEW w \in Workers, RateGated(w) \/ FailWithoutHost(w) \/ RecordOutcome(w)
        PROVE  msgs[x].recent
    <2>1. task[w] \in Task /\ task[w].read \in Row
      BY DEF Task
    <2>2. \/ msgs'[x] = msgs[x]
          \/ msgs'[x] = Deferred(msgs[x], task[w].read, "queued")
          \/ msgs'[x] = Completed(msgs[x], task[w].read, "permanently_rejected")
          \/ msgs'[x] = Outcome(msgs[x], task[w])
      BY <1>6 DEF RateGated, FailWithoutHost, RecordOutcome, Conclude
    <2> QED
      BY <1>1, <2>1, <2>2, WritesKeepRecent DEF Statuses
  <1>7. ASSUME NEW w \in Workers,
               \/ Iterate(w) \/ NothingToClaim(w) \/ FinishBatch(w) \/ Stop(w)
               \/ ProviderAnswers(w) \/ LoseOutcome(w) \/ RequestShutdown(w)
               \/ UnexpectedError(w) \/ Crash(w) \/ Restart(w) \/ DeliveryRaises(w)
               \/ \E m \in Messages : LoadMessage(w, m)
        PROVE  msgs' = msgs
    BY <1>7 DEF DeliveryRaises, LoadMessage, Iterate, NothingToClaim, FinishBatch, Stop, ProviderAnswers,
                LoseOutcome, RequestShutdown, UnexpectedError, Crash, Abandon, Restart, db
  <1>8. ASSUME \/ \E a \in Addresses : AddSuppression(a) \/ RemoveSuppression(a)
               \/ UNCHANGED vars
        PROVE  msgs' = msgs
    BY <1>8 DEF AddSuppression, RemoveSuppression, vars, db
  <1> QED
    BY <1>2, <1>3, <1>4, <1>5, <1>6, <1>7, <1>8 DEF Next, WorkerStep, Clock

\* Nobody but LoadMessage passes the gate.
LEMMA OnlyLoadsPass ==
    ASSUME Shape, [Next]_vars, NEW v \in Workers, \A m \in Messages : ~LoadMessage(v, m),
           pc'[v] = "loaded"
    PROVE  pc[v] = "loaded" /\ task'[v] = task[v]
  <1> USE DEF Shape, TypeOK
  <1>1. ASSUME NEW w \in Workers, NEW m \in Messages, LoadMessage(w, m)
        PROVE  pc[v] = "loaded" /\ task'[v] = task[v]
    <2>1. w # v
      BY <1>1
    <2> QED
      BY <1>1, <2>1 DEF LoadMessage
  <1>2. ASSUME NEW w \in Workers,
               RateGated(w) \/ FailWithoutHost(w) \/ RecordOutcome(w)
        PROVE  pc[v] = "loaded" /\ task'[v] = task[v]
    BY <1>2 DEF RateGated, FailWithoutHost, RecordOutcome, Conclude
  <1>3. ASSUME NEW w \in Workers,
               StampAttempt(w) \/ LoseOutcome(w) \/ ProviderAnswers(w) \/ DeliveryRaises(w)
        PROVE  pc[v] = "loaded" /\ task'[v] = task[v]
    BY <1>3 DEF StampAttempt, LoseOutcome, ProviderAnswers, DeliveryRaises
  <1>4. ASSUME NEW w \in Workers,
               \/ Iterate(w) \/ Maintenance(w) \/ ClaimMessages(w) \/ NothingToClaim(w)
               \/ FinishBatch(w) \/ Stop(w)
        PROVE  pc[v] = "loaded" /\ task'[v] = task[v]
    BY <1>4 DEF Iterate, Maintenance, ClaimMessages, NothingToClaim, FinishBatch, Stop
  <1>5. ASSUME NEW w \in Workers,
               RequestShutdown(w) \/ UnexpectedError(w) \/ Crash(w) \/ Restart(w)
        PROVE  pc[v] = "loaded" /\ task'[v] = task[v]
    BY <1>5 DEF RequestShutdown, UnexpectedError, Crash, Abandon, Restart
  <1>6. ASSUME NEW w \in Workers, NEW m \in Messages, ReleaseUnserved(w, m)
        PROVE  pc[v] = "loaded" /\ task'[v] = task[v]
    BY <1>6 DEF ReleaseUnserved
  <1>7. ASSUME \/ \E m \in Messages : Accept(m) \/ ClaimAges(m) \/ BecomesDue(m) \/ WindowSlides(m)
               \/ \E a \in Addresses : AddSuppression(a) \/ RemoveSuppression(a)
               \/ UNCHANGED vars
        PROVE  pc[v] = "loaded" /\ task'[v] = task[v]
    BY <1>7 DEF Accept, ClaimAges, BecomesDue, WindowSlides, AddSuppression,
                RemoveSuppression, vars, local
  <1> QED
    BY <1>1, <1>2, <1>3, <1>4, <1>5, <1>6, <1>7 DEF Next, WorkerStep, Clock

LEMMA GateStep ==
    ASSUME Shape, GateCounted, [Next]_vars
    PROVE  GateCounted'
  <1> SUFFICES ASSUME NEW mb \in Mailboxes
               PROVE  Cardinality(RecentRows(mb)') + Cardinality(Passing(mb)')
                        < Ceiling + Cardinality(Workers)
    BY DEF GateCounted
  <1> DEFINE R == Cardinality(RecentRows(mb))
             P == Cardinality(Passing(mb))
             W == Cardinality(Workers)
  <1>0. R \in Nat /\ P \in Nat /\ W \in Nat /\ Ceiling \in Nat /\ R + P < Ceiling + W
    BY GateFinite, QueueConstants DEF GateCounted
  <1>1. ASSUME NEW w \in Workers, NEW m \in Messages, LoadMessage(w, m)
        PROVE  Cardinality(RecentRows(mb)') + Cardinality(Passing(mb)')
                 < Ceiling + Cardinality(Workers)
    <2>1. /\ pc' = [pc EXCEPT ![w] = "loaded"] /\ msgs' = msgs /\ pc[w] = "serving"
          /\ \A v \in Workers : v # w => pc'[v] = pc[v] /\ task'[v] = task[v]
          /\ task'[w].message = m /\ task'[w].gated = Exhausted(m)
      BY <1>1 DEF LoadMessage, NoTask, db, Shape, TypeOK
    <2>2. RecentRows(mb)' = RecentRows(mb)
      BY <2>1 DEF RecentRows
    <2>3. CASE MailboxOf[m] = mb /\ ~Exhausted(m)
      <3>1. R < Ceiling
        BY <1>0, <2>3 DEF Exhausted
      <3>2. Passing(mb)' \subseteq Workers
        BY DEF Passing
      <3>3. Cardinality(Passing(mb)') \in Nat /\ Cardinality(Passing(mb)') <= W
        BY <3>2, FS_Subset, FS_CardinalityType, QueueConstants
      <3> HIDE DEF R, W
      <3>4. R + Cardinality(Passing(mb)') < Ceiling + W
        BY <1>0, <3>1, <3>3
      <3> QED
        BY <2>2, <3>4 DEF R, W
    <2>4. CASE ~(MailboxOf[m] = mb /\ ~Exhausted(m))
      <3>1. w \notin Passing(mb)'
        BY <2>1, <2>4 DEF Passing
      <3>2. Passing(mb)' \subseteq Passing(mb)
        BY <2>1, <3>1 DEF Passing
      <3> QED
        BY <2>2, <3>2, GateNarrows
    <2> QED
      BY <2>3, <2>4
  <1>2. ASSUME NEW w \in Workers, StampAttempt(w)
        PROVE  Cardinality(RecentRows(mb)') + Cardinality(Passing(mb)')
                 < Ceiling + Cardinality(Workers)
    <2> DEFINE m == task[w].message
    <2>1. /\ pc[w] = "loaded" /\ ~task[w].gated /\ pc'[w] = "wire"
          /\ \A v \in Workers : v # w => pc'[v] = pc[v] /\ task'[v] = task[v]
          /\ \A x \in Messages : x # m => msgs'[x] = msgs[x]
      BY <1>2 DEF StampAttempt, Shape, TypeOK
    <2>2. RecentRows(mb)' \subseteq RecentRows(mb) \union {m}
      BY <2>1 DEF RecentRows
    <2>3. Passing(mb)' \subseteq Passing(mb) \ {w}
      BY <2>1 DEF Passing
    <2>4. CASE MailboxOf[m] # mb
      <3>1. RecentRows(mb)' \subseteq RecentRows(mb)
        BY <2>2, <2>4 DEF RecentRows
      <3> QED
        BY <2>3, <3>1, GateNarrows
    <2>5. CASE MailboxOf[m] = mb
      <3>1. w \in Passing(mb)
        BY <2>1, <2>5 DEF Passing
      <3>2. /\ IsFiniteSet(Passing(mb) \ {w}) /\ Cardinality(Passing(mb) \ {w}) = P - 1
            /\ IsFiniteSet(RecentRows(mb) \union {m})
            /\ Cardinality(RecentRows(mb) \union {m}) <= R + 1
        <4>1. IsFiniteSet(Passing(mb)) /\ IsFiniteSet(RecentRows(mb))
          BY GateFinite
        <4>2. IsFiniteSet(Passing(mb) \ {w}) /\ Cardinality(Passing(mb) \ {w}) = P - 1
          BY <3>1, <4>1, FS_RemoveElement
        <4>3. /\ IsFiniteSet(RecentRows(mb) \union {m})
              /\ \/ Cardinality(RecentRows(mb) \union {m}) = R
                 \/ Cardinality(RecentRows(mb) \union {m}) = R + 1
          BY <4>1, FS_AddElement
        <4> HIDE DEF R, P, m
        <4> QED
          BY <1>0, <4>2, <4>3
      <3>3. /\ Cardinality(Passing(mb)') \in Nat
            /\ Cardinality(Passing(mb)') <= Cardinality(Passing(mb) \ {w})
        BY <2>3, <3>2, FS_Subset, FS_CardinalityType
      <3>4. /\ Cardinality(RecentRows(mb)') \in Nat
            /\ Cardinality(RecentRows(mb)') <= Cardinality(RecentRows(mb) \union {m})
            /\ Cardinality(RecentRows(mb) \union {m}) \in Nat
        BY <2>2, <3>2, FS_Subset, FS_CardinalityType
      <3> DEFINE r == Cardinality(RecentRows(mb)')
                 s == Cardinality(RecentRows(mb) \union {m})
                 p == Cardinality(Passing(mb)')
      <3>5. r \in Nat /\ s \in Nat /\ p \in Nat /\ r <= s /\ s <= R + 1 /\ p <= P - 1
        BY <3>2, <3>3, <3>4
      <3> HIDE DEF R, P, W, r, s, p
      <3>6. r + p < Ceiling + W
        BY <1>0, <3>5
      <3> QED
        BY <3>6 DEF r, p, W
    <2> QED
      BY <2>4, <2>5
  <1>3. ASSUME \A w \in Workers : ~StampAttempt(w) /\ \A m \in Messages : ~LoadMessage(w, m)
        PROVE  Cardinality(RecentRows(mb)') + Cardinality(Passing(mb)')
                 < Ceiling + Cardinality(Workers)
    <2>1. RecentRows(mb)' \subseteq RecentRows(mb)
      BY <1>3, OnlyStampsAreRecent DEF RecentRows
    <2>2. Passing(mb)' \subseteq Passing(mb)
      BY <1>3, OnlyLoadsPass DEF Passing
    <2> QED
      BY <2>1, <2>2, GateNarrows
  <1> QED
    BY <1>1, <1>2, <1>3

\* Workers that race through the rate gate overshoot an identity's ceiling by
\* less than their number, stolen claims or not.
THEOREM OvershootIsBounded == Spec => []GateOvershootBounded
  <1>1. Init => Shape /\ GateCounted
    BY ShapeInit, GateInit
  <1>2. Shape /\ GateCounted /\ [Next]_vars => Shape' /\ GateCounted'
    BY ShapeStep, GateStep
  <1>3. GateCounted => GateOvershootBounded
    <2> SUFFICES ASSUME GateCounted, NEW mb \in Mailboxes
                 PROVE  Cardinality(RecentRows(mb)) < Ceiling + Cardinality(Workers)
      BY DEF GateOvershootBounded
    <2>1. Cardinality(RecentRows(mb)) + Cardinality(Passing(mb)) < Ceiling + Cardinality(Workers)
      BY DEF GateCounted
    <2> QED
      BY <2>1, GateFinite, QueueConstants
  <1> QED
    BY <1>1, <1>2, <1>3, PTL DEF Spec

-----------------------------------------------------------------------------
(* The arithmetic of the rate gate *)

LEMMA OldestInstant ==
    ASSUME NEW S \in SUBSET Nat, S # {}
    PROVE  \E t \in S : \A u \in S : t <= u
  <1>1. PICK t \in S : \A u \in S : ~(<<u, t>> \in OpToRel(<, Nat))
    BY WFMin, NatLessThanWellFounded
  <1>2. \A u \in S : <<u, t>> \in OpToRel(<, Nat) <=> u < t
    BY DEF OpToRel
  <1>3. \A u \in S : ~(u < t)
    BY <1>1, <1>2
  <1>4. \A u \in S : t <= u
    BY <1>3
  <1> QED
    BY <1>4

LEMMA WindowFinite ==
    ASSUME NEW last \in AttemptTables, NEW now
    PROVE  /\ IsFiniteSet(InWindow(last, now)) /\ InWindow(last, now) \subseteq DOMAIN last
           /\ DOMAIN last \subseteq Messages /\ last \in [DOMAIN last -> Nat]
  <1>1. DOMAIN last \subseteq Messages /\ last \in [DOMAIN last -> Nat]
    BY RateConstants DEF AttemptTables
  <1>2. InWindow(last, now) \in SUBSET Messages
    BY <1>1 DEF InWindow
  <1> QED
    BY <1>1, <1>2, FS_Subset, QueueConstants DEF InWindow

\* The opening, when there is an attempt in the window: what ages out at it, and
\* that all the others are younger.
LEMMA OpeningAfterOldest ==
    ASSUME NEW last \in AttemptTables, NEW now \in Nat, InWindow(last, now) # {}
    PROVE  \E oldest \in InWindow(last, now) :
              /\ NextWindowOpening(last, now) = last[oldest] + WINDOW + 1
              /\ \A r \in InWindow(last, now) : last[oldest] <= last[r]
  <1> DEFINE inside == {last[r] : r \in InWindow(last, now)}
  <1>1. inside \in SUBSET Nat /\ inside # {}
    BY WindowFinite
  <1>2. \E t \in inside : \A u \in inside : t <= u
    BY <1>1, OldestInstant
  <1> DEFINE first == CHOOSE t \in inside : \A u \in inside : t <= u
  <1>3. first \in inside /\ \A u \in inside : first <= u
    BY <1>2
  <1>4. NextWindowOpening(last, now) = first + WINDOW + 1
    BY <1>1 DEF NextWindowOpening
  <1>5. PICK oldest \in InWindow(last, now) : last[oldest] = first
    BY <1>3
  <1> QED
    BY <1>3, <1>4, <1>5

\* "Retrying earlier than this is guaranteed to hit the gate again": whatever the
\* workers attempt meanwhile, of messages counted or not.  And the gate is then open,
\* if the budget was not overdrawn and nothing was attempted (next_window_opening,
\* current_budget).
THEOREM ShutUntilOpening ==
    ASSUME NEW last \in AttemptTables, NEW now \in Nat, NEW ceiling \in Nat \ {0},
           Shut(last, now, ceiling)
    PROVE  /\ \A t \in Nat, more \in SUBSET Messages : \A later \in [more -> Nat] :
                 /\ DOMAIN last \subseteq more
                 /\ \A r \in DOMAIN last : last[r] <= later[r] \/ later[r] = t
                 /\ t < NextWindowOpening(last, now)
                 => Shut(later, t, ceiling)
           /\ Cardinality(InWindow(last, now)) = ceiling
                 => ~Shut(last, NextWindowOpening(last, now), ceiling)
  <1>1. IsFiniteSet(InWindow(last, now))
    BY WindowFinite
  <1>2. InWindow(last, now) # {}
    BY <1>1, FS_EmptySet DEF Shut
  <1>3. PICK oldest \in InWindow(last, now) :
               /\ NextWindowOpening(last, now) = last[oldest] + WINDOW + 1
               /\ \A r \in InWindow(last, now) : last[oldest] <= last[r]
    BY <1>1, <1>2, OpeningAfterOldest
  <1>4. ASSUME NEW t \in Nat, NEW more \in SUBSET Messages, NEW later \in [more -> Nat],
               DOMAIN last \subseteq more,
               \A r \in DOMAIN last : last[r] <= later[r] \/ later[r] = t,
               t < NextWindowOpening(last, now)
        PROVE  Shut(later, t, ceiling)
    <2>1. last \in [DOMAIN last -> Nat]
      BY WindowFinite
    <2>2. ASSUME NEW r \in InWindow(last, now)
          PROVE  r \in InWindow(later, t)
      <3>1. r \in DOMAIN last /\ oldest \in DOMAIN last
        BY DEF InWindow
      <3>2. /\ last[oldest] <= last[r] /\ t < last[oldest] + WINDOW + 1
            /\ last[r] <= later[r] \/ later[r] = t
        BY <1>3, <1>4, <3>1
      <3>3. last[oldest] \in Nat /\ last[r] \in Nat /\ later[r] \in Nat
        BY <1>4, <2>1, <3>1
      <3>4. later[r] + WINDOW >= t
        BY <3>2, <3>3 DEF WINDOW
      <3> QED
        BY <1>4, <3>1, <3>4 DEF InWindow
    <2>3. /\ IsFiniteSet(InWindow(later, t))
          /\ Cardinality(InWindow(last, now)) <= Cardinality(InWindow(later, t))
      <3>1. InWindow(later, t) \in SUBSET Messages
        BY DEF InWindow
      <3> QED
        BY <2>2, <3>1, FS_Subset, QueueConstants
    <2>4. /\ Cardinality(InWindow(last, now)) \in Nat
          /\ Cardinality(InWindow(later, t)) \in Nat
      BY <1>1, <2>3, FS_CardinalityType
    <2> QED
      BY <2>3, <2>4 DEF Shut
  <1>5. ASSUME Cardinality(InWindow(last, now)) = ceiling
        PROVE  ~Shut(last, NextWindowOpening(last, now), ceiling)
    <2> DEFINE opening == NextWindowOpening(last, now)
    <2>1. last \in [DOMAIN last -> Nat] /\ oldest \in DOMAIN last
      BY WindowFinite DEF InWindow
    <2>2. opening = last[oldest] + WINDOW + 1 /\ now <= last[oldest] + WINDOW
      BY <1>1, <1>3, <2>1 DEF InWindow, WINDOW
    <2> HIDE DEF opening
    <2>3. ASSUME NEW r \in InWindow(last, opening)
          PROVE  r \in InWindow(last, now) \ {oldest}
      <3>1. r \in DOMAIN last /\ last[r] \in Nat /\ last[r] + WINDOW >= opening
        BY <2>1 DEF InWindow
      <3>2. last[oldest] \in Nat
        BY <2>1
      <3>3. last[r] > last[oldest] /\ last[r] + WINDOW >= now
        BY <1>1, <2>2, <3>1, <3>2 DEF WINDOW
      <3> QED
        BY <3>1, <3>2, <3>3 DEF InWindow
    <2>4. /\ IsFiniteSet(InWindow(last, now) \ {oldest})
          /\ Cardinality(InWindow(last, now) \ {oldest}) = ceiling - 1
      BY <1>1, <1>5, FS_RemoveElement
    <2>5. /\ IsFiniteSet(InWindow(last, opening))
          /\ Cardinality(InWindow(last, opening)) <= ceiling - 1
      BY <2>3, <2>4, FS_Subset
    <2>6. Cardinality(InWindow(last, opening)) \in Nat
      BY <2>5, FS_CardinalityType
    <2> QED
      BY <1>1, <2>5, <2>6 DEF Shut, opening
  <1> QED
    BY <1>4, <1>5

\* The instant a worker waits for when the gate hands its message back is the right
\* one, in every state and at whatever instants the attempts it counts were made
\* (_deliver_one, next_window_opening).
THEOREM OpeningExact == Spec => []OpeningIsExact
  <1>1. OpeningIsExact
    <2> SUFFICES ASSUME NEW w \in Workers, Exhausted(task[w].message),
                        NEW counted, counted = RecentRows(MailboxOf[task[w].message]),
                        NEW last \in [counted -> Instants], NEW now \in Instants,
                        InWindow(last, now) = counted
                 PROVE  /\ \A t \in Instants, again \in SUBSET counted :
                              now <= t /\ t < NextWindowOpening(last, now)
                              => Shut(Attempted(last, again, t), t, Ceiling)
                        /\ Cardinality(counted) = Ceiling
                              => ~Shut(last, NextWindowOpening(last, now), Ceiling)
      BY DEF OpeningIsExact
    <2>1. counted \in SUBSET Messages /\ last \in AttemptTables /\ DOMAIN last = counted
      BY DEF RecentRows, AttemptTables
    <2>2. Shut(last, now, Ceiling)
      BY DEF Exhausted, Shut
    <2>3. now \in Nat /\ Ceiling \in Nat \ {0}
      BY RateConstants, QueueConstants
    <2>4. ASSUME NEW t \in Instants, NEW again \in SUBSET counted,
                 t < NextWindowOpening(last, now)
          PROVE  Shut(Attempted(last, again, t), t, Ceiling)
      <3>1. t \in Nat /\ last \in [counted -> Nat]
        BY RateConstants
      <3>2. Attempted(last, again, t) \in [counted -> Nat]
        BY <2>1, <3>1 DEF Attempted
      <3>3. \A r \in counted : \/ last[r] <= Attempted(last, again, t)[r]
                               \/ Attempted(last, again, t)[r] = t
        BY <2>1, <3>1 DEF Attempted
      <3> QED
        BY <2>1, <2>2, <2>3, <2>4, <3>1, <3>2, <3>3, ShutUntilOpening
    <2> QED
      BY <2>1, <2>2, <2>3, <2>4, ShutUntilOpening
  <1> QED
    BY <1>1, PTL

LEMMA Delays ==
    /\ LeastDelay(1) = 24 /\ LeastDelay(2) = 96 /\ LeastDelay(3) = 480 /\ LeastDelay(4) = 1440
    /\ \A i \in 1 .. 7 : LeastDelay(i) \in Nat
    /\ \A i \in 5 .. 7 : LeastDelay(i) > WINDOW
  <1>1. /\ LeastDelay(1) = 24 /\ LeastDelay(2) = 96 /\ LeastDelay(3) = 480
        /\ LeastDelay(4) = 1440 /\ LeastDelay(5) = 5760
        /\ LeastDelay(6) = 17280 /\ LeastDelay(7) = 34560
    BY DEF LeastDelay, BACKOFF
  <1>2. \A i \in 1 .. 7 : i = 1 \/ i = 2 \/ i = 3 \/ i = 4 \/ i = 5 \/ i = 6 \/ i = 7
    OBVIOUS
  <1>3. \A i \in 5 .. 7 : i = 5 \/ i = 6 \/ i = 7
    OBVIOUS
  <1> QED
    BY <1>1, <1>2, <1>3 DEF WINDOW

\* One message is attempted five times at most in an hour, as long as its attempts
\* are answered (backoff_delay, MAX_ATTEMPTS).
THEOREM AttemptsPerHour == RetriesPerWindow
  <1> SUFFICES ASSUME NEW first \in 1 .. MAX_ATTEMPTS - 5,
                      NEW times \in [first .. first + 5 -> Instants], Scheduled(times)
               PROVE  times[first + 5] > times[first] + WINDOW
    BY DEF RetriesPerWindow
  <1>1. first \in {1, 2, 3}
    BY DEF MAX_ATTEMPTS
  <1>2. \A i \in first .. first + 5 : times[i] \in Nat
    BY RateConstants
  <1>3. \A i \in first .. first + 4 : times[i + 1] >= times[i] + LeastDelay(i)
    <2> SUFFICES ASSUME NEW i \in first .. first + 4
                 PROVE  times[i + 1] >= times[i] + LeastDelay(i)
      OBVIOUS
    <2>1. i \in DOMAIN times /\ i + 1 \in DOMAIN times
      BY <1>1
    <2> QED
      BY <2>1 DEF Scheduled
  <1>4. ASSUME NEW i \in first .. first + 4
        PROVE  times[i + 1] \in Nat /\ times[i] \in Nat /\ times[i + 1] >= times[i]
    <2>1. LeastDelay(i) \in Nat
      BY <1>1, Delays
    <2>2. i \in first .. first + 5 /\ i + 1 \in first .. first + 5
      BY <1>1
    <2> QED
      BY <1>2, <1>3, <2>1, <2>2
  <1> DEFINE last == first + 4
  <1>5. last \in first .. first + 4 /\ last \in 5 .. 7
    BY <1>1
  <1>6. LeastDelay(last) \in Nat /\ LeastDelay(last) > WINDOW
    BY <1>5, Delays
  <1>7. /\ times[last] \in Nat /\ times[last + 1] \in Nat
        /\ times[last + 1] >= times[last] + LeastDelay(last)
    BY <1>3, <1>4, <1>5
  <1>8. times[first] \in Nat /\ times[first] <= times[last]
    <2>1. /\ times[first] \in Nat /\ times[first + 1] \in Nat /\ times[first + 2] \in Nat
          /\ times[first + 3] \in Nat /\ times[first + 4] \in Nat
      BY <1>1, <1>2
    <2>2. times[first + 1] >= times[first]
      BY <1>1, <1>4
    <2>3. times[first + 1 + 1] >= times[first + 1]
      BY <1>1, <1>4
    <2>4. times[first + 2 + 1] >= times[first + 2]
      BY <1>1, <1>4
    <2>5. times[first + 3 + 1] >= times[first + 3]
      BY <1>1, <1>4
    <2>6. first + 1 + 1 = first + 2 /\ first + 2 + 1 = first + 3 /\ first + 3 + 1 = first + 4
      BY <1>1
    <2> QED
      BY <2>1, <2>2, <2>3, <2>4, <2>5, <2>6
  <1>9. first + 5 = last + 1
    BY <1>1
  <1> HIDE DEF last
  <1> QED
    BY <1>6, <1>7, <1>8, <1>9 DEF WINDOW

\* And it may be attempted that often: current_budget counts messages by their last
\* attempt, so with fewer messages than the ceiling the gate is open after five times
\* as many attempts in the hour.  "Counting only successes would let a burst of
\* retries sail past the ceiling" (ratelimit.py); so does counting messages.
THEOREM BurstsPassTheGate ==
    ASSUME NEW some \in SUBSET Messages, NEW ceiling \in Nat, Cardinality(some) < ceiling
    PROVE  \E tries \in [some -> [1 .. 5 -> Nat]], now \in Nat :
              /\ \A r \in some : Scheduled(tries[r])
              /\ \A r \in some, i \in 1 .. 5 :
                    tries[r][i] <= now /\ tries[r][i] + WINDOW >= now
              /\ ~Shut([r \in some |-> tries[r][5]], now, ceiling)
  <1> DEFINE times == [i \in 1 .. 5 |-> IF i = 1 THEN 0 ELSE IF i = 2 THEN 24
                                         ELSE IF i = 3 THEN 120 ELSE IF i = 4 THEN 600 ELSE 2040]
             tries == [r \in some |-> times]
  <1>0. IsFiniteSet(some)
    BY QueueConstants, FS_Subset
  <1>1. times \in [1 .. 5 -> Nat] /\ \A i \in 1 .. 5 : times[i] <= 2040 /\ times[i] + WINDOW >= 2040
    BY DEF WINDOW
  <1>2. Scheduled(times)
    <2> SUFFICES ASSUME NEW i \in DOMAIN times, i + 1 \in DOMAIN times
                 PROVE  times[i + 1] >= times[i] + LeastDelay(i)
      BY DEF Scheduled
    <2>1. i \in {1, 2, 3, 4}
      OBVIOUS
    <2> QED
      BY <2>1, Delays
  <1> HIDE DEF times
  <1>3. ~Shut([r \in some |-> tries[r][5]], 2040, ceiling)
    <2>1. InWindow([r \in some |-> tries[r][5]], 2040) \in SUBSET some
      BY DEF InWindow
    <2>2. /\ IsFiniteSet(InWindow([r \in some |-> tries[r][5]], 2040))
          /\ Cardinality(InWindow([r \in some |-> tries[r][5]], 2040)) <= Cardinality(some)
      BY <1>0, <2>1, FS_Subset
    <2>3. /\ Cardinality(InWindow([r \in some |-> tries[r][5]], 2040)) \in Nat
          /\ Cardinality(some) \in Nat
      BY <1>0, <2>2, FS_CardinalityType
    <2> HIDE DEF tries
    <2> QED
      BY <2>2, <2>3 DEF Shut
  <1>4. tries \in [some -> [1 .. 5 -> Nat]] /\ \A r \in some : tries[r] = times
    BY <1>1
  <1> HIDE DEF tries
  <1> QED
    BY <1>1, <1>2, <1>3, <1>4
=============================================================================
