--------------------------- MODULE SubmissionProofs ---------------------------
(***************************************************************************)
(* What TLAPS proves of Submission, for any number of calls, credentials,  *)
(* projects, keys and bodies.                                              *)
(***************************************************************************)
EXTENDS Submission, TLAPS

-----------------------------------------------------------------------------
(* Type correctness *)

\* The steps of a call that read, and those that free it, leave the tables be.
ReadStep(c) ==
    \/ Authenticate(c) \/ LoadSenders(c) \/ Screen(c) \/ Replay(c) \/ LoseRace(c)

LEMMA RequestsAreRequests ==
    ASSUME NEW r \in Requests
    PROVE  /\ r \in Request
           /\ Project(r) \in Projects
           /\ r.apiKey \in ApiKeys /\ r.body \in Bodies
           /\ r.key \in Keys \union {NoKey}
  BY SubmissionConstants DEF Request, Project

LEMMA FreeCallIsCall == FreeCall \in Call
  BY DEF FreeCall, Call, Results

\* A call in use has a request, and an "ok" comes with an id.
Busy ==
    \A c \in Calls :
        /\ calls[c].place # "free" => calls[c].request \in Requests
        /\ calls[c].result = "ok" => calls[c].id \in Ids

Shape == TypeOK /\ Busy

LEMMA ShapeInit == Init => Shape
  <1> SUFFICES ASSUME Init PROVE Shape
    OBVIOUS
  <1>1. TypeOK
    BY FreeCallIsCall, SubmissionConstants DEF Init, TypeOK
  <1>2. Busy
    BY DEF Init, Busy, FreeCall
  <1> QED
    BY <1>1, <1>2 DEF Shape

\* Every reading step replaces one call by a call with the same request.
LEMMA ReadStepShape ==
    ASSUME Shape, NEW c \in Calls, ReadStep(c)
    PROVE  \E call \in Call :
              /\ Step(c, call)
              /\ calls[c].place # "free"
              /\ call.request = calls[c].request
              /\ call.late = calls[c].late
              /\ call.place # "free"
              /\ call.result = "ok" => call.id \in Ids
  <1> DEFINE old == calls[c]
  <1>1. old \in Call
    BY DEF Shape, TypeOK
  <1>2. ASSUME NEW place \in {"identified", "screened", "fresh"}, old.place # "free",
               Proceed(c, place)
        PROVE  \E call \in Call : /\ Step(c, call) /\ old.place # "free"
                                  /\ call.request = old.request /\ call.late = old.late
                                  /\ call.place # "free"
                                  /\ call.result = "ok" => call.id \in Ids
    <2> DEFINE call == [old EXCEPT !.place = place]
    <2>1. call \in Call
      BY <1>1 DEF Call
    <2>2. /\ call.request = old.request /\ call.late = old.late /\ call.place = place
          /\ call.result = old.result /\ call.id = old.id
      BY <1>1 DEF Call
    <2> QED
      BY <1>2, <2>1, <2>2 DEF Proceed, Shape, Busy
  <1>3. ASSUME NEW result \in Results, NEW id \in Ids \union {NoId}, old.place # "free",
               result = "ok" => id \in Ids, Answer(c, result, id)
        PROVE  \E call \in Call : /\ Step(c, call) /\ old.place # "free"
                                  /\ call.request = old.request /\ call.late = old.late
                                  /\ call.place # "free"
                                  /\ call.result = "ok" => call.id \in Ids
    <2> DEFINE call == [old EXCEPT !.place = "answered", !.result = result, !.id = id]
    <2>1. call \in Call
      BY <1>1 DEF Call
    <2>2. /\ call.request = old.request /\ call.late = old.late /\ call.place = "answered"
          /\ call.result = result /\ call.id = id
      BY <1>1 DEF Call
    <2> QED
      BY <1>3, <2>1, <2>2 DEF Answer
  <1>4. CASE Authenticate(c)
    <2>1. old.place # "free"
      BY <1>4 DEF Authenticate
    <2>2. CASE Proceed(c, "identified")
      BY <1>2, <2>1, <2>2
    <2>3. CASE Answer(c, "unauthenticated", NoId)
      BY <1>3, <2>1, <2>3 DEF Results
    <2> QED
      BY <1>4, <2>2, <2>3 DEF Authenticate
  <1>5. CASE LoadSenders(c)
    <2> DEFINE call == [old EXCEPT !.place = "authenticated",
                                   !.senders = Usable(old.request.apiKey)]
    <2>1. old.request \in Requests /\ old.place # "free"
      BY <1>5 DEF LoadSenders, Shape, Busy
    <2>2. Usable(old.request.apiKey) \in SUBSET Senders
      BY <2>1, RequestsAreRequests, SubmissionConstants DEF Usable
    <2>3. call \in Call
      BY <1>1, <2>2 DEF Call
    <2>4. /\ call.request = old.request /\ call.late = old.late
          /\ call.place = "authenticated" /\ call.result = old.result /\ call.id = old.id
      BY <1>1 DEF Call
    <2> QED
      BY <1>5, <2>1, <2>3, <2>4 DEF LoadSenders, Shape, Busy
  <1>6. CASE Screen(c)
    <2>1. old.place # "free"
      BY <1>6 DEF Screen
    <2>2. \/ Proceed(c, "screened")
          \/ \E result \in {"forbidden", "not_ready", "invalid", "suppressed"} :
                Answer(c, result, NoId)
      BY <1>6 DEF Screen
    <2> QED
      BY <1>2, <1>3, <2>1, <2>2 DEF Results
  <1>7. CASE Replay(c)
    <2>1. old.place # "free"
      BY <1>7 DEF Replay
    <2>2. \/ Proceed(c, "fresh")
          \/ \E row \in seen : Answer(c, "ok", row.id)
          \/ Answer(c, "key_reused", NoId)
      BY <1>7 DEF Replay, StoredFor
    <2>3. \A row \in seen : row.id \in Ids
      BY DEF Shape, TypeOK, Stored
    <2> QED
      BY <1>2, <1>3, <2>1, <2>2, <2>3 DEF Results
  <1>8. CASE LoseRace(c)
    BY <1>3, <1>8 DEF LoseRace, Results
  <1> QED
    BY <1>4, <1>5, <1>6, <1>7, <1>8 DEF ReadStep

LEMMA ChangesAreChanges ==
    ASSUME Shape, NEW act \in SUBSET ApiKeys, NEW rdy \in SUBSET Senders,
           NEW supp \in SUBSET Addresses, Change(act, rdy, supp)
    PROVE  Shape'
  <1>1. \A r : Passing(r, act, rdy, supp) \in SUBSET Checks
    BY DEF Passing, Checks
  <1>2. fit' \in [Calls -> SUBSET Checks]
    BY <1>1 DEF Change, Shape, TypeOK
  <1>3. TypeOK'
    BY <1>2 DEF Change, Shape, TypeOK, tables
  <1>4. Busy'
    BY DEF Change, Shape, Busy
  <1> QED
    BY <1>3, <1>4 DEF Shape

LEMMA ShapeNext == Shape /\ [Next]_vars => Shape'
  <1> SUFFICES ASSUME Shape, [Next]_vars PROVE Shape'
    OBVIOUS
  <1>1. ASSUME NEW c \in Calls, NEW r \in Requests, Arrive(c, r) PROVE Shape'
    <2>1. PICK late \in BOOLEAN : late = KeyTaken(r)
      BY DEF KeyTaken
    <2> DEFINE call == [FreeCall EXCEPT !.place = "arrived", !.request = r, !.late = late]
    <2>2. call \in Call
      BY FreeCallIsCall DEF Call
    <2>3. call.request = r /\ call.result # "ok"
      BY DEF FreeCall
    <2>4. calls' = [calls EXCEPT ![c] = call]
      BY <1>1, <2>1 DEF Arrive
    <2>5. calls' \in [Calls -> Call]
      BY <2>2, <2>4 DEF Shape, TypeOK
    <2>6. Passing(r, active, ready, suppressed) \in SUBSET Checks
      BY DEF Passing, Checks
    <2>7. TypeOK'
      BY <1>1, <2>5, <2>6 DEF Arrive, Shape, TypeOK, tables, policy
    <2>8. Busy'
      BY <2>3, <2>4 DEF Shape, TypeOK, Busy
    <2> QED
      BY <2>7, <2>8 DEF Shape
  <1>2. ASSUME NEW c \in Calls, ReadStep(c) PROVE Shape'
    <2>1. PICK call \in Call : /\ Step(c, call)
                               /\ call.request = calls[c].request
                               /\ calls[c].place # "free"
                               /\ call.result = "ok" => call.id \in Ids
      BY <1>2, ReadStepShape
    <2>2. TypeOK'
      BY <2>1 DEF Step, Shape, TypeOK, tables, policy
    <2>3. Busy'
      BY <2>1 DEF Step, Shape, TypeOK, Busy
    <2> QED
      BY <2>2, <2>3 DEF Shape
  <1>3. ASSUME NEW c \in Calls, Commit(c) PROVE Shape'
    <2> DEFINE r == calls[c].request
    <2>1. r \in Requests
      BY <1>3 DEF Commit, Shape, Busy
    <2>2. PICK id \in FreshIds :
             /\ mail' = mail \union
                  {[id |-> id, apiKey |-> r.apiKey, key |-> r.key, body |-> r.body]}
             /\ seen' = seen \union StoredRow(r, id)
             /\ calls' = [calls EXCEPT ![c] =
                            [@ EXCEPT !.place = "answered", !.result = "ok", !.id = id]]
      BY <1>3 DEF Commit
    <2>3. id \in Ids
      BY DEF FreshIds
    <2>4. mail' \in SUBSET Mail
      BY <2>1, <2>2, <2>3, RequestsAreRequests DEF Shape, TypeOK, Mail
    <2>5. StoredRow(r, id) \in SUBSET Stored
      BY <2>1, <2>3, RequestsAreRequests DEF StoredRow, Stored
    <2>6. [calls[c] EXCEPT !.place = "answered", !.result = "ok", !.id = id] \in Call
      BY <2>3 DEF Shape, TypeOK, Call, Results
    <2>7. TypeOK'
      BY <1>3, <2>2, <2>4, <2>5, <2>6 DEF Commit, Shape, TypeOK, policy
    <2>8. Busy'
      <3> DEFINE call == [calls[c] EXCEPT !.place = "answered", !.result = "ok", !.id = id]
      <3>1. call.request = r /\ call.id = id
        BY DEF Shape, TypeOK, Call
      <3> QED
        BY <2>1, <2>2, <2>3, <3>1 DEF Shape, TypeOK, Busy
    <2> QED
      BY <2>7, <2>8 DEF Shape
  <1>4. ASSUME NEW c \in Calls, Respond(c) PROVE Shape'
    <2>1. told' \in SUBSET Receipt
      BY <1>4 DEF Respond, Shape, TypeOK, Busy, Receipt
    <2>2. TypeOK'
      BY <1>4, <2>1, FreeCallIsCall DEF Respond, Shape, TypeOK, tables, policy
    <2>3. Busy'
      BY <1>4 DEF Respond, Shape, TypeOK, Busy, FreeCall
    <2> QED
      BY <2>2, <2>3 DEF Shape
  <1>5. ASSUME NEW c \in Calls, Vanish(c) PROVE Shape'
    <2>1. TypeOK'
      BY <1>5, FreeCallIsCall DEF Vanish, Shape, TypeOK, tables, policy
    <2>2. Busy'
      BY <1>5 DEF Vanish, Shape, TypeOK, Busy, FreeCall
    <2> QED
      BY <2>1, <2>2 DEF Shape
  <1>6. ASSUME NEW k \in ApiKeys, RevokeKey(k) PROVE Shape'
    BY <1>6, ChangesAreChanges DEF RevokeKey, Shape, TypeOK
  <1>7. ASSUME NEW s \in Senders, DomainChanges(s) PROVE Shape'
    BY <1>7, ChangesAreChanges DEF DomainChanges, Shape, TypeOK
  <1>8. ASSUME NEW a \in Addresses, Suppress(a) \/ Unsuppress(a) PROVE Shape'
    BY <1>8, ChangesAreChanges DEF Suppress, Unsuppress, Shape, TypeOK
  <1>9. CASE UNCHANGED vars
    BY <1>9 DEF vars, tables, policy, Shape, TypeOK, Busy
  <1> QED
    BY <1>1, <1>2, <1>3, <1>4, <1>5, <1>6, <1>7, <1>8, <1>9 DEF Next, ReadStep

\* Every variable keeps its type (TypeOK).
THEOREM TypeCorrect == Spec => []TypeOK
  <1>1. Shape => TypeOK
    BY DEF Shape
  <1> QED
    BY <1>1, ShapeInit, ShapeNext, PTL DEF Spec

-----------------------------------------------------------------------------
(* One message per key *)

\* The idempotency rows index the keyed messages: every keyed message has one,
\* and every row stands for a message that exists.
KeyIndex ==
    \A m \in mail : m.key # NoKey =>
        \E row \in seen : row.project = Project(m) /\ row.key = m.key

Made(box, project, key, body, id) ==
    \E m \in box : m.id = id /\ Project(m) = project /\ m.key = key /\ m.body = body

RowsBacked == \A row \in seen : Made(mail, row.project, row.key, row.body, row.id)

\* An answer "ok" is backed by a message made for that request.
AnswersBacked ==
    \A c \in Calls :
        LET r == calls[c].request IN
        calls[c].result = "ok" => /\ calls[c].place = "answered"
                                  /\ Made(mail, Project(r), r.key, r.body, calls[c].id)

Integrity == Shape /\ KeyIndex /\ RowsBacked /\ AnswersBacked /\ OneMailPerKey

LEMMA IntegrityInit == Init => Integrity
  <1> SUFFICES ASSUME Init PROVE Integrity
    OBVIOUS
  <1>1. KeyIndex /\ RowsBacked /\ OneMailPerKey
    BY DEF Init, KeyIndex, RowsBacked, OneMailPerKey
  <1>2. AnswersBacked
    BY DEF Init, AnswersBacked, FreeCall
  <1> QED
    BY <1>1, <1>2, ShapeInit DEF Integrity

\* A step that leaves the tables and every answered "ok" alone.
LEMMA IntegrityOfReads ==
    ASSUME Integrity, Shape', UNCHANGED tables,
           NEW c \in Calls,
           \A d \in Calls \ {c} : calls'[d] = calls[d],
           calls'[c].result = "ok" =>
              /\ calls'[c].place = "answered"
              /\ Made(mail, Project(calls'[c].request), calls'[c].request.key,
                      calls'[c].request.body, calls'[c].id)
    PROVE  Integrity'
  <1>1. KeyIndex' /\ RowsBacked' /\ OneMailPerKey'
    BY DEF tables, Integrity, KeyIndex, RowsBacked, OneMailPerKey, Made, Project
  <1>2. AnswersBacked'
    <2> SUFFICES ASSUME NEW d \in Calls, calls'[d].result = "ok"
                 PROVE  /\ calls'[d].place = "answered"
                        /\ Made(mail', Project(calls'[d].request), calls'[d].request.key,
                                calls'[d].request.body, calls'[d].id)
      BY DEF AnswersBacked, Project
    <2>1. CASE d = c
      BY <2>1 DEF tables, Made, Project
    <2>2. CASE d # c
      BY <2>2 DEF tables, Integrity, AnswersBacked, Made, Project
    <2> QED
      BY <2>1, <2>2
  <1> QED
    BY <1>1, <1>2 DEF Integrity

\* The COMMIT: no message of this project has the key, so the new one is alone.
LEMMA IntegrityOfCommit ==
    ASSUME Integrity, Shape', NEW c \in Calls, Commit(c)
    PROVE  Integrity'
  <1> DEFINE r == calls[c].request
  <1>1. r \in Requests
    BY DEF Commit, Integrity, Shape, Busy
  <1>2. PICK id \in FreshIds :
           /\ mail' = mail \union
                {[id |-> id, apiKey |-> r.apiKey, key |-> r.key, body |-> r.body]}
           /\ seen' = seen \union StoredRow(r, id)
           /\ calls' = [calls EXCEPT ![c] =
                          [@ EXCEPT !.place = "answered", !.result = "ok", !.id = id]]
    BY DEF Commit
  <1> DEFINE new == [id |-> id, apiKey |-> r.apiKey, key |-> r.key, body |-> r.body]
  <1>3. mail' = mail \union {new} /\ new \in mail'
    BY <1>2
  <1>4. Project(new) = Project(r)
    BY DEF Project
  <1>5. Made(mail', Project(r), r.key, r.body, id)
    BY <1>3, <1>4 DEF Made, Project
  <1>6. KeyIndex'
    <2> SUFFICES ASSUME NEW m \in mail', m.key # NoKey
                 PROVE  \E row \in seen' : row.project = Project(m) /\ row.key = m.key
      BY DEF KeyIndex, Project
    <2>1. CASE m \in mail
      BY <1>2, <2>1 DEF Integrity, KeyIndex
    <2>2. CASE m = new
      <3>1. r.key # NoKey /\ m.key = r.key /\ Project(m) = Project(r)
        BY <1>4, <2>2
      <3> DEFINE row == [project |-> Project(r), key |-> r.key, body |-> r.body, id |-> id]
      <3>2. row \in StoredRow(r, id)
        BY <3>1 DEF StoredRow
      <3>3. row \in seen' /\ row.project = Project(r) /\ row.key = r.key
        BY <1>2, <3>2
      <3> QED
        BY <3>1, <3>3
    <2> QED
      BY <1>3, <2>1, <2>2
  <1>7. RowsBacked'
    <2> SUFFICES ASSUME NEW row \in seen'
                 PROVE  Made(mail', row.project, row.key, row.body, row.id)
      BY DEF RowsBacked
    <2>1. CASE row \in seen
      BY <1>3, <2>1 DEF Integrity, RowsBacked, Made
    <2>2. CASE row \in StoredRow(r, id)
      BY <1>5, <2>2 DEF StoredRow
    <2> QED
      BY <1>2, <2>1, <2>2
  <1>8. AnswersBacked'
    <2> SUFFICES ASSUME NEW d \in Calls, calls'[d].result = "ok"
                 PROVE  /\ calls'[d].place = "answered"
                        /\ Made(mail', Project(calls'[d].request), calls'[d].request.key,
                                calls'[d].request.body, calls'[d].id)
      BY DEF AnswersBacked, Project
    <2>1. CASE d = c
      <3>1. calls[c] \in Call
        BY DEF Integrity, Shape, TypeOK
      <3>2. /\ calls'[c].place = "answered" /\ calls'[c].id = id
            /\ calls'[c].request = r
        BY <1>2, <3>1 DEF Call, Integrity, Shape, TypeOK
      <3> QED
        BY <1>5, <2>1, <3>2
    <2>2. CASE d # c
      <3>1. calls'[d] = calls[d]
        BY <1>2, <2>2 DEF Integrity, Shape, TypeOK
      <3> QED
        BY <1>3, <3>1 DEF Integrity, AnswersBacked, Made
    <2> QED
      BY <2>1, <2>2
  <1>9. OneMailPerKey'
    <2>1. \A m \in mail : ~(m.key # NoKey /\ m.key = r.key /\ Project(m) = Project(r))
      BY DEF Commit, KeyTaken, StoredFor, Integrity, KeyIndex
    <2> QED
      BY <1>3, <1>4, <2>1 DEF Integrity, OneMailPerKey, Project
  <1> QED
    BY <1>6, <1>7, <1>8, <1>9 DEF Integrity

\* The answers a reading step can give: "ok" only from the replayed row.
LEMMA ReadAnswers ==
    ASSUME Integrity, NEW c \in Calls, ReadStep(c)
    PROVE  /\ \A d \in Calls \ {c} : calls'[d] = calls[d]
           /\ calls'[c].request = calls[c].request
           /\ calls'[c].late = calls[c].late
           /\ UNCHANGED <<tables, policy, fit, told>>
           /\ calls'[c].result = "ok" =>
                /\ calls'[c].place = "answered"
                /\ Made(mail, Project(calls[c].request), calls[c].request.key,
                        calls[c].request.body, calls'[c].id)
  <1> DEFINE old == calls[c]
  <1>1. PICK call \in Call : /\ Step(c, call)
                             /\ call.request = old.request
                             /\ call.late = old.late
    BY ReadStepShape DEF Integrity
  <1>2. calls' = [calls EXCEPT ![c] = call] /\ UNCHANGED <<tables, policy, fit, told>>
    BY <1>1 DEF Step
  <1>3. calls'[c] = call /\ \A d \in Calls \ {c} : calls'[d] = calls[d]
    BY <1>2 DEF Integrity, Shape, TypeOK
  <1>4. old \in Call /\ (old.place # "answered" => old.result # "ok")
    BY DEF Integrity, Shape, TypeOK, AnswersBacked
  <1>5. ASSUME call.result = "ok"
        PROVE  /\ call.place = "answered"
               /\ Made(mail, Project(old.request), old.request.key, old.request.body, call.id)
    <2>1. ASSUME NEW place, Proceed(c, place), old.place # "answered" PROVE FALSE
      <3>1. call = [old EXCEPT !.place = place]
        BY <1>2, <2>1 DEF Proceed, Step, Integrity, Shape, TypeOK
      <3> QED
        BY <1>4, <1>5, <2>1, <3>1 DEF Call
    <2>2. ASSUME NEW result, NEW id, Answer(c, result, id)
          PROVE  result = "ok" /\ call.place = "answered" /\ call.id = id
      <3>1. call = [old EXCEPT !.place = "answered", !.result = result, !.id = id]
        BY <1>2, <2>2 DEF Answer, Step, Integrity, Shape, TypeOK
      <3> QED
        BY <1>4, <1>5, <3>1 DEF Call
    <2>3. CASE Authenticate(c)
      BY <2>1, <2>2, <2>3 DEF Authenticate
    <2>4. CASE LoadSenders(c)
      <3>1. call = [old EXCEPT !.place = "authenticated",
                               !.senders = Usable(old.request.apiKey)]
        BY <1>2, <2>4 DEF LoadSenders, Step, Integrity, Shape, TypeOK
      <3> QED
        BY <1>4, <1>5, <2>4, <3>1 DEF Call, LoadSenders
    <2>5. CASE Screen(c)
      BY <2>1, <2>2, <2>5 DEF Screen
    <2>6. CASE LoseRace(c)
      BY <2>2, <2>6 DEF LoseRace
    <2>7. CASE Replay(c)
      <3>1. PICK row \in StoredFor(old.request) :
               SameBody(row, old.request) /\ Answer(c, "ok", row.id)
        BY <2>1, <2>2, <2>7 DEF Replay
      <3>2. Made(mail, Project(old.request), old.request.key, old.request.body, row.id)
        BY <3>1 DEF StoredFor, SameBody, Integrity, RowsBacked
      <3> QED
        BY <2>2, <3>1, <3>2
    <2> QED
      BY <2>3, <2>4, <2>5, <2>6, <2>7 DEF ReadStep
  <1> QED
    BY <1>1, <1>2, <1>3, <1>5

LEMMA IntegrityNext == Integrity /\ [Next]_vars => Integrity'
  <1> SUFFICES ASSUME Integrity, [Next]_vars PROVE Integrity'
    OBVIOUS
  <1>0. Shape'
    BY ShapeNext DEF Integrity
  <1>1. ASSUME NEW c \in Calls, NEW r \in Requests, Arrive(c, r) PROVE Integrity'
    <2>1. calls'[c].result # "ok" /\ \A d \in Calls \ {c} : calls'[d] = calls[d]
      BY <1>1 DEF Arrive, Integrity, Shape, TypeOK, FreeCall
    <2> QED
      BY <1>0, <1>1, <2>1, IntegrityOfReads DEF Arrive
  <1>2. ASSUME NEW c \in Calls, ReadStep(c) PROVE Integrity'
    BY <1>0, <1>2, ReadAnswers, IntegrityOfReads
  <1>3. ASSUME NEW c \in Calls, Commit(c) PROVE Integrity'
    BY <1>0, <1>3, IntegrityOfCommit
  <1>4. ASSUME NEW c \in Calls, Respond(c) \/ Vanish(c) PROVE Integrity'
    <2>1. /\ calls'[c].result # "ok"
          /\ \A d \in Calls \ {c} : calls'[d] = calls[d]
          /\ UNCHANGED tables
      BY <1>4 DEF Respond, Vanish, Integrity, Shape, TypeOK, FreeCall
    <2> QED
      BY <1>0, <2>1, IntegrityOfReads
  <1>5. ASSUME UNCHANGED <<tables, calls>> PROVE Integrity'
    BY <1>0, <1>5 DEF Integrity, KeyIndex, RowsBacked, AnswersBacked, OneMailPerKey,
                      Made, Project, tables
  <1>6. ASSUME NEW k \in ApiKeys, RevokeKey(k) PROVE UNCHANGED <<tables, calls>>
    BY <1>6 DEF RevokeKey, Change
  <1>7. ASSUME NEW s \in Senders, DomainChanges(s) PROVE UNCHANGED <<tables, calls>>
    BY <1>7 DEF DomainChanges, Change
  <1>8. ASSUME NEW a \in Addresses, Suppress(a) \/ Unsuppress(a)
        PROVE  UNCHANGED <<tables, calls>>
    BY <1>8 DEF Suppress, Unsuppress, Change
  <1>9. CASE UNCHANGED vars
    BY <1>5, <1>9 DEF vars
  <1> QED
    BY <1>1, <1>2, <1>3, <1>4, <1>5, <1>6, <1>7, <1>8, <1>9 DEF Next, ReadStep

\* However many calls race with one key, its project has one message under it
\* (OneMailPerKey).
THEOREM KeysNameOneMail == Spec => []OneMailPerKey
  <1>1. Integrity => OneMailPerKey
    BY DEF Integrity
  <1> QED
    BY <1>1, IntegrityInit, IntegrityNext, PTL DEF Spec

-----------------------------------------------------------------------------
(* What a call has passed *)

\* The checks passed so far, at some moment since the call arrived.
PassedSoFar ==
    \A c \in Calls :
        LET r == calls[c].request IN
        /\ calls[c].place # "free" => Passing(r, active, ready, suppressed) \subseteq fit[c]
        /\ calls[c].place \in {"identified", "authenticated", "screened", "fresh"}
              => "key" \in fit[c]
        /\ calls[c].place = "authenticated" /\ SenderOf[r.body] \in calls[c].senders
              => "sender" \in fit[c]
        /\ calls[c].place \in {"screened", "fresh"} => {"sender", "recipients"} \subseteq fit[c]

TakenIn(rows, r) == \E row \in rows : row.project = Project(r) /\ row.key = r.key

\* A late call finds its key: it never gets as far as the INSERT.
LateCallsReplay ==
    \A c \in Calls :
        /\ calls[c].late => TakenIn(seen, calls[c].request)
        /\ calls[c].place = "fresh" \/ calls[c].result = "conflict" => ~calls[c].late

Progress == Shape /\ PassedSoFar /\ LateCallsReplay

LEMMA ProgressInit == Init => Progress
  <1> SUFFICES ASSUME Init PROVE Progress
    OBVIOUS
  <1>1. PassedSoFar /\ LateCallsReplay
    BY DEF Init, PassedSoFar, LateCallsReplay, FreeCall
  <1> QED
    BY <1>1, ShapeInit DEF Progress

\* What each reading step has just seen with its own eyes.
LEMMA ReadProgress ==
    ASSUME Progress, NEW c \in Calls, ReadStep(c)
    PROVE  LET r == calls[c].request
               call == calls'[c]
           IN  /\ call.request = r /\ call.late = calls[c].late
               /\ \A d \in Calls \ {c} : calls'[d] = calls[d]
               /\ UNCHANGED <<tables, policy, fit, told>>
               /\ call.place # "free" /\ calls[c].place # "free"
               /\ call.place \in {"identified", "authenticated", "screened", "fresh"}
                     => "key" \in fit[c]
               /\ call.place = "authenticated" /\ SenderOf[r.body] \in call.senders
                     => "sender" \in fit[c]
               /\ call.place \in {"screened", "fresh"}
                     => {"sender", "recipients"} \subseteq fit[c]
               /\ call.place = "fresh" \/ call.result = "conflict" => ~call.late
  <1> DEFINE old == calls[c]
             r == old.request
             P == Passing(r, active, ready, suppressed)
  <1>1. PICK call \in Call : /\ Step(c, call)
                             /\ call.request = r
                             /\ call.late = old.late
                             /\ old.place # "free" /\ call.place # "free"
    BY ReadStepShape DEF Progress
  <1>2. calls' = [calls EXCEPT ![c] = call] /\ UNCHANGED <<tables, policy, fit, told>>
    BY <1>1 DEF Step
  <1>3. calls'[c] = call /\ \A d \in Calls \ {c} : calls'[d] = calls[d]
    BY <1>2 DEF Progress, Shape, TypeOK
  <1>4. old \in Call
    BY DEF Progress, Shape, TypeOK
  <1>5. P \subseteq fit[c]
    BY <1>1 DEF Progress, PassedSoFar
  <1>6. /\ r.apiKey \in active => "key" \in P
        /\ SenderOf[r.body] \in Usable(r.apiKey) => "sender" \in P
        /\ ~Blocked(r.body) => "recipients" \in P
    BY DEF Passing, Usable, Blocked
  <1>7. ASSUME NEW place, Proceed(c, place)
        PROVE  /\ call.place = place /\ call.senders = old.senders
               /\ call.result = old.result
    <2>1. call = [old EXCEPT !.place = place]
      BY <1>2, <1>7 DEF Proceed, Step, Progress, Shape, TypeOK
    <2> QED
      BY <1>4, <2>1 DEF Call
  <1>8. ASSUME NEW result, NEW id, Answer(c, result, id)
        PROVE  call.place = "answered" /\ call.result = result
    <2>1. call = [old EXCEPT !.place = "answered", !.result = result, !.id = id]
      BY <1>2, <1>8 DEF Answer, Step, Progress, Shape, TypeOK
    <2> QED
      BY <1>4, <2>1 DEF Call
  <1>9. /\ old.place \in {"identified", "authenticated", "screened", "fresh"}
              => "key" \in fit[c]
        /\ old.place = "authenticated" /\ SenderOf[r.body] \in old.senders
              => "sender" \in fit[c]
        /\ old.place \in {"screened", "fresh"} => {"sender", "recipients"} \subseteq fit[c]
        /\ old.late => TakenIn(seen, r)
        /\ old.place = "fresh" \/ old.result = "conflict" => ~old.late
    BY DEF Progress, PassedSoFar, LateCallsReplay
  <1> DEFINE Goal ==
               /\ call.place \in {"identified", "authenticated", "screened", "fresh"}
                     => "key" \in fit[c]
               /\ call.place = "authenticated" /\ SenderOf[r.body] \in call.senders
                     => "sender" \in fit[c]
               /\ call.place \in {"screened", "fresh"}
                     => {"sender", "recipients"} \subseteq fit[c]
               /\ call.place = "fresh" \/ call.result = "conflict" => ~call.late
  <1>10. ASSUME Authenticate(c) PROVE Goal
    BY <1>1, <1>5, <1>6, <1>7, <1>8, <1>9, <1>10 DEF Authenticate
  <1>11. ASSUME LoadSenders(c) PROVE Goal
    <2>1. call = [old EXCEPT !.place = "authenticated", !.senders = Usable(r.apiKey)]
      BY <1>2, <1>11 DEF LoadSenders, Step, Progress, Shape, TypeOK
    <2>2. /\ call.place = "authenticated" /\ call.senders = Usable(r.apiKey)
          /\ call.result = old.result
      BY <1>4, <2>1 DEF Call
    <2> QED
      BY <1>1, <1>5, <1>6, <1>9, <1>11, <2>2 DEF LoadSenders
  <1>12. ASSUME Screen(c) PROVE Goal
    BY <1>1, <1>5, <1>6, <1>7, <1>8, <1>9, <1>12 DEF Screen
  <1>13. ASSUME Replay(c) PROVE Goal
    BY <1>1, <1>7, <1>8, <1>9, <1>13 DEF Replay, StoredFor, TakenIn
  <1>14. ASSUME LoseRace(c) PROVE Goal
    BY <1>1, <1>8, <1>9, <1>14 DEF LoseRace
  <1>15. Goal
    BY <1>10, <1>11, <1>12, <1>13, <1>14 DEF ReadStep
  <1> QED
    BY <1>1, <1>2, <1>3, <1>15

LEMMA ProgressOfChange ==
    ASSUME Progress, Shape', NEW act, NEW rdy, NEW supp, Change(act, rdy, supp)
    PROVE  Progress'
  <1>1. /\ calls' = calls /\ seen' = seen
        /\ active' = act /\ ready' = rdy /\ suppressed' = supp
        /\ \A c \in Calls : calls[c].place # "free" =>
              fit'[c] = fit[c] \union Passing(calls[c].request, act, rdy, supp)
    BY DEF Change, tables
  <1>2. PassedSoFar'
    <2> SUFFICES ASSUME NEW c \in Calls
                 PROVE  LET r == calls[c].request IN
                   /\ calls[c].place # "free" =>
                         Passing(r, act, rdy, supp) \subseteq fit'[c]
                   /\ calls[c].place \in {"identified", "authenticated", "screened", "fresh"}
                         => "key" \in fit'[c]
                   /\ calls[c].place = "authenticated" /\ SenderOf[r.body] \in calls[c].senders
                         => "sender" \in fit'[c]
                   /\ calls[c].place \in {"screened", "fresh"}
                         => {"sender", "recipients"} \subseteq fit'[c]
      BY <1>1 DEF PassedSoFar, Passing
    <2>1. calls[c].place # "free" =>
             /\ fit[c] \subseteq fit'[c]
             /\ Passing(calls[c].request, act, rdy, supp) \subseteq fit'[c]
      BY <1>1
    <2> QED
      BY <2>1 DEF Progress, PassedSoFar
  <1>3. LateCallsReplay'
    BY <1>1 DEF Progress, LateCallsReplay, TakenIn, Project
  <1> QED
    BY <1>2, <1>3 DEF Progress

\* A step that touches one call and adds to the idempotency rows at most.
LEMMA ProgressOfOne ==
    ASSUME Progress, Shape', UNCHANGED policy, seen \subseteq seen', NEW c \in Calls,
           \A d \in Calls \ {c} : calls'[d] = calls[d] /\ fit'[d] = fit[d],
           LET r == calls'[c].request
               call == calls'[c]
           IN  /\ call.place # "free" => Passing(r, active, ready, suppressed) \subseteq fit'[c]
               /\ call.place \in {"identified", "authenticated", "screened", "fresh"}
                     => "key" \in fit'[c]
               /\ call.place = "authenticated" /\ SenderOf[r.body] \in call.senders
                     => "sender" \in fit'[c]
               /\ call.place \in {"screened", "fresh"}
                     => {"sender", "recipients"} \subseteq fit'[c]
               /\ call.late => TakenIn(seen', r)
               /\ call.place = "fresh" \/ call.result = "conflict" => ~call.late
    PROVE  Progress'
  <1>1. PassedSoFar'
    <2> SUFFICES ASSUME NEW d \in Calls
                 PROVE  LET r == calls'[d].request IN
                   /\ calls'[d].place # "free" =>
                         Passing(r, active, ready, suppressed) \subseteq fit'[d]
                   /\ calls'[d].place \in {"identified", "authenticated", "screened", "fresh"}
                         => "key" \in fit'[d]
                   /\ calls'[d].place = "authenticated"
                         /\ SenderOf[r.body] \in calls'[d].senders => "sender" \in fit'[d]
                   /\ calls'[d].place \in {"screened", "fresh"}
                         => {"sender", "recipients"} \subseteq fit'[d]
      BY DEF PassedSoFar, Passing, policy
    <2>1. CASE d = c
      BY <2>1
    <2>2. CASE d # c
      BY <2>2 DEF Progress, PassedSoFar
    <2> QED
      BY <2>1, <2>2
  <1>2. LateCallsReplay'
    <2> SUFFICES ASSUME NEW d \in Calls
                 PROVE  /\ calls'[d].late => TakenIn(seen', calls'[d].request)
                        /\ calls'[d].place = "fresh" \/ calls'[d].result = "conflict"
                              => ~calls'[d].late
      BY DEF LateCallsReplay, TakenIn, Project
    <2>1. CASE d = c
      BY <2>1
    <2>2. CASE d # c
      BY <2>2 DEF Progress, LateCallsReplay, TakenIn, Project
    <2> QED
      BY <2>1, <2>2
  <1> QED
    BY <1>1, <1>2 DEF Progress

LEMMA ProgressNext == Progress /\ [Next]_vars => Progress'
  <1> SUFFICES ASSUME Progress, [Next]_vars PROVE Progress'
    OBVIOUS
  <1>0. Shape /\ Shape'
    BY ShapeNext DEF Progress
  <1>1. ASSUME NEW c \in Calls, NEW r \in Requests, Arrive(c, r) PROVE Progress'
    <2>1. /\ calls'[c].place = "arrived" /\ calls'[c].request = r
          /\ calls'[c].late = KeyTaken(r) /\ calls'[c].result = "none"
          /\ fit'[c] = Passing(r, active, ready, suppressed)
          /\ \A d \in Calls \ {c} : calls'[d] = calls[d] /\ fit'[d] = fit[d]
      BY <1>0, <1>1 DEF Arrive, Shape, TypeOK, FreeCall
    <2>2. UNCHANGED <<tables, policy>>
      BY <1>1 DEF Arrive
    <2>3. KeyTaken(r) => TakenIn(seen', r)
      BY <2>2 DEF tables, KeyTaken, StoredFor, TakenIn
    <2> QED
      BY <1>0, <2>1, <2>2, <2>3, ProgressOfOne DEF tables
  <1>2. ASSUME NEW c \in Calls, ReadStep(c) PROVE Progress'
    <2>1. Passing(calls[c].request, active, ready, suppressed) \subseteq fit[c]
      BY <1>2, ReadProgress DEF Progress, PassedSoFar
    <2>2. calls[c].late => TakenIn(seen, calls[c].request)
      BY DEF Progress, LateCallsReplay
    <2>3. UNCHANGED <<tables, policy, fit>>
      BY <1>2, ReadProgress
    <2>4. calls'[c].late => TakenIn(seen', calls'[c].request)
      BY <1>2, <2>2, <2>3, ReadProgress DEF tables
    <2> QED
      BY <1>0, <1>2, <2>1, <2>3, <2>4, ReadProgress, ProgressOfOne DEF tables
  <1>3. ASSUME NEW c \in Calls, Commit(c) PROVE Progress'
    <2>1. calls[c] \in Call /\ calls[c].place = "fresh"
      BY <1>0, <1>3 DEF Commit, Shape, TypeOK
    <2>2. PICK id \in FreshIds :
             calls' = [calls EXCEPT ![c] =
                         [@ EXCEPT !.place = "answered", !.result = "ok", !.id = id]]
      BY <1>3 DEF Commit
    <2>3. /\ calls'[c].place = "answered" /\ calls'[c].result = "ok"
          /\ calls'[c].request = calls[c].request /\ calls'[c].late = calls[c].late
          /\ \A d \in Calls \ {c} : calls'[d] = calls[d]
      BY <1>0, <2>1, <2>2 DEF Shape, TypeOK, Call
    <2>4. ~calls[c].late /\ Passing(calls[c].request, active, ready, suppressed) \subseteq fit[c]
      BY <2>1 DEF Progress, PassedSoFar, LateCallsReplay
    <2>5. UNCHANGED <<policy, fit>> /\ seen \subseteq seen'
      BY <1>3 DEF Commit
    <2> QED
      BY <1>0, <2>3, <2>4, <2>5, ProgressOfOne
  <1>4. ASSUME NEW c \in Calls, Respond(c) \/ Vanish(c) PROVE Progress'
    <2>1. /\ calls'[c].place = "free" /\ calls'[c].result = "none" /\ calls'[c].late = FALSE
          /\ \A d \in Calls \ {c} : calls'[d] = calls[d] /\ fit'[d] = fit[d]
          /\ UNCHANGED <<tables, policy>>
      BY <1>0, <1>4 DEF Respond, Vanish, Shape, TypeOK, FreeCall
    <2> QED
      BY <1>0, <2>1, ProgressOfOne DEF tables
  <1>5. ASSUME NEW k \in ApiKeys, RevokeKey(k) PROVE Progress'
    BY <1>0, <1>5, ProgressOfChange DEF RevokeKey
  <1>6. ASSUME NEW s \in Senders, DomainChanges(s) PROVE Progress'
    BY <1>0, <1>6, ProgressOfChange DEF DomainChanges
  <1>7. ASSUME NEW a \in Addresses, Suppress(a) \/ Unsuppress(a) PROVE Progress'
    BY <1>0, <1>7, ProgressOfChange DEF Suppress, Unsuppress
  <1>8. CASE UNCHANGED vars
    BY <1>0, <1>8 DEF vars, tables, policy, Progress, PassedSoFar, LateCallsReplay, Passing,
                      TakenIn, Project
  <1> QED
    BY <1>1, <1>2, <1>3, <1>4, <1>5, <1>6, <1>7, <1>8 DEF Next, ReadStep

\* A call about to write has passed each check as it stood at some moment since the
\* call arrived (AcceptedWasPermitted).
THEOREM AcceptedOnlyIfPermitted == Spec => []AcceptedWasPermitted
  <1>1. Progress => AcceptedWasPermitted
    BY DEF Progress, PassedSoFar, AcceptedWasPermitted, Checks, Shape, TypeOK
  <1> QED
    BY <1>1, ProgressInit, ProgressNext, PTL DEF Spec

\* A call that came after its key was stored never loses the race
\* (RetryDoesNotConflict).
THEOREM RetriesConverge == Spec => []RetryDoesNotConflict
  <1>1. Progress => RetryDoesNotConflict
    BY DEF Progress, LateCallsReplay, RetryDoesNotConflict
  <1> QED
    BY <1>1, ProgressInit, ProgressNext, PTL DEF Spec

-----------------------------------------------------------------------------
(* Repeats, while nobody changes keys, domains or suppressions *)

\* What gets a request, or a message, past every check.
Clears(r, act, rdy, supp) ==
    /\ r.apiKey \in act
    /\ SenderOf[r.body] \in Scope[r.apiKey] \intersect rdy
    /\ r.body \in Valid
    /\ RecipientsOf[r.body] \intersect supp = {}

\* As far as it has come, a call has cleared what it would clear now.
KeptPlace(call, act, rdy, supp) ==
    /\ call.place \in {"identified", "authenticated", "screened", "fresh"}
          => call.request.apiKey \in act
    /\ call.place = "authenticated"
          => call.senders = Scope[call.request.apiKey] \intersect rdy
    /\ call.place \in {"screened", "fresh"} => Clears(call.request, act, rdy, supp)

Repeats(r, m) == m.key = r.key /\ m.apiKey = r.apiKey /\ m.body = r.body

ToldOriginal(call, box) ==
    \A m \in box :
        call.place = "answered" /\ call.late /\ Repeats(call.request, m)
            => call.result = "ok" /\ call.id = m.id

\* The inductive strengthening of ReplayReturnsOriginal: what was accepted would be
\* accepted again.
Original ==
    changes = 0 =>
        /\ \A m \in mail : Clears(m, active, ready, suppressed)
        /\ \A c \in Calls : /\ KeptPlace(calls[c], active, ready, suppressed)
                            /\ ToldOriginal(calls[c], mail)

LEMMA OriginalInit == Init => Original
  BY DEF Init, Original, KeptPlace, ToldOriginal, FreeCall

LEMMA OriginalOfOne ==
    ASSUME Original, UNCHANGED <<mail, policy>>, NEW c \in Calls,
           \A d \in Calls \ {c} : calls'[d] = calls[d],
           changes = 0 => /\ KeptPlace(calls'[c], active, ready, suppressed)
                          /\ ToldOriginal(calls'[c], mail)
    PROVE  Original'
  <1> SUFFICES ASSUME changes = 0
               PROVE  /\ \A m \in mail : Clears(m, active, ready, suppressed)
                      /\ \A d \in Calls : /\ KeptPlace(calls'[d], active, ready, suppressed)
                                          /\ ToldOriginal(calls'[d], mail)
    BY DEF Original, policy
  <1> QED
    BY DEF Original

\* The message a late repeat matches is the one its key stands for.
LEMMA RowOfRepeat ==
    ASSUME Integrity, NEW r \in Requests, NEW m \in mail, Repeats(r, m),
           NEW row \in StoredFor(r)
    PROVE  row.id = m.id /\ row.body = m.body
  <1>1. row \in seen /\ row.project = Project(r) /\ row.key = r.key
    BY DEF StoredFor
  <1>2. row.key \in Keys
    BY <1>1 DEF Integrity, Shape, TypeOK, Stored
  <1>3. PICK n \in mail : n.id = row.id /\ Project(n) = row.project /\ n.key = row.key
                          /\ n.body = row.body
    BY <1>1 DEF Integrity, RowsBacked, Made
  <1>4. Project(m) = Project(r) /\ m.key = r.key
    BY DEF Repeats, Project
  <1>5. n = m
    BY <1>1, <1>2, <1>3, <1>4, SubmissionConstants DEF Integrity, OneMailPerKey
  <1> QED
    BY <1>3, <1>5

LEMMA ReadOriginal ==
    ASSUME Integrity, Progress, Original, changes = 0, NEW c \in Calls, ReadStep(c)
    PROVE  /\ KeptPlace(calls'[c], active, ready, suppressed)
           /\ ToldOriginal(calls'[c], mail)
  <1> DEFINE old == calls[c]
             r == old.request
             call == calls'[c]
  <1>1. old \in Call /\ old.place # "free" /\ r \in Requests /\ call.request = r /\ call.late = old.late
    BY ReadProgress DEF Progress, Shape, TypeOK, Busy
  <1>2. ASSUME NEW place, Proceed(c, place) PROVE call.place = place /\ call.senders = old.senders
    BY <1>1, <1>2 DEF Proceed, Step, Progress, Shape, TypeOK, Call
  <1>3. ASSUME NEW result, NEW id, Answer(c, result, id)
        PROVE  call.place = "answered" /\ call.result = result /\ call.id = id
    BY <1>1, <1>3 DEF Answer, Step, Progress, Shape, TypeOK, Call
  <1>4. KeptPlace(old, active, ready, suppressed)
    BY DEF Original
  <1>5. \A m \in mail : Repeats(r, m) => Clears(r, active, ready, suppressed)
    BY DEF Original, Repeats, Clears
  <1>6. KeptPlace(call, active, ready, suppressed)
    <2>1. CASE Authenticate(c)
      BY <1>1, <1>2, <1>3, <2>1 DEF Authenticate, KeptPlace
    <2>2. CASE LoadSenders(c)
      <3>1. call = [old EXCEPT !.place = "authenticated", !.senders = Usable(r.apiKey)]
        BY <2>2 DEF LoadSenders, Step, Progress, Shape, TypeOK
      <3>2. call.place = "authenticated" /\ call.senders = Usable(r.apiKey)
        BY <1>1, <3>1 DEF Call
      <3> QED
        BY <1>1, <1>4, <2>2, <3>2 DEF LoadSenders, KeptPlace, Usable
    <2>3. CASE Screen(c)
      <3>1. CASE Proceed(c, "screened") /\ SenderOf[r.body] \in old.senders
                   /\ r.body \in Valid /\ ~Blocked(r.body)
        BY <1>1, <1>2, <1>4, <2>3, <3>1 DEF Screen, KeptPlace, Clears, Blocked
      <3>2. CASE \E result \in Results : Answer(c, result, NoId)
        BY <1>3, <3>2 DEF KeptPlace
      <3> QED
        BY <2>3, <3>1, <3>2 DEF Screen, Results
    <2>4. CASE Replay(c)
      <3>1. CASE Proceed(c, "fresh")
        BY <1>1, <1>2, <1>4, <2>4, <3>1 DEF Replay, KeptPlace
      <3>2. CASE \E result \in Results : \E id : Answer(c, result, id)
        BY <1>3, <3>2 DEF KeptPlace
      <3> QED
        BY <2>4, <3>1, <3>2 DEF Replay, Results
    <2>5. CASE LoseRace(c)
      BY <1>3, <2>5 DEF LoseRace, KeptPlace
    <2> QED
      BY <2>1, <2>2, <2>3, <2>4, <2>5 DEF ReadStep
  <1>7. ToldOriginal(call, mail)
    <2> SUFFICES ASSUME NEW m \in mail, call.place = "answered", old.late, Repeats(r, m)
                 PROVE  call.result = "ok" /\ call.id = m.id
      BY <1>1 DEF ToldOriginal
    <2>1. Clears(r, active, ready, suppressed)
      BY <1>5
    <2>2. CASE Authenticate(c)
      BY <1>2, <2>1, <2>2 DEF Authenticate, Clears
    <2>3. CASE LoadSenders(c)
      <3>1. call = [old EXCEPT !.place = "authenticated", !.senders = Usable(r.apiKey)]
        BY <2>3 DEF LoadSenders, Step, Progress, Shape, TypeOK
      <3> QED
        BY <1>1, <3>1 DEF Call
    <2>4. CASE Screen(c)
      <3>1. SenderOf[r.body] \in old.senders
        BY <1>4, <2>1, <2>4 DEF Screen, KeptPlace, Clears
      <3>2. Proceed(c, "screened")
        BY <2>1, <2>4, <3>1 DEF Screen, Clears, Blocked
      <3> QED
        BY <1>2, <3>2
    <2>5. CASE Replay(c)
      <3>1. PICK row \in StoredFor(r) :
               \/ SameBody(row, r) /\ Answer(c, "ok", row.id)
               \/ ~SameBody(row, r) /\ Answer(c, "key_reused", NoId)
        BY <1>2, <2>5 DEF Replay
      <3>2. row.id = m.id /\ row.body = m.body
        BY <1>1, RowOfRepeat
      <3>3. SameBody(row, r)
        BY <3>2 DEF SameBody, Repeats
      <3> QED
        BY <1>3, <3>1, <3>2, <3>3
    <2>6. CASE LoseRace(c)
      BY <2>6 DEF LoseRace, Progress, LateCallsReplay
    <2> QED
      BY <2>2, <2>3, <2>4, <2>5, <2>6 DEF ReadStep
  <1> QED
    BY <1>6, <1>7

LEMMA CommitOriginal ==
    ASSUME Integrity, Progress, Original, NEW c \in Calls, Commit(c)
    PROVE  Original'
  <1> DEFINE r == calls[c].request
  <1>1. calls[c] \in Call /\ calls[c].place = "fresh" /\ ~KeyTaken(r) /\ UNCHANGED policy
    BY DEF Commit, Progress, Shape, TypeOK
  <1>2. PICK id \in FreshIds :
          /\ mail' = mail \union {[id |-> id, apiKey |-> r.apiKey, key |-> r.key, body |-> r.body]}
          /\ calls' = [calls EXCEPT ![c] =
                         [@ EXCEPT !.place = "answered", !.result = "ok", !.id = id]]
    BY DEF Commit
  <1> DEFINE new == [id |-> id, apiKey |-> r.apiKey, key |-> r.key, body |-> r.body]
  <1>3. /\ calls'[c].place = "answered" /\ calls'[c].late = calls[c].late
        /\ \A d \in Calls \ {c} : calls'[d] = calls[d]
    BY <1>1, <1>2 DEF Progress, Shape, TypeOK, Call
  <1>4. SUFFICES ASSUME changes = 0
                 PROVE  /\ \A m \in mail' : Clears(m, active, ready, suppressed)
                        /\ \A d \in Calls : /\ KeptPlace(calls'[d], active, ready, suppressed)
                                            /\ ToldOriginal(calls'[d], mail')
    BY <1>1 DEF Original, policy
  <1>5. Clears(new, active, ready, suppressed)
    <2>1. Clears(r, active, ready, suppressed)
      BY <1>1, <1>4 DEF Original, KeptPlace
    <2> QED
      BY <2>1 DEF Clears
  <1>6. \A m \in mail' : Clears(m, active, ready, suppressed)
    BY <1>2, <1>4, <1>5 DEF Original
  <1>7. ASSUME NEW d \in Calls
        PROVE  /\ KeptPlace(calls'[d], active, ready, suppressed)
               /\ ToldOriginal(calls'[d], mail')
    <2>1. CASE d = c
      BY <1>1, <1>3, <2>1 DEF KeptPlace, ToldOriginal, Progress, LateCallsReplay
    <2>2. CASE d # c
      <3>1. calls'[d] = calls[d] /\ KeptPlace(calls[d], active, ready, suppressed)
            /\ ToldOriginal(calls[d], mail)
        BY <1>3, <1>4, <2>2 DEF Original
      <3>2. calls[d].late => ~Repeats(calls[d].request, new)
        <4> SUFFICES ASSUME TakenIn(seen, calls[d].request), Repeats(calls[d].request, new)
                     PROVE  FALSE
          BY DEF Progress, LateCallsReplay
        <4>1. calls[d].request.key = r.key /\ Project(calls[d].request) = Project(r)
          BY DEF Repeats, Project
        <4> QED
          BY <1>1, <4>1 DEF TakenIn, KeyTaken
      <3> HIDE DEF new
      <3> QED
        BY <1>2, <3>1, <3>2 DEF ToldOriginal, new
    <2> QED
      BY <2>1, <2>2
  <1> QED
    BY <1>6, <1>7

LEMMA OriginalNext ==
    ASSUME Integrity, Progress, Original, [Next]_vars
    PROVE  Original'
  <1> USE DEF Progress, Shape, TypeOK
  <1>1. ASSUME NEW c \in Calls, NEW r \in Requests, Arrive(c, r) PROVE Original'
    <2>1. /\ calls'[c].place = "arrived" /\ \A d \in Calls \ {c} : calls'[d] = calls[d]
          /\ UNCHANGED <<mail, policy>>
      BY <1>1 DEF Arrive, FreeCall, tables
    <2> QED
      BY <2>1, OriginalOfOne DEF KeptPlace, ToldOriginal
  <1>2. ASSUME NEW c \in Calls, ReadStep(c) PROVE Original'
    <2>1. /\ \A d \in Calls \ {c} : calls'[d] = calls[d]
          /\ UNCHANGED <<mail, policy>>
      BY <1>2, ReadProgress DEF tables
    <2> QED
      BY <1>2, <2>1, ReadOriginal, OriginalOfOne
  <1>3. ASSUME NEW c \in Calls, Respond(c) \/ Vanish(c) PROVE Original'
    <2>1. /\ calls'[c].place = "free" /\ \A d \in Calls \ {c} : calls'[d] = calls[d]
          /\ UNCHANGED <<mail, policy>>
      BY <1>3 DEF Respond, Vanish, FreeCall, tables
    <2> QED
      BY <2>1, OriginalOfOne DEF KeptPlace, ToldOriginal
  <1>4. ASSUME NEW act, NEW rdy, NEW supp, Change(act, rdy, supp) PROVE Original'
    BY <1>4 DEF Change, Original
  <1>5. CASE UNCHANGED vars
    BY <1>5 DEF vars, tables, policy, Original
  <1> QED
    BY <1>1, <1>2, <1>3, <1>4, <1>5, CommitOriginal
       DEF Next, ReadStep, RevokeKey, DomainChanges, Suppress, Unsuppress

\* As long as nobody changes keys, domains or suppressions, a repeat that comes after
\* its key was stored is answered with the original id (ReplayReturnsOriginal).
THEOREM RepeatsGetTheOriginal == Spec => []ReplayReturnsOriginal
  <1>1. Init => Integrity /\ Progress /\ Original
    BY IntegrityInit, ProgressInit, OriginalInit
  <1>2. Integrity /\ Progress /\ Original /\ [Next]_vars
          => Integrity' /\ Progress' /\ Original'
    BY IntegrityNext, ProgressNext, OriginalNext
  <1>3. Original => ReplayReturnsOriginal
    BY DEF Original, ToldOriginal, Repeats, ReplayReturnsOriginal
  <1> QED
    BY <1>1, <1>2, <1>3, PTL DEF Spec

-----------------------------------------------------------------------------
(* The calls implement the promised intake *)

LEMMA IntakeInit == Init => Intake!Init
  BY DEF Init, Intake!Init

LEMMA IntakeNext == Integrity /\ [Next]_vars => [Intake!Next]_(Intake!vars)
  <1> SUFFICES ASSUME Integrity, [Next]_vars PROVE [Intake!Next]_(Intake!vars)
    OBVIOUS
  <1> DEFINE View(m) == [id |-> m.id, project |-> Project(m), key |-> m.key, body |-> m.body]
             Before == {View(m) : m \in mail}
             After == {View(m) : m \in mail'}
  <1>1. ASSUME UNCHANGED <<mail, told>> PROVE UNCHANGED Intake!vars
    BY <1>1 DEF Intake!vars, Project, SubmissionOf
  <1>2. ASSUME NEW c \in Calls, ReadStep(c) PROVE UNCHANGED <<mail, told>>
    BY <1>2, ReadAnswers DEF tables
  <1>3. ASSUME NEW c \in Calls, Commit(c) PROVE Intake!Next
    <2> DEFINE r == calls[c].request
               s == SubmissionOf(r)
    <2>1. r \in Requests
      BY <1>3 DEF Commit, Integrity, Shape, Busy
    <2>2. s \in Intake!Submission
      BY <2>1, RequestsAreRequests DEF SubmissionOf, Intake!Submission
    <2>3. PICK id \in FreshIds :
             mail' = mail \union
                {[id |-> id, apiKey |-> r.apiKey, key |-> r.key, body |-> r.body]}
      BY <1>3 DEF Commit
    <2>4. id \in Ids /\ \A m \in Before : m.id # id
      BY DEF FreshIds
    <2> DEFINE new == [id |-> id, apiKey |-> r.apiKey, key |-> r.key, body |-> r.body]
    <2>a. View(new) = [id |-> id, project |-> s.project, key |-> s.key, body |-> s.body]
      BY DEF SubmissionOf, Project
    <2>b. After = Before \union {View(new)}
      <3> HIDE DEF View
      <3> QED
        BY <2>3
    <2>5. After = Before \union
                    {[id |-> id, project |-> s.project, key |-> s.key, body |-> s.body]}
      BY <2>a, <2>b
    <2>6. ASSUME s.key # NoKey, NEW m \in mail
          PROVE  ~(View(m).project = s.project /\ View(m).key = s.key)
      BY <1>3, <2>6 DEF Commit, KeyTaken, StoredFor, Integrity, KeyIndex, SubmissionOf
    <2>7. told' = told
      BY <1>3 DEF Commit
    <2>8. Intake!Accept(s, id)
      BY <2>4, <2>5, <2>6, <2>7 DEF Intake!Accept, Intake!Free, Project, SubmissionOf
    <2> QED
      BY <2>2, <2>4, <2>8 DEF Intake!Next
  <1>4. ASSUME NEW c \in Calls, Respond(c) PROVE [Intake!Next]_(Intake!vars)
    <2> DEFINE r == calls[c].request
               s == SubmissionOf(r)
    <2>1. mail' = mail
      BY <1>4 DEF Respond, tables
    <2>2. CASE calls[c].result # "ok"
      BY <1>1, <1>4, <2>1, <2>2 DEF Respond
    <2>3. CASE calls[c].result = "ok"
      <3>1. PICK m \in mail : /\ m.id = calls[c].id /\ Project(m) = Project(r)
                             /\ m.key = r.key /\ m.body = r.body
        BY <2>3 DEF Integrity, AnswersBacked, Made
      <3>2. r \in Requests
        BY <1>4 DEF Respond, Integrity, Shape, Busy
      <3>3. s \in Intake!Submission
        BY <3>2, RequestsAreRequests DEF SubmissionOf, Intake!Submission
      <3>4. told' = told \union {[request |-> r, id |-> calls[c].id]}
        BY <1>4, <2>3 DEF Respond
      <3> DEFINE Seen(t) == [submission |-> SubmissionOf(t.request), id |-> t.id]
                 receipt == [request |-> r, id |-> calls[c].id]
      <3>a. Seen(receipt) = [submission |-> s, id |-> View(m).id]
        BY <3>1
      <3>b. {Seen(t) : t \in told'} = {Seen(t) : t \in told} \union {Seen(receipt)}
        <4> HIDE DEF Seen
        <4> QED
          BY <3>4
      <3>5. {Seen(t) : t \in told'}
              = {Seen(t) : t \in told} \union {[submission |-> s, id |-> View(m).id]}
        BY <3>a, <3>b
      <3>6. Intake!Tell(s, View(m))
        BY <2>1, <3>1, <3>5 DEF Intake!Tell, SubmissionOf, Project
      <3> QED
        BY <3>3, <3>6 DEF Intake!Next
    <2> QED
      BY <2>2, <2>3
  <1>5. ASSUME NEW c \in Calls, NEW r \in Requests, Arrive(c, r) PROVE UNCHANGED <<mail, told>>
    BY <1>5 DEF Arrive, tables
  <1>6. ASSUME NEW c \in Calls, Vanish(c) PROVE UNCHANGED <<mail, told>>
    BY <1>6 DEF Vanish, tables
  <1>7. ASSUME NEW k \in ApiKeys, RevokeKey(k) PROVE UNCHANGED <<mail, told>>
    BY <1>7 DEF RevokeKey, Change, tables
  <1>8. ASSUME NEW d \in Senders, DomainChanges(d) PROVE UNCHANGED <<mail, told>>
    BY <1>8 DEF DomainChanges, Change, tables
  <1>9. ASSUME NEW a \in Addresses, Suppress(a) \/ Unsuppress(a) PROVE UNCHANGED <<mail, told>>
    BY <1>9 DEF Suppress, Unsuppress, Change, tables
  <1>10. CASE UNCHANGED vars
    BY <1>1, <1>10 DEF vars, tables
  <1> QED
    BY <1>1, <1>2, <1>3, <1>4, <1>5, <1>6, <1>7, <1>8, <1>9, <1>10 DEF Next, ReadStep

\* Concurrent calls, lost answers and crashes included, the API keeps the promise of
\* IdempotentIntake (KeepsIntake).
THEOREM ImplementsIntake == Spec => KeepsIntake
  BY IntegrityInit, IntegrityNext, IntakeInit, IntakeNext, PTL
     DEF Spec, KeepsIntake, Intake!Spec
=============================================================================
