-------------------------- MODULE ClassificationProofs --------------------------
(***************************************************************************)
(* What TLAPS proves of Classification, for every reply.                   *)
(***************************************************************************)
EXTENDS Classification, TLAPS

Retries == {Retry(class) : class \in FailureClass \ {"recipient_rejected"}}
Finals == {Final(class) : class \in FailureClass}

LEMMA RetryShape ==
    ASSUME NEW verdict \in Retries
    PROVE  /\ verdict \in Verdict /\ verdict.retryable = TRUE
           /\ verdict.class # "recipient_rejected"
  <1>1. PICK class \in FailureClass \ {"recipient_rejected"} : verdict = Retry(class)
    BY DEF Retries
  <1> QED
    BY <1>1 DEF Retry, Verdict

LEMMA FinalShape ==
    ASSUME NEW verdict \in Finals
    PROVE  verdict \in Verdict /\ verdict.retryable = FALSE
  <1>1. PICK class \in FailureClass : verdict = Final(class)
    BY DEF Finals
  <1> QED
    BY <1>1 DEF Final, Verdict

LEMMA SomeRetries ==
    /\ Retry("connection") \in Retries /\ Retry("rate_limited") \in Retries
    /\ Retry("provider_deferral") \in Retries /\ Retry("unknown") \in Retries
  BY DEF Retries, FailureClass

LEMMA SomeFinals ==
    /\ Final("auth_failure") \in Finals /\ Final("recipient_rejected") \in Finals
    /\ Final("sender_mismatch") \in Finals /\ Final("sender_unauthorized") \in Finals
    /\ Final("policy_rejected") \in Finals /\ Final("message_invalid") \in Finals
    /\ Final("unknown") \in Finals
  BY DEF Finals, FailureClass

LEMMA CodeVerdicts ==
    ASSUME NEW code \in Int
    PROVE  /\ VerdictOfCode(code) \in Retries \union Finals
           /\ code \notin 200..299 => VerdictOfCode(code) \in Retries
  BY SomeRetries, SomeFinals DEF VerdictOfCode

LEMMA VerbatimVerdicts ==
    ASSUME NEW reply
    PROVE  VerdictVerbatim(reply) \in Finals
  BY SomeFinals DEF VerdictVerbatim

\* classify always reaches a verdict, and an address is rejected for good.
THEOREM ClassifyIsTotal ==
    \A reply \in Reply : Classify(reply) \in Retries \union Finals
  BY SomeRetries, SomeFinals, CodeVerdicts, VerbatimVerdicts DEF Classify, Reply

\* A reply that declares its address dead is never one that asks for a retry,
\* though classify.py and bounce.py decide the two apart.
THEOREM DeadIsFinal ==
    \A reply \in Reply : ShouldSuppress(reply) => ~Classify(reply).retryable
  BY ClassifyIsTotal, RetryShape, FinalShape DEF ShouldSuppress

\* "A 5xx we do not recognise is re-queued and flagged for review, never dropped"
\* (classify.py): what only says what no rule knows is retried, success codes aside.
THEOREM UnrecognisedIsRetried ==
    \A reply \in Reply :
        reply.says \subseteq {"address not found"} /\ reply.code \notin 200..299
        => Classify(reply).retryable
  <1> SUFFICES ASSUME NEW reply \in Reply, reply.says \subseteq {"address not found"},
                      reply.code \notin 200..299
               PROVE  Classify(reply) \in Retries
    BY RetryShape
  <1>1. reply.code \in Int
    BY DEF Reply
  <1>2. ~KnownVerbatim(reply)
    BY DEF KnownVerbatim, Says
  <1> QED
    BY <1>1, <1>2, SomeRetries, CodeVerdicts DEF Classify, Says

\* "The rate-limit 5xx is the exception -- it MUST be retried" (classify.py), unless
\* the reply also has the code and wording of a rule observed verbatim.
THEOREM RateLimitIsRetried ==
    \A reply \in Reply :
        Says(reply, {"over limit", "try again later"}) /\ ~KnownVerbatim(reply)
        => Classify(reply).retryable
  BY SomeRetries, RetryShape DEF Classify

\* "4xx is a deferral by definition.  Retrying is what the code means" (classify.py)
\* is said of replies no rule knows.  The rules for any code come first: a 450
\* "mailbox unavailable" is final.
THEOREM SomeDeferralsAreFinal ==
    \E reply \in Reply :
        reply.code \in 400..499 /\ ~Classify(reply).retryable /\ ~ShouldSuppress(reply)
  <1>1. PICK reply \in Reply : reply.code = 450 /\ reply.says = {"user unknown"}
    <2>1. [code |-> 450, says |-> {"user unknown"}] \in Reply
      BY DEF Reply, Phrases
    <2> QED
      BY <2>1
  <1>2. reply.code = 450
    BY <1>1
  <1>3. ~Says(reply, {"over limit", "try again later"}) /\ Says(reply, {"user unknown"})
    BY <1>1 DEF Says
  <1>4. reply.code # NoCode /\ ~KnownVerbatim(reply)
    BY <1>2 DEF NoCode, KnownVerbatim
  <1>5. Classify(reply) = Final("recipient_rejected")
    BY <1>3, <1>4 DEF Classify
  <1>6. ~Classify(reply).retryable
    BY <1>5, SomeFinals, FinalShape
  <1>7. ~ShouldSuppress(reply)
    BY <1>2 DEF ShouldSuppress
  <1> QED
    BY <1>2, <1>6, <1>7

-----------------------------------------------------------------------------
(* Which replies declare an address dead *)

LEMMA TwoCodes == \A code \in Int : code = 535 => code # 550
  OBVIOUS

\* Two verdicts reject a recipient: the rule observed verbatim, and the generic
\* wording when no rule before it applies.
LEMMA RejectingReplies ==
    ASSUME NEW reply \in Reply, reply.code # NoCode
    PROVE  Classify(reply).class = "recipient_rejected" <=>
              \/ reply.code = 550 /\ Says(reply, {"no such recipient here"})
              \/ /\ ~KnownVerbatim(reply)
                 /\ ~Says(reply, {"over limit", "try again later"})
                 /\ Says(reply, {"user unknown"})
  <1>1. CASE KnownVerbatim(reply)
    <2>1. reply.code = 550 => reply.code # 535
      BY TwoCodes DEF Reply
    <2>2. Classify(reply) = VerdictVerbatim(reply)
      BY <1>1 DEF Classify
    <2>3. CASE reply.code = 535
      BY <1>1, <2>2, <2>3 DEF VerdictVerbatim, Final
    <2>4. CASE reply.code = 550 /\ Says(reply, {"no such recipient here"})
      <3>1. Classify(reply) = Final("recipient_rejected")
        BY <2>1, <2>2, <2>4 DEF VerdictVerbatim
      <3>2. Classify(reply).class = "recipient_rejected"
        BY <3>1 DEF Final
      <3> QED
        BY <2>4, <3>2
    <2>5. CASE reply.code = 550 /\ ~Says(reply, {"no such recipient here"})
      <3>1. \/ Classify(reply) = Final("sender_mismatch")
            \/ Classify(reply) = Final("sender_unauthorized")
        BY <2>1, <2>2, <2>5 DEF VerdictVerbatim
      <3>2. Classify(reply).class # "recipient_rejected"
        BY <3>1 DEF Final
      <3> QED
        BY <1>1, <2>5, <3>2
    <2> QED
      BY <1>1, <2>3, <2>4, <2>5 DEF KnownVerbatim
  <1>2. CASE ~KnownVerbatim(reply)
    <2>1. ~(reply.code = 550 /\ Says(reply, {"no such recipient here"}))
      BY <1>2 DEF KnownVerbatim, Says
    <2>2. VerdictOfCode(reply.code).class # "recipient_rejected"
      BY DEF VerdictOfCode, Final, Retry
    <2>3. CASE Says(reply, {"over limit", "try again later"})
      BY <1>2, <2>1, <2>3 DEF Classify, Retry
    <2>4. CASE ~Says(reply, {"over limit", "try again later"}) /\ Says(reply, {"user unknown"})
      BY <1>2, <2>4 DEF Classify, Final
    <2>5. CASE ~Says(reply, {"over limit", "try again later"}) /\ ~Says(reply, {"user unknown"})
      BY <1>2, <2>1, <2>2, <2>5 DEF Classify, Final, Retry
    <2> QED
      BY <2>3, <2>4, <2>5
  <1> QED
    BY <1>1, <1>2

\* The rules of classify.py and the expression of bounce.py together: an address
\* is suppressed on a 550 in the provider's own words, or on a 5xx that says the
\* user is unknown and nothing a rule observed verbatim or the limit's rule knows.
\* "address not found" alone, which only bounce.py knows, never suppresses.
THEOREM SuppressedOnTwoGrounds ==
    \A reply \in Reply :
        ShouldSuppress(reply) <=>
            \/ reply.code = 550 /\ Says(reply, {"no such recipient here"})
            \/ /\ reply.code \in 500..599
               /\ Says(reply, {"user unknown"})
               /\ ~KnownVerbatim(reply)
               /\ ~Says(reply, {"over limit", "try again later"})
  <1> SUFFICES ASSUME NEW reply \in Reply
               PROVE  ShouldSuppress(reply) <=>
                         \/ reply.code = 550 /\ Says(reply, {"no such recipient here"})
                         \/ /\ reply.code \in 500..599
                            /\ Says(reply, {"user unknown"})
                            /\ ~KnownVerbatim(reply)
                            /\ ~Says(reply, {"over limit", "try again later"})
    OBVIOUS
  <1>1. reply.code \in Int
    BY DEF Reply
  <1>2. reply.code = 550 => reply.code \in 500..599
    BY <1>1
  <1>3. Says(reply, {"no such recipient here"}) \/ Says(reply, {"user unknown"})
           => DeadWording \intersect reply.says # {}
    BY DEF Says, DeadWording
  <1>4. CASE reply.code \notin 500..599
    BY <1>2, <1>4 DEF ShouldSuppress
  <1>5. CASE reply.code \in 500..599
    <2>1. reply.code # NoCode
      BY <1>1, <1>5 DEF NoCode
    <2> QED
      BY <1>3, <1>5, <2>1, RejectingReplies DEF ShouldSuppress
  <1> QED
    BY <1>4, <1>5

\* "Our own bugs (sender mismatch, auth failure) never count" (bounce.py), whatever
\* else such a reply says, unless it also names the recipient in the provider's words.
THEOREM OwnFaultsSpareRecipients ==
    \A reply \in Reply :
        \/ reply.code = 535 /\ Says(reply, {"wrong credential"})
        \/ /\ reply.code = 550 /\ Says(reply, {"not your login", "unauthorized range"})
           /\ ~Says(reply, {"no such recipient here"})
        => ~ShouldSuppress(reply)
  <1> SUFFICES ASSUME NEW reply \in Reply,
                      \/ reply.code = 535 /\ Says(reply, {"wrong credential"})
                      \/ /\ reply.code = 550
                         /\ Says(reply, {"not your login", "unauthorized range"})
                         /\ ~Says(reply, {"no such recipient here"})
               PROVE  ~ShouldSuppress(reply)
    OBVIOUS
  <1>1. KnownVerbatim(reply)
    BY DEF KnownVerbatim, Says
  <1>2. reply.code = 535 => reply.code # 550
    BY TwoCodes DEF Reply
  <1>3. ~(reply.code = 550 /\ Says(reply, {"no such recipient here"}))
    BY <1>2
  <1> QED
    BY <1>1, <1>3, SuppressedOnTwoGrounds

\* "Policy and reputation rejections never count" (bounce.py) is true only of those
\* that do not also say the user is unknown: the rule for recipients comes first.
THEOREM SomePolicyRejectionsSuppress ==
    \E reply \in Reply : Says(reply, {"policy"}) /\ ShouldSuppress(reply)
  <1>1. PICK reply \in Reply : reply.code = 550 /\ reply.says = {"policy", "user unknown"}
    <2>1. [code |-> 550, says |-> {"policy", "user unknown"}] \in Reply
      BY DEF Reply, Phrases
    <2> QED
      BY <2>1
  <1>2. /\ Says(reply, {"policy"}) /\ Says(reply, {"user unknown"})
        /\ ~Says(reply, {"over limit", "try again later"}) /\ ~KnownVerbatim(reply)
    BY <1>1 DEF Says, KnownVerbatim
  <1>3. reply.code \in 500..599
    <2>1. 550 \in 500..599
      OBVIOUS
    <2> QED
      BY <1>1, <2>1
  <1> QED
    BY <1>2, <1>3, SuppressedOnTwoGrounds
=============================================================================
