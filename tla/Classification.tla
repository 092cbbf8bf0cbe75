----------------------------- MODULE Classification -----------------------------
(***************************************************************************)
(* What a provider's reply means (emaild/delivery/classify.py, bounce.py). *)
(*                                                                         *)
(* A reply is a code and what its wording says.  The code matches wording  *)
(* by regular expressions in two places that must fit each other: rules    *)
(* that decide on a retry, in order, and one expression that decides       *)
(* whether the address is dead.  Wordings that no expression tells apart   *)
(* are one phrase here, and a reply may say any number of them.            *)
(***************************************************************************)
EXTENDS Integers

\* No SMTP response at all; the code of None.
NoCode == 0

Phrases == {"wrong credential", "no such recipient here", "not your login",
            "unauthorized range", "over limit", "try again later", "user unknown",
            "address not found", "policy", "too large", "try again"}

Reply == [code : Int, says : SUBSET Phrases]

NoReply == [code |-> NoCode, says |-> {}]

FailureClass == {"auth_failure", "recipient_rejected", "sender_unauthorized",
                 "sender_mismatch", "rate_limited", "provider_deferral", "connection",
                 "policy_rejected", "message_invalid", "internal", "unknown"}

\* needs_review, which only people read, is left out.
Verdict == [class : FailureClass, retryable : BOOLEAN]

Retry(class) == [class |-> class, retryable |-> TRUE]
Final(class) == [class |-> class, retryable |-> FALSE]

Says(reply, phrases) == reply.says \intersect phrases # {}

\* The verdict when no rule applies goes by the code.
VerdictOfCode(code) ==
    IF code \in 200..299 THEN Final("unknown")
    ELSE IF code \in 400..499 THEN Retry("provider_deferral")
    ELSE Retry("unknown")

\* The rules observed verbatim name their code; the others take any.
KnownVerbatim(reply) ==
    \/ reply.code = 535 /\ Says(reply, {"wrong credential"})
    \/ reply.code = 550 /\ Says(reply, {"no such recipient here", "not your login",
                                       "unauthorized range"})

VerdictVerbatim(reply) ==
    IF reply.code = 535 THEN Final("auth_failure")
    ELSE IF Says(reply, {"no such recipient here"}) THEN Final("recipient_rejected")
    ELSE IF Says(reply, {"not your login"}) THEN Final("sender_mismatch")
    ELSE Final("sender_unauthorized")

\* _RULES: "First match wins".
Classify(reply) ==
    IF reply.code = NoCode THEN Retry("connection")
    ELSE IF KnownVerbatim(reply) THEN VerdictVerbatim(reply)
    ELSE IF Says(reply, {"over limit", "try again later"}) THEN Retry("rate_limited")
    ELSE IF Says(reply, {"user unknown"}) THEN Final("recipient_rejected")
    ELSE IF Says(reply, {"policy"}) THEN Final("policy_rejected")
    ELSE IF Says(reply, {"too large"}) THEN Final("message_invalid")
    ELSE IF Says(reply, {"try again"}) THEN Retry("provider_deferral")
    ELSE VerdictOfCode(reply.code)

\* _ADDRESS_IS_DEAD
DeadWording == {"no such recipient here", "user unknown", "address not found"}

\* Mutant: the wording alone decides.
ShouldSuppressByWording(reply) ==
    reply.code \in 500..599 /\ DeadWording \intersect reply.says # {}

ShouldSuppress(reply) ==
    /\ Classify(reply).class = "recipient_rejected"
    /\ reply.code \in 500..599
    /\ DeadWording \intersect reply.says # {}
=============================================================================
