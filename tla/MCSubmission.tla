---------------------------- MODULE MCSubmission ----------------------------
\* Two projects, three credentials, three bodies.
EXTENDS Submission, TLC

CONSTANTS p1, p2, k1, k2, k3, s1, s2, a1, a2, x, b1, b2, b3

OwnerOfKey == k1 :> p1 @@ k2 :> p1 @@ k3 :> p2
KeyScopes == k1 :> {s1, s2} @@ k2 :> {s1} @@ k3 :> {s1}
BodySender == b1 :> s1 @@ b2 :> s1 @@ b3 :> s2
BodyRecipients == b1 :> {a1} @@ b2 :> {a1, a2} @@ b3 :> {a2}
WithinLimits == {b1, b2}

Ask(k, i, b) == [apiKey |-> k, key |-> i, body |-> b]

\* One key: repeated, by two credentials of a project, with another body, by
\* another project.
SharedKey == {Ask(k1, x, b1), Ask(k2, x, b1), Ask(k1, x, b2), Ask(k3, x, b1)}

\* What can be refused on the way in, with and without a key.
Refusable == {Ask(k1, x, b2), Ask(k1, NoKey, b2), Ask(k1, x, b3), Ask(k2, x, b3)}

All == SharedKey \union Refusable

Alike == Permutations(Calls) \union Permutations(Ids)
=============================================================================
