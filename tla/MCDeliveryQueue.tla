--------------------------- MODULE MCDeliveryQueue ---------------------------
(* Small instances of DeliveryQueue for TLC. *)
EXTENDS RateWindow, TLC

CONSTANTS m1, m2, a1, a2, mb1, mb2

\* One identity sends both messages; they share a recipient.
OneMailbox == [m \in Messages |-> mb1]
SharedRecipient == [m \in Messages |-> {a1}]

\* The third message belongs to a domain without an smtp_host.
TwoMailboxes == [m \in Messages |-> IF m \in {m1, m2} THEN mb1 ELSE mb2]

\* Every message can be sent; the second can never be composed.
NoneRaises == [m \in Messages |-> "nowhere"]
SecondRaises == [m \in Messages |-> IF m = m2 THEN "wire" ELSE "nowhere"]

\* The first message has two recipients, one of them shared with the second.
OverlappingRecipients == [m \in Messages |-> IF m = m1 THEN {a1, a2} ELSE {a1}]

\* A dead address; one that is over quota or unknown, in one breath; a policy
\* rejection; a deferral.
TellingReplies == {[code |-> 550, says |-> {"user unknown"}],
                   [code |-> 550, says |-> {"user unknown", "over limit"}],
                   [code |-> 550, says |-> {"policy"}],
                   [code |-> 451, says |-> {}]}

\* The beginning and the ends of windows.
Ends == {0, 1, 3600, 3601, 3602}

\* Attempts as soon after each other as they can be, and after them.
Telling == {0, 24, 120, 600, 2040, 3600, 3601, 7800}

\* The arithmetic is no matter of states: TLC evaluates it on the instants given.
ASSUME RetriesPerWindow

\* Sound where messages, and workers, are treated alike (no liveness checked).
Alike == Permutations(Messages) \union Permutations(Workers)
=============================================================================
