----------------------------- MODULE MailPromise -----------------------------
(***************************************************************************)
(* What emaild promises a client whose message it has accepted: it is      *)
(* called accepted only after the provider took it, and once its fate is   *)
(* told the message is neither sent again nor told a second fate.  That a  *)
(* fate is told is not promised: there are messages that stay pending      *)
(* (EventuallySettled in DeliveryQueue).                                   *)
(***************************************************************************)
EXTENDS Naturals

CONSTANT Messages

VARIABLES
    fate,      \* what the API says of each message
    copies     \* how many times the provider took it

vars == <<fate, copies>>

Fates == {"unknown", "pending", "accepted", "rejected"}

Init ==
    /\ fate = [m \in Messages |-> "unknown"]
    /\ copies = [m \in Messages |-> 0]

Undertake(m) ==
    /\ fate[m] = "unknown"
    /\ fate' = [fate EXCEPT ![m] = "pending"]
    /\ UNCHANGED copies

HandOver(m) ==
    /\ fate[m] = "pending"
    /\ copies' = [copies EXCEPT ![m] = @ + 1]
    /\ UNCHANGED fate

Settle(m) ==
    /\ fate[m] = "pending"
    /\ \/ copies[m] > 0 /\ fate' = [fate EXCEPT ![m] = "accepted"]
       \/ fate' = [fate EXCEPT ![m] = "rejected"]
    /\ UNCHANGED copies

Next == \E m \in Messages : Undertake(m) \/ HandOver(m) \/ Settle(m)

\* That a message undertaken is settled is no part of it: one that can never be
\* sent stays pending.
Spec == Init /\ [][Next]_vars
=============================================================================
