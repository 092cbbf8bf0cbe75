------------------------------ MODULE RateWindow ------------------------------
(***************************************************************************)
(* The arithmetic behind the rate gate: which attempts current_budget      *)
(* counts, when next_window_opening lets a message try again               *)
(* (emaild/ratelimit.py), and how soon a refused one is retried            *)
(* (backoff_delay in worker.py).  DeliveryQueue leaves all three to a      *)
(* clock that may jump; here instants are seconds.                         *)
(*                                                                         *)
(* What the messages table has of one identity is `last`, which gives the  *)
(* last attempt of every message that had one.                             *)
(***************************************************************************)
EXTENDS DeliveryQueue

CONSTANT Instants      \* the instants an instance considers

ASSUME RateConstants == Instants \subseteq Nat

WINDOW == 3600

MAX_ATTEMPTS == 8

BACKOFF == <<30, 120, 600, 1800, 7200, 21600, 43200, 86400>>

AttemptTables == UNION {[some -> Instants] : some \in SUBSET Messages}

-----------------------------------------------------------------------------
(* The gate *)

\* current_budget: last_attempt_at >= now - WINDOW, of the rows that have one.
InWindow(last, now) == {r \in DOMAIN last : last[r] + WINDOW >= now}

\* What StampAttempt makes of the table.
Attempted(last, again, t) == [r \in DOMAIN last |-> IF r \in again THEN t ELSE last[r]]

Shut(last, now, ceiling) == Cardinality(InWindow(last, now)) >= ceiling

\* Mutant: no cushion.
OpeningTooEarly(last, now) ==
    LET inside == {last[r] : r \in InWindow(last, now)} IN
    IF inside = {} THEN now ELSE (CHOOSE t \in inside : \A u \in inside : t <= u) + WINDOW

\* The oldest attempt ages out, and a second's cushion.
NextWindowOpening(last, now) ==
    LET inside == {last[r] : r \in InWindow(last, now)} IN
    IF inside = {} THEN now
    ELSE (CHOOSE t \in inside : \A u \in inside : t <= u) + WINDOW + 1

-----------------------------------------------------------------------------
(* The retries *)

\* backoff_delay, shortened by jitter as far as it goes.
LeastDelay(attempt) == (BACKOFF[attempt] * 4) \div 5

\* The instants of consecutive attempts of one message, each but the last of them
\* answered with a deferral.
Scheduled(times) ==
    \A i \in DOMAIN times :
        i + 1 \in DOMAIN times => times[i + 1] >= times[i] + LeastDelay(i)

-----------------------------------------------------------------------------
(* Properties *)

\* What the worker waits for when it hands a message back (next_window_opening),
\* at whichever instants the attempts it counts were made.  "Retrying earlier than
\* this is guaranteed to hit the gate again", whatever is attempted again meanwhile.
\* And not later than it must: if nothing is, and racing workers have not overdrawn
\* the budget, the gate is open then, though it counts an attempt of exactly an
\* hour ago.
OpeningIsExact ==
    \A w \in Workers :
        pc[w] = "loaded" /\ task[w].gated /\ Exhausted(task[w].message) =>
            LET counted == RecentRows(MailboxOf[task[w].message]) IN
            \A last \in [counted -> Instants], now \in Instants :
                InWindow(last, now) = counted =>
                    /\ \A t \in Instants, again \in SUBSET counted :
                          now <= t /\ t < NextWindowOpening(last, now)
                          => Shut(Attempted(last, again, t), t, Ceiling)
                    /\ Cardinality(counted) = Ceiling
                          => ~Shut(last, NextWindowOpening(last, now), Ceiling)

\* One message makes five attempts at most in any hour: the sixth comes after the
\* window of the first.
RetriesPerWindow ==
    \A first \in 1 .. MAX_ATTEMPTS - 5 : \A times \in [first .. first + 5 -> Instants] :
        Scheduled(times) => times[first + 5] > times[first] + WINDOW
=============================================================================
