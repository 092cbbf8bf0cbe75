---------------------------- MODULE DnsChecksProofs ----------------------------
(***************************************************************************)
(* Theorems about DnsChecks, for every sweep: any zone, any lookups that   *)
(* fail, any demands.                                                      *)
(***************************************************************************)
EXTENDS DnsChecks, TLAPS

\* What each required record passes on, when MXRoute says all it demands.
LEMMA ChecksInFull ==
    ASSUME NEW s \in Sweeps, s.demands = Demandable
    PROVE  \A r \in Required \union {"ownership"} :
              /\ Report(s)[r] = "error" <=> r \in s.failing
              /\ Report(s)[r] = "pass" <=> r \notin s.failing /\ Fine(s.zone, r)
<1> USE DEF Demandable, Report, Fine
<1>1. /\ CheckMx(s) = "error" <=> "mx" \in s.failing
      /\ CheckMx(s) = "pass" <=> "mx" \notin s.failing /\ Fine(s.zone, "mx")
  BY DEF CheckMx, Looked
<1>2. /\ CheckSpf(s) = "error" <=> "spf" \in s.failing
      /\ CheckSpf(s) = "pass" <=> "spf" \notin s.failing /\ Fine(s.zone, "spf")
  BY DEF CheckSpf, Looked
<1>3. /\ CheckDkim(s) = "error" <=> "dkim" \in s.failing
      /\ CheckDkim(s) = "pass" <=> "dkim" \notin s.failing /\ Fine(s.zone, "dkim")
  BY DEF CheckDkim, Looked
<1>4. /\ CheckOwnership(s) = "error" <=> "ownership" \in s.failing
      /\ CheckOwnership(s) = "pass" <=> "ownership" \notin s.failing /\ Fine(s.zone, "ownership")
  BY DEF CheckOwnership, Looked
<1> QED
  BY <1>1, <1>2, <1>3, <1>4 DEF Required

\* "The authoritative source": a domain that may send has its ownership, MX, SPF
\* and DKIM records in the zone, each was looked up, and MXRoute demanded the MX
\* and the DKIM key it was compared with (can_send, check_mx, check_dkim).
THEOREM SendableIsPublished ==
    ASSUME NEW s \in Sweeps, Sendable(s)
    PROVE  /\ {"mx", "dkim", "ownership"} \subseteq s.demands
           /\ \A r \in Required \union {"ownership"} : r \notin s.failing /\ Fine(s.zone, r)
<1> USE DEF Fine
<1>1. /\ CheckMx(s) = "pass" /\ CheckSpf(s) = "pass" /\ CheckDkim(s) = "pass"
      /\ CheckOwnership(s) = "pass"
  BY DEF Sendable, CanSend, Report, Required
<1>2. "mx" \in s.demands /\ "mx" \notin s.failing /\ Fine(s.zone, "mx")
  BY <1>1 DEF CheckMx, Looked
<1>3. "spf" \notin s.failing /\ Fine(s.zone, "spf")
  BY <1>1 DEF CheckSpf, Looked
<1>4. "dkim" \in s.demands /\ "dkim" \notin s.failing /\ Fine(s.zone, "dkim")
  BY <1>1 DEF CheckDkim, Looked
<1>5. "ownership" \in s.demands /\ "ownership" \notin s.failing /\ Fine(s.zone, "ownership")
  BY <1>1 DEF CheckOwnership, Looked
<1> QED
  BY <1>2, <1>3, <1>4, <1>5 DEF Required

\* "A domain is never demoted on the strength of a failed DNS lookup": when MXRoute
\* says all it demands, a sweep takes a ready domain out of READY only if it looked
\* some record up and found it absent or wrong, whatever lookups failed.
THEOREM DemotionDisproves ==
    ASSUME NEW s \in Sweeps, s.demands = Demandable,
           NextStatus("ready", s, TRUE) # "ready"
    PROVE  Disproved(s) # {}
<1> SUFFICES ASSUME Disproved(s) = {} PROVE FALSE
  OBVIOUS
<1>1. \A r \in Required \union {"ownership"} :
         /\ Report(s)[r] = "error" <=> r \in s.failing
         /\ Report(s)[r] = "pass" <=> r \notin s.failing
  BY ChecksInFull DEF Disproved
<1>2. Report(s).ownership = "pass"
  BY <1>1 DEF NextStatus
<1>3. CASE CanSend(Report(s))
  BY <1>2, <1>3 DEF NextStatus
<1>4. CASE ~CanSend(Report(s))
  <2>1. HadLookupErrors(Report(s))
    BY <1>1, <1>4 DEF CanSend, HadLookupErrors, Required, Records
  <2> QED
    BY <1>2, <1>4, <2>1 DEF NextStatus
<1> QED
  BY <1>3, <1>4

\* The other way round: as long as a sweep disproves nothing a ready domain stays
\* ready, whatever lookups fail, and when no lookup that counts fails any domain
\* with a mailbox becomes ready (_next_status).
THEOREM InOrderIsKept ==
    ASSUME NEW s \in Sweeps, s.demands = Demandable, Disproved(s) = {}
    PROVE  /\ NextStatus("ready", s, TRUE) = "ready"
           /\ s.failing \intersect (Required \union {"ownership"}) = {} =>
                 \A current \in Statuses : NextStatus(current, s, TRUE) = "ready"
<1>1. NextStatus("ready", s, TRUE) = "ready"
  BY DemotionDisproves
<1>2. ASSUME s.failing \intersect (Required \union {"ownership"}) = {}, NEW current \in Statuses
      PROVE  NextStatus(current, s, TRUE) = "ready"
  <2>1. \A r \in Required \union {"ownership"} : Report(s)[r] = "pass"
    BY <1>2, ChecksInFull DEF Disproved
  <2> QED
    BY <2>1 DEF NextStatus, CanSend, Required
<1> QED
  BY <1>1, <1>2

\* A check that is not an error is what it would be if no lookup had failed.
LEMMA ChecksAnswered ==
    ASSUME NEW s \in Sweeps, NEW t \in Sweeps, t = [s EXCEPT !.failing = {}], NEW r \in Records
    PROVE  /\ Report(t)[r] # "error"
           /\ Report(s)[r] # "error" => Report(s)[r] = Report(t)[r]
<1>1. t.zone = s.zone /\ t.demands = s.demands /\ t.failing = {}
  BY DEF Sweeps
<1>2. CheckMx(t) # "error" /\ (CheckMx(s) # "error" => CheckMx(s) = CheckMx(t))
  BY <1>1 DEF CheckMx, Looked
<1>3. CheckSpf(t) # "error" /\ (CheckSpf(s) # "error" => CheckSpf(s) = CheckSpf(t))
  BY <1>1 DEF CheckSpf, Looked
<1>4. CheckDkim(t) # "error" /\ (CheckDkim(s) # "error" => CheckDkim(s) = CheckDkim(t))
  BY <1>1 DEF CheckDkim, Looked
<1>5. CheckDmarc(t) # "error" /\ (CheckDmarc(s) # "error" => CheckDmarc(s) = CheckDmarc(t))
  BY <1>1 DEF CheckDmarc
<1>6. /\ CheckOwnership(t) # "error"
      /\ CheckOwnership(s) # "error" => CheckOwnership(s) = CheckOwnership(t)
  BY <1>1 DEF CheckOwnership, Looked
<1> QED
  BY <1>2, <1>3, <1>4, <1>5, <1>6 DEF Report, Records

\* "An errored lookup is not evidence of a missing record" (dnscheck.py): whatever
\* lookups fail, and whatever MXRoute demands, a sweep leaves the domain where it is
\* or takes it where the same sweep would have taken it with every lookup answered.
\* Failing resolvers delay a decision of _next_status; they never make one.
THEOREM FailuresOnlyHold ==
    ASSUME NEW s \in Sweeps, NEW current \in Statuses, NEW inhabited \in BOOLEAN
    PROVE  NextStatus(current, s, inhabited)
              \in {current, NextStatus(current, [s EXCEPT !.failing = {}], inhabited)}
<1> DEFINE t == [s EXCEPT !.failing = {}]
<1>1. t \in Sweeps
  BY DEF Sweeps
<1>2. \A r \in Records : /\ Report(t)[r] # "error"
                         /\ Report(s)[r] # "error" => Report(s)[r] = Report(t)[r]
  BY <1>1, ChecksAnswered
<1>3. Required \subseteq Records /\ "ownership" \in Records
  BY DEF Required, Records
<1>4. Report(s).ownership = Report(s)["ownership"] /\ Report(t).ownership = Report(t)["ownership"]
  OBVIOUS
<1> HIDE DEF t
<1>5. CASE Report(s).ownership = "error"
  BY <1>5 DEF NextStatus
<1>6. CASE Report(s).ownership \notin {"error", "pass"}
  <2>1. Report(t).ownership \notin {"error", "pass"}
    BY <1>2, <1>3, <1>4, <1>6
  <2> QED
    BY <1>6, <2>1 DEF NextStatus, t
<1>7. CASE Report(s).ownership = "pass" /\ CanSend(Report(s))
  <2>1. Report(t).ownership = "pass" /\ CanSend(Report(t))
    BY <1>2, <1>3, <1>4, <1>7 DEF CanSend
  <2>2. NextStatus(current, s, inhabited) = NextStatus(current, t, inhabited)
    BY <1>7, <2>1 DEF NextStatus
  <2> QED
    BY <2>2 DEF t
<1>8. CASE Report(s).ownership = "pass" /\ ~CanSend(Report(s))
  <2>1. CASE HadLookupErrors(Report(s))
    BY <1>8, <2>1 DEF NextStatus
  <2>2. CASE ~HadLookupErrors(Report(s))
    <3>1. \A r \in Records : Report(t)[r] = Report(s)[r]
      BY <1>2, <2>2 DEF HadLookupErrors
    <3>2. /\ Report(t).ownership = "pass" /\ ~CanSend(Report(t))
          /\ ~HadLookupErrors(Report(t))
      BY <1>3, <1>4, <1>8, <2>2, <3>1 DEF CanSend, HadLookupErrors
    <3>3. NextStatus(current, s, inhabited) = NextStatus(current, t, inhabited)
      BY <1>8, <2>2, <3>2 DEF NextStatus
    <3> QED
      BY <3>3 DEF t
  <2> QED
    BY <2>1, <2>2
<1> QED
  BY <1>5, <1>6, <1>7, <1>8

\* "They are listed below; re-check once they resolve" (setup_state.py): a zone with
\* every record listed for it (required_dns_records) is all a sweep asks for, when
\* MXRoute said all it demands and no lookup fails, wherever the domain stood
\* (_next_status).
THEOREM ListedSuffices ==
    ASSUME NEW s \in Sweeps, s.demands = Demandable, s.failing = {},
           \A r \in RequiredRecords(Demandable) : Fine(s.zone, r)
    PROVE  /\ Sendable(s)
           /\ \A current \in Statuses, inhabited \in BOOLEAN :
                 NextStatus(current, s, inhabited) = IF inhabited THEN "ready" ELSE "verified"
<1>1. \A r \in Required \union {"ownership"} : Report(s)[r] = "pass"
  BY ChecksInFull DEF RequiredRecords, Demandable, Required
<1>2. Report(s).ownership = "pass" /\ CanSend(Report(s))
  BY <1>1 DEF CanSend
<1>3. CheckOwnership(s) = "pass"
  BY <1>2 DEF Report
<1> QED
  BY <1>2, <1>3 DEF Sendable, NextStatus
=============================================================================
