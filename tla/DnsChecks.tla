------------------------------ MODULE DnsChecks ------------------------------
(***************************************************************************)
(* What a sweep finds in a domain's DNS (emaild/dnscheck.py) and the       *)
(* status it leads to (_next_status in domains.py).                        *)
(*                                                                         *)
(* Under each name a sweep looks up, a zone has the record emaild looks    *)
(* for ("right"), another of its kind ("other"), both or neither.  Some    *)
(* lookups may fail, and MXRoute may not say what it demands: it has no    *)
(* DKIM key before it made one, and an answer without a body has nothing.  *)
(***************************************************************************)

Records == {"mx", "spf", "dkim", "dmarc", "ownership"}

\* DMARC is advisory.
Required == {"mx", "spf", "dkim"}

Zone == [Records -> SUBSET {"right", "other"}]

\* GET /domains/{d}/dns has no DMARC record.
Demandable == {"mx", "spf", "dkim", "ownership"}

\* What an answer with a body demands: MXRoute may yet have to make the DKIM key.
Demanded == {Demandable, Demandable \ {"dkim"}}

\* A sweep: what the resolvers would answer, which lookups fail, what MXRoute
\* demands.
Sweeps == [zone : Zone, failing : SUBSET Records, demands : SUBSET Demandable]

Statuses == {"untracked", "added", "ownership_pending", "dns_incomplete",
             "verified", "ready", "misconfigured"}

-----------------------------------------------------------------------------
(* The checks *)

\* Mutant: a lookup that failed counts as one that found nothing.
LookedTolerating(s, r, passes) ==
    IF s.zone[r] = {} \/ r \in s.failing THEN "missing"
    ELSE IF passes THEN "pass" ELSE "fail"

\* A lookup fails, finds nothing, or finds what passes or does not.
Looked(s, r, passes) ==
    IF r \in s.failing THEN "error"
    ELSE IF s.zone[r] = {} THEN "missing"
    ELSE IF passes THEN "pass" ELSE "fail"

\* Further MX records are fine; without a demand no host is the right one.
CheckMx(s) == Looked(s, "mx", "mx" \in s.demands /\ "right" \in s.zone["mx"])

\* More than one SPF record is a failure.
CheckSpf(s) == Looked(s, "spf", s.zone["spf"] = {"right"})

\* Without a key at MXRoute there is nothing to look up.
CheckDkim(s) == IF "dkim" \notin s.demands THEN "missing"
                ELSE Looked(s, "dkim", "right" \in s.zone["dkim"])

\* Other TXT records are passed over.
CheckDmarc(s) == IF "dmarc" \in s.failing THEN "error"
                 ELSE IF "right" \in s.zone["dmarc"] THEN "pass" ELSE "missing"

CheckOwnership(s) == IF "ownership" \notin s.demands THEN "missing"
                     ELSE Looked(s, "ownership", "right" \in s.zone["ownership"])

\* verify_domain
Report(s) == [mx |-> CheckMx(s), spf |-> CheckSpf(s), dkim |-> CheckDkim(s),
              dmarc |-> CheckDmarc(s), ownership |-> CheckOwnership(s)]

CanSend(report) == \A r \in Required : report[r] = "pass"

\* The evidence READY and VERIFIED rest on.
Sendable(s) == CheckOwnership(s) = "pass" /\ CanSend(Report(s))

\* Of any check, the advisory one included.
HadLookupErrors(report) == \E r \in Records : report[r] = "error"

\* The records a zone owes a domain that may send.
Fine(zone, r) == IF r = "spf" THEN zone[r] = {"right"} ELSE "right" \in zone[r]

\* What a sweep has shown to be absent or wrong.
Disproved(s) == {r \in Required \union {"ownership"} : r \notin s.failing /\ ~Fine(s.zone, r)}

\* Mutant: the DKIM value is looked for under another key, and not listed.
RecordsUnsigned(demands) == (demands \ {"dkim"}) \union {"dmarc"}

\* required_dns_records: DMARC is always listed, the others as MXRoute demands.
RequiredRecords(demands) == demands \union {"dmarc"}

-----------------------------------------------------------------------------
(* The domain's next status *)

\* Mutant: the branch that holds the status falls off the end.
NextStatusOfNone(current, s, inhabited) ==
    LET report == Report(s) IN
    IF report.ownership = "error" THEN "None"
    ELSE IF report.ownership # "pass" THEN "ownership_pending"
    ELSE IF CanSend(report) THEN (IF inhabited THEN "ready" ELSE "verified")
    ELSE IF HadLookupErrors(report) THEN "None"
    ELSE IF current = "ready" THEN "misconfigured" ELSE "dns_incomplete"

\* _next_status; nothing sets SUSPENDED.
NextStatus(current, s, inhabited) ==
    LET report == Report(s) IN
    IF report.ownership = "error" THEN current
    ELSE IF report.ownership # "pass" THEN "ownership_pending"
    ELSE IF CanSend(report) THEN (IF inhabited THEN "ready" ELSE "verified")
    ELSE IF HadLookupErrors(report) THEN current
    ELSE IF current = "ready" THEN "misconfigured" ELSE "dns_incomplete"
=============================================================================
