------------------------------- MODULE SiteCheck -------------------------------
(***************************************************************************)
(* One check of one site (internal/statuschecker) and what is made of its  *)
(* result on both sides of the API: the card and the detail modal          *)
(* (frontend, lib/statusDetail.js) and the scorecard's current status      *)
(* (internal/servicehealth).  StatusCache takes the outcome of a check as  *)
(* any of three statuses; this module says which.  Times are in ms.        *)
(***************************************************************************)
EXTENDS Integers

CONSTANTS
    MaxRedirects,             \* the code's maxRedirects
    SlowResponseMs,           \* the backend's threshold of slow
    SlowResponseThresholdMs   \* the page's SLOW_RESPONSE_THRESHOLD_MS

\* The backend's threshold is a copy of the page's.
ASSUME SiteCheckAssumption ==
    /\ MaxRedirects \in Nat \ {0}
    /\ SlowResponseThresholdMs \in Nat
    /\ SlowResponseMs = SlowResponseThresholdMs

NA == -1  \* a response time of "N/A"; also no HTTP code

\* What a site does when it is asked: some redirects, then it answers with a code
\* after so many ms, refuses (no connection, an unknown name, a certificate that
\* is not valid ...), or keeps silent until the client's 10 s, or a lower layer's
\* time limit before that, are over.
Site == [redirects : 0 .. MaxRedirects, how : {"answers", "refuses", "silent"},
         code : 200 .. 599, time : Nat]

-----------------------------------------------------------------------------
(* CheckServiceStatus.                                                     *)

\* A message is one of the four of apitext; StatusHTTPError carries the code.
Message(kind, code) == [kind |-> kind, code |-> code]
Outcome(status, time, message) == [status |-> status, responseTime |-> time, message |-> message]

\* isTimeout takes any error of the network that says so for a timeout.
TimedOut == Outcome("timeout", NA, Message("timeout", NA))
Failed(time) == Outcome("error", time, Message("connection", NA))

AnsweredWith(code, time) ==
    IF code = 200
      THEN Outcome("ok", time, Message("ok", NA))
      ELSE Outcome("error", time, Message("http", code))

\* CheckRedirect lets the next request go while fewer than maxRedirects requests
\* were made: one for the first and one for each redirect before.
GivesUp(site) == site.redirects >= MaxRedirects

CheckServiceStatus(site) ==
    CASE GivesUp(site) -> Failed(site.time)
      [] ~GivesUp(site) /\ site.how = "silent" -> TimedOut
      [] ~GivesUp(site) /\ site.how = "refuses" -> Failed(site.time)
      [] OTHER -> AnsweredWith(site.code, site.time)

-----------------------------------------------------------------------------
(* The two readers of a result.                                            *)

Detail(ok, slow, code, reason, time) ==
    [ok |-> ok, slow |-> slow, httpCode |-> code, reason |-> reason, responseTimeMs |-> time]

BuildStatusDetail(r) ==
    CASE r.status = "ok" ->
           Detail(TRUE, r.responseTime > SlowResponseThresholdMs, 200, "ok", r.responseTime)
      [] r.status = "timeout" -> Detail(FALSE, FALSE, NA, "timeout", NA)
      [] r.status = "error" /\ r.message.kind = "http" ->
           Detail(FALSE, FALSE, r.message.code, "httpError", r.responseTime)
      [] OTHER -> Detail(FALSE, FALSE, NA, "connectionFailure", NA)

StatusLevel(d) == IF ~d.ok THEN "down" ELSE IF d.slow THEN "slow" ELSE "ok"

\* RefreshSummary: a response time that is no int stays 0.
ResponseTimeMs(r) == IF r.responseTime = NA THEN 0 ELSE r.responseTime

\* Mutant: the threshold itself is slow.
CurrentStatus_AtThreshold(r) ==
    IF r.status # "ok" THEN "down"
    ELSE IF ResponseTimeMs(r) >= SlowResponseMs THEN "slow" ELSE "ok"

CurrentStatus(r) ==
    IF r.status # "ok" THEN "down"
    ELSE IF ResponseTimeMs(r) > SlowResponseMs THEN "slow" ELSE "ok"

=============================================================================
