--------------------------------- MODULE Reports ---------------------------------
(***************************************************************************)
(* What operators and users are shown of a user (src/internal/store/       *)
(* usage.go; src/internal/api: api.go, sub.go, show.go; src/internal/cli/  *)
(* user.go): the traffic graph, the summary beside it, the lists of the    *)
(* CLI, the setup page and the header that subscription clients read.      *)
(*                                                                         *)
(* All of it is computed at once from what module Collector keeps; none of *)
(* it changes anything.  Upload and download are shown side by side, and   *)
(* are one number here.                                                    *)
(***************************************************************************)
EXTENDS Collector

\* Fault: the interval that is under way is left out.
SeriesUpTo(u, from, to, width) ==
  LET slot(h) == (h \div width) * width
      shown == {h \in from .. to : h < to /\ rows[u][h] > 0}
  IN  [s \in {slot(h) : h \in shown} |->
         SumFunctionOnSet(rows[u], {h \in shown : slot(h) = s})]

\* Usage.Series: the traffic from the hour of from to that of to, both included, in
\* intervals of width hours that do not depend on from; those without traffic are left
\* out.
Series(u, from, to, width) ==
  LET slot(h) == (h \div width) * width
      shown == {h \in from .. to : rows[u][h] > 0}
  IN  [s \in {slot(h) : h \in shown} |->
         SumFunctionOnSet(rows[u], {h \in shown : slot(h) = s})]

\* Usage.Total and TotalSince, and what they leave of the quota.
Summary(u) ==
  LET window == Used(u, acct[u].window)
      quota == acct[u].quota
  IN  [total |-> Used(u, 0), window |-> window, quota |-> quota,
       remaining |-> IF quota > window THEN quota - window ELSE 0]

\* GET /api/users/{id}/usage.
UsageReport(u, from, to, width) ==
  [series |-> Series(u, from, to, width), summary |-> Summary(u)]

\* The CLI's column STATE.
UserState(u) ==
  IF acct[u].enabled THEN "enabled"
  ELSE IF acct[u].reason # "" THEN acct[u].reason ELSE "disabled"

\* `user show` and a line of `user ls`.
Detail(u) == [state |-> UserState(u), usage |-> Summary(u), expires |-> acct[u].expires]
Listing == [u \in Here |-> Detail(u)]

\* Fault: a user without a reason is taken for an active one.
AccountStateByReason(u) ==
  IF hour > acct[u].expires THEN "expired"
  ELSE IF acct[u].reason = "quota" THEN "over_quota" ELSE "active"

\* The state on the setup page; the moment of expiry itself still counts as active.
AccountState(u) ==
  IF hour > acct[u].expires THEN "expired"
  ELSE IF acct[u].reason = "quota" THEN "over_quota"
  ELSE IF ~acct[u].enabled THEN "disabled" ELSE "active"

Page(u) == [used |-> Summary(u).window, quota |-> acct[u].quota, state |-> AccountState(u)]

\* The header Subscription-Userinfo: no field at all for no limit.
SubHeaders(u) ==
  LET Field == {"used"} \cup (IF acct[u].quota > 0 THEN {"total"} ELSE {})
                        \cup (IF acct[u].expires # Never THEN {"expire"} ELSE {})
  IN  [f \in Field |-> CASE f = "used" -> Used(u, acct[u].window)
                         [] f = "total" -> acct[u].quota
                         [] f = "expire" -> acct[u].expires]

--------------------------------------------------------------------------------
(* Properties.                                                             *)

Sum(series) == SumFunctionOnSet(series, DOMAIN series)

\* Traffic is counted once, and shown once: however the history is cut into intervals,
\* what is shown, being recorded and waiting in the counters is never more than what was
\* sent, and is exactly that unless a failure, a restart, a deletion or a prune has
\* dropped some; and the graph of the quota window adds up to what counts against it.
Metered ==
  \A u \in User, width \in 1 .. LastHour + 1 :
    LET report == UsageReport(u, 0, hour, width)
        counted == Sum(report.series) + resp[u] + counter[u]
    IN  /\ report.summary.total = Sum(report.series)
        /\ counted <= sent[u]
        /\ u \notin lossy => counted = sent[u]
        /\ report.summary.window = Sum(Series(u, acct[u].window, hour, width))

\* What a client makes of the header.
UsedUp(header) == "total" \in DOMAIN header /\ header["used"] >= header["total"]
Over(header) == "expire" \in DOMAIN header /\ hour >= header["expire"]

\* What is shown of a user is how the next config will treat them: they are in it exactly
\* if the operator's list has them enabled and their client's header neither used up nor
\* over, and then the page calls them active: no trace is left of an earlier cut-off.
ShownAsServed ==
  \A u \in Here :
    /\ u \in Active <=> /\ Listing[u].state = "enabled"
                        /\ ~UsedUp(SubHeaders(u)) /\ ~Over(SubHeaders(u))
    /\ u \in Active => Page(u).state = "active" /\ Page(u).used = SubHeaders(u)["used"]

\* Whoever is to be left out is in the end shown as turned off, on the page and in the
\* list: out of quota or time is found out although nobody asks, unless a check or a
\* save has failed or the daemon is down.
WronglyShown(u) ==
  /\ AccountState(u) = "active" \/ UserState(u) = "enabled"
  /\ u \in Here \ Active

CutOffIsShown ==
  \A u \in User : []<>(unsure \/ at = "stopped" \/ ~WronglyShown(u))

================================================================================
