-------------------------------- MODULE Collector -------------------------------
(***************************************************************************)
(* stats.Collector: traffic is drained from sing-box's counters into the   *)
(* usage store, and users past their quota or expiry are turned off        *)
(* (src/internal/stats/stats.go), while the API's handlers create, change, *)
(* reset and delete users (src/internal/api/api.go, src/internal/store).   *)
(*                                                                         *)
(* The user store and the usage store are different files with different   *)
(* locks: each single operation of theirs is a step, and the collector and *)
(* DeleteUser are several.  A reload, module Manager's subject, is one step *)
(* here: it publishes the users active at that time, or fails.  Time is the *)
(* hour, which is what a bucket of usage can tell apart; traffic is counted *)
(* in units, both directions together.                                     *)
(***************************************************************************)
EXTENDS Integers, FiniteSets, Functions

CONSTANTS User,        \* user ids
          Stored,      \* Stored[u]: the quota and expiry of a user who is there from
                       \* the start and whom no handler changes
          None,        \* no user
          Quota,       \* the quotas an operator sets, in units; 0 is unlimited
          Expiry,      \* the hours at which an operator lets users expire
          LastHour,    \* the hours modelled are 0 .. LastHour
          Retention,   \* hours of usage that a prune leaves
          MaxTraffic   \* MaxTraffic[u]: units u sends at most

ASSUME CollectorAssumption ==
  /\ None \notin User
  /\ DOMAIN Stored \subseteq User
  /\ \A u \in DOMAIN Stored : Stored[u] \in [quota : Nat, expires : Nat]
  /\ IsFiniteSet(User)
  /\ LastHour \in Nat /\ Retention \in Nat
  /\ Quota \subseteq Nat /\ Expiry \subseteq Nat
  /\ MaxTraffic \in [User -> Nat]

VARIABLES
  acct,      \* acct[u]: the stored user, see Account
  deleting,  \* users whose DeleteUser has removed the usage and not yet the user
  rows,      \* rows[u][h]: units recorded for u in the bucket of hour h
  hour,      \* the clock
  counter,   \* counter[u]: units in sing-box's counters since they were last read
  live,      \* users in the config sing-box serves
  asked,     \* a handler has changed something and has its reload to come
  at,        \* where the collector stands; "stopped": the daemon is down
  resp,      \* resp[u]: units of the response CollectOnce is recording
  snap,      \* the users Enforce has listed and has not looked at yet
  found,     \* the one it is about to disable
  changed,   \* it has disabled some user
  errs,      \* it has met an error
  \* History, read by the properties only.
  sent,      \* sent[u]: units u has sent
  lossy,     \* users whose traffic a failure, a restart or a deletion has dropped
  crossed,   \* users whose deletion has crossed a pass of the collector
  unsure     \* the last reload failed, or enforcement met an error after it

userVars == <<acct, deleting, rows>>
proxyVars == <<counter, live>>
collVars == <<at, resp, snap, found, changed, errs>>
ghosts == <<sent, lossy, crossed, unsure>>
vars == <<userVars, hour, proxyVars, asked, collVars, ghosts>>

Hours == 0 .. LastHour
Never == LastHour + 1

Account == [state : {"new", "here", "gone"}, enabled : BOOLEAN,
            reason : {"", "quota", "expired"}, quota : Nat,
            window : Hours, expires : Nat]

Fresh == [state |-> "new", enabled |-> FALSE, reason |-> "", quota |-> 0,
          window |-> 0, expires |-> Never]

Here == {u \in User : acct[u].state = "here"}
Nothing == [u \in User |-> 0]

\* Usage.TotalSince: from the bucket that holds the start of the window.
Used(u, window) == SumFunctionOnSet(rows[u], {h \in Hours : h >= window})

\* Store.OverQuota.
OverQuota(u, quota, window) == quota > 0 /\ Used(u, window) >= quota

\* User.IsExpired.
IsExpired(a, now) == now >= a.expires

\* Store.ActiveUsers.
Active == {u \in Here : /\ acct[u].enabled
                        /\ ~IsExpired(acct[u], hour)
                        /\ ~OverQuota(u, acct[u].quota, acct[u].window)}

\* A user made or stored with these limits.
Limited(limits, now) ==
  [Fresh EXCEPT !.state = "here", !.enabled = TRUE, !.window = now,
                !.quota = limits.quota, !.expires = limits.expires]

Init ==
  /\ acct = [u \in User |-> IF u \in DOMAIN Stored THEN Limited(Stored[u], 0) ELSE Fresh]
  /\ deleting = {}
  /\ rows = [u \in User |-> [h \in Hours |-> 0]]
  /\ hour = 0
  /\ counter = Nothing /\ live = Active
  /\ asked = FALSE
  /\ at = "listing"          \* Run enforces once before its first tick
  /\ resp = Nothing /\ snap = <<>> /\ found = None
  /\ changed = FALSE /\ errs = FALSE
  /\ sent = Nothing
  /\ lossy = {} /\ crossed = {}
  /\ unsure = FALSE

--------------------------------------------------------------------------------
(* sing-box (external), the clock, and reloads.                            *)

\* A user that is served sends a unit.
Traffic(u) ==
  /\ u \in live
  /\ sent[u] < MaxTraffic[u]
  /\ counter' = [counter EXCEPT ![u] = @ + 1]
  /\ sent' = [sent EXCEPT ![u] = @ + 1]
  /\ UNCHANGED <<userVars, hour, live, asked, collVars, lossy, crossed, unsure>>

\* sing-box is made again, by a reload or a restart: its counters are gone.
Counting == {u \in User : counter[u] > 0}
Recreated ==
  /\ counter' = Nothing
  /\ lossy' = lossy \cup Counting

NextHour ==
  /\ hour < LastHour
  /\ hour' = hour + 1
  /\ UNCHANGED <<userVars, proxyVars, asked, collVars, ghosts>>

\* A reload renders the active users and sing-box takes them over.
Publish ==
  /\ live' = Active
  /\ Recreated
  /\ unsure' = FALSE

\* The handlers' Reload succeeds.
HandlerReloads ==
  /\ asked
  /\ asked' = FALSE
  /\ Publish
  /\ UNCHANGED <<userVars, hour, collVars, sent, crossed>>

\* It fails, or the client has gone; the change stays stored.
HandlerReloadFails ==
  /\ asked
  /\ asked' = FALSE
  /\ unsure' = TRUE
  /\ UNCHANGED <<userVars, hour, proxyVars, collVars, sent, lossy, crossed>>

--------------------------------------------------------------------------------
(* The handlers.  An operation whose save fails changes nothing.           *)

Runs == at # "stopped"

Limits == [quota : Quota, expires : Expiry \cup {Never}]

Changed(u, a) ==
  /\ Runs /\ u \notin DOMAIN Stored
  /\ acct' = [acct EXCEPT ![u] = a]
  /\ asked' = TRUE

\* POST /api/users; a user made disabled is Create and then Disable.
Create(u) ==
  /\ acct[u].state = "new"
  /\ \E limits \in Limits : Changed(u, Limited(limits, hour))
  /\ UNCHANGED <<deleting, rows, hour, proxyVars, collVars, ghosts>>

\* PATCH with "enabled": false; Update writes nothing when nothing changes.
Disable(u) ==
  /\ u \in Here
  /\ Changed(u, [acct[u] EXCEPT !.enabled = FALSE])
  /\ UNCHANGED <<deleting, rows, hour, proxyVars, collVars, ghosts>>

\* Fault: enabling leaves the reason enforcement gave.
EnableKeepsReason(u) ==
  /\ u \in Here
  /\ Changed(u, [acct[u] EXCEPT !.enabled = TRUE])
  /\ UNCHANGED <<deleting, rows, hour, proxyVars, collVars, ghosts>>

\* PATCH with "enabled": true also clears the reason.
Enable(u) ==
  /\ u \in Here
  /\ Changed(u, [acct[u] EXCEPT !.enabled = TRUE, !.reason = ""])
  /\ UNCHANGED <<deleting, rows, hour, proxyVars, collVars, ghosts>>

\* PATCH of the limits: a user enforcement has disabled stays disabled.
SetLimits(u) ==
  /\ u \in Here
  /\ \E limits \in Limits :
       Changed(u, [acct[u] EXCEPT !.quota = limits.quota, !.expires = limits.expires])
  /\ UNCHANGED <<deleting, rows, hour, proxyVars, collVars, ghosts>>

\* POST /api/users/{id}/reset-usage.
ResetUsage(u) ==
  /\ u \in Here
  /\ Changed(u, IF acct[u].reason = "quota"
                THEN [acct[u] EXCEPT !.window = hour, !.enabled = TRUE, !.reason = ""]
                ELSE [acct[u] EXCEPT !.window = hour])
  /\ UNCHANGED <<deleting, rows, hour, proxyVars, collVars, ghosts>>

NoRows == [h \in Hours |-> 0]

\* Fault: the usage is forgotten.
DeleteUsageForgotten(u) ==
  /\ Runs /\ u \in Here \ (deleting \cup DOMAIN Stored)
  /\ deleting' = deleting \cup {u}
  /\ lossy' = lossy \cup {u}
  /\ crossed' = IF at # "idle" THEN crossed \cup {u} ELSE crossed
  /\ UNCHANGED <<acct, rows, hour, proxyVars, asked, collVars, sent, unsure>>

\* Store.DeleteUser: the usage goes first ...
DeleteUsage(u) ==
  /\ Runs /\ u \in Here \ (deleting \cup DOMAIN Stored)
  /\ rows' = [rows EXCEPT ![u] = NoRows]
  /\ deleting' = deleting \cup {u}
  /\ lossy' = lossy \cup {u}
  /\ crossed' = IF at # "idle" THEN crossed \cup {u} ELSE crossed
  /\ UNCHANGED <<acct, hour, proxyVars, asked, collVars, sent, unsure>>

\* ... and then the user, a collection having come between or not.
DeleteUser(u) ==
  /\ u \in deleting
  /\ deleting' = deleting \ {u}
  /\ Changed(u, [Fresh EXCEPT !.state = "gone"])
  /\ crossed' = IF at # "idle" THEN crossed \cup {u} ELSE crossed
  /\ UNCHANGED <<rows, hour, proxyVars, collVars, sent, lossy, unsure>>

\* The user list cannot be written: the user stays, without their usage.
DeleteUserFails(u) ==
  /\ u \in deleting
  /\ deleting' = deleting \ {u}
  /\ UNCHANGED <<acct, rows, hour, proxyVars, asked, collVars, ghosts>>

--------------------------------------------------------------------------------
(* CollectOnce.                                                            *)

\* Fault: the counters are read and go on from there.
DrainKeeps ==
  /\ at = "idle"
  /\ at' = "drained"
  /\ resp' = counter
  /\ UNCHANGED <<userVars, hour, proxyVars, asked, snap, found, changed, errs, ghosts>>

\* QueryStats with Reset_: the counters are read and start again from zero.
Drain ==
  /\ at = "idle"
  /\ at' = "drained"
  /\ resp' = counter
  /\ counter' = Nothing
  /\ UNCHANGED <<userVars, hour, live, asked, snap, found, changed, errs, ghosts>>

\* The query fails, perhaps after sing-box has reset them.
DrainFails ==
  /\ at = "idle"
  /\ Recreated
  /\ UNCHANGED <<userVars, hour, live, asked, collVars, sent, crossed, unsure>>

\* Traffic of users the store does not know any more is discarded.
ListKnown ==
  /\ at = "drained"
  /\ at' = "adding"
  /\ resp' = [u \in User |-> IF u \in Here THEN resp[u] ELSE 0]
  /\ crossed' = crossed \cup deleting
  /\ UNCHANGED <<userVars, hour, proxyVars, asked, snap, found, changed, errs,
                 sent, lossy, unsure>>

\* Fault: the counters are taken for totals, and the difference is recorded.
AddDifference ==
  /\ at = "adding"
  /\ at' = "listing"
  /\ rows' = [u \in User |-> [rows[u] EXCEPT ![hour] = resp[u] - @]]
  /\ resp' = Nothing
  /\ UNCHANGED <<acct, deleting, hour, proxyVars, asked, snap, found, changed, errs, ghosts>>

\* Usage.Add, one transaction, into the bucket of the current hour.
Add ==
  /\ at = "adding"
  /\ at' = "listing"
  /\ rows' = [u \in User |-> [rows[u] EXCEPT ![hour] = @ + resp[u]]]
  /\ resp' = Nothing
  /\ UNCHANGED <<acct, deleting, hour, proxyVars, asked, snap, found, changed, errs, ghosts>>

\* The transaction fails: what was drained is lost, and nothing is enforced.
AddFails ==
  /\ at = "adding"
  /\ at' = "idle"
  /\ lossy' = lossy \cup {u \in User : resp[u] > 0}
  /\ resp' = Nothing
  /\ UNCHANGED <<userVars, hour, proxyVars, asked, snap, found, changed, errs,
                 sent, crossed, unsure>>

--------------------------------------------------------------------------------
(* enforceAndReload.                                                       *)

\* The expiry tick enforces without collecting.
ExpiryTick ==
  /\ at = "idle"
  /\ at' = "listing"
  /\ UNCHANGED <<userVars, hour, proxyVars, asked, resp, snap, found, changed, errs, ghosts>>

\* Enforce reads the clock and lists the users; disabled ones are passed over.
List ==
  /\ at = "listing"
  /\ at' = "checking"
  /\ snap' = [u \in {v \in Here : acct[v].enabled} |->
                [quota |-> acct[u].quota, window |-> acct[u].window,
                 expired |-> IsExpired(acct[u], hour)]]
  /\ changed' = FALSE /\ errs' = FALSE
  /\ UNCHANGED <<userVars, hour, proxyVars, asked, resp, found, ghosts>>

Done(u) == snap' = [v \in DOMAIN snap \ {u} |-> snap[v]]

\* Fault: the whole history is held against the quota.
CheckLifetime(u) ==
  /\ at = "checking" /\ u \in DOMAIN snap
  /\ IF snap[u].expired \/ OverQuota(u, snap[u].quota, 0)
     THEN at' = "disabling" /\ found' = u /\ UNCHANGED snap
     ELSE Done(u) /\ UNCHANGED <<at, found>>
  /\ UNCHANGED <<userVars, hour, proxyVars, asked, resp, changed, errs, ghosts>>

\* A listed user is judged by what was listed and what is recorded now.
Check(u) ==
  /\ at = "checking" /\ u \in DOMAIN snap
  /\ IF snap[u].expired \/ OverQuota(u, snap[u].quota, snap[u].window)
     THEN at' = "disabling" /\ found' = u /\ UNCHANGED snap
     ELSE Done(u) /\ UNCHANGED <<at, found>>
  /\ UNCHANGED <<userVars, hour, proxyVars, asked, resp, changed, errs, ghosts>>

\* The usage of one user cannot be read; the others are still looked at.
CheckFails(u) ==
  /\ at = "checking" /\ u \in DOMAIN snap
  /\ ~snap[u].expired /\ snap[u].quota > 0
  /\ Done(u)
  /\ errs' = TRUE
  /\ UNCHANGED <<userVars, hour, proxyVars, asked, at, resp, found, changed, ghosts>>

Reason == IF snap[found].expired THEN "expired" ELSE "quota"

\* Users.Update turns the user off, whatever has become of them since.
TurnOff ==
  /\ at = "disabling" /\ found \in Here
  /\ at' = "checking" /\ found' = None
  /\ acct' = [acct EXCEPT ![found].enabled = FALSE, ![found].reason = Reason]
  /\ Done(found)
  /\ changed' = TRUE
  /\ UNCHANGED <<deleting, rows, hour, proxyVars, asked, resp, errs, ghosts>>

\* The user is gone, or the list cannot be written.
TurnOffFails ==
  /\ at = "disabling"
  /\ at' = "checking" /\ found' = None
  /\ Done(found)
  /\ errs' = TRUE
  /\ UNCHANGED <<userVars, hour, proxyVars, asked, resp, changed, ghosts>>

\* Fault: the users are turned off in the store only.
EndEnforceQuietly ==
  /\ at = "checking" /\ snap = <<>>
  /\ at' = "idle"
  /\ changed' = FALSE /\ errs' = FALSE
  /\ unsure' = (unsure \/ errs)
  /\ UNCHANGED <<userVars, hour, proxyVars, asked, resp, snap, found,
                 sent, lossy, crossed>>

\* An error is returned before the reload is asked for, whoever was turned off.
EndEnforce ==
  /\ at = "checking" /\ snap = <<>>
  /\ at' = IF changed /\ ~errs THEN "reloading" ELSE "idle"
  /\ changed' = FALSE /\ errs' = FALSE
  /\ unsure' = (unsure \/ errs)
  /\ UNCHANGED <<userVars, hour, proxyVars, asked, resp, snap, found,
                 sent, lossy, crossed>>

\* The collector waits for its Reload.
Reloads ==
  /\ at = "reloading"
  /\ at' = "idle"
  /\ Publish
  /\ UNCHANGED <<userVars, hour, asked, resp, snap, found, changed, errs,
                 sent, crossed>>

\* It fails and is logged; there is no other attempt.
ReloadFails ==
  /\ at = "reloading"
  /\ at' = "idle"
  /\ unsure' = TRUE
  /\ UNCHANGED <<userVars, hour, proxyVars, asked, resp, snap, found, changed, errs,
                 sent, lossy, crossed>>

\* Fault: the prune counts back from the end of the hour.
PruneRoundsUp ==
  /\ at = "idle"
  /\ rows' = [u \in User |-> [h \in Hours |-> IF h < hour + 1 - Retention THEN 0 ELSE rows[u][h]]]
  /\ lossy' = lossy \cup {u \in User : rows'[u] # rows[u]}
  /\ UNCHANGED <<acct, deleting, hour, proxyVars, asked, collVars,
                 sent, crossed, unsure>>

\* The prune tick drops the buckets older than the retention.
Prune ==
  /\ at = "idle"
  /\ rows' = [u \in User |-> [h \in Hours |-> IF h < hour - Retention THEN 0 ELSE rows[u][h]]]
  /\ lossy' = lossy \cup {u \in User : rows'[u] # rows[u]}
  /\ UNCHANGED <<acct, deleting, hour, proxyVars, asked, collVars,
                 sent, crossed, unsure>>

--------------------------------------------------------------------------------
(* The end of the daemon, orderly or not, and its next start.              *)

Stop ==
  /\ Runs
  /\ at' = "stopped"
  /\ live' = {} /\ asked' = FALSE /\ deleting' = {}
  /\ counter' = Nothing /\ resp' = Nothing
  /\ lossy' = lossy \cup Counting \cup {u \in User : resp[u] > 0}
  /\ snap' = <<>> /\ found' = None /\ changed' = FALSE /\ errs' = FALSE
  /\ UNCHANGED <<acct, rows, hour, sent, crossed, unsure>>

\* Start renders the active users before the collector runs.
Restart ==
  /\ at = "stopped"
  /\ at' = "listing"
  /\ Publish
  /\ UNCHANGED <<userVars, hour, asked, resp, snap, found, changed, errs,
                 sent, crossed>>

--------------------------------------------------------------------------------

HandlerStep(u) ==
  \/ Create(u) \/ Disable(u) \/ Enable(u) \/ SetLimits(u) \/ ResetUsage(u)
  \/ DeleteUsage(u)

DeleteEnds(u) == DeleteUser(u) \/ DeleteUserFails(u)

HandlerReload == HandlerReloads \/ HandlerReloadFails

CollectorStep ==
  \/ Drain \/ DrainFails \/ ListKnown \/ Add \/ AddFails
  \/ ExpiryTick \/ List \/ (\E u \in User : Check(u) \/ CheckFails(u))
  \/ TurnOff \/ TurnOffFails \/ EndEnforce
  \/ Reloads \/ ReloadFails
  \/ Prune

Next ==
  \/ \E u \in User : Traffic(u) \/ HandlerStep(u) \/ DeleteEnds(u)
  \/ NextHour
  \/ HandlerReload
  \/ CollectorStep
  \/ Stop \/ Restart

\* The collector and the handlers' reloads run, and select does not pass over the expiry
\* ticker for ever.  Nothing is assumed of reloads: they may always fail.
Fairness ==
  /\ WF_vars(CollectorStep)
  /\ SF_vars(ExpiryTick)
  /\ WF_vars(HandlerReload)

Spec == Init /\ [][Next]_vars /\ Fairness

\* What is tried over and over succeeds in the end: reads, saves and reloads.
RecoveringSpec ==
  /\ Spec
  /\ SF_vars(Reloads) /\ SF_vars(HandlerReloads) /\ SF_vars(TurnOff)
  /\ \A u \in User : SF_vars(Check(u))

--------------------------------------------------------------------------------
(* Properties.                                                             *)

\* Every variable holds a value of its kind.
TypeOK ==
  /\ acct \in [User -> Account]
  /\ deleting \subseteq Here
  /\ rows \in [User -> [Hours -> Nat]]
  /\ hour \in Hours
  /\ counter \in [User -> Nat] /\ live \subseteq User
  /\ asked \in BOOLEAN
  /\ at \in {"idle", "drained", "adding", "listing", "checking", "disabling",
             "reloading", "stopped"}
  /\ resp \in [User -> Nat]
  /\ DOMAIN snap \subseteq User
  /\ found \in User \cup {None}
  /\ changed \in BOOLEAN /\ errs \in BOOLEAN
  /\ sent \in [User -> Nat]
  /\ lossy \subseteq User /\ crossed \subseteq User
  /\ unsure \in BOOLEAN

\* Whoever enforcement has turned off is off: nobody reads as both enabled and
\* disabled for a reason, whichever of enforcement and the operator came last.
ReasonMeansOff == \A u \in Here : acct[u].reason # "" => ~acct[u].enabled

\* Enforcement turns off nobody who has quota and time left, unless an operator
\* has changed their limits, or begun to delete them, since it listed the users.
AsListed(u) ==
  /\ snap[u].quota = acct[u].quota
  /\ snap[u].window = acct[u].window
  /\ snap[u].expired => IsExpired(acct[u], hour)

RightlyTurnedOff ==
  [][\A u \in User : at = "disabling" /\ u = found /\ acct'[u] # acct[u] /\ AsListed(u)
                       => u \notin Active \/ u \in crossed]_vars

\* A deleted user leaves no usage behind, unless the collector was at work while
\* they were deleted.
DeletedLeavesNothing ==
  \A u \in User : acct[u].state = "gone" /\ rows[u] # NoRows => u \in crossed

\* Traffic is conserved, step by step: it moves from sing-box's counters through the
\* response into the buckets, is never counted again after a failure, a restart or a loss,
\* and leaves the buckets of those only whose loss is known (module Meter).
Pending == [u \in User |-> counter[u] + resp[u]]
Booked == [u \in User |-> Used(u, 0)]

Promise == INSTANCE Meter WITH pending <- Pending, booked <- Booked

KeepsPromise == Promise!MeterSpec

\* Whoever is over quota stays so, through collections, failures and restarts, until an
\* operator changes or deletes them, or their window is older than the usage that is kept.
QuotaHolds ==
  [][\A u \in Here \ deleting' :
       OverQuota(u, acct[u].quota, acct[u].window) /\ acct'[u] = acct[u]
       /\ acct[u].window >= hour - Retention
         => OverQuota(u, acct[u].quota, acct[u].window)']_vars

\* Enforcement works by omission: users past quota or expiry, disabled or deleted, are
\* left out of what sing-box serves, and whatever happens a moment comes at which nobody is
\* served who should not be, unless a reload or a check has failed.
CutOff == []<>(unsure \/ at = "stopped" \/ live \subseteq Active)

\* Promised by the README, and not so: a user enforcement has marked disabled is
\* removed from the generated config, even when reloads do not fail for ever.
MarkedIsRemoved ==
  \A u \in User :
    u \in live /\ acct[u].reason # "" ~> u \notin live \/ acct[u].reason = "" \/ at = "stopped"

================================================================================
