---------------------------- MODULE Collector_proofs ---------------------------
(***************************************************************************)
(* Enforcement, deletion and what is shown of a user are right for any     *)
(* users, limits, clock and traffic.                                       *)
(*                                                                         *)
(* Only the handlers and TurnOff write accounts, so that nobody is both    *)
(* enabled and marked follows from the accounts, the clock and the user    *)
(* that is about to be turned off.  The other properties need the traffic  *)
(* that is on its way to the store, too (Leftover), and why the user found *)
(* was found (Judged).                                                     *)
(***************************************************************************)
EXTENDS Reports, FiniteSetTheorems, WellFoundedInduction, TLAPS

AcctTypeOK ==
  /\ acct \in [User -> Account]
  /\ hour \in Hours
  /\ found \in User \cup {None}

AcctInv == AcctTypeOK /\ ReasonMeansOff

\* A user made or stored with some limits is an account that is on.
LEMMA LimitedIsOn ==
  ASSUME NEW limits \in [quota : Nat, expires : Nat], NEW now \in Hours
  PROVE  /\ Limited(limits, now) \in Account
         /\ Limited(limits, now).reason = ""
<1>1. 0 \in Hours /\ Never \in Nat
  BY CollectorAssumption DEF Hours, Never
<1>. QED
  BY <1>1 DEF Limited, Fresh, Account

LEMMA FreshIsAccount == Fresh \in Account /\ Fresh.reason = ""
<1>1. 0 \in Hours /\ Never \in Nat
  BY CollectorAssumption DEF Hours, Never
<1>. QED
  BY <1>1 DEF Fresh, Account

LEMMA LimitsAreTyped == Limits \subseteq [quota : Nat, expires : Nat]
<1>1. Never \in Nat
  BY CollectorAssumption DEF Never
<1>. QED
  BY <1>1, CollectorAssumption DEF Limits

LEMMA InitAcct == Init => AcctInv
<1>. SUFFICES ASSUME Init PROVE AcctInv
  OBVIOUS
<1>1. 0 \in Hours
  BY CollectorAssumption DEF Hours
<1>2. \A u \in User : LET a == IF u \in DOMAIN Stored THEN Limited(Stored[u], 0) ELSE Fresh
                      IN  a \in Account /\ a.reason = ""
  BY <1>1, LimitedIsOn, FreshIsAccount, CollectorAssumption
<1>3. AcctTypeOK
  BY <1>1, <1>2 DEF Init, AcctTypeOK
<1>4. ReasonMeansOff
  BY <1>2 DEF Init, ReasonMeansOff, Here
<1>. QED
  BY <1>3, <1>4 DEF AcctInv

\* An account that is written with no reason, or switched off, keeps the invariant.
LEMMA WriteAcct ==
  ASSUME AcctInv, NEW u \in User, NEW a \in Account,
         a.reason # "" => ~a.enabled,
         acct' = [acct EXCEPT ![u] = a],
         hour' = hour, found' \in User \cup {None}
  PROVE  AcctInv'
<1>1. AcctTypeOK'
  BY DEF AcctInv, AcctTypeOK
<1>2. ReasonMeansOff'
  BY DEF AcctInv, AcctTypeOK, ReasonMeansOff, Here
<1>. QED
  BY <1>1, <1>2 DEF AcctInv

LEMMA HandlerAcct ==
  ASSUME AcctInv, NEW u \in User, HandlerStep(u) \/ DeleteEnds(u)
  PROVE  AcctInv'
<1>. USE DEF collVars
<1>0. /\ acct[u] \in Account /\ hour \in Hours /\ found \in User \cup {None}
      /\ u \in Here => (acct[u].reason # "" => ~acct[u].enabled)
  BY DEF AcctInv, AcctTypeOK, ReasonMeansOff
<1>1. CASE Create(u)
  <2>1. PICK limits \in Limits : Changed(u, Limited(limits, hour))
    BY <1>1 DEF Create
  <2>2. Limited(limits, hour) \in Account /\ Limited(limits, hour).reason = ""
    BY <1>0, LimitedIsOn, LimitsAreTyped
  <2>. QED
    BY <1>0, <1>1, <2>1, <2>2, WriteAcct DEF Create, Changed
<1>2. CASE Disable(u)
  <2>1. LET a == [acct[u] EXCEPT !.enabled = FALSE]
        IN  a \in Account /\ ~a.enabled
    BY <1>0 DEF Account
  <2>. QED
    BY <1>0, <1>2, <2>1, WriteAcct DEF Disable, Changed
<1>3. CASE Enable(u)
  <2>1. LET a == [acct[u] EXCEPT !.enabled = TRUE, !.reason = ""]
        IN  a \in Account /\ a.reason = ""
    BY <1>0 DEF Account
  <2>. QED
    BY <1>0, <1>3, <2>1, WriteAcct DEF Enable, Changed
<1>4. CASE SetLimits(u)
  <2>1. PICK limits \in Limits :
          Changed(u, [acct[u] EXCEPT !.quota = limits.quota, !.expires = limits.expires])
    BY <1>4 DEF SetLimits
  <2>2. LET a == [acct[u] EXCEPT !.quota = limits.quota, !.expires = limits.expires]
        IN  a \in Account /\ a.reason = acct[u].reason /\ a.enabled = acct[u].enabled
    BY <1>0, LimitsAreTyped DEF Account
  <2>. QED
    BY <1>0, <1>4, <2>1, <2>2, WriteAcct DEF SetLimits, Changed
<1>5. CASE ResetUsage(u)
  <2>1. LET a == [acct[u] EXCEPT !.window = hour, !.enabled = TRUE, !.reason = ""]
        IN  a \in Account /\ a.reason = ""
    BY <1>0 DEF Account
  <2>2. LET a == [acct[u] EXCEPT !.window = hour]
        IN  a \in Account /\ a.reason = acct[u].reason /\ a.enabled = acct[u].enabled
    BY <1>0 DEF Account
  <2>. QED
    BY <1>0, <1>5, <2>1, <2>2, WriteAcct DEF ResetUsage, Changed
<1>6. CASE DeleteUsage(u)
  BY <1>6 DEF DeleteUsage, AcctInv, AcctTypeOK, ReasonMeansOff, Here
<1>7. CASE DeleteUser(u)
  <2>1. LET a == [Fresh EXCEPT !.state = "gone"]
        IN  a \in Account /\ a.reason = ""
    BY FreshIsAccount DEF Account
  <2>. QED
    BY <1>0, <1>7, <2>1, WriteAcct DEF DeleteUser, Changed
<1>8. CASE DeleteUserFails(u)
  BY <1>8 DEF DeleteUserFails, AcctInv, AcctTypeOK, ReasonMeansOff, Here
<1>. QED
  BY <1>1, <1>2, <1>3, <1>4, <1>5, <1>6, <1>7, <1>8 DEF HandlerStep, DeleteEnds

\* TurnOff, which gives a reason and switches off in one save.
LEMMA TurnOffAcct == ASSUME AcctInv, TurnOff PROVE AcctInv'
<1>1. found \in User /\ acct[found] \in Account
  BY DEF TurnOff, Here, AcctInv, AcctTypeOK
<1>2. Reason \in {"expired", "quota"}
  BY DEF Reason
<1>. DEFINE a == [acct[found] EXCEPT !.enabled = FALSE, !.reason = Reason]
<1>3. a \in Account /\ ~a.enabled
  BY <1>1, <1>2 DEF Account
<1>4. acct' = [acct EXCEPT ![found] = a]
  BY <1>1, <1>2 DEF TurnOff, AcctInv, AcctTypeOK, Account
<1>. QED
  BY <1>1, <1>3, <1>4, WriteAcct DEF TurnOff

\* Every other step leaves the accounts alone.
LEMMA OtherAcct ==
  ASSUME AcctInv, acct' = acct, hour' \in Hours, found' \in User \cup {None}
  PROVE  AcctInv'
BY DEF AcctInv, AcctTypeOK, ReasonMeansOff, Here

LEMMA CollectorAcct == ASSUME AcctInv, CollectorStep PROVE AcctInv'
<1>. USE DEF userVars, collVars
<1>0. hour \in Hours /\ found \in User \cup {None}
  BY DEF AcctInv, AcctTypeOK
<1>1. CASE TurnOff
  BY <1>1, TurnOffAcct
<1>2. CASE Drain \/ DrainFails \/ ListKnown \/ Add \/ AddFails \/ ExpiryTick \/ List
  BY <1>0, <1>2, OtherAcct DEF Drain, DrainFails, ListKnown, Add, AddFails, ExpiryTick, List
<1>3. CASE \E u \in User : Check(u) \/ CheckFails(u)
  BY <1>0, <1>3, OtherAcct DEF Check, CheckFails
<1>4. CASE TurnOffFails \/ EndEnforce \/ Reloads \/ ReloadFails \/ Prune
  BY <1>0, <1>4, OtherAcct DEF TurnOffFails, EndEnforce, Reloads, ReloadFails, Prune
<1>. QED
  BY <1>1, <1>2, <1>3, <1>4 DEF CollectorStep

LEMMA NextAcct == AcctInv /\ [Next]_vars => AcctInv'
<1>. SUFFICES ASSUME AcctInv, [Next]_vars PROVE AcctInv'
  OBVIOUS
<1>. USE DEF userVars, collVars
<1>0. hour \in Hours /\ found \in User \cup {None}
  BY DEF AcctInv, AcctTypeOK
<1>1. CASE \E u \in User : HandlerStep(u) \/ DeleteEnds(u)
  BY <1>1, HandlerAcct
<1>2. CASE \E u \in User : Traffic(u)
  BY <1>0, <1>2, OtherAcct DEF Traffic
<1>3. CASE NextHour
  <2>1. hour' \in Hours
    BY <1>0, <1>3, CollectorAssumption DEF NextHour, Hours
  <2>. QED
    BY <1>0, <1>3, <2>1, OtherAcct DEF NextHour
<1>4. CASE HandlerReload
  BY <1>0, <1>4, OtherAcct DEF HandlerReload, HandlerReloads, HandlerReloadFails
<1>5. CASE CollectorStep
  BY <1>5, CollectorAcct
<1>6. CASE Stop \/ Restart
  BY <1>0, <1>6, OtherAcct DEF Stop, Restart
<1>7. CASE UNCHANGED vars
  BY <1>0, <1>7, OtherAcct DEF vars
<1>. QED
  BY <1>1, <1>2, <1>3, <1>4, <1>5, <1>6, <1>7 DEF Next

LEMMA Invariance == Spec => []AcctInv
<1>. QED
  BY InitAcct, NextAcct, PTL DEF Spec

\* No account is ever both enabled and marked with the reason enforcement turned
\* it off for, in whatever order enforcement, PATCH, reset-usage, deletion and
\* restarts follow each other.
THEOREM NobodyIsHalfOff == Spec => []ReasonMeansOff
<1>1. AcctInv => ReasonMeansOff
  BY DEF AcctInv
<1>. QED
  BY <1>1, Invariance, PTL

--------------------------------------------------------------------------------
(* What is shown.                                                          *)

LEMMA Numbers ==
  ASSUME AcctInv, NEW u \in User
  PROVE  /\ acct[u].quota \in Nat /\ acct[u].expires \in Nat
         /\ hour \in Nat /\ hour < Never /\ Never \in Nat
<1>1. acct[u] \in Account /\ hour \in Hours
  BY DEF AcctInv, AcctTypeOK
<1>2. acct[u].quota \in Nat /\ acct[u].expires \in Nat
  BY <1>1 DEF Account
<1>3. LastHour \in Nat
  BY CollectorAssumption
<1>. QED
  BY <1>1, <1>2, <1>3 DEF Hours, Never

\* The header tells a client what the store tells the renderer.
LEMMA HeaderIsRight ==
  ASSUME AcctInv, NEW u \in User
  PROVE  LET header == SubHeaders(u)
         IN  /\ UsedUp(header) <=> OverQuota(u, acct[u].quota, acct[u].window)
             /\ Over(header) <=> IsExpired(acct[u], hour)
             /\ header["used"] = Used(u, acct[u].window)
<1>1. /\ acct[u].quota \in Nat /\ acct[u].expires \in Nat
      /\ hour \in Nat /\ hour < Never /\ Never \in Nat
  BY Numbers
<1>. DEFINE used == Used(u, acct[u].window)
            Field == {"used"} \cup (IF acct[u].quota > 0 THEN {"total"} ELSE {})
                              \cup (IF acct[u].expires # Never THEN {"expire"} ELSE {})
<1>. HIDE DEF used
<1>2. SubHeaders(u) = [f \in Field |-> CASE f = "used" -> used
                                         [] f = "total" -> acct[u].quota
                                         [] f = "expire" -> acct[u].expires]
  BY DEF SubHeaders, used
<1>3. "used" \in Field /\ SubHeaders(u)["used"] = used
  BY <1>2
<1>4. UsedUp(SubHeaders(u)) <=> acct[u].quota > 0 /\ used >= acct[u].quota
  BY <1>2, <1>3 DEF UsedUp
<1>5. Over(SubHeaders(u)) <=> acct[u].expires # Never /\ hour >= acct[u].expires
  BY <1>2 DEF Over
<1>. QED
  BY <1>1, <1>3, <1>4, <1>5 DEF OverQuota, IsExpired, used

LEMMA ShownRight == AcctInv => ShownAsServed
<1>. SUFFICES ASSUME AcctInv, NEW u \in Here
              PROVE  /\ u \in Active <=> /\ Listing[u].state = "enabled"
                                         /\ ~UsedUp(SubHeaders(u)) /\ ~Over(SubHeaders(u))
                     /\ u \in Active => Page(u).state = "active"
                                        /\ Page(u).used = SubHeaders(u)["used"]
  BY DEF ShownAsServed
<1>1. u \in User /\ acct[u] \in Account /\ (acct[u].reason # "" => ~acct[u].enabled)
  BY DEF Here, AcctInv, AcctTypeOK, ReasonMeansOff
<1>2. Listing[u].state = UserState(u)
  BY DEF Listing, Detail
<1>3. UserState(u) = "enabled" <=> acct[u].enabled
  BY <1>1 DEF UserState, Account
<1>4. u \in Active <=> /\ acct[u].enabled /\ ~IsExpired(acct[u], hour)
                      /\ ~OverQuota(u, acct[u].quota, acct[u].window)
  BY DEF Active
<1>5. ASSUME u \in Active PROVE AccountState(u) = "active"
  <2>0. ~(hour >= acct[u].expires)
    BY <1>4, <1>5 DEF IsExpired
  <2>1. acct[u].enabled /\ acct[u].reason = ""
    BY <1>1, <1>4, <1>5
  <2>2. hour \in Nat /\ acct[u].expires \in Nat
    BY <1>1, Numbers
  <2>3. ~(hour > acct[u].expires)
    BY <2>0, <2>2
  <2>. QED
    BY <2>1, <2>3 DEF AccountState
<1>6. Page(u).state = AccountState(u) /\ Page(u).used = Used(u, acct[u].window)
  BY DEF Page, Summary
<1>. QED
  BY <1>1, <1>2, <1>3, <1>4, <1>5, <1>6, HeaderIsRight

\* What operators and users are shown of a user is what the next config does with them
\* (user ls, the setup page, the subscription header; Store.ActiveUsers).
THEOREM ShownIsServed == Spec => []ShownAsServed
<1>. QED
  BY ShownRight, Invariance, PTL

--------------------------------------------------------------------------------
(* The other variables.                                                    *)

\* What may still be recorded, or is left, for a user who is going or gone, is so only
\* if their deletion has crossed a pass.
LeftoverOf(u) ==
  acct[u].state = "gone" \/ u \in deleting =>
    \/ u \in crossed
    \/ rows[u] = NoRows /\ (at = "adding" => resp[u] = 0)

Leftover == \A u \in User : LeftoverOf(u)

\* Why the user found was found.
Judged ==
  at = "disabling" =>
    /\ found \in User
    /\ \/ found \in crossed
       \/ snap[found].expired
       \/ OverQuota(found, snap[found].quota, snap[found].window)

IInv == AcctInv /\ TypeOK /\ Leftover /\ Judged

LEMMA NothingIsTyped == Nothing \in [User -> Nat] /\ \A u \in User : Nothing[u] = 0
BY DEF Nothing

LEMMA NoRowsIsTyped == NoRows \in [Hours -> Nat]
BY DEF NoRows

LEMMA InitIInv == Init => IInv
<1>. SUFFICES ASSUME Init PROVE IInv
  OBVIOUS
<1>. USE NothingIsTyped
<1>1. AcctInv
  BY InitAcct
<1>2. rows \in [User -> [Hours -> Nat]] /\ \A u \in User : rows[u] = NoRows
  BY DEF Init, NoRows
<1>3. TypeOK
  <2>1. /\ deleting = {} /\ counter = Nothing /\ live \subseteq User /\ asked = FALSE
        /\ at = "listing" /\ resp = Nothing /\ found = None /\ changed = FALSE /\ errs = FALSE
        /\ sent = Nothing /\ lossy = {} /\ crossed = {} /\ unsure = FALSE
    BY DEF Init, Active, Here
  <2>2. DOMAIN snap \subseteq User
    BY DEF Init
  <2>. QED
    BY <1>1, <1>2, <2>1, <2>2 DEF TypeOK, AcctInv, AcctTypeOK
<1>4. Leftover /\ Judged
  BY <1>2 DEF Init, Leftover, LeftoverOf, Judged
<1>. QED
  BY <1>1, <1>3, <1>4 DEF IInv

LEMMA HandlerTypes ==
  ASSUME AcctInv, AcctInv', TypeOK, NEW u \in User, HandlerStep(u) \/ DeleteEnds(u)
  PROVE  TypeOK'
<1>. USE DEF TypeOK, collVars, proxyVars, ghosts
<1>1. acct' \in [User -> Account]
  BY DEF AcctInv, AcctTypeOK
<1>2. acct[u] \in Account
  OBVIOUS
<1>3. CASE Create(u)
  <2>1. u \notin deleting /\ deleting' = deleting
    BY <1>3 DEF Create, Here
  <2>2. \A v \in User \ {u} : acct'[v] = acct[v]
    BY <1>3 DEF Create, Changed
  <2>3. (deleting \subseteq Here)'
    BY <2>1, <2>2 DEF Here
  <2>. QED
    BY <1>1, <1>3, <2>3 DEF Create, Changed
<1>4. CASE Disable(u)
  <2>1. (deleting \subseteq Here)'
    BY <1>2, <1>4 DEF Disable, Changed, Here, Account
  <2>. QED
    BY <1>1, <1>4, <2>1 DEF Disable, Changed
<1>5. CASE Enable(u)
  <2>1. (deleting \subseteq Here)'
    BY <1>2, <1>5 DEF Enable, Changed, Here, Account
  <2>. QED
    BY <1>1, <1>5, <2>1 DEF Enable, Changed
<1>6. CASE SetLimits(u)
  <2>1. PICK limits \in Limits :
          Changed(u, [acct[u] EXCEPT !.quota = limits.quota, !.expires = limits.expires])
    BY <1>6 DEF SetLimits
  <2>2. \A v \in User : acct'[v].state = acct[v].state
    BY <1>2, <2>1 DEF Changed, Account
  <2>3. (deleting \subseteq Here)'
    BY <1>6, <2>2 DEF SetLimits, Here
  <2>. QED
    BY <1>1, <1>6, <2>1, <2>3 DEF SetLimits, Changed
<1>7. CASE ResetUsage(u)
  <2>1. (deleting \subseteq Here)'
    BY <1>2, <1>7 DEF ResetUsage, Changed, Here, Account
  <2>. QED
    BY <1>1, <1>7, <2>1 DEF ResetUsage, Changed
<1>8. CASE DeleteUsage(u)
  <2>1. rows' \in [User -> [Hours -> Nat]]
    BY <1>8, NoRowsIsTyped DEF DeleteUsage
  <2>2. (deleting \subseteq Here)'
    BY <1>8 DEF DeleteUsage, Here
  <2>. QED
    BY <1>1, <1>8, <2>1, <2>2 DEF DeleteUsage
<1>9. CASE DeleteUser(u)
  <2>1. (deleting \subseteq Here)'
    BY <1>9 DEF DeleteUser, Changed, Here
  <2>. QED
    BY <1>1, <1>9, <2>1 DEF DeleteUser, Changed
<1>10. CASE DeleteUserFails(u)
  BY <1>1, <1>10 DEF DeleteUserFails, Here
<1>. QED
  BY <1>3, <1>4, <1>5, <1>6, <1>7, <1>8, <1>9, <1>10 DEF HandlerStep, DeleteEnds

LEMMA CollectorTypes ==
  ASSUME AcctInv, AcctInv', TypeOK, CollectorStep
  PROVE  TypeOK'
<1>. USE NothingIsTyped DEF TypeOK, userVars, proxyVars, ghosts
<1>0. acct' \in [User -> Account] /\ hour' \in Hours /\ found' \in User \cup {None}
  BY DEF AcctInv, AcctTypeOK
<1>1. CASE Drain
  BY <1>1 DEF Drain, Here
<1>2. CASE DrainFails
  BY <1>2 DEF DrainFails, Recreated, Counting, collVars, Here
<1>3. CASE ListKnown
  BY <1>3 DEF ListKnown, Here
<1>4. CASE Add
  <2>1. rows' \in [User -> [Hours -> Nat]]
    BY <1>4 DEF Add
  <2>. QED
    BY <1>4, <2>1 DEF Add, Here
<1>5. CASE AddFails
  BY <1>5 DEF AddFails, Here
<1>6. CASE ExpiryTick
  BY <1>6 DEF ExpiryTick, Here
<1>7. CASE List
  <2>1. DOMAIN snap' \subseteq User
    BY <1>7 DEF List, Here
  <2>. QED
    BY <1>0, <1>7, <2>1 DEF List, Here
<1>8. ASSUME NEW u \in User, Check(u) \/ CheckFails(u) PROVE TypeOK'
  <2>1. DOMAIN snap' \subseteq User
    BY <1>8 DEF Check, CheckFails, Done
  <2>. QED
    BY <1>0, <1>8, <2>1 DEF Check, CheckFails, Here
<1>9. CASE TurnOff
  <2>1. DOMAIN snap' \subseteq User
    BY <1>9 DEF TurnOff, Done
  <2>2. (deleting \subseteq Here)'
    <3>1. ASSUME NEW u \in User PROVE acct'[u].state = acct[u].state
      <4>1. acct[u] \in Account /\ acct[found] \in Account /\ found \in User
        BY <1>9 DEF TurnOff, Here
      <4>. QED
        BY <1>9, <4>1 DEF TurnOff, Account
    <3>. QED
      BY <1>9, <3>1 DEF TurnOff, Here
  <2>. QED
    BY <1>0, <1>9, <2>1, <2>2 DEF TurnOff
<1>10. CASE TurnOffFails
  <2>1. DOMAIN snap' \subseteq User
    BY <1>10 DEF TurnOffFails, Done
  <2>. QED
    BY <1>0, <1>10, <2>1 DEF TurnOffFails, Here
<1>11. CASE EndEnforce
  BY <1>11 DEF EndEnforce, Here
<1>12. CASE Reloads
  BY <1>12 DEF Reloads, Publish, Recreated, Counting, Active, Here
<1>13. CASE ReloadFails
  BY <1>13 DEF ReloadFails, Here
<1>14. CASE Prune
  <2>1. rows' \in [User -> [Hours -> Nat]]
    BY <1>14 DEF Prune
  <2>2. lossy' \subseteq User
    BY <1>14 DEF Prune
  <2>. QED
    BY <1>14, <2>1, <2>2 DEF Prune, collVars, Here
<1>. QED
  BY <1>1, <1>2, <1>3, <1>4, <1>5, <1>6, <1>7, <1>8, <1>9, <1>10, <1>11, <1>12, <1>13,
     <1>14 DEF CollectorStep

LEMMA NextTypes ==
  ASSUME AcctInv, AcctInv', TypeOK, [Next]_vars
  PROVE  TypeOK'
<1>. USE NothingIsTyped DEF userVars, proxyVars, collVars, ghosts
<1>1. ASSUME NEW u \in User, HandlerStep(u) \/ DeleteEnds(u) PROVE TypeOK'
  BY <1>1, HandlerTypes
<1>2. ASSUME NEW u \in User, Traffic(u) PROVE TypeOK'
  <2>1. counter' \in [User -> Nat] /\ sent' \in [User -> Nat]
    BY <1>2 DEF Traffic, TypeOK
  <2>. QED
    BY <1>2, <2>1 DEF Traffic, TypeOK, Here
<1>3. CASE NextHour
  BY <1>3 DEF NextHour, TypeOK, Here, AcctInv, AcctTypeOK
<1>4. CASE HandlerReloads
  BY <1>4 DEF HandlerReloads, Publish, Recreated, Counting, Active, TypeOK, Here
<1>5. CASE HandlerReloadFails
  BY <1>5 DEF HandlerReloadFails, TypeOK, Here
<1>6. CASE CollectorStep
  BY <1>6, CollectorTypes
<1>7. CASE Stop
  <2>1. DOMAIN snap' \subseteq User /\ lossy' \subseteq User
    BY <1>7 DEF Stop, Counting, TypeOK
  <2>. QED
    BY <1>7, <2>1 DEF Stop, TypeOK, Here, AcctInv, AcctTypeOK
<1>8. CASE Restart
  BY <1>8 DEF Restart, Publish, Recreated, Counting, Active, TypeOK, Here
<1>9. CASE UNCHANGED vars
  BY <1>9 DEF vars, TypeOK, Here
<1>. QED
  BY <1>1, <1>2, <1>3, <1>4, <1>5, <1>6, <1>7, <1>8, <1>9 DEF Next, HandlerReload

--------------------------------------------------------------------------------
(* What deletions leave, and why users are turned off.                     *)

LEMMA LeftoverSame ==
  ASSUME NEW u \in User, LeftoverOf(u), crossed \subseteq crossed',
         acct'[u].state = "gone" \/ u \in deleting' => acct[u].state = "gone" \/ u \in deleting,
         rows'[u] = rows[u] \/ rows'[u] = NoRows,
         at' = "adding" => at = "adding" /\ resp'[u] = resp[u]
  PROVE  LeftoverOf(u)'
BY DEF LeftoverOf, NoRows

\* A step that neither takes traffic nor touches a user who is going.
LEMMA LeftoverElse ==
  ASSUME TypeOK, Leftover, UNCHANGED <<deleting, rows>>, crossed \subseteq crossed',
         \A u \in User : acct'[u].state = "gone" => acct[u].state = "gone",
         at' = "adding" => at = "adding" /\ resp' = resp
  PROVE  Leftover'
<1>. SUFFICES ASSUME NEW u \in User PROVE LeftoverOf(u)'
  BY DEF Leftover
<1>1. LeftoverOf(u)
  BY DEF Leftover
<1>. QED
  BY <1>1, LeftoverSame

LEMMA HandlerLeftover ==
  ASSUME TypeOK, Leftover, NEW u \in User, HandlerStep(u) \/ DeleteEnds(u)
  PROVE  Leftover'
<1>. USE DEF collVars, proxyVars
<1>0. acct \in [User -> Account] /\ acct[u] \in Account
  BY DEF TypeOK
<1>1. CASE Create(u)
  <2>1. PICK limits \in Limits : Changed(u, Limited(limits, hour))
    BY <1>1 DEF Create
  <2>2. \A v \in User : acct'[v].state = "gone" => acct[v].state = "gone"
    BY <1>0, <2>1 DEF Changed, Limited, Fresh
  <2>. QED
    BY <1>1, <2>2, LeftoverElse DEF Create, ghosts
<1>2. CASE Disable(u)
  <2>1. \A v \in User : acct'[v].state = acct[v].state
    BY <1>0, <1>2 DEF Disable, Changed, Account
  <2>. QED
    BY <1>2, <2>1, LeftoverElse DEF Disable, ghosts
<1>3. CASE Enable(u)
  <2>1. \A v \in User : acct'[v].state = acct[v].state
    BY <1>0, <1>3 DEF Enable, Changed, Account
  <2>. QED
    BY <1>3, <2>1, LeftoverElse DEF Enable, ghosts
<1>4. CASE SetLimits(u)
  <2>1. PICK limits \in Limits :
          Changed(u, [acct[u] EXCEPT !.quota = limits.quota, !.expires = limits.expires])
    BY <1>4 DEF SetLimits
  <2>2. \A v \in User : acct'[v].state = acct[v].state
    BY <1>0, <2>1 DEF Changed, Account
  <2>. QED
    BY <1>4, <2>2, LeftoverElse DEF SetLimits, ghosts
<1>5. CASE ResetUsage(u)
  <2>1. \A v \in User : acct'[v].state = acct[v].state
    BY <1>0, <1>5 DEF ResetUsage, Changed, Account
  <2>. QED
    BY <1>5, <2>1, LeftoverElse DEF ResetUsage, ghosts
<1>6. CASE DeleteUsage(u)
  <2>1. SUFFICES ASSUME NEW v \in User PROVE LeftoverOf(v)'
    BY DEF Leftover
  <2>2. LeftoverOf(v) /\ rows \in [User -> [Hours -> Nat]]
    BY DEF Leftover, TypeOK
  <2>3. CASE v # u
    BY <1>6, <2>2, <2>3 DEF DeleteUsage, LeftoverOf, NoRows
  <2>4. CASE v = u
    BY <1>6, <2>2, <2>4 DEF DeleteUsage, LeftoverOf, NoRows
  <2>. QED
    BY <2>3, <2>4
<1>7. CASE DeleteUser(u)
  <2>1. SUFFICES ASSUME NEW v \in User PROVE LeftoverOf(v)'
    BY DEF Leftover
  <2>2. LeftoverOf(v)
    BY DEF Leftover
  <2>3. acct' = [acct EXCEPT ![u] = [Fresh EXCEPT !.state = "gone"]]
    BY <1>7 DEF DeleteUser, Changed
  <2>4. v # u => acct'[v] = acct[v]
    BY <1>0, <2>3
  <2>5. /\ u \in deleting /\ deleting' = deleting \ {u} /\ crossed \subseteq crossed'
        /\ UNCHANGED <<rows, at, resp>>
    BY <1>7 DEF DeleteUser
  <2>. QED
    BY <2>2, <2>4, <2>5, LeftoverSame
<1>8. CASE DeleteUserFails(u)
  <2>1. SUFFICES ASSUME NEW v \in User PROVE LeftoverOf(v)'
    BY DEF Leftover
  <2>2. LeftoverOf(v)
    BY DEF Leftover
  <2>. QED
    BY <1>8, <2>2, LeftoverSame DEF DeleteUserFails, ghosts
<1>. QED
  BY <1>1, <1>2, <1>3, <1>4, <1>5, <1>6, <1>7, <1>8 DEF HandlerStep, DeleteEnds

LEMMA CollectorLeftover == ASSUME TypeOK, Leftover, CollectorStep PROVE Leftover'
<1>. USE DEF userVars, proxyVars, collVars, ghosts
<1>1. CASE Drain \/ DrainFails \/ AddFails \/ ExpiryTick \/ List
  BY <1>1, LeftoverElse DEF Drain, DrainFails, AddFails, ExpiryTick, List
<1>2. CASE ListKnown
  <2>1. SUFFICES ASSUME NEW u \in User PROVE LeftoverOf(u)'
    BY DEF Leftover
  <2>2. LeftoverOf(u)
    BY DEF Leftover
  <2>3. acct[u].state = "gone" => resp'[u] = 0
    BY <1>2 DEF ListKnown, Here
  <2>. QED
    BY <1>2, <2>2, <2>3 DEF ListKnown, LeftoverOf, NoRows
<1>3. CASE Add
  <2>1. SUFFICES ASSUME NEW u \in User PROVE LeftoverOf(u)'
    BY DEF Leftover
  <2>2. LeftoverOf(u) /\ rows[u] \in [Hours -> Nat] /\ hour \in Hours
    BY DEF Leftover, TypeOK
  <2>3. rows'[u] = [rows[u] EXCEPT ![hour] = @ + resp[u]] /\ at = "adding" /\ at' = "listing"
    BY <1>3 DEF Add
  <2>4. CASE resp[u] = 0
    <3>1. rows[u][hour] + resp[u] = rows[u][hour]
      BY <2>2, <2>4
    <3>2. rows'[u] = rows[u]
      BY <2>2, <2>3, <3>1
    <3>. QED
      BY <1>3, <2>2, <2>3, <3>2, LeftoverSame DEF Add
  <2>5. CASE resp[u] # 0
    BY <1>3, <2>2, <2>3, <2>5 DEF Add, LeftoverOf, NoRows
  <2>. QED
    BY <2>4, <2>5
<1>4. ASSUME NEW u \in User, Check(u) \/ CheckFails(u) PROVE Leftover'
  BY <1>4, LeftoverElse DEF Check, CheckFails
<1>5. CASE TurnOff
  <2>1. acct[found] \in Account /\ found \in User
    BY <1>5 DEF TurnOff, TypeOK, Here
  <2>2. \A u \in User : acct'[u].state = acct[u].state
    BY <1>5, <2>1 DEF TurnOff, TypeOK, Account
  <2>. QED
    BY <1>5, <2>2, LeftoverElse DEF TurnOff
<1>6. CASE TurnOffFails \/ EndEnforce \/ Reloads \/ ReloadFails
  BY <1>6, LeftoverElse DEF TurnOffFails, EndEnforce, Reloads, ReloadFails
<1>7. CASE Prune
  <2>1. SUFFICES ASSUME NEW u \in User PROVE LeftoverOf(u)'
    BY DEF Leftover
  <2>2. LeftoverOf(u)
    BY DEF Leftover
  <2>3. rows[u] = NoRows => rows'[u] = NoRows
    BY <1>7 DEF Prune, NoRows
  <2>. QED
    BY <1>7, <2>2, <2>3 DEF Prune, LeftoverOf, NoRows
<1>. QED
  BY <1>1, <1>2, <1>3, <1>4, <1>5, <1>6, <1>7 DEF CollectorStep

LEMMA NextLeftover == ASSUME TypeOK, Leftover, [Next]_vars PROVE Leftover'
<1>. USE DEF userVars, proxyVars, collVars, ghosts
<1>1. ASSUME NEW u \in User, HandlerStep(u) \/ DeleteEnds(u) PROVE Leftover'
  BY <1>1, HandlerLeftover
<1>2. ASSUME NEW u \in User, Traffic(u) PROVE Leftover'
  BY <1>2, LeftoverElse DEF Traffic
<1>3. CASE NextHour \/ HandlerReload
  BY <1>3, LeftoverElse DEF NextHour, HandlerReload, HandlerReloads, HandlerReloadFails
<1>4. CASE CollectorStep
  BY <1>4, CollectorLeftover
<1>5. CASE Stop
  <2>1. SUFFICES ASSUME NEW u \in User PROVE LeftoverOf(u)'
    BY DEF Leftover
  <2>2. LeftoverOf(u)
    BY DEF Leftover
  <2>. QED
    BY <1>5, <2>2, LeftoverSame DEF Stop
<1>6. CASE Restart \/ UNCHANGED vars
  BY <1>6, LeftoverElse DEF Restart, vars
<1>. QED
  BY <1>1, <1>2, <1>3, <1>4, <1>5, <1>6 DEF Next

\* Until the user found is turned off, or not, only their deletion takes the reason away.
LEMMA JudgedSame ==
  ASSUME Judged, at' = "disabling" => at = "disabling", UNCHANGED <<snap, found>>,
         crossed \subseteq crossed',
         found \in User => rows'[found] = rows[found] \/ found \in crossed'
  PROVE  Judged'
<1>1. CASE rows'[found] = rows[found]
  <2>1. OverQuota(found, snap[found].quota, snap[found].window)
          => OverQuota(found, snap[found].quota, snap[found].window)'
    BY <1>1 DEF OverQuota, Used
  <2>. QED
    BY <2>1 DEF Judged
<1>2. CASE found \in crossed'
  BY <1>2 DEF Judged
<1>. QED
  BY <1>1, <1>2 DEF Judged

LEMMA NextJudged == ASSUME TypeOK, Judged, [Next]_vars PROVE Judged'
<1>. USE DEF userVars, proxyVars, collVars, ghosts
<1>1. ASSUME NEW u \in User, HandlerStep(u) \/ DeleteEnds(u) PROVE Judged'
  <2>1. CASE DeleteUsage(u)
    <3>1. CASE at # "disabling"
      BY <2>1, <3>1 DEF DeleteUsage, Judged
    <3>2. CASE at = "disabling"
      <4>1. \A v \in User : rows'[v] = rows[v] \/ v \in crossed'
        BY <2>1, <3>2 DEF DeleteUsage, TypeOK
      <4>. QED
        BY <2>1, <4>1, JudgedSame DEF DeleteUsage
    <3>. QED
      BY <3>1, <3>2
  <2>2. CASE ~DeleteUsage(u)
    <3>1. UNCHANGED <<rows, at, snap, found>> /\ crossed \subseteq crossed'
      BY <1>1, <2>2 DEF HandlerStep, DeleteEnds, Create, Disable, Enable, SetLimits,
         ResetUsage, DeleteUser, DeleteUserFails
    <3>. QED
      BY <3>1, JudgedSame
  <2>. QED
    BY <2>1, <2>2
<1>2. ASSUME NEW u \in User, Check(u) PROVE Judged'
  BY <1>2 DEF Check, Judged, OverQuota, Used
<1>3. CASE Drain \/ DrainFails \/ ListKnown \/ Add \/ AddFails \/ ExpiryTick \/ List
  BY <1>3 DEF Drain, DrainFails, ListKnown, Add, AddFails, ExpiryTick, List, Judged
<1>4. CASE \E u \in User : CheckFails(u)
  BY <1>4 DEF CheckFails, Judged
<1>5. CASE TurnOff \/ TurnOffFails \/ EndEnforce \/ Reloads \/ ReloadFails \/ Prune
  BY <1>5 DEF TurnOff, TurnOffFails, EndEnforce, Reloads, ReloadFails, Prune, Judged
<1>6. ASSUME NEW u \in User, Traffic(u) PROVE Judged'
  BY <1>6, JudgedSame DEF Traffic
<1>7. CASE NextHour \/ HandlerReload
  BY <1>7, JudgedSame DEF NextHour, HandlerReload, HandlerReloads, HandlerReloadFails
<1>8. CASE Stop \/ Restart
  BY <1>8 DEF Stop, Restart, Judged
<1>9. CASE UNCHANGED vars
  BY <1>9, JudgedSame DEF vars
<1>. QED
  BY <1>1, <1>2, <1>3, <1>4, <1>5, <1>6, <1>7, <1>8, <1>9 DEF Next, CollectorStep

LEMMA FullInvariance == Spec => []IInv
<1>1. IInv /\ [Next]_vars => IInv'
  BY NextAcct, NextTypes, NextLeftover, NextJudged DEF IInv
<1>. QED
  BY InitIInv, <1>1, PTL DEF Spec

--------------------------------------------------------------------------------

\* The variables keep their types: no pass of the collector and no handler writes what
\* is not an account, a bucket or a user's name.
THEOREM TypeCorrect == Spec => []TypeOK
<1>1. IInv => TypeOK
  BY DEF IInv
<1>. QED
  BY <1>1, FullInvariance, PTL

\* Store.DeleteUser leaves nothing in the usage store unless CollectOnce was under way
\* meanwhile, for any number of users going at once.
THEOREM DeletionIsThorough == Spec => []DeletedLeavesNothing
<1>1. IInv => DeletedLeavesNothing
  BY DEF IInv, Leftover, LeftoverOf, DeletedLeavesNothing
<1>. QED
  BY <1>1, FullInvariance, PTL

\* Enforce turns off nobody who has quota and time left by the limits they still have.
THEOREM NobodyIsWronged == Spec => RightlyTurnedOff
<1>1. ASSUME IInv, NEW u \in User, at = "disabling", u = found, AsListed(u)
      PROVE  u \notin Active \/ u \in crossed
  <2>1. CASE found \in crossed
    BY <1>1, <2>1
  <2>2. CASE snap[found].expired
    BY <1>1, <2>2 DEF AsListed, Active
  <2>3. CASE OverQuota(found, snap[found].quota, snap[found].window)
    BY <1>1, <2>3 DEF AsListed, Active
  <2>. QED
    BY <1>1, <2>1, <2>2, <2>3 DEF IInv, Judged
<1>2. IInv => [\A u \in User : at = "disabling" /\ u = found /\ acct'[u] # acct[u] /\ AsListed(u)
                 => u \notin Active \/ u \in crossed]_vars
  BY <1>1
<1>. QED
  BY <1>2, FullInvariance, PTL DEF RightlyTurnedOff

--------------------------------------------------------------------------------
(* Sums over finite sets.  SumFunctionOnSet is a recursion over the subsets *)
(* of the set, with an element chosen at each; what follows is proved by    *)
(* taking a least counterexample, as set of natural numbers or subset.      *)

Numbered(f, S) == \A x \in S : f[x] \in Nat

\* One step of the recursion, g being the sums of the smaller sets.
SumStep(f, g, T) == IF T = {} THEN 0 ELSE LET x == CHOOSE x \in T : TRUE IN f[x] + g[T \ {x}]
IsSum(f, g, S) == g = [T \in SUBSET S |-> SumStep(f, g, T)]
SumBy(f, S) == CHOOSE g : IsSum(f, g, S)

LEMMA SumUnfolded == ASSUME NEW f, NEW S PROVE SumFunctionOnSet(f, S) = SumBy(f, S)[S]
BY DEF SumFunctionOnSet, FoldFunctionOnSet, MapThenFoldSet, SumBy, SumStep, IsSum

LEMMA CountingUp ==
  ASSUME NEW P \in SUBSET Nat, 0 \in P, \A n \in P : n + 1 \in P
  PROVE  P = Nat
<1>. SUFFICES ASSUME Nat \ P # {} PROVE FALSE
  OBVIOUS
<1>1. PICK n \in Nat \ P : \A m \in Nat \ P : ~(<<m, n>> \in OpToRel(<, Nat))
  BY NatLessThanWellFounded, WFMin
<1>2. n \in Nat /\ n \notin P /\ n # 0
  OBVIOUS
<1>3. n - 1 \in Nat /\ n - 1 < n
  BY <1>2
<1>4. n - 1 \in P
  BY <1>1, <1>3 DEF OpToRel
<1>5. (n - 1) + 1 = n
  BY <1>2
<1>. QED
  BY <1>2, <1>4, <1>5

\* What holds of a finite set if it holds of those with one element less holds of all.
LEMMA TakingAway ==
  ASSUME NEW S, IsFiniteSet(S), NEW P,
         \A T \in SUBSET S : (\A x \in T : T \ {x} \in P) => T \in P
  PROVE  S \in P
<1>. DEFINE C == (SUBSET S) \ P
<1>. SUFFICES ASSUME C # {} PROVE FALSE
  OBVIOUS
<1>1. C \subseteq FiniteSubsetsOf(S)
  BY FS_Subset DEF FiniteSubsetsOf
<1>2. PICK T \in C : \A U \in C : ~(<<U, T>> \in StrictSubsetOrdering(S))
  BY <1>1, FS_StrictSubsetOrderingWellFounded, WFMin
<1>3. ASSUME NEW x \in T PROVE T \ {x} \in P
  <2>1. T \ {x} \in SUBSET S /\ T \ {x} # T
    BY <1>2
  <2>2. <<T \ {x}, T>> \in StrictSubsetOrdering(S)
    BY <1>2, <2>1 DEF StrictSubsetOrdering
  <2>. QED
    BY <1>2, <2>1, <2>2
<1>. QED
  BY <1>2, <1>3

\* Up to any size of subsets there are the sums of the recursion, and so for all.
LEMMA SumExists ==
  ASSUME NEW S, IsFiniteSet(S), NEW f, Numbered(f, S)
  PROVE  \E g \in [SUBSET S -> Nat] : IsSum(f, g, S)
<1>. DEFINE Upto(g, n) == \A T \in SUBSET S : Cardinality(T) <= n => g[T] = SumStep(f, g, T)
            P == {n \in Nat : \E g \in [SUBSET S -> Nat] : Upto(g, n)}
<1>0. \A T \in SUBSET S : IsFiniteSet(T) /\ Cardinality(T) \in Nat
  BY FS_Subset, FS_CardinalityType
<1>1. 0 \in P
  <2>. DEFINE g == [T \in SUBSET S |-> 0]
  <2>1. \A T \in SUBSET S : Cardinality(T) <= 0 => T = {}
    BY <1>0, FS_EmptySet
  <2>2. Upto(g, 0)
    BY <2>1 DEF SumStep
  <2>. QED
    BY <2>2
<1>2. ASSUME NEW n \in P PROVE n + 1 \in P
  <2>1. PICK g \in [SUBSET S -> Nat] : Upto(g, n)
    OBVIOUS
  <2>. DEFINE h == [T \in SUBSET S |-> IF Cardinality(T) <= n THEN g[T] ELSE SumStep(f, g, T)]
  <2>2. ASSUME NEW T \in SUBSET S PROVE SumStep(f, g, T) \in Nat
    <3>1. T # {} => (CHOOSE x \in T : TRUE) \in T
      OBVIOUS
    <3>. QED
      BY <3>1 DEF SumStep, Numbered
  <2>3. h \in [SUBSET S -> Nat]
    BY <2>2
  <2>4. ASSUME NEW T \in SUBSET S, Cardinality(T) <= n + 1
        PROVE  h[T] = SumStep(f, h, T)
    <3>1. CASE T = {}
      BY <2>1, <3>1, FS_EmptySet DEF SumStep
    <3>2. CASE T # {}
      <4>. DEFINE x == CHOOSE x \in T : TRUE
      <4>1. x \in T
        BY <3>2
      <4>2. T \ {x} \in SUBSET S /\ Cardinality(T \ {x}) = Cardinality(T) - 1
        BY <1>0, <4>1, FS_RemoveElement
      <4>3. h[T \ {x}] = g[T \ {x}]
        BY <1>0, <2>4, <4>2
      <4>4. SumStep(f, h, T) = SumStep(f, g, T)
        BY <3>2, <4>3 DEF SumStep
      <4>. QED
        BY <2>1, <4>4
    <3>. QED
      BY <3>1, <3>2
  <2>. HIDE DEF h
  <2>5. n + 1 \in Nat /\ Upto(h, n + 1)
    BY <2>4
  <2>. QED
    BY <2>3, <2>5
<1>3. P = Nat
  <2>. HIDE DEF P
  <2>. QED
    BY <1>1, <1>2, CountingUp DEF P
<1>4. Cardinality(S) \in P
  BY <1>0, <1>3
<1>5. PICK g \in [SUBSET S -> Nat] : Upto(g, Cardinality(S))
  BY <1>4
<1>6. \A T \in SUBSET S : g[T] = SumStep(f, g, T)
  BY <1>5, FS_Subset
<1>7. IsSum(f, g, S)
  BY <1>5, <1>6 DEF IsSum
<1>. QED
  BY <1>7

LEMMA SumByIs ==
  ASSUME NEW S, IsFiniteSet(S), NEW f, Numbered(f, S)
  PROVE  \A T \in SUBSET S : SumBy(f, S)[T] = SumStep(f, SumBy(f, S), T)
<1>1. IsSum(f, SumBy(f, S), S)
  BY SumExists DEF SumBy
<1>. QED
  BY <1>1 DEF IsSum

\* The sums over a subset are the same whichever set the recursion began with.
LEMMA SumAnywhere ==
  ASSUME NEW S, IsFiniteSet(S), NEW f, Numbered(f, S), NEW T \in SUBSET S
  PROVE  SumBy(f, S)[T] = SumFunctionOnSet(f, T)
<1>. DEFINE P == {U \in SUBSET T : SumBy(f, S)[U] = SumBy(f, T)[U]}
<1>1. IsFiniteSet(T) /\ Numbered(f, T)
  BY FS_Subset DEF Numbered
<1>2. ASSUME NEW U \in SUBSET T, \A x \in U : U \ {x} \in P PROVE U \in P
  <2>1. /\ SumBy(f, S)[U] = SumStep(f, SumBy(f, S), U)
        /\ SumBy(f, T)[U] = SumStep(f, SumBy(f, T), U)
    BY <1>1, SumByIs
  <2>2. SumStep(f, SumBy(f, S), U) = SumStep(f, SumBy(f, T), U)
    <3>1. U # {} => (CHOOSE x \in U : TRUE) \in U
      OBVIOUS
    <3>. QED
      BY <1>2, <3>1 DEF SumStep
  <2>. QED
    BY <2>1, <2>2
<1>3. T \in P
  <2>. HIDE DEF P
  <2>. QED
    BY <1>1, <1>2, TakingAway
<1>. QED
  BY <1>3, SumUnfolded

LEMMA SumOfNothing == ASSUME NEW f PROVE SumFunctionOnSet(f, {}) = 0
<1>1. Numbered(f, {})
  BY DEF Numbered
<1>. QED
  BY <1>1, SumUnfolded, SumByIs, FS_EmptySet DEF SumStep

LEMMA SumOfChosen ==
  ASSUME NEW S, IsFiniteSet(S), S # {}, NEW f, Numbered(f, S)
  PROVE  LET x == CHOOSE x \in S : TRUE
         IN  x \in S /\ SumFunctionOnSet(f, S) = f[x] + SumFunctionOnSet(f, S \ {x})
<1>. DEFINE x == CHOOSE x \in S : TRUE
<1>1. x \in S
  OBVIOUS
<1>2. SumFunctionOnSet(f, S) = f[x] + SumBy(f, S)[S \ {x}]
  BY SumUnfolded, SumByIs DEF SumStep
<1>. QED
  BY <1>1, <1>2, SumAnywhere

LEMMA SumIsNat ==
  ASSUME NEW S, IsFiniteSet(S), NEW f, Numbered(f, S)
  PROVE  SumFunctionOnSet(f, S) \in Nat
<1>1. PICK g \in [SUBSET S -> Nat] : IsSum(f, g, S)
  BY SumExists
<1>. DEFINE P == {T \in SUBSET S : SumFunctionOnSet(f, T) \in Nat}
<1>2. ASSUME NEW T \in SUBSET S, \A x \in T : T \ {x} \in P PROVE T \in P
  <2>1. CASE T = {}
    BY <2>1, SumOfNothing
  <2>2. CASE T # {}
    <3>. DEFINE x == CHOOSE x \in T : TRUE
    <3>1. IsFiniteSet(T) /\ Numbered(f, T)
      BY FS_Subset DEF Numbered
    <3>2. x \in T /\ SumFunctionOnSet(f, T) = f[x] + SumFunctionOnSet(f, T \ {x})
      BY <2>2, <3>1, SumOfChosen
    <3>. HIDE DEF x
    <3>3. f[x] \in Nat /\ SumFunctionOnSet(f, T \ {x}) \in Nat
      BY <1>2, <3>1, <3>2 DEF Numbered
    <3>. QED
      BY <3>2, <3>3
  <2>. QED
    BY <2>1, <2>2
<1>. HIDE DEF P
<1>3. S \in P
  BY <1>2, TakingAway
<1>. QED
  BY <1>3 DEF P

\* Any element can be taken out, not only the chosen one.
LEMMA SumWithout ==
  ASSUME NEW S, IsFiniteSet(S), NEW f, Numbered(f, S), NEW x \in S
  PROVE  SumFunctionOnSet(f, S) = f[x] + SumFunctionOnSet(f, S \ {x})
<1>. DEFINE Total(T) == SumFunctionOnSet(f, T)
            P == {T \in SUBSET S : \A y \in T : Total(T) = f[y] + Total(T \ {y})}
<1>0. \A T \in SUBSET S : IsFiniteSet(T) /\ Numbered(f, T) /\ Total(T) \in Nat
  BY FS_Subset, SumIsNat DEF Numbered
<1>. HIDE DEF Total
<1>1. ASSUME NEW T \in SUBSET S, \A y \in T : T \ {y} \in P PROVE T \in P
  <2>. SUFFICES ASSUME NEW y \in T PROVE Total(T) = f[y] + Total(T \ {y})
    OBVIOUS
  <2>. DEFINE z == CHOOSE z \in T : TRUE
  <2>1. z \in T /\ Total(T) = f[z] + Total(T \ {z})
    BY <1>0, SumOfChosen DEF Total
  <2>. HIDE DEF z
  <2>2. CASE y = z
    BY <2>1, <2>2
  <2>3. CASE y # z
    <3>1. Total(T \ {z}) = f[y] + Total((T \ {z}) \ {y})
      BY <1>1, <2>1, <2>3
    <3>2. Total(T \ {y}) = f[z] + Total((T \ {y}) \ {z})
      BY <1>1, <2>1, <2>3
    <3>. DEFINE rest == Total((T \ {y}) \ {z})
    <3>3. (T \ {z}) \ {y} = (T \ {y}) \ {z}
      OBVIOUS
    <3>4. Total(T \ {z}) = f[y] + rest
      BY <3>1, <3>3
    <3>5. f[y] \in Nat /\ f[z] \in Nat /\ rest \in Nat
      BY <1>0, <2>1 DEF Numbered
    <3>. HIDE DEF rest
    <3>6. Total(T) = f[z] + (f[y] + rest) /\ Total(T \ {y}) = f[z] + rest
      BY <2>1, <3>2, <3>4 DEF rest
    <3>. QED
      BY <3>5, <3>6
  <2>. QED
    BY <2>2, <2>3
<1>. HIDE DEF P
<1>2. S \in P
  BY <1>1, TakingAway
<1>. QED
  BY <1>2 DEF P, Total

\* Sums are of the values only.
LEMMA SumSame ==
  ASSUME NEW S, IsFiniteSet(S), NEW f, NEW g, Numbered(f, S), \A x \in S : g[x] = f[x]
  PROVE  SumFunctionOnSet(g, S) = SumFunctionOnSet(f, S)
<1>. DEFINE P == {T \in SUBSET S : SumFunctionOnSet(g, T) = SumFunctionOnSet(f, T)}
<1>1. ASSUME NEW T \in SUBSET S, \A x \in T : T \ {x} \in P PROVE T \in P
  <2>1. CASE T = {}
    BY <2>1, SumOfNothing
  <2>2. CASE T # {}
    <3>. DEFINE x == CHOOSE x \in T : TRUE
    <3>1. IsFiniteSet(T) /\ Numbered(f, T) /\ Numbered(g, T)
      BY FS_Subset DEF Numbered
    <3>2. /\ x \in T
          /\ SumFunctionOnSet(f, T) = f[x] + SumFunctionOnSet(f, T \ {x})
          /\ SumFunctionOnSet(g, T) = g[x] + SumFunctionOnSet(g, T \ {x})
      BY <2>2, <3>1, SumOfChosen
    <3>. QED
      BY <1>1, <3>2
  <2>. QED
    BY <2>1, <2>2
<1>. HIDE DEF P
<1>2. S \in P
  BY <1>1, TakingAway
<1>. QED
  BY <1>2 DEF P

\* Smaller values make no larger sum.
LEMMA SumAtMost ==
  ASSUME NEW S, IsFiniteSet(S), NEW f, NEW g, Numbered(f, S), Numbered(g, S),
         \A x \in S : g[x] <= f[x]
  PROVE  SumFunctionOnSet(g, S) <= SumFunctionOnSet(f, S)
<1>. DEFINE P == {T \in SUBSET S : SumFunctionOnSet(g, T) <= SumFunctionOnSet(f, T)}
<1>1. ASSUME NEW T \in SUBSET S, \A x \in T : T \ {x} \in P PROVE T \in P
  <2>1. CASE T = {}
    BY <2>1, SumOfNothing
  <2>2. CASE T # {}
    <3>. DEFINE x == CHOOSE x \in T : TRUE
                F == SumFunctionOnSet(f, T \ {x})
                G == SumFunctionOnSet(g, T \ {x})
    <3>1. IsFiniteSet(T) /\ Numbered(f, T) /\ Numbered(g, T)
      BY FS_Subset DEF Numbered
    <3>2. x \in T /\ SumFunctionOnSet(f, T) = f[x] + F /\ SumFunctionOnSet(g, T) = g[x] + G
      BY <2>2, <3>1, SumOfChosen
    <3>. HIDE DEF x
    <3>3. T \ {x} \in SUBSET S /\ IsFiniteSet(T \ {x})
      BY FS_Subset
    <3>4. F \in Nat /\ G \in Nat /\ G <= F
      BY <1>1, <3>2, <3>3, SumIsNat DEF Numbered
    <3>5. f[x] \in Nat /\ g[x] \in Nat /\ g[x] <= f[x]
      BY <3>1, <3>2 DEF Numbered
    <3>. HIDE DEF F, G
    <3>6. g[x] + G <= f[x] + F
      BY <3>4, <3>5
    <3>. QED
      BY <3>2, <3>6
  <2>. QED
    BY <2>1, <2>2
<1>. HIDE DEF P
<1>2. S \in P
  BY <1>1, TakingAway
<1>. QED
  BY <1>2 DEF P

\* What is added to one value is added to the sum.
LEMMA SumAddedTo ==
  ASSUME NEW S, IsFiniteSet(S), NEW f, Numbered(f, S), NEW x \in S, NEW n \in Nat,
         NEW g, g[x] = f[x] + n, \A y \in S \ {x} : g[y] = f[y]
  PROVE  SumFunctionOnSet(g, S) = SumFunctionOnSet(f, S) + n
<1>1. IsFiniteSet(S \ {x}) /\ Numbered(f, S \ {x}) /\ f[x] \in Nat
  BY FS_Subset DEF Numbered
<1>2. Numbered(g, S)
  BY <1>1 DEF Numbered
<1>. DEFINE F == SumFunctionOnSet(f, S \ {x})
            G == SumFunctionOnSet(g, S \ {x})
<1>3. G = F /\ F \in Nat
  BY <1>1, SumSame, SumIsNat
<1>4. SumFunctionOnSet(f, S) = f[x] + F /\ SumFunctionOnSet(g, S) = g[x] + G
  BY <1>2, SumWithout
<1>. HIDE DEF F, G
<1>. QED
  BY <1>1, <1>3, <1>4

\* Zeros can be left out.
LEMMA SumOfPositive ==
  ASSUME NEW S, IsFiniteSet(S), NEW f, Numbered(f, S), NEW R \in SUBSET S,
         \A x \in S \ R : f[x] = 0
  PROVE  SumFunctionOnSet(f, R) = SumFunctionOnSet(f, S)
<1>. DEFINE Total(T) == SumFunctionOnSet(f, T)
            P == {T \in SUBSET S : Total(T \cap R) = Total(T)}
<1>0. \A T \in SUBSET S : IsFiniteSet(T) /\ Numbered(f, T) /\ Total(T) \in Nat
  BY FS_Subset, SumIsNat DEF Numbered
<1>1. \A T \in SUBSET S, x \in S : x \in T => Total(T) = f[x] + Total(T \ {x})
  BY <1>0, SumWithout
<1>2. Total({}) = 0
  BY SumOfNothing
<1>. HIDE DEF Total
<1>3. ASSUME NEW T \in SUBSET S, \A x \in T : T \ {x} \in P PROVE T \in P
  <2>1. CASE T = {}
    BY <2>1
  <2>2. CASE T # {}
    <3>. SUFFICES Total(T \cap R) = Total(T)
      OBVIOUS
    <3>1. PICK x \in T : TRUE
      BY <2>2
    <3>2. Total((T \ {x}) \cap R) = Total(T \ {x}) /\ Total(T) = f[x] + Total(T \ {x})
      BY <1>1, <1>3
    <3>3. CASE x \in R
      <4>1. (T \ {x}) \cap R = (T \cap R) \ {x}
        OBVIOUS
      <4>2. Total(T \cap R) = f[x] + Total((T \cap R) \ {x})
        BY <1>1, <3>3
      <4>. QED
        BY <3>2, <4>1, <4>2
    <3>4. CASE x \notin R
      <4>1. (T \ {x}) \cap R = T \cap R /\ f[x] = 0
        BY <3>4
      <4>2. Total(T \cap R) = Total(T \ {x})
        BY <3>2, <4>1
      <4>3. Total(T \ {x}) \in Nat
        BY <1>0
      <4>. QED
        BY <3>2, <4>1, <4>2, <4>3
    <3>. QED
      BY <3>3, <3>4
  <2>. QED
    BY <2>1, <2>2
<1>. HIDE DEF P
<1>4. S \in P
  BY <1>3, TakingAway
<1>5. S \cap R = R
  OBVIOUS
<1>. QED
  BY <1>4, <1>5 DEF P, Total

\* The sum over a set is that of the sums over its parts, the parts being the elements
\* that go into one slot.
Slots(slot, S) == {slot[x] : x \in S}
Part(slot, S, s) == {x \in S : slot[x] = s}
PartSums(f, slot, S) == [s \in Slots(slot, S) |-> SumFunctionOnSet(f, Part(slot, S, s))]

LEMMA SlotsAreFinite ==
  ASSUME NEW S, IsFiniteSet(S), NEW slot
  PROVE  IsFiniteSet(Slots(slot, S))
<1>. DEFINE h == [x \in S |-> slot[x]]
<1>1. h \in Surjection(S, Slots(slot, S))
  BY DEF Surjection, Slots
<1>. QED
  BY <1>1, FS_Surjection

LEMMA PartSumsAreNumbers ==
  ASSUME NEW S, IsFiniteSet(S), NEW f, Numbered(f, S), NEW slot
  PROVE  Numbered(PartSums(f, slot, S), Slots(slot, S))
<1>. SUFFICES ASSUME NEW s \in Slots(slot, S)
              PROVE  SumFunctionOnSet(f, Part(slot, S, s)) \in Nat
  BY DEF Numbered, PartSums
<1>1. IsFiniteSet(Part(slot, S, s)) /\ Numbered(f, Part(slot, S, s))
  BY FS_Subset DEF Part, Numbered
<1>. QED
  BY <1>1, SumIsNat

LEMMA SumOfParts ==
  ASSUME NEW S, IsFiniteSet(S), NEW f, Numbered(f, S), NEW slot
  PROVE  SumFunctionOnSet(PartSums(f, slot, S), Slots(slot, S)) = SumFunctionOnSet(f, S)
<1>. DEFINE Total(T) == SumFunctionOnSet(f, T)
            Whole(T) == SumFunctionOnSet(PartSums(f, slot, T), Slots(slot, T))
            P == {T \in SUBSET S : Whole(T) = Total(T)}
<1>0. \A T \in SUBSET S : IsFiniteSet(T) /\ Numbered(f, T) /\ Total(T) \in Nat
  BY FS_Subset, SumIsNat DEF Numbered
<1>1. ASSUME NEW T \in SUBSET S, \A x \in T : T \ {x} \in P PROVE T \in P
  <2>1. CASE T = {}
    <3>1. Slots(slot, T) = {}
      BY <2>1 DEF Slots
    <3>. QED
      BY <2>1, <3>1, SumOfNothing
  <2>2. CASE T # {}
    <3>1. PICK x \in T : TRUE
      BY <2>2
    <3>. DEFINE U == T \ {x}
                s == slot[x]
                g == PartSums(f, slot, T)
                h == PartSums(f, slot, U)
                Others == Slots(slot, T) \ {s}
                rest == SumFunctionOnSet(g, Others)
                part == Total(Part(slot, U, s))
    <3>2. U \in SUBSET S /\ Part(slot, U, s) \in SUBSET S
      BY DEF Part
    <3>3. s \in Slots(slot, T) /\ Others = Slots(slot, U) \ {s}
      BY DEF Slots
    <3>4. IsFiniteSet(Slots(slot, T)) /\ IsFiniteSet(Slots(slot, U)) /\ IsFiniteSet(Others)
      BY <1>0, <3>2, SlotsAreFinite, FS_Subset
    <3>5. Numbered(g, Slots(slot, T)) /\ Numbered(h, Slots(slot, U))
      BY <1>0, <3>2, PartSumsAreNumbers
    <3>6. Numbered(g, Others)
      BY <3>5 DEF Numbered
    <3>7. Total(Part(slot, T, s)) = f[x] + part
      <4>1. x \in Part(slot, T, s) /\ Part(slot, T, s) \ {x} = Part(slot, U, s)
        BY DEF Part
      <4>2. IsFiniteSet(Part(slot, T, s)) /\ Numbered(f, Part(slot, T, s))
        <5>1. Part(slot, T, s) \in SUBSET S
          BY DEF Part
        <5>. QED
          BY <1>0, <5>1
      <4>3. Total(Part(slot, T, s)) = f[x] + Total(Part(slot, T, s) \ {x})
        BY <4>1, <4>2, SumWithout
      <4>. QED
        BY <4>1, <4>3
    <3>8. Whole(T) = (f[x] + part) + rest
      <4>1. g[s] = Total(Part(slot, T, s))
        BY <3>3 DEF PartSums
      <4>. QED
        BY <3>3, <3>4, <3>5, <3>7, <4>1, SumWithout
    <3>9. Whole(U) = part + rest
      <4>1. \A r \in Others : h[r] = g[r]
        <5>1. \A r \in Others : Part(slot, U, r) = Part(slot, T, r)
          BY DEF Part
        <5>. QED
          BY <3>3, <5>1 DEF PartSums
      <4>2. SumFunctionOnSet(h, Others) = rest
        BY <3>4, <3>6, <4>1, SumSame
      <4>3. CASE s \in Slots(slot, U)
        <5>1. h[s] = part
          BY <4>3 DEF PartSums
        <5>2. Whole(U) = h[s] + SumFunctionOnSet(h, Slots(slot, U) \ {s})
          BY <3>4, <3>5, <4>3, SumWithout
        <5>. QED
          BY <3>3, <4>2, <5>1, <5>2
      <4>4. CASE s \notin Slots(slot, U)
        <5>1. Slots(slot, U) = Others /\ Part(slot, U, s) = {}
          BY <3>3, <4>4 DEF Slots, Part
        <5>2. part = 0 /\ rest \in Nat
          BY <3>4, <3>6, <5>1, SumOfNothing, SumIsNat
        <5>3. Whole(U) = rest
          BY <4>2, <5>1
        <5>. HIDE DEF part, rest, Whole
        <5>. QED
          BY <5>2, <5>3
      <4>. QED
        BY <4>3, <4>4
    <3>10. Total(T) = f[x] + Total(U)
      BY <1>0, SumWithout
    <3>11. f[x] \in Nat /\ part \in Nat /\ rest \in Nat /\ Total(U) \in Nat
      BY <1>0, <3>2, <3>4, <3>6, SumIsNat DEF Numbered
    <3>12. Whole(U) = Total(U)
      BY <1>1
    <3>. HIDE DEF Total, Whole, part, rest, U
    <3>13. Whole(T) = Total(T)
      BY <3>8, <3>9, <3>10, <3>11, <3>12
    <3>. QED
      BY <3>13
  <2>. QED
    BY <2>1, <2>2
<1>. HIDE DEF P
<1>2. S \in P
  BY <1>1, TakingAway
<1>. QED
  BY <1>2 DEF P

--------------------------------------------------------------------------------
(* Traffic.                                                                *)

\* What the conservation of traffic needs: a response is there only while it is being
\* recorded, whoever is going or gone is known to lose traffic, whoever is not there yet
\* has none, and nothing is recorded ahead of the clock.
Underway == \A u \in User : resp[u] # 0 => at \in {"drained", "adding"}
Doomed == \A u \in User : acct[u].state = "gone" \/ u \in deleting => u \in lossy
Silent == \A u \in User : acct[u].state = "new" => u \notin live /\ counter[u] = 0 /\ resp[u] = 0
Ahead == \A u \in User, h \in Hours : h > hour => rows[u][h] = 0

MeterInv == Underway /\ Doomed /\ Silent /\ Ahead

LEMMA HoursAreNumbers ==
  /\ IsFiniteSet(Hours) /\ Hours \subseteq Nat
  /\ {h \in Hours : h >= 0} = Hours
<1>1. LastHour \in Nat
  BY CollectorAssumption
<1>. QED
  BY <1>1, FS_Interval DEF Hours

LEMMA BucketsAreNumbers ==
  ASSUME NEW f \in [Hours -> Nat], NEW S \in SUBSET Hours
  PROVE  IsFiniteSet(S) /\ Numbered(f, S) /\ SumFunctionOnSet(f, S) \in Nat
<1>1. IsFiniteSet(S) /\ Numbered(f, S)
  BY HoursAreNumbers, FS_Subset DEF Numbered
<1>. QED
  BY <1>1, SumIsNat

Total(f) == SumFunctionOnSet(f, Hours)

LEMMA TotalIsNat == ASSUME NEW f \in [Hours -> Nat] PROVE Total(f) \in Nat
BY BucketsAreNumbers DEF Total

LEMMA TotalIsUsed == \A u \in User : Used(u, 0) = Total(rows[u])
BY HoursAreNumbers DEF Used, Total

LEMMA TotalIsUsedNext == \A u \in User : Used(u, 0)' = Total(rows'[u])
BY HoursAreNumbers DEF Used, Total

LEMMA TotalShrinks ==
  ASSUME NEW f \in [Hours -> Nat], NEW g \in [Hours -> Nat], \A h \in Hours : g[h] <= f[h]
  PROVE  Total(g) <= Total(f)
BY BucketsAreNumbers, SumAtMost DEF Total

LEMMA TotalGrows ==
  ASSUME NEW f \in [Hours -> Nat], NEW h \in Hours, NEW n \in Nat
  PROVE  Total([f EXCEPT ![h] = @ + n]) = Total(f) + n
<1>. DEFINE g == [f EXCEPT ![h] = @ + n]
<1>1. g[h] = f[h] + n /\ \A k \in Hours \ {h} : g[k] = f[k]
  OBVIOUS
<1>2. IsFiniteSet(Hours) /\ Numbered(f, Hours)
  BY BucketsAreNumbers
<1>. HIDE DEF g
<1>3. Total(g) = Total(f) + n
  BY <1>1, <1>2, SumAddedTo DEF Total
<1>. QED
  BY <1>3 DEF g

\* The mapping, point by point.
LEMMA Mapped ==
  ASSUME TypeOK, TypeOK', NEW u \in User
  PROVE  /\ Pending[u] = counter[u] + resp[u] /\ Pending'[u] = counter'[u] + resp'[u]
         /\ Booked[u] = Total(rows[u]) /\ Booked'[u] = Total(rows'[u])
         /\ Pending[u] \in Nat /\ Pending'[u] \in Nat /\ Booked[u] \in Nat /\ Booked'[u] \in Nat
         /\ sent[u] \in Nat /\ rows[u] \in [Hours -> Nat] /\ rows'[u] \in [Hours -> Nat]
         /\ counter[u] \in Nat /\ resp[u] \in Nat /\ counter'[u] \in Nat /\ resp'[u] \in Nat
<1>1. /\ rows[u] \in [Hours -> Nat] /\ rows'[u] \in [Hours -> Nat]
      /\ counter[u] \in Nat /\ resp[u] \in Nat /\ counter'[u] \in Nat /\ resp'[u] \in Nat
      /\ sent[u] \in Nat
  BY DEF TypeOK
<1>2. Pending[u] = counter[u] + resp[u] /\ Pending'[u] = counter'[u] + resp'[u]
  BY DEF Pending
<1>3. Booked[u] = Total(rows[u]) /\ Booked'[u] = Total(rows'[u])
  BY TotalIsUsed, TotalIsUsedNext DEF Booked
<1>. QED
  BY <1>1, <1>2, <1>3, TotalIsNat

\* Steps that leave the traffic where it is ...
LEMMA MeterRests ==
  ASSUME UNCHANGED <<sent, counter, resp, rows, lossy>>
  PROVE  UNCHANGED Promise!meterVars
BY DEF Promise!meterVars, Pending, Booked, Used

\* ... and steps that lose some of it.
LEMMA MeterLoses ==
  ASSUME TypeOK, TypeOK', sent' = sent, lossy \subseteq lossy',
         \A u \in User : counter'[u] + resp'[u] <= counter[u] + resp[u],
         \A u \in User, h \in Hours : rows'[u][h] <= rows[u][h],
         \A u \in User : u \in lossy' \/ (/\ counter'[u] + resp'[u] = counter[u] + resp[u]
                                          /\ rows'[u] = rows[u])
  PROVE  Promise!Lose
<1>1. ASSUME NEW u \in User
      PROVE  /\ Pending'[u] <= Pending[u] /\ Booked'[u] <= Booked[u]
             /\ u \in lossy' \/ (Pending'[u] = Pending[u] /\ Booked'[u] = Booked[u])
  BY Mapped, TotalShrinks
<1>. QED
  BY <1>1 DEF Promise!Lose

\* sing-box is made again and its counters are gone.
LEMMA MeterRecreated ==
  ASSUME TypeOK, TypeOK', Recreated, UNCHANGED <<sent, resp, rows>>
  PROVE  Promise!Lose
<1>1. \A u \in User : counter'[u] = 0 /\ counter[u] \in Nat /\ resp[u] \in Nat
  BY NothingIsTyped DEF Recreated, TypeOK
<1>2. \A u \in User : u \in lossy' \/ counter'[u] = counter[u]
  BY <1>1 DEF Recreated, Counting
<1>3. \A u \in User : counter'[u] + resp'[u] <= counter[u] + resp[u]
  BY <1>1
<1>4. \A u \in User, h \in Hours : rows'[u][h] <= rows[u][h]
  BY DEF TypeOK
<1>5. lossy \subseteq lossy'
  BY DEF Recreated
<1>. QED
  BY <1>2, <1>3, <1>4, <1>5, MeterLoses

LEMMA HandlerMeter ==
  ASSUME TypeOK, TypeOK', NEW u \in User, HandlerStep(u) \/ DeleteEnds(u)
  PROVE  Promise!Lose \/ UNCHANGED Promise!meterVars
<1>. USE DEF collVars, proxyVars, ghosts
<1>1. CASE DeleteUsage(u)
  <2>1. /\ UNCHANGED <<sent, counter, resp>> /\ lossy' = lossy \cup {u}
        /\ rows' = [rows EXCEPT ![u] = NoRows]
    BY <1>1 DEF DeleteUsage
  <2>2. \A v \in User, h \in Hours : rows'[v][h] <= rows[v][h]
    <3>. SUFFICES ASSUME NEW v \in User, NEW h \in Hours PROVE rows'[v][h] <= rows[v][h]
      OBVIOUS
    <3>1. rows[v][h] \in Nat /\ rows'[v][h] \in {0, rows[v][h]}
      BY <2>1 DEF TypeOK, NoRows
    <3>. QED
      BY <3>1
  <2>3. \A v \in User : v \in lossy' \/ rows'[v] = rows[v]
    BY <2>1 DEF TypeOK
  <2>4. \A v \in User : counter[v] + resp[v] \in Nat
    BY Mapped
  <2>. QED
    BY <2>1, <2>2, <2>3, <2>4, MeterLoses
<1>2. CASE ~DeleteUsage(u)
  <2>1. UNCHANGED <<sent, counter, resp, rows, lossy>>
    BY <1>2 DEF HandlerStep, DeleteEnds, Create, Disable, Enable, SetLimits, ResetUsage,
       DeleteUser, DeleteUserFails, userVars
  <2>. QED
    BY <2>1, MeterRests
<1>. QED
  BY <1>1, <1>2

LEMMA CollectorMeter ==
  ASSUME TypeOK, TypeOK', MeterInv, CollectorStep
  PROVE  Promise!Book \/ Promise!Lose \/ UNCHANGED Promise!meterVars
<1>. USE DEF userVars, proxyVars, ghosts
<1>0. \A u \in User : counter[u] \in Nat /\ resp[u] \in Nat /\ counter[u] + resp[u] \in Nat
  BY Mapped
<1>1. CASE Drain
  <2>1. \A u \in User : counter'[u] = 0 /\ resp'[u] = counter[u] /\ resp[u] = 0
    BY <1>1, NothingIsTyped DEF Drain, MeterInv, Underway
  <2>2. Pending' = Pending
    BY <1>0, <2>1 DEF Pending
  <2>3. Booked' = Booked
    BY <1>1 DEF Drain, Booked, Used
  <2>. QED
    BY <1>1, <2>2, <2>3 DEF Drain, Promise!meterVars
<1>2. CASE DrainFails \/ Reloads
  BY <1>2, MeterRecreated DEF DrainFails, Reloads, Publish, collVars
<1>3. CASE ListKnown
  <2>1. UNCHANGED <<sent, counter, rows, lossy>>
    BY <1>3 DEF ListKnown
  <2>2. ASSUME NEW u \in User
        PROVE resp'[u] = resp[u] \/ (resp'[u] = 0 /\ u \in lossy)
    <3>1. CASE u \in Here
      BY <1>3, <3>1 DEF ListKnown
    <3>2. CASE u \notin Here
      <4>1. acct[u].state \in {"new", "gone"} /\ resp'[u] = 0
        BY <1>3, <3>2 DEF ListKnown, TypeOK, Account, Here
      <4>. QED
        BY <4>1 DEF MeterInv, Doomed, Silent
    <3>. QED
      BY <3>1, <3>2
  <2>3. \A u \in User : counter'[u] + resp'[u] <= counter[u] + resp[u]
    BY <1>0, <2>1, <2>2
  <2>4. \A u \in User, h \in Hours : rows'[u][h] <= rows[u][h]
    BY <2>1 DEF TypeOK
  <2>5. \A u \in User : u \in lossy' \/ counter'[u] + resp'[u] = counter[u] + resp[u]
    BY <2>1, <2>2
  <2>. QED
    BY <2>1, <2>3, <2>4, <2>5, MeterLoses
<1>4. CASE Add
  <2>1. /\ UNCHANGED <<sent, counter, lossy>>
        /\ \A u \in User : resp'[u] = 0 /\ rows'[u] = [rows[u] EXCEPT ![hour] = @ + resp[u]]
    BY <1>4, NothingIsTyped DEF Add
  <2>2. ASSUME NEW u \in User
        PROVE  Pending'[u] = counter[u] /\ Pending[u] = counter[u] + resp[u]
               /\ Booked'[u] = Booked[u] + resp[u]
    <3>1. rows[u] \in [Hours -> Nat] /\ hour \in Hours /\ resp[u] \in Nat /\ counter[u] \in Nat
      BY DEF TypeOK
    <3>2. Total([rows[u] EXCEPT ![hour] = @ + resp[u]]) = Total(rows[u]) + resp[u]
      BY <3>1, TotalGrows
    <3>3. Total(rows'[u]) = Total(rows[u]) + resp[u]
      BY <2>1, <3>2
    <3>4. counter'[u] + resp'[u] = counter[u]
      <4>1. counter'[u] = counter[u] /\ resp'[u] = 0
        BY <2>1
      <4>. QED
        BY <3>1, <4>1
    <3>5. /\ Pending[u] = counter[u] + resp[u] /\ Pending'[u] = counter'[u] + resp'[u]
          /\ Booked[u] = Total(rows[u]) /\ Booked'[u] = Total(rows'[u])
      BY Mapped
    <3>. QED
      BY <3>3, <3>4, <3>5
  <2>3. ASSUME NEW u \in User
        PROVE  Booked[u] <= Booked'[u] /\ Pending'[u] + Booked'[u] = Pending[u] + Booked[u]
    <3>1. counter[u] \in Nat /\ resp[u] \in Nat /\ Booked[u] \in Nat
      BY Mapped
    <3>. QED
      BY <2>2, <3>1
  <2>. QED
    BY <2>1, <2>3 DEF Promise!Book
<1>5. CASE AddFails
  <2>1. /\ UNCHANGED <<sent, counter, rows>> /\ lossy' = lossy \cup {u \in User : resp[u] > 0}
        /\ \A u \in User : resp'[u] = 0
    BY <1>5, NothingIsTyped DEF AddFails
  <2>2. \A u \in User : counter'[u] + resp'[u] <= counter[u] + resp[u]
    BY <1>0, <2>1
  <2>3. \A u \in User : u \in lossy' \/ resp'[u] = resp[u]
    BY <1>0, <2>1
  <2>4. \A u \in User, h \in Hours : rows'[u][h] <= rows[u][h]
    BY <2>1 DEF TypeOK
  <2>. QED
    BY <2>1, <2>2, <2>3, <2>4, MeterLoses
<1>6. CASE ExpiryTick \/ List \/ (\E u \in User : Check(u) \/ CheckFails(u))
  BY <1>6, MeterRests DEF ExpiryTick, List, Check, CheckFails
<1>7. CASE TurnOff \/ TurnOffFails \/ EndEnforce \/ ReloadFails
  BY <1>7, MeterRests DEF TurnOff, TurnOffFails, EndEnforce, ReloadFails
<1>8. CASE Prune
  <2>1. /\ UNCHANGED <<sent, counter, resp>>
        /\ lossy' = lossy \cup {u \in User : rows'[u] # rows[u]}
    BY <1>8 DEF Prune, collVars
  <2>2. ASSUME NEW u \in User, NEW h \in Hours PROVE rows'[u][h] <= rows[u][h]
    <3>1. rows[u][h] \in Nat /\ rows'[u][h] \in {0, rows[u][h]}
      BY <1>8 DEF Prune, TypeOK
    <3>. QED
      BY <3>1
  <2>. QED
    BY <1>0, <2>1, <2>2, MeterLoses
<1>. QED
  BY <1>1, <1>2, <1>3, <1>4, <1>5, <1>6, <1>7, <1>8 DEF CollectorStep

\* Each step is one of Meter or leaves all of it alone.
LEMMA NextPromise ==
  ASSUME TypeOK, TypeOK', MeterInv, [Next]_vars
  PROVE  [Promise!MeterNext]_(Promise!meterVars)
<1>. USE DEF userVars, proxyVars, collVars, ghosts
<1>1. ASSUME NEW u \in User, Traffic(u) PROVE Promise!Send(u)
  <2>1. /\ counter' = [counter EXCEPT ![u] = @ + 1] /\ sent' = [sent EXCEPT ![u] = @ + 1]
        /\ UNCHANGED <<resp, rows, lossy>>
    BY <1>1 DEF Traffic
  <2>2. Pending' = [Pending EXCEPT ![u] = @ + 1]
    <3>1. ASSUME NEW v \in User
          PROVE  Pending'[v] = IF v = u THEN Pending[v] + 1 ELSE Pending[v]
      <4>1. counter[v] \in Nat /\ resp[v] \in Nat
        BY DEF TypeOK
      <4>2. counter'[v] = IF v = u THEN counter[v] + 1 ELSE counter[v]
        BY <2>1 DEF TypeOK
      <4>. QED
        BY <2>1, <4>1, <4>2 DEF Pending
    <3>. QED
      BY <3>1 DEF Pending
  <2>3. Booked' = Booked
    BY <2>1 DEF Booked, Used
  <2>. QED
    BY <2>1, <2>2, <2>3 DEF Promise!Send
<1>2. CASE NextHour \/ UNCHANGED vars
  BY <1>2, MeterRests DEF NextHour, vars
<1>3. ASSUME NEW u \in User, HandlerStep(u) \/ DeleteEnds(u)
      PROVE  Promise!Lose \/ UNCHANGED Promise!meterVars
  BY <1>3, HandlerMeter
<1>4. CASE HandlerReloads \/ Restart
  BY <1>4, MeterRecreated DEF HandlerReloads, Restart, Publish, Promise!MeterNext
<1>5. CASE HandlerReloadFails
  BY <1>5, MeterRests DEF HandlerReloadFails
<1>6. CASE CollectorStep
  BY <1>6, CollectorMeter DEF Promise!MeterNext
<1>7. CASE Stop
  <2>1. /\ UNCHANGED <<sent, rows>>
        /\ lossy' = lossy \cup Counting \cup {u \in User : resp[u] > 0}
        /\ \A u \in User : counter'[u] = 0 /\ resp'[u] = 0
    BY <1>7, NothingIsTyped DEF Stop
  <2>2. \A u \in User : counter[u] \in Nat /\ resp[u] \in Nat
    BY DEF TypeOK
  <2>3. \A u \in User : counter'[u] + resp'[u] <= counter[u] + resp[u]
    BY <2>1, <2>2
  <2>4. \A u \in User : u \in lossy' \/ (counter'[u] = counter[u] /\ resp'[u] = resp[u])
    BY <2>1, <2>2 DEF Counting
  <2>5. \A u \in User, h \in Hours : rows'[u][h] <= rows[u][h]
    BY <2>1 DEF TypeOK
  <2>6. Promise!Lose
    BY <2>1, <2>3, <2>4, <2>5, MeterLoses
  <2>. QED
    BY <2>6 DEF Promise!MeterNext
<1>. QED
  BY <1>1, <1>2, <1>3, <1>4, <1>5, <1>6, <1>7 DEF Next, HandlerReload, Promise!MeterNext

LEMMA InitMeter == Init => MeterInv
<1>. SUFFICES ASSUME Init PROVE MeterInv
  OBVIOUS
<1>1. /\ resp = Nothing /\ counter = Nothing /\ live = Active /\ deleting = {}
      /\ \A u \in User, h \in Hours : rows[u][h] = 0
  BY DEF Init
<1>2. \A u \in User : acct[u].state \in {"new", "here"}
  BY DEF Init, Limited, Fresh
<1>3. \A u \in User : acct[u].state = "new" => u \notin Active
  BY DEF Active, Here
<1>. QED
  BY <1>1, <1>2, <1>3, NothingIsTyped DEF MeterInv, Underway, Doomed, Silent, Ahead

LEMMA ChangesKeep ==
  ASSUME TypeOK, NEW u \in User, Disable(u) \/ Enable(u) \/ SetLimits(u) \/ ResetUsage(u)
  PROVE  \E a : Changed(u, a) /\ a.state = "here"
<1>1. acct[u] \in Account /\ acct[u].state = "here"
  BY DEF Disable, Enable, SetLimits, ResetUsage, Here, TypeOK
<1>2. CASE Disable(u)
  <2>1. [acct[u] EXCEPT !.enabled = FALSE].state = "here"
    BY <1>1 DEF Account
  <2>. QED
    BY <1>2, <2>1 DEF Disable
<1>3. CASE Enable(u)
  <2>1. [acct[u] EXCEPT !.enabled = TRUE, !.reason = ""].state = "here"
    BY <1>1 DEF Account
  <2>. QED
    BY <1>3, <2>1 DEF Enable
<1>4. CASE SetLimits(u)
  <2>1. PICK limits \in Limits :
          Changed(u, [acct[u] EXCEPT !.quota = limits.quota, !.expires = limits.expires])
    BY <1>4 DEF SetLimits
  <2>2. [acct[u] EXCEPT !.quota = limits.quota, !.expires = limits.expires].state = "here"
    BY <1>1 DEF Account
  <2>. QED
    BY <2>1, <2>2
<1>5. CASE ResetUsage(u)
  <2>1. /\ [acct[u] EXCEPT !.window = hour, !.enabled = TRUE, !.reason = ""].state = "here"
        /\ [acct[u] EXCEPT !.window = hour].state = "here"
    BY <1>1 DEF Account
  <2>. QED
    BY <1>5, <2>1 DEF ResetUsage
<1>. QED
  BY <1>2, <1>3, <1>4, <1>5

\* A user who is not there yet has not been there before.
LEMMA NewIsNew ==
  ASSUME TypeOK, [Next]_vars, NEW v \in User, acct'[v].state = "new"
  PROVE  acct[v].state = "new"
<1>. USE DEF userVars
<1>1. ASSUME NEW u \in User, HandlerStep(u) \/ DeleteEnds(u) PROVE acct[v].state = "new"
  <2>1. ASSUME NEW a, Changed(u, a), a.state # "new" PROVE acct[v].state = "new"
    BY <2>1 DEF Changed, TypeOK
  <2>2. CASE Create(u)
    <3>1. PICK limits \in Limits : Changed(u, Limited(limits, hour))
      BY <2>2 DEF Create
    <3>2. Limited(limits, hour).state # "new"
      BY DEF Limited, Fresh
    <3>. QED
      BY <2>1, <3>1, <3>2
  <2>3. CASE Disable(u) \/ Enable(u) \/ SetLimits(u) \/ ResetUsage(u)
    BY <2>1, <2>3, ChangesKeep
  <2>4. CASE DeleteUser(u)
    BY <2>1, <2>4 DEF DeleteUser, Fresh
  <2>5. CASE DeleteUsage(u) \/ DeleteUserFails(u)
    BY <2>5 DEF DeleteUsage, DeleteUserFails
  <2>. QED
    BY <1>1, <2>2, <2>3, <2>4, <2>5 DEF HandlerStep, DeleteEnds
<1>2. CASE TurnOff
  <2>1. /\ acct' = [acct EXCEPT ![found].enabled = FALSE, ![found].reason = Reason]
        /\ acct[found] \in Account /\ acct[found].state = "here"
    BY <1>2 DEF TurnOff, Here, TypeOK
  <2>. QED
    BY <2>1 DEF TypeOK, Account
<1>3. CASE CollectorStep /\ ~TurnOff
  BY <1>3 DEF CollectorStep, Drain, DrainFails, ListKnown, Add, AddFails, ExpiryTick, List,
     Check, CheckFails, TurnOffFails, EndEnforce, Reloads, ReloadFails, Prune
<1>4. ASSUME NEW u \in User, Traffic(u) PROVE acct[v].state = "new"
  BY <1>4 DEF Traffic
<1>5. CASE NextHour \/ HandlerReload \/ Stop \/ Restart \/ UNCHANGED vars
  BY <1>5 DEF NextHour, HandlerReload, HandlerReloads, HandlerReloadFails, Stop, Restart, vars
<1>. QED
  BY <1>1, <1>2, <1>3, <1>4, <1>5 DEF Next

LEMMA NextUnderway == ASSUME TypeOK, Underway, [Next]_vars PROVE Underway'
<1>. USE DEF userVars, proxyVars, collVars, ghosts
<1>1. CASE UNCHANGED <<resp, at>>
  BY <1>1 DEF Underway
<1>2. CASE CollectorStep
  BY <1>2, NothingIsTyped DEF CollectorStep, Drain, DrainFails, ListKnown, Add, AddFails,
     ExpiryTick, List, Check, CheckFails, TurnOff, TurnOffFails, EndEnforce, Reloads,
     ReloadFails, Prune, Done, Underway
<1>3. CASE Stop \/ Restart
  BY <1>3, NothingIsTyped DEF Stop, Restart, Underway
<1>4. ASSUME NEW u \in User, HandlerStep(u) \/ DeleteEnds(u) PROVE UNCHANGED <<resp, at>>
  BY <1>4 DEF HandlerStep, DeleteEnds, Create, Disable, Enable, SetLimits, ResetUsage,
     DeleteUsage, DeleteUser, DeleteUserFails
<1>5. ASSUME NEW u \in User, Traffic(u) PROVE UNCHANGED <<resp, at>>
  BY <1>5 DEF Traffic
<1>6. CASE NextHour \/ HandlerReload \/ UNCHANGED vars
  BY <1>1, <1>6 DEF NextHour, HandlerReload, HandlerReloads, HandlerReloadFails, vars
<1>. QED
  BY <1>1, <1>2, <1>3, <1>4, <1>5, <1>6 DEF Next

LEMMA NextDoomed == ASSUME TypeOK, Doomed, [Next]_vars PROVE Doomed'
<1>. USE DEF userVars, proxyVars, collVars, ghosts
<1>1. ASSUME UNCHANGED acct, deleting' \subseteq deleting, lossy \subseteq lossy' PROVE Doomed'
  BY <1>1 DEF Doomed
<1>2. ASSUME NEW u \in User, HandlerStep(u) \/ DeleteEnds(u) PROVE Doomed'
  <2>1. CASE DeleteUsage(u)
    BY <2>1 DEF DeleteUsage, Doomed
  <2>2. CASE DeleteUserFails(u)
    BY <1>1, <2>2 DEF DeleteUserFails
  <2>3. CASE ~DeleteUsage(u) /\ ~DeleteUserFails(u)
    <3>1. UNCHANGED lossy /\ deleting' \subseteq deleting
      BY <1>2, <2>3 DEF HandlerStep, DeleteEnds, Create, Disable, Enable, SetLimits, ResetUsage,
         DeleteUser
    <3>2. \A v \in User : acct'[v].state = "gone" => acct[v].state = "gone" \/ v \in deleting
      <4>1. ASSUME NEW a, Changed(u, a), a.state # "gone" \/ u \in deleting
            PROVE  \A v \in User : acct'[v].state = "gone"
                                     => acct[v].state = "gone" \/ v \in deleting
        BY <4>1 DEF Changed, TypeOK
      <4>2. CASE Create(u)
        <5>1. PICK limits \in Limits : Changed(u, Limited(limits, hour))
          BY <4>2 DEF Create
        <5>2. Limited(limits, hour).state # "gone"
          BY DEF Limited, Fresh
        <5>. QED
          BY <4>1, <5>1, <5>2
      <4>3. CASE Disable(u) \/ Enable(u) \/ SetLimits(u) \/ ResetUsage(u)
        BY <4>1, <4>3, ChangesKeep
      <4>4. CASE DeleteUser(u)
        BY <4>1, <4>4 DEF DeleteUser
      <4>. QED
        BY <1>2, <2>3, <4>2, <4>3, <4>4 DEF HandlerStep, DeleteEnds
    <3>. QED
      BY <3>1, <3>2 DEF Doomed
  <2>. QED
    BY <2>1, <2>2, <2>3
<1>3. CASE TurnOff
  <2>1. /\ acct' = [acct EXCEPT ![found].enabled = FALSE, ![found].reason = Reason]
        /\ acct[found] \in Account /\ acct[found].state = "here"
        /\ UNCHANGED <<deleting, lossy>>
    BY <1>3 DEF TurnOff, Here, TypeOK
  <2>2. \A v \in User : acct'[v].state = acct[v].state
    BY <2>1 DEF TypeOK, Account
  <2>. QED
    BY <2>1, <2>2 DEF Doomed
<1>4. CASE CollectorStep /\ ~TurnOff
  BY <1>1, <1>4 DEF CollectorStep, Drain, DrainFails, ListKnown, Add, AddFails, ExpiryTick,
     List, Check, CheckFails, TurnOffFails, EndEnforce, Reloads, ReloadFails, Prune, Publish,
     Recreated
<1>5. ASSUME NEW u \in User, Traffic(u) PROVE Doomed'
  BY <1>1, <1>5 DEF Traffic
<1>6. CASE NextHour \/ HandlerReload \/ Stop \/ Restart \/ UNCHANGED vars
  BY <1>1, <1>6 DEF NextHour, HandlerReload, HandlerReloads, HandlerReloadFails, Stop, Restart,
     Publish, Recreated, vars
<1>. QED
  BY <1>2, <1>3, <1>4, <1>5, <1>6 DEF Next

LEMMA NextSilent == ASSUME TypeOK, TypeOK', Silent, [Next]_vars PROVE Silent'
<1>. USE DEF userVars, proxyVars, collVars, ghosts
<1>. SUFFICES ASSUME NEW v \in User, acct'[v].state = "new"
              PROVE  v \notin live' /\ counter'[v] = 0 /\ resp'[v] = 0
  BY DEF Silent
<1>1. v \notin live /\ counter[v] = 0 /\ resp[v] = 0 /\ v \notin Active'
  BY NewIsNew DEF Silent, Active, Here
<1>2. ASSUME NEW u \in User, HandlerStep(u) \/ DeleteEnds(u)
      PROVE  UNCHANGED <<live, counter, resp>>
  BY <1>2 DEF HandlerStep, DeleteEnds, Create, Disable, Enable, SetLimits, ResetUsage,
     DeleteUsage, DeleteUser, DeleteUserFails
<1>3. ASSUME NEW u \in User, Traffic(u)
      PROVE  v \notin live' /\ counter'[v] = 0 /\ resp'[v] = 0
  <2>1. counter' = [counter EXCEPT ![u] = @ + 1] /\ u # v /\ UNCHANGED <<live, resp>>
    BY <1>1, <1>3 DEF Traffic
  <2>. QED
    BY <1>1, <2>1 DEF TypeOK
<1>4. ASSUME Publish, UNCHANGED <<acct, rows, hour, resp>>
      PROVE  v \notin live' /\ counter'[v] = 0 /\ resp'[v] = 0
  <2>1. Active' = Active
    BY <1>4 DEF Active, Here, OverQuota, Used
  <2>. QED
    BY <1>1, <1>4, <2>1, NothingIsTyped DEF Publish, Recreated
<1>5. CASE HandlerReload \/ Restart \/ Reloads
  BY <1>1, <1>4, <1>5 DEF HandlerReload, HandlerReloads, HandlerReloadFails, Restart, Reloads
<1>6. CASE CollectorStep /\ ~Reloads
  BY <1>1, <1>6, NothingIsTyped DEF CollectorStep, Drain, DrainFails, ListKnown, Add, AddFails,
     ExpiryTick, List, Check, CheckFails, TurnOff, TurnOffFails, EndEnforce, ReloadFails,
     Prune, Recreated
<1>7. CASE NextHour \/ Stop \/ UNCHANGED vars
  BY <1>1, <1>7, NothingIsTyped DEF NextHour, Stop, vars
<1>. QED
  BY <1>1, <1>2, <1>3, <1>5, <1>6, <1>7 DEF Next

LEMMA NextAhead == ASSUME TypeOK, TypeOK', Ahead, [Next]_vars PROVE Ahead'
<1>. USE DEF userVars, proxyVars, collVars, ghosts
<1>0. hour \in Nat /\ Hours \subseteq Nat
  BY HoursAreNumbers DEF TypeOK
<1>1. CASE UNCHANGED <<rows, hour>>
  BY <1>1 DEF Ahead
<1>2. ASSUME NEW u \in User, HandlerStep(u) \/ DeleteEnds(u) PROVE Ahead'
  <2>1. CASE DeleteUsage(u)
    BY <2>1 DEF DeleteUsage, Ahead, NoRows, TypeOK
  <2>2. CASE ~DeleteUsage(u)
    BY <1>1, <1>2, <2>2 DEF HandlerStep, DeleteEnds, Create, Disable, Enable, SetLimits,
       ResetUsage, DeleteUser, DeleteUserFails
  <2>. QED
    BY <2>1, <2>2
<1>3. CASE Add
  <2>1. hour' = hour /\ \A u \in User : rows'[u] = [rows[u] EXCEPT ![hour] = @ + resp[u]]
    BY <1>3 DEF Add
  <2>2. \A u \in User, h \in Hours \ {hour} : rows'[u][h] = rows[u][h]
    BY <2>1 DEF TypeOK
  <2>3. ASSUME NEW u \in User, NEW h \in Hours, h > hour' PROVE rows'[u][h] = 0
    <3>1. h > hour /\ h \in Hours \ {hour}
      BY <1>0, <2>1, <2>3
    <3>. QED
      BY <2>2, <3>1 DEF Ahead
  <2>. QED
    BY <2>3 DEF Ahead
<1>4. CASE Prune
  <2>1. hour' = hour /\ \A u \in User, h \in Hours : rows'[u][h] \in {0, rows[u][h]}
    BY <1>4 DEF Prune
  <2>. QED
    BY <2>1 DEF Ahead
<1>5. CASE NextHour
  BY <1>0, <1>5 DEF NextHour, Ahead
<1>6. CASE CollectorStep /\ ~Add /\ ~Prune
  BY <1>1, <1>6 DEF CollectorStep, Drain, DrainFails, ListKnown, AddFails, ExpiryTick, List,
     Check, CheckFails, TurnOff, TurnOffFails, EndEnforce, Reloads, ReloadFails
<1>7. ASSUME NEW u \in User, Traffic(u) PROVE Ahead'
  BY <1>1, <1>7 DEF Traffic
<1>8. CASE HandlerReload \/ Stop \/ Restart \/ UNCHANGED vars
  BY <1>1, <1>8 DEF HandlerReload, HandlerReloads, HandlerReloadFails, Stop, Restart, vars
<1>. QED
  BY <1>2, <1>3, <1>4, <1>5, <1>6, <1>7, <1>8 DEF Next

LEMMA MeterInvariance == Spec => [](IInv /\ MeterInv)
<1>1. IInv /\ IInv' /\ MeterInv /\ [Next]_vars => MeterInv'
  BY NextUnderway, NextDoomed, NextSilent, NextAhead DEF IInv, MeterInv
<1>. QED
  BY InitMeter, <1>1, FullInvariance, PTL DEF Spec

LEMMA InitPromise == Init => Promise!MeterInit
<1>. SUFFICES ASSUME Init PROVE Promise!MeterInit
  OBVIOUS
<1>1. TypeOK /\ \A u \in User : counter[u] = 0 /\ resp[u] = 0 /\ rows[u] = NoRows
  BY InitIInv, NothingIsTyped DEF Init, IInv, NoRows
<1>2. Total(NoRows) = 0
  <2>1. \A h \in Hours \ {} : NoRows[h] = 0
    BY DEF NoRows
  <2>2. IsFiniteSet(Hours) /\ Numbered(NoRows, Hours)
    BY NoRowsIsTyped, BucketsAreNumbers
  <2>. QED
    BY <2>1, <2>2, SumOfNothing, SumOfPositive DEF Total
<1>3. Pending = Promise!Zero
  BY <1>1 DEF Pending, Promise!Zero
<1>4. Booked = Promise!Zero
  BY <1>1, <1>2, TotalIsUsed DEF Booked, Promise!Zero
<1>. QED
  BY <1>3, <1>4 DEF Init, Nothing, Promise!MeterInit, Promise!Zero

\* The collector implements Meter: through failures, restarts, deletions and prunes, traffic
\* is booked once and lost only where its loss is known.
THEOREM TrafficIsConserved == Spec => KeepsPromise
<1>1. IInv /\ IInv' /\ MeterInv /\ [Next]_vars => [Promise!MeterNext]_(Promise!meterVars)
  BY NextPromise DEF IInv
<1>. QED
  BY InitPromise, <1>1, MeterInvariance, PTL DEF Spec, KeepsPromise, Promise!MeterSpec

LEMMA InitBalanced == Promise!MeterInit => Promise!Balanced
BY DEF Promise!MeterInit, Promise!Balanced, Promise!Zero

LEMMA NextBalanced ==
  ASSUME TypeOK, TypeOK', Promise!Balanced, [Promise!MeterNext]_(Promise!meterVars)
  PROVE  Promise!Balanced'
<1>. SUFFICES ASSUME NEW u \in User
              PROVE  /\ Pending'[u] + Booked'[u] <= sent'[u]
                     /\ u \notin lossy' => Pending'[u] + Booked'[u] = sent'[u]
  BY DEF Promise!Balanced
<1>1. /\ Pending[u] \in Nat /\ Pending'[u] \in Nat /\ Booked[u] \in Nat /\ Booked'[u] \in Nat
      /\ sent[u] \in Nat /\ sent'[u] \in Nat
  BY Mapped DEF TypeOK
<1>2. /\ Pending[u] + Booked[u] <= sent[u]
      /\ u \notin lossy => Pending[u] + Booked[u] = sent[u]
  BY DEF Promise!Balanced
<1>3. ASSUME NEW v \in User, Promise!Send(v)
      PROVE  /\ Pending'[u] + Booked'[u] <= sent'[u]
             /\ u \notin lossy' => Pending'[u] + Booked'[u] = sent'[u]
  <2>1. Booked'[u] = Booked[u] /\ lossy' = lossy
    BY <1>3 DEF Promise!Send
  <2>2. \/ Pending'[u] = Pending[u] /\ sent'[u] = sent[u]
        \/ Pending'[u] = Pending[u] + 1 /\ sent'[u] = sent[u] + 1
    <3>1. u \in DOMAIN Pending /\ u \in DOMAIN sent
      BY DEF Pending, TypeOK
    <3>. QED
      BY <1>3, <3>1 DEF Promise!Send
  <2>. QED
    BY <1>1, <1>2, <2>1, <2>2
<1>4. CASE Promise!Book
  BY <1>1, <1>2, <1>4 DEF Promise!Book
<1>5. CASE Promise!Lose
  <2>1. /\ Pending'[u] <= Pending[u] /\ Booked'[u] <= Booked[u] /\ sent' = sent
        /\ u \in lossy' \/ (Pending'[u] = Pending[u] /\ Booked'[u] = Booked[u])
        /\ lossy \subseteq lossy'
    BY <1>5 DEF Promise!Lose
  <2>. QED
    BY <1>1, <1>2, <2>1
<1>6. CASE UNCHANGED Promise!meterVars
  BY <1>2, <1>6 DEF Promise!meterVars
<1>. QED
  BY <1>3, <1>4, <1>5, <1>6 DEF Promise!MeterNext

LEMMA Balance == Spec => [](IInv /\ MeterInv /\ Promise!Balanced)
<1>1. IInv /\ IInv' /\ MeterInv /\ Promise!Balanced /\ [Next]_vars => Promise!Balanced'
  BY NextPromise, NextBalanced DEF IInv
<1>. QED
  BY InitPromise, InitBalanced, <1>1, MeterInvariance, PTL DEF Spec

\* However the hours are cut into intervals, the graph from the hour of from on adds up to
\* what is counted from that hour on: none is left out and none is in two intervals.
LEMMA SeriesIsWhole ==
  ASSUME TypeOK, Ahead, NEW u \in User, NEW from \in Hours, NEW width
  PROVE  Sum(Series(u, from, hour, width)) = Used(u, from)
<1>. DEFINE slot == [h \in Hours |-> (h \div width) * width]
            shown == {h \in from .. hour : rows[u][h] > 0}
            counted == {h \in Hours : h >= from}
<1>1. rows[u] \in [Hours -> Nat] /\ hour \in Hours /\ LastHour \in Nat
  BY CollectorAssumption DEF TypeOK
<1>2. shown \in SUBSET counted /\ counted \in SUBSET Hours
  BY <1>1 DEF Hours
<1>3. shown \in SUBSET Hours
  BY <1>2
<1>4. Series(u, from, hour, width) = PartSums(rows[u], slot, shown)
  <2>1. \A h \in shown : slot[h] = (h \div width) * width
    BY <1>3
  <2>2. Slots(slot, shown) = {(h \div width) * width : h \in shown}
    BY <2>1 DEF Slots
  <2>3. \A s : Part(slot, shown, s) = {h \in shown : (h \div width) * width = s}
    BY <2>1 DEF Part
  <2>. HIDE DEF slot, shown
  <2>4. Series(u, from, hour, width)
          = [s \in {(h \div width) * width : h \in shown} |->
               SumFunctionOnSet(rows[u], {h \in shown : (h \div width) * width = s})]
    BY DEF Series, shown
  <2>. QED
    BY <2>2, <2>3, <2>4 DEF PartSums
<1>5. IsFiniteSet(shown) /\ Numbered(rows[u], shown)
      /\ IsFiniteSet(counted) /\ Numbered(rows[u], counted)
  BY <1>1, <1>2, <1>3, BucketsAreNumbers
<1>6. \A h \in counted \ shown : rows[u][h] = 0
  BY <1>1 DEF Ahead, Hours
<1>. HIDE DEF slot, shown, counted
<1>7. Sum(PartSums(rows[u], slot, shown)) = SumFunctionOnSet(rows[u], shown)
  <2>1. DOMAIN PartSums(rows[u], slot, shown) = Slots(slot, shown)
    BY DEF PartSums
  <2>. QED
    BY <1>5, <2>1, SumOfParts DEF Sum
<1>8. SumFunctionOnSet(rows[u], shown) = SumFunctionOnSet(rows[u], counted)
  BY <1>2, <1>5, <1>6, SumOfPositive
<1>. QED
  BY <1>4, <1>7, <1>8 DEF Used, counted

\* The store's history, the response under way and sing-box's counters never hold more
\* than was sent, and hold all of it unless some is known to be lost; and what the page
\* and the graph show is that, for any clock, intervals and quota window.
THEOREM TrafficIsMetered == Spec => []Metered
<1>1. ASSUME IInv, MeterInv, Promise!Balanced, NEW u \in User, NEW width \in 1 .. LastHour + 1
      PROVE  LET report == UsageReport(u, 0, hour, width)
                 counted == Sum(report.series) + resp[u] + counter[u]
             IN  /\ report.summary.total = Sum(report.series)
                 /\ counted <= sent[u]
                 /\ u \notin lossy => counted = sent[u]
                 /\ report.summary.window = Sum(Series(u, acct[u].window, hour, width))
  <2>. DEFINE report == UsageReport(u, 0, hour, width)
  <2>1. TypeOK /\ Ahead /\ acct[u] \in Account /\ rows[u] \in [Hours -> Nat]
        /\ counter[u] \in Nat /\ resp[u] \in Nat /\ sent[u] \in Nat
    BY <1>1 DEF IInv, MeterInv, TypeOK
  <2>2. 0 \in Hours /\ acct[u].window \in Hours
    <3>1. acct[u].window \in Hours
      BY <2>1 DEF Account
    <3>2. 0 \in Hours
      BY CollectorAssumption DEF Hours
    <3>. QED
      BY <3>1, <3>2
  <2>3. /\ report.series = Series(u, 0, hour, width)
        /\ report.summary.total = Used(u, 0)
        /\ report.summary.window = Used(u, acct[u].window)
    BY DEF UsageReport, Summary
  <2>4. /\ Sum(Series(u, 0, hour, width)) = Used(u, 0)
        /\ Sum(Series(u, acct[u].window, hour, width)) = Used(u, acct[u].window)
    BY <2>1, <2>2, SeriesIsWhole
  <2>5. Used(u, 0) \in Nat
    BY <2>1, TotalIsUsed, TotalIsNat
  <2>6. Pending[u] = counter[u] + resp[u] /\ Booked[u] = Used(u, 0)
    BY DEF Pending, Booked
  <2>7. /\ counter[u] + resp[u] + Used(u, 0) <= sent[u]
        /\ u \notin lossy => counter[u] + resp[u] + Used(u, 0) = sent[u]
    BY <1>1, <2>6 DEF Promise!Balanced
  <2>. HIDE DEF report
  <2>8. LET counted == Sum(report.series) + resp[u] + counter[u]
        IN  counted <= sent[u] /\ (u \notin lossy => counted = sent[u])
    BY <2>1, <2>3, <2>4, <2>5, <2>7
  <2>. QED
    BY <2>3, <2>4, <2>8 DEF report
<1>2. IInv /\ MeterInv /\ Promise!Balanced => Metered
  BY <1>1 DEF Metered
<1>. QED
  BY <1>2, Balance, PTL

\* A bucket that is not too old only grows, but for users whose usage is being deleted.
LEMMA BucketsGrow ==
  ASSUME TypeOK, TypeOK', [Next]_vars, NEW v \in User, v \notin deleting',
         NEW h \in Hours, h >= hour - Retention
  PROVE  rows[v][h] <= rows'[v][h]
<1>. USE DEF userVars, proxyVars, collVars, ghosts
<1>0. rows[v] \in [Hours -> Nat] /\ rows[v][h] \in Nat
      /\ rows'[v][h] \in Nat /\ resp[v] \in Nat
  BY DEF TypeOK
<1>1. CASE UNCHANGED rows
  BY <1>0, <1>1
<1>2. ASSUME NEW u \in User, HandlerStep(u) \/ DeleteEnds(u) PROVE rows[v][h] <= rows'[v][h]
  <2>1. CASE DeleteUsage(u)
    <3>1. u # v /\ rows' = [rows EXCEPT ![u] = NoRows]
      BY <2>1 DEF DeleteUsage
    <3>2. rows'[v] = rows[v]
      BY <3>1 DEF TypeOK
    <3>. QED
      BY <1>0, <3>2
  <2>2. CASE ~DeleteUsage(u)
    BY <1>1, <1>2, <2>2 DEF HandlerStep, DeleteEnds, Create, Disable, Enable, SetLimits,
       ResetUsage, DeleteUser, DeleteUserFails
  <2>. QED
    BY <2>1, <2>2
<1>3. CASE Add
  <2>1. rows'[v] = [rows[v] EXCEPT ![hour] = @ + resp[v]]
    BY <1>3 DEF Add
  <2>2. rows'[v][h] = rows[v][h] \/ rows'[v][h] = rows[v][h] + resp[v]
    BY <1>0, <2>1
  <2>. QED
    BY <1>0, <2>2
<1>4. CASE Prune
  <2>1. h \in Nat /\ hour \in Nat /\ Retention \in Nat
    BY HoursAreNumbers, CollectorAssumption DEF TypeOK
  <2>2. rows'[v][h] = IF h < hour - Retention THEN 0 ELSE rows[v][h]
    BY <1>4 DEF Prune
  <2>3. rows'[v][h] = rows[v][h]
    BY <2>1, <2>2
  <2>. QED
    BY <1>0, <2>3
<1>5. CASE CollectorStep /\ ~Add /\ ~Prune
  BY <1>1, <1>5 DEF CollectorStep, Drain, DrainFails, ListKnown, AddFails, ExpiryTick, List,
     Check, CheckFails, TurnOff, TurnOffFails, EndEnforce, Reloads, ReloadFails
<1>6. ASSUME NEW u \in User, Traffic(u) PROVE UNCHANGED rows
  BY <1>6 DEF Traffic
<1>7. CASE NextHour \/ HandlerReload \/ Stop \/ Restart \/ UNCHANGED vars
  BY <1>1, <1>7 DEF NextHour, HandlerReload, HandlerReloads, HandlerReloadFails, Stop, Restart,
     vars
<1>. QED
  BY <1>1, <1>2, <1>3, <1>4, <1>5, <1>6, <1>7 DEF Next

\* Nobody comes back under a quota they have used up without the operator: neither a
\* prune, a failed transaction nor a restart takes away what counts against it, as long as
\* the window is no older than the usage that is kept.
THEOREM OverStaysOver == Spec => QuotaHolds
<1>1. ASSUME TypeOK, TypeOK', [Next]_vars, NEW u \in Here \ deleting',
             OverQuota(u, acct[u].quota, acct[u].window), acct'[u] = acct[u],
             acct[u].window >= hour - Retention
      PROVE  OverQuota(u, acct[u].quota, acct[u].window)'
  <2>. DEFINE counted == {h \in Hours : h >= acct[u].window}
  <2>1. u \in User /\ rows[u] \in [Hours -> Nat] /\ rows'[u] \in [Hours -> Nat]
        /\ acct[u] \in Account
    BY <1>1 DEF Here, TypeOK
  <2>2. acct[u].quota \in Nat /\ acct[u].window \in Nat /\ hour \in Nat /\ Retention \in Nat
    BY <1>1, <2>1, HoursAreNumbers, CollectorAssumption DEF Account, TypeOK
  <2>3. \A h \in counted : rows[u][h] <= rows'[u][h]
    <3>1. \A h \in counted : h \in Hours /\ h >= hour - Retention
      BY <1>1, <2>2, HoursAreNumbers
    <3>. QED
      BY <1>1, <2>1, <3>1, BucketsGrow
  <2>4. /\ IsFiniteSet(counted) /\ Numbered(rows[u], counted) /\ Numbered(rows'[u], counted)
        /\ SumFunctionOnSet(rows[u], counted) \in Nat
        /\ SumFunctionOnSet(rows'[u], counted) \in Nat
    BY <2>1, BucketsAreNumbers
  <2>5. /\ Used(u, acct[u].window) = SumFunctionOnSet(rows[u], counted)
        /\ Used(u, acct[u].window)' = SumFunctionOnSet(rows'[u], counted)
    BY <1>1 DEF Used
  <2>. HIDE DEF counted
  <2>6. SumFunctionOnSet(rows[u], counted) <= SumFunctionOnSet(rows'[u], counted)
    BY <2>3, <2>4, SumAtMost
  <2>7. Used(u, acct[u].window)' >= acct[u].quota
    BY <1>1, <2>2, <2>4, <2>5, <2>6 DEF OverQuota
  <2>. QED
    BY <1>1, <2>7 DEF OverQuota
<1>2. IInv /\ IInv' /\ [Next]_vars
        => [\A u \in Here \ deleting' :
              OverQuota(u, acct[u].quota, acct[u].window) /\ acct'[u] = acct[u]
              /\ acct[u].window >= hour - Retention
                => OverQuota(u, acct[u].quota, acct[u].window)']_vars
  BY <1>1 DEF IInv
<1>. QED
  BY <1>2, FullInvariance, PTL DEF Spec, QuotaHolds

================================================================================
