------------------------------ MODULE Users_proofs -----------------------------
(***************************************************************************)
(* The user store is correct for any ids, names, UUIDs, tokens and dumps.   *)
(*                                                                         *)
(* Every operation ends in Save, and SaveKeeps says what a new list must    *)
(* have for the invariant to survive both a save and a failed one; a lemma  *)
(* per operation shows that its list has it.                                *)
(***************************************************************************)
EXTENDS Users, SequenceTheorems, WellFoundedInduction, TLAPS

\* What validateLoaded and the operations keep of a list, names aside.
Unique(l) ==
  \A i, j \in DOMAIN l :
    i # j => /\ l[i].id # l[j].id
             /\ l[i].uuid # l[j].uuid
             /\ l[i].token # None => l[i].token # l[j].token

NoneLacking(l) == \A i \in DOMAIN l : l[i].token # None

IInv ==
  /\ TypeOK
  /\ Unique(list)
  /\ up = "down" => list = <<>>
  /\ up = "up" => NoneLacking(list)
  /\ MemoryIsFile
  /\ dead \cap (TokensOf(list) \cup TokensOf(file)) = {}

--------------------------------------------------------------------------------
(* Lists.                                                                  *)

\* A set of positions that is not empty has a first one.
LEMMA FirstPosition ==
  ASSUME NEW S \in SUBSET Nat, S # {}
  PROVE  \E i \in S : \A j \in S : i <= j
<1>1. PICK i \in S : \A j \in S : ~(<<j, i>> \in OpToRel(<, Nat))
  BY NatLessThanWellFounded, WFMin
<1>2. \A j \in S : ~(j < i)
  BY <1>1 DEF OpToRel
<1>. QED
  BY <1>2

LEMMA EmptyList == <<>> \in Seq(User)
  OBVIOUS

LEMMA ListShape ==
  ASSUME NEW l \in Seq(User)
  PROVE  /\ DOMAIN l = 1 .. Len(l) /\ Len(l) \in Nat
         /\ \A i \in DOMAIN l : /\ l[i] \in User /\ i \in Nat
                                /\ l[i].id \in Id /\ l[i].name \in Text /\ l[i].uuid \in Uuid
                                /\ l[i].token \in Token \cup {None} /\ l[i].active \in BOOLEAN
<1>1. /\ DOMAIN l = 1 .. Len(l) /\ Len(l) \in Nat
      /\ \A i \in DOMAIN l : l[i] \in User /\ i \in Nat
  OBVIOUS
<1>. QED
  BY <1>1 DEF User

LEMMA AppendShape ==
  ASSUME NEW l \in Seq(User), NEW u \in User
  PROVE  /\ Append(l, u) \in Seq(User)
         /\ DOMAIN Append(l, u) = 1 .. Len(l) + 1
         /\ \A i \in DOMAIN l : Append(l, u)[i] = l[i]
         /\ Append(l, u)[Len(l) + 1] = u
  OBVIOUS

LEMMA ExceptShape ==
  ASSUME NEW l \in Seq(User), NEW i \in DOMAIN l, NEW u \in User
  PROVE  /\ [l EXCEPT ![i] = u] \in Seq(User)
         /\ DOMAIN [l EXCEPT ![i] = u] = DOMAIN l
         /\ \A j \in DOMAIN l : [l EXCEPT ![i] = u][j] = IF j = i THEN u ELSE l[j]
  OBVIOUS

LEMMA WithoutShape ==
  ASSUME NEW l \in Seq(User), NEW i \in DOMAIN l
  PROVE  /\ Without(l, i) \in Seq(User)
         /\ DOMAIN Without(l, i) = 1 .. Len(l) - 1
         /\ \A j \in 1 .. Len(l) - 1 : Without(l, i)[j] = IF j < i THEN l[j] ELSE l[j + 1]
<1>. DEFINE before == SubSeq(l, 1, i - 1)
            after == SubSeq(l, i + 1, Len(l))
<1>1. i \in 1 .. Len(l) /\ Len(l) \in Nat
  OBVIOUS
<1>2. /\ before \in Seq(User) /\ Len(before) = i - 1
      /\ \A j \in 1 .. i - 1 : before[j] = l[j]
  BY <1>1
<1>3. /\ after \in Seq(User) /\ Len(after) = Len(l) - i
      /\ \A j \in 1 .. Len(l) - i : after[j] = l[i + j]
  BY <1>1
<1>4. /\ before \o after \in Seq(User)
      /\ Len(before \o after) = Len(l) - 1
      /\ \A j \in 1 .. Len(l) - 1 :
           (before \o after)[j] = IF j <= i - 1 THEN before[j] ELSE after[j - (i - 1)]
  <2>. HIDE DEF before, after
  <2>1. /\ before \o after \in Seq(User)
        /\ Len(before \o after) = Len(before) + Len(after)
        /\ \A j \in 1 .. Len(before) + Len(after) :
             (before \o after)[j] = IF j <= Len(before) THEN before[j] ELSE after[j - Len(before)]
    BY <1>2, <1>3, ConcatProperties
  <2>2. Len(before) + Len(after) = Len(l) - 1
    BY <1>1, <1>2, <1>3
  <2>. QED
    BY <1>2, <2>1, <2>2
<1>5. \A j \in 1 .. Len(l) - 1 :
        (before \o after)[j] = IF j < i THEN l[j] ELSE l[j + 1]
  <2>. HIDE DEF before, after
  <2>1. TAKE j \in 1 .. Len(l) - 1
  <2>2. CASE j < i
    BY <1>1, <1>2, <1>4, <2>2
  <2>3. CASE j >= i
    <3>1. j - (i - 1) \in 1 .. Len(l) - i /\ i + (j - (i - 1)) = j + 1
      BY <1>1, <2>3
    <3>2. (before \o after)[j] = after[j - (i - 1)]
      BY <1>1, <1>4, <2>3
    <3>3. after[j - (i - 1)] = l[j + 1]
      BY <1>3, <3>1
    <3>. QED
      BY <1>1, <2>3, <3>2, <3>3
  <2>4. j < i \/ j >= i
    <3>1. i \in Int /\ j \in Int
      BY <1>1
    <3>. QED
      BY <3>1
  <2>. QED
    BY <2>2, <2>3, <2>4
<1>6. Without(l, i) = before \o after
  BY DEF Without
<1>7. DOMAIN (before \o after) = 1 .. Len(l) - 1
  <2>. HIDE DEF before, after
  <2>. QED
    BY <1>4
<1>. QED
  <2>. HIDE DEF before, after
  <2>. QED
    BY <1>4, <1>5, <1>6, <1>7

LEMMA FilledShape ==
  ASSUME NEW l \in Seq(User), NEW tokens \in Injection(Lacking(l), FreshToken)
  PROVE  /\ Filled(l, tokens) \in Seq(User)
         /\ DOMAIN Filled(l, tokens) = DOMAIN l
         /\ \A i \in DOMAIN l :
              /\ Filled(l, tokens)[i].id = l[i].id /\ Filled(l, tokens)[i].uuid = l[i].uuid
              /\ Filled(l, tokens)[i].name = l[i].name
              /\ Filled(l, tokens)[i].token \in Token
              /\ IF i \in Lacking(l) THEN Filled(l, tokens)[i].token = tokens[i]
                                     ELSE Filled(l, tokens)[i].token = l[i].token
         /\ \A i \in Lacking(l) : tokens[i] \in FreshToken
         /\ \A i, j \in Lacking(l) : tokens[i] = tokens[j] => i = j
<1>1. /\ \A i \in Lacking(l) : tokens[i] \in FreshToken
      /\ \A i, j \in Lacking(l) : tokens[i] = tokens[j] => i = j
  BY DEF Injection, IsInjective
<1>2. FreshToken \subseteq Token
  BY DEF FreshToken
<1>3. \A i \in DOMAIN l : Filled(l, tokens)[i] =
        IF i \in Lacking(l) THEN [l[i] EXCEPT !.token = tokens[i]] ELSE l[i]
  BY DEF Filled
<1>4. \A i \in DOMAIN l :
        /\ Filled(l, tokens)[i] \in User
        /\ Filled(l, tokens)[i].id = l[i].id /\ Filled(l, tokens)[i].uuid = l[i].uuid
        /\ Filled(l, tokens)[i].name = l[i].name
        /\ Filled(l, tokens)[i].token \in Token
        /\ IF i \in Lacking(l) THEN Filled(l, tokens)[i].token = tokens[i]
                               ELSE Filled(l, tokens)[i].token = l[i].token
  <2>1. TAKE i \in DOMAIN l
  <2>2. l[i] \in User
    BY ListShape
  <2>3. CASE i \in Lacking(l)
    <3>1. tokens[i] \in Token
      BY <1>1, <1>2, <2>3
    <3>. QED
      BY <1>3, <2>2, <2>3, <3>1 DEF User
  <2>4. CASE i \notin Lacking(l)
    BY <1>3, <2>2, <2>4 DEF User, Lacking
  <2>. QED
    BY <2>3, <2>4
<1>5. DOMAIN Filled(l, tokens) = 1 .. Len(l) /\ Len(l) \in Nat
  BY ListShape DEF Filled
<1>6. Filled(l, tokens) = [i \in 1 .. Len(l) |-> Filled(l, tokens)[i]]
  BY <1>5 DEF Filled
<1>7. Filled(l, tokens) \in Seq(User)
  <2>. DEFINE g == Filled(l, tokens)
  <2>1. g \in [1 .. Len(l) -> User]
    BY <1>4, <1>5, <1>6, ListShape
  <2>. QED
    BY <1>5, <2>1
<1>. QED
  BY <1>1, <1>4, <1>5, <1>7, ListShape

--------------------------------------------------------------------------------
(* Saves.                                                                  *)

LEMMA NoneIsNoToken == None \notin Token
  BY UsersAssumption

LEMMA InitIInv == Init => IInv
<1>. SUFFICES ASSUME Init PROVE IInv
  OBVIOUS
<1>1. TypeOK /\ MemoryIsFile /\ list = <<>> /\ up = "down"
  <2>1. /\ file = <<>> /\ list = <<>> /\ read = <<>> /\ dead = {}
        /\ up = "down" /\ cli = "closed" /\ unread = FALSE
    BY DEF Init
  <2>. QED
    BY <2>1, EmptyList DEF TypeOK, MemoryIsFile
<1>2. Unique(list)
  BY <1>1 DEF Unique
<1>3. dead = {}
  BY DEF Init
<1>. QED
  BY <1>1, <1>2, <1>3 DEF IInv

\* A save of a list that keeps the rules, and a failed one, keep the invariant.
LEMMA SaveKeeps ==
  ASSUME IInv, up = "up", NEW new \in Seq(User), NEW gone \in SUBSET Token,
         Unique(new), NoneLacking(new),
         (dead \cup gone) \cap TokensOf(new) = {},
         Save(new, gone)
  PROVE  IInv'
<1>1. CASE list' = new /\ file' = new /\ unread' = FALSE /\ dead' = dead \cup gone
  <2>1. up' = up /\ cli' = cli /\ read' = read
    BY DEF Save, cliVars
  <2>2. TypeOK'
    BY <1>1, <2>1 DEF IInv, TypeOK
  <2>3. Unique(list)' /\ NoneLacking(list)'
    BY <1>1 DEF Unique, NoneLacking
  <2>4. (dead \cap (TokensOf(list) \cup TokensOf(file)))' = {}
    BY <1>1 DEF TokensOf
  <2>. QED
    BY <1>1, <2>1, <2>2, <2>3, <2>4 DEF IInv, MemoryIsFile
<1>2. CASE UNCHANGED <<list, file, unread, dead>>
  BY <1>2 DEF Save, cliVars, IInv, TypeOK, Unique, NoneLacking, MemoryIsFile, TokensOf
<1>. QED
  BY <1>1, <1>2 DEF Save

\* A list in which one user has changed, but not their id or token, keeps the rules if
\* their UUID is nobody else's.
LEMMA ChangedKeeps ==
  ASSUME IInv, up = "up", NEW i \in DOMAIN list, NEW u \in User,
         u.id = list[i].id, u.token = list[i].token,
         \A j \in DOMAIN list \ {i} : list[j].uuid # u.uuid
  PROVE  /\ Changed(i, u) \in Seq(User) /\ Unique(Changed(i, u)) /\ NoneLacking(Changed(i, u))
         /\ dead \cap TokensOf(Changed(i, u)) = {}
<1>1. /\ list \in Seq(User) /\ Unique(list) /\ NoneLacking(list)
      /\ dead \cap TokensOf(list) = {}
  BY DEF IInv, TypeOK
<1>2. /\ Changed(i, u) \in Seq(User) /\ DOMAIN Changed(i, u) = DOMAIN list
      /\ \A j \in DOMAIN list : Changed(i, u)[j] = IF j = i THEN u ELSE list[j]
  BY <1>1, ExceptShape DEF Changed
<1>3. Unique(Changed(i, u))
  BY <1>1, <1>2 DEF Unique
<1>4. NoneLacking(Changed(i, u))
  BY <1>1, <1>2 DEF NoneLacking
<1>5. TokensOf(Changed(i, u)) \subseteq TokensOf(list)
  BY <1>2 DEF TokensOf
<1>. QED
  BY <1>1, <1>2, <1>3, <1>4, <1>5

--------------------------------------------------------------------------------
(* The daemon's operations.                                                *)

LEMMA CreateKeeps ==
  ASSUME IInv, NEW name \in Text, NEW uuid \in Uuid, NEW active \in BOOLEAN,
         Create(name, uuid, active)
  PROVE  IInv'
<1>1. PICK id \in FreshId, token \in FreshToken :
        Save(Append(list, [id |-> id, name |-> name, uuid |-> uuid, token |-> token,
                           active |-> active]), {})
  BY DEF Create
<1>. DEFINE u == [id |-> id, name |-> name, uuid |-> uuid, token |-> token, active |-> active]
            new == Append(list, u)
<1>2. /\ list \in Seq(User) /\ Unique(list) /\ NoneLacking(list)
      /\ dead \cap TokensOf(list) = {} /\ up = "up"
  BY DEF IInv, TypeOK, Create
<1>3. /\ id \in Id /\ token \in Token /\ token # None /\ token \notin dead
      /\ \A i \in DOMAIN list : list[i].id # id /\ list[i].token # token
  BY NoneIsNoToken DEF FreshId, FreshToken, IdsOf, TokensOf
<1>4. u \in User /\ u.id = id /\ u.uuid = uuid /\ u.token = token
  BY <1>3 DEF User
<1>. HIDE DEF u
<1>5. /\ new \in Seq(User) /\ DOMAIN new = 1 .. Len(list) + 1
      /\ \A i \in DOMAIN list : new[i] = list[i]
      /\ new[Len(list) + 1] = u
      /\ DOMAIN list = 1 .. Len(list) /\ Len(list) \in Nat
  BY <1>2, <1>4, AppendShape, ListShape
<1>. HIDE DEF new
<1>6. \A i \in DOMAIN new : i \in DOMAIN list \/ i = Len(list) + 1
  BY <1>5
<1>7. \A i \in DOMAIN list : list[i].uuid # uuid
  BY DEF Create
<1>8. Unique(new)
  <2>1. SUFFICES ASSUME NEW i \in DOMAIN new, NEW j \in DOMAIN new, i # j
                 PROVE  /\ new[i].id # new[j].id /\ new[i].uuid # new[j].uuid
                        /\ new[i].token # None => new[i].token # new[j].token
    BY DEF Unique
  <2>2. CASE i \in DOMAIN list /\ j \in DOMAIN list
    BY <1>2, <1>5, <2>1, <2>2 DEF Unique
  <2>3. CASE i \in DOMAIN list /\ j = Len(list) + 1
    BY <1>3, <1>4, <1>5, <1>7, <2>3
  <2>4. CASE i = Len(list) + 1 /\ j \in DOMAIN list
    BY <1>3, <1>4, <1>5, <1>7, <2>4
  <2>. QED
    BY <1>6, <2>1, <2>2, <2>3, <2>4
<1>9. NoneLacking(new)
  BY <1>2, <1>3, <1>4, <1>5, <1>6 DEF NoneLacking
<1>10. dead \cap TokensOf(new) = {}
  BY <1>2, <1>3, <1>4, <1>5, <1>6 DEF TokensOf
<1>11. Save(new, {})
  BY <1>1 DEF new, u
<1>. QED
  BY <1>2, <1>5, <1>8, <1>9, <1>10, <1>11, SaveKeeps

LEMMA UpdateKeeps ==
  ASSUME IInv, NEW i \in DOMAIN list, NEW name \in Text \cup {None},
         NEW uuid \in Uuid \cup {None}, NEW active \in BOOLEAN,
         Update(i, name, uuid, active)
  PROVE  IInv'
<1>. DEFINE u == [list[i] EXCEPT !.name = IF name = None THEN @ ELSE Trim[name],
                                 !.uuid = IF uuid = None THEN @ ELSE uuid,
                                 !.active = active]
<1>1. up = "up" /\ list \in Seq(User) /\ Unique(list)
  BY DEF IInv, TypeOK, Update
<1>2. list[i] \in User
  BY <1>1, ListShape
<1>3. IF name = None THEN TRUE ELSE Trim[name] \in Text
  BY UsersAssumption DEF Update
<1>4. u \in User /\ u.id = list[i].id /\ u.token = list[i].token
  BY <1>2, <1>3 DEF User
<1>5. u.uuid = IF uuid = None THEN list[i].uuid ELSE uuid
  BY <1>2 DEF User
<1>6. \A j \in DOMAIN list \ {i} : list[j].uuid # u.uuid
  BY <1>1, <1>5 DEF Update, Unique
<1>7. Save(Changed(i, u), {})
  BY DEF Update
<1>. HIDE DEF u
<1>. QED
  BY <1>1, <1>4, <1>6, <1>7, ChangedKeeps, SaveKeeps

LEMMA ResetKeeps ==
  ASSUME IInv, NEW i \in DOMAIN list, ResetUsageWindow(i)
  PROVE  IInv'
<1>1. PICK active \in {list[i].active, TRUE} :
        Save(Changed(i, [list[i] EXCEPT !.active = active]), {})
  BY DEF ResetUsageWindow
<1>. DEFINE u == [list[i] EXCEPT !.active = active]
<1>2. up = "up" /\ list \in Seq(User) /\ Unique(list)
  BY DEF IInv, TypeOK, ResetUsageWindow
<1>3. list[i] \in User
  BY <1>2, ListShape
<1>4. u \in User /\ u.id = list[i].id /\ u.token = list[i].token /\ u.uuid = list[i].uuid
  BY <1>1, <1>3 DEF User
<1>. HIDE DEF u
<1>5. \A j \in DOMAIN list \ {i} : list[j].uuid # u.uuid
  BY <1>2, <1>4 DEF Unique
<1>6. Save(Changed(i, u), {})
  BY <1>1 DEF u
<1>. QED
  BY <1>2, <1>4, <1>5, <1>6, ChangedKeeps, SaveKeeps

LEMMA RotateKeeps ==
  ASSUME IInv, NEW i \in DOMAIN list, RotateSubToken(i)
  PROVE  IInv'
<1>1. PICK token \in FreshToken :
        Save(Changed(i, [list[i] EXCEPT !.token = token]), {list[i].token})
  BY DEF RotateSubToken
<1>. DEFINE u == [list[i] EXCEPT !.token = token]
            new == Changed(i, u)
<1>2. /\ up = "up" /\ list \in Seq(User) /\ Unique(list) /\ NoneLacking(list)
      /\ dead \cap TokensOf(list) = {}
  BY DEF IInv, TypeOK, RotateSubToken
<1>3. list[i] \in User /\ list[i].token \in Token
  BY <1>2, ListShape DEF NoneLacking
<1>4. /\ token \in Token /\ token # None /\ token \notin dead
      /\ \A j \in DOMAIN list : list[j].token # token
  BY NoneIsNoToken DEF FreshToken, TokensOf
<1>5. u \in User /\ u.id = list[i].id /\ u.token = token /\ u.uuid = list[i].uuid
  BY <1>3, <1>4 DEF User
<1>. HIDE DEF u
<1>6. /\ new \in Seq(User) /\ DOMAIN new = DOMAIN list
      /\ \A j \in DOMAIN list : new[j] = IF j = i THEN u ELSE list[j]
  BY <1>2, <1>5, ExceptShape DEF Changed
<1>7. Save(new, {list[i].token})
  BY <1>1 DEF u
<1>. HIDE DEF new
<1>8. Unique(new)
  BY <1>2, <1>4, <1>5, <1>6 DEF Unique
<1>9. NoneLacking(new)
  BY <1>2, <1>4, <1>5, <1>6 DEF NoneLacking
<1>10. (dead \cup {list[i].token}) \cap TokensOf(new) = {}
  BY <1>2, <1>3, <1>4, <1>5, <1>6 DEF TokensOf, Unique, NoneLacking
<1>. QED
  BY <1>2, <1>3, <1>6, <1>7, <1>8, <1>9, <1>10, SaveKeeps

LEMMA DeleteKeeps ==
  ASSUME IInv, NEW i \in DOMAIN list, Delete(i)
  PROVE  IInv'
<1>. DEFINE new == Without(list, i)
<1>1. /\ up = "up" /\ list \in Seq(User) /\ Unique(list) /\ NoneLacking(list)
      /\ dead \cap TokensOf(list) = {}
  BY DEF IInv, TypeOK, Delete
<1>2. list[i].token \in Token
  BY <1>1, ListShape DEF NoneLacking
<1>3. /\ new \in Seq(User) /\ DOMAIN new = 1 .. Len(list) - 1
      /\ \A j \in 1 .. Len(list) - 1 : new[j] = IF j < i THEN list[j] ELSE list[j + 1]
      /\ DOMAIN list = 1 .. Len(list) /\ Len(list) \in Nat
  BY <1>1, WithoutShape, ListShape
<1>4. Save(new, {list[i].token})
  BY DEF Delete
<1>. HIDE DEF new
<1>. DEFINE old(j) == IF j < i THEN j ELSE j + 1
<1>5. \A j \in DOMAIN new : old(j) \in DOMAIN list /\ old(j) # i /\ new[j] = list[old(j)]
  BY <1>3
<1>6. \A j, k \in DOMAIN new : j # k => old(j) # old(k)
  BY <1>3
<1>. HIDE DEF old
<1>7. Unique(new)
  BY <1>1, <1>5, <1>6 DEF Unique
<1>8. NoneLacking(new)
  BY <1>1, <1>5 DEF NoneLacking
<1>9. (dead \cup {list[i].token}) \cap TokensOf(new) = {}
  BY <1>1, <1>2, <1>5 DEF TokensOf, Unique, NoneLacking
<1>. QED
  BY <1>1, <1>2, <1>3, <1>4, <1>7, <1>8, <1>9, SaveKeeps

--------------------------------------------------------------------------------
(* Opening, commands and the editor.                                       *)

LEMMA OpenKeeps == ASSUME IInv, Open PROVE IInv'
<1>1. /\ list' = file /\ file' = file /\ unread' = FALSE /\ dead' = dead
      /\ cli' = cli /\ read' = read /\ Accepts(file)
      /\ up' = IF Lacking(file) = {} THEN "up" ELSE "filling"
  BY DEF Open, cliVars
<1>2. TypeOK' /\ MemoryIsFile' /\ up' # "down"
  BY <1>1 DEF IInv, TypeOK, MemoryIsFile
<1>3. Unique(list)'
  BY <1>1 DEF Unique, Accepts
<1>4. up' = "up" => NoneLacking(list)'
  BY <1>1 DEF Lacking, NoneLacking
<1>5. (dead \cap (TokensOf(list) \cup TokensOf(file)))' = {}
  BY <1>1 DEF IInv, TokensOf
<1>. QED
  BY <1>2, <1>3, <1>4, <1>5 DEF IInv

LEMMA BackfillKeeps == ASSUME IInv, BackfillSubTokens PROVE IInv'
<1>1. PICK tokens \in Injection(Lacking(list), FreshToken) :
        list' = Filled(list, tokens) /\ file' = Filled(list, tokens)
  BY DEF BackfillSubTokens
<1>. DEFINE new == Filled(list, tokens)
<1>2. /\ list \in Seq(User) /\ Unique(list) /\ dead \cap TokensOf(list) = {}
      /\ unread' = FALSE /\ up' = "up" /\ cli' = cli /\ read' = read /\ dead' = dead
  BY DEF IInv, TypeOK, BackfillSubTokens, cliVars
<1>3. /\ new \in Seq(User) /\ DOMAIN new = DOMAIN list
      /\ \A i \in DOMAIN list :
           /\ new[i].id = list[i].id /\ new[i].uuid = list[i].uuid /\ new[i].token \in Token
           /\ IF i \in Lacking(list) THEN new[i].token = tokens[i]
                                    ELSE new[i].token = list[i].token
      /\ \A i \in Lacking(list) : tokens[i] \in FreshToken
      /\ \A i, j \in Lacking(list) : tokens[i] = tokens[j] => i = j
  BY <1>2, FilledShape
<1>4. \A t \in FreshToken : t \notin dead /\ \A i \in DOMAIN list : list[i].token # t
  BY NoneIsNoToken DEF FreshToken, TokensOf
<1>5. list' = new /\ file' = new
  BY <1>1
<1>. HIDE DEF new
<1>6. Unique(new)
  <2>1. SUFFICES ASSUME NEW i \in DOMAIN list, NEW j \in DOMAIN list, i # j
                 PROVE  /\ new[i].id # new[j].id /\ new[i].uuid # new[j].uuid
                        /\ new[i].token # new[j].token
    BY <1>3 DEF Unique
  <2>2. new[i].id # new[j].id /\ new[i].uuid # new[j].uuid
    BY <1>2, <1>3, <2>1 DEF Unique
  <2>3. new[i].token # new[j].token
    <3>1. CASE i \in Lacking(list) /\ j \in Lacking(list)
      BY <1>3, <2>1, <3>1
    <3>2. CASE i \in Lacking(list) /\ j \notin Lacking(list)
      BY <1>3, <1>4, <3>2
    <3>3. CASE i \notin Lacking(list) /\ j \in Lacking(list)
      BY <1>3, <1>4, <3>3
    <3>4. CASE i \notin Lacking(list) /\ j \notin Lacking(list)
      BY <1>2, <1>3, <2>1, <3>4 DEF Unique, Lacking
    <3>. QED
      BY <3>1, <3>2, <3>3, <3>4
  <2>. QED
    BY <2>2, <2>3
<1>7. NoneLacking(new)
  BY <1>3, NoneIsNoToken DEF NoneLacking
<1>8. dead \cap TokensOf(new) = {}
  BY <1>2, <1>3, <1>4 DEF TokensOf, Lacking
<1>9. TypeOK'
  BY <1>2, <1>3, <1>5 DEF IInv, TypeOK
<1>10. Unique(list)' /\ NoneLacking(list)'
  BY <1>5, <1>6, <1>7 DEF Unique, NoneLacking
<1>11. (dead \cap (TokensOf(list) \cup TokensOf(file)))' = {}
  BY <1>2, <1>5, <1>8 DEF TokensOf
<1>. QED
  BY <1>2, <1>5, <1>9, <1>10, <1>11 DEF IInv, MemoryIsFile

LEMMA StopKeeps == ASSUME IInv, Stop PROVE IInv'
<1>1. /\ list' = <<>> /\ file' = file /\ unread' = FALSE /\ dead' = dead
      /\ cli' = cli /\ read' = read /\ up' = "down"
  BY DEF Stop, cliVars
<1>2. TypeOK' /\ MemoryIsFile'
  BY <1>1, EmptyList DEF IInv, TypeOK, MemoryIsFile
<1>3. Unique(list)' /\ TokensOf(list)' = {}
  BY <1>1 DEF Unique, TokensOf
<1>4. TokensOf(file)' = TokensOf(file)
  BY <1>1 DEF TokensOf
<1>. QED
  BY <1>1, <1>2, <1>3, <1>4 DEF IInv

\* Another process writes the file: memory is as it was, and the file is not memory's.
LEMMA FileKeeps ==
  ASSUME IInv, file' \in Seq(User), UNCHANGED daemonVars, unread' = (up # "down"),
         cli' \in {"closed", "filling", "empty", "full"}, read' \in Seq(User),
         dead' \subseteq dead, dead' \cap TokensOf(file') = {}
  PROVE  IInv'
<1>1. list' = list /\ up' = up
  BY DEF daemonVars
<1>2. TypeOK' /\ MemoryIsFile'
  BY <1>1 DEF IInv, TypeOK, MemoryIsFile
<1>3. /\ Unique(list)' <=> Unique(list)
      /\ NoneLacking(list)' <=> NoneLacking(list)
      /\ TokensOf(list)' = TokensOf(list)
      /\ TokensOf(file)' = TokensOf(file')
  BY <1>1 DEF Unique, NoneLacking, TokensOf
<1>. QED
  BY <1>1, <1>2, <1>3 DEF IInv

LEMMA CliKeeps == ASSUME IInv, CliOpens \/ CliEnds PROVE IInv'
<1>1. /\ file' = file /\ list' = list /\ up' = up /\ unread' = unread /\ dead' = dead
      /\ cli' \in {"closed", "filling", "empty", "full"} /\ read' \in {<<>>, file}
  BY DEF CliOpens, CliEnds, Opened, daemonVars
<1>2. TypeOK' /\ MemoryIsFile'
  <2>1. read' \in Seq(User)
    BY <1>1, EmptyList DEF IInv, TypeOK
  <2>. QED
    BY <1>1, <2>1 DEF IInv, TypeOK, MemoryIsFile
<1>. QED
  BY <1>1, <1>2 DEF IInv, Unique, NoneLacking, TokensOf

LEMMA CliBackfillsKeeps == ASSUME IInv, CliBackfills PROVE IInv'
<1>1. PICK tokens \in Injection(Lacking(read), FreshToken) : file' = Filled(read, tokens)
  BY DEF CliBackfills
<1>2. read \in Seq(User)
  BY DEF IInv, TypeOK
<1>3. /\ file' \in Seq(User) /\ DOMAIN file' = DOMAIN read
      /\ \A i \in DOMAIN read : IF i \in Lacking(read) THEN file'[i].token = tokens[i]
                                                      ELSE file'[i].token = read[i].token
      /\ \A i \in Lacking(read) : tokens[i] \in FreshToken
  BY <1>1, <1>2, FilledShape
<1>4. dead' = dead \ TokensOf(read)
  BY DEF CliBackfills
<1>5. dead' \cap TokensOf(file') = {}
  BY <1>3, <1>4 DEF TokensOf, FreshToken, Lacking
<1>6. /\ UNCHANGED daemonVars /\ unread' = (up # "down") /\ cli' = "full"
      /\ read' = <<>> /\ read' \in Seq(User)
  BY DEF CliBackfills
<1>. QED
  BY <1>3, <1>4, <1>5, <1>6, FileKeeps

LEMMA WriteKeeps ==
  ASSUME IInv, NEW dump \in Dump, NEW force \in BOOLEAN, Import(dump, force) \/ HandEdit(dump)
  PROVE  IInv'
<1>1. dump \in Seq(User)
  BY UsersAssumption
<1>2. file' = dump /\ dead' = dead \ TokensOf(dump)
  BY DEF Import, HandEdit
<1>3. CASE Import(dump, force)
  BY <1>1, <1>2, <1>3, FileKeeps DEF Import, IInv, TypeOK
<1>4. CASE HandEdit(dump)
  <2>1. UNCHANGED daemonVars /\ unread' = unread /\ cli' = cli /\ read' = read /\ up = "down"
    BY <1>4 DEF HandEdit, cliVars
  <2>2. list' = list /\ up' = up
    BY <2>1 DEF daemonVars
  <2>3. TypeOK' /\ MemoryIsFile'
    BY <1>1, <1>2, <2>1, <2>2 DEF IInv, TypeOK, MemoryIsFile
  <2>4. Unique(list)' /\ (up' = "up" => NoneLacking(list)') /\ (up' = "down" => list' = <<>>)
    BY <2>2 DEF IInv, Unique, NoneLacking
  <2>5. TokensOf(list)' = TokensOf(list) /\ TokensOf(file)' = TokensOf(dump)
    BY <1>2, <2>2 DEF TokensOf
  <2>. QED
    BY <1>2, <2>3, <2>4, <2>5 DEF IInv
<1>. QED
  BY <1>3, <1>4

--------------------------------------------------------------------------------

LEMMA StepKeeps == IInv /\ [Next]_vars => IInv'
<1>. SUFFICES ASSUME IInv, [Next]_vars PROVE IInv'
  OBVIOUS
<1>1. CASE DaemonStep
  <2>1. ASSUME NEW name \in Text, NEW uuid \in Uuid, NEW active \in BOOLEAN,
               Create(name, uuid, active)
        PROVE  IInv'
    BY <2>1, CreateKeeps
  <2>2. ASSUME NEW i \in DOMAIN list, NEW name \in Text \cup {None},
               NEW uuid \in Uuid \cup {None}, NEW active \in BOOLEAN,
               Update(i, name, uuid, active)
        PROVE  IInv'
    BY <2>2, UpdateKeeps
  <2>3. ASSUME NEW i \in DOMAIN list, ResetUsageWindow(i) \/ RotateSubToken(i) \/ Delete(i)
        PROVE  IInv'
    BY <2>3, ResetKeeps, RotateKeeps, DeleteKeeps
  <2>4. CASE Open
    BY <2>4, OpenKeeps
  <2>5. CASE BackfillSubTokens
    BY <2>5, BackfillKeeps
  <2>6. CASE Stop
    BY <2>6, StopKeeps
  <2>. QED
    BY <1>1, <2>1, <2>2, <2>3, <2>4, <2>5, <2>6 DEF DaemonStep
<1>2. CASE CliStep
  <2>1. ASSUME NEW dump \in Dump, NEW force \in BOOLEAN, Import(dump, force)
        PROVE  IInv'
    BY <2>1, WriteKeeps
  <2>. QED
    BY <1>2, <2>1, CliKeeps, CliBackfillsKeeps DEF CliStep
<1>3. ASSUME NEW dump \in Dump, HandEdit(dump) PROVE IInv'
  BY <1>3, WriteKeeps
<1>4. CASE UNCHANGED vars
  BY <1>4 DEF vars, daemonVars, cliVars, IInv, TypeOK, Unique, NoneLacking, MemoryIsFile, TokensOf
<1>. QED
  BY <1>1, <1>2, <1>3, <1>4 DEF Next

LEMMA Invariance == Spec => []IInv
  BY InitIInv, StepKeeps, PTL DEF Spec

\* Every variable keeps its kind.
THEOREM TypeCorrect == Spec => []TypeOK
<1>1. IInv => TypeOK
  BY DEF IInv
<1>. QED
  BY <1>1, Invariance, PTL

LEMMA IdsLead ==
  ASSUME IInv, NEW i \in DOMAIN list, NEW j \in DOMAIN list
  PROVE  /\ i # j => list[i].id # list[j].id /\ list[i].uuid # list[j].uuid
         /\ Finds(list, list[i].id, j) <=> i = j
<1>1. list \in Seq(User) /\ Unique(list)
  BY DEF IInv, TypeOK
<1>2. Hits(list, list[i].id) = {i}
  BY <1>1 DEF Hits, Unique
<1>3. i \in Nat
  BY <1>1, ListShape
<1>. QED
  BY <1>1, <1>2, <1>3 DEF Unique, Finds

LEMMA EveryUrlLeads == IInv => UrlsLead
<1>. SUFFICES ASSUME IInv, up = "up", NEW i \in DOMAIN list
              PROVE  FindsToken(list, list[i].token, i)
  BY DEF UrlsLead
<1>1. list \in Seq(User) /\ Unique(list) /\ NoneLacking(list)
  BY DEF IInv, TypeOK
<1>2. i \in Nat
  BY <1>1, ListShape
<1>. QED
  BY <1>1, <1>2 DEF Unique, NoneLacking, FindsToken

\* Whatever is asked of the store, saved or not, and whatever is imported: no two users
\* share an id or a UUID string, an id leads to its user (users.go, indexOf), and every user
\* of a running daemon has a subscription URL that leads to nobody else.
THEOREM UsersAreToldApart == Spec => []ToldApart
<1>1. IInv => ToldApart
  BY IdsLead, EveryUrlLeads DEF ToldApart
<1>. QED
  BY <1>1, Invariance, PTL

\* Memory and users.json agree after every operation, failed saves included, unless
\* another process has written the file.
THEOREM MemoryAgrees == Spec => []MemoryIsFile
<1>1. IInv => MemoryIsFile
  BY DEF IInv
<1>. QED
  BY <1>1, Invariance, PTL

\* A subscription URL that has been rotated away stays dead.
THEOREM UrlsStayDead == Spec => []RotatedStaysDead
<1>1. IInv => RotatedStaysDead
  <2>1. None \notin Token
    BY UsersAssumption
  <2>. QED
    BY <2>1 DEF IInv, TypeOK, RotatedStaysDead, FindsToken, TokensOf
<1>. QED
  BY <1>1, Invariance, PTL

--------------------------------------------------------------------------------
(* Names.                                                                  *)

NamesIn(l) ==
  \A i, j \in DOMAIN l :
    i # j /\ EqualFold(l[i].name, l[j].name)
      => \E k \in {i, j} : EqualFold(l[k].name, l[k].id)

LEMMA SomeoneIsFound ==
  ASSUME NEW l \in Seq(User), NEW ref, NEW k \in DOMAIN l,
         l[k].id = ref \/ EqualFold(l[k].name, ref)
  PROVE  \E i \in DOMAIN l : Finds(l, ref, i)
<1>1. Hits(l, ref) # {} /\ Hits(l, ref) \subseteq DOMAIN l
  BY DEF Hits
<1>2. Hits(l, ref) \in SUBSET Nat
  BY <1>1, ListShape
<1>3. PICK i \in Hits(l, ref) : \A j \in Hits(l, ref) : i <= j
  BY <1>1, <1>2, FirstPosition
<1>. QED
  BY <1>1, <1>3 DEF Finds

LEMMA SaveKeepsNames ==
  ASSUME NamesApart, NEW new, NEW gone, NamesIn(new), Save(new, gone)
  PROVE  NamesApart'
  BY DEF Save, NamesApart, NamesIn, EqualFold

\* A user whose name stays: the list's names are as before.
LEMMA SameNames ==
  ASSUME IInv, NamesApart, NEW i \in DOMAIN list, NEW u \in User,
         u.name = list[i].name, u.id = list[i].id
  PROVE  NamesIn(Changed(i, u))
<1>1. list \in Seq(User)
  BY DEF IInv, TypeOK
<1>2. /\ DOMAIN Changed(i, u) = DOMAIN list
      /\ \A j \in DOMAIN list : Changed(i, u)[j] = IF j = i THEN u ELSE list[j]
  BY <1>1, ExceptShape DEF Changed
<1>3. \A j \in DOMAIN list : /\ Changed(i, u)[j].name = list[j].name
                             /\ Changed(i, u)[j].id = list[j].id
  BY <1>2
<1>. QED
  BY <1>2, <1>3 DEF NamesApart, NamesIn

LEMMA CreateKeepsNames ==
  ASSUME IInv, NamesApart, NEW name \in Text, NEW uuid \in Uuid, NEW active \in BOOLEAN,
         Create(name, uuid, active)
  PROVE  NamesApart'
<1>1. PICK id \in FreshId, token \in FreshToken :
        Save(Append(list, [id |-> id, name |-> name, uuid |-> uuid, token |-> token,
                           active |-> active]), {})
  BY DEF Create
<1>. DEFINE u == [id |-> id, name |-> name, uuid |-> uuid, token |-> token, active |-> active]
            new == Append(list, u)
<1>2. list \in Seq(User) /\ u \in User /\ u.name = name
  BY DEF IInv, TypeOK, User, FreshId, FreshToken
<1>3. Save(new, {})
  BY <1>1
<1>. HIDE DEF u
<1>4. /\ DOMAIN new = 1 .. Len(list) + 1
      /\ \A i \in DOMAIN list : new[i] = list[i]
      /\ new[Len(list) + 1] = u
      /\ DOMAIN list = 1 .. Len(list) /\ Len(list) \in Nat
  BY <1>2, AppendShape, ListShape
<1>. HIDE DEF new
<1>5. \A i \in DOMAIN list : ~EqualFold(list[i].name, name)
  BY <1>2, SomeoneIsFound DEF Create
<1>6. NamesIn(new)
  <2>1. SUFFICES ASSUME NEW i \in DOMAIN new, NEW j \in DOMAIN new, i # j,
                        EqualFold(new[i].name, new[j].name)
                 PROVE  \E k \in {i, j} : EqualFold(new[k].name, new[k].id)
    BY DEF NamesIn
  <2>2. i \in DOMAIN list /\ j \in DOMAIN list
    <3>1. (i \in DOMAIN list \/ i = Len(list) + 1) /\ (j \in DOMAIN list \/ j = Len(list) + 1)
      BY <1>4
    <3>. QED
      BY <1>2, <1>4, <1>5, <2>1, <3>1 DEF EqualFold
  <2>. QED
    BY <1>4, <2>1, <2>2 DEF NamesApart
<1>. QED
  BY <1>3, <1>6, SaveKeepsNames

LEMMA UpdateKeepsNames ==
  ASSUME IInv, NamesApart, NEW i \in DOMAIN list, NEW name \in Text \cup {None},
         NEW uuid \in Uuid \cup {None}, NEW active \in BOOLEAN,
         Update(i, name, uuid, active)
  PROVE  NamesApart'
<1>. DEFINE u == [list[i] EXCEPT !.name = IF name = None THEN @ ELSE Trim[name],
                                 !.uuid = IF uuid = None THEN @ ELSE uuid,
                                 !.active = active]
<1>1. list \in Seq(User) /\ list[i] \in User
  BY ListShape DEF IInv, TypeOK
<1>2. IF name = None THEN TRUE ELSE Trim[name] \in Text
  BY UsersAssumption DEF Update
<1>3. /\ u \in User /\ u.id = list[i].id
      /\ u.name = IF name = None THEN list[i].name ELSE Trim[name]
  BY <1>1, <1>2 DEF User
<1>4. Save(Changed(i, u), {})
  BY DEF Update
<1>5. name # None => \A j \in DOMAIN list \ {i} : ~Finds(list, u.name, j)
  BY DEF Update
<1>. HIDE DEF u
<1>6. CASE name = None
  BY <1>3, <1>4, <1>6, SameNames, SaveKeepsNames
<1>7. CASE name # None
  <2>. DEFINE new == Changed(i, u)
  <2>1. /\ DOMAIN new = DOMAIN list
        /\ \A j \in DOMAIN list : new[j] = IF j = i THEN u ELSE list[j]
    BY <1>1, <1>3, ExceptShape DEF Changed
  <2>. HIDE DEF new
  \* Whoever has the new name, the reference leads to the user who is changed, who has
  \* the name as well, or is named by their own id.
  <2>2. ASSUME NEW j \in DOMAIN list \ {i}, EqualFold(list[j].name, u.name)
        PROVE  EqualFold(u.name, u.id) \/ EqualFold(list[j].name, list[j].id)
    <3>1. Finds(list, u.name, i)
      BY <1>1, <1>5, <1>7, <2>2, SomeoneIsFound
    <3>2. list[i].id = u.name \/ EqualFold(list[i].name, u.name)
      BY <3>1 DEF Finds, Hits
    <3>3. CASE list[i].id = u.name
      BY <1>3, <3>3 DEF EqualFold
    <3>4. CASE EqualFold(list[i].name, u.name)
      <4>1. EqualFold(list[i].name, list[j].name)
        BY <2>2, <3>4 DEF EqualFold
      <4>2. EqualFold(list[i].name, list[i].id) \/ EqualFold(list[j].name, list[j].id)
        BY <4>1 DEF NamesApart
      <4>. QED
        BY <1>3, <3>4, <4>2 DEF EqualFold
    <3>. QED
      BY <3>2, <3>3, <3>4
  <2>3. NamesIn(new)
    <3>1. SUFFICES ASSUME NEW j \in DOMAIN list, NEW k \in DOMAIN list, j # k,
                          EqualFold(new[j].name, new[k].name)
                   PROVE  \E m \in {j, k} : EqualFold(new[m].name, new[m].id)
      BY <2>1 DEF NamesIn
    <3>2. CASE j = i
      <4>1. k \in DOMAIN list \ {i} /\ new[k] = list[k] /\ new[j] = u
        BY <2>1, <3>1, <3>2
      <4>2. EqualFold(list[k].name, u.name)
        BY <3>1, <4>1 DEF EqualFold
      <4>. QED
        BY <2>2, <4>1, <4>2
    <3>3. CASE k = i
      <4>1. j \in DOMAIN list \ {i} /\ new[j] = list[j] /\ new[k] = u
        BY <2>1, <3>1, <3>3
      <4>2. EqualFold(list[j].name, u.name)
        BY <3>1, <4>1
      <4>. QED
        BY <2>2, <4>1, <4>2
    <3>4. CASE j # i /\ k # i
      BY <2>1, <3>1, <3>4 DEF NamesApart
    <3>. QED
      BY <3>2, <3>3, <3>4
  <2>4. Save(new, {})
    BY <1>4 DEF new
  <2>. QED
    BY <2>3, <2>4, SaveKeepsNames
<1>. QED
  BY <1>6, <1>7

LEMMA OthersKeepNames ==
  ASSUME IInv, NamesApart, NEW i \in DOMAIN list,
         ResetUsageWindow(i) \/ RotateSubToken(i) \/ Delete(i)
  PROVE  NamesApart'
<1>1. list \in Seq(User) /\ list[i] \in User
  BY ListShape DEF IInv, TypeOK
<1>2. CASE ResetUsageWindow(i)
  <2>1. PICK active \in {list[i].active, TRUE} :
          Save(Changed(i, [list[i] EXCEPT !.active = active]), {})
    BY <1>2 DEF ResetUsageWindow
  <2>. DEFINE u == [list[i] EXCEPT !.active = active]
  <2>2. u \in User /\ u.name = list[i].name /\ u.id = list[i].id
    BY <1>1, <2>1 DEF User
  <2>3. Save(Changed(i, u), {})
    BY <2>1
  <2>. HIDE DEF u
  <2>. QED
    BY <2>2, <2>3, SameNames, SaveKeepsNames
<1>3. CASE RotateSubToken(i)
  <2>1. PICK token \in FreshToken :
          Save(Changed(i, [list[i] EXCEPT !.token = token]), {list[i].token})
    BY <1>3 DEF RotateSubToken
  <2>. DEFINE u == [list[i] EXCEPT !.token = token]
  <2>2. u \in User /\ u.name = list[i].name /\ u.id = list[i].id
    BY <1>1, <2>1 DEF User, FreshToken
  <2>3. Save(Changed(i, u), {list[i].token})
    BY <2>1
  <2>. HIDE DEF u
  <2>. QED
    BY <2>2, <2>3, SameNames, SaveKeepsNames
<1>4. CASE Delete(i)
  <2>. DEFINE new == Without(list, i)
  <2>1. /\ DOMAIN new = 1 .. Len(list) - 1
        /\ \A j \in 1 .. Len(list) - 1 : new[j] = IF j < i THEN list[j] ELSE list[j + 1]
        /\ DOMAIN list = 1 .. Len(list) /\ Len(list) \in Nat
    BY <1>1, WithoutShape, ListShape
  <2>2. Save(new, {list[i].token})
    BY <1>4 DEF Delete
  <2>. HIDE DEF new
  <2>. DEFINE old(j) == IF j < i THEN j ELSE j + 1
  <2>3. \A j \in DOMAIN new : old(j) \in DOMAIN list /\ new[j] = list[old(j)]
    BY <2>1
  <2>4. \A j, k \in DOMAIN new : j # k => old(j) # old(k)
    BY <2>1
  <2>. HIDE DEF old
  <2>5. NamesIn(new)
    BY <2>3, <2>4 DEF NamesApart, NamesIn
  <2>. QED
    BY <2>2, <2>5, SaveKeepsNames
<1>. QED
  BY <1>2, <1>3, <1>4

\* Where strings that EqualFold takes for one are one in lower case too, no two users
\* come to have one name, unless one of them is named by their own id (users.go, Update).
THEOREM NamesStayApart ==
  ASSUME \A s, t \in Text : EqualFold(s, t) => Lower[s] = Lower[t]
  PROVE  Spec => []NamesApart
<1>1. Init => NamesApart
  BY DEF Init, NamesApart
<1>2. IInv /\ NamesApart /\ [Next]_vars => NamesApart'
  <2>. SUFFICES ASSUME IInv, NamesApart, [Next]_vars PROVE NamesApart'
    OBVIOUS
  <2>1. CASE Open
    <3>1. list' = file /\ file \in Seq(User) /\ Accepts(file)
      BY <2>1 DEF Open, IInv, TypeOK
    <3>. QED
      BY <3>1, ListShape DEF Accepts, NamesApart
  <2>2. CASE BackfillSubTokens
    <3>1. PICK tokens \in Injection(Lacking(list), FreshToken) : list' = Filled(list, tokens)
      BY <2>2 DEF BackfillSubTokens
    <3>2. list \in Seq(User)
      BY DEF IInv, TypeOK
    <3>3. /\ DOMAIN list' = DOMAIN list
          /\ \A i \in DOMAIN list : list'[i].name = list[i].name /\ list'[i].id = list[i].id
      BY <3>1, <3>2, FilledShape
    <3>. QED
      BY <3>3 DEF NamesApart
  <2>3. CASE Stop
    BY <2>3 DEF Stop, NamesApart
  <2>4. CASE CliStep \/ (\E dump \in Dump : HandEdit(dump)) \/ UNCHANGED vars
    <3>1. list' = list
      BY <2>4 DEF CliStep, CliOpens, CliBackfills, CliEnds, Import, HandEdit, daemonVars, vars
    <3>. QED
      BY <3>1 DEF NamesApart
  <2>5. ASSUME NEW name \in Text, NEW uuid \in Uuid, NEW active \in BOOLEAN,
               Create(name, uuid, active)
        PROVE  NamesApart'
    BY <2>5, CreateKeepsNames
  <2>6. ASSUME NEW i \in DOMAIN list, NEW name \in Text \cup {None},
               NEW uuid \in Uuid \cup {None}, NEW active \in BOOLEAN,
               Update(i, name, uuid, active)
        PROVE  NamesApart'
    BY <2>6, UpdateKeepsNames
  <2>7. ASSUME NEW i \in DOMAIN list, ResetUsageWindow(i) \/ RotateSubToken(i) \/ Delete(i)
        PROVE  NamesApart'
    BY <2>7, OthersKeepNames
  <2>. QED
    BY <2>1, <2>2, <2>3, <2>4, <2>5, <2>6, <2>7 DEF Next, DaemonStep
<1>. QED
  BY <1>1, <1>2, Invariance, PTL DEF Spec

--------------------------------------------------------------------------------
(* The store keeps what a register promises.                               *)

\* Nobody misses what is written while the daemon is down: it reads the file as it starts.
Quiet == up = "down" => ~unread

LEMMA AlwaysQuiet == Spec => []Quiet
<1>1. Init => Quiet
  BY DEF Init, Quiet
<1>2. Quiet /\ [Next]_vars => Quiet'
  <2>. SUFFICES ASSUME Quiet, [Next]_vars PROVE Quiet'
    OBVIOUS
  <2>1. ASSUME NEW new, NEW gone, up = "up", Save(new, gone) PROVE Quiet'
    BY <2>1 DEF Quiet, Save
  <2>2. CASE DaemonStep
    <3>1. ASSUME NEW name, NEW uuid, NEW active, Create(name, uuid, active) PROVE Quiet'
      BY <2>1, <3>1 DEF Create
    <3>2. ASSUME NEW i, NEW name, NEW uuid, NEW active, Update(i, name, uuid, active) PROVE Quiet'
      BY <2>1, <3>2 DEF Update
    <3>3. ASSUME NEW i, ResetUsageWindow(i) PROVE Quiet'
      BY <2>1, <3>3 DEF ResetUsageWindow
    <3>4. ASSUME NEW i, RotateSubToken(i) PROVE Quiet'
      BY <2>1, <3>4 DEF RotateSubToken
    <3>5. ASSUME NEW i, Delete(i) PROVE Quiet'
      BY <2>1, <3>5 DEF Delete
    <3>6. CASE Open \/ BackfillSubTokens \/ Stop
      BY <3>6 DEF Quiet, Open, BackfillSubTokens, Stop
    <3>. QED
      BY <2>2, <3>1, <3>2, <3>3, <3>4, <3>5, <3>6 DEF DaemonStep
  <2>3. CASE CliStep \/ (\E dump \in Dump : HandEdit(dump)) \/ UNCHANGED vars
    BY <2>3 DEF Quiet, CliStep, CliOpens, CliBackfills, Import, CliEnds, HandEdit,
                vars, daemonVars
  <2>. QED
    BY <2>2, <2>3 DEF Next
<1>. QED
  BY <1>1, <1>2, PTL DEF Spec

LEMMA MembersAreUsers ==
  ASSUME NEW l \in Seq(User)
  PROVE  Members(l) \in SUBSET User
  BY ListShape DEF Members

\* What the register sees of a step that leaves both lists alone: nothing.
LEMMA SameRoster ==
  ASSUME UNCHANGED <<file, up, list, unread>>
  PROVE  UNCHANGED Promise!registerVars
  BY DEF Promise!registerVars, InForce, Members

\* A save of a list that differs in one member edits the register; a failed one does not.
LEMMA SaveEdits ==
  ASSUME IInv, up = "up", NEW new \in Seq(User), NEW gone, Save(new, gone),
         \A m, n \in Members(list) \ Members(new) : m = n,
         \A m, n \in Members(new) \ Members(list) : m = n,
         \A m \in Members(list) \ Members(new), n \in Members(new) \ Members(list) : m.id = n.id
  PROVE  Promise!Edit \/ UNCHANGED Promise!registerVars
<1>1. CASE list' = new /\ file' = new /\ unread' = FALSE
  <2>1. up' = up
    BY DEF Save
  <2>2. InForce = Members(list) /\ InForce' = Members(new)
    BY <1>1, <2>1 DEF InForce, Members
  <2>3. Members(list) \in SUBSET User /\ Members(new) \in SUBSET User
    BY MembersAreUsers DEF IInv, TypeOK
  <2>4. (Members(list) \ Members(new)) \X (Members(new) \ Members(list)) \subseteq SameUser
    BY <2>3 DEF SameUser
  <2>. QED
    BY <1>1, <2>1, <2>2, <2>3, <2>4 DEF Promise!Edit, Promise!AtMostOne
<1>2. CASE UNCHANGED <<list, file, unread, dead>>
  BY <1>2, SameRoster DEF Save
<1>. QED
  BY <1>1, <1>2 DEF Save

LEMMA ChangedEdits ==
  ASSUME IInv, up = "up", NEW i \in DOMAIN list, NEW u \in User, u.id = list[i].id,
         NEW gone, Save(Changed(i, u), gone)
  PROVE  Promise!Edit \/ UNCHANGED Promise!registerVars
<1>. DEFINE new == Changed(i, u)
<1>1. /\ new \in Seq(User) /\ DOMAIN new = DOMAIN list
      /\ \A j \in DOMAIN list : new[j] = IF j = i THEN u ELSE list[j]
  BY ExceptShape DEF Changed, IInv, TypeOK
<1>2. Save(new, gone)
  OBVIOUS
<1>. HIDE DEF new
<1>3. \A m \in Members(list) \ Members(new) : m = list[i]
  BY <1>1 DEF Members
<1>4. \A m \in Members(new) \ Members(list) : m = u
  BY <1>1 DEF Members
<1>5. /\ \A m, n \in Members(list) \ Members(new) : m = n
      /\ \A m, n \in Members(new) \ Members(list) : m = n
      /\ \A m \in Members(list) \ Members(new), n \in Members(new) \ Members(list) : m.id = n.id
  BY <1>3, <1>4
<1>. QED
  BY <1>1, <1>2, <1>5, SaveEdits

LEMMA CreateEdits ==
  ASSUME IInv, NEW name \in Text, NEW uuid \in Uuid, NEW active \in BOOLEAN,
         Create(name, uuid, active)
  PROVE  Promise!Edit \/ UNCHANGED Promise!registerVars
<1>1. PICK id \in FreshId, token \in FreshToken :
        Save(Append(list, [id |-> id, name |-> name, uuid |-> uuid, token |-> token,
                           active |-> active]), {})
  BY DEF Create
<1>. DEFINE u == [id |-> id, name |-> name, uuid |-> uuid, token |-> token, active |-> active]
            new == Append(list, u)
<1>2. list \in Seq(User) /\ u \in User /\ up = "up"
  BY DEF IInv, TypeOK, User, FreshId, FreshToken, Create
<1>3. Save(new, {})
  BY <1>1
<1>. HIDE DEF u
<1>4. /\ new \in Seq(User) /\ DOMAIN new = 1 .. Len(list) + 1
      /\ \A i \in DOMAIN list : new[i] = list[i]
      /\ new[Len(list) + 1] = u
      /\ DOMAIN list = 1 .. Len(list) /\ Len(list) \in Nat
  BY <1>2, AppendShape, ListShape
<1>. HIDE DEF new
<1>5. DOMAIN list \subseteq DOMAIN new /\ \A i \in DOMAIN new : i \in DOMAIN list \/ i = Len(list) + 1
  BY <1>4
<1>6. \A m \in Members(list) : m \in Members(new)
  BY <1>4, <1>5 DEF Members
<1>7. \A m \in Members(new) \ Members(list) : m = u
  BY <1>4, <1>5 DEF Members
<1>. QED
  BY <1>2, <1>3, <1>4, <1>6, <1>7, SaveEdits

LEMMA UpdateEdits ==
  ASSUME IInv, NEW i \in DOMAIN list, NEW name \in Text \cup {None},
         NEW uuid \in Uuid \cup {None}, NEW active \in BOOLEAN,
         Update(i, name, uuid, active)
  PROVE  Promise!Edit \/ UNCHANGED Promise!registerVars
<1>. DEFINE u == [list[i] EXCEPT !.name = IF name = None THEN @ ELSE Trim[name],
                                 !.uuid = IF uuid = None THEN @ ELSE uuid,
                                 !.active = active]
<1>1. list[i] \in User
  BY ListShape DEF IInv, TypeOK
<1>2. IF name = None THEN TRUE ELSE Trim[name] \in Text
  BY UsersAssumption DEF Update
<1>3. u \in User /\ u.id = list[i].id
  BY <1>1, <1>2 DEF User
<1>4. up = "up" /\ Save(Changed(i, u), {})
  BY DEF Update
<1>. HIDE DEF u
<1>. QED
  BY <1>3, <1>4, ChangedEdits

LEMMA OthersEdit ==
  ASSUME IInv, NEW i \in DOMAIN list, ResetUsageWindow(i) \/ RotateSubToken(i)
  PROVE  Promise!Edit \/ UNCHANGED Promise!registerVars
<1>1. list[i] \in User
  BY ListShape DEF IInv, TypeOK
<1>2. CASE ResetUsageWindow(i)
  <2>1. PICK active \in {list[i].active, TRUE} :
          Save(Changed(i, [list[i] EXCEPT !.active = active]), {})
    BY <1>2 DEF ResetUsageWindow
  <2>. DEFINE u == [list[i] EXCEPT !.active = active]
  <2>2. u \in User /\ u.id = list[i].id
    BY <1>1, <2>1 DEF User
  <2>3. up = "up" /\ Save(Changed(i, u), {})
    BY <1>2, <2>1 DEF ResetUsageWindow
  <2>. HIDE DEF u
  <2>. QED
    BY <2>2, <2>3, ChangedEdits
<1>3. CASE RotateSubToken(i)
  <2>1. PICK token \in FreshToken :
          Save(Changed(i, [list[i] EXCEPT !.token = token]), {list[i].token})
    BY <1>3 DEF RotateSubToken
  <2>. DEFINE u == [list[i] EXCEPT !.token = token]
  <2>2. u \in User /\ u.id = list[i].id
    BY <1>1, <2>1 DEF User, FreshToken
  <2>3. up = "up" /\ Save(Changed(i, u), {list[i].token})
    BY <1>3, <2>1 DEF RotateSubToken
  <2>. HIDE DEF u
  <2>. QED
    BY <2>2, <2>3, ChangedEdits
<1>. QED
  BY <1>2, <1>3

LEMMA DeleteEdits ==
  ASSUME IInv, NEW i \in DOMAIN list, Delete(i)
  PROVE  Promise!Edit \/ UNCHANGED Promise!registerVars
<1>. DEFINE new == Without(list, i)
<1>1. /\ new \in Seq(User) /\ DOMAIN new = 1 .. Len(list) - 1
      /\ \A j \in 1 .. Len(list) - 1 : new[j] = IF j < i THEN list[j] ELSE list[j + 1]
      /\ DOMAIN list = 1 .. Len(list) /\ Len(list) \in Nat
  BY WithoutShape, ListShape DEF IInv, TypeOK
<1>2. up = "up" /\ Save(new, {list[i].token})
  BY DEF Delete
<1>. HIDE DEF new
<1>3. \A j \in DOMAIN new : \E k \in DOMAIN list : new[j] = list[k]
  BY <1>1
<1>4. \A m \in Members(new) : m \in Members(list)
  BY <1>3 DEF Members
<1>5. \A k \in DOMAIN list : k # i => \E j \in DOMAIN new : new[j] = list[k]
  <2>1. SUFFICES ASSUME NEW k \in DOMAIN list, k # i
                 PROVE  \E j \in DOMAIN new : new[j] = list[k]
    OBVIOUS
  <2>2. i \in 1 .. Len(list) /\ k \in 1 .. Len(list)
    BY <1>1
  <2>3. CASE k < i
    BY <1>1, <2>2, <2>3
  <2>4. CASE k > i
    <3>1. k - 1 \in DOMAIN new /\ ~(k - 1 < i) /\ (k - 1) + 1 = k
      BY <1>1, <2>2, <2>4
    <3>. QED
      BY <1>1, <3>1
  <2>. QED
    BY <2>1, <2>2, <2>3, <2>4
<1>6. \A m \in Members(list) \ Members(new) : m = list[i]
  BY <1>5 DEF Members
<1>. QED
  BY <1>1, <1>2, <1>4, <1>6, SaveEdits

\* The backfill completes users, and nobody else.
LEMMA BackfillCompletes ==
  ASSUME IInv, BackfillSubTokens
  PROVE  Promise!Complete
<1>1. PICK tokens \in Injection(Lacking(list), FreshToken) :
        list' = Filled(list, tokens) /\ file' = Filled(list, tokens)
  BY DEF BackfillSubTokens
<1>2. list \in Seq(User) /\ up = "filling" /\ up' = "up" /\ unread' = FALSE
  BY DEF BackfillSubTokens, IInv, TypeOK
<1>3. /\ list' \in Seq(User) /\ DOMAIN list' = DOMAIN list
      /\ \A i \in Lacking(list) : tokens[i] \in FreshToken
  BY <1>1, <1>2, FilledShape
<1>4. \A i \in DOMAIN list : list[i] \in User /\ list'[i] \in User
  BY <1>2, <1>3, ListShape
<1>5. \A i \in DOMAIN list : list'[i] = list[i] \/ <<list[i], list'[i]>> \in Filling
  <2>1. TAKE i \in DOMAIN list
  <2>2. list'[i] = IF i \in Lacking(list) THEN [list[i] EXCEPT !.token = tokens[i]] ELSE list[i]
    BY <1>1 DEF Filled
  <2>3. CASE i \in Lacking(list)
    <3>1. list[i].token = None /\ list'[i] = [list[i] EXCEPT !.token = tokens[i]]
      BY <2>2, <2>3 DEF Lacking
    <3>2. list'[i].token = tokens[i]
      BY <1>4, <3>1 DEF User
    <3>. QED
      BY <1>4, <3>1, <3>2 DEF Filling
  <2>. QED
    BY <2>2, <2>3
<1>6. InForce = Members(list) /\ InForce' = Members(list)'
  BY <1>2 DEF InForce, Members
<1>7. \A m \in InForce : m \in InForce' \/ \E n \in InForce' : <<m, n>> \in Filling
  BY <1>3, <1>5, <1>6 DEF Members
<1>8. \A n \in InForce' : n \in InForce \/ \E m \in InForce : <<m, n>> \in Filling
  BY <1>3, <1>5, <1>6 DEF Members
<1>. QED
  BY <1>2, <1>7, <1>8 DEF Promise!Complete

LEMMA OpenBegins ==
  ASSUME Quiet, IInv, Open
  PROVE  Promise!Begin
<1>1. up = "down" /\ up' # "down" /\ list' = file /\ ~unread /\ ~unread' /\ unread \in BOOLEAN
  BY DEF Open, Quiet, IInv, TypeOK
<1>2. InForce' = InForce
  BY <1>1 DEF InForce, Members
<1>. QED
  BY <1>1, <1>2 DEF Promise!Begin, Open

\* The daemon ends with its last list in the file, or with what has replaced it there.
LEMMA StopEnds ==
  ASSUME IInv, Stop
  PROVE  Promise!End
<1>1. up # "down" /\ up' = "down" /\ file' = file /\ unread' = FALSE /\ unread \in BOOLEAN
  BY DEF Stop, IInv, TypeOK
<1>2. InForce = Members(list) /\ InForce' = Members(file)
  BY <1>1 DEF InForce, Members
<1>3. Members(file) \in SUBSET User
  BY MembersAreUsers DEF IInv, TypeOK
<1>4. ~unread => list = file
  BY <1>1 DEF IInv, MemoryIsFile
<1>. QED
  BY <1>1, <1>2, <1>3, <1>4 DEF Promise!End

\* A command or an editor replaces all members, unseen by a daemon that is open.
LEMMA WriteReplaces ==
  ASSUME Quiet, IInv, file' \in Seq(User), UNCHANGED daemonVars,
         unread' = (up # "down") \/ (up = "down" /\ unread' = unread)
  PROVE  Promise!Replace
<1>1. up' = up /\ list' = list /\ unread \in BOOLEAN
  BY DEF daemonVars, IInv, TypeOK
<1>2. CASE up = "down"
  <2>1. unread' = unread
    BY <1>1, <1>2 DEF Quiet
  <2>2. InForce' = Members(file')
    BY <1>1, <1>2 DEF InForce, Members
  <2>3. InForce' \in SUBSET User
    BY <2>2, MembersAreUsers
  <2>. QED
    BY <1>1, <1>2, <2>1, <2>3 DEF Promise!Replace
<1>3. CASE up # "down"
  <2>1. unread' /\ InForce' = InForce
    BY <1>1, <1>3 DEF InForce, Members
  <2>. QED
    BY <1>1, <1>3, <2>1 DEF Promise!Replace
<1>. QED
  BY <1>2, <1>3

LEMMA CliReplaces ==
  ASSUME Quiet, IInv, CliStep \/ \E dump \in Dump : HandEdit(dump)
  PROVE  Promise!Replace \/ UNCHANGED Promise!registerVars
<1>1. CASE CliOpens \/ CliEnds
  <2>1. UNCHANGED <<file, up, list, unread>>
    BY <1>1 DEF CliOpens, CliEnds, daemonVars
  <2>. QED
    BY <2>1, SameRoster
<1>2. CASE CliBackfills
  <2>1. PICK tokens \in Injection(Lacking(read), FreshToken) : file' = Filled(read, tokens)
    BY <1>2 DEF CliBackfills
  <2>2. file' \in Seq(User)
    BY <2>1, FilledShape DEF IInv, TypeOK
  <2>. QED
    BY <1>2, <2>2, WriteReplaces DEF CliBackfills
<1>3. ASSUME NEW dump \in Dump, NEW force \in BOOLEAN, Import(dump, force) \/ HandEdit(dump)
      PROVE  Promise!Replace
  <2>1. file' \in Seq(User)
    BY <1>3, UsersAssumption DEF Import, HandEdit
  <2>. QED
    BY <1>3, <2>1, WriteReplaces DEF Import, HandEdit
<1>. QED
  BY <1>1, <1>2, <1>3 DEF CliStep

\* Whatever fails, ends or is imported: what the daemon has done to a user stays done, what
\* failed has not happened, and no other user is touched (users.go, under its lock).
THEOREM Refinement == Spec => KeepsPromise
<1>1. Init => Promise!RegisterInit
  <2>1. Init => InForce = {}
    BY DEF Init, InForce, Members
  <2>. QED
    BY <2>1 DEF Init, Promise!RegisterInit
<1>2. IInv /\ Quiet /\ [Next]_vars => [Promise!RegisterNext]_Promise!registerVars
  <2>. SUFFICES ASSUME IInv, Quiet, [Next]_vars
                PROVE  Promise!RegisterNext \/ UNCHANGED Promise!registerVars
    OBVIOUS
  <2>1. CASE DaemonStep
    <3>1. ASSUME NEW name \in Text, NEW uuid \in Uuid, NEW active \in BOOLEAN,
                 Create(name, uuid, active)
          PROVE  Promise!RegisterNext \/ UNCHANGED Promise!registerVars
      BY <3>1, CreateEdits DEF Promise!RegisterNext
    <3>2. ASSUME NEW i \in DOMAIN list, NEW name \in Text \cup {None},
                 NEW uuid \in Uuid \cup {None}, NEW active \in BOOLEAN,
                 Update(i, name, uuid, active)
          PROVE  Promise!RegisterNext \/ UNCHANGED Promise!registerVars
      BY <3>2, UpdateEdits DEF Promise!RegisterNext
    <3>3. ASSUME NEW i \in DOMAIN list, ResetUsageWindow(i) \/ RotateSubToken(i) \/ Delete(i)
          PROVE  Promise!RegisterNext \/ UNCHANGED Promise!registerVars
      BY <3>3, OthersEdit, DeleteEdits DEF Promise!RegisterNext
    <3>4. CASE Open
      BY <3>4, OpenBegins DEF Promise!RegisterNext
    <3>5. CASE BackfillSubTokens
      BY <3>5, BackfillCompletes DEF Promise!RegisterNext
    <3>6. CASE Stop
      BY <3>6, StopEnds DEF Promise!RegisterNext
    <3>. QED
      BY <2>1, <3>1, <3>2, <3>3, <3>4, <3>5, <3>6 DEF DaemonStep
  <2>2. CASE CliStep \/ \E dump \in Dump : HandEdit(dump)
    BY <2>2, CliReplaces DEF Promise!RegisterNext
  <2>3. CASE UNCHANGED vars
    BY <2>3, SameRoster DEF vars, daemonVars
  <2>. QED
    BY <2>1, <2>2, <2>3 DEF Next
<1>. QED
  BY <1>1, <1>2, Invariance, AlwaysQuiet, PTL DEF Spec, KeepsPromise, Promise!RegisterSpec

================================================================================
