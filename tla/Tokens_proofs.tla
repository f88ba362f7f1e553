------------------------------ MODULE Tokens_proofs -----------------------------
(***************************************************************************)
(* The API's tokens are good exactly while their owners were told so, and  *)
(* their last use is not lost: for any ids, labels, dumps and resolution.  *)
(*                                                                         *)
(* Every change of the list but Lookup ends in Save, and SaveKeeps says    *)
(* what the new list must have.  LastUseKept needs to know how the three   *)
(* times of a token, in memory, in the file and in lastUsedFlushed, follow *)
(* each other, also while the file belongs to another process.             *)
(***************************************************************************)
EXTENDS Tokens, SequenceTheorems, TLAPS

Times == 0 .. now \cup {Never}

\* No time lies ahead, and only tokens that were drawn have been used.
Past ==
  /\ \A i \in DOMAIN list : list[i].used \in Times
  /\ \A i \in DOMAIN file : file[i].used \in Times
  /\ \A t \in Token : flushed[t] \in Times /\ (flushed[t] # Never => t \in drawn)

\* What a list may say of the last uses.
NotedIn(l) ==
  \A i \in DOMAIN l : /\ l[i].used \in Times
                      /\ l[i].used = Never <=> flushed[l[i].id] = Never
                      /\ flushed[l[i].id] <= l[i].used

\* What the file says of one of them.
InFile(i) ==
  /\ i \in DOMAIN file /\ file[i].id = list[i].id
  /\ \/ list[i].id \in unsaved
     \/ list[i].used = Never
     \/ /\ file[i].used # Never
        /\ flushed[list[i].id] <= file[i].used
        /\ list[i].used - file[i].used < Resolution

IInv ==
  /\ TypeOK
  /\ Credentials
  /\ Past
  /\ up => NotedIn(list)
  /\ up /\ ~unread => \A i \in DOMAIN list : InFile(i)

--------------------------------------------------------------------------------
(* Lists and times.                                                        *)

LEMMA Clock ==
  /\ LastTick \in Nat /\ Resolution \in Nat /\ Resolution > 0
  /\ Tick = 0 .. LastTick /\ Never = LastTick + 1 /\ Never \in Nat /\ Never \notin Tick
BY TokensAssumption DEF Tick, Never

LEMMA ListShape ==
  ASSUME NEW l \in Seq(Row)
  PROVE  /\ DOMAIN l = 1 .. Len(l) /\ Len(l) \in Nat
         /\ \A i \in DOMAIN l : /\ l[i] \in Row /\ i \in Nat
                                /\ l[i].id \in Token /\ l[i].used \in Tick \cup {Never}
                                /\ l[i].revoked \in BOOLEAN
<1>1. /\ DOMAIN l = 1 .. Len(l) /\ Len(l) \in Nat
      /\ \A i \in DOMAIN l : l[i] \in Row /\ i \in Nat
  OBVIOUS
<1>. QED
  BY <1>1 DEF Row

LEMMA EmptyShape == <<>> \in Seq(Row) /\ DOMAIN <<>> = {} /\ Accepts(<<>>) /\ Ids(<<>>) = {}
BY DEF Accepts, Ids

LEMMA AppendShape ==
  ASSUME NEW l \in Seq(Row), NEW r \in Row
  PROVE  /\ Append(l, r) \in Seq(Row)
         /\ DOMAIN Append(l, r) = 1 .. Len(l) + 1
         /\ \A i \in DOMAIN l : Append(l, r)[i] = l[i]
         /\ Append(l, r)[Len(l) + 1] = r
  OBVIOUS

LEMMA WithoutShape ==
  ASSUME NEW l \in Seq(Row), NEW i \in DOMAIN l
  PROVE  /\ Without(l, i) \in Seq(Row)
         /\ DOMAIN Without(l, i) = 1 .. Len(l) - 1
         /\ \A j \in 1 .. Len(l) - 1 : Without(l, i)[j] = IF j < i THEN l[j] ELSE l[j + 1]
<1>. DEFINE before == SubSeq(l, 1, i - 1)
            after == SubSeq(l, i + 1, Len(l))
<1>1. i \in 1 .. Len(l) /\ Len(l) \in Nat
  OBVIOUS
<1>2. /\ before \in Seq(Row) /\ Len(before) = i - 1
      /\ \A j \in 1 .. i - 1 : before[j] = l[j]
  BY <1>1
<1>3. /\ after \in Seq(Row) /\ Len(after) = Len(l) - i
      /\ \A j \in 1 .. Len(l) - i : after[j] = l[i + j]
  BY <1>1
<1>4. Without(l, i) = before \o after
  BY DEF Without
<1>. HIDE DEF before, after
<1>5. /\ before \o after \in Seq(Row)
      /\ Len(before \o after) = Len(before) + Len(after)
      /\ \A j \in 1 .. Len(before) + Len(after) :
           (before \o after)[j] = IF j <= Len(before) THEN before[j] ELSE after[j - Len(before)]
  BY <1>2, <1>3, ConcatProperties
<1>6. Len(before) + Len(after) = Len(l) - 1
  BY <1>1, <1>2, <1>3
<1>7. ASSUME NEW j \in 1 .. Len(l) - 1
      PROVE  (before \o after)[j] = IF j < i THEN l[j] ELSE l[j + 1]
  <2>1. (before \o after)[j] = IF j <= i - 1 THEN before[j] ELSE after[j - (i - 1)]
    BY <1>2, <1>5, <1>6
  <2>2. CASE j < i
    BY <1>1, <1>2, <2>1, <2>2
  <2>3. CASE ~(j < i)
    <3>1. j - (i - 1) \in 1 .. Len(l) - i /\ i + (j - (i - 1)) = j + 1
      BY <1>1, <2>3
    <3>2. (before \o after)[j] = after[j - (i - 1)]
      BY <1>1, <2>1, <2>3
    <3>. QED
      BY <1>3, <2>3, <3>1, <3>2
  <2>. QED
    BY <2>2, <2>3
<1>. QED
  BY <1>4, <1>5, <1>6, <1>7

\* The ids that a list without one row has.
LEMMA WithoutIds ==
  ASSUME NEW l \in Seq(Row), Accepts(l), NEW i \in DOMAIN l
  PROVE  /\ Accepts(Without(l, i))
         /\ Ids(Without(l, i)) \subseteq Ids(l)
         /\ Active(Without(l, i)) = Active(l) \ {l[i].id}
         /\ \A j \in DOMAIN Without(l, i) : \E k \in DOMAIN l : Without(l, i)[j] = l[k]
<1>. DEFINE new == Without(l, i)
            old(j) == IF j < i THEN j ELSE j + 1
<1>1. /\ DOMAIN l = 1 .. Len(l) /\ Len(l) \in Nat /\ i \in 1 .. Len(l)
      /\ DOMAIN new = 1 .. Len(l) - 1
      /\ \A j \in DOMAIN new : new[j] = l[old(j)]
  BY WithoutShape, ListShape
<1>2. /\ \A j \in DOMAIN new : old(j) \in DOMAIN l \ {i}
      /\ \A j, k \in DOMAIN new : old(j) = old(k) => j = k
      /\ \A k \in DOMAIN l \ {i} : \E j \in DOMAIN new : old(j) = k
  <2>1. /\ \A j \in DOMAIN new : old(j) \in DOMAIN l \ {i}
        /\ \A j, k \in DOMAIN new : old(j) = old(k) => j = k
    BY <1>1
  <2>2. ASSUME NEW k \in DOMAIN l \ {i} PROVE \E j \in DOMAIN new : old(j) = k
    <3>1. CASE k < i
      <4>1. k \in DOMAIN new /\ old(k) = k
        BY <1>1, <3>1
      <4>. QED
        BY <4>1
    <3>2. CASE ~(k < i)
      <4>1. k - 1 \in DOMAIN new /\ old(k - 1) = k
        BY <1>1, <3>2
      <4>. QED
        BY <4>1
    <3>. QED
      BY <3>1, <3>2
  <2>. QED
    BY <2>1, <2>2
<1>. HIDE DEF new, old
<1>3. Accepts(new)
  BY <1>1, <1>2 DEF Accepts
<1>4. Ids(new) \subseteq Ids(l)
  BY <1>1, <1>2 DEF Ids
<1>5. \A j \in DOMAIN new : \E k \in DOMAIN l : new[j] = l[k]
  BY <1>1, <1>2
<1>6. Active(new) \subseteq Active(l) \ {l[i].id}
  BY <1>1, <1>2 DEF Active, Accepts
<1>7. Active(l) \ {l[i].id} \subseteq Active(new)
  <2>1. SUFFICES ASSUME NEW k \in DOMAIN l, ~l[k].revoked, l[k].id # l[i].id
                 PROVE  l[k].id \in Active(new)
    BY DEF Active
  <2>2. PICK j \in DOMAIN new : old(j) = k
    BY <1>2, <2>1
  <2>3. new[j] = l[k]
    BY <1>1, <2>2
  <2>. QED
    BY <2>1, <2>3 DEF Active
<1>. QED
  BY <1>3, <1>4, <1>5, <1>6, <1>7 DEF new

\* A list with other times is the same list of credentials.
LEMMA UsedElsewhere ==
  ASSUME NEW l \in Seq(Row), NEW i \in DOMAIN l, NEW u \in Tick \cup {Never}
  PROVE  LET new == [l EXCEPT ![i].used = u]
         IN  /\ new \in Seq(Row) /\ DOMAIN new = DOMAIN l
             /\ \A j \in DOMAIN l : /\ new[j].id = l[j].id
                                    /\ new[j].revoked = l[j].revoked
                                    /\ new[j].used = IF j = i THEN u ELSE l[j].used
<1>1. l[i] \in Row
  BY ListShape
<1>. DEFINE r == [l[i] EXCEPT !.used = u]
<1>2. r \in Row /\ r.id = l[i].id /\ r.revoked = l[i].revoked /\ r.used = u
  BY <1>1 DEF Row
<1>3. [l EXCEPT ![i].used = u] = [l EXCEPT ![i] = r]
  OBVIOUS
<1>. HIDE DEF r
<1>4. /\ [l EXCEPT ![i] = r] \in Seq(Row) /\ DOMAIN [l EXCEPT ![i] = r] = DOMAIN l
      /\ \A j \in DOMAIN l : [l EXCEPT ![i] = r][j] = IF j = i THEN r ELSE l[j]
  BY <1>2
<1>. QED
  BY <1>2, <1>3, <1>4

LEMMA SameCredentials ==
  ASSUME NEW l, NEW new, DOMAIN new = DOMAIN l,
         \A j \in DOMAIN l : new[j].id = l[j].id /\ new[j].revoked = l[j].revoked
  PROVE  Ids(new) = Ids(l) /\ Active(new) = Active(l) /\ (Accepts(l) => Accepts(new))
BY DEF Ids, Active, Accepts

--------------------------------------------------------------------------------
(* The steps.                                                              *)

LEMMA InitIInv == Init => IInv
<1>. SUFFICES ASSUME Init PROVE IInv
  OBVIOUS
<1>1. /\ up = FALSE /\ now = 0 /\ list = <<>> /\ file = <<>>
      /\ flushed = [t \in Token |-> Never] /\ drawn = {} /\ valid = {}
      /\ unread = FALSE /\ unsaved = {}
  BY DEF Init
<1>2. TypeOK
  <2>1. now \in Tick /\ flushed \in [Token -> Tick \cup {Never}]
    BY <1>1, Clock
  <2>. QED
    BY <1>1, <2>1, EmptyShape DEF TypeOK
<1>3. Credentials
  BY <1>1, EmptyShape DEF Credentials, Active
<1>4. Past
  BY <1>1, EmptyShape DEF Past, Times
<1>. QED
  BY <1>1, <1>2, <1>3, <1>4 DEF IInv

\* A save of a list that keeps the rules, and a failed one, keep the invariant.
LEMMA SaveKeeps ==
  ASSUME IInv, up, NEW new \in Seq(Row), NEW told \in SUBSET Token,
         drawn \subseteq drawn', drawn' \subseteq Token,
         Ids(new) \cup told \subseteq drawn',
         Accepts(new), Active(new) = told, NotedIn(new),
         Save(new, told)
  PROVE  IInv'
<1>1. UNCHANGED <<up, now, flushed>>
  BY DEF Save
<1>2. CASE list' = new /\ file' = new /\ valid' = told /\ unread' = FALSE /\ unsaved' = {}
  <2>1. TypeOK'
    BY <1>1, <1>2 DEF IInv, TypeOK
  <2>2. Credentials'
    BY <1>2 DEF Credentials, Active
  <2>3. Past'
    <3>1. \A i \in DOMAIN new : new[i].used \in Times
      BY DEF NotedIn
    <3>. QED
      BY <1>1, <1>2, <3>1 DEF IInv, Past, Times
  <2>4. NotedIn(list)'
    BY <1>1, <1>2 DEF NotedIn, Times
  <2>5. ASSUME NEW i \in DOMAIN list' PROVE InFile(i)'
    <3>1. new[i].used \in Tick \cup {Never}
      BY <1>2, ListShape
    <3>2. new[i].used - new[i].used < Resolution
      BY <3>1, Clock
    <3>3. flushed[new[i].id] <= new[i].used
      BY <1>2 DEF NotedIn
    <3>. QED
      BY <1>1, <1>2, <3>2, <3>3 DEF InFile
  <2>. QED
    BY <1>2, <2>1, <2>2, <2>3, <2>4, <2>5 DEF IInv
<1>3. CASE UNCHANGED <<list, file, valid, unread, unsaved>>
  <2>1. TypeOK'
    BY <1>1, <1>3 DEF IInv, TypeOK, Accepts, Ids
  <2>2. Credentials' /\ Past'
    BY <1>1, <1>3 DEF IInv, Credentials, Active, Past, Times
  <2>3. NotedIn(list)' /\ (\A i \in DOMAIN list : InFile(i) => InFile(i)')
    BY <1>1, <1>3 DEF IInv, NotedIn, Times, InFile
  <2>. QED
    BY <1>1, <1>3, <2>1, <2>2, <2>3 DEF IInv
<1>. QED
  BY <1>2, <1>3 DEF Save

LEMMA CreateKeeps ==
  ASSUME IInv, NEW t \in Token, NEW label \in Label, Create(t, label)
  PROVE  IInv'
<1>. DEFINE r == [id |-> t, label |-> label, used |-> Never, revoked |-> FALSE]
            new == Append(list, r)
<1>1. /\ up /\ t \notin drawn /\ drawn' = drawn \cup {t} /\ drawn \subseteq Token
      /\ list \in Seq(Row) /\ Accepts(list) /\ Ids(list) \cup valid \subseteq drawn
      /\ Active(list) = valid /\ NotedIn(list)
  BY DEF Create, IInv, TypeOK, Credentials
<1>2. Save(new, valid \cup {t})
  BY DEF Create
<1>3. r \in Row /\ r.id = t /\ r.used = Never /\ ~r.revoked
  BY Clock DEF Row
<1>. HIDE DEF r
<1>4. /\ new \in Seq(Row) /\ DOMAIN new = 1 .. Len(list) + 1
      /\ \A i \in DOMAIN list : new[i] = list[i]
      /\ new[Len(list) + 1] = r
      /\ DOMAIN list = 1 .. Len(list) /\ Len(list) \in Nat
  BY <1>1, <1>3, AppendShape, ListShape
<1>. HIDE DEF new
<1>5. DOMAIN new = DOMAIN list \cup {Len(list) + 1} /\ Len(list) + 1 \notin DOMAIN list
  BY <1>4
<1>6. \A i \in DOMAIN list : list[i].id # t
  BY <1>1 DEF Ids
<1>7. Accepts(new)
  BY <1>1, <1>3, <1>4, <1>5, <1>6 DEF Accepts
<1>8. Ids(new) = Ids(list) \cup {t} /\ Active(new) = Active(list) \cup {t}
  BY <1>3, <1>4, <1>5 DEF Ids, Active
<1>9. flushed[t] = Never
  BY <1>1 DEF IInv, Past
<1>10. NotedIn(new)
  BY <1>1, <1>3, <1>4, <1>5, <1>9, Clock DEF NotedIn, Times
<1>. QED
  BY <1>1, <1>2, <1>4, <1>7, <1>8, <1>10, SaveKeeps

LEMMA DeleteKeeps ==
  ASSUME IInv, NEW ref, Delete(ref)
  PROVE  IInv'
<1>1. PICK i \in DOMAIN list : Save(Without(list, i), valid \ {list[i].id})
  BY DEF Delete
<1>. DEFINE new == Without(list, i)
<1>2. /\ up /\ drawn' = drawn /\ drawn \subseteq Token
      /\ list \in Seq(Row) /\ Accepts(list) /\ Ids(list) \cup valid \subseteq drawn
      /\ Active(list) = valid /\ NotedIn(list)
  BY DEF Delete, IInv, TypeOK, Credentials
<1>3. /\ new \in Seq(Row) /\ Accepts(new) /\ Ids(new) \subseteq Ids(list)
      /\ Active(new) = valid \ {list[i].id}
      /\ \A j \in DOMAIN new : \E k \in DOMAIN list : new[j] = list[k]
  BY <1>2, WithoutShape, WithoutIds
<1>4. NotedIn(new)
  BY <1>2, <1>3 DEF NotedIn
<1>. HIDE DEF new
<1>5. Save(new, valid \ {list[i].id})
  BY <1>1 DEF new
<1>. QED
  BY <1>2, <1>3, <1>4, <1>5, SaveKeeps

LEMMA RevokeKeeps ==
  ASSUME IInv, NEW ref, Revoke(ref)
  PROVE  IInv'
<1>1. PICK i \in DOMAIN list :
        Save([list EXCEPT ![i].revoked = TRUE], valid \ {list[i].id})
  BY DEF Revoke
<1>. DEFINE r == [list[i] EXCEPT !.revoked = TRUE]
            new == [list EXCEPT ![i] = r]
<1>2. /\ up /\ drawn' = drawn /\ drawn \subseteq Token
      /\ list \in Seq(Row) /\ Accepts(list) /\ Ids(list) \cup valid \subseteq drawn
      /\ Active(list) = valid /\ NotedIn(list)
  BY DEF Revoke, IInv, TypeOK, Credentials
<1>3. /\ r \in Row /\ r.id = list[i].id /\ r.used = list[i].used /\ r.revoked
      /\ [list EXCEPT ![i].revoked = TRUE] = new
  <2>1. list[i] \in Row
    BY <1>2, ListShape
  <2>. QED
    BY <2>1 DEF Row
<1>4. Save(new, valid \ {list[i].id})
  BY <1>1, <1>3
<1>. HIDE DEF r
<1>5. /\ new \in Seq(Row) /\ DOMAIN new = DOMAIN list
      /\ \A j \in DOMAIN list : new[j] = IF j = i THEN r ELSE list[j]
  BY <1>2, <1>3
<1>. HIDE DEF new
<1>6. Ids(new) = Ids(list) /\ Accepts(new) /\ NotedIn(new)
  BY <1>2, <1>3, <1>5 DEF Ids, Accepts, NotedIn
<1>7. Active(new) = Active(list) \ {list[i].id}
  BY <1>2, <1>3, <1>5 DEF Active, Accepts
<1>. QED
  BY <1>2, <1>4, <1>5, <1>6, <1>7, SaveKeeps

\* The use is noted in memory; the file has it too, or one that is not old, or the
\* attempt to save it has failed.
LEMMA LookupKeeps == ASSUME IInv, NEW t \in Token, Lookup(t) PROVE IInv'
<1>1. PICK i \in DOMAIN list : Authenticates(t, i) /\ list' = [list EXCEPT ![i].used = now]
  BY DEF Lookup
<1>2. /\ up /\ list[i].id = t /\ UNCHANGED <<up, now, drawn, valid>>
      /\ list \in Seq(Row) /\ Accepts(list) /\ now \in Tick /\ NotedIn(list)
      /\ flushed \in [Token -> Tick \cup {Never}] /\ t \in drawn
  BY <1>1 DEF Authenticates, Lookup, IInv, TypeOK, Ids
<1>3. /\ list' \in Seq(Row) /\ DOMAIN list' = DOMAIN list
      /\ \A j \in DOMAIN list : /\ list'[j].id = list[j].id
                                /\ list'[j].revoked = list[j].revoked
                                /\ list'[j].used = IF j = i THEN now ELSE list[j].used
  BY <1>1, <1>2, UsedElsewhere
<1>4. Ids(list') = Ids(list) /\ Active(list') = Active(list) /\ Accepts(list')
  BY <1>2, <1>3, SameCredentials
<1>5. \A j \in DOMAIN list : j # i => list[j].id # t
  BY <1>2 DEF Accepts
<1>6. now \in Times /\ now # Never /\ now \in Nat /\ Never \in Nat
  BY <1>2, Clock DEF Times
<1>7. \A j \in DOMAIN list : /\ list[j].id \in Token /\ list[j].used \in Nat
                             /\ flushed[list[j].id] \in Nat /\ flushed[list[j].id] \in Times
                             /\ list'[j].used \in Times
  BY <1>2, <1>3, <1>6, ListShape, Clock DEF NotedIn, IInv, Past
<1>8. CASE Stale(t) /\ flushed' = [flushed EXCEPT ![t] = now] /\ file' = list' /\ unread' = FALSE
             /\ unsaved' = {}
  <2>1. \A u \in Token : flushed'[u] = IF u = t THEN now ELSE flushed[u]
    BY <1>2, <1>8
  <2>2. TypeOK'
    BY <1>2, <1>3, <1>4, <1>8, Clock DEF IInv, TypeOK
  <2>3. Credentials'
    BY <1>2, <1>4, <1>8 DEF IInv, Credentials
  <2>4. Past'
    BY <1>2, <1>3, <1>6, <1>7, <1>8, <2>1 DEF IInv, Past, Times
  <2>5. NotedIn(list)'
    BY <1>2, <1>3, <1>5, <1>6, <1>7, <2>1 DEF NotedIn, Times
  <2>6. \A j \in DOMAIN list' : list'[j].used - list'[j].used < Resolution
    BY <1>3, <1>6, <1>7, Clock
  <2>7. \A j \in DOMAIN list' : InFile(j)'
    BY <1>8, <2>5, <2>6 DEF InFile, NotedIn
  <2>. QED
    BY <2>2, <2>3, <2>4, <2>5, <2>7 DEF IInv
<1>9. CASE Stale(t) /\ flushed' = [flushed EXCEPT ![t] = now] /\ unsaved' = unsaved \cup {t}
             /\ UNCHANGED <<file, unread>>
  <2>1. \A u \in Token : flushed'[u] = IF u = t THEN now ELSE flushed[u]
    BY <1>2, <1>9
  <2>2. TypeOK'
    BY <1>2, <1>3, <1>4, <1>9, Clock DEF IInv, TypeOK
  <2>3. Credentials'
    BY <1>2, <1>4, <1>9 DEF IInv, Credentials
  <2>4. Past'
    BY <1>2, <1>3, <1>6, <1>7, <1>9, <2>1 DEF IInv, Past, Times
  <2>5. NotedIn(list)'
    BY <1>2, <1>3, <1>5, <1>6, <1>7, <2>1 DEF NotedIn, Times
  <2>6. \A j \in DOMAIN list : InFile(j) => InFile(j)'
    BY <1>2, <1>3, <1>5, <1>7, <1>9, <2>1 DEF InFile
  <2>. QED
    BY <1>2, <1>3, <1>9, <2>2, <2>3, <2>4, <2>5, <2>6 DEF IInv
<1>10. CASE ~Stale(t) /\ UNCHANGED <<flushed, file, unread, unsaved>>
  <2>1. /\ flushed[t] # Never /\ now - flushed[t] < Resolution
        /\ flushed[t] \in Nat /\ flushed[t] <= now
    BY <1>2, <1>6, <1>7, <1>10, Clock DEF Stale, Times
  <2>2. TypeOK'
    BY <1>2, <1>3, <1>4, <1>10 DEF IInv, TypeOK
  <2>3. Credentials'
    BY <1>2, <1>4, <1>10 DEF IInv, Credentials
  <2>4. Past'
    BY <1>2, <1>3, <1>7, <1>10 DEF IInv, Past, Times
  <2>5. NotedIn(list)'
    BY <1>2, <1>3, <1>5, <1>6, <1>7, <1>10, <2>1 DEF NotedIn, Times
  <2>6. ASSUME NEW j \in DOMAIN list, InFile(j) PROVE InFile(j)'
    <3>1. CASE j # i
      BY <1>3, <1>10, <2>6, <3>1 DEF InFile
    <3>2. CASE j = i
      <4>1. list[i].used # Never
        BY <1>2, <2>1 DEF NotedIn
      <4>2. list'[i].used = now /\ list'[i].id = t
        BY <1>2, <1>3
      <4>3. CASE t \in unsaved
        BY <1>2, <1>3, <1>10, <2>6, <3>2, <4>2, <4>3 DEF InFile
      <4>4. CASE t \notin unsaved
        <5>1. /\ i \in DOMAIN file /\ file[i].id = t /\ file[i].used # Never
              /\ flushed[t] <= file[i].used
          BY <1>2, <2>6, <3>2, <4>1, <4>4 DEF InFile
        <5>2. file[i].used \in Nat
          BY <1>6, <5>1, Clock DEF IInv, Past, Times
        <5>3. now - file[i].used < Resolution
          BY <1>6, <2>1, <5>1, <5>2, Clock
        <5>. QED
          BY <1>2, <1>10, <3>2, <4>2, <5>1, <5>3 DEF InFile
      <4>. QED
        BY <4>3, <4>4
    <3>. QED
      BY <3>1, <3>2
  <2>. QED
    BY <1>2, <1>3, <1>10, <2>2, <2>3, <2>4, <2>5, <2>6 DEF IInv
<1>. QED
  BY <1>8, <1>9, <1>10 DEF Lookup

\* The daemon starts with the file as its list.
LEMMA OpenKeeps == ASSUME IInv, Open PROVE IInv'
<1>1. /\ up' = TRUE /\ list' = file /\ flushed' = [t \in Token |-> UsedIn(file, t)]
      /\ valid' = (IF unread THEN Active(file) ELSE valid)
      /\ unread' = FALSE /\ unsaved' = {} /\ UNCHANGED <<now, file, drawn>>
      /\ Accepts(file) /\ file \in Seq(Row) /\ Ids(file) \subseteq drawn
  BY DEF Open, IInv, TypeOK
<1>2. valid' = Active(file) /\ Active(file) \subseteq Ids(file)
  BY <1>1 DEF IInv, Credentials, Active, Ids
<1>3. \A i \in DOMAIN file : file[i].used \in Times /\ file[i].id \in Token /\ i \in Nat
                             /\ file[i].used \in Tick \cup {Never}
  BY <1>1, ListShape DEF IInv, Past
<1>4. \A i \in DOMAIN file : UsedIn(file, file[i].id) = file[i].used
  BY <1>1 DEF UsedIn, Accepts, Ids
<1>5. \A t \in Token : t \notin Ids(file) => UsedIn(file, t) = Never
  BY DEF UsedIn
<1>6. \A t \in Token : \/ UsedIn(file, t) = Never
                       \/ t \in drawn /\ UsedIn(file, t) \in Times /\ UsedIn(file, t) \in Tick
  <2>1. SUFFICES ASSUME NEW t \in Ids(file)
                 PROVE  t \in drawn /\ UsedIn(file, t) \in Times
                        /\ UsedIn(file, t) \in Tick \cup {Never}
    BY <1>5
  <2>2. PICK i \in DOMAIN file : file[i].id = t
    BY DEF Ids
  <2>. QED
    BY <1>1, <1>3, <1>4, <2>2
<1>7. TypeOK'
  <2>1. flushed' \in [Token -> Tick \cup {Never}]
    BY <1>1, <1>6
  <2>. QED
    BY <1>1, <1>2, <2>1 DEF IInv, TypeOK
<1>8. Credentials'
  BY <1>1, <1>2 DEF Credentials
<1>9. Past'
  BY <1>1, <1>3, <1>6 DEF Past, Times
<1>10. NotedIn(list)'
  <2>1. \A i \in DOMAIN file : file[i].used <= file[i].used
    BY <1>3, Clock
  <2>. QED
    BY <1>1, <1>3, <1>4, <2>1 DEF NotedIn, Times
<1>11. \A i \in DOMAIN list' : InFile(i)'
  <2>1. \A i \in DOMAIN file : /\ file[i].used <= file[i].used
                               /\ file[i].used - file[i].used < Resolution
    BY <1>3, Clock
  <2>. QED
    BY <1>1, <1>3, <1>4, <2>1 DEF InFile
<1>. QED
  BY <1>7, <1>8, <1>9, <1>10, <1>11 DEF IInv

\* The clock, the end of the daemon, and another process.
LEMMA OthersKeep ==
  ASSUME IInv, Pass \/ Ends \/ (\E dump \in Dump : Import(dump)) \/ UNCHANGED vars
  PROVE  IInv'
<1>1. CASE Pass
  <2>1. now' \in Tick /\ Times \subseteq Times'
    BY <1>1, Clock DEF Pass, IInv, TypeOK, Times
  <2>2. TypeOK' /\ Credentials'
    BY <1>1, <2>1 DEF Pass, IInv, TypeOK, Credentials
  <2>3. Past' /\ (up => NotedIn(list)')
    BY <1>1, <2>1 DEF Pass, IInv, Past, NotedIn
  <2>4. \A i \in DOMAIN list : InFile(i) => InFile(i)'
    BY <1>1 DEF Pass, InFile
  <2>. QED
    BY <1>1, <2>2, <2>3, <2>4 DEF Pass, IInv
<1>2. CASE Ends
  <2>1. TypeOK'
    BY <1>2, EmptyShape DEF Ends, IInv, TypeOK
  <2>2. Credentials'
    BY <1>2 DEF Ends, IInv, Credentials
  <2>3. Past'
    BY <1>2, EmptyShape DEF Ends, IInv, Past, Times
  <2>. QED
    BY <1>2, <2>1, <2>2, <2>3 DEF Ends, IInv
<1>3. ASSUME NEW dump \in Dump, Import(dump) PROVE IInv'
  <2>1. dump \in Seq(Row) /\ \A i \in DOMAIN dump : dump[i].used \in Times
    BY <1>3, TokensAssumption DEF Import, Times
  <2>2. Ids(dump) \subseteq Token
    BY <2>1, ListShape DEF Ids
  <2>3. TypeOK'
    BY <1>3, <2>1, <2>2 DEF Import, IInv, TypeOK
  <2>4. Credentials'
    BY <1>3 DEF Import, IInv, Credentials
  <2>5. Past' /\ (up => NotedIn(list)')
    BY <1>3, <2>1 DEF Import, IInv, Past, NotedIn, Times
  <2>. QED
    BY <1>3, <2>3, <2>4, <2>5 DEF Import, IInv
<1>4. CASE UNCHANGED vars
  <2>1. TypeOK' /\ Credentials' /\ Past'
    BY <1>4 DEF vars, IInv, TypeOK, Credentials, Past, Times
  <2>2. NotedIn(list) => NotedIn(list)'
    BY <1>4 DEF vars, NotedIn, Times
  <2>3. \A i \in DOMAIN list : InFile(i) => InFile(i)'
    BY <1>4 DEF vars, InFile
  <2>. QED
    BY <1>4, <2>1, <2>2, <2>3 DEF vars, IInv
<1>. QED
  BY <1>1, <1>2, <1>3, <1>4

LEMMA Invariance == Spec => []IInv
<1>1. IInv /\ [Next]_vars => IInv'
  BY CreateKeeps, DeleteKeeps, RevokeKeeps, LookupKeeps, OpenKeeps, OthersKeep DEF Next
<1>. QED
  BY InitIInv, <1>1, PTL DEF Spec

--------------------------------------------------------------------------------

\* The daemon's list, and every file it has written, is one the next start accepts,
\* for any ids and labels.
THEOREM TypeCorrect == Spec => []TypeOK
<1>1. IInv => TypeOK
  BY DEF IInv
<1>. QED
  BY <1>1, Invariance, PTL

\* A token opens the API exactly if its owner was told it does and not that it no longer
\* does, through failed saves, restarts and imports (Create, Delete, Revoke, Lookup).
THEOREM TokensAreGood == Spec => []Credentials
<1>1. IInv => Credentials
  BY DEF IInv
<1>. QED
  BY <1>1, Invariance, PTL

\* Lookup saves seldom and still loses no more of a last use than LastUsedResolution.
THEOREM LastUseIsSaved == Spec => []LastUseKept
<1>1. IInv => LastUseKept
  BY DEF IInv, InFile, LastUseKept
<1>. QED
  BY <1>1, Invariance, PTL

--------------------------------------------------------------------------------
(* The tokens are a register.                                              *)

InForce == Active(IF up THEN list ELSE file)

LEMMA ActiveTokens ==
  ASSUME NEW l \in Seq(Row)
  PROVE  Active(l) \in SUBSET Token
  BY ListShape DEF Active

\* What is told the owner of a token is what the register does, if the save succeeds.
LEMMA SaveEdits ==
  ASSUME IInv, IInv', up, NEW new, NEW told, Save(new, told),
         \/ \E t \in Token : told = valid \cup {t}
         \/ \E t \in Token : told = valid \ {t}
  PROVE  Promise!Edit \/ UNCHANGED Promise!registerVars
<1>1. up /\ up'
  BY DEF Save
<1>2. InForce = valid /\ InForce' = valid' /\ valid' \in SUBSET Token
  BY <1>1, ActiveTokens DEF InForce, IInv, Credentials, TypeOK
<1>3. CASE valid' = told /\ unread' = FALSE
  <2>1. /\ \A m, n \in valid \ told : m = n
        /\ \A m, n \in told \ valid : m = n
        /\ (valid \ told) \X (told \ valid) = {}
    OBVIOUS
  <2>. QED
    BY <1>1, <1>2, <1>3, <2>1 DEF Promise!Edit, Promise!AtMostOne, InForce
<1>4. CASE UNCHANGED <<list, file, valid, unread, unsaved>>
  BY <1>1, <1>2, <1>4 DEF Promise!registerVars, InForce
<1>. QED
  BY <1>3, <1>4 DEF Save

\* A use that is saved writes the list in force over whatever another process has put in
\* its place; one that is not is nothing to the register.
LEMMA LookupEdits ==
  ASSUME IInv, IInv', NEW t \in Token, Lookup(t)
  PROVE  Promise!Edit \/ UNCHANGED Promise!registerVars
<1>1. up /\ up' /\ valid' = valid
  BY DEF Lookup, Authenticates
<1>2. InForce = valid /\ InForce' = valid /\ valid \in SUBSET Token
  BY <1>1, ActiveTokens DEF InForce, IInv, Credentials, TypeOK
<1>3. CASE unread' = FALSE
  <2>1. /\ \A m, n \in valid \ valid : m = n
        /\ (valid \ valid) \X (valid \ valid) = {}
    OBVIOUS
  <2>. QED
    BY <1>1, <1>2, <1>3, <2>1 DEF Promise!Edit, Promise!AtMostOne, InForce
<1>4. CASE unread' = unread
  BY <1>1, <1>2, <1>4 DEF Promise!registerVars, InForce
<1>. QED
  BY <1>3, <1>4 DEF Lookup

LEMMA OpenBegins == ASSUME IInv, Open PROVE Promise!Begin
<1>1. ~up /\ up' /\ list' = file /\ file' = file /\ unread' = FALSE
  BY DEF Open
<1>. QED
  BY <1>1 DEF Promise!Begin, Active

LEMMA EndsEnds == ASSUME IInv, Ends PROVE Promise!End
<1>1. up /\ ~up' /\ file' = file /\ unread' = unread /\ unread \in BOOLEAN
  BY DEF Ends, IInv, TypeOK
<1>2. InForce = Active(list) /\ InForce' = Active(file)
  BY <1>1 DEF InForce, Active
<1>3. Active(file) \in SUBSET Token
  BY ActiveTokens DEF IInv, TypeOK
<1>4. ~unread => Active(file) = Active(list)
  BY <1>1 DEF IInv, Credentials
<1>. QED
  BY <1>1, <1>2, <1>3, <1>4 DEF Promise!End, InForce

LEMMA ImportReplaces ==
  ASSUME IInv, NEW dump \in Dump, Import(dump)
  PROVE  Promise!Replace
<1>1. up' = up /\ list' = list /\ file' = dump /\ unread' = TRUE /\ up \in BOOLEAN
  BY DEF Import, IInv, TypeOK
<1>2. Active(dump) \in SUBSET Token
  BY ActiveTokens, TokensAssumption
<1>3. CASE up
  BY <1>1, <1>3 DEF Promise!Replace, Active
<1>4. CASE ~up
  <2>1. InForce' = Active(dump)
    BY <1>1, <1>4 DEF InForce, Active
  <2>. QED
    BY <1>1, <1>2, <1>4, <2>1 DEF Promise!Replace, InForce
<1>. QED
  BY <1>3, <1>4

\* As with the users: a step adds or removes one token, what it has done stays done through
\* failed saves and restarts, and only an import does more (tokens.go, under its lock).
THEOREM Refinement == Spec => KeepsPromise
<1>1. Init => Promise!RegisterInit
  <2>1. Init => Active(IF up THEN list ELSE file) = {}
    BY EmptyShape DEF Init, Active
  <2>. QED
    BY <2>1 DEF Init, Promise!RegisterInit
<1>2. IInv /\ IInv' /\ [Next]_vars => [Promise!RegisterNext]_Promise!registerVars
  <2>. SUFFICES ASSUME IInv, IInv', [Next]_vars
                PROVE  Promise!RegisterNext \/ UNCHANGED Promise!registerVars
    OBVIOUS
  <2>1. ASSUME NEW t \in Token, NEW label \in Label, Create(t, label)
        PROVE  Promise!RegisterNext \/ UNCHANGED Promise!registerVars
    BY <2>1, SaveEdits DEF Create, Promise!RegisterNext
  <2>2. ASSUME NEW ref, Delete(ref) \/ Revoke(ref)
        PROVE  Promise!RegisterNext \/ UNCHANGED Promise!registerVars
    <3>1. PICK i \in DOMAIN list : \E new : Save(new, valid \ {list[i].id})
      BY <2>2 DEF Delete, Revoke
    <3>2. up /\ list[i].id \in Token
      BY <2>2, ListShape DEF Delete, Revoke, IInv, TypeOK
    <3>. QED
      BY <3>1, <3>2, SaveEdits DEF Promise!RegisterNext
  <2>3. ASSUME NEW t \in Token, Lookup(t)
        PROVE  Promise!RegisterNext \/ UNCHANGED Promise!registerVars
    BY <2>3, LookupEdits DEF Promise!RegisterNext
  <2>4. CASE Open \/ Ends
    BY <2>4, OpenBegins, EndsEnds DEF Promise!RegisterNext
  <2>5. ASSUME NEW dump \in Dump, Import(dump)
        PROVE  Promise!RegisterNext \/ UNCHANGED Promise!registerVars
    BY <2>5, ImportReplaces DEF Promise!RegisterNext
  <2>6. CASE Pass \/ UNCHANGED vars
    <3>1. UNCHANGED <<up, list, file, unread>>
      BY <2>6 DEF Pass, vars
    <3>. QED
      BY <3>1 DEF Promise!registerVars, Active
  <2>. QED
    BY <2>1, <2>2, <2>3, <2>4, <2>5, <2>6 DEF Next
<1>. QED
  BY <1>1, <1>2, Invariance, PTL DEF Spec, KeepsPromise, Promise!RegisterSpec

================================================================================
