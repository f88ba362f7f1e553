------------------------------ MODULE Backup_proofs -----------------------------
(***************************************************************************)
(* The pusher believes sent only what was sent, sends only what the disk   *)
(* has held, and keeps the floor of mode "all": for any files, settings    *)
(* and durations.                                                          *)
(*                                                                         *)
(* SentInv follows the copy through a pass: what has been read for it the  *)
(* disk has held since it was begun, and what is about to be recorded has  *)
(* been accepted.  FloorInv follows the age of the last copy through the   *)
(* delay and the pass; Floor alone says nothing of how much of the delay   *)
(* is left.                                                                *)
(***************************************************************************)
EXTENDS Backup, TLAPS

SentInv ==
  /\ \A f \in Files : disk[f] \in seen[f]
  /\ at \in {"building", "packing", "pushing", "recording"} =>
       \A f \in DOMAIN read : read[f] \in seen[f]
  /\ at = "recording" => read \in {k.files : k \in kept}

\* How old the last copy is at most when the delay begins.
Latest == Period + PushTimeout - 1

FloorInv ==
  calm => /\ at \notin {"down", "off"}
          /\ last # Nothing
          /\ Settings[cfg].mode = "all" =>
               /\ at = "asleep" => age + wait <= Latest + Delay
               /\ InPass => age <= Latest + Delay + spent

\* What has been read is a function, which TypeOK leaves to its use.
ReadInv == read = [f \in DOMAIN read |-> read[f]]

IInv == TypeOK /\ ReadInv /\ SentInv /\ FloorInv

LEMMA Durations ==
  /\ Delay \in Nat /\ Delay > 0 /\ Period \in Nat /\ Period > 0
  /\ PushTimeout \in Nat /\ PushTimeout > 0 /\ Old \in Nat
BY BackupAssumption DEF Old

\* Contents of some file is a content.
LEMMA ContentsAreContent == \A f \in Files : Contents[f] \subseteq Content
BY DEF Content

LEMMA NothingIsEmpty == DOMAIN Nothing = {} /\ Nothing = [f \in DOMAIN Nothing |-> Nothing[f]]
BY DEF Nothing

\* What a complete reading holds is an archive.
LEMMA AllReadIsArchive == ASSUME TypeOK, ReadInv, AllRead PROVE read \in Archive
<1>1. \A f \in Files : read[f] \in Content
  BY ContentsAreContent DEF TypeOK, AllRead
<1>. QED
  BY <1>1 DEF ReadInv, AllRead, Archive

--------------------------------------------------------------------------------

LEMMA InitIInv == Init => IInv
<1>. SUFFICES ASSUME Init PROVE IInv
  OBVIOUS
<1>. USE Durations, NothingIsEmpty
<1>1. disk \in [Files -> Content] /\ (\A f \in Files : disk[f] \in Contents[f])
  BY BackupAssumption DEF Init
<1>2. seen \in [Files -> SUBSET Content]
  BY <1>1 DEF Init
<1>3. cfg \in Contents[Config] \ {Absent} /\ writes \in 0 .. MaxWrites
  BY BackupAssumption DEF Init
<1>4. TypeOK
  <2>1. at = "down" /\ wait \in 0 .. Delay /\ wait = 0 /\ spent \in 0 .. PushTimeout /\ spent = 0
    BY DEF Init
  <2>2. DOMAIN read = {} /\ last \in Archive \cup {Nothing} /\ age \in 0 .. Old /\ kept = {}
        /\ calm = FALSE
    BY DEF Init
  <2>3. DOMAIN read \subseteq Files /\ \A f \in DOMAIN read : read[f] \in Contents[f]
    BY <2>2
  <2>4. \A k \in kept : k.files \in Archive
    BY <2>2
  <2>5. /\ at \notin {"deciding", "packing", "pushing", "recording"}
        /\ ~(wait > 0) /\ ~(spent > 0)
        /\ at \in {"down", "off", "asleep", "probing", "deciding", "building", "packing",
                   "pushing", "recording"}
    BY <2>1
  <2>. QED
    BY <1>1, <1>2, <1>3, <2>1, <2>2, <2>3, <2>4, <2>5 DEF TypeOK
<1>5. ReadInv /\ SentInv /\ FloorInv
  BY DEF Init, ReadInv, SentInv, FloorInv
<1>. QED
  BY <1>4, <1>5 DEF IInv

\* Reading one more file.
LEMMA ReadsOne ==
  ASSUME TypeOK, ReadInv, NEW f \in Files, Reads(f)
  PROVE  /\ ReadInv'
         /\ DOMAIN read' \subseteq Files
         /\ \A g \in DOMAIN read' : read'[g] \in Contents[g]
         /\ \A g \in DOMAIN read' : \/ g \in DOMAIN read /\ read'[g] = read[g]
                                    \/ g = f /\ read'[g] = disk[f]
<1>1. /\ DOMAIN read' = DOMAIN read \cup {f}
      /\ \A g \in DOMAIN read' : read'[g] = IF g = f THEN disk[f] ELSE read[g]
      /\ read' = [g \in DOMAIN read' |-> read'[g]]
  BY DEF Reads
<1>. QED
  BY <1>1 DEF TypeOK, ReadInv

\* A pass, or the daemon, has ended.
LEMMA PassIsOver ==
  ASSUME TypeOK, at' \in {"asleep", "down"}, wait' \in 0 .. Delay,
         wait' > 0 => at' = "asleep", spent' = 0, read' = Nothing,
         last' \in Archive \cup {Nothing}, age' \in 0 .. Old,
         \A k \in kept' : k.files \in Archive, calm' \in BOOLEAN,
         UNCHANGED <<disk, writes, cfg, seen>>
  PROVE  TypeOK' /\ ReadInv'
<1>1. ReadInv'
  BY NothingIsEmpty DEF ReadInv
<1>2. DOMAIN read' = {}
  BY NothingIsEmpty
<1>. QED
  BY <1>1, <1>2, Durations DEF TypeOK, InPass, AllRead

LEMMA EndPassTypes ==
  EndPass => at' = "asleep" /\ wait' \in 0 .. Delay /\ spent' = 0 /\ read' = Nothing
BY Durations DEF EndPass

LEMMA TypeStep == TypeOK /\ ReadInv /\ [Next]_vars => TypeOK' /\ ReadInv'
<1>. SUFFICES ASSUME TypeOK, ReadInv, [Next]_vars PROVE TypeOK' /\ ReadInv'
  OBVIOUS
<1>. USE Durations, NothingIsEmpty DEF TypeOK, passVars, stateVars, InPass
<1>1. ASSUME NEW f \in Files, Write(f) PROVE TypeOK' /\ ReadInv'
  <2>1. PICK c \in Contents[f] : /\ disk' = [disk EXCEPT ![f] = c]
                                 /\ seen' = [seen EXCEPT ![f] = @ \cup {c}]
    BY <1>1 DEF Write
  <2>2. c \in Content
    BY ContentsAreContent
  <2>3. disk' \in [Files -> Content] /\ \A g \in Files : disk'[g] \in Contents[g]
    BY <2>1, <2>2
  <2>4. seen' \in [Files -> SUBSET Content]
    BY <2>1, <2>2
  <2>5. writes' \in 0 .. MaxWrites
    BY <1>1, BackupAssumption DEF Write
  <2>. QED
    BY <1>1, <2>3, <2>4, <2>5 DEF Write, AllRead, ReadInv
<1>2. CASE Tick
  BY <1>2 DEF Tick, AllRead, ReadInv
<1>3. CASE Boot
  BY <1>3, BackupAssumption DEF Boot, AllRead, ReadInv
<1>4. CASE Ends
  <2>1. /\ at' = "down" /\ wait' = 0 /\ spent' = 0 /\ read' = Nothing /\ calm' = FALSE
        /\ UNCHANGED <<disk, writes, cfg, last, age, kept, seen>>
    BY <1>4 DEF Ends
  <2>2. 0 \in 0 .. Delay /\ ~(0 > 0)
    OBVIOUS
  <2>. QED
    BY <2>1, <2>2, PassIsOver
<1>5. CASE Begin
  BY <1>5 DEF Begin, AllRead, ReadInv
<1>6. ASSUME NEW f \in Files, ProbeFile(f) \/ BuildFile(f) PROVE TypeOK' /\ ReadInv'
  <2>1. Reads(f) /\ UNCHANGED <<disk, writes, cfg, wait, spent, last, age, kept, seen, calm>>
    BY <1>6 DEF ProbeFile, BuildFile
  <2>2. /\ at \in {"probing", "building"}
        /\ at' \in {"probing", "building", "deciding", "packing"}
        /\ at' \in {"deciding", "packing"} => AllRead'
    BY <1>6 DEF ProbeFile, BuildFile, AllRead
  <2>. QED
    BY <2>1, <2>2, ReadsOne
<1>7. CASE NothingToSend
  BY <1>7, EndPassTypes, PassIsOver DEF NothingToSend
<1>8. CASE CopyIsDue
  <2>1. [f \in Files |-> {disk[f]}] \in [Files -> SUBSET Content]
    OBVIOUS
  <2>. QED
    BY <1>8, <2>1 DEF CopyIsDue, AllRead, ReadInv
<1>9. CASE Pack
  BY <1>9 DEF Pack, AllRead, ReadInv
<1>10. CASE Accepted
  BY <1>10, AllReadIsArchive DEF Accepted, AllRead, ReadInv
<1>11. CASE AnswerLost
  <2>1. read \in Archive
    BY <1>11, AllReadIsArchive DEF AnswerLost
  <2>2. \A k \in kept' : k.files \in Archive
    BY <1>11, <2>1 DEF AnswerLost
  <2>. QED
    BY <1>11, <2>2, EndPassTypes, PassIsOver DEF AnswerLost
<1>12. CASE Record
  <2>1. read \in Archive
    BY <1>12, AllReadIsArchive DEF Record
  <2>2. age' \in 0 .. Old
    BY <1>12, BackupAssumption DEF Record, Old
  <2>. QED
    BY <1>12, <2>1, <2>2, EndPassTypes, PassIsOver DEF Record
<1>13. CASE Fails
  BY <1>13, EndPassTypes, PassIsOver DEF Fails
<1>14. CASE UNCHANGED vars
  BY <1>14 DEF vars, AllRead, ReadInv
<1>. QED
  BY <1>1, <1>2, <1>3, <1>4, <1>5, <1>6, <1>7, <1>8, <1>9, <1>10, <1>11, <1>12, <1>13,
     <1>14 DEF Next, PassStep

--------------------------------------------------------------------------------

LEMMA SentStep == IInv /\ [Next]_vars => SentInv'
<1>. SUFFICES ASSUME IInv, [Next]_vars PROVE SentInv'
  OBVIOUS
<1>. USE NothingIsEmpty DEF IInv, SentInv, passVars, stateVars
<1>1. ASSUME NEW f \in Files, Write(f) PROVE SentInv'
  <2>1. PICK c \in Contents[f] : /\ disk' = [disk EXCEPT ![f] = c]
                                 /\ seen' = [seen EXCEPT ![f] = @ \cup {c}]
    BY <1>1 DEF Write
  <2>2. \A g \in Files : disk'[g] \in seen'[g] /\ seen[g] \subseteq seen'[g]
    BY <2>1 DEF TypeOK
  <2>. QED
    BY <1>1, <2>2 DEF Write, TypeOK
<1>2. CASE Tick \/ Boot \/ Begin
  BY <1>2 DEF Tick, Boot, Begin
<1>3. CASE Ends
  BY <1>3 DEF Ends
<1>4. ASSUME NEW f \in Files, ProbeFile(f) PROVE SentInv'
  BY <1>4 DEF ProbeFile
<1>5. ASSUME NEW f \in Files, BuildFile(f) PROVE SentInv'
  <2>1. \A g \in DOMAIN read' : read'[g] \in seen[g]
    BY <1>5, ReadsOne DEF BuildFile
  <2>. QED
    BY <1>5, <2>1 DEF BuildFile
<1>6. CASE NothingToSend \/ AnswerLost \/ Record \/ Fails
  BY <1>6 DEF NothingToSend, AnswerLost, Record, Fails, EndPass
<1>7. CASE CopyIsDue
  BY <1>7 DEF CopyIsDue
<1>8. CASE Pack
  BY <1>8 DEF Pack
<1>9. CASE Accepted
  <2>1. [agent |-> Settings[cfg].agent, files |-> read] \in kept'
    BY <1>9 DEF Accepted
  <2>2. read \in {k.files : k \in kept'}
    BY <2>1
  <2>. QED
    BY <1>9, <2>2 DEF Accepted
<1>10. CASE UNCHANGED vars
  BY <1>10 DEF vars
<1>. QED
  BY <1>1, <1>2, <1>3, <1>4, <1>5, <1>6, <1>7, <1>8, <1>9, <1>10 DEF Next, PassStep

LEMMA FloorStep == IInv /\ [Next]_vars => FloorInv'
<1>. SUFFICES ASSUME IInv, [Next]_vars PROVE FloorInv'
  OBVIOUS
<1>. USE Durations DEF IInv, TypeOK, FloorInv, InPass, Latest, passVars, stateVars
<1>1. ASSUME NEW f \in Files, Write(f) PROVE FloorInv'
  BY <1>1 DEF Write
<1>2. CASE Tick
  BY <1>2 DEF Tick
<1>3. CASE Boot \/ Ends
  BY <1>3 DEF Boot, Ends
<1>4. CASE Begin
  BY <1>4 DEF Begin
<1>5. ASSUME NEW f \in Files, ProbeFile(f) \/ BuildFile(f) PROVE FloorInv'
  BY <1>5 DEF ProbeFile, BuildFile
<1>6. CASE NothingToSend
  BY <1>6 DEF NothingToSend, FloorReached, EndPass
<1>7. CASE CopyIsDue \/ Pack \/ Accepted
  BY <1>7 DEF CopyIsDue, Pack, Accepted
<1>8. CASE AnswerLost \/ Fails
  BY <1>8 DEF AnswerLost, Fails
<1>9. CASE Record
  <2>1. read # Nothing
    BY <1>9, BackupAssumption, NothingIsEmpty DEF Record, AllRead
  <2>. QED
    BY <1>9, <2>1 DEF Record, EndPass
<1>10. CASE UNCHANGED vars
  BY <1>10 DEF vars
<1>. QED
  BY <1>1, <1>2, <1>3, <1>4, <1>5, <1>6, <1>7, <1>8, <1>9, <1>10 DEF Next, PassStep

LEMMA Invariance == Spec => []IInv
<1>1. IInv /\ [Next]_vars => IInv'
  BY TypeStep, SentStep, FloorStep DEF IInv
<1>. QED
  BY InitIInv, <1>1, PTL DEF Spec

--------------------------------------------------------------------------------

\* Decisions, archives and records are made of complete readings, and a pass ends with
\* its deadline, whatever the files, the settings and the durations are.
THEOREM TypeCorrect == Spec => []TypeOK
<1>1. IInv => TypeOK
  BY DEF IInv
<1>. QED
  BY <1>1, Invariance, PTL

\* While nothing fails, mode "all" keeps the last copy younger than the period, two
\* passes and the delay between them (Pusher.Once, BackupAllPeriod).
THEOREM FloorIsKept == Spec => []Floor
<1>1. IInv => Floor
  BY Durations DEF IInv, TypeOK, FloorInv, Floor, InPass, Latest, Old
<1>. QED
  BY <1>1, Invariance, PTL

LEMMA InitPromise == ASSUME Init PROVE Promise!StoreInit
BY DEF Init, Promise!StoreInit

\* A step of the pusher is one of BackupStore, or none.
LEMMA NextPromise ==
  ASSUME IInv, [Next]_vars
  PROVE  [Promise!StoreNext]_(Promise!storeVars)
<1>. USE DEF passVars, stateVars
<1>1. ASSUME NEW f \in Files, Write(f) PROVE Promise!Change
  <2>1. PICK c \in Contents[f] : /\ disk' = [disk EXCEPT ![f] = c]
                                 /\ seen' = [seen EXCEPT ![f] = @ \cup {c}]
    BY <1>1 DEF Write
  <2>2. seen' = [g \in Files |-> seen[g] \cup {disk'[g]}]
    BY <2>1 DEF IInv, TypeOK, SentInv
  <2>3. disk' \in [Files -> Content]
    BY <2>1, ContentsAreContent DEF IInv, TypeOK
  <2>. QED
    BY <1>1, <2>2, <2>3 DEF Write, Promise!Change
<1>2. CASE CopyIsDue
  BY <1>2 DEF CopyIsDue, Promise!BeginCopy, Promise!StoreNext
<1>3. CASE Accepted \/ AnswerLost
  <2>1. read \in Archive /\ \A f \in Files : read[f] \in seen[f]
    BY <1>3, AllReadIsArchive DEF Accepted, AnswerLost, IInv, TypeOK, SentInv, AllRead
  <2>2. kept' = kept \cup {[agent |-> Settings[cfg].agent, files |-> read]}
    BY <1>3 DEF Accepted, AnswerLost
  <2>. DEFINE k0 == [agent |-> Settings[cfg].agent, files |-> read]
  <2>3. {k.files : k \in kept'} = {k.files : k \in kept} \cup {read}
    <3>1. kept' = kept \cup {k0} /\ k0.files = read
      BY <2>2
    <3>. HIDE DEF k0
    <3>. QED
      BY <3>1
  <2>4. Promise!Keep
    BY <1>3, <2>1, <2>3 DEF Accepted, AnswerLost, Archive, Promise!Keep
  <2>. QED
    BY <2>4 DEF Promise!StoreNext
<1>4. CASE Record
  BY <1>4 DEF Record, IInv, SentInv, Promise!Learn, Promise!StoreNext
<1>5. CASE Tick \/ Boot \/ Ends \/ Begin \/ NothingToSend \/ Pack \/ Fails \/ UNCHANGED vars
  BY <1>5 DEF Tick, Boot, Ends, Begin, NothingToSend, Pack, Fails, vars,
              Promise!storeVars
<1>6. ASSUME NEW f \in Files, ProbeFile(f) \/ BuildFile(f)
      PROVE  UNCHANGED Promise!storeVars
  BY <1>6 DEF ProbeFile, BuildFile, Promise!storeVars
<1>. QED
  BY <1>1, <1>2, <1>3, <1>4, <1>5, <1>6 DEF Next, PassStep, Promise!StoreNext

\* The pusher is a backup as BackupStore describes it: it believes sent only what an
\* agent holds, and that is a copy of what the disk held while it was made.
THEOREM Refinement == Spec => KeepsPromise
<1>1. Init => Promise!StoreInit
  BY InitPromise
<1>2. IInv /\ [Next]_vars => [Promise!StoreNext]_(Promise!storeVars)
  BY NextPromise
<1>. QED
  BY <1>1, <1>2, Invariance, PTL DEF Spec, KeepsPromise, Promise!StoreSpec

================================================================================
