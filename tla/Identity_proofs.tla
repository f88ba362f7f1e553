----------------------------- MODULE Identity_proofs ----------------------------
(***************************************************************************)
(* The key in the links is the installed one, restored users keep theirs,  *)
(* and no key is used that is not on the disk, for any set of keys.        *)
(*                                                                         *)
(* RestoredTogether is not inductive: between two files being read, or     *)
(* replaced, it holds only because of what the other file still says.      *)
(* Restored adds those moments: wherever users of the dump are or are about *)
(* to be, the file has had the dump's key since before.                    *)
(***************************************************************************)
EXTENDS Identity, TLAPS

Restored ==
  /\ file \in Key
  /\ users = "dump" => file = DumpKey
  /\ cli = "users" /\ dump = "dump" => file = DumpKey
  /\ at # "down" /\ memUsers = "dump" => file = DumpKey
  /\ at \notin {"down", "opening"} /\ memUsers = "dump" => mem = DumpKey
  /\ Up /\ installed.users = "dump" => installed.key = DumpKey

IInv ==
  /\ TypeOK
  /\ LinksMatch
  /\ ~meddled => Restored

LEMMA FreshKeys == Fresh \subseteq Key
BY DEF Fresh

LEMMA InitIInv == Init => IInv
<1>. SUFFICES ASSUME Init PROVE IInv
  OBVIOUS
<1>1. TypeOK
  BY IdentityAssumption DEF Init, TypeOK, Config, Users
<1>2. LinksMatch
  BY DEF Init, LinksMatch
<1>3. Restored
  BY IdentityAssumption DEF Init, Restored, Up
<1>. QED
  BY <1>1, <1>2, <1>3 DEF IInv

LEMMA TypeStep == TypeOK /\ [Next]_vars => TypeOK'
<1>. SUFFICES ASSUME TypeOK, [Next]_vars PROVE TypeOK'
  OBVIOUS
<1>. USE IdentityAssumption DEF TypeOK, diskVars, daemonVars, cliVars, Users
<1>1. CASE OpenUsers
  BY <1>1 DEF OpenUsers
<1>2. CASE OpenIdentity
  BY <1>2, FreshKeys DEF OpenIdentity
<1>3. CASE TakeKey
  BY <1>3 DEF TakeKey, Taken
<1>4. CASE Install
  BY <1>4 DEF Install, Config
<1>5. CASE RenderFails
  BY <1>5 DEF RenderFails, Up
<1>6. CASE ChangeUsers
  BY <1>6 DEF ChangeUsers
<1>7. CASE Ends
  BY <1>7 DEF Ends
<1>8. CASE CliOpens
  BY <1>8, FreshKeys DEF CliOpens
<1>9. CASE IdentitySet \/ ImportIdentity
  BY <1>9 DEF IdentitySet, ImportIdentity
<1>10. CASE ImportUsers \/ CliEnds
  BY <1>10 DEF ImportUsers, CliEnds
<1>11. CASE Mishap
  BY <1>11 DEF Mishap
<1>12. CASE UNCHANGED vars
  BY <1>12 DEF vars
<1>. QED
  BY <1>1, <1>2, <1>3, <1>4, <1>5, <1>6, <1>7, <1>8, <1>9, <1>10, <1>11, <1>12
  DEF Next, DaemonStep, CliStep

\* Only a render takes a new key, and it ends in a config with it or in an error.
LEMMA LinksStep == TypeOK /\ LinksMatch /\ [Next]_vars => LinksMatch'
<1>. SUFFICES ASSUME TypeOK, LinksMatch, [Next]_vars PROVE LinksMatch'
  OBVIOUS
<1>. USE DEF LinksMatch, diskVars, daemonVars, cliVars
<1>1. CASE OpenUsers \/ OpenIdentity
  BY <1>1 DEF OpenUsers, OpenIdentity
<1>2. CASE TakeKey \/ Install
  BY <1>2 DEF TakeKey, Install
<1>3. CASE RenderFails
  BY <1>3 DEF RenderFails, Up
<1>4. CASE ChangeUsers \/ Ends
  BY <1>4 DEF ChangeUsers, Ends
<1>5. CASE CliStep \/ Mishap \/ UNCHANGED vars
  BY <1>5 DEF CliStep, CliOpens, IdentitySet, ImportIdentity, ImportUsers, CliEnds,
              Mishap, vars
<1>. QED
  BY <1>1, <1>2, <1>3, <1>4, <1>5 DEF Next, DaemonStep

LEMMA RestoredStep ==
  TypeOK /\ (~meddled => Restored) /\ [Next]_vars => (~meddled' => Restored')
<1>. SUFFICES ASSUME TypeOK, ~meddled => Restored, [Next]_vars, ~meddled'
              PROVE  Restored'
  OBVIOUS
<1>. USE IdentityAssumption DEF diskVars, daemonVars, cliVars, Restored, Up
<1>1. CASE OpenUsers
  BY <1>1 DEF OpenUsers
<1>2. CASE OpenIdentity
  BY <1>2 DEF OpenIdentity
<1>3. CASE TakeKey
  BY <1>3 DEF TakeKey, Taken
<1>4. CASE Install
  BY <1>4 DEF Install
<1>5. CASE RenderFails
  BY <1>5 DEF RenderFails
<1>6. CASE ChangeUsers
  BY <1>6 DEF ChangeUsers
<1>7. CASE Ends \/ CliEnds
  BY <1>7 DEF Ends, CliEnds
<1>8. CASE CliOpens
  BY <1>8 DEF CliOpens
<1>9. CASE ImportIdentity
  BY <1>9 DEF ImportIdentity, TypeOK
<1>10. CASE ImportUsers
  BY <1>10 DEF ImportUsers, TypeOK
<1>11. CASE IdentitySet \/ Mishap
  BY <1>11 DEF IdentitySet, Mishap
<1>12. CASE UNCHANGED vars
  BY <1>12 DEF vars
<1>. QED
  BY <1>1, <1>2, <1>3, <1>4, <1>5, <1>6, <1>7, <1>8, <1>9, <1>10, <1>11, <1>12
  DEF Next, DaemonStep, CliStep

LEMMA Invariance == Spec => []IInv
<1>1. IInv /\ [Next]_vars => IInv'
  BY TypeStep, LinksStep, RestoredStep DEF IInv
<1>. QED
  BY InitIInv, <1>1, PTL DEF Spec

\* Every variable holds a value of its kind, whatever keys there are.
THEOREM TypeCorrect == Spec => []TypeOK
<1>1. IInv => TypeOK
  BY DEF IInv
<1>. QED
  BY <1>1, Invariance, PTL

\* A link handed out carries the key that sing-box is given, but during a render
\* (Manager.render reloads the identity first) and after a failed one.
THEOREM LinksAreGood == Spec => []LinksMatch
<1>1. IInv => LinksMatch
  BY DEF IInv
<1>. QED
  BY <1>1, Invariance, PTL

\* Users restored from a dump are never in use with another key than the dump's, in
\* whatever order Store.Open, Import and renders read and write the two files.
THEOREM RestoredAsDumped == Spec => []RestoredTogether
<1>1. IInv => RestoredTogether
  BY DEF IInv, Restored, RestoredTogether, Up
<1>. QED
  BY <1>1, Invariance, PTL

\* The daemon takes no key over that the next start would not find (OpenIdentity,
\* IdentityStore.Reload).
THEOREM NoKeyIsInvented == Spec => KeysAreKept
<1>1. [Next]_vars => [mem' # mem => file' = mem']_vars
  <2>. SUFFICES ASSUME Next, mem' # mem PROVE file' = mem'
    BY DEF vars, diskVars, daemonVars, cliVars
  <2>. USE DEF diskVars, daemonVars, cliVars
  <2>1. CASE OpenIdentity
    BY <2>1 DEF OpenIdentity
  <2>2. CASE TakeKey
    BY <2>2 DEF TakeKey, Taken
  <2>3. CASE OpenUsers \/ Install \/ RenderFails \/ ChangeUsers \/ Ends
    BY <2>3 DEF OpenUsers, Install, RenderFails, ChangeUsers, Ends
  <2>4. CASE CliStep \/ Mishap
    BY <2>4 DEF CliStep, CliOpens, IdentitySet, ImportIdentity, ImportUsers, CliEnds,
                Mishap
  <2>. QED
    BY <2>1, <2>2, <2>3, <2>4 DEF Next, DaemonStep
<1>. QED
  BY <1>1, PTL DEF Spec, KeysAreKept

================================================================================
