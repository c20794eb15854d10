---------------------------- MODULE VaultProofs ----------------------------
(***************************************************************************)
(* Proofs about warden's vault for every set of keys, values and salts and *)
(* every way the master key may depend on the salt: that its answers are   *)
(* kept, that its file can be opened again, and that it implements the     *)
(* abstract store.                                                         *)
(***************************************************************************)
EXTENDS Vault, TLAPS

LEMMA TypeInit == Init => TypeOK
BY KeySource DEF Init, TypeOK, AnySalt, Empty, Maps

(* What the steps of a save rely on: the request being served is the last  *)
(* change of the map, and the files hold the map as it is now.             *)
SaveInv ==
  /\ master_key = KeyFor[salt]
  /\ pc = "down" => secrets = Empty
  /\ Saving \/ pc = "answer" =>
       request \in Requests /\ secrets[request.key] = request.value
  /\ pc = "rename" => tmp = Sealed
  /\ pc = "answer" => file = Sealed

LEMMA TypeStep == TypeOK /\ SaveInv /\ [Next]_vars => TypeOK'
<1> SUFFICES ASSUME TypeOK, SaveInv, [Next]_vars PROVE TypeOK'
  OBVIOUS
<1> USE DEF TypeOK, memory, disk, Maps
<1>1. AnySalt \in Salts /\ KeyFor[AnySalt] \in MasterKeys /\ Empty \in Maps
  BY KeySource DEF AnySalt, Empty
<1>2. CASE Create
  BY <1>1, <1>2, KeySource DEF Create
<1>3. CASE Load
  BY <1>3, KeySource DEF Load, VaultFiles
<1>4. ASSUME NEW k \in Keys, NEW x \in Values \cup {Absent}, Begin(k, x) PROVE TypeOK'
  <2>1. [key |-> k, value |-> x] \in Requests
    BY DEF Requests
  <2> QED  BY <1>4, <2>1 DEF Begin
<1>5. ASSUME NEW k \in Keys, HandleDeleteUnknown(k) PROVE TypeOK'
  <2>1. [key |-> k, value |-> Absent] \in Requests
    BY DEF Requests
  <2> QED  BY <1>5, <2>1 DEF HandleDeleteUnknown
<1>6. CASE Seal
  BY <1>6 DEF Seal
<1>7. CASE OpenTmp
  BY <1>7 DEF OpenTmp
<1>8. CASE WriteTmp
  BY <1>8 DEF WriteTmp, Sealed, VaultFiles
<1>9. CASE Rename
  BY <1>9 DEF Rename
<1>10. CASE AnswerOk
  <2>1. request \in Requests
    BY <1>10 DEF AnswerOk, SaveInv
  <2>2. promised' \in [Keys -> SUBSET (Values \cup {Absent})]
    BY <1>10, <2>1 DEF AnswerOk, Requests
  <2> QED  BY <1>10, <2>2 DEF AnswerOk
<1>11. CASE SaveFails
  BY <1>11 DEF SaveFails
<1>12. CASE Crash
  BY <1>1, <1>12 DEF Crash, Forget
<1>13. CASE Reboot
  <2>1. StoredIn(platter) \in Maps
    BY <1>1 DEF StoredIn, VaultFiles
  <2>2. promised' \in [Keys -> SUBSET (Values \cup {Absent})]
    BY <1>13, <2>1 DEF Reboot
  <2> QED  BY <1>1, <1>13, <2>2 DEF Reboot, Forget
<1>14. CASE WriteBack
  BY <1>14, Markers DEF WriteBack
<1>15. CASE UNCHANGED vars
  BY <1>15 DEF vars
<1> QED
  BY <1>2, <1>3, <1>4, <1>5, <1>6, <1>7, <1>8, <1>9, <1>10, <1>11, <1>12,
     <1>13, <1>14, <1>15
  DEF Next, Start, Step, HandleSet, HandleDelete

-----------------------------------------------------------------------------
LEMMA SealedFacts ==
  ASSUME TypeOK
  PROVE  /\ Sealed \in VaultFiles
         /\ Sealed.salt = salt /\ Sealed.key = master_key /\ Sealed.data = secrets
         /\ Sealed # NoFile /\ Sealed # Torn
         /\ NoFile \notin VaultFiles /\ Torn \notin VaultFiles
<1>1. Sealed \in VaultFiles
  BY DEF TypeOK, Sealed, VaultFiles
<1>2. NoFile \notin VaultFiles /\ Torn \notin VaultFiles
  BY Markers
<1>3. Sealed.salt = salt /\ Sealed.key = master_key /\ Sealed.data = secrets
  BY DEF Sealed
<1> QED  BY <1>1, <1>2, <1>3

(* What is on the disk is no worse than the vault file, or cut short. *)
PlatterInv == platter \in VaultFiles => KeyFor[platter.salt] = platter.key

Inv == TypeOK /\ SaveInv /\ PromisesKept /\ Reopens /\ PlatterInv

LEMMA InvInit == Init => Inv
<1> SUFFICES ASSUME Init PROVE Inv
  OBVIOUS
<1>1. TypeOK
  BY TypeInit
<1>2. SaveInv
  BY DEF Init, SaveInv, Saving
<1>3. Stored = Empty
  BY Markers DEF Init, Stored, StoredIn
<1>4. PromisesKept
  BY <1>3 DEF Init, Empty, PromisesKept
<1>5. Reopens
  BY Markers DEF Init, Reopens
<1>6. PlatterInv
  BY Markers DEF Init, PlatterInv
<1> QED  BY <1>1, <1>2, <1>4, <1>5, <1>6 DEF Inv

LEMMA InvStep == Inv /\ [Next]_vars => Inv'
<1> SUFFICES ASSUME Inv, [Next]_vars PROVE Inv'
  OBVIOUS
<1> DEFINE Kept(f, s, p, up) == \A k \in Keys : f[k] \in p[k] /\ (up => s[k] \in p[k])
<1>1. TypeOK'
  BY TypeStep DEF Inv
<1>2. Kept(Stored, secrets, promised, pc # "down")
  BY DEF Inv, PromisesKept, Get
<1>3. Kept(Stored', secrets', promised', pc' # "down") => PromisesKept'
  BY DEF PromisesKept, Get
<1> HIDE DEF Kept
<1>P. PlatterInv'
  <2>1. CASE WriteBack
    BY <2>1, Markers DEF WriteBack, PlatterInv, Inv, Reopens
  <2>2. CASE UNCHANGED platter
    BY <2>2 DEF PlatterInv, Inv
  <2> QED
    BY <2>1, <2>2
    DEF Next, Start, Create, Load, HandleSet, HandleDelete, HandleDeleteUnknown, Begin,
        Step, Seal, OpenTmp, WriteTmp, Rename, AnswerOk, SaveFails, Crash, Reboot,
        vars, disk
<1>R. Reopens'
  <2>1. CASE Rename
    <3>1. file' = Sealed /\ UNCHANGED <<salt, master_key>>
      BY <2>1 DEF Rename, Inv, SaveInv, memory
    <3> QED  BY <3>1, SealedFacts DEF Reopens, Inv, SaveInv
  <2>2. CASE Reboot
    <3>1. file' = platter /\ platter' = platter /\ pc' = "down"
      BY <2>2 DEF Reboot, Forget
    <3> QED  BY <3>1 DEF Reopens, Inv, PlatterInv
  <2>3. CASE WriteBack
    BY <2>3 DEF WriteBack, Reopens, Inv
  <2>4. CASE Create \/ Load
    BY <2>4, Markers DEF Create, Load, Reopens, Inv, disk
  <2>5. CASE UNCHANGED <<file, platter>> /\ (pc # "down" \/ pc' = pc)
    BY <2>5 DEF Reopens, Inv
  <2> QED
    BY <2>1, <2>2, <2>3, <2>4, <2>5
    DEF Next, Start, HandleSet, HandleDelete, HandleDeleteUnknown, Begin, Step, Seal, OpenTmp,
        WriteTmp, AnswerOk, SaveFails, Saving, Crash, vars, disk
<1>4. SUFFICES SaveInv' /\ Kept(Stored', secrets', promised', pc' # "down")
  BY <1>1, <1>3, <1>P, <1>R DEF Inv
<1> USE DEF Inv, memory, disk, Kept
<1>5. ASSUME UNCHANGED file PROVE Stored' = Stored
  BY <1>5 DEF Stored, StoredIn
<1>6. CASE Create
  <2>1. Stored = Empty
    BY <1>6, Markers DEF Create, Stored, StoredIn
  <2>2. SaveInv'
    BY <1>6, KeySource DEF Create, SaveInv, Saving
  <2> QED  BY <1>2, <1>5, <1>6, <2>1, <2>2 DEF Create, Empty
<1>7. CASE Load
  <2>1. SaveInv'
    BY <1>7 DEF Load, SaveInv, Saving
  <2>2. Stored = secrets'
    BY <1>7 DEF Load, Stored, StoredIn
  <2> QED  BY <1>2, <1>5, <1>7, <2>1, <2>2 DEF Load
<1>8. ASSUME NEW k \in Keys, NEW x \in Values \cup {Absent}, Begin(k, x)
      PROVE  SaveInv' /\ Kept(Stored', secrets', promised', pc' # "down")
  <2>1. [key |-> k, value |-> x] \in Requests
    BY DEF Requests
  <2>2. SaveInv'
    BY <1>8, <2>1 DEF Begin, SaveInv, Saving, TypeOK, Maps
  <2>3. Kept(Stored', secrets', promised', pc' # "down")
    BY <1>2, <1>5, <1>8 DEF Begin, TypeOK, Maps
  <2> QED  BY <1>5, <1>8, <2>2, <2>3 DEF Begin
<1>9. ASSUME NEW k \in Keys, HandleDeleteUnknown(k)
      PROVE  SaveInv' /\ Kept(Stored', secrets', promised', pc' # "down")
  BY <1>2, <1>5, <1>9 DEF HandleDeleteUnknown, SaveInv, Saving, Sealed
<1>10. CASE Seal
  BY <1>2, <1>5, <1>10 DEF Seal, SaveInv, Saving, Sealed
<1>11. CASE OpenTmp
  BY <1>2, <1>5, <1>11 DEF OpenTmp, SaveInv, Saving, Sealed
<1>12. CASE WriteTmp
  BY <1>2, <1>5, <1>12 DEF WriteTmp, SaveInv, Saving, Sealed
<1>13. CASE Rename
  <2>1. /\ file' = Sealed /\ pc = "rename" /\ pc' = "answer"
        /\ UNCHANGED <<memory, request, promised>>
    BY <1>13 DEF Rename, SaveInv
  <2>2. SaveInv'
    BY <2>1 DEF SaveInv, Saving, Sealed
  <2>3. Stored' = secrets
    BY <2>1, SealedFacts DEF Stored, StoredIn
  <2> QED  BY <1>2, <2>1, <2>2, <2>3
<1>14. CASE AnswerOk
  <2>1. /\ file = Sealed /\ request \in Requests /\ secrets[request.key] = request.value
        /\ promised' = [promised EXCEPT ![request.key] = {request.value}]
        /\ pc = "answer" /\ pc' = "ready" /\ UNCHANGED <<memory, disk, request>>
    BY <1>14 DEF AnswerOk, SaveInv
  <2>2. Stored = secrets
    BY <2>1, SealedFacts DEF Stored, StoredIn
  <2>3. Kept(Stored', secrets', promised', pc' # "down")
    BY <1>2, <1>5, <2>1, <2>2 DEF TypeOK, Requests
  <2>4. SaveInv'
    BY <2>1 DEF SaveInv, Saving
  <2> QED  BY <1>5, <2>1, <2>3, <2>4
<1>15. CASE SaveFails
  BY <1>2, <1>5, <1>15 DEF SaveFails, SaveInv, Saving
<1>16. CASE Crash
  BY <1>2, <1>5, <1>16 DEF Crash, Forget, SaveInv, Saving
<1>17. CASE Reboot
  <2>1. Stored' = StoredIn(platter) /\ pc' = "down" /\ file' = platter
    BY <1>17 DEF Reboot, Forget, Stored, StoredIn
  <2>2. SaveInv'
    BY <1>17 DEF Reboot, Forget, SaveInv, Saving
  <2>3. Kept(Stored', secrets', promised', pc' # "down")
    BY <1>17, <2>1 DEF Reboot
  <2> QED  BY <2>2, <2>3
<1>18. CASE UNCHANGED vars
  BY <1>2, <1>5, <1>18 DEF vars, SaveInv, Saving, Sealed
<1>19. CASE WriteBack
  BY <1>2, <1>5, <1>19 DEF WriteBack, SaveInv, Saving, Sealed
<1> QED
  BY <1>6, <1>7, <1>8, <1>9, <1>10, <1>11, <1>12, <1>13, <1>14, <1>15, <1>16,
     <1>17, <1>18, <1>19
  DEF Next, Start, Step, HandleSet, HandleDelete

(* Types, and the agreement of map, files and request in every state. *)
THEOREM InvHolds == Spec => []Inv
<1> QED  BY InvInit, InvStep, PTL DEF Spec

(* vault.rs:19-32.  Map, key, salt and both files keep their types, at     *)
(* every point of a save.                                                  *)
THEOREM TypesHold == Spec => []TypeOK
<1>1. Inv => TypeOK
  BY DEF Inv
<1> QED  BY <1>1, InvHolds, PTL

(* main.rs:151-187.  warden keeps what its answers say, across crashes.    *)
THEOREM PromisesHold == Spec => []PromisesKept
<1>1. Inv => PromisesKept
  BY DEF Inv
<1> QED  BY <1>1, InvHolds, PTL

(* vault.rs:38-113.  The key of the vault file is the one that the salt in *)
(* it leads to, and only the end of the machine cuts the file short.       *)
THEOREM ReopensHolds == Spec => []Reopens
<1>1. Inv => Reopens
  BY DEF Inv
<1> QED  BY <1>1, InvHolds, PTL

-----------------------------------------------------------------------------
(* vault.rs, main.rs:137-188.  Every step of warden is a step of the       *)
(* abstract store, or one it does not see.                                 *)
THEOREM StoreImplemented == Spec => ImplementsStore
<1>1. Init => Store!Init
  BY Markers DEF Init, Store!Init, Store!Empty, Empty, Stored, StoredIn
<1>2. ASSUME Inv, [Next]_vars PROVE [Store!Next]_(Store!vars)
  <2> USE <1>2 DEF Inv, memory, disk
  <2>1. ASSUME UNCHANGED file PROVE Stored' = Stored
    BY <2>1 DEF Stored, StoredIn
  <2>P. ASSUME UNCHANGED platter PROVE UNCHANGED StoredIn(platter)
    BY <2>P DEF StoredIn
  <2>2. CASE Create
    BY <2>1, <2>P, <2>2, Markers DEF Create, Store!Next, Store!Open, Stored, StoredIn
  <2>3. CASE Load
    BY <2>1, <2>P, <2>3 DEF Load, Store!Next, Store!Open, Stored, StoredIn
  <2>4. ASSUME NEW k \in Keys, NEW x \in Values \cup {Absent}, Begin(k, x)
        PROVE  Store!Next
    <3>1. Store!Change(k, x)
      BY <2>1, <2>P, <2>4 DEF Begin, Store!Change
    <3> QED  BY <3>1 DEF Store!Next
  <2>5. ASSUME NEW k \in Keys, HandleDeleteUnknown(k) PROVE Store!Next
    <3>1. Store!Answer("not found")
      BY <2>1, <2>P, <2>5 DEF HandleDeleteUnknown, Store!Answer
    <3> QED  BY <3>1 DEF Store!Next
  <2>6. CASE Seal \/ OpenTmp \/ WriteTmp
    BY <2>1, <2>P, <2>6 DEF Seal, OpenTmp, WriteTmp, Store!vars
  <2>7. CASE Rename
    <3>1. file' = Sealed /\ UNCHANGED <<secrets, answer, platter>> /\ pc = "rename" /\ pc' = "answer"
      BY <2>7 DEF Rename, SaveInv
    <3>2. Stored' = secrets
      BY <3>1, SealedFacts DEF Stored, StoredIn
    <3> QED  BY <2>P, <3>1, <3>2 DEF Store!Next, Store!Persist
  <2>8. CASE AnswerOk
    <3>1. Stored = secrets
      BY <2>8, SealedFacts DEF AnswerOk, SaveInv, Stored, StoredIn
    <3>2. Store!Answer("ok")
      BY <2>1, <2>P, <2>8, <3>1 DEF AnswerOk, Store!Answer
    <3> QED  BY <3>2 DEF Store!Next
  <2>9. CASE SaveFails
    <3>1. Store!Answer("error")
      BY <2>1, <2>P, <2>9 DEF SaveFails, Saving, Store!Answer
    <3> QED  BY <3>1 DEF Store!Next
  <2>10. CASE Crash
    BY <2>1, <2>P, <2>10 DEF Crash, Forget, Store!Next, Store!Crash, Empty, Store!Empty
  <2>11. CASE Reboot
    <3>1. Stored' = StoredIn(platter)
      BY <2>11 DEF Reboot, Stored, StoredIn
    <3> QED
      BY <2>11, <2>P, <3>1 DEF Reboot, Forget, Store!Next, Store!Reboot, Empty, Store!Empty
  <2>12. CASE UNCHANGED vars
    BY <2>1, <2>P, <2>12 DEF vars, Store!vars
  <2>13. CASE WriteBack
    <3>1. CASE platter' = file
      <4>1. StoredIn(platter)' = Stored
        BY <3>1 DEF Stored, StoredIn
      <4> QED  BY <2>1, <2>13, <4>1 DEF WriteBack, Store!Next, Store!Keep
    <3>2. CASE platter = NoFile /\ platter' = Torn
      <4>1. UNCHANGED StoredIn(platter)
        BY <3>2, Markers DEF StoredIn
      <4> QED  BY <2>1, <2>13, <4>1 DEF WriteBack, Store!vars
    <3> QED  BY <2>13, <3>1, <3>2 DEF WriteBack
  <2> QED
    BY <2>2, <2>3, <2>4, <2>5, <2>6, <2>7, <2>8, <2>9, <2>10, <2>11, <2>12, <2>13
    DEF Next, Start, Step, HandleSet, HandleDelete
<1> QED  BY <1>1, <1>2, InvHolds, PTL DEF Spec, ImplementsStore, Store!Spec
=============================================================================
