--------------------------- MODULE SendingProofs ---------------------------
(***************************************************************************)
(* Theorems about Upload, for any contents, limits, number of calls and    *)
(* faults, and about Sending, for any messages, calls, restarts, batches   *)
(* and faults: its types, that a message stored as sent is on the server,  *)
(* that an entry of LocalSendingMessages belongs to one call, and that a   *)
(* message with its number is settled.                                     *)
(***************************************************************************)
EXTENDS MCSending, Sequences, FiniteSetTheorems, WellFoundedInduction, TLAPS

(* Calls that have taken their lock's entry, and have not given it back. *)
Counted == {u \in Calls : pc[u] = "wait" \/ pc[u] \in Inside}

(* Calls that hold their lock. *)
Holders == {u \in Calls : pc[u] \in Inside \/ pc[u] = "release"}

(* A call may have given its name to a lock. *)
Begun == {u \in Calls : pc[u] \notin {"idle", "lock"}}

Users(l) == {u \in Calls : u \in Counted /\ lock[u] = l}

(***************************************************************************)
(* The entry of a hash stays as long as it has users, which its count      *)
(* says; each lock is of one hash; and who holds a lock holds it alone.    *)
(***************************************************************************)
EntryStays == \A u \in Calls : u \in Counted => lock[u] # 0 /\ uploading[hash[u]] = lock[u]
CountIsUsers == \A l \in Calls : count[l] = Cardinality(Users(l))
LockOfOneHash ==
  \A h \in Hashes : uploading[h] # 0 => uploading[h] \in Begun /\ hash[uploading[h]] = h
HeldAlone ==
  /\ \A u \in Calls : u \in Holders => lock[u] \in held
  /\ \A u, v \in Calls : u \in Holders /\ v \in Holders /\ lock[u] = lock[v] => u = v
  /\ \A l \in held : l \in Begun
LockInv == EntryStays /\ CountIsUsers /\ LockOfOneHash /\ HeldAlone

(* What a call has at hand, before it begins and while it sends. *)
Senders == {u \in Calls : pc[u] \in {"parts", "put", "changed"}}
HasUpload ==
  \A u \in Calls : /\ pc[u] = "idle" => bits[u] = {} /\ part[u] = 1
                   /\ u \in Senders => id[u] # 0
                   /\ pc[u] \in {"put", "changed"} => part[u] \in 1..hash[u].parts

(***************************************************************************)
(* As long as the file, the limit and the server's uploads stay, there is  *)
(* one hash.  Until the server has the whole file, an upload that the row  *)
(* names, or a call sends to, is open, and the parts that they take to be  *)
(* sent are stored.                                                        *)
(***************************************************************************)
TheHash == [content |-> disk, parts |-> limit]
OneHash ==
  /\ partLimit \in {0, limit}
  /\ \A u \in Calls : hash[u] = TheHash
  /\ \A u \in Calls : pc[u] # "changed" /\ (pc[u] = "delete" => TheHash \in objects)
  /\ \A h \in Hashes : record[h].id # 0 => h = TheHash
RowIsStored ==
  \A h \in Hashes : record[h].id # 0 =>
    /\ open[record[h].id] = limit
    /\ \A p \in record[h].bits : <<p, disk>> \in stored[record[h].id]
CallIsStored ==
  \A u \in Senders :
    /\ open[id[u]] = limit
    /\ \A p \in 1..limit :
         p \in bits[u] \/ p < part[u] \/ (p = part[u] /\ pc[u] = "put") => <<p, disk>> \in stored[id[u]]
Kept == OneHash /\ (TheHash \notin objects => RowIsStored /\ CallIsStored)
StoredInv == ~tampered => Kept
-----------------------------------------------------------------------------
(* The steps that only go on inside, between Lock and UnlockHash. *)
InsideStep(u) ==
  \/ Resume(u) \/ ForgetRecord(u) \/ AlreadyThere(u) \/ InitiateMultipartUpload(u)
  \/ InitiateFails(u) \/ SkipPart(u) \/ DoPut(u) \/ PartFails(u) \/ SetPart(u)
  \/ Complete(u) \/ CompleteFails(u) \/ DeleteUpload(u)

(* They leave the locks alone, and the call stays inside. *)
LEMMA InsideStays ==
  ASSUME NEW u \in Calls, InsideStep(u)
  PROVE  /\ pc[u] \in Inside /\ \E s \in Inside : Goto(u, s)
         /\ UNCHANGED <<lockVars, hash, worldVars, limit>>
  BY DEF InsideStep, Resume, ForgetRecord, AlreadyThere, InitiateMultipartUpload, InitiateFails,
         SkipPart, DoPut, Missing, PartFails, SetPart, Complete, AllSent, CompleteFails,
         DeleteUpload, Inside, infoVars, serverVars

(* There are finitely many calls. *)
LEMMA UsersFinite ==
  /\ IsFiniteSet(Calls) /\ Cardinality(Calls) = MaxCalls /\ 0 \notin Calls
  /\ \A l \in Calls : IsFiniteSet(Users(l)) /\ Cardinality(Users(l)) \in 0..MaxCalls
<1>1. IsFiniteSet(Calls) /\ Cardinality(Calls) = MaxCalls /\ 0 \notin Calls
  BY BoundAssumption, FS_Interval DEF Calls
<1>2. ASSUME NEW l \in Calls PROVE IsFiniteSet(Users(l)) /\ Cardinality(Users(l)) \in 0..MaxCalls
  <2>1. Users(l) \in SUBSET Calls
    BY DEF Users
  <2>2. IsFiniteSet(Users(l)) /\ Cardinality(Users(l)) <= MaxCalls
    BY <1>1, <2>1, FS_Subset
  <2> QED BY <2>2, FS_CardinalityType, BoundAssumption
<1> QED BY <1>1, <1>2
-----------------------------------------------------------------------------
(* Initially no lock is used. *)
LEMMA LockInit == Init => LockInv
<1> SUFFICES ASSUME Init PROVE LockInv
  OBVIOUS
<1>1. \A u \in Calls : u \notin Counted /\ u \notin Holders
  BY DEF Init, Counted, Holders, Inside
<1>2. \A l \in Calls : Users(l) = {} /\ count[l] = 0
  BY <1>1 DEF Init, Users
<1>3. CountIsUsers
  BY <1>2, FS_EmptySet DEF CountIsUsers
<1>4. LockOfOneHash
  BY DEF Init, LockOfOneHash
<1> QED BY <1>1, <1>3, <1>4 DEF Init, LockInv, EntryStays, HeldAlone

(* A call that goes on where it is. *)
LEMMA LockFrame ==
  ASSUME TypeOK, LockInv, UNCHANGED <<uploading, count, held, lock, hash>>,
         \A u \in Calls : /\ u \in Counted' <=> u \in Counted
                          /\ u \in Holders' <=> u \in Holders
                          /\ u \in Begun => u \in Begun'
  PROVE  LockInv'
<1>1. \A l \in Calls : Users(l)' = Users(l)
  BY DEF Users
<1>2. \A h \in Hashes : uploading[h] # 0 => uploading[h] \in Calls
  BY DEF TypeOK, TypeLocks, TypeCalls
<1>3. CountIsUsers'
  BY <1>1 DEF LockInv, CountIsUsers
<1>4. LockOfOneHash'
  BY <1>2 DEF LockInv, LockOfOneHash
<1>5. held \subseteq Calls
  BY DEF TypeOK, TypeLocks, TypeCalls
<1> QED BY <1>3, <1>4, <1>5 DEF LockInv, EntryStays, HeldAlone

(* lockHash counts a new user of the entry, which it makes when there is none. *)
LEMMA LockLockHash == ASSUME TypeOK, LockInv, NEW u \in Calls, LockHash(u) PROVE LockInv'
<1>0. PICK l \in Calls : l = IF uploading[hash[u]] = 0 THEN u ELSE uploading[hash[u]]
  BY DEF TypeOK, TypeLocks, TypeCalls
<1>1. /\ pc[u] = "lock" /\ pc' = [pc EXCEPT ![u] = "wait"]
      /\ uploading' = [uploading EXCEPT ![hash[u]] = l]
      /\ lock' = [lock EXCEPT ![u] = l] /\ count' = [count EXCEPT ![l] = @ + 1]
      /\ UNCHANGED <<held, hash>>
  BY <1>0 DEF LockHash, Goto, infoVars
<1>2. /\ hash[u] \in Hashes /\ l # 0 /\ 0 \notin Calls
      /\ uploading \in [Hashes -> Calls \cup {0}] /\ lock \in [Calls -> Calls \cup {0}]
      /\ pc \in [Calls -> {"idle", "lock", "wait", "release", "done"} \cup Inside]
      /\ count \in [Calls -> 0..MaxCalls] /\ hash \in [Calls -> Hashes] /\ held \subseteq Calls
  BY UsersFinite DEF TypeOK, TypeLocks, TypeCalls
<1>3. /\ pc'[u] = "wait" /\ lock'[u] = l /\ uploading'[hash[u]] = l
      /\ \A v \in Calls : v # u => pc'[v] = pc[v] /\ lock'[v] = lock[v]
      /\ \A h \in Hashes : h # hash[u] => uploading'[h] = uploading[h]
  BY <1>1, <1>2
<1>4. u \notin Counted /\ u \notin Holders /\ u \in Counted' /\ u \notin Holders' /\ u \notin Begun
        /\ u \in Begun'
  BY <1>1, <1>3 DEF Counted, Holders, Begun, Inside
<1>5. \A v \in Calls : v # u =>
        (v \in Counted' <=> v \in Counted) /\ (v \in Holders' <=> v \in Holders)
          /\ (v \in Begun' <=> v \in Begun)
  BY <1>3 DEF Counted, Holders, Begun
<1>6. uploading[hash[u]] # 0 => l = uploading[hash[u]]
  BY <1>0
<1>7. uploading[hash[u]] = 0 => l = u
  BY <1>0
<1>8. EntryStays'
  <2>1. ASSUME NEW v \in Calls, v # u, v \in Counted PROVE lock'[v] # 0 /\ uploading'[hash[v]] = lock'[v]
    <3>1. lock[v] # 0 /\ uploading[hash[v]] = lock[v] /\ hash[v] \in Hashes
      BY <1>2, <2>1 DEF LockInv, EntryStays
    <3> QED BY <1>3, <1>6, <2>1, <3>1
  <2> QED BY <1>1, <1>2, <1>3, <1>5, <2>1 DEF EntryStays
<1>9. CountIsUsers'
  <2>1. Users(l)' = Users(l) \cup {u}
    BY <1>2, <1>3, <1>4, <1>5 DEF Users
  <2>2. u \notin Users(l)
    BY <1>4 DEF Users
  <2>3. Cardinality(Users(l)') = Cardinality(Users(l)) + 1
    BY <1>2, <2>1, <2>2, UsersFinite, FS_AddElement
  <2>4. ASSUME NEW k \in Calls, k # l PROVE Users(k)' = Users(k)
    BY <1>3, <1>4, <1>5, <2>4 DEF Users
  <2>5. ASSUME NEW k \in Calls PROVE count'[k] = Cardinality(Users(k)')
    <3>1. CASE k = l
      <4>1. count'[l] = count[l] + 1
        BY <1>1, <1>2
      <4> QED BY <1>2, <2>3, <3>1, <4>1 DEF LockInv, CountIsUsers
    <3>2. CASE k # l
      BY <1>1, <1>2, <2>4, <3>2 DEF LockInv, CountIsUsers
    <3> QED BY <3>1, <3>2
  <2> QED BY <2>5 DEF CountIsUsers
<1>10. LockOfOneHash'
  <2>1. ASSUME NEW h \in Hashes, uploading'[h] # 0
        PROVE  uploading'[h] \in Begun' /\ hash'[uploading'[h]] = h
    <3>1. CASE h = hash[u] /\ uploading[h] = 0
      BY <1>1, <1>3, <1>4, <1>7, <3>1
    <3>2. CASE h # hash[u] \/ uploading[h] # 0
      <4>1. uploading'[h] = uploading[h]
        BY <1>3, <1>6, <3>2
      <4>2. uploading[h] \in Calls /\ uploading[h] \in Begun /\ hash[uploading[h]] = h
        BY <1>2, <2>1, <4>1 DEF LockInv, LockOfOneHash
      <4> QED BY <1>1, <1>4, <1>5, <4>1, <4>2
    <3> QED BY <3>1, <3>2
  <2> QED BY <2>1 DEF LockOfOneHash
<1>11. HeldAlone'
  BY <1>1, <1>2, <1>3, <1>4, <1>5 DEF LockInv, HeldAlone
<1> QED BY <1>8, <1>9, <1>10, <1>11 DEF LockInv

(* A free lock is taken: no one holds it. *)
LEMMA LockLock == ASSUME TypeOK, LockInv, NEW u \in Calls, Lock(u) PROVE LockInv'
<1>1. /\ pc[u] = "wait" /\ pc' = [pc EXCEPT ![u] = "record"] /\ lock[u] \notin held
      /\ held' = held \cup {lock[u]} /\ UNCHANGED <<uploading, count, lock, hash>>
  BY DEF Lock, Goto, infoVars
<1>2. /\ pc \in [Calls -> {"idle", "lock", "wait", "release", "done"} \cup Inside]
      /\ uploading \in [Hashes -> Calls \cup {0}] /\ held \subseteq Calls /\ hash \in [Calls -> Hashes]
  BY DEF TypeOK, TypeLocks, TypeCalls
<1>3. pc'[u] = "record" /\ \A v \in Calls : v # u => pc'[v] = pc[v]
  BY <1>1, <1>2
<1>4. /\ \A v \in Calls : (v \in Counted' <=> v \in Counted) /\ (v \in Begun' <=> v \in Begun)
      /\ \A v \in Calls : v # u => (v \in Holders' <=> v \in Holders)
      /\ u \in Counted
  BY <1>1, <1>3 DEF Counted, Holders, Begun, Inside
<1>5. \A l \in Calls : Users(l)' = Users(l)
  BY <1>1, <1>4 DEF Users
<1>6. EntryStays' /\ CountIsUsers'
  BY <1>1, <1>4, <1>5 DEF LockInv, EntryStays, CountIsUsers
<1>7. LockOfOneHash'
  BY <1>1, <1>2, <1>4 DEF LockInv, LockOfOneHash
<1>8. lock[u] = uploading[hash[u]] /\ lock[u] # 0 /\ hash[u] \in Hashes
  BY <1>2, <1>4 DEF LockInv, EntryStays
<1>9. lock[u] \in Begun /\ lock[u] \in Calls
  BY <1>2, <1>8 DEF LockInv, LockOfOneHash
<1>10. HeldAlone'
  BY <1>1, <1>2, <1>4, <1>9 DEF LockInv, HeldAlone
<1> QED BY <1>6, <1>7, <1>10 DEF LockInv

(***************************************************************************)
(* The last user drops the entry: a call of the same hash that is counted  *)
(* would be another user of it.                                            *)
(***************************************************************************)
LEMMA LockUnlockHash == ASSUME TypeOK, LockInv, NEW u \in Calls, UnlockHash(u) PROVE LockInv'
<1>1. /\ pc[u] = "unlock" /\ pc' = [pc EXCEPT ![u] = "release"]
      /\ count' = [count EXCEPT ![lock[u]] = @ - 1]
      /\ uploading' = IF count[lock[u]] = 1 THEN [uploading EXCEPT ![hash[u]] = 0] ELSE uploading
      /\ UNCHANGED <<held, lock, hash>>
  BY DEF UnlockHash, Goto, infoVars
<1>2. /\ pc \in [Calls -> {"idle", "lock", "wait", "release", "done"} \cup Inside]
      /\ uploading \in [Hashes -> Calls \cup {0}] /\ held \subseteq Calls /\ hash \in [Calls -> Hashes]
      /\ lock \in [Calls -> Calls \cup {0}] /\ count \in [Calls -> 0..MaxCalls]
  BY DEF TypeOK, TypeLocks, TypeCalls
<1>3. pc'[u] = "release" /\ \A v \in Calls : v # u => pc'[v] = pc[v]
  BY <1>1, <1>2
<1>4. /\ \A v \in Calls : (v \in Holders' <=> v \in Holders) /\ (v \in Begun' <=> v \in Begun)
      /\ \A v \in Calls : v # u => (v \in Counted' <=> v \in Counted)
      /\ u \in Counted /\ u \notin Counted'
  BY <1>1, <1>3 DEF Counted, Holders, Begun, Inside
<1>5. lock[u] \in Calls /\ lock[u] = uploading[hash[u]] /\ u \in Users(lock[u])
  BY <1>2, <1>4 DEF LockInv, EntryStays, Users
<1>6. Users(lock[u])' = Users(lock[u]) \ {u} /\ \A k \in Calls : k # lock[u] => Users(k)' = Users(k)
  BY <1>1, <1>4 DEF Users
<1>7. CountIsUsers'
  <2>1. Cardinality(Users(lock[u])') = Cardinality(Users(lock[u])) - 1
    BY <1>5, <1>6, UsersFinite, FS_RemoveElement
  <2>2. ASSUME NEW k \in Calls PROVE count'[k] = Cardinality(Users(k)')
    <3>1. CASE k = lock[u]
      BY <1>1, <1>2, <1>5, <2>1, <3>1 DEF LockInv, CountIsUsers
    <3>2. CASE k # lock[u]
      BY <1>1, <1>2, <1>6, <3>2 DEF LockInv, CountIsUsers
    <3> QED BY <3>1, <3>2
  <2> QED BY <2>2 DEF CountIsUsers
<1>8. EntryStays'
  <2>1. ASSUME NEW v \in Calls, v # u, v \in Counted PROVE lock[v] # 0 /\ uploading'[hash[v]] = lock[v]
    <3>1. lock[v] # 0 /\ uploading[hash[v]] = lock[v] /\ hash[v] \in Hashes
      BY <1>2, <2>1 DEF LockInv, EntryStays
    <3>2. CASE hash[v] = hash[u] /\ count[lock[u]] = 1
      <4>1. v \in Users(lock[u])
        BY <1>5, <2>1, <3>1, <3>2 DEF Users
      <4>2. Cardinality(Users(lock[u])) = 1 /\ IsFiniteSet(Users(lock[u]))
        BY <1>5, <3>2, UsersFinite DEF LockInv, CountIsUsers
      <4>3. PICK x : Users(lock[u]) = {x}
        BY <4>2, FS_Singleton
      <4> QED BY <1>5, <2>1, <4>1, <4>3
    <3>3. CASE hash[v] # hash[u] \/ count[lock[u]] # 1
      BY <1>1, <1>2, <3>1, <3>3
    <3> QED BY <3>1, <3>2, <3>3
  <2> QED BY <1>1, <1>4, <2>1 DEF EntryStays
<1>9. LockOfOneHash'
  <2>1. \A h \in Hashes : uploading'[h] # 0 => uploading'[h] = uploading[h] /\ uploading[h] \in Calls
    BY <1>1, <1>2
  <2> QED BY <1>1, <1>4, <2>1 DEF LockInv, LockOfOneHash
<1>10. HeldAlone'
  BY <1>1, <1>2, <1>4 DEF LockInv, HeldAlone
<1> QED BY <1>7, <1>8, <1>9, <1>10 DEF LockInv

(* The lock is released by the only one who holds it. *)
LEMMA LockUnlock == ASSUME TypeOK, LockInv, NEW u \in Calls, Unlock(u) PROVE LockInv'
<1>1. /\ pc[u] = "release" /\ pc' = [pc EXCEPT ![u] = "done"] /\ held' = held \ {lock[u]}
      /\ lock' = [lock EXCEPT ![u] = 0] /\ UNCHANGED <<uploading, count, hash>>
  BY DEF Unlock, Goto
<1>2. /\ pc \in [Calls -> {"idle", "lock", "wait", "release", "done"} \cup Inside]
      /\ uploading \in [Hashes -> Calls \cup {0}] /\ held \subseteq Calls /\ hash \in [Calls -> Hashes]
      /\ lock \in [Calls -> Calls \cup {0}]
  BY DEF TypeOK, TypeLocks, TypeCalls
<1>3. pc'[u] = "done" /\ \A v \in Calls : v # u => pc'[v] = pc[v] /\ lock'[v] = lock[v]
  BY <1>1, <1>2
<1>4. /\ \A v \in Calls : (v \in Counted' <=> v \in Counted) /\ (v \in Begun' <=> v \in Begun)
      /\ \A v \in Calls : v # u => (v \in Holders' <=> v \in Holders)
      /\ u \in Holders /\ u \notin Holders' /\ u \notin Counted
  BY <1>1, <1>3 DEF Counted, Holders, Begun, Inside
<1>5. \A l \in Calls : Users(l)' = Users(l)
  BY <1>3, <1>4 DEF Users
<1>6. EntryStays' /\ CountIsUsers'
  BY <1>1, <1>3, <1>4, <1>5 DEF LockInv, EntryStays, CountIsUsers
<1>7. LockOfOneHash'
  BY <1>1, <1>2, <1>4 DEF LockInv, LockOfOneHash
<1>8. \A v \in Calls : v # u /\ v \in Holders => lock[v] # lock[u]
  BY <1>4 DEF LockInv, HeldAlone
<1>9. HeldAlone'
  BY <1>1, <1>2, <1>3, <1>4, <1>8 DEF LockInv, HeldAlone
<1> QED BY <1>6, <1>7, <1>9 DEF LockInv

(* The locks and their users end with the process. *)
LEMMA LockCrash == TypeOK /\ LockInv /\ Crash => LockInv'
<1> SUFFICES ASSUME TypeOK, LockInv, Crash PROVE LockInv'
  OBVIOUS
<1>1. /\ uploading' = [h \in Hashes |-> 0] /\ count' = [u \in Calls |-> 0] /\ held' = {}
      /\ pc' = [u \in Calls |-> IF pc[u] = "idle" THEN "idle" ELSE "done"]
  BY DEF Crash
<1>2. \A u \in Calls : u \notin Counted' /\ u \notin Holders'
  BY <1>1 DEF Counted, Holders, Inside
<1>3. \A l \in Calls : Users(l)' = {} /\ count'[l] = 0
  BY <1>1, <1>2 DEF Users
<1>4. CountIsUsers'
  BY <1>3, FS_EmptySet DEF CountIsUsers
<1> QED BY <1>1, <1>2, <1>4 DEF LockInv, EntryStays, LockOfOneHash, HeldAlone

(* The beginning of a call, which gives it its hash. *)
LEMMA LockBegin ==
  ASSUME TypeOK, LockInv, NEW u \in Calls, GetPartInfo(u) \/ GetPartInfoFails(u)
  PROVE  LockInv'
<1>1. /\ pc[u] = "idle" /\ (Goto(u, "lock") \/ Goto(u, "done"))
      /\ UNCHANGED <<uploading, count, held, lock>>
      /\ \A v \in Calls : v # u => hash'[v] = hash[v]
  BY DEF GetPartInfo, GetPartInfoFails, Begins, lockVars, infoVars, TypeOK, TypeCalls
<1>2. /\ pc \in [Calls -> {"idle", "lock", "wait", "release", "done"} \cup Inside]
      /\ uploading \in [Hashes -> Calls \cup {0}] /\ held \subseteq Calls
  BY DEF TypeOK, TypeLocks, TypeCalls
<1>3. /\ \A v \in Calls : v # u => pc'[v] = pc[v]
      /\ pc'[u] \in {"lock", "done"}
  BY <1>1, <1>2 DEF Goto
<1>4. /\ \A v \in Calls : (v \in Counted' <=> v \in Counted) /\ (v \in Holders' <=> v \in Holders)
           /\ (v \in Begun => v \in Begun')
      /\ u \notin Begun /\ u \notin Counted
  BY <1>1, <1>3 DEF Counted, Holders, Begun, Inside
<1>5. \A l \in Calls : Users(l)' = Users(l)
  BY <1>1, <1>4 DEF Users
<1>6. CountIsUsers'
  BY <1>1, <1>5 DEF LockInv, CountIsUsers
<1>7. EntryStays'
  BY <1>1, <1>4 DEF LockInv, EntryStays
<1>8. LockOfOneHash'
  BY <1>1, <1>2, <1>4 DEF LockInv, LockOfOneHash
<1>9. HeldAlone'
  BY <1>1, <1>2, <1>4 DEF LockInv, HeldAlone
<1> QED BY <1>6, <1>7, <1>8, <1>9 DEF LockInv

(* Every step preserves the invariant of the locks. *)
LEMMA LockNext == TypeOK /\ LockInv /\ [Next]_vars => LockInv'
<1> SUFFICES ASSUME TypeOK, LockInv, [Next]_vars PROVE LockInv'
  OBVIOUS
<1>1. ASSUME NEW u \in Calls, InsideStep(u) PROVE LockInv'
  <2>1. PICK s \in Inside : Goto(u, s)
    BY <1>1, InsideStays
  <2>2. pc[u] \in Inside /\ UNCHANGED <<uploading, count, held, lock, hash>>
    BY <1>1, InsideStays DEF lockVars
  <2>3. pc'[u] = s /\ \A v \in Calls : v # u => pc'[v] = pc[v]
    BY <2>1 DEF Goto, TypeOK, TypeCalls
  <2>4. \A v \in Calls : /\ v \in Counted' <=> v \in Counted
                         /\ v \in Holders' <=> v \in Holders
                         /\ v \in Begun => v \in Begun'
    BY <2>2, <2>3 DEF Counted, Holders, Begun, Inside
  <2> QED BY <2>2, <2>4, LockFrame
<1>2. ASSUME UNCHANGED <<uploading, count, held, lock, hash, pc>> PROVE LockInv'
  BY <1>2, LockFrame DEF Counted, Holders, Begun
<1>3. CASE World
  <2>1. World /\ ~Crash => UNCHANGED <<uploading, count, held, lock, hash, pc>>
    BY DEF World, FileChanges, LimitChanges, Expire, ServerForgets, lockVars, infoVars
  <2> QED BY <1>2, <1>3, <2>1, LockCrash
<1>4. CASE UNCHANGED vars
  BY <1>2, <1>4 DEF vars, lockVars, infoVars
<1>5. ASSUME NEW u \in Calls, Step(u) PROVE LockInv'
  BY <1>1, <1>5, LockLockHash, LockLock, LockUnlockHash, LockUnlock DEF Step, InsideStep
<1> QED BY <1>3, <1>4, <1>5, LockBegin DEF Next
-----------------------------------------------------------------------------
(* Rows of the table. *)
Rows == [id : Calls \cup {0}, bits : SUBSET Nat, expired : BOOLEAN]

(* A file has a part at least. *)
LEMMA HashType ==
  /\ \A h \in Hashes : h.content \in Contents /\ h.parts \in Limits /\ h.parts \in Nat \ {0}
  /\ \A c \in Contents, l \in Limits : [content |-> c, parts |-> l] \in Hashes
  /\ Calls \subseteq Nat \ {0}
<1>1. \A h \in Hashes : h.content \in Contents /\ h.parts \in Limits
  BY DEF Hashes
<1>2. \A l \in Limits : l \in Nat \ {0}
  BY BoundAssumption
<1>3. \A c \in Contents, l \in Limits : [content |-> c, parts |-> l] \in Hashes
  BY DEF Hashes
<1>4. Calls \subseteq Nat \ {0}
  BY BoundAssumption DEF Calls
<1> QED BY <1>1, <1>2, <1>3, <1>4

(* A write leaves the table with rows of its type, for files of several parts only. *)
LEMMA WriteType ==
  ASSUME TypeRows, NEW h \in Hashes, NEW r \in Rows, r.bits \subseteq 1..h.parts,
         h.parts = 1 => r = None, Write(h, r) \/ Replace(h, r)
  PROVE  TypeRows'
<1>1. None \in Rows /\ None.bits = {}
  BY DEF None, Rows
<1>2. PICK q \in Rows : /\ record' = [record EXCEPT ![h] = q] \/ record' = record
                        /\ q.bits \subseteq 1..h.parts /\ (h.parts = 1 => q = None)
  BY <1>1 DEF Write, Replace
<1>3. record \in [Hashes -> Rows]
  BY DEF TypeRows, Rows
<1>4. record' \in [Hashes -> Rows] /\ \A k \in Hashes : record'[k] = record[k] \/ (k = h /\ record'[k] = q)
  BY <1>2, <1>3
<1> QED BY <1>2, <1>4 DEF TypeRows, Rows

(* What a step leaves alone keeps its type. *)
LEMMA TypeFrame ==
  /\ TypeServer /\ UNCHANGED <<worldVars, serverVars, partLimit>> => TypeServer'
  /\ TypeLocks /\ UNCHANGED lockVars => TypeLocks'
  /\ TypeRows /\ UNCHANGED record => TypeRows'
  BY DEF TypeServer, TypeLocks, TypeRows, worldVars, serverVars, lockVars

(* A call that stays inside keeps what it has at hand. *)
LEMMA CallGoes ==
  ASSUME TypeCalls, HasUpload, NEW u \in Calls, NEW s \in {"lock", "wait", "release", "done"} \cup Inside,
         Goto(u, s), pc[u] # "idle" \/ UNCHANGED part, UNCHANGED hash,
         UNCHANGED id \/ \E i \in Calls : id' = [id EXCEPT ![u] = i],
         s \in {"parts", "put", "changed"} => id'[u] # 0,
         UNCHANGED bits \/ \E b \in SUBSET (1..hash[u].parts) : bits' = [bits EXCEPT ![u] = b],
         pc[u] = "idle" => UNCHANGED bits,
         UNCHANGED part \/ \E p \in 1..(hash[u].parts + 1) : part' = [part EXCEPT ![u] = p],
         s \in {"put", "changed"} => part'[u] \in 1..hash[u].parts
  PROVE  TypeCalls' /\ HasUpload'
<1>1. /\ pc \in [Calls -> {"idle", "lock", "wait", "release", "done"} \cup Inside]
      /\ hash \in [Calls -> Hashes] /\ id \in [Calls -> Calls \cup {0}]
      /\ bits \in [Calls -> SUBSET Nat] /\ part \in [Calls -> Nat]
      /\ \A v \in Calls : hash[v] \in Hashes /\ hash[v].parts \in Nat
  BY HashType DEF TypeCalls
<1>2. /\ pc' \in [Calls -> {"idle", "lock", "wait", "release", "done"} \cup Inside] /\ pc'[u] = s
      /\ \A v \in Calls : v # u => pc'[v] = pc[v]
  BY <1>1 DEF Goto
<1>3. id' \in [Calls -> Calls \cup {0}] /\ \A v \in Calls : v # u => id'[v] = id[v]
  BY <1>1
<1>4. /\ bits' \in [Calls -> SUBSET Nat] /\ bits'[u] \subseteq 1..hash[u].parts
      /\ \A v \in Calls : v # u => bits'[v] = bits[v]
  <2>1. CASE UNCHANGED bits
    BY <1>1, <2>1 DEF TypeCalls
  <2>2. ASSUME NEW b \in SUBSET (1..hash[u].parts), bits' = [bits EXCEPT ![u] = b] PROVE <1>4
    <3>1. b \in SUBSET Nat
      BY <1>1
    <3> QED BY <1>1, <2>2, <3>1
  <2> QED BY <2>1, <2>2
<1>5. /\ part' \in [Calls -> Nat] /\ part'[u] \in 1..(hash[u].parts + 1)
      /\ \A v \in Calls : v # u => part'[v] = part[v]
  BY <1>1 DEF TypeCalls
<1>6. TypeCalls'
  BY <1>1, <1>2, <1>3, <1>4, <1>5 DEF TypeCalls
<1>7. HasUpload'
  BY <1>1, <1>2, <1>3, <1>4, <1>5 DEF HasUpload, Senders, Inside
<1> QED BY <1>6, <1>7

(* Initially every variable has its type. *)
LEMMA TypeInit == Init => TypeOK /\ HasUpload
<1> SUFFICES ASSUME Init PROVE TypeOK /\ HasUpload
  OBVIOUS
<1>1. disk \in Contents /\ limit \in Limits /\ [content |-> disk, parts |-> limit] \in Hashes
  BY ContentAssumption, HashType DEF Init
<1>2. TypeServer
  <2>1. \A S : {} \in SUBSET S
    OBVIOUS
  <2>2. stored \in [Calls -> SUBSET (Nat \X Contents)]
    BY <2>1 DEF Init
  <2>3. changes \in 0..MaxChanges /\ tampered \in BOOLEAN /\ partLimit \in Limits \cup {0}
    <3>1. changes = 0 /\ tampered = FALSE /\ partLimit = 0
      BY DEF Init
    <3>2. changes \in 0..MaxChanges
      BY <3>1, BoundAssumption
    <3>3. tampered \in BOOLEAN
      BY <3>1
    <3> QED BY <3>1, <3>2, <3>3
  <2>4. open \in [Calls -> Limits \cup {0}] /\ objects \subseteq Hashes
    BY DEF Init
  <2> QED BY <1>1, <2>2, <2>3, <2>4 DEF TypeServer
<1>3. TypeLocks
  BY BoundAssumption DEF Init, TypeLocks
<1>4. TypeCalls
  <2>1. /\ hash \in [Calls -> Hashes]
        /\ pc \in [Calls -> {"idle", "lock", "wait", "release", "done"} \cup Inside]
        /\ id \in [Calls -> Calls \cup {0}] /\ bits \in [Calls -> SUBSET Nat] /\ part \in [Calls -> Nat]
    BY <1>1 DEF Init
  <2>2. \A u \in Calls : bits[u] = {} /\ part[u] = 1 /\ hash[u].parts \in Nat
    BY <1>1, HashType DEF Init
  <2> QED BY <2>1, <2>2 DEF TypeCalls
<1>5. TypeRows
  BY DEF Init, TypeRows, None
<1>6. HasUpload
  BY DEF Init, HasUpload, Senders
<1> QED BY <1>2, <1>3, <1>4, <1>5, <1>6 DEF TypeOK

(* The beginning of a call. *)
LEMMA TypeBegin ==
  ASSUME TypeOK, HasUpload, NEW u \in Calls, GetPartInfo(u) \/ GetPartInfoFails(u)
  PROVE  TypeOK' /\ HasUpload'
<1>1. CASE GetPartInfo(u)
  <2>1. PICK h \in Hashes : hash' = [hash EXCEPT ![u] = h]
    <3>1. partLimit' \in Limits /\ disk \in Contents
      BY <1>1 DEF GetPartInfo, TypeOK, TypeServer
    <3> QED BY <1>1, <3>1, HashType DEF GetPartInfo
  <2>2. /\ partLimit' \in Limits \cup {0} /\ UNCHANGED <<worldVars, serverVars, lockVars, record>>
        /\ pc' = [pc EXCEPT ![u] = "lock"] /\ pc[u] = "idle" /\ UNCHANGED <<id, bits, part>>
    BY <1>1 DEF GetPartInfo, Begins, Goto, TypeOK, TypeServer
  <2>3. TypeServer' /\ TypeLocks' /\ TypeRows'
    BY <2>2, TypeFrame DEF TypeOK, TypeServer, worldVars, serverVars
  <2>4. bits[u] = {} /\ part[u] = 1 /\ h.parts \in Nat
    BY <2>2, HashType DEF HasUpload
  <2>5. TypeCalls'
    BY <2>1, <2>2, <2>4 DEF TypeOK, TypeCalls
  <2>6. HasUpload'
    <3>1. pc'[u] = "lock" /\ \A v \in Calls : v # u => pc'[v] = pc[v] /\ hash'[v] = hash[v]
      BY <2>1, <2>2 DEF TypeOK, TypeCalls
    <3> QED BY <2>2, <3>1 DEF HasUpload, Senders
  <2> QED BY <2>3, <2>5, <2>6 DEF TypeOK
<1>2. CASE GetPartInfoFails(u)
  <2>1. Goto(u, "done") /\ UNCHANGED <<worldVars, serverVars, partLimit, lockVars, record, infoVars>>
    BY <1>2 DEF GetPartInfoFails
  <2>2. TypeCalls' /\ HasUpload'
    BY <2>1, CallGoes DEF TypeOK, infoVars
  <2> QED BY <2>1, <2>2, TypeFrame DEF TypeOK
<1> QED BY <1>1, <1>2

(* The steps of the locks; the count has its range because it is that of the users. *)
LEMMA TypeLock ==
  ASSUME TypeOK, HasUpload, LockInv', NEW u \in Calls,
         LockHash(u) \/ Lock(u) \/ UnlockHash(u) \/ Unlock(u)
  PROVE  TypeOK' /\ HasUpload'
<1>0. /\ UNCHANGED <<worldVars, serverVars, partLimit, record>>
      /\ pc[u] # "idle"
  BY DEF LockHash, Lock, UnlockHash, Unlock
<1>1. TypeCalls' /\ HasUpload'
  <2>1. CASE ~Unlock(u)
    <3>1. UNCHANGED <<hash, id, bits, part>> /\ \E s \in {"wait", "record", "release"} : Goto(u, s)
      BY <2>1 DEF LockHash, Lock, UnlockHash, infoVars
    <3> QED BY <1>0, <3>1, CallGoes DEF TypeOK, Inside
  <2>2. CASE Unlock(u)
    <3>1. /\ Goto(u, "done") /\ UNCHANGED hash /\ bits' = [bits EXCEPT ![u] = {}]
          /\ part' = [part EXCEPT ![u] = 1] /\ id' = [id EXCEPT ![u] = 0]
      BY <2>2 DEF Unlock
    <3>2. hash[u].parts \in Nat
      BY HashType DEF TypeOK, TypeCalls
    <3>3. pc' \in [Calls -> {"idle", "lock", "wait", "release", "done"} \cup Inside]
      BY <3>1 DEF Goto, TypeOK, TypeCalls
    <3>4. /\ id' \in [Calls -> Calls \cup {0}] /\ bits' \in [Calls -> SUBSET Nat]
          /\ part' \in [Calls -> Nat] /\ hash' \in [Calls -> Hashes]
      BY <3>1 DEF TypeOK, TypeCalls
    <3>5. /\ pc'[u] = "done" /\ bits'[u] = {} /\ part'[u] = 1
          /\ \A v \in Calls : v # u =>
               pc'[v] = pc[v] /\ id'[v] = id[v] /\ bits'[v] = bits[v] /\ part'[v] = part[v]
      BY <3>1 DEF Goto, TypeOK, TypeCalls
    <3>6. TypeCalls'
      BY <3>1, <3>2, <3>3, <3>4, <3>5 DEF TypeOK, TypeCalls
    <3> QED BY <3>1, <3>5, <3>6 DEF HasUpload, Senders
  <2> QED BY <2>1, <2>2
<1>2. TypeLocks'
  <2>1. /\ uploading \in [Hashes -> Calls \cup {0}] /\ lock \in [Calls -> Calls \cup {0}]
        /\ DOMAIN count = Calls /\ held \subseteq Calls /\ hash \in [Calls -> Hashes]
    BY DEF TypeOK, TypeLocks, TypeCalls
  <2>2. \A l \in Calls : count'[l] \in 0..MaxCalls
    <3>1. \A l \in Calls : Users(l)' \in SUBSET Calls
      BY DEF Users
    <3>2. \A l \in Calls : Cardinality(Users(l)') \in 0..MaxCalls
      BY <3>1, UsersFinite, FS_Subset, FS_CardinalityType, BoundAssumption
    <3> QED BY <3>2 DEF LockInv, CountIsUsers
  <2>3. \/ count' = count
        \/ \E l \in Calls \cup {0} : \E n : count' = [count EXCEPT ![l] = n]
    BY <2>1 DEF LockHash, Lock, UnlockHash, Unlock
  <2>4. count' \in [Calls -> 0..MaxCalls]
    <3>1. CASE count' = count
      BY <3>1 DEF TypeOK, TypeLocks
    <3>2. CASE count' # count
      <4>1. PICK l \in Calls \cup {0} : \E n : count' = [count EXCEPT ![l] = n]
        BY <2>3, <3>2
      <4>2. DOMAIN count' = Calls /\ count' = [k \in Calls |-> count'[k]]
        BY <2>1, <4>1
      <4> QED BY <2>2, <4>2
    <3> QED BY <3>1, <3>2
  <2>5. held' \subseteq Calls
    <3>1. CASE Lock(u)
      <4>1. u \in Holders'
        BY <3>1 DEF Lock, Goto, Holders, Inside, TypeOK, TypeCalls
      <4>2. \A l \in held' : l \in Begun'
        BY DEF LockInv, HeldAlone
      <4> QED BY <4>2 DEF Begun
    <3> QED BY <2>1, <3>1 DEF LockHash, UnlockHash, Unlock
  <2>6. uploading' \in [Hashes -> Calls \cup {0}] /\ lock' \in [Calls -> Calls \cup {0}]
    <3>1. CASE LockHash(u)
      <4>1. PICK l \in Calls : l = IF uploading[hash[u]] = 0 THEN u ELSE uploading[hash[u]]
        BY <2>1
      <4> QED BY <2>1, <3>1, <4>1 DEF LockHash
    <3>2. CASE ~LockHash(u)
      BY <2>1, <3>2 DEF Lock, UnlockHash, Unlock
    <3> QED BY <3>1, <3>2
  <2> QED BY <2>4, <2>5, <2>6 DEF TypeLocks
<1> QED BY <1>0, <1>1, <1>2, TypeFrame DEF TypeOK

(* The steps inside. *)
LEMMA TypeInside ==
  ASSUME TypeOK, HasUpload, NEW u \in Calls, InsideStep(u)
  PROVE  TypeOK' /\ HasUpload'
<1>0. /\ UNCHANGED <<worldVars, limit, lockVars, hash>> /\ pc[u] \in Inside /\ pc[u] # "idle"
      /\ TypeLocks'
  BY InsideStays, TypeFrame DEF TypeOK, Inside
<1>1. /\ hash[u] \in Hashes /\ hash[u].parts \in Nat \ {0} /\ id[u] \in Calls \cup {0}
      /\ bits[u] \subseteq 1..hash[u].parts /\ part[u] \in 1..(hash[u].parts + 1)
      /\ record[hash[u]] \in Rows /\ record[hash[u]].bits \subseteq 1..hash[u].parts
  BY HashType DEF TypeOK, TypeCalls, TypeRows, Rows
<1>2. /\ None \in Rows /\ None.bits = {} /\ None.id = 0
  BY DEF None, Rows
<1>3. CASE Resume(u)
  <2>1. /\ Goto(u, "parts") /\ id' = [id EXCEPT ![u] = record[hash[u]].id]
        /\ bits' = [bits EXCEPT ![u] = record[hash[u]].bits] /\ part' = [part EXCEPT ![u] = 1]
        /\ UNCHANGED <<worldVars, serverVars, partLimit, record>>
        /\ record[hash[u]].id # 0
    BY <1>3 DEF Resume, Resumable
  <2>2. record[hash[u]].id \in Calls /\ id'[u] = record[hash[u]].id
    BY <1>1, <2>1 DEF Rows, TypeOK, TypeCalls
  <2>3. TypeCalls' /\ HasUpload'
    <3>0. /\ 1 \in 1..(hash[u].parts + 1) /\ record[hash[u]].bits \in SUBSET (1..hash[u].parts)
          /\ record[hash[u]].id \in Calls
      BY <1>1, <2>1, <2>2
    <3>1. /\ \E i \in Calls : id' = [id EXCEPT ![u] = i]
          /\ \E b \in SUBSET (1..hash[u].parts) : bits' = [bits EXCEPT ![u] = b]
          /\ \E p \in 1..(hash[u].parts + 1) : part' = [part EXCEPT ![u] = p]
      BY <2>1, <3>0, Zenon
    <3> QED BY <1>0, <2>1, <2>2, <3>1, CallGoes DEF TypeOK, Inside
  <2> QED BY <1>0, <2>1, <2>3, TypeFrame DEF TypeOK
<1>4. CASE ForgetRecord(u) \/ DeleteUpload(u)
  <2>1. /\ Goto(u, "initiate") \/ Goto(u, "unlock")
        /\ UNCHANGED <<worldVars, serverVars, partLimit, id, bits, part>>
        /\ Write(hash[u], None) \/ UNCHANGED record
    BY <1>4 DEF ForgetRecord, DeleteUpload, infoVars
  <2>2. TypeRows'
    BY <1>1, <1>2, <2>1, WriteType, TypeFrame DEF TypeOK
  <2>3. TypeCalls' /\ HasUpload'
    BY <1>0, <2>1, CallGoes DEF TypeOK, Inside
  <2> QED BY <1>0, <2>1, <2>2, <2>3, TypeFrame DEF TypeOK
<1>5. CASE AlreadyThere(u) \/ InitiateFails(u) \/ PartFails(u) \/ CompleteFails(u)
  <2>1. Goto(u, "unlock") /\ UNCHANGED <<worldVars, serverVars, partLimit, record, id, bits, part>>
    BY <1>5 DEF AlreadyThere, InitiateFails, PartFails, CompleteFails, infoVars
  <2>2. TypeCalls' /\ HasUpload'
    BY <1>0, <2>1, CallGoes DEF TypeOK, Inside
  <2> QED BY <1>0, <2>1, <2>2, TypeFrame DEF TypeOK
<1>6. CASE InitiateMultipartUpload(u)
  <2> DEFINE r == [id |-> u, bits |-> {}, expired |-> FALSE]
  <2>1. /\ open' = [open EXCEPT ![u] = limit] /\ id' = [id EXCEPT ![u] = u]
        /\ bits' = [bits EXCEPT ![u] = {}] /\ part' = [part EXCEPT ![u] = 1]
        /\ Goto(u, "parts") \/ Goto(u, "unlock")
        /\ partLimit' = partLimit \/ partLimit' = 0
        /\ UNCHANGED <<worldVars, stored, objects>>
    BY <1>6 DEF InitiateMultipartUpload
  <2>2. UNCHANGED record \/ (Replace(hash[u], r) /\ hash[u].parts > 1)
    BY <1>6 DEF InitiateMultipartUpload, Recorded
  <2>3. r \in Rows /\ r.bits = {}
    BY DEF Rows
  <2>4. TypeRows'
    BY <1>1, <2>2, <2>3, WriteType, TypeFrame DEF TypeOK
  <2>5. TypeServer'
    BY <1>0, <2>1 DEF TypeOK, TypeServer, worldVars
  <2>6. id'[u] = u /\ u # 0 /\ part'[u] = 1
    BY <2>1, HashType DEF TypeOK, TypeCalls
  <2>7. TypeCalls' /\ HasUpload'
    <3>0. /\ 1 \in 1..(hash[u].parts + 1) /\ {} \in SUBSET (1..hash[u].parts)
          /\ u \in Calls
      BY <1>1, <2>1
    <3>1. /\ \E i \in Calls : id' = [id EXCEPT ![u] = i]
          /\ \E b \in SUBSET (1..hash[u].parts) : bits' = [bits EXCEPT ![u] = b]
          /\ \E p \in 1..(hash[u].parts + 1) : part' = [part EXCEPT ![u] = p]
      BY <2>1, <3>0, Zenon
    <3> QED BY <1>0, <2>1, <2>6, <3>1, CallGoes DEF TypeOK, Inside
  <2> QED BY <1>0, <2>4, <2>5, <2>7 DEF TypeOK
<1>7. CASE SkipPart(u)
  <2>1. /\ pc[u] = "parts" /\ part[u] \in bits[u]
        /\ \/ Goto(u, "parts") /\ part' = [part EXCEPT ![u] = part[u] + 1]
           \/ Goto(u, "unlock") /\ UNCHANGED part
        /\ UNCHANGED <<worldVars, serverVars, partLimit, record, id, bits>>
    BY <1>7 DEF SkipPart
  <2>2. part[u] + 1 \in 1..(hash[u].parts + 1)
    BY <1>1, <2>1
  <2>3. id[u] # 0
    BY <2>1 DEF HasUpload, Senders
  <2>4. TypeCalls' /\ HasUpload'
    <3>1. CASE Goto(u, "parts") /\ part' = [part EXCEPT ![u] = part[u] + 1]
      <4>1. \E p \in 1..(hash[u].parts + 1) : part' = [part EXCEPT ![u] = p]
        BY <2>2, <3>1
      <4> QED BY <1>0, <2>1, <2>3, <3>1, <4>1, CallGoes DEF TypeOK, Inside
    <3>2. CASE Goto(u, "unlock") /\ UNCHANGED part
      BY <1>0, <2>1, <3>2, CallGoes DEF TypeOK, Inside
    <3> QED BY <2>1, <3>1, <3>2
  <2> QED BY <1>0, <2>1, <2>4, TypeFrame DEF TypeOK
<1>8. CASE DoPut(u)
  <2>1. /\ pc[u] = "parts" /\ part[u] \in 1..hash[u].parts
        /\ Goto(u, "put") \/ Goto(u, "changed") \/ Goto(u, "unlock")
        /\ stored' = [stored EXCEPT ![id[u]] = {p \in @ : p[1] # part[u]} \cup {<<part[u], disk>>}]
        /\ UNCHANGED <<worldVars, limit, open, objects, partLimit, record, id, bits, part>>
    BY <1>8 DEF DoPut, Missing
  <2>2. id[u] \in Calls /\ id[u] # 0 /\ part[u] \in Nat /\ disk \in Contents
    BY <1>1, <2>1 DEF HasUpload, Senders, TypeOK, TypeServer
  <2>3. stored' \in [Calls -> SUBSET (Nat \X Contents)]
    <3>1. stored \in [Calls -> SUBSET (Nat \X Contents)] /\ <<part[u], disk>> \in Nat \X Contents
      BY <2>2 DEF TypeOK, TypeServer
    <3>2. {p \in stored[id[u]] : p[1] # part[u]} \cup {<<part[u], disk>>} \in SUBSET (Nat \X Contents)
      BY <2>2, <3>1
    <3> QED BY <2>1, <3>1, <3>2
  <2>4. TypeServer'
    BY <2>1, <2>3 DEF TypeOK, TypeServer, worldVars
  <2>5. TypeCalls' /\ HasUpload'
    BY <1>0, <2>1, <2>2, CallGoes DEF TypeOK, Inside
  <2> QED BY <1>0, <2>1, <2>4, <2>5, TypeFrame DEF TypeOK
<1>9. CASE SetPart(u)
  <2>1. /\ pc[u] \in {"put", "changed"}
        /\ \/ Goto(u, "parts") /\ part' = [part EXCEPT ![u] = part[u] + 1]
           \/ Goto(u, "unlock") /\ UNCHANGED part
        /\ \/ UNCHANGED <<bits, record>>
           \/ /\ bits' = [bits EXCEPT ![u] = bits[u] \cup {part[u]}] /\ UpdateUpload(u, bits'[u])
              /\ hash[u].parts > 1
        /\ UNCHANGED <<worldVars, serverVars, partLimit, id>>
    BY <1>9 DEF SetPart, Recorded
  <2>2. part[u] \in 1..hash[u].parts /\ id[u] # 0 /\ id[u] \in Calls
    BY <1>1, <2>1 DEF HasUpload, Senders
  <2>3. part[u] + 1 \in 1..(hash[u].parts + 1) /\ bits[u] \cup {part[u]} \in SUBSET (1..hash[u].parts)
    BY <1>1, <2>2
  <2>4. TypeCalls' /\ HasUpload'
    <3>1. UNCHANGED bits \/ \E b \in SUBSET (1..hash[u].parts) : bits' = [bits EXCEPT ![u] = b]
      BY <2>1, <2>3
    <3>2. UNCHANGED part \/ \E p \in 1..(hash[u].parts + 1) : part' = [part EXCEPT ![u] = p]
      BY <2>1, <2>3
    <3> QED BY <1>0, <2>1, <2>2, <3>1, <3>2, CallGoes DEF TypeOK, Inside
  <2>5. TypeRows'
    <3>1. CASE UNCHANGED record
      BY <3>1, TypeFrame DEF TypeOK
    <3>2. CASE ~UNCHANGED record
      <4>1. /\ bits'[u] = bits[u] \cup {part[u]} /\ hash[u].parts > 1
            /\ \E e \in BOOLEAN : Write(hash[u], [id |-> id[u], bits |-> bits'[u], expired |-> e])
        BY <1>1, <2>1, <3>2 DEF UpdateUpload, TypeOK, TypeCalls, Rows
      <4>2. PICK e \in BOOLEAN : Write(hash[u], [id |-> id[u], bits |-> bits'[u], expired |-> e])
        BY <4>1
      <4>3. PICK b \in SUBSET Nat : b = bits'[u] /\ b \subseteq 1..hash[u].parts
        BY <1>1, <2>3, <4>1
      <4>4. [id |-> id[u], bits |-> b, expired |-> e] \in Rows
        BY <2>2 DEF Rows
      <4> QED BY <1>1, <4>1, <4>2, <4>3, <4>4, WriteType DEF TypeOK
    <3> QED BY <3>1, <3>2
  <2> QED BY <1>0, <2>1, <2>4, <2>5, TypeFrame DEF TypeOK
<1>10. CASE Complete(u)
  <2>1. /\ Goto(u, "delete") \/ Goto(u, "unlock")
        /\ UNCHANGED <<worldVars, limit, stored, partLimit, record, id, bits, part>>
        /\ \/ UNCHANGED <<open, objects>>
           \/ open' = [open EXCEPT ![id[u]] = 0] /\ objects' = objects \cup {hash[u]}
    BY <1>10 DEF Complete, infoVars
  <2>2. TypeServer'
    BY <1>1, <2>1 DEF TypeOK, TypeServer, worldVars
  <2>3. TypeCalls' /\ HasUpload'
    BY <1>0, <2>1, CallGoes DEF TypeOK, Inside
  <2> QED BY <1>0, <2>1, <2>2, <2>3, TypeFrame DEF TypeOK
<1> QED BY <1>3, <1>4, <1>5, <1>6, <1>7, <1>8, <1>9, <1>10 DEF InsideStep

(* What happens around the calls. *)
LEMMA TypeWorld == TypeOK /\ HasUpload /\ World => TypeOK' /\ HasUpload'
<1> SUFFICES ASSUME TypeOK, HasUpload, World PROVE TypeOK' /\ HasUpload'
  OBVIOUS
<1>1. \A k : Change(k) => changes' \in 0..MaxChanges
  BY BoundAssumption DEF Change, TypeOK, TypeServer
<1>2. CASE FileChanges \/ LimitChanges
  <2>1. TypeServer'
    BY <1>1, <1>2 DEF FileChanges, LimitChanges, TypeOK, TypeServer, serverVars
  <2>2. UNCHANGED <<lockVars, record, pc, hash, id, bits, part>>
    BY <1>2 DEF FileChanges, LimitChanges, infoVars
  <2>3. TypeCalls' /\ HasUpload'
    BY <2>2 DEF TypeOK, TypeCalls, HasUpload, Senders
  <2> QED BY <2>1, <2>2, <2>3, TypeFrame DEF TypeOK
<1>3. ASSUME NEW u \in Calls, ServerForgets(u) PROVE TypeOK' /\ HasUpload'
  <2>1. /\ open' = [open EXCEPT ![u] = 0] /\ stored' = [stored EXCEPT ![u] = {}]
        /\ changes' \in 0..MaxChanges /\ tampered' = TRUE
        /\ UNCHANGED <<disk, limit, objects, partLimit>>
    BY <1>1, <1>3 DEF ServerForgets
  <2>2. \A S : {} \in SUBSET S
    OBVIOUS
  <2>3. stored' \in [Calls -> SUBSET (Nat \X Contents)]
    BY <2>1, <2>2 DEF TypeOK, TypeServer
  <2>4. TypeServer'
    BY <2>1, <2>3 DEF TypeOK, TypeServer
  <2>5. UNCHANGED <<lockVars, record, pc, hash, id, bits, part>>
    BY <1>3 DEF ServerForgets, infoVars
  <2>6. TypeCalls' /\ HasUpload'
    BY <2>5 DEF TypeOK, TypeCalls, HasUpload, Senders
  <2> QED BY <2>4, <2>5, <2>6, TypeFrame DEF TypeOK
<1>4. ASSUME NEW h \in Hashes, Expire(h) PROVE TypeOK' /\ HasUpload'
  <2>1. /\ record' = [record EXCEPT ![h].expired = TRUE] /\ record[h].id # 0
        /\ changes' \in 0..MaxChanges
        /\ UNCHANGED <<disk, tampered, serverVars, partLimit, lockVars, pc, infoVars>>
    BY <1>1, <1>4 DEF Expire
  <2>2. TypeRows'
    <3>1. record \in [Hashes -> Rows] /\ h.parts # 1
      BY <2>1 DEF TypeOK, TypeRows, Rows, None
    <3>2. /\ record' \in [Hashes -> Rows] /\ record'[h].bits = record[h].bits
          /\ \A k \in Hashes : k # h => record'[k] = record[k]
      BY <2>1, <3>1 DEF Rows
    <3> QED BY <3>1, <3>2 DEF TypeOK, TypeRows, Rows
  <2>3. TypeServer'
    BY <2>1 DEF TypeOK, TypeServer, serverVars
  <2>4. TypeCalls' /\ HasUpload'
    BY <2>1 DEF TypeOK, TypeCalls, HasUpload, Senders, infoVars
  <2> QED BY <2>1, <2>2, <2>3, <2>4, TypeFrame DEF TypeOK
<1>5. CASE Crash
  <2>1. /\ changes' \in 0..MaxChanges /\ partLimit' = 0
        /\ UNCHANGED <<disk, tampered, limit, open, stored, objects, record, hash>>
        /\ pc' = [u \in Calls |-> IF pc[u] = "idle" THEN "idle" ELSE "done"]
        /\ id' = [u \in Calls |-> 0] /\ bits' = [u \in Calls |-> {}] /\ part' = [u \in Calls |-> 1]
    BY <1>1, <1>5 DEF Crash, serverVars
  <2>2. TypeServer' /\ TypeRows'
    BY <2>1 DEF TypeOK, TypeServer, TypeRows
  <2>3. TypeLocks'
    BY <1>5, BoundAssumption DEF Crash, TypeLocks
  <2>4. TypeCalls'
    <3>1. /\ pc' \in [Calls -> {"idle", "lock", "wait", "release", "done"} \cup Inside]
          /\ id' \in [Calls -> Calls \cup {0}] /\ bits' \in [Calls -> SUBSET Nat]
          /\ part' \in [Calls -> Nat] /\ hash' \in [Calls -> Hashes]
      BY <2>1 DEF TypeOK, TypeCalls
    <3>2. \A u \in Calls : hash'[u].parts \in Nat /\ bits'[u] = {} /\ part'[u] = 1
      BY <2>1, HashType DEF TypeOK, TypeCalls
    <3> QED BY <3>1, <3>2 DEF TypeCalls
  <2>5. HasUpload'
    BY <2>1 DEF HasUpload, Senders
  <2> QED BY <2>2, <2>3, <2>4, <2>5 DEF TypeOK
<1> QED BY <1>2, <1>3, <1>4, <1>5 DEF World

(* Every step preserves the types and the invariant of the locks. *)
LEMMA TypeNext ==
  TypeOK /\ HasUpload /\ LockInv /\ [Next]_vars => TypeOK' /\ HasUpload' /\ LockInv'
<1> SUFFICES ASSUME TypeOK, HasUpload, LockInv, [Next]_vars PROVE TypeOK' /\ HasUpload'
  BY LockNext
<1>1. LockInv'
  BY LockNext
<1>2. ASSUME NEW u \in Calls, Step(u) PROVE TypeOK' /\ HasUpload'
  BY <1>1, <1>2, TypeLock, TypeInside DEF Step, InsideStep
<1>3. CASE UNCHANGED vars
  BY <1>3, TypeFrame DEF vars, infoVars, TypeOK, TypeCalls, HasUpload, Senders
<1> QED BY <1>2, <1>3, TypeBegin, TypeWorld DEF Next

(* Type correctness of the uploads, their locks and the server's state. *)
THEOREM TypeCorrect == Spec => []TypeOK
  BY TypeInit, LockInit, TypeNext, PTL DEF Spec

(***************************************************************************)
(* No two calls send the same content at the same time, whatever calls     *)
(* come and go, fail, or crash.                                            *)
(***************************************************************************)
THEOREM LocksExclude == Spec => []OneUploader
<1>1. TypeOK /\ LockInv => OneUploader
  <2> SUFFICES ASSUME LockInv, NEW u \in Calls, NEW v \in Calls, pc[u] \in Inside, pc[v] \in Inside,
                      hash[u] = hash[v]
               PROVE  u = v
    BY DEF OneUploader
  <2>1. u \in Counted /\ v \in Counted /\ u \in Holders /\ v \in Holders
    BY DEF Counted, Holders
  <2>2. lock[u] = lock[v]
    BY <2>1 DEF LockInv, EntryStays
  <2> QED BY <2>1, <2>2 DEF LockInv, HeldAlone
<1> QED BY TypeInit, LockInit, TypeNext, <1>1, PTL DEF Spec
-----------------------------------------------------------------------------
(* Initially nothing is remembered. *)
LEMMA StoredInit == Init => StoredInv
  BY DEF Init, StoredInv, Kept, OneHash, RowIsStored, CallIsStored, TheHash, Senders, None

(* What is stored, and the upload it is stored for, stay until the whole file is there. *)
Stays ==
  /\ UNCHANGED <<disk, limit>> /\ objects \subseteq objects'
  /\ TheHash' \notin objects' => \A i \in Calls :
       /\ open[i] = limit => open'[i] = limit
       /\ \A p \in Nat : <<p, disk>> \in stored[i] => <<p, disk>> \in stored'[i]

(* A step that neither writes a row nor lets a call go on with its parts. *)
LEMMA StoredFrame ==
  ASSUME TypeOK, HasUpload, StoredInv, tampered' = tampered, ~tampered => Stays,
         UNCHANGED hash, partLimit' \in {0, partLimit},
         \A h \in Hashes : record'[h].id # 0 =>
           record'[h].id = record[h].id /\ record'[h].bits = record[h].bits,
         \A u \in Calls :
           /\ pc'[u] # "changed" \/ pc'[u] = pc[u]
           /\ ~tampered /\ pc'[u] = "delete" => pc[u] = "delete" \/ hash[u] \in objects'
           /\ u \in Senders' => pc'[u] = pc[u] /\ id'[u] = id[u] /\ bits'[u] = bits[u]
                /\ part'[u] = part[u]
  PROVE  StoredInv'
<1> SUFFICES ASSUME ~tampered PROVE Kept'
  BY DEF StoredInv
<1>1. Kept /\ TheHash' = TheHash
  BY DEF StoredInv, TheHash, Stays
<1>2. OneHash'
  BY <1>1 DEF Kept, OneHash, Stays
<1>3. ASSUME TheHash \notin objects' PROVE RowIsStored' /\ CallIsStored'
  <2>1. RowIsStored /\ CallIsStored
    BY <1>1, <1>3 DEF Kept, Stays
  <2>2. RowIsStored'
    <3>1. SUFFICES ASSUME NEW h \in Hashes, record'[h].id # 0
                   PROVE  /\ open'[record'[h].id] = limit'
                          /\ \A p \in record'[h].bits : <<p, disk'>> \in stored'[record'[h].id]
      BY DEF RowIsStored
    <3>2. /\ record'[h].id = record[h].id /\ record'[h].bits = record[h].bits
          /\ record[h].id \in Calls /\ record[h].bits \subseteq Nat
      BY <3>1 DEF TypeOK, TypeRows
    <3> QED BY <1>1, <1>3, <2>1, <3>1, <3>2 DEF RowIsStored, Stays
  <2>3. CallIsStored'
    <3>1. \A u \in Senders' : u \in Senders /\ pc'[u] = pc[u] /\ id[u] \in Calls
      BY DEF Senders, HasUpload, TypeOK, TypeCalls
    <3>2. \A u \in Senders' : u \in Calls
      BY DEF Senders
    <3>3. 1..limit \subseteq Nat
      OBVIOUS
    <3> QED BY <1>1, <1>3, <2>1, <3>1, <3>2, <3>3 DEF CallIsStored, Stays
  <2> QED BY <2>2, <2>3
<1> QED BY <1>1, <1>2, <1>3 DEF Kept

(* The steps that send nothing. *)
LEMMA StoredQuiet ==
  ASSUME TypeOK, HasUpload, StoredInv, NEW u \in Calls,
         \/ LockHash(u) \/ Lock(u) \/ UnlockHash(u) \/ Unlock(u) \/ GetPartInfoFails(u)
         \/ ForgetRecord(u) \/ AlreadyThere(u) \/ InitiateFails(u) \/ PartFails(u)
         \/ CompleteFails(u) \/ DeleteUpload(u) \/ Complete(u)
  PROVE  StoredInv'
<1>1. /\ UNCHANGED <<disk, tampered, limit, partLimit, stored, hash>>
      /\ record' = record \/ record' = [record EXCEPT ![hash[u]] = None]
      /\ \E s \in {"wait", "record", "release", "initiate", "unlock", "done", "delete"} : Goto(u, s)
      /\ UNCHANGED <<id, bits, part>> \/ Unlock(u)
      /\ UNCHANGED <<open, objects>> \/ Complete(u)
  BY DEF LockHash, Lock, UnlockHash, Unlock, GetPartInfoFails, ForgetRecord, AlreadyThere, InitiateFails,
         PartFails, CompleteFails, DeleteUpload, Complete, Write, worldVars, serverVars, infoVars
<1>2. \A v \in Calls : /\ v # u => pc'[v] = pc[v]
                       /\ pc'[u] \in {"wait", "record", "release", "initiate", "unlock", "done", "delete"}
  BY <1>1 DEF Goto, TypeOK, TypeCalls
<1>3. \A h \in Hashes : record'[h].id # 0 => record'[h].id = record[h].id
        /\ record'[h].bits = record[h].bits
  <2>1. None.id = 0
    BY DEF None
  <2> QED BY <1>1, <2>1 DEF TypeOK, TypeRows
<1>4. \A v \in Calls : v \in Senders' =>
        pc'[v] = pc[v] /\ id'[v] = id[v] /\ bits'[v] = bits[v] /\ part'[v] = part[v]
  BY <1>1, <1>2 DEF Senders, Unlock, TypeOK, TypeCalls
<1>5. CASE Complete(u)
  <2>1. \/ UNCHANGED <<open, objects>> /\ hash[u] \in objects
        \/ open' = [open EXCEPT ![id[u]] = 0] /\ objects' = objects \cup {hash[u]}
    BY <1>5 DEF Complete
  <2>2. hash[u] \in objects'
    BY <2>1
  <2>3. ~tampered => Stays
    BY <1>1, <2>1, <2>2 DEF Stays, StoredInv, Kept, OneHash, TheHash
  <2> QED BY <1>1, <1>2, <1>3, <1>4, <2>2, <2>3, StoredFrame
<1>6. CASE ~Complete(u)
  <2>1. Stays
    BY <1>1, <1>6 DEF Stays
  <2>2. pc'[u] # "delete"
    BY <1>6 DEF LockHash, Lock, UnlockHash, Unlock, GetPartInfoFails, ForgetRecord, AlreadyThere,
                InitiateFails, PartFails, CompleteFails, DeleteUpload, Goto, TypeOK, TypeCalls
  <2> QED BY <1>1, <1>2, <1>3, <1>4, <2>1, <2>2, StoredFrame
<1> QED BY <1>5, <1>6

(* What happens around the calls. *)
LEMMA StoredWorld == TypeOK /\ HasUpload /\ StoredInv /\ World => StoredInv'
<1> SUFFICES ASSUME TypeOK, HasUpload, StoredInv, World PROVE StoredInv'
  OBVIOUS
<1>1. CASE FileChanges \/ LimitChanges \/ \E u \in Calls : ServerForgets(u)
  BY <1>1 DEF FileChanges, LimitChanges, ServerForgets, StoredInv
<1>2. ASSUME NEW h \in Hashes, Expire(h) PROVE StoredInv'
  <2>1. /\ record' = [record EXCEPT ![h].expired = TRUE]
        /\ UNCHANGED <<disk, tampered, limit, open, stored, objects, partLimit, pc, hash, id, bits, part>>
    BY <1>2 DEF Expire, serverVars, infoVars
  <2>2. \A k \in Hashes : record'[k].id = record[k].id /\ record'[k].bits = record[k].bits
    BY <2>1 DEF TypeOK, TypeRows
  <2>3. Stays
    BY <2>1 DEF Stays
  <2> QED BY <2>1, <2>2, <2>3, StoredFrame
<1>3. CASE Crash
  <2>1. /\ partLimit' = 0
        /\ UNCHANGED <<disk, tampered, limit, open, stored, objects, record, hash>>
        /\ pc' = [u \in Calls |-> IF pc[u] = "idle" THEN "idle" ELSE "done"]
    BY <1>3 DEF Crash, serverVars
  <2>2. Stays
    BY <2>1 DEF Stays
  <2>3. Senders' = {} /\ \A u \in Calls : pc'[u] \in {"idle", "done"}
    BY <2>1 DEF Senders
  <2> QED BY <2>1, <2>2, <2>3, StoredFrame
<1> QED BY <1>1, <1>2, <1>3 DEF World

(* A step that moves one call, untampered, before the file is there. *)
LEMMA StoredMove ==
  ASSUME TypeOK, HasUpload, StoredInv, Stays, NEW u \in Calls, tampered' = tampered,
         ~tampered =>
           /\ partLimit' \in {0, limit} /\ hash'[u] = TheHash /\ pc'[u] \notin {"changed", "delete"}
           /\ TheHash \notin objects' /\ u \in Senders' =>
                /\ open'[id'[u]] = limit
                /\ \A p \in 1..limit :
                     p \in bits'[u] \/ p < part'[u] \/ (p = part'[u] /\ pc'[u] = "put")
                       => <<p, disk>> \in stored'[id'[u]],
         \A h \in Hashes : record'[h].id # 0 =>
           \/ record'[h].id = record[h].id /\ record'[h].bits = record[h].bits
           \/ /\ h = hash[u]
              /\ ~tampered /\ TheHash \notin objects' =>
                   /\ open'[record'[h].id] = limit
                   /\ \A p \in record'[h].bits : <<p, disk>> \in stored'[record'[h].id],
         \A v \in Calls : v # u => /\ pc'[v] = pc[v] /\ hash'[v] = hash[v] /\ id'[v] = id[v]
                                   /\ bits'[v] = bits[v] /\ part'[v] = part[v]
  PROVE  StoredInv'
<1> SUFFICES ASSUME ~tampered PROVE Kept'
  BY DEF StoredInv
<1>1. Kept /\ TheHash' = TheHash /\ UNCHANGED <<disk, limit>> /\ hash[u] = TheHash
  BY DEF StoredInv, TheHash, Stays, Kept, OneHash
<1>2. OneHash'
  BY <1>1 DEF Kept, OneHash, Stays
<1>3. ASSUME TheHash \notin objects' PROVE RowIsStored' /\ CallIsStored'
  <2>1. RowIsStored /\ CallIsStored
    BY <1>1, <1>3 DEF Kept, Stays
  <2>2. RowIsStored'
    <3>1. SUFFICES ASSUME NEW h \in Hashes, record'[h].id # 0
                   PROVE  /\ open'[record'[h].id] = limit
                          /\ \A p \in record'[h].bits : <<p, disk>> \in stored'[record'[h].id]
      BY <1>1 DEF RowIsStored
    <3>2. CASE record'[h].id = record[h].id /\ record'[h].bits = record[h].bits
      <4>1. record[h].id \in Calls /\ record[h].bits \subseteq Nat
        BY <3>1, <3>2 DEF TypeOK, TypeRows
      <4> QED BY <1>1, <1>3, <2>1, <3>1, <3>2, <4>1 DEF RowIsStored, Stays
    <3> QED BY <1>3, <3>1, <3>2
  <2>3. CallIsStored'
    <3>1. SUFFICES ASSUME NEW v \in Senders', v # u
                   PROVE  /\ open'[id'[v]] = limit
                          /\ \A p \in 1..limit :
                               p \in bits'[v] \/ p < part'[v] \/ (p = part'[v] /\ pc'[v] = "put")
                                 => <<p, disk>> \in stored'[id'[v]]
      BY <1>1, <1>3 DEF CallIsStored
    <3>2. v \in Calls /\ v \in Senders /\ id[v] \in Calls
      BY <3>1 DEF Senders, HasUpload, TypeOK, TypeCalls
    <3>3. 1..limit \subseteq Nat
      OBVIOUS
    <3> QED BY <1>1, <1>3, <2>1, <3>1, <3>2, <3>3 DEF CallIsStored, Stays
  <2> QED BY <2>2, <2>3
<1> QED BY <1>1, <1>2, <1>3 DEF Kept

(* The steps by which a call comes to its parts, and sends them. *)
LEMMA StoredParts ==
  ASSUME TypeOK, HasUpload, StoredInv, NEW u \in Calls,
         \/ GetPartInfo(u) \/ Resume(u) \/ InitiateMultipartUpload(u) \/ SkipPart(u)
         \/ DoPut(u) \/ SetPart(u)
  PROVE  StoredInv'
<1>0. /\ pc \in [Calls -> {"idle", "lock", "wait", "release", "done"} \cup Inside]
      /\ hash \in [Calls -> Hashes] /\ hash[u] \in Hashes /\ id \in [Calls -> Calls \cup {0}]
      /\ bits \in [Calls -> SUBSET Nat] /\ part \in [Calls -> Nat]
      /\ record \in [Hashes -> Rows] /\ open \in [Calls -> Limits \cup {0}]
      /\ stored \in [Calls -> SUBSET (Nat \X Contents)]
      /\ u \in Senders => id[u] \in Calls
  BY DEF TypeOK, TypeServer, TypeCalls, TypeRows, Rows, HasUpload
<1>1. ~tampered => /\ hash[u] = TheHash /\ hash[u].content = disk /\ hash[u].parts = limit
                   /\ partLimit \in {0, limit} /\ pc[u] # "changed"
                   /\ \A v \in Calls : hash[v] = TheHash
  BY DEF StoredInv, Kept, OneHash, TheHash
<1>2. /\ ~tampered /\ TheHash \notin objects => RowIsStored /\ CallIsStored
      /\ ~tampered => Kept
  BY DEF StoredInv, Kept
<1>3. CASE GetPartInfo(u)
  <2>1. /\ partLimit' = IF partLimit = 0 THEN limit ELSE partLimit
        /\ hash' = [hash EXCEPT ![u] = [content |-> disk, parts |-> partLimit']]
        /\ pc' = [pc EXCEPT ![u] = "lock"]
        /\ UNCHANGED <<disk, tampered, limit, open, stored, objects, record, id, bits, part>>
    BY <1>3 DEF GetPartInfo, Goto, worldVars, serverVars
  <2>2. Stays
    BY <2>1 DEF Stays
  <2>3. /\ \A v \in Calls : v # u => pc'[v] = pc[v] /\ hash'[v] = hash[v]
        /\ pc'[u] = "lock" /\ u \notin Senders'
    BY <1>0, <2>1 DEF Senders
  <2>4. ~tampered => partLimit' = limit /\ hash'[u] = TheHash
    BY <1>0, <1>1, <2>1 DEF TheHash
  <2> QED BY <2>1, <2>2, <2>3, <2>4, StoredMove
<1>4. CASE Resume(u)
  <2> DEFINE r == record[hash[u]]
  <2>1. /\ id' = [id EXCEPT ![u] = r.id] /\ r.id # 0
        /\ bits' = [bits EXCEPT ![u] = r.bits] /\ part' = [part EXCEPT ![u] = 1]
        /\ pc' = [pc EXCEPT ![u] = "parts"]
        /\ UNCHANGED <<disk, tampered, limit, open, stored, objects, partLimit, record, hash>>
    BY <1>4 DEF Resume, Resumable, Goto, worldVars, serverVars
  <2>2. Stays
    BY <2>1 DEF Stays
  <2>3. /\ \A v \in Calls : v # u => /\ pc'[v] = pc[v] /\ id'[v] = id[v] /\ bits'[v] = bits[v]
                                     /\ part'[v] = part[v]
        /\ pc'[u] = "parts" /\ id'[u] = r.id /\ bits'[u] = r.bits /\ part'[u] = 1
    BY <1>0, <2>1
  <2>4. ~tampered /\ TheHash \notin objects =>
          open[r.id] = limit /\ \A p \in r.bits : <<p, disk>> \in stored[r.id]
    BY <1>0, <1>2, <2>1 DEF RowIsStored
  <2>5. \A p \in 1..limit : ~(p < 1)
    OBVIOUS
  <2> QED BY <1>1, <2>1, <2>2, <2>3, <2>4, <2>5, StoredMove
<1>5. CASE InitiateMultipartUpload(u)
  <2> DEFINE r == [id |-> u, bits |-> {}, expired |-> FALSE]
  <2>1. /\ open' = [open EXCEPT ![u] = limit] /\ id' = [id EXCEPT ![u] = u]
        /\ bits' = [bits EXCEPT ![u] = {}] /\ part' = [part EXCEPT ![u] = 1]
        /\ Goto(u, "parts") \/ Goto(u, "unlock")
        /\ partLimit' = partLimit \/ partLimit' = 0
        /\ UNCHANGED <<disk, tampered, limit, stored, objects, hash>>
    BY <1>5 DEF InitiateMultipartUpload, worldVars
  <2>2. \/ UNCHANGED record \/ record' = [record EXCEPT ![hash[u]] = r]
        \/ record' = [record EXCEPT ![hash[u]] = None]
    BY <1>5 DEF InitiateMultipartUpload, Replace, Write
  <2>3. open'[u] = limit /\ \A i \in Calls : i # u => open'[i] = open[i]
    BY <1>0, <2>1
  <2>4. Stays
    BY <2>1, <2>3 DEF Stays
  <2>5. /\ \A v \in Calls : v # u => /\ pc'[v] = pc[v] /\ id'[v] = id[v] /\ bits'[v] = bits[v]
                                     /\ part'[v] = part[v]
        /\ pc'[u] \in {"parts", "unlock"} /\ id'[u] = u /\ bits'[u] = {} /\ part'[u] = 1
    BY <1>0, <2>1 DEF Goto
  <2>6. \A h \in Hashes : record'[h].id # 0 =>
          \/ record'[h].id = record[h].id /\ record'[h].bits = record[h].bits
          \/ h = hash[u] /\ record'[h].id = u /\ record'[h].bits = {}
    BY <1>0, <2>2 DEF None
  <2>7. \A p \in 1..limit : ~(p < 1)
    OBVIOUS
  <2> QED BY <1>1, <2>1, <2>3, <2>4, <2>5, <2>6, <2>7, StoredMove
<1>6. CASE SkipPart(u)
  <2>1. /\ pc[u] = "parts" /\ part[u] \in bits[u]
        /\ \/ Goto(u, "parts") /\ part' = [part EXCEPT ![u] = part[u] + 1]
           \/ Goto(u, "unlock") /\ UNCHANGED part
        /\ UNCHANGED <<disk, tampered, limit, open, stored, objects, partLimit, record, hash, id, bits>>
    BY <1>6 DEF SkipPart, worldVars, serverVars
  <2>2. Stays
    BY <2>1 DEF Stays
  <2>3. /\ \A v \in Calls : v # u => pc'[v] = pc[v] /\ part'[v] = part[v]
        /\ pc'[u] \in {"parts", "unlock"} /\ part'[u] \in {part[u], part[u] + 1}
    BY <1>0, <2>1 DEF Goto
  <2>4. u \in Senders /\ part[u] \in Nat
    BY <1>0, <2>1 DEF Senders
  <2>5. ASSUME ~tampered, TheHash \notin objects, NEW p \in 1..limit, p \in bits[u] \/ p < part'[u]
        PROVE  open[id[u]] = limit /\ <<p, disk>> \in stored[id[u]]
    <3>1. p \in bits[u] \/ p < part[u]
      BY <2>1, <2>3, <2>4, <2>5
    <3> QED BY <1>2, <2>4, <2>5, <3>1 DEF CallIsStored
  <2>6. ~tampered /\ TheHash \notin objects => open[id[u]] = limit
    BY <1>2, <2>4 DEF CallIsStored
  <2> QED BY <1>1, <2>1, <2>2, <2>3, <2>5, <2>6, StoredMove
<1>7. CASE DoPut(u)
  <2>1. /\ pc[u] = "parts"
        /\ Goto(u, "put") \/ Goto(u, "unlock") \/ (Goto(u, "changed") /\ disk # hash[u].content)
        /\ stored' = [stored EXCEPT ![id[u]] = {p \in @ : p[1] # part[u]} \cup {<<part[u], disk>>}]
        /\ UNCHANGED <<disk, tampered, limit, open, objects, partLimit, record, hash, id, bits, part>>
    BY <1>7 DEF DoPut, Missing, worldVars
  <2>2. u \in Senders /\ id[u] \in Calls
    BY <1>0, <2>1 DEF Senders
  <2>3. /\ stored'[id[u]] = {p \in stored[id[u]] : p[1] # part[u]} \cup {<<part[u], disk>>}
        /\ \A i \in Calls : i # id[u] => stored'[i] = stored[i]
    BY <1>0, <2>1, <2>2
  <2>4. \A i \in Calls : \A p \in Nat : <<p, disk>> \in stored[i] => <<p, disk>> \in stored'[i]
    <3>1. \A p \in Nat : <<p, disk>>[1] = p
      OBVIOUS
    <3> QED BY <2>3, <3>1
  <2>5. Stays
    BY <2>1, <2>4 DEF Stays
  <2>6. /\ \A v \in Calls : v # u => pc'[v] = pc[v]
        /\ pc'[u] \in {"put", "unlock", "changed"} /\ (~tampered => pc'[u] # "changed")
    BY <1>0, <1>1, <2>1 DEF Goto
  <2>7. ASSUME ~tampered, TheHash \notin objects, NEW p \in 1..limit,
               p \in bits[u] \/ p < part[u] \/ p = part[u]
        PROVE  <<p, disk>> \in stored'[id[u]]
    <3>1. CASE p = part[u]
      BY <2>3, <3>1
    <3>2. CASE p \in bits[u] \/ p < part[u]
      <4>1. <<p, disk>> \in stored[id[u]] /\ p \in Nat
        BY <1>2, <2>2, <2>7, <3>2 DEF CallIsStored
      <4> QED BY <2>2, <2>4, <4>1
    <3> QED BY <2>7, <3>1, <3>2
  <2>8. ~tampered /\ TheHash \notin objects => open[id[u]] = limit
    BY <1>2, <2>2 DEF CallIsStored
  <2> QED BY <1>1, <2>1, <2>5, <2>6, <2>7, <2>8, StoredMove
<1>8. CASE SetPart(u)
  <2>1. /\ pc[u] \in {"put", "changed"}
        /\ \/ Goto(u, "parts") /\ part' = [part EXCEPT ![u] = part[u] + 1]
           \/ Goto(u, "unlock") /\ UNCHANGED part
        /\ \/ UNCHANGED <<bits, record>>
           \/ bits' = [bits EXCEPT ![u] = bits[u] \cup {part[u]}] /\ UpdateUpload(u, bits'[u])
        /\ UNCHANGED <<disk, tampered, limit, open, stored, objects, partLimit, hash, id>>
    BY <1>8 DEF SetPart, worldVars, serverVars
  <2>2. Stays
    BY <2>1 DEF Stays
  <2>3. /\ \A v \in Calls : v # u => pc'[v] = pc[v] /\ part'[v] = part[v] /\ bits'[v] = bits[v]
        /\ pc'[u] \in {"parts", "unlock"} /\ part'[u] \in {part[u], part[u] + 1}
        /\ bits'[u] \in {bits[u], bits[u] \cup {part[u]}}
    BY <1>0, <2>1 DEF Goto
  <2>4. u \in Senders /\ part[u] \in Nat /\ (~tampered => pc[u] = "put" /\ part[u] \in 1..limit)
    BY <1>0, <1>1, <2>1 DEF Senders, HasUpload
  <2>5. ASSUME ~tampered, TheHash \notin objects, NEW p \in 1..limit,
               p \in bits[u] \/ p = part[u] \/ p < part[u] + 1
        PROVE  <<p, disk>> \in stored[id[u]]
    <3>1. p \in bits[u] \/ p < part[u] \/ p = part[u]
      BY <2>4, <2>5
    <3> QED BY <1>2, <2>4, <2>5, <3>1 DEF CallIsStored
  <2>6. ~tampered /\ TheHash \notin objects => open[id[u]] = limit
    BY <1>2, <2>4 DEF CallIsStored
  <2>7. ~tampered /\ TheHash \notin objects => \A p \in bits'[u] : <<p, disk>> \in stored[id[u]]
    <3>1. ~tampered => bits[u] \subseteq 1..limit
      BY <1>1 DEF TypeOK, TypeCalls
    <3> QED BY <2>3, <2>4, <2>5, <3>1
  <2>8. \A h \in Hashes : record'[h].id # 0 =>
          \/ record'[h].id = record[h].id /\ record'[h].bits = record[h].bits
          \/ h = hash[u] /\ record'[h].id = id[u] /\ record'[h].bits = bits'[u]
    BY <1>0, <2>1 DEF UpdateUpload, Write
  <2>9. ASSUME ~tampered, TheHash \notin objects, NEW p \in 1..limit, p \in bits'[u] \/ p < part'[u]
        PROVE  <<p, disk>> \in stored[id[u]]
    <3>1. p \in bits[u] \/ p = part[u] \/ p < part[u] + 1
      BY <2>3, <2>4, <2>9
    <3> QED BY <2>5, <2>9, <3>1
  <2>10. UNCHANGED <<disk, tampered, limit, open, stored, objects, partLimit, hash, id>>
         /\ pc'[u] \in {"parts", "unlock"}
    BY <2>1, <2>3
  <2> QED BY <1>1, <2>2, <2>3, <2>6, <2>7, <2>8, <2>9, <2>10, StoredMove
<1> QED BY <1>3, <1>4, <1>5, <1>6, <1>7, <1>8

(***************************************************************************)
(* Whatever is counted as sent is at the server, as long as no one touches *)
(* the file, the limit or the server's uploads: crashes, lost answers and  *)
(* failed writes of the table do no harm.                                  *)
(***************************************************************************)
THEOREM PartsStored == Spec => []CountedIsStored
<1>1. TypeOK /\ HasUpload /\ StoredInv /\ [Next]_vars => StoredInv'
  <2> SUFFICES ASSUME TypeOK, HasUpload, StoredInv, [Next]_vars PROVE StoredInv'
    OBVIOUS
  <2>1. CASE UNCHANGED vars
    BY <2>1 DEF vars, worldVars, serverVars, infoVars, StoredInv, Kept, OneHash, RowIsStored,
                CallIsStored, TheHash, Senders
  <2> QED BY <2>1, StoredWorld, StoredQuiet, StoredParts DEF Next, Step
<1>2. TypeOK /\ StoredInv => CountedIsStored
  <2> SUFFICES ASSUME TypeOK, Kept, ~tampered PROVE CountedIsStored
    BY DEF StoredInv, CountedIsStored
  <2>1. ASSUME NEW h \in Hashes, record[h].id # 0, h \notin objects
        PROVE  record[h].bits \X {h.content} \subseteq stored[record[h].id]
    <3>1. h = TheHash /\ h.content = disk
      BY <2>1 DEF Kept, OneHash, TheHash
    <3>2. \A p \in record[h].bits : <<p, disk>> \in stored[record[h].id]
      BY <2>1, <3>1 DEF Kept, RowIsStored
    <3> QED BY <3>1, <3>2
  <2>2. ASSUME NEW u \in Calls, AllSent(u), hash[u] \notin objects PROVE Whole(u)
    <3>1. hash[u] = TheHash /\ hash[u].content = disk /\ hash[u].parts = limit
      BY DEF Kept, OneHash, TheHash
    <3>2. u \in Senders /\ part[u] > limit /\ part[u] \in Nat /\ limit \in Nat
      BY <2>2, <3>1, HashType DEF AllSent, Senders, TypeOK, TypeCalls
    <3>3. \A p \in 1..limit : p < part[u]
      BY <3>2
    <3> QED BY <2>2, <3>1, <3>2, <3>3 DEF Kept, CallIsStored, Whole
  <2> QED BY <2>1, <2>2 DEF CountedIsStored
<1> QED BY TypeInit, LockInit, StoredInit, TypeNext, <1>1, <1>2, PTL DEF Spec
-----------------------------------------------------------------------------
(* Sending *)

(* A set of numbers that has a bound has a greatest one. *)
LEMMA Greatest ==
  ASSUME NEW n \in Nat, NEW S \in SUBSET (0..n), S # {}
  PROVE  Message!Max(S) \in S /\ \A x \in S : Message!Max(S) >= x
<1> DEFINE T == {n - x : x \in S}
<1>1. S \subseteq 0..n
  OBVIOUS
<1>2. T \in SUBSET Nat
  BY <1>1
<1>3. T # {}
  OBVIOUS
<1>4. PICK t \in T : \A y \in T : t <= y
  <2>1. \A y, z \in Nat : y < z => <<y, z>> \in OpToRel(<, Nat)
    BY DEF OpToRel
  <2> HIDE DEF T
  <2>2. PICK z \in T : \A y \in T : <<y, z>> \notin OpToRel(<, Nat)
    BY <1>2, <1>3, NatLessThanWellFounded, WFMin
  <2>3. \A y \in T : ~(y < z)
    BY <2>1, <2>2, <1>2
  <2> QED BY <2>3, <1>2
<1>5. PICK x \in S : t = n - x
  OBVIOUS
<1>6. \A y \in S : x >= y
  <2> TAKE y \in S
  <2>1. n - y \in T
    OBVIOUS
  <2>2. t <= n - y
    BY <2>1, <1>4
  <2> QED BY <2>2, <1>1, <1>5
<1> QED BY <1>6 DEF Message!Max

(* What the run takes for the specification implies Sending's. *)
LEMMA MessageRuns == MessageSpec => Message!Spec
<1>1. [MessageNext]_<<vars, messageVars>> => [Message!Next]_Message!vars
  BY DEF MessageNext, messageVars, Message!vars, Message!tableVars, Message!sessionVars,
         Message!callVars,
         Message!historyVars, Message!serverVars, Message!workerVars
<1> QED BY <1>1, PTL DEF MessageSpec, Message!Spec

LEMMA MessageConstants == Sends \in Nat /\ Restarts \in Nat /\ Message!Calls \subseteq Nat
  BY SendsAssumption DEF Message!Calls
-----------------------------------------------------------------------------
(* Types *)

(* What a step leaves alone keeps its type. *)
LEMMA MessageTypeFrame ==
  /\ Message!TypeSession /\ UNCHANGED Message!sessionVars => Message!TypeSession'
  /\ Message!TypeTables /\ UNCHANGED <<Message!tableVars, log>> => Message!TypeTables'
  /\ Message!TypeCalls /\ UNCHANGED Message!callVars => Message!TypeCalls'
  /\ Message!TypeServer /\ UNCHANGED Message!serverVars => Message!TypeServer'
  /\ Message!TypeWorker /\ UNCHANGED <<Message!workerVars, log, session>> => Message!TypeWorker'
<1>1. Message!TypeSession /\ UNCHANGED Message!sessionVars => Message!TypeSession'
  BY DEF Message!TypeSession, Message!sessionVars
<1>2. Message!TypeTables /\ UNCHANGED <<Message!tableVars, log>> => Message!TypeTables'
  BY DEF Message!TypeTables, Message!tableVars
<1>3. Message!TypeCalls /\ UNCHANGED Message!callVars => Message!TypeCalls'
  BY DEF Message!TypeCalls, Message!callVars, Message!historyVars
<1>4. Message!TypeServer /\ UNCHANGED Message!serverVars => Message!TypeServer'
  BY DEF Message!TypeServer, Message!serverVars
<1>5. Message!TypeWorker /\ UNCHANGED <<Message!workerVars, log, session>> => Message!TypeWorker'
  BY DEF Message!TypeWorker, Message!workerVars
<1> QED BY <1>1, <1>2, <1>3, <1>4, <1>5

LEMMA MessageTypeInit == Message!Init => Message!TypeOK
<1> SUFFICES ASSUME Message!Init PROVE Message!TypeOK
  OBVIOUS
<1>0. log = <<>> /\ Len(log) = 0
  BY DEF Message!Init
<1>1. Message!TypeSession BY MessageConstants DEF Message!Init, Message!TypeSession, Message!NoTodo
<1>2. Message!TypeTables  BY <1>0 DEF Message!Init, Message!TypeTables, Message!Statuses
<1>3. Message!TypeCalls   BY DEF Message!Init, Message!TypeCalls, Message!Steps
<1>4. Message!TypeServer  BY <1>0 DEF Message!Init, Message!TypeServer
<1>5. Message!TypeWorker  BY <1>0 DEF Message!Init, Message!TypeWorker, Message!None
<1> QED BY <1>1, <1>2, <1>3, <1>4, <1>5 DEF Message!TypeOK

(* The steps of a call change the call and the tables only, but for a request. *)
LEMMA TypeCall ==
  ASSUME Message!TypeOK, NEW c \in Message!Calls, Message!Call(c) \/ Message!Step(c)
  PROVE  Message!TypeOK'
<1> USE DEF Message!TypeOK
<1>1. CASE Message!Call(c)
  <2>1. Message!TypeCalls'  BY <1>1 DEF Message!Call, Message!TypeCalls, Message!Goto,
                               Message!Steps, Message!historyVars
  <2> QED BY <2>1, <1>1, MessageTypeFrame DEF Message!Call, Message!sessionVars, Message!tableVars,
             Message!serverVars, Message!workerVars
<1>2. CASE Message!Lookup(c)
  <2>1. Message!TypeCalls'  BY <1>2 DEF Message!Lookup, Message!TypeCalls, Message!Goto,
                               Message!Steps, Message!historyVars
  <2> QED BY <2>1, <1>2, MessageTypeFrame DEF Message!Lookup, Message!sessionVars,
             Message!tableVars, Message!serverVars, Message!workerVars
<1>3. CASE Message!InsertMessage(c)
  <2>1. Message!TypeCalls'  BY <1>3 DEF Message!InsertMessage, Message!TypeCalls, Message!Goto,
                               Message!Steps, Message!historyVars
  <2>2. Message!TypeTables' BY <1>3 DEF Message!InsertMessage, Message!TypeTables,
                               Message!TypeCalls, Message!Statuses, Message!serverVars
  <2> QED BY <2>1, <2>2, <1>3, MessageTypeFrame DEF Message!InsertMessage, Message!sessionVars,
             Message!serverVars, Message!workerVars
<1>4. CASE Message!InsertSendingMessage(c)
  <2>1. Message!TypeCalls'  BY <1>4 DEF Message!InsertSendingMessage, Message!TypeCalls,
                               Message!Goto, Message!Steps, Message!historyVars
  <2>2. Message!TypeTables' BY <1>4 DEF Message!InsertSendingMessage, Message!TypeTables,
                               Message!TypeCalls, Message!serverVars
  <2> QED BY <2>1, <2>2, <1>4, MessageTypeFrame DEF Message!InsertSendingMessage,
             Message!sessionVars, Message!serverVars, Message!workerVars
<1>5. CASE Message!UploadFails(c) \/ Message!Answered(c) \/ Message!Refused(c) \/ Message!CheckReceived(c)
  <2>1. Message!TypeCalls'
    BY <1>5 DEF Message!UploadFails, Message!Answered, Message!Refused, Message!CheckReceived,
       Message!Settle, Message!TypeCalls, Message!Goto, Message!Steps,
                Message!historyVars
  <2> QED BY <2>1, <1>5, MessageTypeFrame
          DEF Message!UploadFails, Message!Answered, Message!Refused, Message!CheckReceived,
              Message!sessionVars, Message!tableVars, Message!serverVars,
              Message!workerVars
<1>6. CASE Message!ReturnEarly(c) \/ Message!TimesOut(c)
  <2>1. Message!TypeCalls'
    BY <1>6 DEF Message!ReturnEarly, Message!TimesOut, Message!TypeCalls, Message!Goto,
       Message!Steps, Message!historyVars
  <2> QED BY <2>1, <1>6, MessageTypeFrame
          DEF Message!ReturnEarly, Message!TimesOut, Message!sessionVars, Message!tableVars,
              Message!serverVars, Message!workerVars
<1>7. CASE Message!UpdateMessage(c)
  <2>1. Message!TypeCalls'  BY <1>7 DEF Message!UpdateMessage, Message!TypeCalls, Message!Goto,
                               Message!Steps
  <2>2. Message!TypeTables' BY <1>7 DEF Message!UpdateMessage, Message!TypeTables,
                               Message!TypeCalls, Message!Statuses, Message!serverVars
  <2> QED BY <2>1, <2>2, <1>7, MessageTypeFrame DEF Message!UpdateMessage, Message!sessionVars,
             Message!serverVars, Message!workerVars
<1>8. CASE Message!Request(c)
  <2>1. Message!TypeCalls'  BY <1>8 DEF Message!Request, Message!TypeCalls, Message!Goto,
                               Message!Steps, Message!historyVars
  <2>2. Message!TypeServer' BY <1>8 DEF Message!Request, Message!TypeServer
  <2> QED BY <2>1, <2>2, <1>8, MessageTypeFrame DEF Message!Request, Message!sessionVars,
             Message!tableVars, Message!workerVars
<1>9. CASE Message!UpdateStatus(c)
  <2>1. Message!TypeCalls'  BY <1>9 DEF Message!UpdateStatus, Message!TypeCalls, Message!Goto,
                               Message!Steps, Message!historyVars
  <2>2. Message!TypeTables' BY <1>9 DEF Message!UpdateStatus, Message!TypeTables,
                               Message!TypeCalls, Message!Statuses, Message!serverVars
  <2> QED BY <2>1, <2>2, <1>9, MessageTypeFrame DEF Message!UpdateStatus, Message!sessionVars,
             Message!serverVars, Message!workerVars
<1>10. CASE Message!DeleteSendingMessage(c)
  <2>1. Message!TypeCalls'  BY <1>10 DEF Message!DeleteSendingMessage, Message!TypeCalls,
                               Message!Goto, Message!Steps, Message!historyVars
  <2>2. Message!TypeTables' BY <1>10 DEF Message!DeleteSendingMessage, Message!TypeTables,
                               Message!serverVars
  <2> QED BY <2>1, <2>2, <1>10, MessageTypeFrame
          DEF Message!DeleteSendingMessage, Message!sessionVars, Message!serverVars, Message!workerVars
<1> QED BY <1>1, <1>2, <1>3, <1>4, <1>5, <1>6, <1>7, <1>8, <1>9, <1>10 DEF Message!Step

(* The copies of a message in the batch lie in the log. *)
LEMMA CopiesInLog ==
  ASSUME Message!TypeOK, NEW m
  PROVE  Message!Copies(m) \in SUBSET (1..Len(log))
  BY DEF Message!TypeOK, Message!TypeServer, Message!TypeWorker, Message!Copies

(* The network, the server and the worker. *)
LEMMA TypeNet ==
  ASSUME Message!TypeOK, Message!Worker \/ (\E c \in Message!Calls : Message!Receive(c) \/ Message!Lose(c))
  PROVE  Message!TypeOK'
<1> USE DEF Message!TypeOK
<1>1. CASE \E c \in Message!Calls : Message!Receive(c)
  <2> PICK c \in Message!Calls : Message!Receive(c)
    BY <1>1
  <2>1. log' \in Seq(Message!Calls) /\ Len(log') = Len(log) + 1 /\ Len(log) \in Nat
    BY DEF Message!Receive, Message!TypeServer
  <2>2. Message!TypeServer'
    BY <2>1 DEF Message!Receive, Message!TypeServer
  <2>3. Message!TypeTables'
    BY <2>1 DEF Message!Receive, Message!TypeTables, Message!tableVars
  <2>4. Message!TypeWorker'
    <3>1. 0..Len(log) \subseteq 0..Len(log')
      BY <2>1
    <3> QED BY <3>1 DEF Message!Receive, Message!TypeWorker, Message!workerVars, Message!sessionVars
  <2> QED BY <2>2, <2>3, <2>4, MessageTypeFrame DEF Message!Receive
<1>2. CASE \E c \in Message!Calls : Message!Lose(c)
  <2> PICK c \in Message!Calls : Message!Lose(c)
    BY <1>2
  <2>1. Message!TypeServer'
    BY DEF Message!Lose, Message!TypeServer
  <2> QED BY <2>1, MessageTypeFrame DEF Message!Lose, Message!sessionVars
<1>3. CASE Message!ReadBatch
  <2>1. Message!TypeWorker'
    BY <1>3 DEF Message!ReadBatch, Message!TypeWorker, Message!TypeServer, Message!serverVars,
       Message!sessionVars, Message!None
  <2> QED BY <2>1, <1>3, MessageTypeFrame DEF Message!ReadBatch, Message!serverVars
<1>4. CASE Message!StoreBatch
  <2>1. Len(log) \in Nat
    BY DEF Message!TypeServer
  <2>2. \A m \in Message!Echoed : Message!Max(Message!Copies(m)) \in 1..Len(log)
    <3> TAKE m \in Message!Echoed
    <3>1. Message!Copies(m) \in SUBSET (0..Len(log)) /\ Message!Copies(m) # {}
      BY CopiesInLog DEF Message!Echoed
    <3> QED BY <2>1, <3>1, CopiesInLog, Greatest
  <2>3. Message!TypeTables'
    BY <1>4, <2>1, <2>2 DEF Message!StoreBatch, Message!TypeTables, Message!Statuses,
       Message!serverVars
  <2>4. Message!TypeWorker'
    BY <1>4 DEF Message!StoreBatch, Message!TypeWorker, Message!serverVars, Message!sessionVars,
       Message!None
  <2> QED BY <2>3, <2>4, <1>4, MessageTypeFrame DEF Message!StoreBatch
<1> QED BY <1>1, <1>2, <1>3, <1>4 DEF Message!Worker

(* The session. *)
LEMMA TypeLogin ==
  ASSUME Message!TypeOK, Message!Stop \/ Message!Login \/ Message!Recover \/ Message!LoggedIn
           \/ Message!LoginFails
  PROVE  Message!TypeOK'
<1> USE DEF Message!TypeOK
<1>1. CASE Message!Stop
  <2>1. Message!TypeSession'  BY <1>1, MessageConstants DEF Message!Stop, Message!TypeSession,
                                 Message!NoTodo
  <2>2. Message!TypeCalls'    BY <1>1 DEF Message!Stop, Message!TypeCalls, Message!Steps
  <2>3. Message!TypeWorker'   BY <1>1 DEF Message!Stop, Message!TypeWorker, Message!serverVars,
                                 Message!None
  <2> QED BY <2>1, <2>2, <2>3, <1>1, MessageTypeFrame DEF Message!Stop, Message!serverVars
<1>2. CASE Message!Login
  <2>1. Message!TypeSession'  BY <1>2 DEF Message!Login, Message!TypeSession
  <2>2. Message!TypeWorker'   BY <1>2 DEF Message!Login, Message!TypeWorker, Message!workerVars,
                                 Message!serverVars
  <2> QED BY <2>1, <2>2, <1>2, MessageTypeFrame DEF Message!Login, Message!serverVars
<1>3. CASE \E m \in Messages : Message!HandleSendingMsg(m)
  <2> PICK m \in Messages : Message!HandleSendingMsg(m)
    BY <1>3
  <2>1. Message!TypeSession'  BY DEF Message!HandleSendingMsg, Message!TypeSession
  <2>2. Message!TypeTables'   BY DEF Message!HandleSendingMsg, Message!TypeTables,
                                 Message!Statuses, Message!serverVars
  <2> QED BY <2>1, <2>2, MessageTypeFrame DEF Message!HandleSendingMsg, Message!serverVars
<1>4. CASE \E m \in Messages : Message!DeleteHandled(m)
  <2> PICK m \in Messages : Message!DeleteHandled(m)
    BY <1>4
  <2>1. Message!TypeSession'  BY DEF Message!DeleteHandled, Message!TypeSession
  <2>2. Message!TypeTables'   BY DEF Message!DeleteHandled, Message!TypeTables, Message!serverVars
  <2>3. Message!TypeCalls'    BY DEF Message!DeleteHandled, Message!TypeCalls
  <2> QED BY <2>1, <2>2, <2>3, MessageTypeFrame DEF Message!DeleteHandled, Message!serverVars
<1>5. CASE Message!LoggedIn \/ Message!LoginFails
  <2>1. Message!TypeSession'  BY <1>5, MessageConstants DEF Message!LoggedIn, Message!LoginFails,
                                 Message!TypeSession
  <2>2. Message!TypeWorker'   BY <1>5 DEF Message!LoggedIn, Message!LoginFails, Message!TypeWorker,
                                 Message!workerVars, Message!serverVars
  <2> QED BY <2>1, <2>2, <1>5, MessageTypeFrame DEF Message!LoggedIn, Message!LoginFails,
             Message!serverVars
<1> QED BY <1>1, <1>2, <1>3, <1>4, <1>5 DEF Message!Recover

LEMMA TypeStep == Message!TypeOK /\ [Message!Next]_Message!vars => Message!TypeOK'
<1>1. ASSUME Message!TypeOK, UNCHANGED Message!vars PROVE Message!TypeOK'
  BY <1>1, MessageTypeFrame DEF Message!TypeOK, Message!vars, Message!serverVars,
     Message!sessionVars
<1> QED BY <1>1, TypeCall, TypeNet, TypeLogin DEF Message!Next

(***************************************************************************)
(* Every variable keeps its type; in particular a number is a position in  *)
(* the server's log, and a batch exists only while logged in.              *)
(***************************************************************************)
THEOREM MessageTypeCorrect == MessageSpec => []Message!TypeOK
  BY MessageRuns, MessageTypeInit, TypeStep, PTL DEF Message!Spec
-----------------------------------------------------------------------------
(* What is stored as sent is on the server *)

(* A call that is about to store a success has seen that the server has its message. *)
ClaimOnServer ==
  \A c \in Message!Calls : callPc[c] = "mark" /\ write[c] = "success" => Message!Received(msg[c])

(* The log only grows, and a call keeps its message. *)
LEMMA LogGrows ==
  ASSUME Message!TypeOK, [Message!Next]_Message!vars
  PROVE  msg' = msg /\ \A m : Message!Received(m) => Message!Received(m)'
<1>1. msg' = msg
  BY DEF Message!Next, Message!vars, Message!Call, Message!Step, Message!Lookup,
     Message!InsertMessage, Message!InsertSendingMessage, Message!UploadFails,
         Message!UpdateMessage, Message!ReturnEarly, Message!Request, Message!Answered, Message!Refused,
         Message!TimesOut, Message!CheckReceived,
         Message!UpdateStatus, Message!DeleteSendingMessage, Message!Receive, Message!Lose,
         Message!Worker, Message!ReadBatch, Message!StoreBatch, Message!Stop,
         Message!Login, Message!Recover, Message!HandleSendingMsg, Message!DeleteHandled,
         Message!LoggedIn, Message!LoginFails, Message!callVars
<1>2. log' = log \/ \E c \in Message!Calls : log' = Append(log, c)
  BY DEF Message!Next, Message!vars, Message!Call, Message!Step, Message!Lookup,
     Message!InsertMessage, Message!InsertSendingMessage, Message!UploadFails,
         Message!UpdateMessage, Message!ReturnEarly, Message!Request, Message!Answered, Message!Refused,
         Message!TimesOut, Message!CheckReceived,
         Message!UpdateStatus, Message!DeleteSendingMessage, Message!Receive, Message!Lose,
         Message!Worker, Message!ReadBatch, Message!StoreBatch, Message!Stop,
         Message!Login, Message!Recover, Message!HandleSendingMsg, Message!DeleteHandled,
         Message!LoggedIn, Message!LoginFails, Message!serverVars
<1>3. CASE log' = log
  BY <1>1, <1>3 DEF Message!Received
<1>4. ASSUME NEW c \in Message!Calls, log' = Append(log, c)
      PROVE  \A m : Message!Received(m) => Message!Received(m)'
  <2>1. /\ Len(log') = Len(log) + 1 /\ Len(log) \in Nat
        /\ \A i \in 1..Len(log) : log'[i] = log[i]
    BY <1>4 DEF Message!TypeOK, Message!TypeServer
  <2> QED BY <2>1, <1>1 DEF Message!Received
<1> QED BY <1>1, <1>2, <1>3, <1>4

(* A step of a call stores "success", or begins to, for what the server has. *)
LEMMA ClaimCall ==
  ASSUME Message!TypeOK, Message!SuccessOnServer, ClaimOnServer, NEW c \in Message!Calls,
         Message!Call(c) \/ Message!Step(c),
         msg' = msg, \A m : Message!Received(m) => Message!Received(m)'
  PROVE  Message!SuccessOnServer' /\ ClaimOnServer'
<1> USE DEF Message!TypeOK, Message!TypeCalls, Message!TypeTables, Message!SuccessOnServer, ClaimOnServer
<1>1. CASE Message!Call(c)
  BY <1>1 DEF Message!Call, Message!Goto, Message!tableVars
<1>2. CASE Message!Lookup(c)
  BY <1>2 DEF Message!Lookup, Message!Goto, Message!tableVars
<1>3. CASE Message!InsertMessage(c)
  BY <1>3 DEF Message!InsertMessage, Message!Goto
<1>4. CASE Message!InsertSendingMessage(c) \/ Message!DeleteSendingMessage(c)
  BY <1>4 DEF Message!InsertSendingMessage, Message!DeleteSendingMessage, Message!Goto
<1>5. CASE Message!UploadFails(c) \/ Message!Refused(c)
  BY <1>5 DEF Message!UploadFails, Message!Refused, Message!Settle, Message!Goto, Message!tableVars
<1>6. CASE Message!ReturnEarly(c) \/ Message!TimesOut(c) \/ Message!Request(c)
  BY <1>6 DEF Message!ReturnEarly, Message!TimesOut, Message!Request, Message!Goto,
     Message!tableVars
<1>7. CASE Message!UpdateMessage(c)
  BY <1>7 DEF Message!UpdateMessage, Message!Goto
<1>8. CASE Message!Answered(c)
  <2>1. Message!Received(msg[c])
    BY <1>8 DEF Message!Answered, Message!Received
  <2> QED BY <2>1, <1>8 DEF Message!Answered, Message!Settle, Message!Goto, Message!tableVars
<1>9. CASE Message!CheckReceived(c)
  BY <1>9 DEF Message!CheckReceived, Message!Settle, Message!Goto, Message!tableVars
<1>10. CASE Message!UpdateStatus(c)
  BY <1>10 DEF Message!UpdateStatus, Message!Goto
<1> QED BY <1>1, <1>2, <1>3, <1>4, <1>5, <1>6, <1>7, <1>8, <1>9, <1>10 DEF Message!Step

LEMMA ClaimStep ==
  Message!TypeOK /\ Message!SuccessOnServer /\ ClaimOnServer /\ [Message!Next]_Message!vars
    => Message!SuccessOnServer' /\ ClaimOnServer'
<1> SUFFICES ASSUME Message!TypeOK, Message!SuccessOnServer, ClaimOnServer, [Message!Next]_Message!vars
             PROVE  Message!SuccessOnServer' /\ ClaimOnServer'
  OBVIOUS
<1>0. msg' = msg /\ \A m : Message!Received(m) => Message!Received(m)'
  BY LogGrows
<1> USE DEF Message!TypeOK, Message!TypeCalls, Message!TypeTables, Message!SuccessOnServer, ClaimOnServer
<1>1. CASE \E c \in Message!Calls : Message!Call(c) \/ Message!Step(c)
  BY <1>0, <1>1, ClaimCall
<1>2. CASE \E c \in Message!Calls : Message!Receive(c) \/ Message!Lose(c)
  BY <1>0, <1>2 DEF Message!Receive, Message!Lose, Message!tableVars, Message!callVars
<1>3. CASE Message!ReadBatch
  BY <1>0, <1>3 DEF Message!ReadBatch, Message!tableVars, Message!callVars
<1>4. CASE Message!StoreBatch
  <2>1. \A m \in Message!Echoed : Message!Received(m)
    BY CopiesInLog DEF Message!Echoed, Message!Copies, Message!Received
  <2> QED BY <2>1, <1>0, <1>4 DEF Message!StoreBatch, Message!callVars
<1>5. CASE Message!Stop
  BY <1>0, <1>5 DEF Message!Stop, Message!tableVars
<1>6. CASE Message!Login \/ Message!LoggedIn \/ Message!LoginFails
  BY <1>0, <1>6 DEF Message!Login, Message!LoggedIn, Message!LoginFails, Message!tableVars,
     Message!callVars
<1>7. CASE Message!Recover
  BY <1>0, <1>7 DEF Message!Recover, Message!HandleSendingMsg, Message!DeleteHandled,
     Message!callVars
<1>8. CASE UNCHANGED Message!vars
  BY <1>0, <1>8 DEF Message!vars, Message!tableVars, Message!callVars
<1> QED BY <1>1, <1>2, <1>3, <1>4, <1>5, <1>6, <1>7, <1>8 DEF Message!Next, Message!Worker

(***************************************************************************)
(* A message stored as sent is on the server: what a call is about to      *)
(* store and what the worker stores both come from the log.                *)
(***************************************************************************)
THEOREM SentIsOnServer == MessageSpec => []SuccessOnServer
<1>1. Message!Init => Message!SuccessOnServer /\ ClaimOnServer
  BY DEF Message!Init, Message!SuccessOnServer, ClaimOnServer
<1> QED BY <1>1, MessageRuns, ClaimStep, MessageTypeCorrect, PTL DEF Message!Spec, SuccessOnServer
-----------------------------------------------------------------------------
(* An entry has one call *)

Owners(m) == {c \in Message!Calls : msg[c] = m /\ Message!OnTheWay(c)}

(* The calls run only while logged in, and those on their way have their entry for themselves. *)
OwnersEntered ==
  /\ \A c \in Message!Calls : callPc[c] \notin {"idle", "done"} => session = "in"
  /\ \A c \in Message!Calls : Message!OnTheWay(c) => msg[c] \in entries
  /\ \A c, d \in Message!Calls : Message!OnTheWay(c) /\ Message!OnTheWay(d) /\ msg[c] = msg[d] => c = d

(* An entry without a call is one that a call left, or that the login has still to handle. *)
EntriesOwned ==
  /\ session # "logging" => todo = Message!NoTodo
  /\ session = "logging" => \A m \in entries : todo[m] # "nothing"
  /\ session = "in" => \A m \in entries \ stranded : Owners(m) # {}

EntryInv == Message!TypeOK /\ OwnersEntered /\ EntriesOwned

(* A step of a call that keeps its place among the owners. *)
LEMMA SameOwners ==
  ASSUME EntryInv, NEW c \in Message!Calls, NEW p \in Message!Steps, Message!Goto(c, p), session = "in",
         Message!OnTheWay(c) <=> p \in {"ready", "prepared", "waiting", "check", "mark", "delete"},
         UNCHANGED <<msg, entries, Message!sessionVars>>, stranded \subseteq stranded'
  PROVE  OwnersEntered' /\ EntriesOwned'
<1>1. \A d \in Message!Calls : Message!OnTheWay(d)' <=> Message!OnTheWay(d)
  BY DEF EntryInv, Message!TypeOK, Message!TypeCalls, Message!Goto, Message!OnTheWay
<1>2. OwnersEntered'
  BY <1>1 DEF EntryInv, OwnersEntered, Message!sessionVars
<1>3. EntriesOwned'
  BY <1>1 DEF EntryInv, EntriesOwned, Owners, Message!NoTodo, Message!sessionVars
<1> QED BY <1>2, <1>3

LEMMA EntryCall ==
  ASSUME EntryInv, NEW c \in Message!Calls, Message!Call(c) \/ Message!Step(c)
  PROVE  OwnersEntered' /\ EntriesOwned'
<1>1. session = "in"
  BY DEF EntryInv, OwnersEntered, Message!Call, Message!Step, Message!Lookup,
     Message!InsertMessage, Message!InsertSendingMessage,
         Message!UploadFails, Message!UpdateMessage, Message!ReturnEarly, Message!Request,
         Message!Answered, Message!Refused, Message!TimesOut,
         Message!CheckReceived, Message!UpdateStatus, Message!DeleteSendingMessage
<1>2. CASE Message!Call(c) \/ Message!Lookup(c) \/ Message!InsertMessage(c)
  <2>1. PICK p \in {"lookup", "insert", "enter", "done"} : Message!Goto(c, p)
    BY <1>2 DEF Message!Call, Message!Lookup, Message!InsertMessage
  <2>2. ~Message!OnTheWay(c)
    BY <1>2 DEF Message!Call, Message!Lookup, Message!InsertMessage, Message!OnTheWay
  <2>3. UNCHANGED <<msg, entries, Message!sessionVars, stranded>>
    BY <1>2 DEF Message!Call, Message!Lookup, Message!InsertMessage, Message!tableVars,
       Message!historyVars
  <2> QED BY <1>1, <2>1, <2>2, <2>3, SameOwners DEF Message!Steps
<1>3. CASE \/ Message!UploadFails(c) \/ Message!UpdateMessage(c) \/ Message!Request(c)
                \/ Message!Answered(c) \/ Message!Refused(c)
           \/ Message!TimesOut(c) \/ Message!CheckReceived(c) \/ Message!UpdateStatus(c)
  <2>1. PICK p \in {"prepared", "waiting", "check", "mark", "delete"} : Message!Goto(c, p)
    BY <1>3 DEF Message!UploadFails, Message!UpdateMessage, Message!Request, Message!Answered,
       Message!Refused, Message!TimesOut, Message!CheckReceived,
                Message!UpdateStatus, Message!Settle
  <2>2. Message!OnTheWay(c)
    BY <1>3 DEF Message!UploadFails, Message!UpdateMessage, Message!Request, Message!Answered,
       Message!Refused, Message!TimesOut, Message!CheckReceived,
                Message!UpdateStatus, Message!OnTheWay
  <2>3. UNCHANGED <<msg, entries, Message!sessionVars, stranded>>
    BY <1>3 DEF Message!UploadFails, Message!UpdateMessage, Message!Request, Message!Answered,
       Message!Refused, Message!TimesOut, Message!CheckReceived,
                Message!UpdateStatus, Message!tableVars, Message!historyVars
  <2> QED BY <1>1, <2>1, <2>2, <2>3, SameOwners DEF Message!Steps
<1>4. CASE Message!InsertSendingMessage(c) /\ msg[c] \in entries
  <2>1. Message!Goto(c, "done") /\ ~Message!OnTheWay(c)
    BY <1>4 DEF Message!InsertSendingMessage, Message!OnTheWay
  <2> QED BY <1>1, <1>4, <2>1, SameOwners DEF Message!InsertSendingMessage, Message!Steps,
             Message!historyVars
<1>5. CASE Message!InsertSendingMessage(c) /\ msg[c] \notin entries
  <2>1. /\ entries' = entries \cup {msg[c]} /\ UNCHANGED <<msg, stranded, Message!sessionVars>>
        /\ \A d \in Message!Calls : Message!OnTheWay(d)' <=> Message!OnTheWay(d) \/ d = c
    BY <1>5 DEF Message!InsertSendingMessage, Message!Goto, Message!OnTheWay, EntryInv,
       Message!TypeOK, Message!TypeCalls, Message!historyVars
  <2>2. \A d \in Message!Calls : Message!OnTheWay(d) => msg[d] # msg[c]
    BY <1>5 DEF EntryInv, OwnersEntered
  <2>3. OwnersEntered'
    BY <1>1, <2>1, <2>2 DEF EntryInv, OwnersEntered, Message!sessionVars
  <2>4. EntriesOwned'
    <3>1. \A m \in entries' \ stranded' : Owners(m)' # {}
      <4> TAKE m \in entries' \ stranded'
      <4>1. CASE m = msg[c]
        BY <2>1, <4>1 DEF Owners
      <4>2. CASE m \in entries \ stranded
        BY <1>1, <2>1, <4>2 DEF Owners, EntryInv, EntriesOwned
      <4> QED BY <2>1, <4>1, <4>2
    <3> QED BY <1>1, <2>1, <3>1 DEF EntryInv, EntriesOwned, Message!NoTodo, Message!sessionVars
  <2> QED BY <2>3, <2>4
<1>6. CASE Message!ReturnEarly(c)
  <2>1. /\ UNCHANGED <<msg, entries, Message!sessionVars>> /\ stranded' = stranded \cup {msg[c]}
        /\ \A d \in Message!Calls : Message!OnTheWay(d)' <=> Message!OnTheWay(d) /\ d # c
    BY <1>6 DEF Message!ReturnEarly, Message!Goto, Message!OnTheWay, EntryInv, Message!TypeOK,
       Message!TypeCalls, Message!tableVars
  <2>2. OwnersEntered'
    BY <1>1, <2>1 DEF EntryInv, OwnersEntered, Message!sessionVars
  <2>3. \A m \in entries' \ stranded' : Owners(m)' # {}
    BY <1>1, <2>1 DEF Owners, EntryInv, EntriesOwned
  <2> QED BY <1>1, <2>1, <2>2, <2>3 DEF EntryInv, EntriesOwned, Message!NoTodo, Message!sessionVars
<1>7. CASE Message!DeleteSendingMessage(c)
  <2>1. /\ entries' = entries \ {msg[c]} /\ UNCHANGED <<msg, stranded, Message!sessionVars>>
        /\ \A d \in Message!Calls : Message!OnTheWay(d)' <=> Message!OnTheWay(d) /\ d # c
        /\ Message!OnTheWay(c)
    BY <1>7 DEF Message!DeleteSendingMessage, Message!Goto, Message!OnTheWay, EntryInv,
       Message!TypeOK, Message!TypeCalls, Message!historyVars
  <2>2. OwnersEntered'
    BY <1>1, <2>1 DEF EntryInv, OwnersEntered, Message!sessionVars
  <2>3. \A m \in entries' \ stranded' : Owners(m)' # {}
    BY <1>1, <2>1 DEF Owners, EntryInv, EntriesOwned
  <2> QED BY <1>1, <2>1, <2>2, <2>3 DEF EntryInv, EntriesOwned, Message!NoTodo, Message!sessionVars
<1> QED BY <1>2, <1>3, <1>4, <1>5, <1>6, <1>7 DEF Message!Step
(* Without a session no call is on its way, and a login ends when it has handled every entry. *)
LEMMA EntryStep == EntryInv /\ [Message!Next]_Message!vars => OwnersEntered' /\ EntriesOwned'
<1> SUFFICES ASSUME EntryInv, [Message!Next]_Message!vars PROVE OwnersEntered' /\ EntriesOwned'
  OBVIOUS
<1>0. \A c \in Message!Calls : session # "in" => ~Message!OnTheWay(c)
  BY DEF EntryInv, OwnersEntered, Message!OnTheWay
<1> USE DEF EntryInv, OwnersEntered, EntriesOwned
<1>1. CASE \E c \in Message!Calls : Message!Call(c) \/ Message!Step(c)
  BY <1>1, EntryCall
<1>2. CASE \/ Message!Worker \/ UNCHANGED Message!vars
           \/ \E c \in Message!Calls : Message!Receive(c) \/ Message!Lose(c)
  <2>1. UNCHANGED <<session, todo, entries, stranded, callPc, msg>>
    BY <1>2 DEF Message!Worker, Message!ReadBatch, Message!StoreBatch, Message!Receive,
       Message!Lose, Message!vars, Message!sessionVars, Message!tableVars,
                Message!callVars, Message!historyVars
  <2> QED BY <2>1 DEF Owners, Message!OnTheWay, Message!NoTodo
<1>3. CASE Message!Stop
  <2>1. session' = "out" /\ todo' = Message!NoTodo
          /\ \A c \in Message!Calls : callPc'[c] \in {"idle", "done"}
    BY <1>3 DEF Message!Stop
  <2> QED BY <2>1 DEF Message!OnTheWay, Message!NoTodo
<1>4. CASE Message!Login
  <2>1. /\ session # "in" /\ session' = "logging" /\ UNCHANGED <<entries, callPc, msg>>
        /\ \A m \in entries : todo'[m] # "nothing"
    BY <1>4 DEF Message!Login, Message!tableVars, Message!callVars, Message!TypeOK,
       Message!TypeTables
  <2> QED BY <1>0, <2>1 DEF Message!OnTheWay
<1>5. CASE \E m \in Messages : Message!HandleSendingMsg(m)
  <2> PICK m \in Messages : Message!HandleSendingMsg(m)
    BY <1>5
  <2>1. session = "logging"
    BY DEF Message!HandleSendingMsg, Message!NoTodo
  <2>2. \A n \in entries' : todo'[n] # "nothing"
    BY <2>1 DEF Message!HandleSendingMsg, Message!TypeOK, Message!TypeSession, Message!TypeTables
  <2> QED BY <1>0, <2>1, <2>2 DEF Message!HandleSendingMsg, Message!OnTheWay, Message!callVars
<1>6. CASE \E m \in Messages : Message!DeleteHandled(m)
  <2> PICK m \in Messages : Message!DeleteHandled(m)
    BY <1>6
  <2>1. session = "logging"
    BY DEF Message!DeleteHandled, Message!NoTodo
  <2>2. \A n \in entries' : todo'[n] # "nothing"
    BY <2>1 DEF Message!DeleteHandled, Message!TypeOK, Message!TypeSession, Message!TypeTables
  <2> QED BY <1>0, <2>1, <2>2 DEF Message!DeleteHandled, Message!OnTheWay
<1>7. CASE Message!LoggedIn
  <2>1. entries = {}
    BY <1>7 DEF Message!LoggedIn, Message!NoTodo, Message!TypeOK, Message!TypeTables
  <2>2. session' = "in" /\ UNCHANGED <<todo, entries, callPc, msg>> /\ session # "in"
    BY <1>7 DEF Message!LoggedIn, Message!tableVars, Message!callVars
  <2> QED BY <1>0, <1>7, <2>1, <2>2 DEF Message!LoggedIn, Message!OnTheWay, Message!NoTodo
<1>8. CASE Message!LoginFails
  BY <1>0, <1>8 DEF Message!LoginFails, Message!OnTheWay, Message!NoTodo, Message!callVars,
     Message!tableVars
<1> QED BY <1>1, <1>2, <1>3, <1>4, <1>5, <1>6, <1>7, <1>8 DEF Message!Next, Message!Recover

(***************************************************************************)
(* While logged in an entry of LocalSendingMessages has the one call that  *)
(* will delete it, however many calls there are for its message.           *)
(***************************************************************************)
THEOREM OneCall == MessageSpec => []EntryHasOneCall
<1>1. Message!Init => OwnersEntered /\ EntriesOwned
  BY DEF Message!Init, OwnersEntered, EntriesOwned, Message!OnTheWay
<1>2. EntryInv => Message!EntryHasOneCall
  BY DEF EntryInv, OwnersEntered, EntriesOwned, Owners, Message!EntryHasOneCall
<1>3. EntryInv /\ [Message!Next]_Message!vars => EntryInv'
  BY EntryStep, TypeStep DEF EntryInv
<1>4. Message!Init => EntryInv
  BY <1>1, MessageTypeInit DEF EntryInv
<1> QED BY <1>2, <1>3, <1>4, MessageRuns, PTL DEF Message!Spec, EntryHasOneCall
-----------------------------------------------------------------------------
(* A number is final *)

(* A message with its number is sent, and the worker takes none of those for new. *)
Settled ==
  /\ \A m \in Messages : number[m] # 0 => status[m] = "success" \/ m \in overwritten
  /\ \A m \in batch.unnumbered : number[m] = 0

LEMMA SettledCall ==
  ASSUME Message!TypeOK, Settled, NEW c \in Message!Calls, Message!Call(c) \/ Message!Step(c)
  PROVE  /\ Settled'
         /\ \A m \in Messages : number[m] # 0 =>
              number'[m] = number[m] /\ (status'[m] = status[m] \/ m \in overwritten')
<1> USE DEF Settled, Message!TypeOK, Message!TypeTables, Message!TypeCalls
<1>1. CASE Message!Call(c) \/ Message!Lookup(c)
  BY <1>1 DEF Message!Call, Message!Lookup, Message!tableVars, Message!historyVars,
     Message!workerVars
<1>2. CASE Message!InsertMessage(c)
  BY <1>2 DEF Message!InsertMessage, Message!historyVars, Message!workerVars
<1>3. CASE Message!InsertSendingMessage(c) \/ Message!DeleteSendingMessage(c)
  BY <1>3 DEF Message!InsertSendingMessage, Message!DeleteSendingMessage, Message!historyVars,
     Message!workerVars
<1>4. CASE Message!UploadFails(c) \/ Message!Answered(c) \/ Message!Refused(c) \/ Message!CheckReceived(c)
  BY <1>4 DEF Message!UploadFails, Message!Answered, Message!Refused, Message!CheckReceived,
     Message!tableVars, Message!historyVars, Message!workerVars
<1>5. CASE Message!ReturnEarly(c) \/ Message!Request(c) \/ Message!TimesOut(c)
  BY <1>5 DEF Message!ReturnEarly, Message!Request, Message!TimesOut, Message!tableVars,
     Message!historyVars, Message!workerVars
<1>6. CASE Message!UpdateMessage(c)
  BY <1>6 DEF Message!UpdateMessage, Message!workerVars
<1>7. CASE Message!UpdateStatus(c)
  BY <1>7 DEF Message!UpdateStatus, Message!historyVars, Message!workerVars
<1> QED BY <1>1, <1>2, <1>3, <1>4, <1>5, <1>6, <1>7 DEF Message!Step

LEMMA SettledStep ==
  ASSUME Message!TypeOK, Settled, [Message!Next]_Message!vars
  PROVE  /\ Settled'
         /\ \A m \in Messages : number[m] # 0 =>
              number'[m] = number[m] /\ (status'[m] = status[m] \/ m \in overwritten')
<1> USE DEF Settled, Message!TypeOK, Message!TypeTables
<1>1. CASE \E c \in Message!Calls : Message!Call(c) \/ Message!Step(c)
  BY <1>1, SettledCall
<1>2. CASE \E c \in Message!Calls : Message!Receive(c) \/ Message!Lose(c)
  BY <1>2 DEF Message!Receive, Message!Lose, Message!tableVars, Message!callVars,
     Message!historyVars, Message!workerVars
<1>3. CASE Message!ReadBatch
  BY <1>3 DEF Message!ReadBatch, Message!tableVars, Message!callVars, Message!historyVars
<1>4. CASE Message!StoreBatch
  <2>1. batch'.unnumbered = {} /\ overwritten' = overwritten
    BY <1>4 DEF Message!StoreBatch, Message!None, Message!callVars, Message!historyVars
  <2>2. \A m \in Messages : number[m] # 0 => m \notin Message!Echoed
    BY DEF Message!Echoed
  <2> QED BY <1>4, <2>1, <2>2 DEF Message!StoreBatch
<1>5. CASE Message!Stop
  BY <1>5 DEF Message!Stop, Message!None, Message!tableVars
<1>6. CASE Message!Login \/ Message!LoggedIn \/ Message!LoginFails
  BY <1>6 DEF Message!Login, Message!LoggedIn, Message!LoginFails, Message!tableVars,
     Message!callVars, Message!historyVars, Message!workerVars
<1>7. CASE Message!Recover
  BY <1>7 DEF Message!Recover, Message!HandleSendingMsg, Message!DeleteHandled, Message!callVars,
     Message!historyVars, Message!workerVars
<1>8. CASE UNCHANGED Message!vars
  BY <1>8 DEF Message!vars, Message!tableVars, Message!callVars, Message!historyVars,
     Message!workerVars
<1> QED BY <1>1, <1>2, <1>3, <1>4, <1>5, <1>6, <1>7, <1>8 DEF Message!Next, Message!Worker

(***************************************************************************)
(* A message with its number keeps it and its status, unless the end of an *)
(* upload writes over them: a late mark asks for number 0, and a message   *)
(* that is "sending" in a login has none.                                  *)
(***************************************************************************)
THEOREM NumberFinal == MessageSpec => NumberedIsFinal
<1>1. Message!Init => Settled
  BY DEF Message!Init, Settled, Message!None
<1>2. Message!TypeOK /\ Settled /\ [Message!Next]_Message!vars => Settled'
  BY SettledStep
<1>3. Message!TypeOK /\ Settled /\ [Message!Next]_Message!vars =>
        [\A m \in Messages : number[m] # 0 =>
           number'[m] = number[m] /\ (status'[m] = status[m] \/ m \in overwritten')]_Message!vars
  BY SettledStep
<1> QED BY <1>1, <1>2, <1>3, MessageRuns, MessageTypeCorrect, PTL
        DEF Message!Spec, NumberedIsFinal, Message!NumberedIsFinal
=============================================================================
