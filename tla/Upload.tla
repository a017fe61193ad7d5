------------------------------- MODULE Upload -------------------------------
(***************************************************************************)
(* Uploads of a file in parts (internal/third/file/upload.go).  A call     *)
(* reads the file to find its hash, takes the lock of that hash, asks the  *)
(* server for an upload or goes on with the one that the table             *)
(* LocalUpload remembers, sends the parts that are missing and asks the    *)
(* server to put them together.                                            *)
(*                                                                         *)
(* All calls are for one file, which may change.  The server's limit on    *)
(* the size of a part is given by the number of parts it cuts the file     *)
(* into.  An upload of the server is known by the call that it was         *)
(* created for.                                                            *)
(***************************************************************************)
EXTENDS Integers, FiniteSets

CONSTANTS
  Contents,     \* contents the file may have; 0 is the first one
  Limits,       \* numbers of parts the server's limit may make of it
  MaxCalls,     \* bound: calls of UploadFile
  MaxChanges,   \* bound: changes of the file, the limit and the tables, and restarts
  Faults        \* what may go wrong, see FaultKinds

(***************************************************************************)
(* "fail": a request fails, or its answer is lost; "db": a write to the    *)
(* table fails; "change": the file changes; "limit": the server's limit    *)
(* changes; "expire": a remembered upload comes near its end; "forget":    *)
(* the server drops an upload; "crash": the process dies.                  *)
(***************************************************************************)
FaultKinds == {"fail", "db", "change", "limit", "expire", "forget", "crash"}

ASSUME BoundAssumption == MaxCalls \in Nat /\ MaxChanges \in Nat /\ Limits \subseteq Nat \ {0}
ASSUME ContentAssumption == 0 \in Contents
ASSUME FaultAssumption == Faults \subseteq FaultKinds

None == [id |-> 0, bits |-> {}, expired |-> FALSE]
Calls == 1..MaxCalls
Hashes == [content : Contents, parts : Limits]

VARIABLES
  disk,         \* the content of the file
  limit,        \* the server's limit
  open,         \* uploads the server knows: the limit they were created with, 0 for none
  stored,       \* the parts of each: pairs of a number and a content
  objects,      \* what the server has put together
  changes,
  tampered,     \* history: the file or the limit has changed, or the server forgot an upload
  partLimit,    \* File.partLimit, 0 for nil
  uploading,    \* File.uploading: the lock of each hash, 0 without an entry
  count,        \* users of each lock; a lock is known by the call that made it
  held,         \* locks that are held
  record,       \* LocalUpload
  pc, hash,     \* the calls
  lock,         \* the lock that a call uses
  id, bits,     \* uploadInfo: the server's upload, its parts that are there
  part          \* the part in turn

serverVars == <<limit, open, stored, objects>>
lockVars   == <<uploading, count, held, lock>>
infoVars   == <<hash, id, bits, part>>
worldVars  == <<disk, changes, tampered>>
vars == <<worldVars, serverVars, partLimit, lockVars, record, pc, infoVars>>

Goto(u, p) == pc' = [pc EXCEPT ![u] = p]

(* File.uploading and every call but the record end with the process. *)
Init ==
  /\ disk = 0 /\ limit \in Limits /\ changes = 0 /\ tampered = FALSE
  /\ open = [u \in Calls |-> 0] /\ stored = [u \in Calls |-> {}] /\ objects = {}
  /\ partLimit = 0 /\ uploading = [h \in Hashes |-> 0]
  /\ count = [u \in Calls |-> 0] /\ held = {} /\ lock = [u \in Calls |-> 0]
  /\ record = [h \in Hashes |-> None]
  /\ pc = [u \in Calls |-> "idle"]
  /\ hash = [u \in Calls |-> [content |-> disk, parts |-> limit]]
  /\ id = [u \in Calls |-> 0] /\ bits = [u \in Calls |-> {}] /\ part = [u \in Calls |-> 1]
-----------------------------------------------------------------------------
(* The beginning of UploadFile *)

(***************************************************************************)
(* partSize and getPartInfo: the limit is fetched once, then the file is   *)
(* read.  Calls begin in their order.                                      *)
(***************************************************************************)
Begins(u) == pc[u] = "idle" /\ \A v \in 1..(u - 1) : pc[v] # "idle"

GetPartInfo(u) ==
  /\ Begins(u) /\ Goto(u, "lock")
  /\ partLimit' = IF partLimit = 0 THEN limit ELSE partLimit
  /\ hash' = [hash EXCEPT ![u] = [content |-> disk, parts |-> partLimit']]
  /\ UNCHANGED <<worldVars, serverVars, lockVars, record, id, bits, part>>

GetPartInfoFails(u) ==
  /\ Begins(u) /\ partLimit = 0 /\ "fail" \in Faults /\ Goto(u, "done")
  /\ UNCHANGED <<worldVars, serverVars, partLimit, lockVars, record, infoVars>>

(* lockHash: the entry is found or made and counted under mapLocker ... *)
LockHash(u) ==
  /\ pc[u] = "lock" /\ Goto(u, "wait")
  /\ LET l == IF uploading[hash[u]] = 0 THEN u ELSE uploading[hash[u]] IN
       /\ uploading' = [uploading EXCEPT ![hash[u]] = l]
       /\ lock' = [lock EXCEPT ![u] = l] /\ count' = [count EXCEPT ![l] = @ + 1]
  /\ UNCHANGED <<worldVars, serverVars, partLimit, held, record, infoVars>>

(* ... and its lock is taken outside. *)
Lock(u) ==
  /\ pc[u] = "wait" /\ lock[u] \notin held /\ held' = held \cup {lock[u]} /\ Goto(u, "record")
  /\ UNCHANGED <<worldVars, serverVars, partLimit, uploading, count, lock, record,
                 infoVars>>

(* Mutant: the entry is dropped by the first that is done. *)
UnlockHash_NoCount(u) ==
  /\ pc[u] = "unlock" /\ Goto(u, "release")
  /\ count' = [count EXCEPT ![lock[u]] = @ - 1]
  /\ uploading' = [uploading EXCEPT ![hash[u]] = 0]
  /\ UNCHANGED <<worldVars, serverVars, partLimit, held, lock, record, infoVars>>

(* unlockHash: the last user drops the entry under mapLocker ... *)
UnlockHash(u) ==
  /\ pc[u] = "unlock" /\ Goto(u, "release")
  /\ count' = [count EXCEPT ![lock[u]] = @ - 1]
  /\ uploading' = IF count[lock[u]] = 1 THEN [uploading EXCEPT ![hash[u]] = 0] ELSE uploading
  /\ UNCHANGED <<worldVars, serverVars, partLimit, held, lock, record, infoVars>>

(* ... and the lock is released outside. *)
Unlock(u) ==
  /\ pc[u] = "release" /\ held' = held \ {lock[u]} /\ Goto(u, "done")
  /\ lock' = [lock EXCEPT ![u] = 0] /\ id' = [id EXCEPT ![u] = 0]
  /\ bits' = [bits EXCEPT ![u] = {}] /\ part' = [part EXCEPT ![u] = 1]
  /\ UNCHANGED <<worldVars, serverVars, partLimit, uploading, count, hash, record>>
-----------------------------------------------------------------------------
(* getUpload *)

(* Mutant: a file of one part has a row too. *)
Recorded_Any(u) == hash[u].parts >= 1

Recorded(u) == hash[u].parts > 1      \* a file of one part has no row

(* Errors of the table are only logged. *)
Write(h, r) ==
  record' = [record EXCEPT ![h] = r] \/ ("db" \in Faults /\ record' = record)

(* DeleteUpload and InsertUpload, of which both, or the second, may fail. *)
Replace(h, r) ==
  Write(h, r) \/ ("db" \in Faults /\ record' = [record EXCEPT ![h] = None])

(* getLocalUploadInfo: an upload that has more than an hour left is taken up. *)
Resumable(u) == Recorded(u) /\ record[hash[u]].id # 0 /\ ~record[hash[u]].expired

Resume(u) ==
  /\ pc[u] = "record" /\ Resumable(u) /\ Goto(u, "parts")
  /\ id' = [id EXCEPT ![u] = record[hash[u]].id]
  /\ bits' = [bits EXCEPT ![u] = record[hash[u]].bits] /\ part' = [part EXCEPT ![u] = 1]
  /\ UNCHANGED <<worldVars, serverVars, partLimit, lockVars, record, hash>>

ForgetRecord(u) ==
  /\ pc[u] = "record" /\ ~Resumable(u) /\ Goto(u, "initiate")
  /\ IF Recorded(u) THEN Write(hash[u], None) ELSE UNCHANGED record
  /\ UNCHANGED <<worldVars, serverVars, partLimit, lockVars, infoVars>>

(* The server has the file already. *)
AlreadyThere(u) ==
  /\ pc[u] = "initiate" /\ hash[u] \in objects /\ Goto(u, "unlock")
  /\ UNCHANGED <<worldVars, serverVars, partLimit, lockVars, record, infoVars>>

(* The request or its answer is lost. *)
InitiateFails(u) ==
  /\ pc[u] = "initiate" /\ "fail" \in Faults /\ Goto(u, "unlock")
  /\ UNCHANGED <<worldVars, serverVars, partLimit, lockVars, record, infoVars>>

(***************************************************************************)
(* The server makes an upload, with its limit of the moment; the row is    *)
(* replaced.  If the limit is not the one the file was cut by, the call    *)
(* fails and the cached limit is dropped.                                  *)
(***************************************************************************)
InitiateMultipartUpload(u) ==
  /\ pc[u] = "initiate" /\ hash[u] \notin objects
  /\ open' = [open EXCEPT ![u] = limit]
  /\ id' = [id EXCEPT ![u] = u] /\ bits' = [bits EXCEPT ![u] = {}]
  /\ part' = [part EXCEPT ![u] = 1]
  /\ IF Recorded(u) THEN Replace(hash[u], [id |-> u, bits |-> {}, expired |-> FALSE])
     ELSE UNCHANGED record
  /\ \/ limit = hash[u].parts /\ Goto(u, "parts") /\ UNCHANGED partLimit
     \/ limit # hash[u].parts /\ Goto(u, "unlock") /\ partLimit' = 0
  /\ UNCHANGED <<worldVars, limit, stored, objects, lockVars, hash>>
-----------------------------------------------------------------------------
(* The parts *)

(* A part that is there is only read; the call ends when the file is not the same any more. *)
SkipPart(u) ==
  /\ pc[u] = "parts" /\ part[u] \in bits[u]
  /\ IF disk = hash[u].content THEN Goto(u, "parts") /\ part' = [part EXCEPT ![u] = @ + 1]
     ELSE Goto(u, "unlock") /\ UNCHANGED part
  /\ UNCHANGED <<worldVars, serverVars, partLimit, lockVars, record, hash, id, bits>>

Missing(u) == pc[u] = "parts" /\ part[u] \in 1..hash[u].parts \ bits[u]

(***************************************************************************)
(* doPut: the server stores what is read now, if it still knows the        *)
(* upload.  Its answer may be lost.                                        *)
(***************************************************************************)
DoPut(u) ==
  /\ Missing(u) /\ open[id[u]] # 0
  /\ \/ Goto(u, IF disk = hash[u].content THEN "put" ELSE "changed")
     \/ "fail" \in Faults /\ Goto(u, "unlock")
  /\ stored' = [stored EXCEPT ![id[u]] =
                  {p \in @ : p[1] # part[u]} \cup {<<part[u], disk>>}]
  /\ UNCHANGED <<worldVars, limit, open, objects, partLimit, lockVars, record, hash, id,
                 bits, part>>

(* Mutant: the part is counted before it is sent. *)
PartFails_Counted(u) ==
  /\ Missing(u) /\ Goto(u, "unlock")
  /\ "fail" \in Faults \/ open[id[u]] = 0
  /\ IF Recorded(u) THEN Write(hash[u], [record[hash[u]] EXCEPT !.bits = @ \cup {part[u]}])
     ELSE UNCHANGED record
  /\ UNCHANGED <<worldVars, serverVars, partLimit, lockVars, infoVars>>

(* GetPartSign or doPut fails. *)
PartFails(u) ==
  /\ Missing(u) /\ Goto(u, "unlock")
  /\ "fail" \in Faults \/ open[id[u]] = 0
  /\ UNCHANGED <<worldVars, serverVars, partLimit, lockVars, record, infoVars>>

(* UpdateUpload writes the row if there is one. *)
UpdateUpload(u, b) ==
  LET r == record[hash[u]] IN
    IF r.id = 0 THEN UNCHANGED record
    ELSE Write(hash[u], [id |-> id[u], bits |-> b, expired |-> r.id = id[u] /\ r.expired])

(***************************************************************************)
(* The bit is set, in the row too, before the sum of what was read is      *)
(* compared with that of the first reading.                                *)
(***************************************************************************)
SetPart(u) ==
  /\ pc[u] \in {"put", "changed"}
  /\ IF Recorded(u)
     THEN bits' = [bits EXCEPT ![u] = @ \cup {part[u]}] /\ UpdateUpload(u, bits'[u])
     ELSE UNCHANGED <<bits, record>>
  /\ IF pc[u] = "put"
     THEN Goto(u, "parts") /\ part' = [part EXCEPT ![u] = @ + 1]
     ELSE Goto(u, "unlock") /\ UNCHANGED part
  /\ UNCHANGED <<worldVars, serverVars, partLimit, lockVars, hash, id>>

(* The server has every part of the upload, with the sums that the call gives. *)
Whole(u) ==
  /\ open[id[u]] = hash[u].parts
  /\ \A i \in 1..hash[u].parts : <<i, hash[u].content>> \in stored[id[u]]

AllSent(u) == pc[u] = "parts" /\ part[u] > hash[u].parts

(* The parts are put together, or were for a call whose answer was lost. *)
Complete(u) ==
  /\ AllSent(u)
  /\ \/ hash[u] \in objects /\ UNCHANGED <<open, objects>>
     \/ Whole(u) /\ open' = [open EXCEPT ![id[u]] = 0] /\ objects' = objects \cup {hash[u]}
  /\ \/ Goto(u, "delete")
     \/ "fail" \in Faults /\ Goto(u, "unlock")
  /\ UNCHANGED <<worldVars, limit, stored, partLimit, lockVars, record, infoVars>>

(* Mutant: a call that is refused returns without its unlockHash. *)
CompleteFails_Returns(u) ==
  /\ AllSent(u) /\ ("fail" \in Faults \/ ~Whole(u)) /\ Goto(u, "done")
  /\ UNCHANGED <<worldVars, serverVars, partLimit, lockVars, record, infoVars>>

(* The request fails, or the server refuses it; an upload that is complete may be refused again. *)
CompleteFails(u) ==
  /\ AllSent(u) /\ ("fail" \in Faults \/ ~Whole(u)) /\ Goto(u, "unlock")
  /\ UNCHANGED <<worldVars, serverVars, partLimit, lockVars, record, infoVars>>

DeleteUpload(u) ==
  /\ pc[u] = "delete" /\ Goto(u, "unlock")
  /\ IF Recorded(u) THEN Write(hash[u], None) ELSE UNCHANGED record
  /\ UNCHANGED <<worldVars, serverVars, partLimit, lockVars, infoVars>>
-----------------------------------------------------------------------------
(* What happens around the calls *)

Change(kind) == kind \in Faults /\ changes < MaxChanges /\ changes' = changes + 1

FileChanges ==
  /\ Change("change") /\ tampered' = TRUE /\ \E c \in Contents \ {disk} : disk' = c
  /\ UNCHANGED <<serverVars, partLimit, lockVars, record, pc, infoVars>>

LimitChanges ==
  /\ Change("limit") /\ tampered' = TRUE /\ \E l \in Limits \ {limit} : limit' = l
  /\ UNCHANGED <<disk, open, stored, objects, partLimit, lockVars, record, pc, infoVars>>

ServerForgets(u) ==
  /\ Change("forget") /\ tampered' = TRUE /\ open[u] # 0
  /\ open' = [open EXCEPT ![u] = 0] /\ stored' = [stored EXCEPT ![u] = {}]
  /\ UNCHANGED <<disk, limit, objects, partLimit, lockVars, record, pc, infoVars>>

Expire(h) ==
  /\ Change("expire") /\ record[h].id # 0 /\ ~record[h].expired
  /\ record' = [record EXCEPT ![h].expired = TRUE]
  /\ UNCHANGED <<disk, tampered, serverVars, partLimit, lockVars, pc, infoVars>>

(* The locks and the calls end with the process. *)
Crash ==
  /\ Change("crash") /\ partLimit' = 0 /\ uploading' = [h \in Hashes |-> 0]
  /\ count' = [u \in Calls |-> 0] /\ held' = {} /\ lock' = [u \in Calls |-> 0]
  /\ pc' = [u \in Calls |-> IF pc[u] = "idle" THEN "idle" ELSE "done"]
  /\ id' = [u \in Calls |-> 0] /\ bits' = [u \in Calls |-> {}] /\ part' = [u \in Calls |-> 1]
  /\ UNCHANGED <<disk, tampered, serverVars, record, hash>>
-----------------------------------------------------------------------------
Step(u) ==
  \/ LockHash(u) \/ Lock(u) \/ Resume(u) \/ ForgetRecord(u) \/ AlreadyThere(u)
  \/ InitiateMultipartUpload(u) \/ InitiateFails(u) \/ SkipPart(u) \/ DoPut(u) \/ PartFails(u) \/ SetPart(u)
  \/ Complete(u) \/ CompleteFails(u) \/ DeleteUpload(u) \/ UnlockHash(u) \/ Unlock(u)

World ==
  \/ FileChanges \/ LimitChanges \/ Crash
  \/ (\E h \in Hashes : Expire(h)) \/ (\E u \in Calls : ServerForgets(u))

Next == World \/ \E u \in Calls : GetPartInfo(u) \/ GetPartInfoFails(u) \/ Step(u)

Spec == Init /\ [][Next]_vars

(* A call goes on by itself; sync.Mutex lets in one of those who wait. *)
FairSpec == Spec /\ \A u \in Calls : WF_vars(Step(u))
-----------------------------------------------------------------------------
Inside == {"record", "initiate", "parts", "put", "changed", "delete", "unlock"}

(* Type correctness. *)
TypeServer ==
  /\ disk \in Contents /\ limit \in Limits /\ changes \in 0..MaxChanges /\ tampered \in BOOLEAN
  /\ partLimit \in Limits \cup {0}
  /\ open \in [Calls -> Limits \cup {0}] /\ objects \subseteq Hashes
  /\ stored \in [Calls -> SUBSET (Nat \X Contents)]
TypeLocks ==
  /\ uploading \in [Hashes -> Calls \cup {0}] /\ lock \in [Calls -> Calls \cup {0}]
  /\ count \in [Calls -> 0..MaxCalls] /\ held \subseteq Calls
TypeCalls ==
  /\ pc \in [Calls -> {"idle", "lock", "wait", "release", "done"} \cup Inside]
  /\ hash \in [Calls -> Hashes] /\ id \in [Calls -> Calls \cup {0}]
  /\ bits \in [Calls -> SUBSET Nat] /\ part \in [Calls -> Nat]
  /\ \A u \in Calls : bits[u] \subseteq 1..hash[u].parts /\ part[u] \in 1..(hash[u].parts + 1)
TypeRows ==
  /\ record \in [Hashes -> [id : Calls \cup {0}, bits : SUBSET Nat, expired : BOOLEAN]]
  /\ \A h \in Hashes : record[h].bits \subseteq 1..h.parts /\ (h.parts = 1 => record[h] = None)
TypeOK == TypeServer /\ TypeLocks /\ TypeCalls /\ TypeRows

(***************************************************************************)
(* Two calls never send the same content at the same time: the lock of a   *)
(* hash is counted, so that a call that comes while another waits uses the *)
(* same one.                                                               *)
(***************************************************************************)
OneUploader ==
  \A u, v \in Calls :
    pc[u] \in Inside /\ pc[v] \in Inside /\ hash[u] = hash[v] => u = v

(***************************************************************************)
(* A part that the table counts is at the server, and a call that has gone *)
(* through all parts is not refused, however many crashes, lost answers    *)
(* and failed writes there were, as long as the file and the limit stay    *)
(* and the server forgets nothing.                                         *)
(***************************************************************************)
CountedIsStored ==
  ~tampered =>
    /\ \A h \in Hashes : LET r == record[h] IN
         r.id # 0 /\ h \notin objects => r.bits \X {h.content} \subseteq stored[r.id]
    /\ \A u \in Calls : AllSent(u) /\ hash[u] \notin objects => Whole(u)

(* Every call ends: no way out of UploadFile leaves the lock to the next call. *)
UploadEnds == \A u \in Calls : pc[u] # "idle" ~> pc[u] = "done"
=============================================================================
