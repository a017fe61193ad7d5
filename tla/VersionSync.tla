----------------------------- MODULE VersionSync -----------------------------
(***************************************************************************)
(* A list kept in step with the server's by version numbers: the members   *)
(* of a group, the friends (or the joined groups) and the conversations of *)
(* the user (pkg/syncer, and incremental_sync.go of the three packages).   *)
(*                                                                         *)
(*   server list --- increments since (versionID, version) --> Sync rows   *)
(*       |  \------- pushed changes (members only) ------------^   |       *)
(*       |                                                         v       *)
(*       +---- full list, page by page, and all its ids --> SetVersionSync *)
(*                                                                         *)
(* The list's mutex lets one synchronisation run at a time.  The queries   *)
(* of DataFetcher insert the rows they miss without that mutex.            *)
(*                                                                         *)
(* The content of an item is the version of the change that wrote it.      *)
(***************************************************************************)
EXTENDS Integers, Sequences, FiniteSets, SequencesExt

CONSTANTS
  Ids,            \* items that may be in the list
  InitList,       \* the server's list when the program starts, in order
  Kinds,          \* lists to consider: "members", "friends", "conversations"
  MaxVersion,     \* bound: version the server's list may reach
  MaxVersionID,   \* bound: times the server may start a new version log
  PageSize,       \* ShowNumber of a page request
  FullSyncLimit,  \* fullSyncLimit: items after which a full sync stops
  Faults          \* "fail": a request or a database call fails; "crash":
                  \* the process dies; "compact": the server forgets old
                  \* versions; "query": queries insert the rows they miss

ASSUME ListAssumption ==
  /\ IsFiniteSet(Ids) /\ "none" \notin Ids
  /\ InitList \in Seq(Ids) /\ IsInjective(InitList)
ASSUME BoundAssumption ==
  /\ MaxVersion \in Nat /\ MaxVersionID \in Nat
  /\ PageSize \in Nat \ {0} /\ FullSyncLimit \in Nat \ {0}
ASSUME KindAssumption ==
  /\ Kinds \subseteq {"members", "friends", "conversations"}
  /\ Faults \subseteq {"fail", "crash", "compact", "query"}

VARIABLES
  kind,       \* which of the lists this is
  \* the server
  list,       \* its ids, in order
  hist,       \* its changes: version k is that of hist[k]
  stamp,      \* [Ids -> Nat], version of an item's last change
  versionID, floor,   \* its version log, and the oldest version it reaches
  \* the client's database
  rows,       \* [Ids -> Int], the table; Absent: no row
  uidList, saved,     \* LocalVersionSync: UIDList, and VersionID with Version
  \* the synchronisation that holds the mutex
  pc,
  resp,       \* the response it applies
  newList,    \* lvs.UIDList; "fetched": it comes from FullID
  local,      \* the ids that Local read
  page, failed,       \* FullSync: the next page, an insert has failed
  \* a query, and histories
  fetched,    \* the item it has read from the server
  filled,     \* ids whose row a query inserted
  holes       \* ids the last full sync may have left without a row

serverVars == <<kind, list, hist, stamp, versionID, floor>>
dbVars     == <<rows, uidList, saved>>
syncVars   == <<pc, resp, newList, local, page, failed>>
histVars   == <<filled, holes>>
vars == <<serverVars, dbVars, syncVars, fetched, histVars>>

Absent    == -1
NoItems   == [i \in Ids |-> Absent]
NoFetch   == [id |-> "none", content |-> Absent]
Version   == Len(hist)
Listed    == ToSet(list)
Stored    == {i \in Ids : rows[i] # Absent}
Content(S) == [i \in Ids |-> IF i \in S THEN stamp[i] ELSE Absent]

Response(full, id, version, items, dels, sort) ==
  [full |-> full, id |-> id, version |-> version, items |-> items,
   dels |-> dels, sort |-> sort]
NoResponse == Response(FALSE, 0, 0, NoItems, {}, FALSE)

(* Between two synchronisations. *)
Unlock ==
  /\ pc' = "idle" /\ resp' = NoResponse
  /\ newList' = [ids |-> <<>>, fetched |-> FALSE]
  /\ local' = {} /\ page' = 0 /\ failed' = FALSE

Init ==
  /\ kind \in Kinds
  /\ list = InitList /\ versionID = 1 /\ floor = 0
  /\ hist = [k \in 1..Len(InitList) |-> [op |-> "add", id |-> InitList[k], log |-> 1]]
  /\ stamp = [i \in Ids |-> IF i \in ToSet(InitList)
                            THEN CHOOSE k \in 1..Len(InitList) : InitList[k] = i ELSE 0]
  /\ rows = NoItems /\ uidList = <<>> /\ saved = [id |-> 0, version |-> 0]
  /\ pc = "idle" /\ resp = NoResponse /\ newList = [ids |-> <<>>, fetched |-> FALSE]
  /\ local = {} /\ page = 0 /\ failed = FALSE
  /\ fetched = NoFetch /\ filled = {} /\ holes = Ids
-----------------------------------------------------------------------------
(* The server *)

(* The sequence q without the members of S. *)
Without(q, S) ==
  LET kept[n \in 0..Len(q)] == IF n = 0 THEN <<>>
                               ELSE IF q[n] \in S THEN kept[n - 1]
                               ELSE Append(kept[n - 1], q[n])
  IN  kept[Len(q)]

(* Every change makes a version; that of a "move" changes the order as well. *)
NewVersion(op, i) ==
  /\ Version < MaxVersion
  /\ hist' = Append(hist, [op |-> op, id |-> i, log |-> versionID])
  /\ UNCHANGED <<kind, versionID, floor, dbVars, syncVars, fetched, histVars>>

Change(op, i) ==
  /\ NewVersion(op, i) /\ stamp' = [stamp EXCEPT ![i] = Version + 1]
  /\ \/ op = "add" /\ i \notin Listed /\ list' = Append(list, i)
     \/ op = "set" /\ i \in Listed /\ list' = list
     \/ op = "move" /\ i \in Listed /\ kind # "conversations"
        /\ list' = <<i>> \o Without(list, {i})
     \/ op = "del" /\ i \in Listed /\ list' = Without(list, {i})

(* The group's own data changes: a version of the members without a member. *)
ChangeInfo ==
  /\ kind = "members" /\ NewVersion("info", "none") /\ UNCHANGED <<list, stamp>>

Compact ==
  /\ "compact" \in Faults /\ floor < Version /\ floor' = Version
  /\ UNCHANGED <<kind, list, hist, stamp, versionID, dbVars, syncVars, fetched, histVars>>

NewVersionLog ==
  /\ versionID < MaxVersionID /\ versionID' = versionID + 1
  /\ UNCHANGED <<kind, list, hist, stamp, floor, dbVars, syncVars, fetched, histVars>>

(***************************************************************************)
(* The answer to a request for what has changed since the saved version:   *)
(* everything, when the server's log does not reach back to it.            *)
(***************************************************************************)
Answer ==
  LET changed == {i \in Ids : stamp[i] > saved.version}
  IN  IF saved.id # versionID \/ saved.version < floor
      THEN Response(TRUE, versionID, Version, NoItems, {}, FALSE)
      ELSE Response(FALSE, versionID, Version, Content(changed \cap Listed),
                    changed \ Listed,
                    \E k \in saved.version + 1..Version : hist[k].op = "move")
-----------------------------------------------------------------------------
(* The synchronisation *)

(* IncrementalSync's UIDList: deleted ids leave, those not yet in it are added. *)
IncrementedIDs(r) ==
  LET kept == Without(uidList, r.dels)
  IN  kept \o SetToSeq({i \in Ids : r.items[i] # Absent} \ ToSet(kept))

(* IncrementalSync up to its response; without data it returns. *)
IncrementalSync ==
  /\ pc = "idle"
  /\ Answer.full \/ Answer.version > saved.version
  /\ resp' = Answer /\ pc' = IF Answer.full THEN "full" ELSE "local"
  /\ newList' = [ids |-> IF Answer.full THEN uidList ELSE IncrementedIDs(Answer),
                 fetched |-> FALSE]
  /\ UNCHANGED <<local, page, failed>>

StartSync == IncrementalSync /\ UNCHANGED <<serverVars, dbVars, fetched, histVars>>

(* What the notification of version k carries. *)
Pushed(k) ==
  LET c == hist[k]
  IN  Response(FALSE, c.log, k,
               [i \in Ids |-> IF i = c.id /\ c.op # "del" THEN k ELSE Absent],
               IF c.op = "del" THEN {c.id} ELSE {}, c.op = "move")

(* Mutant: any later version follows the saved one. *)
Follows_Later(k) == hist[k].log = saved.id /\ k > saved.version

Follows(k) == hist[k].log = saved.id /\ k = saved.version + 1

(***************************************************************************)
(* CheckVersionSync, for the notification of version k, whichever it is    *)
(* (notifications are late, repeated or skipped): the next version is      *)
(* applied as it is, an old one ignored; otherwise the increments are      *)
(* requested.                                                              *)
(***************************************************************************)
OnlineSync(k) ==
  /\ kind = "members" /\ k \in 1..Version /\ pc = "idle"
  /\ IF Follows(k)
     THEN /\ resp' = Pushed(k) /\ pc' = "local"
          /\ newList' = [ids |-> Without(uidList, resp'.dels) \o
                                 IF hist[k].op = "add" THEN <<hist[k].id>> ELSE <<>>,
                         fetched |-> FALSE]
          /\ UNCHANGED <<local, page, failed>>
     ELSE /\ hist[k].log # saved.id \/ k > saved.version
          /\ IncrementalSync
  /\ UNCHANGED <<serverVars, dbVars, fetched, histVars>>
-----------------------------------------------------------------------------
(* The full response *)

(* FullSync empties the table, except that of conversations that has rows. *)
DeleteAll ==
  /\ pc = "full" /\ (kind = "conversations" => Stored = {})
  /\ rows' = NoItems /\ pc' = "page" /\ page' = 1
  /\ filled' = {} /\ holes' = Ids
  /\ UNCHANGED <<serverVars, uidList, saved, resp, newList, local, failed, fetched>>

(* FullSyncer of conversations that have rows: the whole list, into Sync. *)
PullAll ==
  /\ pc = "full" /\ kind = "conversations" /\ Stored # {}
  /\ resp' = [resp EXCEPT !.items = Content(Listed)] /\ pc' = "local"
  /\ UNCHANGED <<serverVars, dbVars, newList, local, page, failed, fetched, histVars>>

(***************************************************************************)
(* FetchAndInsertPagedData: one page of the list as it is now.  The batch  *)
(* is inserted, or item by item if that fails; a row that is there already *)
(* makes the full sync fail in the end.                                    *)
(***************************************************************************)
PageOfList == {list[k] : k \in {m \in 1..Len(list) : (page - 1) * PageSize < m /\ m <= page * PageSize}}

(* Mutant: the limit is not looked at. *)
LastPage_NoLimit == page * PageSize > Len(list)

(* A page that is not full is the last, and so is the one that reaches the limit. *)
LastPage == page * PageSize > Len(list) \/ page * PageSize >= FullSyncLimit

FetchPage ==
  /\ pc = "page"
  /\ rows' = [i \in Ids |-> IF i \in PageOfList \ Stored THEN stamp[i] ELSE rows[i]]
  /\ IF ~LastPage
     THEN /\ page' = page + 1 /\ failed' = (failed \/ PageOfList \cap Stored # {})
          /\ UNCHANGED <<pc, resp, newList, local, holes>>
     ELSE IF failed \/ PageOfList \cap Stored # {} THEN Unlock /\ UNCHANGED holes
     ELSE /\ pc' = "fullid" /\ holes' = {i \in Ids : rows'[i] = Absent}
          /\ UNCHANGED <<resp, newList, local, page, failed>>
  /\ UNCHANGED <<serverVars, uidList, saved, fetched, filled>>

FullID ==
  /\ pc = "fullid" /\ pc' = "save"
  /\ newList' = [ids |-> list, fetched |-> TRUE]
  /\ UNCHANGED <<serverVars, dbVars, resp, local, page, failed, fetched, histVars>>
-----------------------------------------------------------------------------
(* The increments: Sync, row by row *)

ReadLocal ==
  /\ pc = "local" /\ pc' = "apply" /\ local' = Stored
  /\ UNCHANGED <<serverVars, dbVars, resp, newList, page, failed, fetched, histVars>>

ItemsDone == resp.items = NoItems

(* Mutant: an item that is not in the table is not inserted. *)
SyncItem_UpdateOnly(i) ==
  /\ rows' = IF i \in local THEN [rows EXCEPT ![i] = resp.items[i]] ELSE rows
  /\ resp' = [resp EXCEPT !.items[i] = Absent]
  /\ holes' = holes \ {i} /\ filled' = filled \ {i}
  /\ UNCHANGED <<pc, newList, local, page, failed>>

(***************************************************************************)
(* Sync updates an item that Local read, and inserts another; the insert   *)
(* fails if a query has inserted the row in the meantime.                  *)
(***************************************************************************)
SyncItem(i) ==
  IF i \in local \/ rows[i] = Absent
  THEN /\ rows' = [rows EXCEPT ![i] = resp.items[i]]
       /\ resp' = [resp EXCEPT !.items[i] = Absent]
       /\ holes' = holes \ {i} /\ filled' = filled \ {i}
       /\ UNCHANGED <<pc, newList, local, page, failed>>
  ELSE Unlock /\ UNCHANGED <<rows, holes, filled>>

ApplyItem(i) ==
  /\ pc = "apply" /\ resp.items[i] # Absent /\ SyncItem(i)
  /\ UNCHANGED <<serverVars, uidList, saved, fetched>>

(* Sync deletes what Local read and the server has not; not conversations. *)
ApplyDelete(i) ==
  /\ pc = "apply" /\ ItemsDone /\ i \in resp.dels /\ kind # "conversations"
  /\ rows' = IF i \in local THEN [rows EXCEPT ![i] = Absent] ELSE rows
  /\ resp' = [resp EXCEPT !.dels = @ \ {i}]
  /\ filled' = IF i \in local THEN filled \ {i} ELSE filled
  /\ UNCHANGED <<serverVars, uidList, saved, pc, newList, local, page, failed, fetched, holes>>

(* ExtraDataProcessor, for the group's own data, and IDOrderChanged. *)
Applied ==
  /\ pc = "apply" /\ ItemsDone /\ (resp.dels = {} \/ kind = "conversations")
  /\ pc' = IF resp.full \/ (resp.sort /\ kind # "conversations") THEN "fullid" ELSE "save"
  /\ UNCHANGED <<serverVars, dbVars, resp, newList, local, page, failed, fetched, histVars>>

(***************************************************************************)
(* updateVersionInfo.  SetVersionSync updates a record that exists with    *)
(* gorm's Updates, which skips a nil UIDList: what FullID returns for an   *)
(* empty list may be nil.                                                  *)
(***************************************************************************)
Save ==
  /\ pc = "save" /\ Unlock
  /\ saved' = [id |-> resp.id, version |-> resp.version]
  /\ \/ uidList' = newList.ids
     \/ newList = [ids |-> <<>>, fetched |-> TRUE] /\ uidList' = uidList
  /\ UNCHANGED <<serverVars, rows, fetched, histVars>>

(* A request or a database call fails: the error return, at any point. *)
SyncFails ==
  /\ "fail" \in Faults /\ pc # "idle" /\ Unlock
  /\ UNCHANGED <<serverVars, dbVars, fetched, histVars>>

Crash ==
  /\ "crash" \in Faults /\ (pc # "idle" \/ fetched # NoFetch)
  /\ Unlock /\ fetched' = NoFetch
  /\ UNCHANGED <<serverVars, dbVars, histVars>>
-----------------------------------------------------------------------------
(***************************************************************************)
(* DataFetcher: FetchWithPagination finds an id of UIDList without a row   *)
(* and reads the item from the server ...  Bounds: one query at a time,    *)
(* one missing item in its page.                                           *)
(***************************************************************************)
FetchFromServer(i) ==
  /\ "query" \in Faults /\ kind # "conversations" /\ fetched = NoFetch
  /\ i \in ToSet(uidList) \ Stored /\ i \in Listed
  /\ fetched' = [id |-> i, content |-> stamp[i]]
  /\ UNCHANGED <<serverVars, dbVars, syncVars, histVars>>

(* ... and inserts it, unless there is a row by now. *)
FillLocal ==
  /\ fetched # NoFetch /\ fetched' = NoFetch
  /\ IF fetched.id \in Stored THEN UNCHANGED <<rows, filled>>
     ELSE /\ rows' = [rows EXCEPT ![fetched.id] = fetched.content]
          /\ filled' = filled \cup {fetched.id}
  /\ UNCHANGED <<serverVars, uidList, saved, syncVars, holes>>
-----------------------------------------------------------------------------
Server ==
  \/ \E op \in {"add", "set", "move", "del"}, i \in Ids : Change(op, i)
  \/ ChangeInfo \/ Compact \/ NewVersionLog

Sync ==
  \/ StartSync \/ \E k \in 1..MaxVersion : OnlineSync(k)
  \/ DeleteAll \/ PullAll \/ FetchPage \/ FullID
  \/ ReadLocal \/ \E i \in Ids : ApplyItem(i) \/ ApplyDelete(i)
  \/ Applied \/ Save \/ SyncFails

Query == FillLocal \/ \E i \in Ids : FetchFromServer(i)

(* The client is up to date. *)
Resting ==
  /\ pc = "idle" /\ fetched = NoFetch
  /\ saved = [id |-> versionID, version |-> Version]
  /\ UNCHANGED vars

Next == Server \/ Sync \/ Query \/ Crash \/ Resting

Spec == Init /\ [][Next]_vars
-----------------------------------------------------------------------------
(* Type correctness; a full sync asks for no page beyond its limit. *)
Responses == [full : BOOLEAN, id : Nat, version : Nat, items : [Ids -> Int],
              dels : SUBSET Ids, sort : BOOLEAN]

TypeServer ==
  /\ kind \in {"members", "friends", "conversations"}
  /\ list \in Seq(Ids)
  /\ hist \in Seq([op : {"add", "set", "move", "del", "info"}, id : Ids \cup {"none"}, log : Nat])
  /\ stamp \in [Ids -> Nat] /\ versionID \in Nat /\ floor \in Nat
TypeDb ==
  rows \in [Ids -> Int] /\ uidList \in Seq(Ids) /\ saved \in [id : Nat, version : Nat]
TypeSync ==
  /\ pc \in {"idle", "full", "page", "fullid", "local", "apply", "save"}
  /\ resp \in Responses /\ newList \in [ids : Seq(Ids), fetched : BOOLEAN]
  /\ local \subseteq Ids /\ page \in 0..FullSyncLimit /\ failed \in BOOLEAN
TypeQuery ==
  /\ fetched \in [id : Ids \cup {"none"}, content : Int]
  /\ filled \subseteq Ids /\ holes \subseteq Ids
TypeOK == TypeServer /\ TypeDb /\ TypeSync /\ TypeQuery
-----------------------------------------------------------------------------
(* Safety *)

(* The saved version covers the last change of item i. *)
Covered(i) == saved.id = versionID /\ stamp[i] <= saved.version

(***************************************************************************)
(* The saved version never claims more than the table holds: a row whose   *)
(* last change it covers has that content, and a deleted item has no row,  *)
(* whatever failed or died half-way and in whatever order responses and    *)
(* notifications came.  (Conversations are not deleted; what a query       *)
(* inserts is not bound to a version.)                                     *)
(***************************************************************************)
RowsFresh ==
  \A i \in Stored \ filled :
     Covered(i) /\ (i \in Listed \/ kind # "conversations")
       => i \in Listed /\ rows[i] = stamp[i]

(***************************************************************************)
(* Nothing that the saved version covers is missing: every such item of    *)
(* the list is in UIDList, by which the queries by page go, and has a row, *)
(* unless the last full synchronisation did not get that far (its limit, a *)
(* list that changed between two pages, a failure).                        *)
(***************************************************************************)
NothingMissing ==
  /\ \A i \in Listed : Covered(i) => i \in ToSet(uidList)
  /\ \A i \in Listed \ holes : Covered(i) => i \in Stored
=============================================================================
