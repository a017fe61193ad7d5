------------------------------ MODULE Directory ------------------------------
(***************************************************************************)
(* The user's lists side by side: the joined groups, the members of a      *)
(* group, the friends and the black list (internal/group, internal/        *)
(* relation), with everything that synchronises them and the names of the  *)
(* conversations made from them (internal/conversation_msg).               *)
(*                                                                         *)
(*   API calls ----\                                                       *)
(*   notifications -+-- groupSyncMutex, relationSyncMutex --> rows         *)
(*   syncData -----/                                           |           *)
(*        ^                                  "name" events <---+           *)
(*        |                                        v                       *)
(*   the conversation worker <--- its queue -------+--> conversation names *)
(*                                                                         *)
(* VersionSync has the details of one list; here a list has one item (a    *)
(* group, another member of it, a friend, a black-list entry), and what    *)
(* counts is who synchronises which list when.  The changes on the server  *)
(* are numbered; the number of a change is the version of the logs that it *)
(* is in, and the content of the item.                                     *)
(***************************************************************************)
EXTENDS Integers, Sequences, FiniteSets, SequencesExt

CONSTANTS
  Scopes,      \* sets of lists; a behaviour is about one of these sets
  MaxChanges,  \* bound: changes on the server, after the first
  MaxCalls,    \* bound: API calls
  MaxEvents,   \* bound: compactions of the server's logs, reconnections,
               \* failures and crashes, together
  Faults       \* "fail": a request or a database call fails; "crash": the
               \* process dies and the user logs in again

Lists == {"groups", "members", "friends", "black"}

ASSUME ScopeAssumption ==
  Scopes \subseteq {{"groups", "members"}, {"friends"}, {"black"}} /\ Faults \subseteq {"fail", "crash"}
ASSUME BoundAssumption ==
  \A n \in {MaxChanges, MaxCalls, MaxEvents} : n \in Nat

VARIABLES
  \* the server
  scope,      \* the lists of this behaviour
  now,        \* number of its last change
  there,      \* [Lists -> BOOLEAN], the item is in the list
  chg,        \* [Lists -> Nat], the last change of the item
  over,       \* the change that dismissed the group; 0: none
  ver,        \* [Lists -> Nat], version of the list's log
  floor,      \* [Lists -> Nat], the oldest version the log reaches back to
  \* the client's database
  row,        \* [Lists -> Nat], the item's row; 0: no row
  saved,      \* [Lists -> Nat], the LocalVersionSync; 0: no record
  listed,     \* the group is in the UIDList saved with the groups' version
  conv,       \* [Lists -> Int], name of the item's conversation; 0: no conversation
  \* the client's goroutines
  mutex,      \* [{"group", "relation"} -> process or "free"]
  proc,       \* the synchronisation each process does
  queue,      \* conversationEventQueue
  maker,      \* the conversation that a goroutine is about to insert
  call,       \* the change the API call has asked for
  bound,      \* what is left of the bounds
  \* histories
  stale,      \* lists whose conversation may have an old name
  raced,      \* lists that two processes synchronised at the same time
  orphaned,   \* members may have been stored without their group
  missed      \* the last change that something known made the client miss:
              \* [skipped: of the group, by a full list of members; setBack: of the
              \* group, by late data with its members; emptied: of the members, when
              \* their rows were deleted by something that stopped there]

server == <<scope, now, there, chg, over, ver, floor>>
db     == <<row, saved, listed, conv>>
hist   == <<stale, raced, orphaned, missed>>
vars   == <<server, db, mutex, proc, queue, maker, call, bound, hist>>

Pools     == {"groups", "friends", "black"}   \* syncData's goroutines
Processes == Pools \cup {"worker", "call"}
PoolTodo(p) == IF p = "groups" THEN <<"groups", "members">> ELSE <<p>>
Mutex(l) == IF l \in {"groups", "members"} THEN "group" ELSE "relation"

Same   == -1        \* an answer without the item
Stranger == -1      \* the name of one who is not in the list
NoResp == [full |-> FALSE, ver |-> 0, item |-> Same, info |-> 0, push |-> FALSE]
Idle   == [todo |-> <<>>, pc |-> "idle", resp |-> NoResp, locks |-> TRUE]
NoCall == [list |-> "none", change |-> 0, gone |-> FALSE]
Query  == [NoCall EXCEPT !.list = "query"]
NoConv == [list |-> "none", name |-> 0]

(* An entry of the queue; arg: a name, or the version before that of a push. *)
Entry(kind, todo, resp, arg) == [kind |-> kind, todo |-> todo, resp |-> resp, arg |-> arg]
NameEvent(l, n) == Entry("name", <<l>>, NoResp, n)
SyncNote(todo)  == Entry("sync", todo, NoResp, 0)
LoginFlag == Entry("login", <<>>, NoResp, 0)
BeginFlag == Entry("begin", <<>>, NoResp, 0)

Syncing(r) == IF r.pc \in {"idle", "lock", "done"} THEN "none" ELSE Head(r.todo)
NamePending(l) == \E k \in DOMAIN queue : queue[k].kind = "name" /\ queue[k].todo = <<l>>

Init ==
  /\ scope \in Scopes
  /\ now = 1 /\ over = 0 /\ there = [l \in Lists |-> l \in scope]
  /\ chg = [l \in Lists |-> 1] /\ ver = chg /\ floor = chg
  /\ row = [l \in Lists |-> 0] /\ saved = row /\ conv = row
  /\ listed = FALSE
  /\ mutex = [m \in {"group", "relation"} |-> "free"]
  /\ proc = [p \in Processes |-> Idle]
  /\ queue = <<LoginFlag>>
  /\ maker = [w \in {"worker", "call"} |-> NoConv] /\ call = NoCall
  /\ bound = [change |-> MaxChanges, call |-> MaxCalls, event |-> MaxEvents]
  /\ stale = {} /\ raced = {} /\ orphaned = FALSE
  /\ missed = [skipped |-> 0, setBack |-> 0, emptied |-> 0]
-----------------------------------------------------------------------------
(* The server *)

(* What a change is allowed to be: nobody changes a group he is not in. *)
Allowed(op, l) ==
  /\ l \in scope
  /\ CASE op = "join"    -> l = "groups" /\ ~there["groups"] /\ over = 0
       [] op = "leave"   -> l = "groups" /\ there["groups"]
       [] op \in {"info", "dismiss"} -> l = "groups" /\ there["groups"] /\ over = 0
       [] op = "set"     -> l # "groups" /\ (l = "members" => there["groups"] /\ over = 0)
       [] op = "unset"   -> l # "groups" /\ there[l] /\ (l = "members" => there["groups"] /\ over = 0)

(* The note of change n.  A member's may carry the group's data. *)
Push(n, item, info) ==
  Entry("push", <<"members">>,
        [full |-> FALSE, ver |-> n, item |-> item, info |-> info, push |-> TRUE], ver["members"])

(* What the notification of change n makes the client do, in group ... *)
GroupNotes(op, n) ==
  CASE op = "join" -> {SyncNote(<<"groups", "members">>)}
    [] op \in {"leave", "dismiss"} -> {SyncNote(<<"groups">>)}
    [] op = "info" -> {Push(n, Same, n)}
    [] op = "set"   -> {Push(n, n, info) : info \in {0, chg["groups"]}}
    [] op = "unset" -> {Push(n, 0, chg["groups"])}

(* ... and in relation. *)
RelationNotes(l) == {SyncNote(<<l>>)}

Notes(op, l, n) == IF l \in {"groups", "members"} THEN GroupNotes(op, n) ELSE RelationNotes(l)

(* A change of the group is in the log of its members too. *)
Changed(op, l) ==
  /\ Allowed(op, l) /\ bound.change > 0
  /\ now' = now + 1
  /\ there' = [there EXCEPT ![l] = op \notin {"leave", "unset"}]
  /\ chg' = [chg EXCEPT ![l] = now']
  /\ ver' = [k \in Lists |-> IF k = l \/ (l = "groups" /\ k = "members") THEN now' ELSE ver[k]]
  /\ over' = IF op = "dismiss" THEN now' ELSE over
  /\ \E note \in Notes(op, l, now') : queue' = Append(queue, note)
  /\ UNCHANGED <<scope, floor>>

(* Another user, or another device of this one. *)
RemoteChange(op, l) ==
  /\ Changed(op, l) /\ bound' = [bound EXCEPT !.change = @ - 1]
  /\ UNCHANGED <<db, mutex, proc, maker, call, hist>>

(* The log no longer reaches back: the next answer may be the full one. *)
Compact(l) ==
  /\ l \in scope \ {"black"} /\ bound.event > 0 /\ floor[l] < ver[l]
  /\ floor' = [floor EXCEPT ![l] = ver[l]]
  /\ bound' = [bound EXCEPT !.event = @ - 1]
  /\ UNCHANGED <<scope, now, there, chg, over, ver, db, mutex, proc, queue, maker, call, hist>>

(***************************************************************************)
(* The answers to a request for what has changed since the saved version.  *)
(* The black list has no versions: it is always answered as it is.         *)
(***************************************************************************)
Item(l)  == IF there[l] THEN chg[l] ELSE 0

Increments(l) ==
  [full |-> saved[l] < floor[l], ver |-> ver[l], push |-> FALSE, info |-> 0,
   item |-> IF chg[l] > saved[l] THEN Item(l) ELSE Same]

IncrSyncJoinGroup  == Increments("groups")
IncrSyncFriends    == Increments("friends")
SyncGroupAndMember ==
  [Increments("members") EXCEPT
     !.info = IF chg["groups"] > saved["members"] THEN chg["groups"] ELSE 0]
SyncAllBlackList   == [NoResp EXCEPT !.item = Item("black")]

Answer(l) == CASE l = "groups" -> IncrSyncJoinGroup [] l = "members" -> SyncGroupAndMember
               [] l = "friends" -> IncrSyncFriends  [] l = "black"   -> SyncAllBlackList
-----------------------------------------------------------------------------
(* A synchronisation, by whichever process *)

Begun(todo, locks) == [Idle EXCEPT !.todo = todo, !.pc = "lock", !.locks = locks]
Onto(p, pc)        == [proc[p] EXCEPT !.pc = pc]
NextList(p)        == [proc[p] EXCEPT !.todo = Tail(@), !.resp = NoResp,
                                      !.pc = IF Len(proc[p].todo) > 1 THEN "fetch" ELSE "done"]
Given(p, r)        == [proc[p] EXCEPT !.resp = r, !.pc = IF r.full THEN "clear" ELSE "apply"]

(* Process p goes on with r, and with it perhaps to a list that another is at. *)
Becomes(p, r) ==
  /\ proc' = [proc EXCEPT ![p] = r]
  /\ raced' = raced \cup (({Syncing(proc[q]) : q \in Processes \ {p}} \cap {Syncing(r)}) \ {"none"})

(* groupSyncMutex.Lock, relationSyncMutex.Lock; some synchronise without it. *)
Lock(p) ==
  /\ proc[p].pc = "lock"
  /\ LET m == Mutex(Head(proc[p].todo))
     IN  IF proc[p].locks THEN mutex[m] = "free" /\ mutex' = [mutex EXCEPT ![m] = p]
                          ELSE UNCHANGED mutex
  /\ Becomes(p, Onto(p, "fetch"))
  /\ UNCHANGED <<server, db, queue, maker, call, bound, stale, orphaned, missed>>

(***************************************************************************)
(* Not every list of a call is requested: syncData asks for the members of *)
(* the groups that have a row, a query for those of a group in the list of *)
(* ids that were never synchronised.                                       *)
(***************************************************************************)
Skipped(p) ==
  /\ Syncing(proc[p]) = "members"
  /\ \/ p = "groups" /\ row["groups"] = 0
     \/ p = "call" /\ call = Query /\ (~listed \/ saved["members"] # 0)

(* Mutant: the group's own data are not looked at. *)
HasData_NoInfo(r) == r.full \/ r.item # Same

HasData(r) == r.full \/ r.item # Same \/ r.info # 0

(* Mutant: a later version is applied, not only the next. *)
FetchPush_Later(p, note) ==
  IF saved["members"] # 0 /\ saved["members"] < note.resp.ver THEN Given(p, note.resp)
  ELSE NextList(p)

(* CheckVersionSync: the next version is applied, an old one ignored. *)
FetchPush(p, note) ==
  IF saved["members"] = note.arg THEN Given(p, note.resp)
  ELSE IF note.resp.ver <= saved["members"] THEN NextList(p)
  ELSE IF HasData(Answer("members")) THEN Given(p, [Answer("members") EXCEPT !.push = TRUE])
  ELSE NextList(p)

(* Only members are told who the members are. *)
Refused(l) == l = "members" /\ ~there["groups"]

Fetch(p) ==
  /\ proc[p].pc = "fetch"
  /\ LET l == Head(proc[p].todo)
         pushed == p = "worker" /\ queue[1].kind = "push"
         local == Skipped(p) \/ (pushed /\ queue[1].resp.ver <= saved["members"])
                             \/ (pushed /\ queue[1].arg = saved["members"])
     IN  IF Refused(l) /\ ~local
         THEN /\ Becomes(p, [proc[p] EXCEPT !.pc = "done"])
              /\ call' = IF p = "call" THEN NoCall ELSE call
         ELSE /\ Becomes(p, IF Skipped(p) THEN NextList(p)
                            ELSE IF pushed THEN FetchPush(p, queue[1])
                            ELSE IF HasData(Answer(l)) THEN Given(p, Answer(l)) ELSE NextList(p))
              /\ UNCHANGED call
  /\ UNCHANGED <<server, db, mutex, queue, maker, bound, stale, orphaned, missed>>

(* Mutant: nothing is said of a row that is updated. *)
GroupNotice_InsertsOnly(old, new) == new # 0 /\ old = 0

(* The notices that rename a conversation: not that of a dismissal. *)
GroupNotice(old, new)  == new \notin {0, old} /\ ~(new = over /\ old # 0)
FriendNotice(old, new) == new \notin {0, old}

Noticed(l, old, new) ==
  \/ l = "groups" /\ GroupNotice(old, new)
  \/ l = "friends" /\ FriendNotice(old, new)

(***************************************************************************)
(* Syncer.Sync for the one item: insert, update or delete, each with its   *)
(* notice.  A group that was dismissed loses its members.                  *)
(***************************************************************************)
SyncItem(l, new) ==
  LET old == row[l]
  IN  /\ row' = [k \in Lists |->
                   IF k = l THEN new
                   ELSE IF k = "members" /\ l = "groups" /\ new = over /\ old \notin {0, new} THEN 0
                   ELSE row[k]]
      /\ IF Noticed(l, old, new)
         THEN queue' = Append(queue, NameEvent(l, new)) /\ stale' = stale \ {l}
         ELSE UNCHANGED <<queue, stale>>
      /\ orphaned' = IF l = "groups" /\ new # 0 THEN FALSE
                     ELSE orphaned \/ (l = "members" /\ row["groups"] = 0)
      /\ UNCHANGED <<saved, listed, conv>>

AfterSync(p, l) == IF l = "black" THEN NextList(p)
                   ELSE Onto(p, IF proc[p].resp.info # 0 THEN "extra" ELSE "save")

Apply(p) ==
  /\ proc[p].pc = "apply"
  /\ LET l == Head(proc[p].todo)
         item == proc[p].resp.item
     IN  IF l = "groups" /\ item = 0 /\ row[l] # 0
         THEN Becomes(p, Onto(p, "del1")) /\ UNCHANGED <<db, queue, stale, orphaned>>
         ELSE Becomes(p, AfterSync(p, l)) /\ SyncItem(l, IF item = Same THEN row[l] ELSE item)
  /\ UNCHANGED <<server, mutex, maker, call, bound, missed>>

(***************************************************************************)
(* ExtraDataProcessor: the group's own data, with a version of its         *)
(* members.  It inserts the row of a group that has none, and may put back *)
(* an older one.                                                           *)
(***************************************************************************)
Extra(p) ==
  /\ proc[p].pc = "extra" /\ SyncItem("groups", proc[p].resp.info)
  /\ missed' = IF row["groups"] = 0 \/ proc[p].resp.info < row["groups"]
               THEN [missed EXCEPT !.setBack = chg["groups"]] ELSE missed
  /\ Becomes(p, Onto(p, "save"))
  /\ UNCHANGED <<server, mutex, maker, call, bound>>

(* Mutant: the group's row goes first. *)
Deleted_GroupFirst(pc) ==
  CASE pc = "del1" -> row' = [row EXCEPT !["groups"] = 0] /\ UNCHANGED saved
    [] pc = "del2" -> row' = [row EXCEPT !["members"] = 0] /\ UNCHANGED saved
    [] pc = "del3" -> saved' = [saved EXCEPT !["members"] = 0] /\ UNCHANGED row

(* The syncer's delete of a group: its members, their version, its row. *)
Deleted(pc) ==
  CASE pc = "del1" -> row' = [row EXCEPT !["members"] = 0] /\ UNCHANGED saved
    [] pc = "del2" -> saved' = [saved EXCEPT !["members"] = 0] /\ UNCHANGED row
    [] pc = "del3" -> row' = [row EXCEPT !["groups"] = 0] /\ UNCHANGED saved

DeleteGroup(p) ==
  /\ proc[p].pc \in {"del1", "del2", "del3"} /\ Deleted(proc[p].pc)
  /\ Becomes(p, CASE proc[p].pc = "del1" -> Onto(p, "del2")
                  [] proc[p].pc = "del2" -> Onto(p, "del3")
                  [] proc[p].pc = "del3" -> AfterSync(p, "groups"))
  /\ UNCHANGED <<server, listed, conv, mutex, queue, maker, call, bound, stale, orphaned, missed>>

(* FullSync, without a notice: deleteAll, that of groups leaves the members. *)
Clear(p) ==
  /\ proc[p].pc = "clear"
  /\ row' = [row EXCEPT ![Head(proc[p].todo)] = 0]
  /\ Becomes(p, Onto(p, "fill"))
  /\ UNCHANGED <<server, saved, listed, conv, mutex, queue, maker, call, bound, stale, orphaned, missed>>

(***************************************************************************)
(* ... and the list as it is by now.  The group's own data do not come     *)
(* with the full list of its members, although its version covers them.    *)
(***************************************************************************)
Fill(p) ==
  /\ proc[p].pc = "fill" /\ ~Refused(Head(proc[p].todo))
  /\ LET l == Head(proc[p].todo)
         named == conv[l] # 0 \/ NamePending(l) \/ \E w \in DOMAIN maker : maker[w].list = l
     IN  /\ row' = [row EXCEPT ![l] = Item(l)]
         /\ stale' = IF named THEN stale \cup {l} ELSE stale
         /\ orphaned' = IF l = "groups"
                        THEN ~there[l] /\ (row["members"] # 0 \/ saved["members"] # 0)
                        ELSE orphaned \/ (l = "members" /\ row["groups"] = 0)
         /\ missed' = IF l = "members" THEN [missed EXCEPT !.skipped = chg["groups"]] ELSE missed
  /\ Becomes(p, Onto(p, "save"))
  /\ UNCHANGED <<server, saved, listed, conv, mutex, queue, maker, call, bound>>

(* FullID, of which the groups' is looked at, and updateVersionInfo. *)
Save(p) ==
  /\ proc[p].pc = "save"
  /\ listed' = IF Syncing(proc[p]) # "groups" \/ (~proc[p].resp.full /\ proc[p].resp.item = Same) THEN listed
               ELSE IF proc[p].resp.full THEN there["groups"] ELSE proc[p].resp.item # 0
  /\ saved' = [saved EXCEPT ![Head(proc[p].todo)] = proc[p].resp.ver]
  /\ Becomes(p, NextList(p))
  /\ UNCHANGED <<server, row, conv, mutex, queue, maker, call, bound, stale, orphaned, missed>>

(* The return, with the deferred Unlock; the worker takes its next entry. *)
Return(p) ==
  /\ proc[p].pc = "done" /\ Becomes(p, Idle)
  /\ mutex' = [m \in DOMAIN mutex |-> IF mutex[m] = p THEN "free" ELSE mutex[m]]
  /\ queue' = IF p = "worker" THEN Tail(queue) ELSE queue
  /\ call' = IF p = "call" THEN NoCall ELSE call
  /\ UNCHANGED <<server, db, maker, bound, stale, orphaned, missed>>

(***************************************************************************)
(* A request or a database call fails: the error return.  What             *)
(* IncrSyncGroupAndMember does in its goroutines fails without one.        *)
(***************************************************************************)
Dropped(p) ==
  Syncing(proc[p]) = "members" /\ proc[p].pc # "fetch" /\ ~proc[p].resp.push

(* What the processes of P leave half done when they stop here. *)
Interrupted(P) ==
  /\ orphaned' = (orphaned \/ \E p \in P : proc[p].pc = "fill" /\ Syncing(proc[p]) = "groups")
  /\ missed' = IF \E p \in P : \/ proc[p].pc = "del2"
                               \/ proc[p].pc = "fill" /\ Syncing(proc[p]) = "members"
               THEN [missed EXCEPT !.emptied = chg["members"]] ELSE missed

SyncFails(p) ==
  /\ Syncing(proc[p]) # "none"
  /\ \/ "fail" \in Faults /\ bound.event > 0 /\ bound' = [bound EXCEPT !.event = @ - 1]
     \/ proc[p].pc = "fill" /\ Refused(Head(proc[p].todo)) /\ UNCHANGED bound
  /\ Becomes(p, IF Dropped(p) THEN NextList(p) ELSE Onto(p, "done"))
  /\ call' = IF p = "call" THEN NoCall ELSE call
  /\ Interrupted({p})
  /\ UNCHANGED <<server, db, mutex, queue, maker, stale>>
-----------------------------------------------------------------------------
(* API calls: a change, then the lists to synchronise under their mutex *)

Calling(todo, c) ==
  /\ proc["call"] = Idle /\ bound.call > 0
  /\ IF todo = <<>> THEN UNCHANGED <<proc, call, raced>>
     ELSE Becomes("call", Begun(todo, TRUE)) /\ call' = c
  /\ UNCHANGED <<db, mutex, maker, stale, orphaned, missed>>

Asks(op, l, todo) ==
  /\ l \in {"groups", "members"} /\ op # "join" => row["groups"] # 0
  /\ Changed(op, l)
  /\ Calling(todo, [list |-> l, change |-> now', gone |-> op \in {"leave", "unset"}])
  /\ bound' = [bound EXCEPT !.change = @ - 1, !.call = @ - 1]

CreateGroup  == Asks("join", "groups", <<"groups", "members">>)
JoinGroup    == Asks("join", "groups", <<>>)
QuitGroup    == Asks("leave", "groups", <<"groups">>)
DismissGroup == Asks("dismiss", "groups", <<"groups">>)
SetGroupInfo == Asks("info", "groups", <<"groups">>)
ChangeGroupMute       == Asks("info", "groups", <<"members">>)
ChangeGroupMemberMute == Asks("set", "members", <<>>)
TransferGroupOwner    == Asks("set", "members", <<"members">>)
SetGroupMemberInfo    == Asks("set", "members", <<"members">>)
InviteUserToGroup     == Asks("set", "members", <<"members">>)
KickGroupMember       == Asks("unset", "members", <<"members">>)
RespondFriendApply == Asks("set", "friends", <<"friends">>)
UpdateFriends      == there["friends"] /\ Asks("set", "friends", <<"friends">>)
DeleteFriend       == Asks("unset", "friends", <<"friends">>)
AddBlack           == Asks("set", "black", <<"black">>)
RemoveBlack        == Asks("unset", "black", <<"black">>)

(* GetSpecifiedGroupMembersInfo, GetGroupMemberList *)
GetGroupMemberList ==
  /\ "groups" \in scope /\ Calling(<<"members">>, Query)
  /\ bound' = [bound EXCEPT !.call = @ - 1]
  /\ UNCHANGED <<server, queue, missed>>
-----------------------------------------------------------------------------
(* The conversation worker *)

Takes(kind) ==
  proc["worker"] = Idle /\ maker["worker"] = NoConv /\ queue # <<>> /\ queue[1].kind = kind

(* DoNotification of group and relation *)
DoNotification ==
  /\ Takes("sync") \/ Takes("push")
  /\ Becomes("worker", Begun(queue[1].todo, TRUE))
  /\ UNCHANGED <<server, db, mutex, queue, maker, call, bound, stale, orphaned, missed>>

(* The goroutines of S start; bound: one at a time for each list. *)
Spawns(S, locks) ==
  /\ proc' = [p \in Processes |->
                IF p \in S /\ p \in scope /\ proc[p] = Idle
                THEN Begun(PoolTodo(p), p \in locks) ELSE proc[p]]
  /\ UNCHANGED raced

(* AppDataSyncStart: groups with the mutex and friends without, awaited ... *)
LoginSync ==
  /\ Takes("login") /\ Spawns({"groups", "friends"}, {"groups"})
  /\ queue' = [queue EXCEPT ![1] = Entry("wait", <<>>, NoResp, 0)]
  /\ UNCHANGED <<server, db, mutex, maker, call, bound, stale, orphaned, missed>>

(* ... and then the black list, which is not. *)
LoginSynced ==
  /\ Takes("wait") /\ \A p \in {"groups", "friends"} : proc[p] = Idle
  /\ Spawns({"black"}, {}) /\ queue' = Tail(queue)
  /\ UNCHANGED <<server, db, mutex, maker, call, bound, stale, orphaned, missed>>

(* syncData, at MsgSyncBegin *)
SyncData ==
  /\ Takes("begin") /\ Spawns(Pools, {"groups", "friends"}) /\ queue' = Tail(queue)
  /\ UNCHANGED <<server, db, mutex, maker, call, bound, stale, orphaned, missed>>

(* doUpdateConversation, UpdateConFaceUrlAndNickName: the row must exist. *)
UpdateName ==
  /\ Takes("name") /\ queue' = Tail(queue)
  /\ LET l == queue[1].todo[1]
     IN  conv' = IF conv[l] # 0 THEN [conv EXCEPT ![l] = queue[1].arg] ELSE conv
  /\ UNCHANGED <<server, row, saved, listed, mutex, proc, maker, call, bound, hist>>

(***************************************************************************)
(* A new conversation: its name is read, on the worker for a message's     *)
(* and by an API call, which GetOneConversation is; then comes the insert, *)
(* which fails if the row is there.                                        *)
(***************************************************************************)
ReadName(w, l) ==
  /\ l \in scope \cap {"groups", "friends"} /\ conv[l] = 0 /\ maker[w] = NoConv
  /\ maker' = [maker EXCEPT ![w] = [list |-> l, name |-> IF row[l] # 0 THEN row[l] ELSE Stranger]]
  /\ UNCHANGED <<server, db, mutex, proc, queue, call, hist>>

BatchAddFaceURLAndName(l) ==
  proc["worker"] = Idle /\ ReadName("worker", l) /\ UNCHANGED bound

GetOneConversation(l) ==
  bound.call > 0 /\ ReadName("call", l) /\ bound' = [bound EXCEPT !.call = @ - 1]

InsertConversation(w) ==
  /\ maker[w] # NoConv /\ maker' = [maker EXCEPT ![w] = NoConv]
  /\ LET l == maker[w].list
         n == maker[w].name
     IN  IF conv[l] = 0
         THEN /\ conv' = [conv EXCEPT ![l] = n]
              /\ stale' = IF w = "call" /\ n # row[l] /\ ~NamePending(l) THEN stale \cup {l} ELSE stale
         ELSE UNCHANGED <<conv, stale>>
  /\ UNCHANGED <<server, row, saved, listed, mutex, proc, queue, call, bound, raced, orphaned, missed>>

Reconnect ==
  /\ bound.event > 0 /\ bound' = [bound EXCEPT !.event = @ - 1]
  /\ queue' = Append(queue, BeginFlag)
  /\ UNCHANGED <<server, db, mutex, proc, maker, call, hist>>

(* The notifications among the entries of a queue. *)
Notifications(q) ==
  LET kept[n \in 0..Len(q)] == IF n = 0 THEN <<>>
                               ELSE IF q[n].kind \in {"sync", "push"} THEN Append(kept[n - 1], q[n])
                               ELSE kept[n - 1]
  IN  kept[Len(q)]

(* The queue is lost, but for the notifications, which are pulled again. *)
Crash ==
  /\ "crash" \in Faults /\ bound.event > 0 /\ bound' = [bound EXCEPT !.event = @ - 1]
  /\ proc' = [p \in Processes |-> Idle] /\ mutex' = [m \in DOMAIN mutex |-> "free"]
  /\ maker' = [w \in DOMAIN maker |-> NoConv] /\ call' = NoCall
  /\ queue' = <<IF \E k \in DOMAIN queue : queue[k].kind \in {"login", "wait"}
                THEN LoginFlag ELSE BeginFlag>>
              \o Notifications(queue)
  /\ stale' = stale \cup {l \in Lists : NamePending(l)}
  /\ Interrupted(Processes)
  /\ UNCHANGED <<server, db, raced>>
-----------------------------------------------------------------------------
Changes == {"join", "leave", "info", "dismiss", "set", "unset"}

ServerSteps == \E l \in Lists : Compact(l) \/ \E op \in Changes : RemoteChange(op, l)
SyncSteps == \E p \in Processes :
  Lock(p) \/ Fetch(p) \/ Apply(p) \/ Extra(p) \/ DeleteGroup(p) \/ Clear(p) \/ Fill(p)
    \/ Save(p) \/ Return(p) \/ SyncFails(p)
GroupCalls ==
  CreateGroup \/ JoinGroup \/ QuitGroup \/ DismissGroup \/ SetGroupInfo \/ ChangeGroupMute
    \/ ChangeGroupMemberMute \/ TransferGroupOwner \/ SetGroupMemberInfo \/ InviteUserToGroup
    \/ KickGroupMember \/ GetGroupMemberList
RelationCalls == RespondFriendApply \/ UpdateFriends \/ DeleteFriend \/ AddBlack \/ RemoveBlack
WorkerSteps ==
  DoNotification \/ LoginSync \/ LoginSynced \/ SyncData \/ UpdateName
    \/ \E w \in {"worker", "call"} : InsertConversation(w)
    \/ \E l \in Lists : BatchAddFaceURLAndName(l) \/ GetOneConversation(l)

Next == ServerSteps \/ SyncSteps \/ GroupCalls \/ RelationCalls \/ WorkerSteps \/ Reconnect \/ Crash

Spec == Init /\ [][Next]_vars
-----------------------------------------------------------------------------
(* Properties *)

(* The types of what the client keeps and does. *)
TypeOK ==
  /\ row \in [Lists -> 0..now] /\ saved \in [Lists -> 0..now] /\ conv \in [Lists -> -1..now]
  /\ listed \in BOOLEAN
  /\ mutex \in [{"group", "relation"} -> Processes \cup {"free"}]
  /\ \A p \in Processes :
       /\ proc[p].pc \in {"idle", "lock", "fetch", "apply", "extra", "del1", "del2", "del3",
                          "clear", "fill", "save", "done"}
       /\ proc[p].todo \in Seq(Lists) /\ proc[p].locks \in BOOLEAN
  /\ \A k \in DOMAIN queue : queue[k].kind \in {"login", "wait", "begin", "sync", "push", "name"}
  /\ stale \subseteq Lists /\ raced \subseteq Lists /\ orphaned \in BOOLEAN

(***************************************************************************)
(* What the saved versions cover is not old.  The row of a group is        *)
(* written from two logs, and a push may carry older data than the row's:  *)
(* it is the current one once both versions cover the last change, but for *)
(* a change that the version of a full list of members covers unseen.      *)
(***************************************************************************)
CoveredIsCurrent ==
  \A l \in scope \ raced :
    /\ l = "groups" /\ there[l] /\ saved[l] >= chg[l] /\ saved["members"] >= chg[l]
         /\ chg[l] > missed.skipped => row[l] = chg[l]
    /\ l \in {"members", "friends"} /\ saved[l] >= chg[l] /\ row[l] # 0
         => there[l] /\ row[l] = chg[l]

(***************************************************************************)
(* A group that the user has left leaves nothing behind, at whatever step  *)
(* its deletion failed: without its row there are no members, and no       *)
(* version that would keep them from coming back.                          *)
(***************************************************************************)
NoLeftovers ==
  mutex["group"] = "free" /\ row["groups"] = 0 /\ ~orphaned
    => row["members"] = 0 /\ saved["members"] = 0

(***************************************************************************)
(* When the events are handled, a conversation has the name of its group   *)
(* or friend.  "stale" are the known exceptions: a full synchronisation    *)
(* says nothing, a crash loses events, and GetOneConversation may insert   *)
(* the name it read before an event that came too early for it.            *)
(***************************************************************************)
NamesSettle ==
  \A l \in {"groups", "friends"} \ (stale \cup raced) :
    conv[l] # 0 /\ row[l] \notin {0, over} /\ ~NamePending(l) => conv[l] = row[l]

(***************************************************************************)
(* A caller sees his own change: when a call is about to return success,   *)
(* the database has the change that it made, or a later one.  The known    *)
(* exceptions: a full list of members skipped the group's data, late data  *)
(* put back an older row of the group, or a deletion or a full list        *)
(* stopped when it had emptied the table.                                  *)
(***************************************************************************)
Sees(r) ==
  LET l == call.list
      c == call.change
  IN  IF call.gone THEN r = 0 \/ r > c
      ELSE r >= c \/ (r = 0 /\ (chg[l] > c \/ over > c \/ (l = "groups" /\ orphaned)))

Excepted ==
  \/ call.list = "groups" /\ call.change <= missed.skipped
  \/ call.list = "groups" /\ call.change <= missed.setBack
  \/ call.list = "members" /\ call.change <= missed.emptied

CallSeesItself ==
  proc["call"].pc = "done" /\ call.list \in Lists \ raced /\ ~Excepted => Sees(row[call.list])
=============================================================================
