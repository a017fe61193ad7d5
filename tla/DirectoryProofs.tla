--------------------------- MODULE DirectoryProofs ---------------------------
(***************************************************************************)
(* Proofs about Directory, for every scope, bound and kind of fault.       *)
(*                                                                         *)
(*   Base       the types, what the server's log says, who is where under  *)
(*              which mutex, and what the queue's entries are; every step  *)
(*              keeps it, and everything below rests on it.                *)
(*   LeftInv    what the deletion of a group has done at each place.       *)
(*   CoverInv   what a saved version covers, and what the version of an    *)
(*              answer will cover when it is saved.                        *)
(*   NameInv    the name a conversation has, or will have when the events  *)
(*              are handled.                                               *)
(*                                                                         *)
(* A step is one of p along its synchronisation, or the crash, or one that *)
(* is Calm: it leaves the rows and the versions alone, and the processes   *)
(* but for those that begin to wait for their mutex.                       *)
(***************************************************************************)
EXTENDS Directory, SequenceTheorems, WellFoundedInduction, TLAPS

GroupLists == {"groups", "members"}
Todos  == {<<>>, <<"groups">>, <<"members">>, <<"friends">>, <<"black">>, <<"groups", "members">>}
Places == {"idle", "lock", "fetch", "apply", "extra", "del1", "del2", "del3", "clear", "fill",
           "save", "done"}
Kinds  == {"login", "wait", "begin", "sync", "push", "name"}
Resps   == [full : BOOLEAN, ver : 0..now, item : -1..now, info : 0..now, push : BOOLEAN]
Procs   == [todo : Todos, pc : Places, resp : Resps, locks : BOOLEAN]
Entries == [kind : Kinds, todo : Todos, resp : Resps, arg : 0..now]
Makers  == [list : Lists, name : -1..now] \cup {NoConv}

TypeServer ==
  /\ scope \in SUBSET Lists /\ now \in Nat /\ over \in 0..now /\ there \in [Lists -> BOOLEAN]
  /\ chg \in [Lists -> 0..now] /\ ver \in [Lists -> 0..now] /\ floor \in [Lists -> 0..now]
TypeDb ==
  /\ row \in [Lists -> 0..now] /\ saved \in [Lists -> 0..now] /\ conv \in [Lists -> -1..now]
  /\ listed \in BOOLEAN
TypeProc ==
  /\ mutex \in [{"group", "relation"} -> Processes \cup {"free"}]
  /\ proc \in [Processes -> Procs] /\ queue \in Seq(Entries)
  /\ maker \in [{"worker", "call"} -> Makers]
  /\ call \in [list : Lists \cup {"none", "query"}, change : 0..now, gone : BOOLEAN]
TypeHist ==
  /\ stale \in SUBSET Lists /\ raced \in SUBSET Lists /\ orphaned \in BOOLEAN
  /\ missed \in [skipped : 0..now, setBack : 0..now, emptied : 0..now]
  /\ bound \in [change : Nat, call : Nat, event : Nat]
Typed == TypeServer /\ TypeDb /\ TypeProc /\ TypeHist

At(p, S) == proc[p].pc \in S
Now(p)   == Head(proc[p].todo)
Answered == {"apply", "extra", "del1", "del2", "del3", "clear", "fill", "save"}
Deleting == {"del1", "del2", "del3"}

-----------------------------------------------------------------------------
LEMMA TodoFacts ==
  ASSUME NEW t \in Todos, t # <<>>
  PROVE  /\ Head(t) \in Lists /\ Tail(t) \in Todos
         /\ Len(t) > 1 <=> t = <<"groups", "members">>
         /\ Len(t) > 1 => Head(t) = "groups" /\ Tail(t) = <<"members">>
         /\ ~(Len(t) > 1) => Tail(t) = <<>> /\ t = <<Head(t)>>
<1>1. ASSUME NEW l \in Lists, t = <<l>>
      PROVE  Head(t) = l /\ Tail(t) = <<>> /\ Len(t) = 1 /\ t # <<"groups", "members">>
  <2>1. Len(<<"groups", "members">>) = 2 /\ Len(<<l>>) = 1
    OBVIOUS
  <2> QED BY <1>1, <2>1
<1>2. ASSUME t = <<"groups", "members">>
      PROVE  Head(t) = "groups" /\ Tail(t) = <<"members">> /\ Len(t) = 2
  <2>1. Head(t) = "groups" /\ Len(t) = 2
    BY <1>2
  <2>2. Tail(t) = <<"members">>
    BY <1>2
  <2> QED BY <2>1, <2>2
<1>3. (\E l \in Lists : t = <<l>>) \/ t = <<"groups", "members">>
  BY DEF Todos, Lists
<1>4. /\ <<>> \in Todos /\ <<"members">> \in Todos /\ "groups" \in Lists
  BY DEF Todos, Lists
<1>5. CASE \E l \in Lists : t = <<l>>
  <2>1. PICK l \in Lists : t = <<l>>
    BY <1>5
  <2>2. Head(t) = l /\ Tail(t) = <<>> /\ Len(t) = 1 /\ t # <<"groups", "members">>
    BY <1>1, <2>1
  <2> QED BY <1>4, <2>1, <2>2
<1>6. CASE t = <<"groups", "members">>
  <2>1. Head(t) = "groups" /\ Tail(t) = <<"members">> /\ Len(t) = 2
    BY <1>2, <1>6
  <2> QED BY <1>4, <1>6, <2>1
<1> QED BY <1>3, <1>5, <1>6

LEMMA OntoFacts ==
  ASSUME NEW p \in Processes, proc \in [Processes -> Procs], NEW pc \in Places
  PROVE  /\ Onto(p, pc) \in Procs /\ Onto(p, pc).pc = pc /\ Onto(p, pc).todo = proc[p].todo
         /\ Onto(p, pc).resp = proc[p].resp /\ Onto(p, pc).locks = proc[p].locks
  BY DEF Onto, Procs

LEMMA NoRespType == ASSUME now \in Nat PROVE NoResp \in Resps /\ Idle \in Procs
<1>1. NoResp \in Resps
  BY DEF NoResp, Resps, Same
<1> QED BY <1>1 DEF Idle, Procs, Todos, Places

LEMMA NextFacts ==
  ASSUME NEW p \in Processes, proc \in [Processes -> Procs], proc[p].todo # <<>>, now \in Nat
  PROVE  /\ NextList(p) \in Procs /\ NextList(p).pc \in {"fetch", "done"}
         /\ NextList(p).pc = "fetch" <=> proc[p].todo = <<"groups", "members">>
         /\ NextList(p).pc = "fetch" => NextList(p).todo = <<"members">>
         /\ NextList(p).pc = "done" => NextList(p).todo = <<>>
         /\ NextList(p).locks = proc[p].locks /\ NextList(p).resp = NoResp
<1>1. proc[p] \in Procs /\ proc[p].todo \in Todos
  BY DEF Procs
<1>2. NoResp \in Resps
  BY NoRespType
<1> DEFINE t == proc[p].todo
           c == IF Len(t) > 1 THEN "fetch" ELSE "done"
<1>3. Tail(t) \in Todos /\ c \in Places
  BY <1>1, TodoFacts DEF Places
<1>4. NextList(p) = [proc[p] EXCEPT !.todo = Tail(t), !.resp = NoResp, !.pc = c]
  BY DEF NextList
<1>5. /\ NextList(p) \in Procs /\ NextList(p).pc = c /\ NextList(p).todo = Tail(t)
      /\ NextList(p).locks = proc[p].locks /\ NextList(p).resp = NoResp
  <2> HIDE DEF c, t
  <2> QED BY <1>1, <1>2, <1>3, <1>4 DEF Procs
<1> QED BY <1>1, <1>5, TodoFacts

LEMMA GivenFacts ==
  ASSUME NEW p \in Processes, proc \in [Processes -> Procs], NEW r \in Resps
  PROVE  /\ Given(p, r) \in Procs /\ Given(p, r).pc = IF r.full THEN "clear" ELSE "apply"
         /\ Given(p, r).todo = proc[p].todo /\ Given(p, r).resp = r
         /\ Given(p, r).locks = proc[p].locks
  BY DEF Given, Procs, Places

LEMMA BegunFacts ==
  ASSUME now \in Nat, NEW t \in Todos, NEW b \in BOOLEAN
  PROVE  /\ Begun(t, b) \in Procs /\ Begun(t, b).pc = "lock" /\ Begun(t, b).todo = t
         /\ Begun(t, b).resp = NoResp /\ Begun(t, b).locks = b /\ Syncing(Begun(t, b)) = "none"
<1>1. Idle \in Procs
  BY NoRespType
<1> QED BY <1>1 DEF Begun, Idle, Procs, Places, Syncing

LEMMA IdleFacts ==
  /\ Idle.pc = "idle" /\ Idle.todo = <<>> /\ Idle.resp = NoResp /\ Idle.locks = TRUE
  /\ Syncing(Idle) = "none"
  BY DEF Idle, Syncing

LEMMA BecomesFacts ==
  ASSUME NEW p \in Processes, NEW r, Becomes(p, r), proc \in [Processes -> Procs]
  PROVE  /\ proc' = [proc EXCEPT ![p] = r] /\ proc'[p] = r
         /\ \A q \in Processes : q # p => proc'[q] = proc[q]
         /\ raced \subseteq raced' /\ raced' \subseteq raced \cup ({Syncing(r)} \ {"none"})
         /\ \A q \in Processes : q # p /\ Syncing(proc[q]) = Syncing(r) /\ Syncing(r) # "none"
               => Syncing(r) \in raced'
         /\ Syncing(r) \in raced' \ raced
               => \E q \in Processes : q # p /\ Syncing(proc[q]) = Syncing(r)
<1>1. /\ proc' = [proc EXCEPT ![p] = r]
      /\ raced' = raced \cup (({Syncing(proc[q]) : q \in Processes \ {p}} \cap {Syncing(r)}) \ {"none"})
  BY DEF Becomes
<1>2. proc'[p] = r /\ \A q \in Processes : q # p => proc'[q] = proc[q]
  BY <1>1
<1> QED BY <1>1, <1>2
-----------------------------------------------------------------------------
(* The logs of the server: a list's log has every change of the list, that of the *)
(* members those of the group too.                                                *)
ServerInv ==
  /\ \A l \in Lists : 1 <= chg[l] /\ chg[l] <= ver[l] /\ floor[l] <= ver[l]
  /\ ver["groups"] = chg["groups"] /\ ver["friends"] = chg["friends"]
  /\ chg["groups"] <= ver["members"]

LEMMA Grows ==
  ASSUME now \in Nat, now' \in Nat, now <= now'
  PROVE  /\ Resps \subseteq Resps' /\ Procs \subseteq Procs' /\ Entries \subseteq Entries'
         /\ Makers \subseteq Makers' /\ Seq(Entries) \subseteq Seq(Entries')
<1>1. 0..now \subseteq 0..now' /\ -1..now \subseteq -1..now'
  OBVIOUS
<1>2. Resps \subseteq Resps'
  BY <1>1 DEF Resps
<1>3. Procs \subseteq Procs'
  <2> HIDE DEF Resps
  <2> QED BY <1>2 DEF Procs
<1>4. Entries \subseteq Entries'
  BY <1>1, <1>2 DEF Entries
<1>5. Makers \subseteq Makers'
  BY <1>1 DEF Makers
<1>6. Seq(Entries) \subseteq Seq(Entries')
  BY <1>4
<1> QED BY <1>2, <1>3, <1>4, <1>5, <1>6

LEMMA AnswerFacts ==
  ASSUME TypeServer, TypeDb, NEW l \in Lists
  PROVE  /\ Answer(l) \in Resps /\ Item(l) \in 0..now
         /\ l # "black" => /\ Answer(l).ver = ver[l] /\ Answer(l).full = (saved[l] < floor[l])
                           /\ Answer(l).item = IF chg[l] > saved[l] THEN Item(l) ELSE Same
         /\ l = "black" => ~Answer(l).full /\ Answer(l).item = Item(l)
         /\ l = "members" => Answer(l).info = IF chg["groups"] > saved["members"] THEN chg["groups"] ELSE 0
         /\ l # "members" => Answer(l).info = 0
<1>1. /\ now \in Nat /\ ver[l] \in 0..now /\ chg[l] \in 0..now /\ saved[l] \in 0..now /\ floor[l] \in 0..now
      /\ chg["groups"] \in 0..now /\ saved["members"] \in 0..now
  BY DEF TypeServer, TypeDb, Lists
<1>2. Item(l) \in 0..now
  BY <1>1 DEF Item
<1>3. ASSUME NEW k \in Lists, k = l
      PROVE  /\ Increments(k) \in Resps /\ Increments(k).ver = ver[k] /\ Increments(k).full = (saved[k] < floor[k])
             /\ Increments(k).item = (IF chg[k] > saved[k] THEN Item(k) ELSE Same)
             /\ Increments(k).info = 0
  <2> DEFINE i == IF chg[k] > saved[k] THEN Item(k) ELSE Same
  <2>1. i \in -1..now
    BY <1>1, <1>2, <1>3 DEF Same
  <2>2. Increments(k) = [full |-> saved[k] < floor[k], ver |-> ver[k], push |-> FALSE, info |-> 0, item |-> i]
    BY DEF Increments
  <2> HIDE DEF i
  <2>3. Increments(k) \in Resps /\ Increments(k).item = i
    BY <1>1, <1>3, <2>1, <2>2 DEF Resps
  <2> QED BY <2>2, <2>3 DEF i
<1>4. CASE l = "groups"
  BY <1>2, <1>3, <1>4 DEF Answer, IncrSyncJoinGroup
<1>5. CASE l = "friends"
  BY <1>2, <1>3, <1>5 DEF Answer, IncrSyncFriends
<1>6. CASE l = "members"
  <2> DEFINE i == IF chg["groups"] > saved["members"] THEN chg["groups"] ELSE 0
  <2>1. i \in 0..now
    BY <1>1
  <2>2. Answer(l) = [Increments("members") EXCEPT !.info = i]
    BY <1>6 DEF Answer, SyncGroupAndMember
  <2> HIDE DEF i
  <2>3. /\ Increments("members") \in Resps /\ Increments("members").ver = ver["members"]
        /\ Increments("members").full = (saved["members"] < floor["members"])
        /\ Increments("members").item = (IF chg["members"] > saved["members"] THEN Item("members") ELSE Same)
    BY <1>3, <1>6
  <2>4. /\ Answer(l) \in Resps /\ Answer(l).info = i /\ Answer(l).ver = Increments("members").ver
        /\ Answer(l).full = Increments("members").full /\ Answer(l).item = Increments("members").item
    BY <2>1, <2>2, <2>3 DEF Resps
  <2>5. Answer(l).info = IF chg["groups"] > saved["members"] THEN chg["groups"] ELSE 0
    BY <2>4 DEF i
  <2> QED BY <1>2, <1>6, <2>3, <2>4, <2>5
<1>7. CASE l = "black"
  <2>1. Answer(l) = [NoResp EXCEPT !.item = Item("black")] /\ Item("black") \in -1..now
    BY <1>1, <1>2, <1>7 DEF Answer, SyncAllBlackList
  <2> DEFINE i == Item("black")
  <2>2. i \in -1..now
    BY <2>1
  <2> HIDE DEF i
  <2>3. Answer(l) = [full |-> FALSE, ver |-> 0, item |-> i, info |-> 0, push |-> FALSE]
    BY <2>1 DEF NoResp, i
  <2>4. Answer(l) \in Resps /\ Answer(l).full = FALSE /\ Answer(l).item = i /\ Answer(l).info = 0
    BY <1>1, <2>2, <2>3 DEF Resps
  <2> QED BY <1>2, <1>7, <2>4 DEF i
<1> QED BY <1>4, <1>5, <1>6, <1>7 DEF Lists

(* The notes of a change. *)
PushOK(e) ==
  /\ ~e.resp.full /\ e.arg < e.resp.ver /\ e.resp.ver <= ver["members"]
  /\ e.resp.info <= e.resp.ver /\ e.resp.item <= e.resp.ver
  /\ chg["members"] <= e.resp.ver =>
       e.resp.item = IF chg["members"] > e.arg THEN Item("members") ELSE Same
  /\ chg["groups"] <= e.resp.ver =>
       e.resp.info \in {0, chg["groups"]} /\ (chg["groups"] > e.arg => e.resp.info = chg["groups"])

(* What an entry of the queue asks for. *)
EntryShape(e) ==
  /\ e.kind = "push" => e.todo = <<"members">>
  /\ e.kind = "sync" => e.todo # <<>>
  /\ e.kind = "name" => e.todo \in {<<"groups">>, <<"friends">>} /\ e.arg # 0

LEMMA ChangedServer ==
  ASSUME TypeServer, ServerInv, NEW op \in Changes, NEW l \in Lists, Changed(op, l)
  PROVE  /\ now' = now + 1 /\ TypeServer' /\ ServerInv' /\ l \in scope
         /\ chg'[l] = now' /\ \A k \in Lists : k # l => chg'[k] = chg[k] /\ there'[k] = there[k]
         /\ there'[l] = (op \notin {"leave", "unset"})
         /\ ver'["members"] = IF l \in GroupLists THEN now' ELSE ver["members"]
         /\ \A k \in Lists : ver[k] <= ver'[k]
         /\ op = "dismiss" => over = 0 /\ over' = now' /\ l = "groups"
         /\ op # "dismiss" => over' = over
         /\ UNCHANGED <<scope, floor>>
<1>1. /\ Allowed(op, l) /\ now' = now + 1
      /\ there' = [there EXCEPT ![l] = op \notin {"leave", "unset"}]
      /\ chg' = [chg EXCEPT ![l] = now']
      /\ ver' = [k \in Lists |-> IF k = l \/ (l = "groups" /\ k = "members") THEN now' ELSE ver[k]]
      /\ over' = IF op = "dismiss" THEN now' ELSE over
      /\ UNCHANGED <<scope, floor>>
  BY DEF Changed
<1>2. /\ scope \in SUBSET Lists /\ now \in Nat /\ over \in 0..now /\ there \in [Lists -> BOOLEAN]
      /\ chg \in [Lists -> 0..now] /\ ver \in [Lists -> 0..now] /\ floor \in [Lists -> 0..now]
  BY DEF TypeServer
<1>3. now' \in Nat /\ now <= now' /\ 0..now \subseteq 0..now' /\ now' \in 0..now'
  BY <1>1, <1>2
<1>4. /\ chg'[l] = now' /\ there'[l] = (op \notin {"leave", "unset"})
      /\ \A k \in Lists : k # l => chg'[k] = chg[k] /\ there'[k] = there[k]
      /\ \A k \in Lists : ver'[k] = IF k = l \/ (l = "groups" /\ k = "members") THEN now' ELSE ver[k]
  BY <1>1, <1>2
<1>5. \A k \in Lists : ver[k] \in 0..now /\ chg[k] \in 0..now /\ floor[k] \in 0..now
  BY <1>2
<1>6. \A k \in Lists : ver[k] <= ver'[k] /\ ver'[k] \in 0..now'
  BY <1>2, <1>3, <1>4, <1>5
<1>7. TypeServer'
  <2>1. chg' \in [Lists -> 0..now'] /\ floor' \in [Lists -> 0..now'] /\ over' \in 0..now'
    BY <1>1, <1>2, <1>3
  <2>2. there' \in [Lists -> BOOLEAN]
    BY <1>1, <1>2
  <2>3. ver' \in [Lists -> 0..now']
    BY <1>1, <1>6
  <2> QED BY <1>1, <1>2, <1>3, <2>1, <2>2, <2>3 DEF TypeServer
<1>8. ServerInv'
  <2>1. \A k \in Lists : 1 <= chg'[k] /\ chg'[k] <= ver'[k] /\ floor'[k] <= ver'[k]
    <3>1. \A k \in Lists : 1 <= chg[k] /\ chg[k] <= ver[k] /\ floor[k] <= ver[k]
      BY DEF ServerInv
    <3>2. now' >= 1 /\ floor' = floor
      BY <1>1, <1>2
    <3> QED BY <1>3, <1>4, <1>5, <1>6, <3>1, <3>2
  <2>2. ver'["groups"] = chg'["groups"] /\ ver'["friends"] = chg'["friends"]
    BY <1>4 DEF ServerInv, Lists
  <2>3. chg'["groups"] <= ver'["members"]
    BY <1>2, <1>3, <1>4, <1>5, <1>6 DEF ServerInv, Lists
  <2> QED BY <2>1, <2>2, <2>3 DEF ServerInv
<1>9. ver'["members"] = IF l \in GroupLists THEN now' ELSE ver["members"]
  BY <1>4 DEF Lists, GroupLists
<1>10. op = "dismiss" => over = 0 /\ l = "groups"
  BY <1>1 DEF Allowed
<1>11. l \in scope
  BY <1>1 DEF Allowed
<1> QED BY <1>1, <1>4, <1>6, <1>7, <1>8, <1>9, <1>10, <1>11

LEMMA ChangedNote ==
  ASSUME TypeServer, ServerInv, NEW op \in Changes, NEW l \in Lists, Changed(op, l)
  PROVE  \E e \in Entries' : /\ queue' = Append(queue, e) /\ e.kind \in {"sync", "push"} /\ EntryShape(e)
                             /\ e.kind = "push" => PushOK(e)' /\ l \in GroupLists
                             /\ e.kind = "push" => e.resp.ver = now' /\ ~e.resp.full
<1>1. PICK note \in Notes(op, l, now') : queue' = Append(queue, note)
  BY DEF Changed
<1>2. /\ now' = now + 1 /\ TypeServer' /\ ServerInv'
      /\ chg'[l] = now' /\ \A k \in Lists : k # l => chg'[k] = chg[k] /\ there'[k] = there[k]
      /\ there'[l] = (op \notin {"leave", "unset"})
      /\ ver'["members"] = IF l \in GroupLists THEN now' ELSE ver["members"]
  BY ChangedServer
<1>3. /\ now \in Nat /\ now' \in Nat /\ now' \in 0..now' /\ 0 \in 0..now' /\ now <= now'
      /\ \A k \in Lists : chg[k] \in 0..now /\ ver[k] \in 0..now
  BY <1>2 DEF TypeServer
<1>4. ASSUME NEW t \in Todos, t # <<>>, note = SyncNote(t)
      PROVE  note \in Entries' /\ note.kind = "sync" /\ EntryShape(note)
  <2>1. NoResp \in Resps'
    BY <1>3 DEF NoResp, Resps, Same
  <2>2. note = [kind |-> "sync", todo |-> t, resp |-> NoResp, arg |-> 0]
    BY <1>4 DEF SyncNote, Entry
  <2>3. note \in Entries'
    BY <1>3, <2>1, <2>2 DEF Entries, Kinds
  <2> QED BY <1>4, <2>2, <2>3 DEF EntryShape
<1>5. ASSUME NEW item \in -1..now', NEW info \in 0..now', note = Push(now', item, info), l \in GroupLists
      PROVE  /\ note \in Entries' /\ note.kind = "push" /\ EntryShape(note) /\ note.arg = ver["members"]
             /\ note.resp.ver = now' /\ note.resp.full = FALSE /\ note.resp.item = item /\ note.resp.info = info
  <2>1. note = [kind |-> "push", todo |-> <<"members">>, arg |-> ver["members"],
                resp |-> [full |-> FALSE, ver |-> now', item |-> item, info |-> info, push |-> TRUE]]
    BY <1>5 DEF Push, Entry
  <2>2. ver["members"] \in 0..now'
    BY <1>3 DEF Lists
  <2>3. note \in Entries'
    BY <1>3, <2>1, <2>2 DEF Entries, Resps, Kinds, Todos
  <2> QED BY <2>1, <2>3 DEF EntryShape
<1>6. CASE l \notin GroupLists
  <2>1. note = SyncNote(<<l>>) /\ <<l>> \in Todos /\ <<l>> # <<>>
    BY <1>1, <1>6 DEF Notes, RelationNotes, GroupLists, Lists, Todos
  <2> QED BY <1>1, <1>4, <2>1
<1>7. CASE op \in {"join", "leave", "dismiss"} /\ l \in GroupLists
  <2>1. \E t \in {<<"groups">>, <<"groups", "members">>} : note = SyncNote(t)
    BY <1>1, <1>7 DEF Notes, GroupNotes, GroupLists
  <2>2. <<"groups">> \in Todos /\ <<"groups", "members">> \in Todos
    BY DEF Todos
  <2>3. PICK t \in Todos : t # <<>> /\ note = SyncNote(t)
    BY <2>1, <2>2
  <2> QED BY <1>1, <1>4, <2>3
<1>8. CASE op = "info" /\ l \in GroupLists
  <2>1. note = Push(now', Same, now') /\ l = "groups"
    BY <1>1, <1>8 DEF Notes, GroupNotes, GroupLists, Changed, Allowed
  <2>2. Same \in -1..now' /\ Same = -1
    BY <1>3 DEF Same
  <2>3. /\ note \in Entries' /\ note.kind = "push" /\ EntryShape(note) /\ note.arg = ver["members"]
        /\ note.resp.ver = now' /\ note.resp.full = FALSE /\ note.resp.item = Same /\ note.resp.info = now'
    BY <1>3, <1>5, <1>8, <2>1, <2>2
  <2>4. chg'["members"] = chg["members"] /\ chg["members"] <= ver["members"] /\ chg'["groups"] = now'
    BY <1>2, <2>1 DEF Lists, ServerInv
  <2>5. PushOK(note)'
    BY <1>2, <1>3, <1>8, <2>2, <2>3, <2>4 DEF PushOK, Lists
  <2> QED BY <1>1, <1>8, <2>3, <2>5
<1>9. CASE op \in {"set", "unset"} /\ l \in GroupLists
  <2>1. l = "members" /\ \E info \in {0, chg'["groups"]} :
          note = Push(now', IF op = "set" THEN now' ELSE 0, info)
    <3>1. l = "members"
      BY <1>9 DEF Changed, Allowed, GroupLists
    <3>2. chg'["groups"] = chg["groups"]
      BY <1>2, <3>1 DEF Lists
    <3> QED BY <1>1, <1>9, <3>1, <3>2 DEF Notes, GroupNotes, GroupLists
  <2>2. PICK info \in {0, chg'["groups"]} : note = Push(now', IF op = "set" THEN now' ELSE 0, info)
    BY <2>1
  <2>9. chg'["groups"] = chg["groups"] /\ chg["groups"] <= ver["members"] /\ chg["groups"] \in 0..now'
    BY <1>2, <1>3, <2>1 DEF Lists, ServerInv
  <2>3. info \in 0..now' /\ (IF op = "set" THEN now' ELSE 0) \in -1..now'
    BY <1>3, <2>9
  <2>4. /\ note \in Entries' /\ note.kind = "push" /\ EntryShape(note) /\ note.arg = ver["members"]
        /\ note.resp.ver = now' /\ note.resp.full = FALSE /\ note.resp.info = info
        /\ note.resp.item = IF op = "set" THEN now' ELSE 0
    BY <1>5, <1>9, <2>2, <2>3
  <2>5. chg'["members"] = now' /\ there'["members"] = (op = "set")
    BY <1>2, <1>9, <2>1
  <2>6. Item("members")' = IF op = "set" THEN now' ELSE 0
    BY <2>5 DEF Item
  <2>7. PushOK(note)'
    BY <1>2, <1>3, <1>9, <2>2, <2>4, <2>5, <2>6, <2>9 DEF PushOK, Lists
  <2> QED BY <1>1, <1>9, <2>4, <2>7
<1> QED BY <1>6, <1>7, <1>8, <1>9 DEF Changes
-----------------------------------------------------------------------------
(* A set of numbers has a least one. *)
LEMMA Least == ASSUME NEW S \in SUBSET Nat, S # {} PROVE \E m \in S : \A k \in S : m <= k
<1> DEFINE R == {ss \in Nat \X Nat : ss[1] < ss[2]}
<1>1. IsWellFoundedOn(R, Nat)
  BY NatLessThanWellFounded DEF OpToRel
<1> HIDE DEF R
<1>2. PICK m \in S : \A k \in S : ~(<<k, m>> \in R)
  BY <1>1, WFMin
<1>3. ASSUME NEW k \in S PROVE m <= k
  <2>1. <<k, m>> \in Nat \X Nat /\ <<k, m>> \notin R
    BY <1>2
  <2> QED BY <2>1 DEF R
<1> QED BY <1>3

(***************************************************************************)
(* Notifications takes entries of the queue.  The function it defines      *)
(* exists: it is built up to the length of q (the least length without it  *)
(* would have a predecessor with it).                                      *)
(***************************************************************************)
IsNote(e) == e.kind \in {"sync", "push"}
Kept(g, q, E, n) ==
  /\ g \in [0..n -> Seq(E)] /\ g[0] = <<>>
  /\ \A k \in 1..n : g[k] = IF IsNote(q[k]) THEN Append(g[k - 1], q[k]) ELSE g[k - 1]

LEMMA KeptExists ==
  ASSUME NEW E, NEW q \in Seq(E), NEW n \in 0..Len(q)
  PROVE  \E g : Kept(g, q, E, n)
<1> DEFINE Bad == {m \in 0..Len(q) : ~\E g : Kept(g, q, E, m)}
<1>0. Len(q) \in Nat /\ \A k \in 1..Len(q) : q[k] \in E
  OBVIOUS
<1>1. SUFFICES ASSUME Bad # {} PROVE FALSE
  OBVIOUS
<1>2. PICK m \in Bad : \A k \in Bad : m <= k
  <2>1. Bad \in SUBSET Nat
    BY <1>0
  <2> HIDE DEF Bad
  <2> QED BY <1>1, <2>1, Least
<1>3. m # 0
  <2> DEFINE g == [k \in 0..0 |-> <<>>]
  <2>1. <<>> \in Seq(E)
    OBVIOUS
  <2>2. g \in [0..0 -> Seq(E)] /\ g[0] = <<>> /\ 1..0 = {}
    BY <2>1
  <2> HIDE DEF g
  <2>3. Kept(g, q, E, 0)
    BY <2>2 DEF Kept
  <2> QED BY <2>3
<1>4. m - 1 \in 0..Len(q) /\ m - 1 \notin Bad /\ m \in 1..Len(q)
  <2>1. m \in 0..Len(q)
    OBVIOUS
  <2>2. m \in 1..Len(q) /\ m - 1 \in 0..Len(q) /\ ~(m <= m - 1)
    BY <1>0, <1>3, <2>1
  <2> HIDE DEF Bad
  <2> QED BY <1>2, <2>2
<1>5. PICK g : Kept(g, q, E, m - 1)
  BY <1>4
<1> DEFINE last == IF IsNote(q[m]) THEN Append(g[m - 1], q[m]) ELSE g[m - 1]
           h == [k \in 0..m |-> IF k = m THEN last ELSE g[k]]
<1>6. g \in [0..m - 1 -> Seq(E)] /\ g[0] = <<>>
      /\ \A k \in 1..m - 1 : g[k] = IF IsNote(q[k]) THEN Append(g[k - 1], q[k]) ELSE g[k - 1]
  BY <1>5 DEF Kept
<1>7. last \in Seq(E)
  <2>1. g[m - 1] \in Seq(E) /\ q[m] \in E
    BY <1>0, <1>4, <1>6
  <2>2. Append(g[m - 1], q[m]) \in Seq(E)
    BY <2>1
  <2> QED BY <2>1, <2>2
<1>8. m \in Nat /\ \A k \in 0..m : k = m \/ k \in 0..m - 1
  BY <1>4
<1>9. h \in [0..m -> Seq(E)]
  <2> HIDE DEF last
  <2> QED BY <1>6, <1>7, <1>8
<1>10. h[0] = <<>>
  BY <1>4, <1>6
<1>11. ASSUME NEW k \in 1..m
       PROVE  h[k] = IF IsNote(q[k]) THEN Append(h[k - 1], q[k]) ELSE h[k - 1]
  <2>1. k - 1 \in 0..m /\ k - 1 # m /\ k \in 0..m
    BY <1>8
  <2>2. h[k - 1] = g[k - 1]
    BY <2>1
  <2>3. CASE k = m
    <3>1. h[k] = last
      BY <2>1, <2>3
    <3> HIDE DEF h
    <3> QED BY <2>2, <2>3, <3>1
  <2>4. CASE k # m
    <3>1. k \in 1..m - 1 /\ h[k] = g[k]
      BY <1>8, <2>1, <2>4
    <3> HIDE DEF h
    <3> QED BY <1>6, <2>2, <3>1
  <2> QED BY <2>3, <2>4
<1>12. Kept(h, q, E, m)
  <2> HIDE DEF h
  <2> QED BY <1>9, <1>10, <1>11 DEF Kept
<1> QED BY <1>12

(* The entries of s are notes of q. *)
TakenFrom(s, q) ==
  \A k \in 1..Len(s) : \E j \in 1..Len(q) : s[k] = q[j] /\ IsNote(q[j])

LEMMA KeptItems ==
  ASSUME NEW E, NEW q \in Seq(E), NEW g, Kept(g, q, E, Len(q))
  PROVE  g[Len(q)] \in Seq(E) /\ TakenFrom(g[Len(q)], q)
<1> DEFINE Bad == {n \in 0..Len(q) : ~TakenFrom(g[n], q)}
<1>0. /\ Len(q) \in Nat /\ \A k \in 1..Len(q) : q[k] \in E
      /\ g \in [0..Len(q) -> Seq(E)] /\ g[0] = <<>>
      /\ \A k \in 1..Len(q) : g[k] = IF IsNote(q[k]) THEN Append(g[k - 1], q[k]) ELSE g[k - 1]
  BY DEF Kept
<1>1. Bad = {}
  <2>1. SUFFICES ASSUME Bad # {} PROVE FALSE
    OBVIOUS
  <2>2. PICK m \in Bad : \A k \in Bad : m <= k
    <3>1. Bad \in SUBSET Nat
      BY <1>0
    <3> HIDE DEF Bad
    <3> QED BY <2>1, <3>1, Least
  <2>3. m # 0
    <3>1. Len(<<>>) = 0 /\ 1..0 = {}
      OBVIOUS
    <3> QED BY <1>0, <3>1 DEF TakenFrom
  <2>4. m - 1 \in 0..Len(q) /\ m - 1 \notin Bad /\ m \in 1..Len(q)
    <3>1. m \in 0..Len(q)
      OBVIOUS
    <3>2. m \in 1..Len(q) /\ m - 1 \in 0..Len(q) /\ ~(m <= m - 1)
      BY <1>0, <2>3, <3>1
    <3> HIDE DEF Bad
    <3> QED BY <2>2, <3>2
  <2>5. TakenFrom(g[m - 1], q) /\ g[m - 1] \in Seq(E) /\ q[m] \in E
    BY <1>0, <2>4
  <2>6. g[m] = IF IsNote(q[m]) THEN Append(g[m - 1], q[m]) ELSE g[m - 1]
    BY <1>0, <2>4
  <2>7. TakenFrom(g[m], q)
    <3> DEFINE s == g[m - 1]
               t == Append(s, q[m])
    <3>1. CASE IsNote(q[m])
      <4>1. g[m] = t
        BY <2>6, <3>1
      <4>2. Len(t) = Len(s) + 1 /\ Len(s) \in Nat /\ t[Len(s) + 1] = q[m] /\ \A k \in 1..Len(s) : t[k] = s[k]
        BY <2>5
      <4> HIDE DEF s, t
      <4>3. ASSUME NEW k \in 1..Len(t) PROVE \E j \in 1..Len(q) : t[k] = q[j] /\ IsNote(q[j])
        <5>1. CASE k = Len(s) + 1
          BY <2>4, <3>1, <4>2, <5>1
        <5>2. CASE k \in 1..Len(s)
          BY <2>5, <4>2, <5>2 DEF s, TakenFrom
        <5> QED BY <4>2, <5>1, <5>2
      <4> QED BY <4>1, <4>3 DEF TakenFrom
    <3>2. CASE ~IsNote(q[m])
      BY <2>5, <2>6, <3>2
    <3> QED BY <3>1, <3>2
  <2> QED BY <2>2, <2>7
<1>2. Len(q) \in 0..Len(q)
  BY <1>0
<1> HIDE DEF Kept
<1> QED BY <1>0, <1>1, <1>2

LEMMA NotificationsFacts ==
  ASSUME NEW E, NEW q \in Seq(E)
  PROVE  Notifications(q) \in Seq(E) /\ TakenFrom(Notifications(q), q)
<1> DEFINE Body(g) == [n \in 0..Len(q) |-> IF n = 0 THEN <<>>
                                           ELSE IF q[n].kind \in {"sync", "push"} THEN Append(g[n - 1], q[n])
                                           ELSE g[n - 1]]
           f == CHOOSE g : g = Body(g)
<1>0. Len(q) \in Nat
  OBVIOUS
<1>1. PICK g : Kept(g, q, E, Len(q))
  <2>1. Len(q) \in 0..Len(q)
    BY <1>0
  <2> HIDE DEF Body
  <2> QED BY <2>1, KeptExists
<1>2. /\ g \in [0..Len(q) -> Seq(E)] /\ g[0] = <<>>
      /\ \A k \in 1..Len(q) : g[k] = IF q[k].kind \in {"sync", "push"} THEN Append(g[k - 1], q[k]) ELSE g[k - 1]
  BY <1>1 DEF Kept, IsNote
<1>3. g = Body(g)
  <2>1. \A n \in 0..Len(q) : g[n] = IF n = 0 THEN <<>>
                                    ELSE IF q[n].kind \in {"sync", "push"} THEN Append(g[n - 1], q[n])
                                    ELSE g[n - 1]
    <3>1. \A n \in 0..Len(q) : n = 0 \/ n \in 1..Len(q)
      BY <1>0
    <3> QED BY <1>2, <3>1
  <2> QED BY <1>2, <2>1
<1>4. f = Body(f)
  <2> HIDE DEF Body
  <2> QED BY <1>3
<1>5. Notifications(q) = f[Len(q)]
  BY DEF Notifications
<1> HIDE DEF f
<1>6. /\ DOMAIN f = 0..Len(q) /\ f[0] = <<>>
      /\ \A k \in 1..Len(q) : f[k] = IF q[k].kind \in {"sync", "push"} THEN Append(f[k - 1], q[k]) ELSE f[k - 1]
  <2>1. \A k \in 0..Len(q) : f[k] = Body(f)[k]
    BY <1>4
  <2>2. 0 \in 0..Len(q) /\ \A k \in 1..Len(q) : k \in 0..Len(q) /\ k # 0
    BY <1>0
  <2>3. DOMAIN f = 0..Len(q)
    BY <1>4
  <2> QED BY <2>1, <2>2, <2>3
<1>7. ASSUME NEW n \in 0..Len(q), f[n] # g[n] PROVE FALSE
  <2> DEFINE Bad == {m \in 0..Len(q) : f[m] # g[m]}
  <2>1. PICK m \in Bad : \A k \in Bad : m <= k
    <3>1. Bad \in SUBSET Nat /\ Bad # {}
      BY <1>0, <1>7
    <3> HIDE DEF Bad
    <3> QED BY <3>1, Least
  <2>2. m # 0
    BY <1>2, <1>6
  <2>3. m - 1 \in 0..Len(q) /\ m - 1 \notin Bad /\ m \in 1..Len(q)
    BY <1>0, <2>1, <2>2
  <2>4. f[m - 1] = g[m - 1]
    BY <2>3
  <2>5. f[m] = g[m]
    BY <1>2, <1>6, <2>3, <2>4
  <2> QED BY <2>1, <2>5
<1>8. Len(q) \in 0..Len(q)
  BY <1>0
<1>9. f[Len(q)] = g[Len(q)]
  BY <1>7, <1>8
<1> QED BY <1>1, <1>5, <1>9, KeptItems

-----------------------------------------------------------------------------
(* What a process is doing fits the list it is at. *)
Fits(r) ==
  /\ r.pc = "idle" => r = Idle
  /\ r.pc \notin {"idle", "done"} => r.todo # <<>>
  /\ r.todo # <<>> /\ Head(r.todo) \in GroupLists => r.locks
  /\ r.pc \in Deleting => Head(r.todo) = "groups"
  /\ r.pc = "extra" => Head(r.todo) = "members" /\ r.resp.info # 0
  /\ r.pc \in {"clear", "fill"} => r.resp.full
  /\ r.pc \in Deleting \cup {"apply", "extra"} => ~r.resp.full
  /\ r.pc \in Answered \ {"apply"} => Head(r.todo) # "black"
  /\ r.pc \in Answered /\ Head(r.todo) # "members" => r.resp.info = 0

(* Who is at the lists of the group has their mutex; two are at one list only if it is raced. *)
LockInv ==
  /\ \A p \in Processes : Fits(proc[p])
  /\ \A p \in Processes : Syncing(proc[p]) \in GroupLists => mutex["group"] = p
  /\ \A p \in Processes : \A m \in {"group", "relation"} : mutex[m] = p => ~At(p, {"idle", "lock"})
  /\ \A p, q \in Processes :
       Syncing(proc[p]) = Syncing(proc[q]) /\ Syncing(proc[p]) \notin raced \cup {"none"} => p = q
  /\ raced \subseteq {"friends", "black"}

(* The worker's note stays at the head of the queue while he handles it. *)
WorkerInv ==
  ~At("worker", {"idle"}) =>
    queue # <<>> /\ queue[1].kind \in {"sync", "push"}
      /\ (queue[1].kind = "push" => proc["worker"].todo \in {<<>>, <<"members">>})

Queued   == {queue[k] : k \in 1..Len(queue)}
QueueInv == \A e \in Queued : EntryShape(e) /\ (e.kind = "push" => PushOK(e))

Base == Typed /\ ServerInv /\ LockInv /\ WorkerInv /\ QueueInv

LEMMA SyncingFacts ==
  ASSUME NEW r \in Procs, Fits(r)
  PROVE  /\ r.pc \in Answered \cup {"fetch"} => Syncing(r) = Head(r.todo) /\ Syncing(r) \in Lists /\ r.todo # <<>>
         /\ r.pc \notin Answered \cup {"fetch"} => Syncing(r) = "none"
         /\ Syncing(r) # "none" => r.pc \in Answered \cup {"fetch"}
<1>1. r.todo \in Todos /\ r.pc \in Places
  BY DEF Procs
<1>2. r.pc \in Answered \cup {"fetch"} <=> r.pc \notin {"idle", "lock", "done"}
  BY <1>1 DEF Places, Answered
<1>3. r.pc \in Answered \cup {"fetch"} => r.todo # <<>>
  BY <1>2 DEF Fits
<1>4. r.todo # <<>> => Head(r.todo) \in Lists
  BY <1>1, TodoFacts
<1>5. "none" \notin Lists
  BY DEF Lists
<1> QED BY <1>2, <1>3, <1>4, <1>5 DEF Syncing

LEMMA NextFits ==
  ASSUME NEW p \in Processes, proc \in [Processes -> Procs], proc[p].todo # <<>>, now \in Nat, Fits(proc[p])
  PROVE  /\ Fits(NextList(p)) /\ Syncing(NextList(p)) \in {"none", "members"}
         /\ Syncing(NextList(p)) = "members" => proc[p].todo = <<"groups", "members">>
<1>1. /\ NextList(p) \in Procs /\ NextList(p).pc \in {"fetch", "done"}
      /\ NextList(p).pc = "fetch" <=> proc[p].todo = <<"groups", "members">>
      /\ NextList(p).pc = "fetch" => NextList(p).todo = <<"members">>
      /\ NextList(p).pc = "done" => NextList(p).todo = <<>>
      /\ NextList(p).locks = proc[p].locks
  BY NextFacts
<1>2. Head(<<"groups", "members">>) = "groups" /\ Head(<<"members">>) = "members" /\ <<"members">> # <<>>
  OBVIOUS
<1>3. NextList(p).pc = "fetch" => proc[p].locks
  BY <1>1, <1>2 DEF Fits, GroupLists
<1>4. Fits(NextList(p))
  BY <1>1, <1>2, <1>3 DEF Fits, Deleting, Answered
<1>5. Syncing(NextList(p)) = IF NextList(p).pc = "fetch" THEN "members" ELSE "none"
  BY <1>1, <1>2 DEF Syncing
<1> QED BY <1>1, <1>4, <1>5

LEMMA OntoFits ==
  ASSUME NEW p \in Processes, proc \in [Processes -> Procs], Fits(proc[p]), NEW pc \in Places \ {"idle", "lock"},
         Syncing(proc[p]) # "none", pc \in Answered \cup {"fetch", "done"},
         pc \in Deleting => Now(p) = "groups",
         pc = "extra" => Now(p) = "members" /\ proc[p].resp.info # 0,
         pc \in {"clear", "fill"} => proc[p].resp.full,
         pc \in Deleting \cup {"apply", "extra"} => ~proc[p].resp.full,
         pc \in Answered \ {"apply"} => Now(p) # "black",
         pc \in Answered /\ Now(p) # "members" => proc[p].resp.info = 0
  PROVE  Fits(Onto(p, pc)) /\ Syncing(Onto(p, pc)) \in {"none", Syncing(proc[p])}
<1>1. /\ Onto(p, pc) \in Procs /\ Onto(p, pc).pc = pc /\ Onto(p, pc).todo = proc[p].todo
      /\ Onto(p, pc).resp = proc[p].resp /\ Onto(p, pc).locks = proc[p].locks
  BY OntoFacts
<1>2. proc[p] \in Procs
  OBVIOUS
<1>3. proc[p].todo # <<>> /\ Syncing(proc[p]) = Now(p)
  BY <1>2, SyncingFacts DEF Now
<1>4. Fits(Onto(p, pc))
  BY <1>1, <1>3 DEF Fits, Now
<1> QED BY <1>1, <1>3, <1>4 DEF Syncing, Now

(* A process goes on without touching a mutex. *)
LEMMA LockBecomes ==
  ASSUME LockInv, proc \in [Processes -> Procs], NEW p \in Processes, NEW r \in Procs, Becomes(p, r), Fits(r),
         mutex' = mutex, r.pc \notin {"idle", "lock"},
         Syncing(r) \in GroupLists => mutex["group"] = p
  PROVE  LockInv'
<1>1. /\ proc'[p] = r /\ \A q \in Processes : q # p => proc'[q] = proc[q]
      /\ raced \subseteq raced' /\ raced' \subseteq raced \cup ({Syncing(r)} \ {"none"})
      /\ \A q \in Processes : q # p /\ Syncing(proc[q]) = Syncing(r) /\ Syncing(r) # "none"
            => Syncing(r) \in raced'
      /\ Syncing(r) \in raced' \ raced
            => \E q \in Processes : q # p /\ Syncing(proc[q]) = Syncing(r)
  BY BecomesFacts
<1>2. \A q \in Processes : Fits(proc'[q])
  BY <1>1 DEF LockInv
<1>3. \A q \in Processes : Syncing(proc'[q]) \in GroupLists => mutex'["group"] = q
  BY <1>1 DEF LockInv
<1>4. \A q \in Processes : \A m \in {"group", "relation"} : mutex'[m] = q => proc'[q].pc \notin {"idle", "lock"}
  BY <1>1 DEF LockInv, At
<1>5. ASSUME NEW q \in Processes, NEW s \in Processes,
             Syncing(proc'[q]) = Syncing(proc'[s]), Syncing(proc'[q]) \notin raced' \cup {"none"}
      PROVE  q = s
  <2>2. CASE q # p /\ s # p
    <3>1. proc'[q] = proc[q] /\ proc'[s] = proc[s] /\ Syncing(proc[q]) \notin raced \cup {"none"}
      BY <1>1, <1>5, <2>2
    <3> QED BY <1>5, <3>1 DEF LockInv
  <2>3. CASE q = p
    BY <1>1, <1>5, <2>3
  <2>4. CASE s = p
    BY <1>1, <1>5, <2>4
  <2> QED BY <2>2, <2>3, <2>4
<1>6. raced' \subseteq {"friends", "black"}
  <2>1. Syncing(r) \notin raced' \ raced \/ Syncing(r) \in {"friends", "black"}
    <3>1. SUFFICES ASSUME Syncing(r) \in raced' \ raced PROVE Syncing(r) \in {"friends", "black"}
      OBVIOUS
    <3>2. Syncing(r) \in Lists
      BY <1>1, <3>1, SyncingFacts DEF LockInv
    <3>3. Syncing(r) \notin GroupLists
      BY <1>1, <3>1 DEF LockInv
    <3> QED BY <3>2, <3>3 DEF Lists, GroupLists
  <2> QED BY <1>1, <2>1 DEF LockInv
<1> QED BY <1>2, <1>3, <1>4, <1>5, <1>6 DEF LockInv, At
-----------------------------------------------------------------------------
(* The queue *)

LEMMA PushStays ==
  ASSUME UNCHANGED <<chg, ver, there>>, NEW e, PushOK(e) PROVE PushOK(e)'
  BY DEF PushOK, Item

LEMMA PushOutlived ==
  ASSUME TypeServer, ServerInv, NEW op \in Changes, NEW l \in Lists, Changed(op, l), NEW e \in Entries, PushOK(e)
  PROVE  PushOK(e)'
<1>1. /\ now' = now + 1 /\ chg'[l] = now'
      /\ \A k \in Lists : k # l => chg'[k] = chg[k] /\ there'[k] = there[k]
      /\ \A k \in Lists : ver[k] <= ver'[k]
      /\ TypeServer'
  BY ChangedServer
<1>2. /\ e.resp \in Resps /\ e.resp.ver \in 0..now /\ now \in Nat
      /\ ver["members"] \in 0..now /\ ver'["members"] \in 0..now'
      /\ ver["members"] <= ver'["members"]
  <2>1. e.resp \in Resps
    BY DEF Entries
  <2> QED BY <1>1, <2>1 DEF Resps, TypeServer, Lists
<1>3. e.resp.ver <= ver'["members"]
  BY <1>1, <1>2 DEF PushOK
<1>4. ASSUME NEW k \in {"members", "groups"}, chg'[k] <= e.resp.ver
      PROVE  chg'[k] = chg[k] /\ there'[k] = there[k]
  <2>1. k # l
    BY <1>1, <1>2, <1>4
  <2> QED BY <1>1, <2>1 DEF Lists
<1>5. chg'["members"] <= e.resp.ver =>
       e.resp.item = IF chg'["members"] > e.arg THEN Item("members")' ELSE Same
  BY <1>4 DEF PushOK, Item
<1>6. chg'["groups"] <= e.resp.ver =>
       e.resp.info \in {0, chg'["groups"]} /\ (chg'["groups"] > e.arg => e.resp.info = chg'["groups"])
  BY <1>4 DEF PushOK
<1> QED BY <1>3, <1>5, <1>6 DEF PushOK

(* At most one entry is added to the queue. *)
Appended ==
  \/ queue' = queue
  \/ \E e \in Entries' : queue' = Append(queue, e) /\ EntryShape(e) /\ (e.kind = "push" => PushOK(e)')

LEMMA QueueAppended ==
  ASSUME now \in Nat, now' \in Nat, now <= now', queue \in Seq(Entries), QueueInv, Appended,
         \A e \in Entries : PushOK(e) => PushOK(e)'
  PROVE  /\ queue' \in Seq(Entries') /\ QueueInv'
         /\ queue # <<>> => queue' # <<>> /\ queue'[1] = queue[1]
<1>1. Seq(Entries) \subseteq Seq(Entries') /\ Entries \subseteq Entries'
  BY Grows
<1>2. Queued \subseteq Entries
  BY DEF Queued
<1>3. CASE queue' = queue
  <2>1. Queued' = Queued /\ queue' \in Seq(Entries')
    BY <1>1, <1>3 DEF Queued
  <2> QED BY <1>2, <1>3, <2>1 DEF QueueInv
<1>4. CASE queue' # queue
  <2>1. PICK e \in Entries' : queue' = Append(queue, e) /\ EntryShape(e) /\ (e.kind = "push" => PushOK(e)')
    BY <1>4 DEF Appended
  <2>2. queue \in Seq(Entries')
    BY <1>1
  <2>3. /\ queue' \in Seq(Entries') /\ Len(queue') = Len(queue) + 1 /\ Len(queue) \in Nat
        /\ queue'[Len(queue) + 1] = e /\ \A k \in 1..Len(queue) : queue'[k] = queue[k]
    BY <2>1, <2>2
  <2>4. Queued' \subseteq Queued \cup {e}
    BY <2>3 DEF Queued
  <2>5. queue # <<>> => 1 \in 1..Len(queue) /\ queue' # <<>>
    BY <2>2, <2>3
  <2>6. QueueInv'
    BY <1>2, <2>1, <2>4 DEF QueueInv
  <2> QED BY <2>3, <2>5, <2>6
<1> QED BY <1>3, <1>4

LEMMA QueueTail ==
  ASSUME queue \in Seq(Entries), QueueInv, queue # <<>>, queue' = Tail(queue), now' = now,
         UNCHANGED <<chg, ver, there>>
  PROVE  queue' \in Seq(Entries') /\ QueueInv'
<1>1. /\ queue' \in Seq(Entries) /\ Len(queue') = Len(queue) - 1 /\ Len(queue) \in Nat \ {0}
      /\ \A k \in 1..Len(queue') : queue'[k] = queue[k + 1] /\ k + 1 \in 1..Len(queue)
  OBVIOUS
<1>2. Entries' = Entries
  BY DEF Entries, Resps
<1>3. Queued' \subseteq Queued
  BY <1>1 DEF Queued
<1>4. \A e \in Queued : PushOK(e) => PushOK(e)'
  BY PushStays
<1>5. QueueInv'
  BY <1>3, <1>4 DEF QueueInv
<1> QED BY <1>1, <1>2, <1>5
-----------------------------------------------------------------------------
(* The steps of a synchronisation *)

(* What they all keep to. *)
Moves(p, r) ==
  /\ Becomes(p, r) /\ r.pc \notin {"idle", "lock"} /\ r.todo \in {proc[p].todo, Tail(proc[p].todo)}
  /\ Syncing(r) \in GroupLists => Syncing(proc[p]) \in GroupLists
  /\ UNCHANGED <<server, maker, conv>> /\ Appended /\ call' \in {call, NoCall}

(* The types of what a step along a synchronisation writes. *)
Keeps ==
  /\ row' \in [Lists -> 0..now] /\ saved' \in [Lists -> 0..now] /\ listed' \in BOOLEAN
  /\ stale' \in SUBSET Lists /\ orphaned' \in BOOLEAN
  /\ missed' \in [skipped : 0..now, setBack : 0..now, emptied : 0..now]
  /\ bound' \in [change : Nat, call : Nat, event : Nat]

LEMMA SameTypes ==
  ASSUME now' = now
  PROVE  Resps' = Resps /\ Procs' = Procs /\ Entries' = Entries /\ Makers' = Makers
<1>1. Resps' = Resps
  BY DEF Resps
<1>2. Procs' = Procs
  BY <1>1 DEF Procs
<1>3. Entries' = Entries
  BY <1>1 DEF Entries
<1>4. Makers' = Makers
  BY DEF Makers
<1> QED BY <1>1, <1>2, <1>3, <1>4

LEMMA SameServer ==
  ASSUME TypeServer, ServerInv, UNCHANGED server
  PROVE  /\ TypeServer' /\ ServerInv' /\ now' = now /\ now \in Nat /\ UNCHANGED <<chg, ver, there>>
         /\ \A e : PushOK(e) => PushOK(e)'
<1>1. UNCHANGED <<scope, now, there, chg, over, ver, floor>>
  BY DEF server
<1>2. \A e : PushOK(e) => PushOK(e)'
  BY <1>1, PushStays
<1> QED BY <1>1, <1>2 DEF TypeServer, ServerInv

LEMMA MoveTypes ==
  ASSUME Base, NEW p \in Processes, NEW r \in Procs, Moves(p, r), Fits(r), proc[p].todo # <<>>, Keeps,
         mutex' \in [{"group", "relation"} -> Processes \cup {"free"}], LockInv'
  PROVE  Base'
<1>1. TypeServer' /\ ServerInv' /\ now' = now /\ now \in Nat /\ \A e : PushOK(e) => PushOK(e)'
  BY SameServer DEF Base, Typed, Moves
<1>2. Resps' = Resps /\ Procs' = Procs /\ Entries' = Entries /\ Makers' = Makers
  BY <1>1, SameTypes
<1>3. queue' \in Seq(Entries') /\ QueueInv' /\ (queue # <<>> => queue' # <<>> /\ queue'[1] = queue[1])
  BY <1>1, QueueAppended DEF Base, Typed, TypeProc, Moves
<1>4. /\ proc' = [proc EXCEPT ![p] = r] /\ proc'[p] = r
      /\ \A q \in Processes : q # p => proc'[q] = proc[q]
      /\ raced' \subseteq raced \cup ({Syncing(r)} \ {"none"})
  BY BecomesFacts DEF Base, Typed, TypeProc, Moves
<1>5. TypeProc'
  <2>1. proc' \in [Processes -> Procs']
    BY <1>2, <1>4 DEF Base, Typed, TypeProc
  <2>2. call' \in [list : Lists \cup {"none", "query"}, change : 0..now, gone : BOOLEAN]
    <3>1. call \in [list : Lists \cup {"none", "query"}, change : 0..now, gone : BOOLEAN]
      BY DEF Base, Typed, TypeProc
    <3>2. NoCall \in [list : Lists \cup {"none", "query"}, change : 0..now, gone : BOOLEAN]
      BY <1>1 DEF NoCall
    <3> QED BY <3>1, <3>2 DEF Moves
  <2> QED BY <1>1, <1>2, <1>3, <2>1, <2>2 DEF Base, Typed, TypeProc, Moves
<1>6. TypeDb'
  BY <1>1 DEF Base, Typed, TypeDb, Keeps, Moves
<1>7. TypeHist'
  <2>1. raced' \subseteq Lists
    BY <1>4 DEF LockInv, Lists
  <2> QED BY <1>1, <2>1 DEF Keeps, TypeHist
<1>8. WorkerInv'
  <2>1. CASE p # "worker"
    BY <1>3, <1>4, <2>1 DEF Base, WorkerInv, At, Processes
  <2>2. CASE p = "worker"
    <3>1. ~At(p, {"idle"})
      BY <2>2, IdleFacts DEF Base, LockInv, Fits, At
    <3>2. queue # <<>> /\ queue[1].kind \in {"sync", "push"}
             /\ (queue[1].kind = "push" => proc[p].todo = <<"members">>)
      BY <2>2, <3>1 DEF Base, WorkerInv
    <3>3. Tail(<<"members">>) = <<>>
      OBVIOUS
    <3> QED BY <1>3, <1>4, <2>2, <3>2, <3>3 DEF WorkerInv, Moves
  <2> QED BY <2>1, <2>2
<1> QED BY <1>1, <1>3, <1>5, <1>6, <1>7, <1>8 DEF Base, Typed

LEMMA MoveBase ==
  ASSUME Base, NEW p \in Processes, NEW r \in Procs, Moves(p, r), Fits(r), proc[p].todo # <<>>, Keeps,
         mutex' = mutex
  PROVE  Base'
<1>1. proc \in [Processes -> Procs] /\ LockInv
  BY DEF Base, Typed, TypeProc
<1>2. Syncing(r) \in GroupLists => mutex["group"] = p
  BY DEF Moves, Base, LockInv
<1>3. LockInv'
  BY <1>1, <1>2, LockBecomes DEF Moves
<1> QED BY <1>3, MoveTypes DEF Base, Typed, TypeProc

-----------------------------------------------------------------------------
(* A process that synchronises a list. *)
LEMMA AtList ==
  ASSUME Base, NEW p \in Processes, Syncing(proc[p]) # "none" \/ proc[p].pc \in Answered \cup {"fetch"}
  PROVE  /\ proc[p] \in Procs /\ proc[p].todo \in Todos \ {<<>>} /\ Now(p) \in Lists /\ Syncing(proc[p]) = Now(p)
         /\ proc[p].pc \in Answered \cup {"fetch"} /\ Fits(proc[p]) /\ proc[p].resp \in Resps
         /\ proc \in [Processes -> Procs] /\ now \in Nat
         /\ Now(p) \in GroupLists => mutex["group"] = p
<1>1. proc[p] \in Procs /\ Fits(proc[p]) /\ proc \in [Processes -> Procs] /\ now \in Nat
  BY DEF Base, Typed, TypeProc, TypeServer, LockInv
<1>2. proc[p].todo \in Todos /\ proc[p].resp \in Resps
  BY <1>1 DEF Procs
<1>3. Syncing(proc[p]) = Head(proc[p].todo) /\ Syncing(proc[p]) \in Lists /\ proc[p].todo # <<>>
      /\ proc[p].pc \in Answered \cup {"fetch"}
  BY <1>1, SyncingFacts
<1> QED BY <1>1, <1>2, <1>3 DEF Now, Base, LockInv

LEMMA GivenFits ==
  ASSUME Base, NEW p \in Processes, proc[p].pc = "fetch", NEW a \in Resps,
         Now(p) = "black" => ~a.full, Now(p) # "members" => a.info = 0
  PROVE  /\ Fits(Given(p, a)) /\ Syncing(Given(p, a)) = Now(p) /\ Given(p, a) \in Procs
         /\ Given(p, a).pc \in {"clear", "apply"} /\ Given(p, a).todo = proc[p].todo
<1>1. /\ Given(p, a) \in Procs /\ Given(p, a).pc = IF a.full THEN "clear" ELSE "apply"
      /\ Given(p, a).todo = proc[p].todo /\ Given(p, a).resp = a
      /\ Given(p, a).locks = proc[p].locks
  BY GivenFacts DEF Base, Typed, TypeProc
<1>2. proc[p].todo # <<>> /\ Fits(proc[p])
  BY AtList
<1>3. Fits(Given(p, a))
  BY <1>1, <1>2 DEF Fits, Now, Deleting, Answered
<1> QED BY <1>1, <1>2, <1>3 DEF Syncing, Now

(* What the answer to a request, or a push in its place, may be. *)
Given1(p, a) ==
  \/ a = Answer(Now(p))
  \/ Now(p) = "members" /\ a = [Answer("members") EXCEPT !.push = TRUE]
  \/ /\ Now(p) = "members" /\ p = "worker" /\ queue # <<>> /\ queue[1].kind = "push"
     /\ saved["members"] = queue[1].arg /\ a = queue[1].resp

LEMMA Given1Facts ==
  ASSUME Base, NEW p \in Processes, proc[p].pc = "fetch", NEW a, Given1(p, a)
  PROVE  a \in Resps /\ (Now(p) = "black" => ~a.full) /\ (Now(p) # "members" => a.info = 0)
<1>1. Now(p) \in Lists
  BY AtList
<1>2. /\ Answer(Now(p)) \in Resps /\ (Now(p) = "black" => ~Answer(Now(p)).full)
      /\ (Now(p) # "members" => Answer(Now(p)).info = 0)
  BY <1>1, AnswerFacts DEF Base, Typed
<1>3. CASE a = Answer(Now(p))
  BY <1>2, <1>3
<1>4. CASE Now(p) = "members" /\ a = [Answer("members") EXCEPT !.push = TRUE]
  <2>1. Answer("members") \in Resps
    BY <1>2, <1>4
  <2> QED BY <1>4, <2>1 DEF Resps
<1>5. CASE Now(p) = "members" /\ queue # <<>> /\ a = queue[1].resp
  <2>1. queue[1] \in Entries
    BY <1>5 DEF Base, Typed, TypeProc
  <2> QED BY <1>5, <2>1 DEF Entries
<1> QED BY <1>3, <1>4, <1>5 DEF Given1

LEMMA FetchFacts ==
  ASSUME Base, NEW p \in Processes, Fetch(p)
  PROVE  /\ proc[p].pc = "fetch"
         /\ \/ Becomes(p, Onto(p, "done")) /\ call' = (IF p = "call" THEN NoCall ELSE call)
            \/ Becomes(p, NextList(p)) /\ call' = call
               /\ (p = "call" => call = Query \/ ~HasData(Answer(Now(p))))
            \/ \E a : Given1(p, a) /\ Becomes(p, Given(p, a)) /\ call' = call
         /\ UNCHANGED <<server, db, mutex, queue, maker, bound, stale, orphaned, missed>>
<1> DEFINE l == Head(proc[p].todo)
           pushed == p = "worker" /\ queue[1].kind = "push"
           local == Skipped(p) \/ (pushed /\ queue[1].resp.ver <= saved["members"])
                             \/ (pushed /\ queue[1].arg = saved["members"])
           r == IF Skipped(p) THEN NextList(p)
                ELSE IF pushed THEN FetchPush(p, queue[1])
                ELSE IF HasData(Answer(l)) THEN Given(p, Answer(l)) ELSE NextList(p)
<1>1. /\ proc[p].pc = "fetch"
      /\ UNCHANGED <<server, db, mutex, queue, maker, bound, stale, orphaned, missed>>
      /\ \/ Becomes(p, Onto(p, "done")) /\ call' = (IF p = "call" THEN NoCall ELSE call)
         \/ Becomes(p, r) /\ call' = call
  <2> HIDE DEF r, local
  <2> QED BY DEF Fetch, Onto, r, local
<1>2. /\ Now(p) \in Lists /\ l = Now(p) /\ proc[p].todo # <<>>
  BY <1>1, AtList DEF Now
<1>3. ASSUME Becomes(p, r), call' = call
      PROVE  \/ Becomes(p, NextList(p)) /\ (p = "call" => call = Query \/ ~HasData(Answer(Now(p))))
             \/ \E a : Given1(p, a) /\ Becomes(p, Given(p, a))
  <2>1. CASE Skipped(p)
    BY <1>3, <2>1 DEF Skipped
  <2>2. CASE ~Skipped(p) /\ pushed
    <3>1. p = "worker" /\ queue # <<>> /\ Now(p) = "members" /\ queue[1].kind = "push"
      <4>1. ~At("worker", {"idle"}) /\ p = "worker"
        BY <1>1, <2>2 DEF At
      <4>2. proc[p].todo = <<"members">> /\ queue # <<>>
        BY <1>2, <2>2, <4>1 DEF Base, WorkerInv
      <4> QED BY <2>2, <4>1, <4>2 DEF Now
    <3>2. r = FetchPush(p, queue[1])
      BY <2>2
    <3>3. \/ r = NextList(p)
          \/ r = Given(p, queue[1].resp) /\ saved["members"] = queue[1].arg
          \/ r = Given(p, [Answer("members") EXCEPT !.push = TRUE])
      BY <3>2 DEF FetchPush
    <3> HIDE DEF r
    <3> QED BY <1>3, <3>1, <3>3 DEF Given1
  <2>3. CASE ~Skipped(p) /\ ~pushed
    <3>1. \/ r = NextList(p) /\ ~HasData(Answer(Now(p)))
          \/ r = Given(p, Answer(Now(p)))
      BY <1>2, <2>3
    <3> HIDE DEF r
    <3> QED BY <1>3, <3>1 DEF Given1
  <2> QED BY <2>1, <2>2, <2>3
<1> HIDE DEF r
<1> QED BY <1>1, <1>3

LEMMA OntoDone ==
  ASSUME Base, NEW p \in Processes, Syncing(proc[p]) # "none"
  PROVE  /\ Fits(Onto(p, "done")) /\ Syncing(Onto(p, "done")) = "none" /\ Onto(p, "done") \in Procs
         /\ Onto(p, "done").pc = "done" /\ Onto(p, "done").todo = proc[p].todo
<1>1. proc[p] \in Procs /\ proc \in [Processes -> Procs] /\ Fits(proc[p]) /\ proc[p].todo # <<>>
  BY AtList
<1>2. "done" \in Places \ {"idle", "lock"} /\ "done" \notin Answered
  BY DEF Places, Answered
<1>3. /\ Onto(p, "done") \in Procs /\ Onto(p, "done").pc = "done" /\ Onto(p, "done").todo = proc[p].todo
      /\ Onto(p, "done").locks = proc[p].locks
  BY <1>1, <1>2, OntoFacts
<1>4. Fits(Onto(p, "done"))
  BY <1>1, <1>3 DEF Fits, Deleting, Answered
<1> QED BY <1>3, <1>4 DEF Syncing

LEMMA NextMoves ==
  ASSUME Base, NEW p \in Processes, Syncing(proc[p]) # "none"
  PROVE  /\ NextList(p) \in Procs /\ Fits(NextList(p)) /\ NextList(p).pc \in {"fetch", "done"}
         /\ NextList(p).todo = Tail(proc[p].todo)
         /\ Syncing(NextList(p)) \in {"none", "members"}
         /\ Syncing(NextList(p)) = "members" => Now(p) = "groups" /\ proc[p].todo = <<"groups", "members">>
         /\ Syncing(NextList(p)) \in GroupLists => Syncing(proc[p]) \in GroupLists
<1>1. /\ proc[p] \in Procs /\ proc \in [Processes -> Procs] /\ Fits(proc[p]) /\ proc[p].todo # <<>> /\ now \in Nat
      /\ Syncing(proc[p]) = Now(p)
  BY AtList
<1>2. NextList(p) \in Procs /\ NextList(p).pc \in {"fetch", "done"}
  BY <1>1, NextFacts
<1>3. /\ Fits(NextList(p)) /\ Syncing(NextList(p)) \in {"none", "members"}
      /\ Syncing(NextList(p)) = "members" => proc[p].todo = <<"groups", "members">>
  BY <1>1, NextFits
<1>4. Head(<<"groups", "members">>) = "groups"
  OBVIOUS
<1>5. NextList(p).todo = Tail(proc[p].todo)
  <2> DEFINE t == Tail(proc[p].todo)
  <2>1. NextList(p) = [proc[p] EXCEPT !.todo = t, !.resp = NoResp,
                                      !.pc = IF Len(proc[p].todo) > 1 THEN "fetch" ELSE "done"]
    BY DEF NextList
  <2> HIDE DEF t
  <2>2. NextList(p).todo = t
    BY <1>1, <2>1 DEF Procs
  <2> QED BY <2>2 DEF t
<1> QED BY <1>1, <1>2, <1>3, <1>4, <1>5 DEF Now, GroupLists
LEMMA KeepsSame ==
  ASSUME Base
  PROVE  /\ row \in [Lists -> 0..now] /\ saved \in [Lists -> 0..now] /\ listed \in BOOLEAN
         /\ stale \in SUBSET Lists /\ orphaned \in BOOLEAN
         /\ missed \in [skipped : 0..now, setBack : 0..now, emptied : 0..now]
         /\ bound \in [change : Nat, call : Nat, event : Nat]
         /\ now \in Nat /\ chg \in [Lists -> 0..now] /\ proc \in [Processes -> Procs]
  BY DEF Base, Typed, TypeDb, TypeHist, TypeServer, TypeProc

LEMMA BaseLock == ASSUME Base, NEW p \in Processes, Lock(p) PROVE Base' /\ Becomes(p, Onto(p, "fetch"))
<1>1. /\ proc[p].pc = "lock" /\ Becomes(p, Onto(p, "fetch"))
      /\ UNCHANGED <<server, db, queue, maker, call, bound, stale, orphaned, missed>>
      /\ LET m == Mutex(Head(proc[p].todo))
         IN  IF proc[p].locks THEN mutex[m] = "free" /\ mutex' = [mutex EXCEPT ![m] = p] ELSE mutex' = mutex
  BY DEF Lock
<1> DEFINE r == Onto(p, "fetch")
           m == Mutex(Head(proc[p].todo))
<1>2. /\ proc[p] \in Procs /\ proc \in [Processes -> Procs] /\ Fits(proc[p]) /\ proc[p].todo # <<>>
      /\ mutex \in [{"group", "relation"} -> Processes \cup {"free"}]
  BY <1>1 DEF Base, Typed, TypeProc, LockInv, Fits
<1>3. r \in Procs /\ r.pc = "fetch" /\ r.todo = proc[p].todo /\ r.locks = proc[p].locks /\ r.resp = proc[p].resp
  BY <1>2, OntoFacts DEF Places
<1> HIDE DEF r
<1>4. Fits(r)
  BY <1>2, <1>3 DEF Fits, Deleting, Answered
<1>5. Syncing(r) = Head(proc[p].todo) /\ Head(proc[p].todo) \in Lists
  <2>1. proc[p].todo \in Todos
    BY <1>2 DEF Procs
  <2> QED BY <1>2, <1>3, <2>1, TodoFacts DEF Syncing
<1>6. /\ proc'[p] = r /\ \A q \in Processes : q # p => proc'[q] = proc[q]
      /\ raced \subseteq raced' /\ raced' \subseteq raced \cup ({Syncing(r)} \ {"none"})
      /\ \A q \in Processes : q # p /\ Syncing(proc[q]) = Syncing(r) /\ Syncing(r) # "none"
            => Syncing(r) \in raced'
      /\ Syncing(r) \in raced' \ raced
            => \E q \in Processes : q # p /\ Syncing(proc[q]) = Syncing(r)
  BY <1>1, <1>2, BecomesFacts DEF r
<1>7. m \in {"group", "relation"} /\ (Syncing(r) \in GroupLists => m = "group" /\ proc[p].locks)
  BY <1>2, <1>5 DEF Mutex, GroupLists, Fits
<1> HIDE DEF m
<1>8. /\ mutex' \in [{"group", "relation"} -> Processes \cup {"free"}]
      /\ \A k \in {"group", "relation"} : mutex'[k] # mutex[k] => mutex'[k] = p /\ mutex[k] = "free"
      /\ Syncing(r) \in GroupLists => mutex["group"] = "free" /\ mutex'["group"] = p
  <2>1. CASE proc[p].locks
    BY <1>1, <1>2, <1>7, <2>1 DEF m
  <2>2. CASE ~proc[p].locks
    BY <1>1, <1>2, <1>7, <2>2
  <2> QED BY <2>1, <2>2
<1>9. \A q \in Processes : q # "free"
  BY DEF Processes, Pools
<1>10. LockInv'
  <2>1. \A q \in Processes : Fits(proc'[q])
    BY <1>4, <1>6 DEF Base, LockInv
  <2>2. \A q \in Processes : Syncing(proc'[q]) \in GroupLists => mutex'["group"] = q
    <3>1. ASSUME NEW q \in Processes, q # p, Syncing(proc'[q]) \in GroupLists PROVE mutex'["group"] = q
      <4>1. mutex["group"] = q
        BY <1>6, <3>1 DEF Base, LockInv
      <4> QED BY <1>8, <1>9, <4>1
    <3> QED BY <1>6, <1>8, <3>1
  <2>3. \A q \in Processes : \A k \in {"group", "relation"} : mutex'[k] = q => proc'[q].pc \notin {"idle", "lock"}
    BY <1>3, <1>6, <1>8 DEF Base, LockInv, At
  <2>4. ASSUME NEW q \in Processes, NEW s \in Processes,
               Syncing(proc'[q]) = Syncing(proc'[s]), Syncing(proc'[q]) \notin raced' \cup {"none"}
        PROVE  q = s
    <3>1. CASE q # p /\ s # p
      <4>1. proc'[q] = proc[q] /\ proc'[s] = proc[s] /\ Syncing(proc[q]) \notin raced \cup {"none"}
        BY <1>6, <2>4, <3>1
      <4> QED BY <2>4, <4>1 DEF Base, LockInv
    <3>2. CASE q = p
      BY <1>6, <2>4, <3>2
    <3>3. CASE s = p
      BY <1>6, <2>4, <3>3
    <3> QED BY <3>1, <3>2, <3>3
  <2>5. raced' \subseteq {"friends", "black"}
    <3>1. Syncing(r) \notin raced' \ raced \/ Syncing(r) \in {"friends", "black"}
      <4>1. SUFFICES ASSUME Syncing(r) \in raced' \ raced, Syncing(r) \in GroupLists PROVE FALSE
        BY <1>5 DEF Lists, GroupLists
      <4>2. PICK q \in Processes : Syncing(proc[q]) = Syncing(r)
        BY <1>6, <4>1
      <4> QED BY <1>8, <1>9, <4>1, <4>2 DEF Base, LockInv
    <3> QED BY <1>6, <3>1 DEF Base, LockInv
  <2> QED BY <2>1, <2>2, <2>3, <2>4, <2>5 DEF LockInv, At
<1>11. Base'
  <2>1. TypeServer' /\ ServerInv' /\ now' = now /\ \A e : PushOK(e) => PushOK(e)'
    BY <1>1, SameServer DEF Base, Typed
  <2>2. Resps' = Resps /\ Procs' = Procs /\ Entries' = Entries /\ Makers' = Makers
    BY <2>1, SameTypes
  <2>3. Queued' = Queued /\ queue' = queue
    BY <1>1 DEF Queued
  <2>4. QueueInv'
    BY <2>1, <2>3 DEF QueueInv, Base
  <2>5. TypeProc'
    <3>1. proc' \in [Processes -> Procs]
      BY <1>1, <1>2, <1>3, BecomesFacts DEF r
    <3> QED BY <1>1, <1>8, <2>1, <2>2, <3>1 DEF TypeProc, Base, Typed
  <2>6. TypeDb' /\ TypeHist'
    <3>1. raced' \subseteq Lists
      BY <1>10 DEF LockInv, Lists
    <3> QED BY <1>1, <2>1, <3>1 DEF TypeDb, TypeHist, Base, Typed, db
  <2>7. WorkerInv'
    <3>1. CASE p = "worker"
      <4>1. ~At("worker", {"idle"})
        BY <1>1, <3>1 DEF At
      <4> QED BY <1>3, <1>6, <2>3, <3>1, <4>1 DEF Base, WorkerInv
    <3>2. CASE p # "worker"
      BY <1>6, <2>3, <3>2 DEF Base, WorkerInv, At, Processes
    <3> QED BY <3>1, <3>2
  <2> QED BY <1>10, <2>1, <2>4, <2>5, <2>6, <2>7 DEF Base, Typed
<1> QED BY <1>1, <1>11 DEF r

LEMMA BaseFetch == ASSUME Base, NEW p \in Processes, Fetch(p) PROVE Base'
<1>1. /\ proc[p].pc = "fetch"
      /\ \/ Becomes(p, Onto(p, "done")) /\ call' = (IF p = "call" THEN NoCall ELSE call)
         \/ Becomes(p, NextList(p)) /\ call' = call
         \/ \E a : Given1(p, a) /\ Becomes(p, Given(p, a)) /\ call' = call
      /\ UNCHANGED <<server, db, mutex, queue, maker, bound, stale, orphaned, missed>>
  BY FetchFacts
<1>2. /\ Syncing(proc[p]) = Now(p) /\ Now(p) \in Lists /\ Syncing(proc[p]) # "none" /\ proc[p].todo # <<>>
  BY <1>1, AtList DEF Lists
<1>3. Keeps /\ Appended
  BY <1>1, KeepsSame DEF Keeps, Appended, db
<1>4. ASSUME NEW r \in Procs, Becomes(p, r), Fits(r), r.pc \notin {"idle", "lock"},
             r.todo \in {proc[p].todo, Tail(proc[p].todo)},
             Syncing(r) \in GroupLists => Syncing(proc[p]) \in GroupLists
      PROVE  Base'
  <2>1. Moves(p, r)
    BY <1>1, <1>3, <1>4 DEF Moves, db
  <2> QED BY <1>1, <1>2, <1>3, <1>4, <2>1, MoveBase
<1>5. CASE Becomes(p, Onto(p, "done"))
  <2>1. /\ Fits(Onto(p, "done")) /\ Syncing(Onto(p, "done")) = "none" /\ Onto(p, "done") \in Procs
        /\ Onto(p, "done").pc = "done" /\ Onto(p, "done").todo = proc[p].todo
    BY <1>2, OntoDone
  <2> QED BY <1>4, <1>5, <2>1 DEF GroupLists
<1>6. CASE Becomes(p, NextList(p))
  <2>1. /\ NextList(p) \in Procs /\ Fits(NextList(p)) /\ NextList(p).pc \in {"fetch", "done"}
        /\ NextList(p).todo = Tail(proc[p].todo)
        /\ Syncing(NextList(p)) \in GroupLists => Syncing(proc[p]) \in GroupLists
    BY <1>2, NextMoves
  <2> QED BY <1>4, <1>6, <2>1
<1>7. CASE \E a : Given1(p, a) /\ Becomes(p, Given(p, a))
  <2>1. PICK a : Given1(p, a) /\ Becomes(p, Given(p, a))
    BY <1>7
  <2>2. a \in Resps /\ (Now(p) = "black" => ~a.full) /\ (Now(p) # "members" => a.info = 0)
    BY <1>1, <2>1, Given1Facts
  <2>3. /\ Fits(Given(p, a)) /\ Syncing(Given(p, a)) = Now(p) /\ Given(p, a) \in Procs
        /\ Given(p, a).pc \in {"clear", "apply"} /\ Given(p, a).todo = proc[p].todo
    BY <1>1, <2>2, GivenFits
  <2> QED BY <1>2, <1>4, <2>1, <2>3
<1> QED BY <1>1, <1>5, <1>6, <1>7

-----------------------------------------------------------------------------
LEMMA SyncItemFacts ==
  ASSUME Base, UNCHANGED server, NEW l \in Lists, NEW new \in 0..now, SyncItem(l, new)
  PROVE  /\ row' \in [Lists -> 0..now] /\ row'[l] = new
         /\ \A k \in Lists \ {l, "members"} : row'[k] = row[k]
         /\ l # "members" => row'["members"] =
              IF l = "groups" /\ new = over /\ row[l] \notin {0, new} THEN 0 ELSE row["members"]
         /\ orphaned' = (IF l = "groups" /\ new # 0 THEN FALSE
                         ELSE orphaned \/ (l = "members" /\ row["groups"] = 0))
         /\ orphaned' \in BOOLEAN /\ stale' \in SUBSET Lists /\ Appended
         /\ IF Noticed(l, row[l], new)
            THEN queue' = Append(queue, NameEvent(l, new)) /\ stale' = stale \ {l}
            ELSE queue' = queue /\ stale' = stale
         /\ UNCHANGED <<saved, listed, conv>>
<1>1. /\ row' = [k \in Lists |->
                   IF k = l THEN new
                   ELSE IF k = "members" /\ l = "groups" /\ new = over /\ row[l] \notin {0, new} THEN 0
                   ELSE row[k]]
      /\ IF Noticed(l, row[l], new)
         THEN queue' = Append(queue, NameEvent(l, new)) /\ stale' = stale \ {l}
         ELSE queue' = queue /\ stale' = stale
      /\ orphaned' = (IF l = "groups" /\ new # 0 THEN FALSE
                      ELSE orphaned \/ (l = "members" /\ row["groups"] = 0))
      /\ UNCHANGED <<saved, listed, conv>>
  BY DEF SyncItem
<1>2. /\ row \in [Lists -> 0..now] /\ stale \in SUBSET Lists /\ orphaned \in BOOLEAN /\ now \in Nat
  BY KeepsSame
<1>3. /\ row' \in [Lists -> 0..now] /\ row'[l] = new
      /\ \A k \in Lists \ {l, "members"} : row'[k] = row[k]
      /\ l # "members" => row'["members"] =
              IF l = "groups" /\ new = over /\ row[l] \notin {0, new} THEN 0 ELSE row["members"]
  BY <1>1, <1>2 DEF Lists
<1>4. stale' \in SUBSET Lists
  BY <1>1, <1>2
<1>5. orphaned' \in BOOLEAN
  BY <1>1, <1>2
<1>6. Appended
  <2>1. CASE ~Noticed(l, row[l], new)
    BY <1>1, <2>1 DEF Appended
  <2>2. CASE Noticed(l, row[l], new)
    <3>1. l \in {"groups", "friends"} /\ new # 0
      BY <2>2 DEF Noticed, GroupNotice, FriendNotice
    <3>2. NoResp \in Resps /\ now' = now
      BY <1>2, NoRespType DEF server
    <3>3. NameEvent(l, new) = [kind |-> "name", todo |-> <<l>>, resp |-> NoResp, arg |-> new]
      BY DEF NameEvent, Entry
    <3>4. <<l>> \in Todos /\ <<l>> \in {<<"groups">>, <<"friends">>}
      BY <3>1 DEF Todos
    <3>5. NameEvent(l, new) \in Entries' /\ EntryShape(NameEvent(l, new)) /\ NameEvent(l, new).kind = "name"
      <4>1. Entries' = Entries
        BY <3>2, SameTypes
      <4>2. NameEvent(l, new) \in Entries
        BY <3>2, <3>3, <3>4 DEF Entries, Kinds
      <4> QED BY <3>1, <3>3, <3>4, <4>1, <4>2 DEF EntryShape
    <3> QED BY <1>1, <2>2, <3>5 DEF Appended
  <2> QED BY <2>1, <2>2
<1> QED BY <1>1, <1>3, <1>4, <1>5, <1>6

LEMMA AfterSyncMoves ==
  ASSUME Base, NEW p \in Processes, proc[p].pc \in {"apply", "extra", "del3"}
  PROVE  LET l == Now(p)
             r == AfterSync(p, l)
         IN  /\ l # "black" /\ proc[p].pc = "extra" => l = "members"
             /\ l = "black" => r = NextList(p)
             /\ l # "black" => r = Onto(p, IF proc[p].resp.info # 0 THEN "extra" ELSE "save")
             /\ l # "black" => /\ r.pc = (IF proc[p].resp.info # 0 THEN "extra" ELSE "save")
                               /\ r.todo = proc[p].todo /\ r.resp = proc[p].resp
             /\ r \in Procs /\ Fits(r) /\ r.pc \notin {"idle", "lock"}
             /\ r.todo \in {proc[p].todo, Tail(proc[p].todo)}
             /\ Syncing(r) \in GroupLists => Syncing(proc[p]) \in GroupLists
<1> DEFINE l == Now(p)
           pc == IF proc[p].resp.info # 0 THEN "extra" ELSE "save"
<1>1. /\ proc[p] \in Procs /\ proc \in [Processes -> Procs] /\ Fits(proc[p]) /\ proc[p].todo # <<>>
      /\ Syncing(proc[p]) = l /\ l \in Lists /\ Syncing(proc[p]) # "none"
  BY AtList DEF Answered, Lists
<1>2. AfterSync(p, l) = IF l = "black" THEN NextList(p) ELSE Onto(p, pc)
  BY DEF AfterSync
<1>3. CASE l = "black"
  <2>1. /\ NextList(p) \in Procs /\ Fits(NextList(p)) /\ NextList(p).pc \in {"fetch", "done"}
        /\ NextList(p).todo = Tail(proc[p].todo)
        /\ Syncing(NextList(p)) \in GroupLists => Syncing(proc[p]) \in GroupLists
    BY <1>1, NextMoves
  <2> QED BY <1>1, <1>2, <1>3, <2>1
<1>4. CASE l # "black"
  <2>1. /\ pc \in Places \ {"idle", "lock"} /\ pc \in Answered \cup {"fetch", "done"}
        /\ pc \notin Deleting /\ pc \notin {"clear", "fill"}
    BY DEF Places, Answered, Deleting
  <2>2. /\ pc = "extra" => Now(p) = "members" /\ proc[p].resp.info # 0
        /\ pc \in Deleting \cup {"apply", "extra"} => ~proc[p].resp.full
        /\ pc \in Answered /\ Now(p) # "members" => proc[p].resp.info = 0
    BY <1>1 DEF Fits, Now, Answered, Deleting
  <2> HIDE DEF pc
  <2>3. /\ Onto(p, pc) \in Procs /\ Onto(p, pc).pc = pc /\ Onto(p, pc).todo = proc[p].todo
        /\ Onto(p, pc).resp = proc[p].resp
    BY <1>1, <2>1, OntoFacts
  <2>4. Fits(Onto(p, pc)) /\ Syncing(Onto(p, pc)) \in {"none", Syncing(proc[p])}
    BY <1>1, <1>4, <2>1, <2>2, OntoFits
  <2>5. proc[p].pc = "extra" => l = "members"
    BY <1>1 DEF Fits, Now
  <2>6. "none" \notin GroupLists
    BY DEF GroupLists
  <2> QED BY <1>2, <1>4, <2>1, <2>3, <2>4, <2>5, <2>6 DEF pc
<1> QED BY <1>3, <1>4
(* Any step of p along its synchronisation of one list. *)
LEMMA OntoBase ==
  ASSUME Base, NEW p \in Processes, NEW pc \in Answered \cup {"done"}, Syncing(proc[p]) # "none",
         Becomes(p, Onto(p, pc)),
         pc \in Deleting => Now(p) = "groups",
         pc \in {"clear", "fill"} => proc[p].resp.full,
         pc \notin {"extra", "apply"}, pc \in Deleting => ~proc[p].resp.full,
         pc # "done" => Now(p) # "black" /\ proc[p].pc \in Answered,
         Keeps, Appended, UNCHANGED <<server, maker, conv, mutex>>, call' \in {call, NoCall}
  PROVE  /\ Base' /\ Onto(p, pc).pc = pc /\ Onto(p, pc).todo = proc[p].todo
         /\ Onto(p, pc).resp = proc[p].resp
<1>1. /\ proc[p] \in Procs /\ proc \in [Processes -> Procs] /\ Fits(proc[p]) /\ proc[p].todo # <<>>
      /\ Syncing(proc[p]) = Now(p) /\ Now(p) \in Lists
  BY AtList
<1>2. pc \in Places \ {"idle", "lock"} /\ pc # "extra"
  BY DEF Places, Answered
<1>3. /\ Onto(p, pc) \in Procs /\ Onto(p, pc).pc = pc /\ Onto(p, pc).todo = proc[p].todo
      /\ Onto(p, pc).resp = proc[p].resp
  BY <1>1, <1>2, OntoFacts
<1>4. pc \in Answered /\ Now(p) # "members" => proc[p].resp.info = 0
  BY <1>1 DEF Fits, Now, Answered
<1>5. pc \in Deleting \cup {"apply", "extra"} => ~proc[p].resp.full
  OBVIOUS
<1>6. Fits(Onto(p, pc)) /\ Syncing(Onto(p, pc)) \in {"none", Syncing(proc[p])}
  BY <1>1, <1>2, <1>4, <1>5, OntoFits DEF Answered
<1>7. Moves(p, Onto(p, pc))
  BY <1>2, <1>3, <1>6 DEF Moves, GroupLists
<1> QED BY <1>1, <1>3, <1>6, <1>7, MoveBase

LEMMA ApplyFacts ==
  ASSUME Base, NEW p \in Processes, Apply(p)
  PROVE  /\ proc[p].pc = "apply" /\ UNCHANGED <<server, mutex, maker, call, bound, missed>>
         /\ Now(p) \in Lists /\ proc[p].resp.item \in -1..now
         /\ \/ /\ Now(p) = "groups" /\ proc[p].resp.item = 0 /\ row["groups"] # 0
               /\ Becomes(p, Onto(p, "del1")) /\ UNCHANGED <<db, queue, stale, orphaned>>
            \/ \E new \in 0..now :
                 /\ new = (IF proc[p].resp.item = Same THEN row[Now(p)] ELSE proc[p].resp.item)
                 /\ Becomes(p, AfterSync(p, Now(p))) /\ SyncItem(Now(p), new)
                 /\ ~(Now(p) = "groups" /\ proc[p].resp.item = 0 /\ row["groups"] # 0)
<1> DEFINE l == Head(proc[p].todo)
           item == proc[p].resp.item
           new == IF item = Same THEN row[l] ELSE item
<1>1. /\ proc[p].pc = "apply" /\ UNCHANGED <<server, mutex, maker, call, bound, missed>>
      /\ IF l = "groups" /\ item = 0 /\ row[l] # 0
         THEN Becomes(p, Onto(p, "del1")) /\ UNCHANGED <<db, queue, stale, orphaned>>
         ELSE Becomes(p, AfterSync(p, l)) /\ SyncItem(l, new)
  <2> HIDE DEF l, item
  <2> QED BY DEF Apply, l, item
<1>2. l = Now(p) /\ l \in Lists /\ proc[p].resp \in Resps
  BY <1>1, AtList DEF Now, Answered
<1>3. item \in -1..now /\ now \in Nat /\ row[l] \in 0..now
  BY <1>2, KeepsSame DEF Resps
<1>4. new \in 0..now
  BY <1>3 DEF Same
<1> HIDE DEF new
<1>5. CASE l = "groups" /\ item = 0 /\ row[l] # 0
  BY <1>1, <1>2, <1>3, <1>5
<1>6. CASE ~(l = "groups" /\ item = 0 /\ row[l] # 0)
  <2>1. Becomes(p, AfterSync(p, l)) /\ SyncItem(l, new)
    BY <1>1, <1>6
  <2>2. new = IF proc[p].resp.item = Same THEN row[Now(p)] ELSE proc[p].resp.item
    BY <1>2 DEF new
  <2> HIDE DEF l
  <2>3. \E n \in 0..now :
          /\ n = (IF proc[p].resp.item = Same THEN row[Now(p)] ELSE proc[p].resp.item)
          /\ Becomes(p, AfterSync(p, Now(p))) /\ SyncItem(Now(p), n)
    BY <1>2, <1>4, <2>1, <2>2
  <2>4. ~(Now(p) = "groups" /\ proc[p].resp.item = 0 /\ row["groups"] # 0)
    BY <1>2, <1>6
  <2> QED BY <1>1, <1>2, <1>3, <2>3, <2>4
<1> QED BY <1>5, <1>6

LEMMA BaseApply == ASSUME Base, NEW p \in Processes, Apply(p) PROVE Base'
<1>1. /\ proc[p].pc = "apply" /\ UNCHANGED <<server, mutex, maker, call, bound, missed>>
      /\ Now(p) \in Lists /\ proc[p].resp.item \in -1..now
      /\ \/ /\ Now(p) = "groups" /\ proc[p].resp.item = 0 /\ row["groups"] # 0
            /\ Becomes(p, Onto(p, "del1")) /\ UNCHANGED <<db, queue, stale, orphaned>>
         \/ \E new \in 0..now :
              Becomes(p, AfterSync(p, Now(p))) /\ SyncItem(Now(p), new)
  BY ApplyFacts
<1>2. /\ Syncing(proc[p]) = Now(p) /\ Syncing(proc[p]) # "none" /\ proc[p].todo # <<>> /\ Fits(proc[p])
  BY <1>1, AtList DEF Lists, Answered
<1>3. CASE Now(p) = "groups" /\ Becomes(p, Onto(p, "del1")) /\ UNCHANGED <<db, queue, stale, orphaned>>
  <2>1. Keeps /\ Appended
    BY <1>1, <1>3, KeepsSame DEF Keeps, Appended, db
  <2>2. ~proc[p].resp.full
    BY <1>1, <1>2 DEF Fits, Deleting
  <2> QED BY <1>1, <1>2, <1>3, <2>1, <2>2, OntoBase DEF Answered, Deleting, db
<1>4. CASE \E new \in 0..now : Becomes(p, AfterSync(p, Now(p))) /\ SyncItem(Now(p), new)
  <2>1. PICK new \in 0..now : Becomes(p, AfterSync(p, Now(p))) /\ SyncItem(Now(p), new)
    BY <1>4
  <2>2. /\ row' \in [Lists -> 0..now] /\ orphaned' \in BOOLEAN /\ stale' \in SUBSET Lists /\ Appended
        /\ UNCHANGED <<saved, listed, conv>>
    BY <1>1, <2>1, SyncItemFacts
  <2>3. Keeps
    BY <1>1, <2>2, KeepsSame DEF Keeps
  <2>4. /\ AfterSync(p, Now(p)) \in Procs /\ Fits(AfterSync(p, Now(p))) /\ AfterSync(p, Now(p)).pc \notin {"idle", "lock"}
        /\ AfterSync(p, Now(p)).todo \in {proc[p].todo, Tail(proc[p].todo)}
        /\ Syncing(AfterSync(p, Now(p))) \in GroupLists => Syncing(proc[p]) \in GroupLists
    BY <1>1, AfterSyncMoves
  <2>5. Moves(p, AfterSync(p, Now(p)))
    BY <1>1, <2>1, <2>2, <2>4 DEF Moves
  <2> QED BY <1>1, <1>2, <2>3, <2>4, <2>5, MoveBase
<1> QED BY <1>1, <1>3, <1>4

LEMMA ExtraFacts ==
  ASSUME Base, NEW p \in Processes, Extra(p)
  PROVE  /\ proc[p].pc = "extra" /\ Now(p) = "members" /\ proc[p].resp.info \in 1..now /\ ~proc[p].resp.full
         /\ SyncItem("groups", proc[p].resp.info) /\ Becomes(p, Onto(p, "save"))
         /\ missed' = (IF row["groups"] = 0 \/ proc[p].resp.info < row["groups"]
                       THEN [missed EXCEPT !.setBack = chg["groups"]] ELSE missed)
         /\ UNCHANGED <<server, mutex, maker, call, bound>>
<1>1. proc[p].pc = "extra"
  BY DEF Extra
<1>2. Fits(proc[p]) /\ proc[p].resp \in Resps /\ now \in Nat
  BY <1>1, AtList DEF Answered
<1>3. Now(p) = "members" /\ proc[p].resp.info \in 1..now /\ ~proc[p].resp.full
  BY <1>1, <1>2 DEF Fits, Now, Resps, Deleting
<1> QED BY <1>3 DEF Extra

LEMMA MissedType ==
  ASSUME Base, NEW n \in 0..now
  PROVE  /\ [missed EXCEPT !.setBack = n] \in [skipped : 0..now, setBack : 0..now, emptied : 0..now]
         /\ [missed EXCEPT !.skipped = n] \in [skipped : 0..now, setBack : 0..now, emptied : 0..now]
         /\ [missed EXCEPT !.emptied = n] \in [skipped : 0..now, setBack : 0..now, emptied : 0..now]
  BY DEF Base, Typed, TypeHist

LEMMA BaseExtra == ASSUME Base, NEW p \in Processes, Extra(p) PROVE Base'
<1>1. /\ proc[p].pc = "extra" /\ Now(p) = "members" /\ proc[p].resp.info \in 0..now
      /\ SyncItem("groups", proc[p].resp.info) /\ Becomes(p, Onto(p, "save"))
      /\ missed' \in {[missed EXCEPT !.setBack = chg["groups"]], missed}
      /\ UNCHANGED <<server, mutex, maker, call, bound>>
  BY ExtraFacts
<1>2. /\ row' \in [Lists -> 0..now] /\ orphaned' \in BOOLEAN /\ stale' \in SUBSET Lists /\ Appended
      /\ UNCHANGED <<saved, listed, conv>>
  BY <1>1, SyncItemFacts DEF Lists
<1>3. Keeps
  <2>1. missed' \in [skipped : 0..now, setBack : 0..now, emptied : 0..now]
    BY <1>1, KeepsSame, MissedType DEF Lists
  <2> QED BY <1>1, <1>2, <2>1, KeepsSame DEF Keeps
<1>4. Syncing(proc[p]) # "none"
  BY <1>1, AtList DEF Answered, Lists
<1> QED BY <1>1, <1>2, <1>3, <1>4, OntoBase DEF Answered, Deleting

LEMMA DeleteFacts ==
  ASSUME Base, NEW p \in Processes, DeleteGroup(p)
  PROVE  /\ proc[p].pc \in Deleting /\ Now(p) = "groups" /\ ~proc[p].resp.full
         /\ proc[p].pc = "del1" => /\ row' = [row EXCEPT !["members"] = 0] /\ UNCHANGED saved
                                   /\ Becomes(p, Onto(p, "del2"))
         /\ proc[p].pc = "del2" => /\ saved' = [saved EXCEPT !["members"] = 0] /\ UNCHANGED row
                                   /\ Becomes(p, Onto(p, "del3"))
         /\ proc[p].pc = "del3" => /\ row' = [row EXCEPT !["groups"] = 0] /\ UNCHANGED saved
                                   /\ Becomes(p, Onto(p, "save"))
         /\ UNCHANGED <<server, listed, conv, mutex, queue, maker, call, bound, stale, orphaned, missed>>
<1>1. proc[p].pc \in Deleting
  BY DEF DeleteGroup, Deleting
<1>2. Fits(proc[p])
  BY <1>1, AtList DEF Answered, Deleting
<1>3. Now(p) = "groups" /\ ~proc[p].resp.full /\ proc[p].resp.info = 0
  BY <1>1, <1>2 DEF Fits, Now, Deleting, Answered
<1>4. AfterSync(p, "groups") = Onto(p, "save")
  BY <1>3 DEF AfterSync
<1> QED BY <1>1, <1>3, <1>4 DEF DeleteGroup, Deleted, Deleting

LEMMA BaseDelete == ASSUME Base, NEW p \in Processes, DeleteGroup(p) PROVE Base'
<1>1. /\ proc[p].pc \in Deleting /\ Now(p) = "groups" /\ ~proc[p].resp.full
      /\ \E k \in Lists : row' \in {row, [row EXCEPT ![k] = 0]}
      /\ \E k \in Lists : saved' \in {saved, [saved EXCEPT ![k] = 0]}
      /\ \E pc \in {"del2", "del3", "save"} : Becomes(p, Onto(p, pc))
      /\ UNCHANGED <<server, listed, conv, mutex, queue, maker, call, bound, stale, orphaned, missed>>
  BY DeleteFacts DEF Deleting, Lists
<1>2. Keeps /\ Appended
  BY <1>1, KeepsSame DEF Keeps, Appended
<1>3. Syncing(proc[p]) # "none"
  BY <1>1, AtList DEF Answered, Lists, Deleting
<1>4. PICK pc \in {"del2", "del3", "save"} : Becomes(p, Onto(p, pc))
  BY <1>1
<1> QED BY <1>1, <1>2, <1>3, <1>4, OntoBase DEF Answered, Deleting

LEMMA BaseClear == ASSUME Base, NEW p \in Processes, Clear(p) PROVE Base'
<1>1. /\ proc[p].pc = "clear" /\ row' = [row EXCEPT ![Now(p)] = 0] /\ Becomes(p, Onto(p, "fill"))
      /\ UNCHANGED <<server, saved, listed, conv, mutex, queue, maker, call, bound, stale, orphaned, missed>>
  BY DEF Clear, Now
<1>2. Now(p) \in Lists /\ Fits(proc[p]) /\ Syncing(proc[p]) # "none"
  BY <1>1, AtList DEF Answered, Lists
<1>3. proc[p].resp.full /\ Now(p) # "black"
  BY <1>1, <1>2 DEF Fits, Now, Answered
<1>4. Keeps /\ Appended
  BY <1>1, <1>2, KeepsSame DEF Keeps, Appended
<1> QED BY <1>1, <1>2, <1>3, <1>4, OntoBase DEF Answered, Deleting

LEMMA FillFacts ==
  ASSUME Base, NEW p \in Processes, Fill(p)
  PROVE  /\ proc[p].pc = "fill" /\ Now(p) \in Lists \ {"black"} /\ proc[p].resp.full /\ Item(Now(p)) \in 0..now
         /\ row' = [row EXCEPT ![Now(p)] = Item(Now(p))]
         /\ stale' = (IF conv[Now(p)] # 0 \/ NamePending(Now(p)) \/ \E w \in DOMAIN maker : maker[w].list = Now(p)
                      THEN stale \cup {Now(p)} ELSE stale)
         /\ orphaned' = (IF Now(p) = "groups"
                         THEN ~there["groups"] /\ (row["members"] # 0 \/ saved["members"] # 0)
                         ELSE orphaned \/ (Now(p) = "members" /\ row["groups"] = 0))
         /\ missed' = (IF Now(p) = "members" THEN [missed EXCEPT !.skipped = chg["groups"]] ELSE missed)
         /\ Becomes(p, Onto(p, "save"))
         /\ UNCHANGED <<server, saved, listed, conv, mutex, queue, maker, call, bound>>
<1>1. proc[p].pc = "fill"
  BY DEF Fill
<1>2. Now(p) \in Lists /\ Fits(proc[p])
  BY <1>1, AtList DEF Answered
<1>3. proc[p].resp.full /\ Now(p) # "black"
  BY <1>1, <1>2 DEF Fits, Now, Answered
<1>4. Item(Now(p)) \in 0..now
  BY <1>2, AnswerFacts DEF Base, Typed
<1> QED BY <1>2, <1>3, <1>4 DEF Fill, Now

LEMMA BaseFill == ASSUME Base, NEW p \in Processes, Fill(p) PROVE Base'
<1>1. /\ proc[p].pc = "fill" /\ Now(p) \in Lists \ {"black"} /\ proc[p].resp.full /\ Item(Now(p)) \in 0..now
      /\ row' = [row EXCEPT ![Now(p)] = Item(Now(p))]
      /\ stale' \in {stale, stale \cup {Now(p)}}
      /\ orphaned' = (IF Now(p) = "groups"
                      THEN ~there["groups"] /\ (row["members"] # 0 \/ saved["members"] # 0)
                      ELSE orphaned \/ (Now(p) = "members" /\ row["groups"] = 0))
      /\ missed' \in {[missed EXCEPT !.skipped = chg["groups"]], missed}
      /\ Becomes(p, Onto(p, "save"))
      /\ UNCHANGED <<server, saved, listed, conv, mutex, queue, maker, call, bound>>
  BY FillFacts
<1>2. Syncing(proc[p]) # "none"
  BY <1>1, AtList DEF Answered, Lists
<1>3. missed' \in [skipped : 0..now, setBack : 0..now, emptied : 0..now]
  BY <1>1, KeepsSame, MissedType DEF Lists
<1>4. orphaned' \in BOOLEAN
  BY <1>1, KeepsSame
<1>5. row' \in [Lists -> 0..now] /\ stale' \in SUBSET Lists
  BY <1>1, KeepsSame
<1>6. Keeps /\ Appended
  BY <1>1, <1>3, <1>4, <1>5, KeepsSame DEF Keeps, Appended
<1> QED BY <1>1, <1>2, <1>6, OntoBase DEF Answered, Deleting

-----------------------------------------------------------------------------
LEMMA SaveFacts ==
  ASSUME Base, NEW p \in Processes, Save(p)
  PROVE  /\ proc[p].pc = "save" /\ Now(p) \in Lists \ {"black"} /\ proc[p].resp.ver \in 0..now
         /\ saved' = [saved EXCEPT ![Now(p)] = proc[p].resp.ver] /\ listed' \in BOOLEAN
         /\ Becomes(p, NextList(p))
         /\ UNCHANGED <<server, row, conv, mutex, queue, maker, call, bound, stale, orphaned, missed>>
<1> DEFINE full == proc[p].resp.full
           item == proc[p].resp.item
           l == IF Syncing(proc[p]) # "groups" \/ (~full /\ item = Same) THEN listed
                ELSE IF full THEN there["groups"] ELSE item # 0
<1>1. proc[p].pc = "save" /\ listed' = l
  <2> HIDE DEF full, item
  <2> QED BY DEF Save, full, item
<1>2. Now(p) \in Lists /\ Fits(proc[p]) /\ proc[p].resp \in Resps
  BY <1>1, AtList DEF Answered
<1>3. Now(p) # "black"
  BY <1>1, <1>2 DEF Fits, Now, Answered
<1>4. l \in BOOLEAN
  <2>1. listed \in BOOLEAN /\ there["groups"] \in BOOLEAN
    BY DEF Base, Typed, TypeDb, TypeServer, Lists
  <2> HIDE DEF full, item
  <2> QED BY <2>1
<1>5. proc[p].resp.ver \in 0..now
  BY <1>2 DEF Resps
<1> HIDE DEF l
<1> QED BY <1>1, <1>2, <1>3, <1>4, <1>5 DEF Save, Now

LEMMA BaseSave == ASSUME Base, NEW p \in Processes, Save(p) PROVE Base'
<1>1. /\ proc[p].pc = "save" /\ Now(p) \in Lists \ {"black"} /\ proc[p].resp.ver \in 0..now
      /\ saved' = [saved EXCEPT ![Now(p)] = proc[p].resp.ver] /\ listed' \in BOOLEAN
      /\ Becomes(p, NextList(p))
      /\ UNCHANGED <<server, row, conv, mutex, queue, maker, call, bound, stale, orphaned, missed>>
  BY SaveFacts
<1>2. Syncing(proc[p]) # "none" /\ proc[p].todo # <<>>
  BY <1>1, AtList DEF Answered, Lists
<1>3. saved' \in [Lists -> 0..now]
  BY <1>1, KeepsSame
<1>4. Keeps /\ Appended
  BY <1>1, <1>3, KeepsSame DEF Keeps, Appended
<1>5. /\ NextList(p) \in Procs /\ Fits(NextList(p)) /\ NextList(p).pc \in {"fetch", "done"}
      /\ NextList(p).todo = Tail(proc[p].todo)
      /\ Syncing(NextList(p)) \in GroupLists => Syncing(proc[p]) \in GroupLists
  BY <1>2, NextMoves
<1>6. Moves(p, NextList(p))
  BY <1>1, <1>4, <1>5 DEF Moves
<1> QED BY <1>1, <1>2, <1>4, <1>5, <1>6, MoveBase

LEMMA FailsFacts ==
  ASSUME Base, NEW p \in Processes, SyncFails(p)
  PROVE  /\ Syncing(proc[p]) # "none"
         /\ bound' \in {bound, [bound EXCEPT !.event = @ - 1]} /\ (bound' # bound => bound.event > 0)
         /\ \/ Becomes(p, NextList(p)) /\ Dropped(p)
            \/ Becomes(p, Onto(p, "done"))
         /\ call' = (IF p = "call" THEN NoCall ELSE call)
         /\ orphaned' = (orphaned \/ (proc[p].pc = "fill" /\ Syncing(proc[p]) = "groups"))
         /\ missed' = (IF proc[p].pc = "del2" \/ (proc[p].pc = "fill" /\ Syncing(proc[p]) = "members")
                       THEN [missed EXCEPT !.emptied = chg["members"]] ELSE missed)
         /\ UNCHANGED <<server, db, mutex, queue, maker, stale>>
<1>1. Interrupted({p})
  BY DEF SyncFails
<1>2. /\ orphaned' = (orphaned \/ (proc[p].pc = "fill" /\ Syncing(proc[p]) = "groups"))
      /\ missed' = (IF proc[p].pc = "del2" \/ (proc[p].pc = "fill" /\ Syncing(proc[p]) = "members")
                       THEN [missed EXCEPT !.emptied = chg["members"]] ELSE missed)
  BY <1>1 DEF Interrupted
<1>3. /\ Syncing(proc[p]) # "none"
      /\ bound' \in {bound, [bound EXCEPT !.event = @ - 1]} /\ (bound' # bound => bound.event > 0)
  BY DEF SyncFails
<1>4. /\ \/ Becomes(p, NextList(p)) /\ Dropped(p)
         \/ Becomes(p, Onto(p, "done"))
      /\ call' = (IF p = "call" THEN NoCall ELSE call)
      /\ UNCHANGED <<server, db, mutex, queue, maker, stale>>
  BY DEF SyncFails
<1> QED BY <1>2, <1>3, <1>4

LEMMA BaseFails == ASSUME Base, NEW p \in Processes, SyncFails(p) PROVE Base'
<1>1. /\ Syncing(proc[p]) # "none"
      /\ bound' \in {bound, [bound EXCEPT !.event = @ - 1]} /\ (bound' # bound => bound.event > 0)
      /\ Becomes(p, NextList(p)) \/ Becomes(p, Onto(p, "done"))
      /\ call' \in {call, NoCall}
      /\ orphaned' = (orphaned \/ (proc[p].pc = "fill" /\ Syncing(proc[p]) = "groups"))
      /\ missed' \in {missed, [missed EXCEPT !.emptied = chg["members"]]}
      /\ UNCHANGED <<server, db, mutex, queue, maker, stale>>
  BY FailsFacts
<1>2. proc[p].todo # <<>>
  BY <1>1, AtList
<1>3. bound' \in [change : Nat, call : Nat, event : Nat]
  <2>1. CASE bound' = bound
    BY <2>1, KeepsSame
  <2>2. CASE bound' = [bound EXCEPT !.event = @ - 1] /\ bound.event > 0
    BY <2>2, KeepsSame
  <2> QED BY <1>1, <2>1, <2>2
<1>4. missed' \in [skipped : 0..now, setBack : 0..now, emptied : 0..now]
  BY <1>1, KeepsSame, MissedType DEF Lists
<1>5. orphaned' \in BOOLEAN
  BY <1>1, KeepsSame
<1>6. Keeps /\ Appended
  BY <1>1, <1>3, <1>4, <1>5, KeepsSame DEF Keeps, Appended, db
<1>7. CASE Becomes(p, NextList(p))
  <2>1. /\ NextList(p) \in Procs /\ Fits(NextList(p)) /\ NextList(p).pc \in {"fetch", "done"}
        /\ NextList(p).todo = Tail(proc[p].todo)
        /\ Syncing(NextList(p)) \in GroupLists => Syncing(proc[p]) \in GroupLists
    BY <1>1, NextMoves
  <2>2. Moves(p, NextList(p))
    BY <1>1, <1>6, <1>7, <2>1 DEF Moves, db
  <2> QED BY <1>1, <1>2, <1>6, <2>1, <2>2, MoveBase
<1>8. CASE Becomes(p, Onto(p, "done"))
  BY <1>1, <1>6, <1>8, OntoBase DEF Deleting, Answered, db
<1> QED BY <1>1, <1>7, <1>8

LEMMA BaseReturn == ASSUME Base, NEW p \in Processes, Return(p) PROVE Base'
<1>1. /\ proc[p].pc = "done" /\ Becomes(p, Idle)
      /\ mutex' = [m \in DOMAIN mutex |-> IF mutex[m] = p THEN "free" ELSE mutex[m]]
      /\ queue' = (IF p = "worker" THEN Tail(queue) ELSE queue)
      /\ call' = (IF p = "call" THEN NoCall ELSE call)
      /\ UNCHANGED <<server, db, maker, bound, stale, orphaned, missed>>
  BY DEF Return
<1>2. /\ proc \in [Processes -> Procs] /\ now \in Nat
      /\ mutex \in [{"group", "relation"} -> Processes \cup {"free"}] /\ queue \in Seq(Entries)
  BY DEF Base, Typed, TypeProc, TypeServer
<1>3. TypeServer' /\ ServerInv' /\ now' = now /\ UNCHANGED <<chg, ver, there>> /\ \A e : PushOK(e) => PushOK(e)'
  BY <1>1, SameServer DEF Base, Typed
<1>4. Resps' = Resps /\ Procs' = Procs /\ Entries' = Entries /\ Makers' = Makers
  BY <1>3, SameTypes
<1>5. /\ proc' = [proc EXCEPT ![p] = Idle] /\ proc'[p] = Idle /\ \A q \in Processes : q # p => proc'[q] = proc[q]
      /\ raced' = raced
  <2>1. raced \subseteq raced' /\ raced' \subseteq raced \cup ({Syncing(Idle)} \ {"none"})
    BY <1>1, <1>2, BecomesFacts
  <2>2. raced' = raced
    BY <2>1, IdleFacts
  <2> QED BY <1>1, <1>2, <2>2, BecomesFacts
<1>6. queue' \in Seq(Entries') /\ QueueInv'
  <2>1. CASE p = "worker"
    <3>1. queue # <<>>
      BY <1>1, <2>1 DEF Base, WorkerInv, At
    <3> QED BY <1>1, <1>2, <1>3, <2>1, <3>1, QueueTail DEF Base
  <2>2. CASE p # "worker"
    <3>1. queue' = queue /\ Queued' = Queued
      BY <1>1, <2>2 DEF Queued
    <3> QED BY <1>2, <1>3, <1>4, <3>1 DEF Base, QueueInv
  <2> QED BY <2>1, <2>2
<1>7. Idle \in Procs /\ Fits(Idle)
  <2>1. Fits(Idle)
    BY IdleFacts DEF Fits, Deleting, Answered
  <2> QED BY <1>2, <2>1, NoRespType
<1>8. /\ mutex' \in [{"group", "relation"} -> Processes \cup {"free"}]
      /\ \A m \in {"group", "relation"} : mutex'[m] = IF mutex[m] = p THEN "free" ELSE mutex[m]
  BY <1>1, <1>2
<1>9. \A q \in Processes : q # "free"
  BY DEF Processes, Pools
<1>10. LockInv'
  <2>1. \A q \in Processes : Fits(proc'[q])
    BY <1>5, <1>7 DEF Base, LockInv
  <2>2. ASSUME NEW q \in Processes, Syncing(proc'[q]) \in GroupLists PROVE mutex'["group"] = q
    <3>1. q # p
      BY <1>5, <2>2, IdleFacts DEF GroupLists
    <3>2. mutex["group"] = q
      BY <1>5, <2>2, <3>1 DEF Base, LockInv
    <3> QED BY <1>8, <3>1, <3>2
  <2>3. ASSUME NEW q \in Processes, NEW m \in {"group", "relation"}, mutex'[m] = q
        PROVE  proc'[q].pc \notin {"idle", "lock"}
    <3>1. mutex[m] = q /\ q # p
      BY <1>8, <1>9, <2>3
    <3> QED BY <1>5, <3>1 DEF Base, LockInv, At
  <2>4. ASSUME NEW q \in Processes, NEW s \in Processes,
               Syncing(proc'[q]) = Syncing(proc'[s]), Syncing(proc'[q]) \notin raced' \cup {"none"}
        PROVE  q = s
    <3>1. q # p /\ s # p
      BY <1>5, <2>4, IdleFacts
    <3>2. proc'[q] = proc[q] /\ proc'[s] = proc[s] /\ Syncing(proc[q]) \notin raced \cup {"none"}
      BY <1>5, <2>4, <3>1
    <3> QED BY <2>4, <3>2 DEF Base, LockInv
  <2>5. raced' \subseteq {"friends", "black"}
    BY <1>5 DEF Base, LockInv
  <2> QED BY <2>1, <2>2, <2>3, <2>4, <2>5 DEF LockInv, At
<1>11. TypeProc'
  <2>1. proc' \in [Processes -> Procs']
    BY <1>2, <1>4, <1>5, <1>7
  <2>2. call' \in [list : Lists \cup {"none", "query"}, change : 0..now, gone : BOOLEAN]
    <3>1. call \in [list : Lists \cup {"none", "query"}, change : 0..now, gone : BOOLEAN]
      BY DEF Base, Typed, TypeProc
    <3>2. NoCall \in [list : Lists \cup {"none", "query"}, change : 0..now, gone : BOOLEAN]
      BY <1>2 DEF NoCall
    <3> QED BY <1>1, <3>1, <3>2
  <2> QED BY <1>1, <1>3, <1>4, <1>6, <1>8, <2>1, <2>2 DEF Base, Typed, TypeProc
<1>12. TypeDb' /\ TypeHist'
  BY <1>1, <1>3, <1>5 DEF Base, Typed, TypeDb, TypeHist, db
<1>13. WorkerInv'
  <2>1. CASE p = "worker"
    BY <1>5, <2>1, IdleFacts DEF WorkerInv, At
  <2>2. CASE p # "worker"
    BY <1>1, <1>5, <2>2 DEF Base, WorkerInv, At, Processes
  <2> QED BY <2>1, <2>2
<1> QED BY <1>3, <1>6, <1>10, <1>11, <1>12, <1>13 DEF Base, Typed

-----------------------------------------------------------------------------
(* Processes that have begun to wait for their mutex. *)
Starts == \A q \in Processes :
  \/ proc'[q] = proc[q]
  \/ proc[q] = Idle /\ proc'[q].pc = "lock" /\ proc'[q].resp = NoResp

LEMMA LockStarts ==
  ASSUME LockInv, Starts, \A q \in Processes : Fits(proc'[q]), UNCHANGED <<mutex, raced>>
  PROVE  LockInv'
<1>1. \A q \in Processes : proc'[q] = proc[q] \/ Syncing(proc'[q]) = "none"
  BY DEF Starts, Syncing
<1>2. \A q \in Processes : proc[q] = Idle => At(q, {"idle", "lock"})
  BY IdleFacts DEF At
<1>3. \A q \in Processes : Syncing(proc'[q]) \in GroupLists => mutex'["group"] = q
  BY <1>1 DEF LockInv, GroupLists
<1>4. \A q \in Processes : \A m \in {"group", "relation"} : mutex'[m] = q => proc'[q].pc \notin {"idle", "lock"}
  BY <1>2 DEF LockInv, Starts, At
<1>5. ASSUME NEW q \in Processes, NEW s \in Processes,
             Syncing(proc'[q]) = Syncing(proc'[s]), Syncing(proc'[q]) \notin raced' \cup {"none"}
      PROVE  q = s
  <2>1. proc'[q] = proc[q] /\ proc'[s] = proc[s]
    BY <1>1, <1>5
  <2> QED BY <1>5, <2>1 DEF LockInv
<1>6. raced' \subseteq {"friends", "black"}
  BY DEF LockInv
<1> QED BY <1>3, <1>4, <1>5, <1>6 DEF LockInv, At

LEMMA BegunFits ==
  ASSUME now \in Nat, NEW t \in Todos \ {<<>>}, NEW b \in BOOLEAN, Head(t) \in GroupLists => b
  PROVE  Begun(t, b) \in Procs /\ Fits(Begun(t, b)) /\ Begun(t, b).pc = "lock" /\ Begun(t, b).resp = NoResp
         /\ Begun(t, b).todo = t /\ Syncing(Begun(t, b)) = "none"
<1>1. /\ Begun(t, b) \in Procs /\ Begun(t, b).pc = "lock" /\ Begun(t, b).todo = t
      /\ Begun(t, b).resp = NoResp /\ Begun(t, b).locks = b /\ Syncing(Begun(t, b)) = "none"
  BY BegunFacts
<1> QED BY <1>1 DEF Fits, Deleting, Answered

(* The steps that synchronise nothing. *)
CallType == [list : Lists \cup {"none", "query"}, change : 0..now, gone : BOOLEAN]
Bounds   == [change : Nat, call : Nat, event : Nat]
Calm ==
  /\ proc' \in [Processes -> Procs'] /\ Starts /\ \A q \in Processes : Fits(proc'[q])
  /\ UNCHANGED <<row, saved, listed, mutex, raced, orphaned, missed>>

(* Whatever happens at the server, its old notes stay true. *)
ServerGrows ==
  /\ TypeServer' /\ ServerInv' /\ now <= now' /\ \A e \in Entries : PushOK(e) => PushOK(e)'

LEMMA CalmBase ==
  ASSUME Base, Calm, ServerGrows, queue' \in Seq(Entries'), QueueInv', WorkerInv',
         conv' \in [Lists -> -1..now'],
         maker' \in [{"worker", "call"} -> Makers'], call' \in CallType',
         stale' \in SUBSET Lists, bound' \in Bounds
  PROVE  Base'
<1>1. now \in Nat /\ now' \in Nat /\ now <= now'
  BY DEF Base, Typed, TypeServer, ServerGrows
<1>2. 0..now \subseteq 0..now'
  BY <1>1
<1>3. TypeDb'
  BY <1>2 DEF Base, Typed, TypeDb, Calm
<1>4. TypeProc'
  BY DEF Base, Typed, TypeProc, Calm, CallType
<1>5. TypeHist'
  <2>1. missed \in [skipped : 0..now', setBack : 0..now', emptied : 0..now']
    BY <1>2 DEF Base, Typed, TypeHist
  <2> QED BY <2>1 DEF Base, Typed, TypeHist, Calm, Bounds
<1>6. LockInv'
  BY LockStarts DEF Calm, Base
<1> QED BY <1>3, <1>4, <1>5, <1>6 DEF Base, Typed, ServerGrows

LEMMA ServerStays == ASSUME Base, UNCHANGED server PROVE ServerGrows /\ now' = now /\ Entries' = Entries
<1>1. TypeServer' /\ ServerInv' /\ now' = now /\ now \in Nat /\ \A e : PushOK(e) => PushOK(e)'
  BY SameServer DEF Base, Typed
<1> QED BY <1>1, SameTypes DEF ServerGrows

LEMMA ServerChanges ==
  ASSUME Base, NEW op \in Changes, NEW l \in Lists, Changed(op, l) PROVE ServerGrows /\ Appended /\ now' = now + 1
<1>1. now' = now + 1 /\ TypeServer' /\ ServerInv' /\ now \in Nat
  BY ChangedServer DEF Base, Typed, TypeServer
<1>2. \A e \in Entries : PushOK(e) => PushOK(e)'
  BY PushOutlived DEF Base, Typed
<1>3. \E e \in Entries' : queue' = Append(queue, e) /\ EntryShape(e) /\ (e.kind = "push" => PushOK(e)')
  BY ChangedNote DEF Base, Typed
<1> QED BY <1>1, <1>2, <1>3 DEF ServerGrows, Appended

(* The types of what most of the steps leave alone. *)
LEMMA CalmSame ==
  ASSUME Base, ServerGrows
  PROVE  /\ now \in Nat /\ now' \in Nat /\ now <= now'
         /\ conv \in [Lists -> -1..now'] /\ maker \in [{"worker", "call"} -> Makers']
         /\ call \in CallType /\ CallType \subseteq CallType' /\ NoCall \in CallType' /\ Query \in CallType'
         /\ stale \in SUBSET Lists /\ bound \in Bounds
         /\ proc \in [Processes -> Procs] /\ proc \in [Processes -> Procs']
         /\ \A q \in Processes : Fits(proc[q])
<1>1. now \in Nat /\ now' \in Nat /\ now <= now'
  BY DEF Base, Typed, TypeServer, ServerGrows
<1>2. 0..now \subseteq 0..now' /\ -1..now \subseteq -1..now' /\ 0 \in 0..now'
  BY <1>1
<1>3. Procs \subseteq Procs' /\ Makers \subseteq Makers'
  BY <1>1, Grows
<1>4. conv \in [Lists -> -1..now]
  BY DEF Base, Typed, TypeDb
<1>5. call \in CallType /\ CallType \subseteq CallType' /\ NoCall \in CallType' /\ Query \in CallType'
  BY <1>2 DEF Base, Typed, TypeProc, CallType, NoCall, Query
<1>6. maker \in [{"worker", "call"} -> Makers] /\ proc \in [Processes -> Procs]
  BY DEF Base, Typed, TypeProc
<1>7. conv \in [Lists -> -1..now'] /\ maker \in [{"worker", "call"} -> Makers'] /\ proc \in [Processes -> Procs']
  BY <1>2, <1>3, <1>4, <1>6
<1> QED BY <1>1, <1>5, <1>6, <1>7 DEF Base, Typed, TypeHist, Bounds, LockInv

LEMMA CalmQueue ==
  ASSUME Base, ServerGrows, Appended, proc'["worker"] = proc["worker"]
  PROVE  queue' \in Seq(Entries') /\ QueueInv' /\ WorkerInv'
<1>1. now \in Nat /\ now' \in Nat /\ now <= now' /\ queue \in Seq(Entries)
  BY CalmSame DEF Base, Typed, TypeProc
<1>2. queue' \in Seq(Entries') /\ QueueInv' /\ (queue # <<>> => queue' # <<>> /\ queue'[1] = queue[1])
  BY <1>1, QueueAppended DEF Base, ServerGrows
<1> QED BY <1>2 DEF Base, WorkerInv, At

LEMMA CalmStill == ASSUME Base, ServerGrows, UNCHANGED <<db, mutex, proc, hist>> PROVE Calm
  BY CalmSame DEF Calm, Starts, db, hist

LEMMA CalmRemote ==
  ASSUME Base, NEW op \in Changes, NEW l \in Lists, RemoteChange(op, l) PROVE Base' /\ Calm
<1>1. /\ Changed(op, l) /\ bound' = [bound EXCEPT !.change = @ - 1] /\ bound.change > 0
      /\ UNCHANGED <<db, mutex, proc, maker, call, hist>>
  BY DEF RemoteChange, Changed
<1>2. ServerGrows /\ Appended
  BY <1>1, ServerChanges
<1>3. Calm
  BY <1>1, <1>2, CalmStill
<1>4. bound' \in Bounds
  BY <1>1, <1>2, CalmSame DEF Bounds
<1>5. queue' \in Seq(Entries') /\ QueueInv' /\ WorkerInv'
  BY <1>1, <1>2, CalmQueue
<1> QED BY <1>1, <1>2, <1>3, <1>4, <1>5, CalmBase, CalmSame DEF db, hist

LEMMA CalmCompact == ASSUME Base, NEW l \in Lists, Compact(l) PROVE Base' /\ Calm
<1>1. /\ floor' = [floor EXCEPT ![l] = ver[l]] /\ bound.event > 0 /\ bound' = [bound EXCEPT !.event = @ - 1]
      /\ UNCHANGED <<scope, now, there, chg, over, ver, db, mutex, proc, queue, maker, call, hist>>
  BY DEF Compact
<1>2. ServerGrows /\ Appended
  <2>1. \A e : PushOK(e) => PushOK(e)'
    BY <1>1, PushStays
  <2>2. TypeServer'
    BY <1>1 DEF Base, Typed, TypeServer
  <2>3. ServerInv'
    <3>1. \A k \in Lists : floor'[k] <= ver[k]
      <4>1. \A k \in Lists : floor'[k] = IF k = l THEN ver[l] ELSE floor[k]
        BY <1>1 DEF Base, Typed, TypeServer
      <4>2. \A k \in Lists : floor[k] <= ver[k] /\ ver[k] \in 0..now /\ now \in Nat
        BY DEF Base, ServerInv, Typed, TypeServer
      <4> QED BY <4>1, <4>2
    <3> QED BY <1>1, <3>1 DEF Base, ServerInv
  <2>4. now <= now'
    BY <1>1 DEF Base, Typed, TypeServer
  <2> QED BY <1>1, <2>1, <2>2, <2>3, <2>4 DEF ServerGrows, Appended
<1>3. Calm
  BY <1>1, <1>2, CalmStill
<1>4. bound' \in Bounds
  BY <1>1, <1>2, CalmSame DEF Bounds
<1>5. queue' \in Seq(Entries') /\ QueueInv' /\ WorkerInv'
  BY <1>1, <1>2, CalmQueue
<1> QED BY <1>1, <1>2, <1>3, <1>4, <1>5, CalmBase, CalmSame DEF db, hist
-----------------------------------------------------------------------------
(* An API call asks and begins to wait. *)
LEMMA CallBegins ==
  ASSUME Base, ServerGrows, NEW t \in Todos \ {<<>>}, NEW c, proc["call"] = Idle, Becomes("call", Begun(t, TRUE)),
         UNCHANGED <<db, mutex, orphaned, missed>>
  PROVE  Calm /\ proc'["worker"] = proc["worker"] /\ proc'["call"] = Begun(t, TRUE)
<1>1. /\ proc \in [Processes -> Procs] /\ proc \in [Processes -> Procs'] /\ now \in Nat /\ now' \in Nat /\ now <= now'
      /\ \A q \in Processes : Fits(proc[q])
  BY CalmSame
<1>2. /\ Begun(t, TRUE) \in Procs /\ Fits(Begun(t, TRUE)) /\ Begun(t, TRUE).pc = "lock" /\ Begun(t, TRUE).resp = NoResp
      /\ Syncing(Begun(t, TRUE)) = "none"
  BY <1>1, BegunFits
<1>3. "call" \in Processes /\ "worker" \in Processes
  BY DEF Processes
<1>4. /\ proc' = [proc EXCEPT !["call"] = Begun(t, TRUE)] /\ proc'["call"] = Begun(t, TRUE)
      /\ \A q \in Processes : q # "call" => proc'[q] = proc[q]
      /\ raced \subseteq raced' /\ raced' \subseteq raced \cup ({Syncing(Begun(t, TRUE))} \ {"none"})
  BY <1>1, <1>3, BecomesFacts
<1>5. raced' = raced
  BY <1>2, <1>4
<1>6. Begun(t, TRUE) \in Procs'
  BY <1>1, <1>2, Grows
<1>7. proc' \in [Processes -> Procs']
  BY <1>1, <1>4, <1>6
<1>8. Starts /\ \A q \in Processes : Fits(proc'[q])
  BY <1>1, <1>2, <1>4 DEF Starts
<1> QED BY <1>3, <1>4, <1>5, <1>7, <1>8 DEF Calm, db

(* What a call remembers of its change. *)
AsksFor(op, l, t) ==
  [list |-> l, change |-> now', gone |-> op \in {"leave", "unset"}]

LEMMA AsksFacts ==
  ASSUME Base, NEW op \in Changes, NEW l \in Lists, NEW t \in Todos, Asks(op, l, t)
  PROVE  /\ Changed(op, l) /\ ServerGrows /\ Appended /\ now' = now + 1
         /\ l \in GroupLists /\ op # "join" => row["groups"] # 0
         /\ proc["call"] = Idle
         /\ IF t = <<>> THEN UNCHANGED <<proc, call>>
            ELSE proc' = [proc EXCEPT !["call"] = Begun(t, TRUE)] /\ call' = AsksFor(op, l, t)
         /\ Calm /\ bound' \in Bounds /\ proc'["worker"] = proc["worker"]
         /\ UNCHANGED <<db, mutex, maker, stale, orphaned, missed>>
<1>1. /\ Changed(op, l) /\ (l \in {"groups", "members"} /\ op # "join" => row["groups"] # 0)
      /\ bound.change > 0
      /\ Calling(t, [list |-> l, change |-> now', gone |-> op \in {"leave", "unset"}])
      /\ bound' = [bound EXCEPT !.change = @ - 1, !.call = @ - 1]
  BY DEF Asks, Changed
<1>2. /\ proc["call"] = Idle /\ bound.call > 0
      /\ IF t = <<>> THEN UNCHANGED <<proc, call, raced>>
         ELSE Becomes("call", Begun(t, TRUE)) /\ call' = AsksFor(op, l, t)
      /\ UNCHANGED <<db, mutex, maker, stale, orphaned, missed>>
  BY <1>1 DEF Calling, AsksFor
<1>3. ServerGrows /\ Appended /\ now' = now + 1
  BY <1>1, ServerChanges
<1>4. bound' \in Bounds
  <2>1. bound \in Bounds /\ bound.call > 0 /\ bound.change > 0
    BY <1>1, <1>2, <1>3, CalmSame
  <2>2. bound' = [change |-> bound.change - 1, call |-> bound.call - 1, event |-> bound.event]
    BY <1>1, <2>1 DEF Bounds
  <2>3. bound.change - 1 \in Nat /\ bound.call - 1 \in Nat /\ bound.event \in Nat
    BY <2>1 DEF Bounds
  <2> QED BY <2>2, <2>3 DEF Bounds
<1>5. CASE t = <<>>
  <2>1. Calm
    BY <1>2, <1>3, <1>5, CalmStill DEF hist
  <2> QED BY <1>1, <1>2, <1>3, <1>4, <1>5, <2>1 DEF GroupLists
<1>6. CASE t # <<>>
  <2>1. Calm /\ proc'["worker"] = proc["worker"] /\ proc' = [proc EXCEPT !["call"] = Begun(t, TRUE)]
    BY <1>2, <1>3, <1>6, CallBegins DEF Becomes
  <2> QED BY <1>1, <1>2, <1>3, <1>4, <1>6, <2>1 DEF GroupLists
<1> QED BY <1>5, <1>6

LEMMA CalmAsks ==
  ASSUME Base, NEW op \in Changes, NEW l \in Lists, NEW t \in Todos, Asks(op, l, t) PROVE Base' /\ Calm
<1>1. /\ ServerGrows /\ Appended /\ now' = now + 1
      /\ IF t = <<>> THEN UNCHANGED <<proc, call>> ELSE call' = AsksFor(op, l, t)
      /\ Calm /\ bound' \in Bounds /\ proc'["worker"] = proc["worker"]
      /\ UNCHANGED <<db, mutex, maker, stale, orphaned, missed>>
  BY AsksFacts
<1>2. queue' \in Seq(Entries') /\ QueueInv' /\ WorkerInv'
  BY <1>1, CalmQueue
<1>3. call' \in CallType'
  <2>1. now' \in 0..now'
    BY <1>1, CalmSame
  <2>2. AsksFor(op, l, t) \in CallType'
    BY <2>1 DEF AsksFor, CallType
  <2> QED BY <1>1, <2>2, CalmSame
<1> QED BY <1>1, <1>2, <1>3, CalmBase, CalmSame DEF db

LEMMA CalmQuery ==
  ASSUME Base, GetGroupMemberList
  PROVE  /\ Base' /\ Calm /\ proc["call"] = Idle /\ call' = Query
         /\ proc' = [proc EXCEPT !["call"] = Begun(<<"members">>, TRUE)]
         /\ UNCHANGED <<server, queue, db, mutex, maker, stale>>
<1>1. /\ proc["call"] = Idle /\ bound.call > 0 /\ bound' = [bound EXCEPT !.call = @ - 1]
      /\ Becomes("call", Begun(<<"members">>, TRUE)) /\ call' = Query
      /\ UNCHANGED <<server, queue, db, mutex, maker, stale, orphaned, missed>>
  BY DEF GetGroupMemberList, Calling
<1>2. ServerGrows
  BY <1>1, ServerStays
<1>3. <<"members">> \in Todos \ {<<>>}
  BY DEF Todos
<1>4. Calm /\ proc'["worker"] = proc["worker"] /\ proc' = [proc EXCEPT !["call"] = Begun(<<"members">>, TRUE)]
  BY <1>1, <1>2, <1>3, CallBegins DEF Becomes
<1>5. Appended
  BY <1>1 DEF Appended
<1>6. queue' \in Seq(Entries') /\ QueueInv' /\ WorkerInv'
  BY <1>2, <1>4, <1>5, CalmQueue
<1>7. bound' \in Bounds
  BY <1>1, <1>2, CalmSame DEF Bounds
<1>8. call' \in CallType'
  BY <1>1, <1>2, CalmSame
<1> QED BY <1>1, <1>2, <1>4, <1>6, <1>7, <1>8, CalmBase, CalmSame DEF db

LEMMA CalmDo ==
  ASSUME Base, DoNotification
  PROVE  Base' /\ Calm /\ UNCHANGED <<server, db, mutex, queue, maker, call, stale>>
         /\ \A q \in Processes : q # "worker" => proc'[q] = proc[q]
<1>1. /\ proc["worker"] = Idle /\ queue # <<>> /\ queue[1].kind \in {"sync", "push"}
      /\ Becomes("worker", Begun(queue[1].todo, TRUE))
      /\ UNCHANGED <<server, db, mutex, queue, maker, call, bound, stale, orphaned, missed>>
  BY DEF DoNotification, Takes
<1> DEFINE t == queue[1].todo
<1>2. ServerGrows /\ now' = now
  BY <1>1, ServerStays
<1>3. queue[1] \in Entries /\ queue[1] \in Queued
  <2>1. queue \in Seq(Entries)
    BY DEF Base, Typed, TypeProc
  <2>2. 1 \in 1..Len(queue)
    BY <1>1, <2>1
  <2> QED BY <2>1, <2>2 DEF Queued
<1>4. t \in Todos \ {<<>>} /\ (queue[1].kind = "push" => t = <<"members">>)
  <2>1. EntryShape(queue[1]) /\ t \in Todos
    BY <1>3 DEF Base, QueueInv, Entries
  <2> QED BY <1>1, <2>1 DEF EntryShape
<1> HIDE DEF t
<1>5. /\ proc \in [Processes -> Procs] /\ proc \in [Processes -> Procs'] /\ now \in Nat
      /\ \A q \in Processes : Fits(proc[q])
  BY <1>2, CalmSame
<1>6. /\ Begun(t, TRUE) \in Procs /\ Fits(Begun(t, TRUE)) /\ Begun(t, TRUE).pc = "lock" /\ Begun(t, TRUE).resp = NoResp
      /\ Begun(t, TRUE).todo = t /\ Syncing(Begun(t, TRUE)) = "none"
  BY <1>4, <1>5, BegunFits
<1>7. "worker" \in Processes
  BY DEF Processes
<1>8. /\ proc' = [proc EXCEPT !["worker"] = Begun(t, TRUE)] /\ proc'["worker"] = Begun(t, TRUE)
      /\ \A q \in Processes : q # "worker" => proc'[q] = proc[q]
      /\ raced \subseteq raced' /\ raced' \subseteq raced \cup ({Syncing(Begun(t, TRUE))} \ {"none"})
  BY <1>1, <1>5, <1>7, BecomesFacts DEF t
<1>9. Begun(t, TRUE) \in Procs'
  BY <1>2, <1>6, SameTypes
<1>10. Calm
  BY <1>1, <1>5, <1>6, <1>8, <1>9 DEF Calm, Starts, db
<1>11. Queued' = Queued /\ queue' \in Seq(Entries')
  BY <1>1, <1>2, SameTypes DEF Queued, Base, Typed, TypeProc
<1>12. QueueInv'
  <2>1. Queued \subseteq Entries
    BY DEF Queued, Base, Typed, TypeProc
  <2> QED BY <1>2, <1>11, <2>1 DEF QueueInv, Base, ServerGrows
<1>13. WorkerInv'
  BY <1>1, <1>4, <1>6, <1>8 DEF WorkerInv
<1> QED BY <1>1, <1>2, <1>8, <1>10, <1>11, <1>12, <1>13, CalmBase, CalmSame DEF db

-----------------------------------------------------------------------------
LEMMA SpawnCalm ==
  ASSUME Base, UNCHANGED server, NEW S \in SUBSET Pools, NEW locks \in SUBSET Pools, Spawns(S, locks),
         "groups" \in S => "groups" \in locks, UNCHANGED <<db, mutex, orphaned, missed>>
  PROVE  /\ Calm /\ proc'["worker"] = proc["worker"] /\ proc'["call"] = proc["call"]
<1>1. ServerGrows /\ now' = now
  BY ServerStays
<1>2. /\ proc \in [Processes -> Procs] /\ proc \in [Processes -> Procs'] /\ now \in Nat
      /\ \A q \in Processes : Fits(proc[q])
  BY <1>1, CalmSame
<1>3. /\ \A q \in Processes : proc'[q] = IF q \in S /\ q \in scope /\ proc[q] = Idle
                                         THEN Begun(PoolTodo(q), q \in locks) ELSE proc[q]
      /\ proc' = [q \in Processes |-> proc'[q]] /\ raced' = raced
  BY DEF Spawns
<1>4. ASSUME NEW q \in S, q \in scope
      PROVE  /\ Begun(PoolTodo(q), q \in locks) \in Procs /\ Fits(Begun(PoolTodo(q), q \in locks))
             /\ Begun(PoolTodo(q), q \in locks).pc = "lock" /\ Begun(PoolTodo(q), q \in locks).resp = NoResp
  <2>1. q \in Pools
    OBVIOUS
  <2>2. PoolTodo(q) \in Todos \ {<<>>}
    BY <2>1 DEF PoolTodo, Todos, Pools
  <2>3. Head(PoolTodo(q)) = q
    BY DEF PoolTodo
  <2>4. Head(PoolTodo(q)) \in GroupLists => q \in locks
    BY <2>1, <2>3 DEF Pools, GroupLists
  <2>5. (q \in locks) \in BOOLEAN
    OBVIOUS
  <2> QED BY <1>2, <2>2, <2>4, <2>5, BegunFits
<1>5. ASSUME NEW q \in Processes
      PROVE  /\ proc'[q] \in Procs /\ Fits(proc'[q])
             /\ proc'[q] = proc[q] \/ (proc[q] = Idle /\ proc'[q].pc = "lock" /\ proc'[q].resp = NoResp)
  <2>1. CASE q \in S /\ q \in scope /\ proc[q] = Idle
    BY <1>3, <1>4, <2>1
  <2>2. CASE ~(q \in S /\ q \in scope /\ proc[q] = Idle)
    BY <1>2, <1>3, <2>2
  <2> QED BY <2>1, <2>2
<1>6. Procs' = Procs
  BY <1>1, SameTypes
<1>7. proc' \in [Processes -> Procs']
  BY <1>3, <1>5, <1>6
<1>8. {"worker", "call"} \subseteq Processes /\ "worker" \notin Pools /\ "call" \notin Pools
  BY DEF Processes, Pools
<1> QED BY <1>3, <1>5, <1>7, <1>8 DEF Calm, Starts, db

(* The worker, idle, takes its entry. *)
LEMMA TakenBase ==
  ASSUME Base, UNCHANGED <<server, maker, call, bound>>, Calm, proc'["worker"] = Idle, queue # <<>>,
         queue' = Tail(queue), stale' = stale, conv' \in [Lists -> -1..now]
  PROVE  Base'
<1>1. ServerGrows /\ now' = now
  BY ServerStays
<1>2. queue' \in Seq(Entries') /\ QueueInv'
  BY <1>1, QueueTail DEF Base, Typed, TypeProc, server
<1>3. WorkerInv'
  BY IdleFacts DEF WorkerInv, At
<1> QED BY <1>1, <1>2, <1>3, CalmBase, CalmSame

LEMMA CalmLoginSync ==
  ASSUME Base, LoginSync
  PROVE  /\ Base' /\ Calm /\ UNCHANGED <<server, db, mutex, maker, call, stale>>
         /\ queue # <<>> /\ queue[1].kind = "login"
         /\ queue' = [queue EXCEPT ![1] = Entry("wait", <<>>, NoResp, 0)]
         /\ proc'["call"] = proc["call"]
<1>1. /\ proc["worker"] = Idle /\ queue # <<>> /\ queue[1].kind = "login"
      /\ Spawns({"groups", "friends"}, {"groups"})
      /\ queue' = [queue EXCEPT ![1] = Entry("wait", <<>>, NoResp, 0)]
      /\ UNCHANGED <<server, db, mutex, maker, call, bound, stale, orphaned, missed>>
  BY DEF LoginSync, Takes
<1>2. Calm /\ proc'["worker"] = Idle /\ proc'["call"] = proc["call"]
  BY <1>1, SpawnCalm DEF Pools
<1>3. ServerGrows /\ now' = now /\ Entries' = Entries
  BY <1>1, ServerStays
<1>4. /\ queue \in Seq(Entries) /\ now \in Nat /\ QueueInv
  BY CalmSame DEF Base, Typed, TypeProc, TypeServer
<1> DEFINE w == Entry("wait", <<>>, NoResp, 0)
<1>5. w \in Entries /\ w.kind = "wait" /\ EntryShape(w)
  <2>1. NoResp \in Resps
    BY <1>4, NoRespType
  <2>2. w = [kind |-> "wait", todo |-> <<>>, resp |-> NoResp, arg |-> 0]
    BY DEF Entry
  <2>3. w \in Entries /\ w.kind = "wait"
    BY <1>4, <2>1, <2>2 DEF Entries, Kinds, Todos
  <2> QED BY <2>3 DEF EntryShape
<1> HIDE DEF w
<1>6. /\ queue' \in Seq(Entries) /\ Len(queue') = Len(queue) /\ queue'[1] = w
      /\ \A k \in 1..Len(queue) : k # 1 => queue'[k] = queue[k]
  <2>1. 1 \in 1..Len(queue) /\ queue' = [queue EXCEPT ![1] = w]
    BY <1>1, <1>4 DEF w
  <2> QED BY <1>4, <1>5, <2>1
<1>7. Queued' \subseteq Queued \cup {w} /\ Queued \subseteq Entries
  BY <1>4, <1>6 DEF Queued
<1>8. QueueInv'
  BY <1>3, <1>4, <1>5, <1>7 DEF QueueInv, ServerGrows
<1>9. WorkerInv'
  BY <1>2, IdleFacts DEF WorkerInv, At
<1>10. Base'
  BY <1>1, <1>2, <1>3, <1>6, <1>8, <1>9, CalmBase, CalmSame DEF db
<1> QED BY <1>1, <1>2, <1>10

LEMMA CalmLoginSynced ==
  ASSUME Base, LoginSynced
  PROVE  /\ Base' /\ Calm /\ UNCHANGED <<server, db, mutex, maker, call, stale>>
         /\ queue # <<>> /\ queue[1].kind = "wait" /\ queue' = Tail(queue)
         /\ proc'["call"] = proc["call"]
<1>1. /\ proc["worker"] = Idle /\ queue # <<>> /\ queue[1].kind = "wait"
      /\ Spawns({"black"}, {}) /\ queue' = Tail(queue)
      /\ UNCHANGED <<server, db, mutex, maker, call, bound, stale, orphaned, missed>>
  BY DEF LoginSynced, Takes
<1>2. Calm /\ proc'["worker"] = Idle /\ proc'["call"] = proc["call"]
  BY <1>1, SpawnCalm DEF Pools
<1>3. conv' \in [Lists -> -1..now]
  BY <1>1 DEF Base, Typed, TypeDb, db
<1> QED BY <1>1, <1>2, <1>3, TakenBase

LEMMA CalmSyncData ==
  ASSUME Base, SyncData
  PROVE  /\ Base' /\ Calm /\ UNCHANGED <<server, db, mutex, maker, call, stale>>
         /\ queue # <<>> /\ queue[1].kind = "begin" /\ queue' = Tail(queue)
         /\ proc'["call"] = proc["call"]
<1>1. /\ proc["worker"] = Idle /\ queue # <<>> /\ queue[1].kind = "begin"
      /\ Spawns(Pools, {"groups", "friends"}) /\ queue' = Tail(queue)
      /\ UNCHANGED <<server, db, mutex, maker, call, bound, stale, orphaned, missed>>
  BY DEF SyncData, Takes
<1>2. Calm /\ proc'["worker"] = Idle /\ proc'["call"] = proc["call"]
  BY <1>1, SpawnCalm DEF Pools
<1>3. conv' \in [Lists -> -1..now]
  BY <1>1 DEF Base, Typed, TypeDb, db
<1> QED BY <1>1, <1>2, <1>3, TakenBase

LEMMA CalmUpdateName ==
  ASSUME Base, UpdateName
  PROVE  /\ Base' /\ Calm /\ UNCHANGED <<server, row, mutex, proc, maker, call, hist>>
         /\ maker["worker"] = NoConv
         /\ queue # <<>> /\ queue[1].kind = "name" /\ queue' = Tail(queue)
         /\ \E l \in {"groups", "friends"} :
              /\ queue[1].todo = <<l>>
              /\ conv' = IF conv[l] # 0 THEN [conv EXCEPT ![l] = queue[1].arg] ELSE conv
<1> DEFINE l == queue[1].todo[1]
<1>1. /\ proc["worker"] = Idle /\ queue # <<>> /\ queue[1].kind = "name" /\ queue' = Tail(queue)
      /\ maker["worker"] = NoConv
      /\ conv' = IF conv[l] # 0 THEN [conv EXCEPT ![l] = queue[1].arg] ELSE conv
      /\ UNCHANGED <<server, row, saved, listed, mutex, proc, maker, call, bound, hist>>
  BY DEF UpdateName, Takes
<1>2. ServerGrows /\ now' = now
  BY <1>1, ServerStays
<1>3. queue[1] \in Entries /\ EntryShape(queue[1])
  <2>1. queue \in Seq(Entries)
    BY DEF Base, Typed, TypeProc
  <2>2. 1 \in 1..Len(queue)
    BY <1>1, <2>1
  <2> QED BY <2>1, <2>2 DEF Queued, Base, QueueInv
<1>4. queue[1].arg \in 0..now /\ queue[1].todo \in {<<"groups">>, <<"friends">>}
  BY <1>1, <1>3 DEF Entries, EntryShape
<1>5. l \in {"groups", "friends"} /\ queue[1].todo = <<l>>
  BY <1>4
<1> HIDE DEF l
<1>6. conv' \in [Lists -> -1..now]
  <2>1. conv \in [Lists -> -1..now] /\ now \in Nat
    BY DEF Base, Typed, TypeDb, TypeServer
  <2>2. queue[1].arg \in -1..now
    BY <1>4, <2>1
  <2> QED BY <1>1, <2>1, <2>2
<1>7. Calm
  BY <1>1, <1>2, CalmSame DEF Calm, Starts, hist
<1>8. Base'
  BY <1>1, <1>6, <1>7, TakenBase DEF hist
<1> QED BY <1>1, <1>5, <1>7, <1>8

LEMMA CalmReadName ==
  ASSUME Base, NEW w \in {"worker", "call"}, NEW l \in Lists, ReadName(w, l), bound' \in Bounds
  PROVE  /\ Base' /\ Calm /\ l \in {"groups", "friends"} /\ conv[l] = 0
         /\ maker' = [maker EXCEPT ![w] = [list |-> l, name |-> IF row[l] # 0 THEN row[l] ELSE Stranger]]
         /\ UNCHANGED <<server, db, mutex, proc, queue, call, hist>>
<1> DEFINE n == IF row[l] # 0 THEN row[l] ELSE Stranger
<1>1. /\ l \in {"groups", "friends"} /\ conv[l] = 0 /\ maker' = [maker EXCEPT ![w] = [list |-> l, name |-> n]]
      /\ UNCHANGED <<server, db, mutex, proc, queue, call, hist>>
  BY DEF ReadName
<1>2. ServerGrows /\ now' = now /\ Entries' = Entries
  BY <1>1, ServerStays
<1>3. row \in [Lists -> 0..now] /\ now \in Nat /\ maker \in [{"worker", "call"} -> Makers]
  BY DEF Base, Typed, TypeDb, TypeServer, TypeProc
<1>4. n \in -1..now
  BY <1>3 DEF Stranger
<1> HIDE DEF n
<1>5. maker' \in [{"worker", "call"} -> Makers']
  BY <1>1, <1>2, <1>3, <1>4 DEF Makers
<1>6. Calm /\ Appended
  BY <1>1, <1>2, CalmStill DEF Appended
<1>7. queue' \in Seq(Entries') /\ QueueInv' /\ WorkerInv'
  BY <1>1, <1>2, <1>6, CalmQueue
<1>8. Base'
  BY <1>1, <1>2, <1>5, <1>6, <1>7, CalmBase, CalmSame DEF db, hist
<1> QED BY <1>1, <1>6, <1>8 DEF n

LEMMA CalmInsert ==
  ASSUME Base, NEW w \in {"worker", "call"}, InsertConversation(w)
  PROVE  /\ Base' /\ Calm /\ maker[w].list \in Lists
         /\ maker' = [maker EXCEPT ![w] = NoConv]
         /\ UNCHANGED <<server, row, mutex, proc, queue, call>>
<1> DEFINE l == maker[w].list
           n == maker[w].name
<1>1. /\ maker[w] # NoConv /\ maker' = [maker EXCEPT ![w] = NoConv]
      /\ IF conv[l] = 0
         THEN /\ conv' = [conv EXCEPT ![l] = n]
              /\ stale' = IF w = "call" /\ n # row[l] /\ ~NamePending(l) THEN stale \cup {l} ELSE stale
         ELSE UNCHANGED <<conv, stale>>
      /\ UNCHANGED <<server, row, saved, listed, mutex, proc, queue, call, bound, raced, orphaned, missed>>
  BY DEF InsertConversation
<1>2. ServerGrows /\ now' = now /\ Entries' = Entries /\ Makers' = Makers
  BY <1>1, ServerStays, SameTypes
<1>3. /\ maker \in [{"worker", "call"} -> Makers] /\ now \in Nat /\ conv \in [Lists -> -1..now]
      /\ stale \in SUBSET Lists
  BY DEF Base, Typed, TypeServer, TypeProc, TypeDb, TypeHist
<1>4. l \in Lists /\ n \in -1..now
  BY <1>1, <1>3 DEF Makers
<1>5. maker' \in [{"worker", "call"} -> Makers']
  BY <1>1, <1>2, <1>3 DEF Makers
<1>6. conv' \in [Lists -> -1..now'] /\ stale' \in SUBSET Lists
  <2> HIDE DEF n, l
  <2>1. CASE conv[l] = 0
    BY <1>1, <1>2, <1>3, <1>4, <2>1
  <2>2. CASE conv[l] # 0
    BY <1>1, <1>2, <1>3, <2>2
  <2> QED BY <2>1, <2>2
<1>7. Calm /\ Appended
  BY <1>1, <1>2, CalmSame DEF Calm, Starts, Appended
<1>8. queue' \in Seq(Entries') /\ QueueInv' /\ WorkerInv'
  BY <1>1, <1>2, <1>7, CalmQueue
<1>9. Base'
  BY <1>1, <1>2, <1>5, <1>6, <1>7, <1>8, CalmBase, CalmSame
<1> QED BY <1>1, <1>4, <1>7, <1>9

LEMMA CalmReconnect ==
  ASSUME Base, Reconnect
  PROVE  /\ Base' /\ Calm /\ queue' = Append(queue, BeginFlag)
         /\ UNCHANGED <<server, db, mutex, proc, maker, call, hist>>
<1>1. /\ bound.event > 0 /\ bound' = [bound EXCEPT !.event = @ - 1] /\ queue' = Append(queue, BeginFlag)
      /\ UNCHANGED <<server, db, mutex, proc, maker, call, hist>>
  BY DEF Reconnect
<1>2. ServerGrows /\ now' = now /\ Entries' = Entries
  BY <1>1, ServerStays
<1>3. bound' \in Bounds
  <2>1. bound \in Bounds
    BY <1>2, CalmSame
  <2> QED BY <1>1, <2>1 DEF Bounds
<1>4. BeginFlag \in Entries /\ EntryShape(BeginFlag) /\ BeginFlag.kind = "begin"
  <2>1. NoResp \in Resps /\ now \in Nat
    BY NoRespType DEF Base, Typed, TypeServer
  <2>2. BeginFlag = [kind |-> "begin", todo |-> <<>>, resp |-> NoResp, arg |-> 0]
    BY DEF BeginFlag, Entry
  <2>3. BeginFlag \in Entries /\ BeginFlag.kind = "begin"
    BY <2>1, <2>2 DEF Entries, Kinds, Todos
  <2> QED BY <2>3 DEF EntryShape
<1>5. Appended
  BY <1>1, <1>2, <1>4 DEF Appended
<1>6. Calm
  BY <1>1, <1>2, CalmStill
<1>7. queue' \in Seq(Entries') /\ QueueInv' /\ WorkerInv'
  BY <1>1, <1>2, <1>5, CalmQueue
<1>8. Base'
  BY <1>1, <1>2, <1>3, <1>6, <1>7, CalmBase, CalmSame DEF db, hist
<1> QED BY <1>1, <1>6, <1>8

LEMMA CrashFacts ==
  ASSUME Base, Crash
  PROVE  /\ Base' /\ UNCHANGED <<server, db, raced>>
         /\ \A q \in Processes : proc'[q] = Idle
         /\ \A e \in Queued' : e \in Queued \/ e.kind \in {"login", "begin"}
         /\ \A e \in Queued' : e.kind # "name"
         /\ \A w \in {"worker", "call"} : maker'[w] = NoConv
         /\ call' = NoCall /\ stale' = stale \cup {l \in Lists : NamePending(l)}
         /\ \A q \in Processes : proc[q].pc = "fill" /\ Syncing(proc[q]) = "groups" => orphaned'
         /\ orphaned => orphaned'
         /\ missed' = (IF \E q \in Processes : proc[q].pc = "del2" \/ (proc[q].pc = "fill" /\ Syncing(proc[q]) = "members")
                        THEN [missed EXCEPT !.emptied = chg["members"]] ELSE missed)
<1> DEFINE first == IF \E k \in DOMAIN queue : queue[k].kind \in {"login", "wait"} THEN LoginFlag ELSE BeginFlag
           rest == Notifications(queue)
<1>1. /\ bound.event > 0 /\ bound' = [bound EXCEPT !.event = @ - 1]
      /\ proc' = [p \in Processes |-> Idle] /\ mutex' = [m \in DOMAIN mutex |-> "free"]
      /\ maker' = [w \in DOMAIN maker |-> NoConv] /\ call' = NoCall
      /\ queue' = <<first>> \o rest
      /\ stale' = stale \cup {l \in Lists : NamePending(l)}
      /\ Interrupted(Processes)
      /\ UNCHANGED <<server, db, raced>>
  BY DEF Crash
<1>2. ServerGrows /\ now' = now /\ Entries' = Entries /\ Procs' = Procs /\ Makers' = Makers
  BY <1>1, ServerStays, SameTypes
<1>3. /\ queue \in Seq(Entries) /\ now \in Nat /\ QueueInv /\ TypeHist /\ TypeDb
      /\ mutex \in [{"group", "relation"} -> Processes \cup {"free"}]
      /\ maker \in [{"worker", "call"} -> Makers]
  BY DEF Base, Typed, TypeProc, TypeServer
<1>4. rest \in Seq(Entries) /\ TakenFrom(rest, queue)
  BY <1>3, NotificationsFacts
<1>5. first \in Entries /\ EntryShape(first) /\ first.kind \in {"login", "begin"}
  <2>1. NoResp \in Resps
    BY <1>3, NoRespType
  <2>2. /\ BeginFlag = [kind |-> "begin", todo |-> <<>>, resp |-> NoResp, arg |-> 0]
        /\ LoginFlag = [kind |-> "login", todo |-> <<>>, resp |-> NoResp, arg |-> 0]
    BY DEF BeginFlag, LoginFlag, Entry
  <2>3. first \in {BeginFlag, LoginFlag}
    OBVIOUS
  <2> HIDE DEF first
  <2>4. first \in Entries /\ first.kind \in {"login", "begin"}
    BY <1>3, <2>1, <2>2, <2>3 DEF Entries, Kinds, Todos
  <2> QED BY <2>4 DEF EntryShape
<1> HIDE DEF first, rest
<1>6. queue' \in Seq(Entries) /\ \A e \in Queued' : e = first \/ (e \in Queued /\ IsNote(e))
  <2>1. <<first>> \in Seq(Entries) /\ Len(<<first>>) = 1 /\ <<first>>[1] = first
    BY <1>5
  <2>2. /\ queue' \in Seq(Entries) /\ Len(queue') = 1 + Len(rest) /\ Len(rest) \in Nat
        /\ \A k \in 1..1 + Len(rest) : queue'[k] = IF k <= 1 THEN <<first>>[k] ELSE rest[k - 1]
    BY <1>1, <1>4, <2>1, ConcatProperties
  <2>3. ASSUME NEW k \in 1..Len(queue') PROVE queue'[k] = first \/ (queue'[k] \in Queued /\ IsNote(queue'[k]))
    <3>1. CASE k <= 1
      BY <2>1, <2>2, <2>3, <3>1
    <3>2. CASE ~(k <= 1)
      <4>1. k - 1 \in 1..Len(rest) /\ queue'[k] = rest[k - 1]
        BY <2>2, <2>3, <3>2
      <4>2. \E j \in 1..Len(queue) : rest[k - 1] = queue[j] /\ IsNote(queue[j])
        BY <1>4, <4>1 DEF TakenFrom
      <4> QED BY <4>1, <4>2 DEF Queued
    <3> QED BY <3>1, <3>2
  <2> QED BY <2>2, <2>3 DEF Queued
<1>7. Queued \subseteq Entries
  BY <1>3 DEF Queued
<1>8. QueueInv'
  <2>1. ASSUME NEW e \in Queued' PROVE EntryShape(e) /\ (e.kind = "push" => PushOK(e)')
    <3>1. CASE e = first
      BY <1>5, <3>1
    <3>2. CASE e \in Queued
      BY <1>2, <1>3, <1>7, <3>2 DEF QueueInv, ServerGrows
    <3> QED BY <1>6, <3>1, <3>2
  <2> QED BY <2>1 DEF QueueInv
<1>9. \A q \in Processes : proc'[q] = Idle
  BY <1>1
<1>10. LockInv' /\ WorkerInv'
  <2>1. \A m \in {"group", "relation"} : mutex'[m] = "free"
    BY <1>1, <1>3
  <2>2. \A q \in Processes : q # "free"
    BY DEF Processes, Pools
  <2>3. Fits(Idle)
    BY IdleFacts DEF Fits, Deleting, Answered
  <2>4. raced' \subseteq {"friends", "black"}
    BY <1>1 DEF Base, LockInv
  <2>5. "worker" \in Processes
    BY DEF Processes
  <2> QED BY <1>9, <2>1, <2>2, <2>3, <2>4, <2>5, IdleFacts DEF LockInv, WorkerInv, At, GroupLists
<1>11. /\ orphaned' = (orphaned \/ \E q \in Processes : proc[q].pc = "fill" /\ Syncing(proc[q]) = "groups")
       /\ missed' = (IF \E q \in Processes : proc[q].pc = "del2" \/ (proc[q].pc = "fill" /\ Syncing(proc[q]) = "members")
                        THEN [missed EXCEPT !.emptied = chg["members"]] ELSE missed)
  BY <1>1 DEF Interrupted
<1>12. TypeHist'
  <2>1. missed' \in [skipped : 0..now, setBack : 0..now, emptied : 0..now]
    BY <1>11, KeepsSame, MissedType DEF Lists
  <2>2. orphaned' \in BOOLEAN
    BY <1>3, <1>11 DEF TypeHist
  <2>3. stale' \in SUBSET Lists /\ raced' \in SUBSET Lists
    BY <1>1, <1>3 DEF TypeHist
  <2>4. bound \in [change : Nat, call : Nat, event : Nat] /\ bound.event > 0
    BY <1>1, <1>3 DEF TypeHist
  <2>5. bound' = [bound EXCEPT !.event = bound.event - 1]
    BY <1>1
  <2>6. bound' \in [change : Nat, call : Nat, event : Nat]
    BY <2>4, <2>5
  <2> QED BY <1>2, <2>1, <2>2, <2>3, <2>6 DEF TypeHist
<1>13. TypeDb'
  BY <1>1, <1>2, <1>3 DEF TypeDb, db
<1>14. TypeProc'
  <2>1. Idle \in Procs
    BY <1>3, NoRespType
  <2>2. proc' \in [Processes -> Procs]
    BY <1>1, <2>1
  <2>3. call' \in [list : Lists \cup {"none", "query"}, change : 0..now, gone : BOOLEAN]
    BY <1>1, <1>3 DEF NoCall
  <2>4. maker' \in [{"worker", "call"} -> Makers]
    BY <1>1, <1>3 DEF Makers
  <2>5. mutex' \in [{"group", "relation"} -> Processes \cup {"free"}]
    BY <1>1, <1>3
  <2> QED BY <1>2, <1>6, <2>2, <2>3, <2>4, <2>5 DEF TypeProc
<1>15. Base'
  BY <1>2, <1>8, <1>10, <1>12, <1>13, <1>14 DEF Base, Typed, ServerGrows
<1>16. \A w \in {"worker", "call"} : maker'[w] = NoConv
  BY <1>1, <1>3
<1> QED BY <1>1, <1>5, <1>6, <1>9, <1>11, <1>15, <1>16 DEF IsNote

-----------------------------------------------------------------------------
(* What a call synchronises when it has made the change op of list l. *)
Wanted(op, l, t) ==
  /\ l # "groups" => t \in {<<>>, <<l>>}
  /\ l = "groups" => t \in {<<>>, <<"groups">>, <<"members">>, <<"groups", "members">>}
  /\ l = "groups" /\ op = "leave" => t = <<"groups">>
Asked == \E op \in Changes, l \in Lists, t \in Todos : Wanted(op, l, t) /\ Asks(op, l, t)

(* The steps that synchronise nothing. *)
Others ==
  \/ \E l \in Lists : Compact(l)
  \/ \E op \in Changes, l \in Lists : RemoteChange(op, l)
  \/ Asked \/ GetGroupMemberList \/ DoNotification
  \/ LoginSync \/ LoginSynced \/ SyncData \/ UpdateName
  \/ \E w \in {"worker", "call"} : InsertConversation(w)
  \/ \E w \in {"worker", "call"}, l \in Lists : ReadName(w, l) /\ bound' \in Bounds
  \/ Reconnect

LEMMA CallSteps == ASSUME GroupCalls \/ RelationCalls PROVE Asked \/ GetGroupMemberList
<1>1. ASSUME NEW op \in Changes, NEW l \in Lists, NEW t \in Todos, Wanted(op, l, t), Asks(op, l, t) PROVE Asked
  BY <1>1 DEF Asked
<1>2. /\ "join" \in Changes /\ "leave" \in Changes /\ "dismiss" \in Changes /\ "info" \in Changes
      /\ "set" \in Changes /\ "unset" \in Changes
      /\ "groups" \in Lists /\ "members" \in Lists /\ "friends" \in Lists /\ "black" \in Lists
      /\ <<>> \in Todos /\ <<"groups">> \in Todos /\ <<"members">> \in Todos /\ <<"friends">> \in Todos
      /\ <<"black">> \in Todos /\ <<"groups", "members">> \in Todos
  BY DEF Changes, Lists, Todos
<1>3. /\ Wanted("join", "groups", <<"groups", "members">>) /\ Wanted("join", "groups", <<>>)
      /\ Wanted("leave", "groups", <<"groups">>) /\ Wanted("dismiss", "groups", <<"groups">>)
      /\ Wanted("info", "groups", <<"groups">>) /\ Wanted("info", "groups", <<"members">>)
      /\ Wanted("set", "members", <<>>) /\ Wanted("set", "members", <<"members">>)
      /\ Wanted("unset", "members", <<"members">>)
  BY DEF Wanted
<1>4. /\ Wanted("set", "friends", <<"friends">>) /\ Wanted("unset", "friends", <<"friends">>)
      /\ Wanted("set", "black", <<"black">>) /\ Wanted("unset", "black", <<"black">>)
  BY DEF Wanted
<1>5. ASSUME GroupCalls PROVE Asked \/ GetGroupMemberList
  <2>1. CASE CreateGroup BY <1>1, <1>2, <1>3, <2>1 DEF CreateGroup
  <2>2. CASE JoinGroup BY <1>1, <1>2, <1>3, <2>2 DEF JoinGroup
  <2>3. CASE QuitGroup BY <1>1, <1>2, <1>3, <2>3 DEF QuitGroup
  <2>4. CASE DismissGroup BY <1>1, <1>2, <1>3, <2>4 DEF DismissGroup
  <2>5. CASE SetGroupInfo BY <1>1, <1>2, <1>3, <2>5 DEF SetGroupInfo
  <2>6. CASE ChangeGroupMute BY <1>1, <1>2, <1>3, <2>6 DEF ChangeGroupMute
  <2>7. CASE ChangeGroupMemberMute BY <1>1, <1>2, <1>3, <2>7 DEF ChangeGroupMemberMute
  <2>8. CASE TransferGroupOwner BY <1>1, <1>2, <1>3, <2>8 DEF TransferGroupOwner
  <2>9. CASE SetGroupMemberInfo BY <1>1, <1>2, <1>3, <2>9 DEF SetGroupMemberInfo
  <2>10. CASE InviteUserToGroup BY <1>1, <1>2, <1>3, <2>10 DEF InviteUserToGroup
  <2>11. CASE KickGroupMember BY <1>1, <1>2, <1>3, <2>11 DEF KickGroupMember
  <2> QED BY <1>5, <2>1, <2>2, <2>3, <2>4, <2>5, <2>6, <2>7, <2>8, <2>9, <2>10, <2>11 DEF GroupCalls
<1>6. ASSUME RelationCalls PROVE Asked
  <2>1. CASE RespondFriendApply BY <1>1, <1>2, <1>4, <2>1 DEF RespondFriendApply
  <2>2. CASE UpdateFriends BY <1>1, <1>2, <1>4, <2>2 DEF UpdateFriends
  <2>3. CASE DeleteFriend BY <1>1, <1>2, <1>4, <2>3 DEF DeleteFriend
  <2>4. CASE AddBlack BY <1>1, <1>2, <1>4, <2>4 DEF AddBlack
  <2>5. CASE RemoveBlack BY <1>1, <1>2, <1>4, <2>5 DEF RemoveBlack
  <2> QED BY <1>6, <2>1, <2>2, <2>3, <2>4, <2>5 DEF RelationCalls
<1> QED BY <1>5, <1>6

LEMMA NextSteps == ASSUME Base, Next PROVE SyncSteps \/ Crash \/ Others
<1>0. bound \in Bounds /\ now \in Nat
  BY DEF Base, Typed, TypeHist, TypeServer, Bounds
<1>1. CASE ServerSteps BY <1>1 DEF ServerSteps, Others
<1>2. CASE GroupCalls \/ RelationCalls BY <1>2, CallSteps DEF Others
<1>3. ASSUME NEW l \in Lists, BatchAddFaceURLAndName(l) PROVE Others
  BY <1>0, <1>3 DEF BatchAddFaceURLAndName, Others
<1>4. ASSUME NEW l \in Lists, GetOneConversation(l) PROVE Others
  <2>1. ReadName("call", l) /\ bound.call > 0 /\ bound' = [bound EXCEPT !.call = @ - 1]
    BY <1>4 DEF GetOneConversation
  <2>2. bound' \in Bounds
    BY <1>0, <2>1 DEF Bounds
  <2> QED BY <2>1, <2>2 DEF Others
<1>5. CASE WorkerSteps BY <1>3, <1>4, <1>5 DEF WorkerSteps, Others
<1>6. CASE Reconnect BY <1>6 DEF Others
<1> QED BY <1>1, <1>2, <1>5, <1>6 DEF Next

LEMMA OthersCalm == ASSUME Base, Others PROVE Base' /\ Calm
<1>1. CASE \E l \in Lists : Compact(l) BY <1>1, CalmCompact
<1>2. CASE \E op \in Changes, l \in Lists : RemoteChange(op, l) BY <1>2, CalmRemote
<1>3. CASE Asked BY <1>3, CalmAsks DEF Asked
<1>4. CASE GetGroupMemberList BY <1>4, CalmQuery
<1>5. CASE DoNotification BY <1>5, CalmDo
<1>6. CASE LoginSync BY <1>6, CalmLoginSync
<1>7. CASE LoginSynced BY <1>7, CalmLoginSynced
<1>8. CASE SyncData BY <1>8, CalmSyncData
<1>9. CASE UpdateName BY <1>9, CalmUpdateName
<1>10. CASE \E w \in {"worker", "call"} : InsertConversation(w) BY <1>10, CalmInsert
<1>11. CASE \E w \in {"worker", "call"}, l \in Lists : ReadName(w, l) /\ bound' \in Bounds BY <1>11, CalmReadName
<1>12. CASE Reconnect BY <1>12, CalmReconnect
<1> QED BY <1>1, <1>2, <1>3, <1>4, <1>5, <1>6, <1>7, <1>8, <1>9, <1>10, <1>11, <1>12 DEF Others

(* What the server does in them. *)
LEMMA OthersServer ==
  ASSUME Base, Others
  PROVE  \/ UNCHANGED <<scope, now, there, chg, over, ver>>
         \/ \E op \in Changes, l \in Lists : Changed(op, l)
<1>1. CASE \E l \in Lists : Compact(l) BY <1>1 DEF Compact
<1>2. CASE \E op \in Changes, l \in Lists : RemoteChange(op, l) BY <1>2 DEF RemoteChange
<1>3. CASE Asked BY <1>3, AsksFacts DEF Asked
<1>4. CASE GetGroupMemberList BY <1>4 DEF GetGroupMemberList, server
<1>5. CASE DoNotification BY <1>5 DEF DoNotification, server
<1>6. CASE LoginSync BY <1>6 DEF LoginSync, server
<1>7. CASE LoginSynced BY <1>7 DEF LoginSynced, server
<1>8. CASE SyncData BY <1>8 DEF SyncData, server
<1>9. CASE UpdateName BY <1>9 DEF UpdateName, server
<1>10. CASE \E w \in {"worker", "call"} : InsertConversation(w) BY <1>10 DEF InsertConversation, server
<1>11. CASE \E w \in {"worker", "call"}, l \in Lists : ReadName(w, l) /\ bound' \in Bounds BY <1>11 DEF ReadName, server
<1>12. CASE Reconnect BY <1>12 DEF Reconnect, server
<1> QED BY <1>1, <1>2, <1>3, <1>4, <1>5, <1>6, <1>7, <1>8, <1>9, <1>10, <1>11, <1>12 DEF Others

LEMMA BaseSync == ASSUME Base, SyncSteps PROVE Base'
BY BaseLock, BaseFetch, BaseApply, BaseExtra, BaseDelete, BaseClear, BaseFill, BaseSave, BaseReturn, BaseFails
   DEF SyncSteps

LEMMA BaseStutter == ASSUME Base, UNCHANGED vars PROVE Base'
<1>1. /\ UNCHANGED <<scope, now, there, chg, over, ver, floor, row, saved, listed, conv, mutex, proc, queue, maker,
                     call, bound, stale, raced, orphaned, missed>>
  BY DEF vars, server, db, hist
<1>2. Resps' = Resps /\ Procs' = Procs /\ Entries' = Entries /\ Makers' = Makers
  BY <1>1, SameTypes
<1>3. Typed'
  BY <1>1, <1>2 DEF Base, Typed, TypeServer, TypeDb, TypeProc, TypeHist
<1>4. ServerInv' /\ LockInv'
  <2>1. ServerInv'
    BY <1>1 DEF Base, ServerInv
  <2>2. LockInv'
    BY <1>1 DEF Base, LockInv, At
  <2> QED BY <2>1, <2>2
<1>5. WorkerInv'
  BY <1>1 DEF Base, WorkerInv, At
<1>6. QueueInv'
  <2>1. Queued' = Queued
    BY <1>1 DEF Queued
  <2>2. \A e : PushOK(e) => PushOK(e)'
    BY <1>1, PushStays
  <2> QED BY <2>1, <2>2 DEF Base, QueueInv
<1> QED BY <1>3, <1>4, <1>5, <1>6 DEF Base

LEMMA BaseInit == ASSUME Init PROVE Base
<1>1. scope \in SUBSET Lists
  BY ScopeAssumption DEF Init, Lists
<1>2. now = 1 /\ over = 0 /\ there \in [Lists -> BOOLEAN] /\ chg \in [Lists -> 0..now] /\ ver = chg /\ floor = chg
      /\ \A l \in Lists : chg[l] = 1
  BY DEF Init
<1>3. TypeServer /\ ServerInv
  <2>1. now \in Nat /\ "groups" \in Lists /\ "members" \in Lists /\ "friends" \in Lists
    BY <1>2 DEF Lists
  <2> QED BY <1>1, <1>2, <2>1 DEF TypeServer, ServerInv
<1>4. TypeDb
  <2>1. row = [l \in Lists |-> 0] /\ saved = row /\ conv = row /\ listed = FALSE
    BY DEF Init
  <2>2. 0 \in 0..now /\ 0 \in -1..now
    BY <1>2
  <2> QED BY <2>1, <2>2 DEF TypeDb
<1>5. TypeHist
  <2>1. bound = [change |-> MaxChanges, call |-> MaxCalls, event |-> MaxEvents] /\ stale = {} /\ raced = {}
        /\ orphaned = FALSE /\ missed = [skipped |-> 0, setBack |-> 0, emptied |-> 0]
    BY DEF Init
  <2>2. 0 \in 0..now
    BY <1>2
  <2>3. MaxChanges \in Nat /\ MaxCalls \in Nat /\ MaxEvents \in Nat
    BY BoundAssumption
  <2> QED BY <2>1, <2>2, <2>3 DEF TypeHist
<1>6. NoResp \in Resps /\ Idle \in Procs
  BY <1>2, NoRespType
<1>7. LoginFlag \in Entries /\ LoginFlag.kind = "login"
  BY <1>2, <1>6 DEF LoginFlag, Entry, Entries, Kinds, Todos
<1>8. queue \in Seq(Entries) /\ Queued = {LoginFlag} /\ QueueInv
  <2>1. queue = <<LoginFlag>> /\ Len(queue) = 1
    BY DEF Init
  <2>2. queue \in Seq(Entries)
    BY <1>7, <2>1
  <2>3. Queued = {LoginFlag}
    BY <2>1 DEF Queued
  <2> QED BY <1>7, <2>2, <2>3 DEF QueueInv, EntryShape
<1>9. \A p \in Processes : proc[p] = Idle
  BY DEF Init
<1>10. TypeProc
  <2>1. proc \in [Processes -> Procs]
    BY <1>6 DEF Init
  <2>2. mutex \in [{"group", "relation"} -> Processes \cup {"free"}]
    BY DEF Init
  <2>3. maker \in [{"worker", "call"} -> Makers] /\ call = NoCall
    BY DEF Init, Makers
  <2>4. call \in [list : Lists \cup {"none", "query"}, change : 0..now, gone : BOOLEAN]
    BY <1>2, <2>3 DEF NoCall
  <2> QED BY <1>8, <2>1, <2>2, <2>3, <2>4 DEF TypeProc
<1>11. LockInv /\ WorkerInv
  <2>1. Fits(Idle)
    BY IdleFacts DEF Fits, Deleting, Answered
  <2>2. \A m \in {"group", "relation"} : mutex[m] = "free"
    BY DEF Init
  <2>3. raced = {} /\ "worker" \in Processes /\ \A p \in Processes : p # "free"
    BY DEF Init, Processes, Pools
  <2> QED BY <1>9, <2>1, <2>2, <2>3, IdleFacts DEF LockInv, WorkerInv, At, GroupLists
<1> QED BY <1>3, <1>4, <1>5, <1>8, <1>10, <1>11 DEF Base, Typed

LEMMA BaseAlways == Spec => []Base
<1>1. Init => Base BY BaseInit
<1>2. Base /\ [Next]_vars => Base'
  <2> SUFFICES ASSUME Base, [Next]_vars PROVE Base'
    OBVIOUS
  <2>1. CASE Next
    BY <2>1, NextSteps, BaseSync, OthersCalm, CrashFacts
  <2>2. CASE UNCHANGED vars
    BY <2>2, BaseStutter
  <2> QED BY <2>1, <2>2
<1> QED BY <1>1, <1>2, PTL DEF Spec

(***************************************************************************)
(* The types of the server's log, of what the client keeps in its database *)
(* and of each synchronisation's place and answer.                         *)
(***************************************************************************)
THEOREM TypeCorrect == Spec => []TypeOK
<1>1. Base => TypeOK
  <2> SUFFICES ASSUME Base PROVE TypeOK
    OBVIOUS
  <2>1. /\ row \in [Lists -> 0..now] /\ saved \in [Lists -> 0..now] /\ conv \in [Lists -> -1..now]
        /\ listed \in BOOLEAN
        /\ mutex \in [{"group", "relation"} -> Processes \cup {"free"}]
        /\ stale \subseteq Lists /\ raced \subseteq Lists /\ orphaned \in BOOLEAN
    BY DEF Base, Typed, TypeDb, TypeProc, TypeHist
  <2>2. proc \in [Processes -> Procs] /\ queue \in Seq(Entries)
    BY DEF Base, Typed, TypeProc
  <2>3. Todos \subseteq Seq(Lists)
    BY DEF Todos, Lists
  <2>4. \A p \in Processes : proc[p].pc \in Places /\ proc[p].todo \in Seq(Lists) /\ proc[p].locks \in BOOLEAN
    BY <2>2, <2>3 DEF Procs
  <2>5. \A k \in DOMAIN queue : queue[k].kind \in Kinds
    <3>1. \A k \in DOMAIN queue : queue[k] \in Entries
      BY <2>2
    <3> QED BY <3>1 DEF Entries
  <2> QED BY <2>1, <2>4, <2>5 DEF TypeOK, Places, Kinds
<1> QED BY <1>1, BaseAlways, PTL

-----------------------------------------------------------------------------
(***************************************************************************)
(* What a left group leaves behind.  Its deletion goes from the members    *)
(* over their version to its row, and whoever stores members without a row *)
(* of the group has said so.                                               *)
(***************************************************************************)
Filling(p, l) == proc[p].pc = "fill" /\ Syncing(proc[p]) = l

(* The rows of the members and their version go after the group's row, in this order. *)
LeftInv ==
  /\ row["groups"] = 0 /\ ~orphaned /\ (\A p \in Processes : ~Filling(p, "groups"))
       => row["members"] = 0 /\ saved["members"] = 0
  /\ \A p \in Processes :
       /\ proc[p].pc \in {"del2", "del3"} => row["members"] = 0
       /\ proc[p].pc = "del3" => saved["members"] = 0
       /\ proc[p].pc \in {"extra", "save"} /\ Syncing(proc[p]) = "members" /\ row["groups"] = 0 => orphaned

LEMMA Alone ==
  ASSUME Base, NEW p \in Processes, NEW q \in Processes, p # q, Syncing(proc[p]) \in GroupLists
  PROVE  Syncing(proc[q]) \notin GroupLists
BY DEF Base, LockInv

LEMMA GroupPlaces ==
  ASSUME Base, NEW p \in Processes, Syncing(proc[p]) \notin GroupLists
  PROVE  proc[p].pc \notin Deleting \cup {"extra"}
BY AtList, Zenon DEF Fits, Now, Answered, Deleting, GroupLists

(* Nobody was, or comes, where this invariant says something. *)
LEMMA LeftQuiet ==
  ASSUME LeftInv, UNCHANGED <<row, saved, orphaned>>,
         \A q \in Processes : \/ proc'[q] = proc[q]
                              \/ /\ proc[q].pc # "fill"
                                 /\ proc'[q].pc \notin {"del2", "del3", "extra", "save"}
  PROVE  LeftInv'
BY DEF LeftInv, Filling

LEMMA LeftAside ==
  ASSUME Base, Base', LeftInv, NEW p \in Processes, NEW r, Becomes(p, r),
         Syncing(proc[p]) \notin GroupLists, Syncing(r) \notin GroupLists,
         row'["groups"] = row["groups"], row'["members"] = row["members"],
         saved'["members"] = saved["members"], orphaned' = orphaned
  PROVE  LeftInv'
<1>1. proc \in [Processes -> Procs]
  BY DEF Base, Typed, TypeProc
<1>2. proc'[p] = r /\ \A q \in Processes : q # p => proc'[q] = proc[q]
  BY <1>1, BecomesFacts
<1>3. r.pc \notin {"del2", "del3"}
  <2>1. proc' \in [Processes -> Procs'] /\ Fits(r)
    BY <1>2 DEF Base, Typed, TypeProc, LockInv
  <2>2. r.pc \in {"del2", "del3"} => Syncing(r) = "groups"
    BY <2>1 DEF Fits, Syncing, Deleting
  <2> QED BY <2>2 DEF GroupLists
<1> QED BY <1>2, <1>3 DEF LeftInv, Filling, GroupLists

LEMMA LeftMove ==
  ASSUME Base, LeftInv, NEW p \in Processes, NEW r, Becomes(p, r), Syncing(proc[p]) \in GroupLists,
         \/ r.pc = "fill" /\ Syncing(r) = "groups"
         \/ row'["groups"] = 0 /\ ~orphaned' => row'["members"] = 0 /\ saved'["members"] = 0,
         r.pc \in {"del2", "del3"} => row'["members"] = 0,
         r.pc = "del3" => saved'["members"] = 0,
         r.pc \in {"extra", "save"} /\ Syncing(r) = "members" /\ row'["groups"] = 0 => orphaned'
  PROVE  LeftInv'
<1>1. proc \in [Processes -> Procs]
  BY DEF Base, Typed, TypeProc
<1>2. proc'[p] = r /\ \A q \in Processes : q # p => proc'[q] = proc[q]
  BY <1>1, BecomesFacts
<1>3. \A q \in Processes : q # p => Syncing(proc[q]) \notin GroupLists /\ proc[q].pc \notin Deleting \cup {"extra"}
  BY Alone, GroupPlaces
<1> QED BY <1>2, <1>3 DEF LeftInv, Filling, GroupLists, Deleting

(* What the invariant says to the process that is at the group's lists. *)
LEMMA LeftHere ==
  ASSUME Base, LeftInv, NEW p \in Processes, Syncing(proc[p]) \in GroupLists, ~Filling(p, "groups"),
         row["groups"] = 0, ~orphaned
  PROVE  row["members"] = 0 /\ saved["members"] = 0
<1>1. \A q \in Processes : q # p => Syncing(proc[q]) \notin GroupLists
  BY Alone
<1> QED BY <1>1 DEF LeftInv, Filling, GroupLists

LEMMA LeftApply == ASSUME Base, Base', LeftInv, NEW p \in Processes, Apply(p) PROVE LeftInv'
<1>1. /\ proc[p].pc = "apply" /\ UNCHANGED server /\ Now(p) \in Lists /\ now \in Nat
      /\ \/ /\ Now(p) = "groups" /\ row["groups"] # 0 /\ Becomes(p, Onto(p, "del1")) /\ UNCHANGED <<db, orphaned>>
         \/ \E new \in 0..now :
              /\ new = (IF proc[p].resp.item = Same THEN row[Now(p)] ELSE proc[p].resp.item)
              /\ Becomes(p, AfterSync(p, Now(p))) /\ SyncItem(Now(p), new)
              /\ ~(Now(p) = "groups" /\ proc[p].resp.item = 0 /\ row["groups"] # 0)
  BY ApplyFacts DEF Base, Typed, TypeServer
<1>2. Syncing(proc[p]) = Now(p) /\ ~Filling(p, "groups") /\ proc \in [Processes -> Procs] /\ proc[p].todo # <<>>
  BY <1>1, AtList DEF Answered, Filling
<1>3. CASE Now(p) = "groups" /\ row["groups"] # 0 /\ Becomes(p, Onto(p, "del1")) /\ UNCHANGED <<db, orphaned>>
  <2>1. Onto(p, "del1").pc = "del1"
    BY <1>2, OntoFacts DEF Places
  <2> QED BY <1>2, <1>3, <2>1, LeftMove DEF db, GroupLists
<1>4. ASSUME NEW new \in 0..now, new = (IF proc[p].resp.item = Same THEN row[Now(p)] ELSE proc[p].resp.item),
             Becomes(p, AfterSync(p, Now(p))), SyncItem(Now(p), new),
             ~(Now(p) = "groups" /\ proc[p].resp.item = 0 /\ row["groups"] # 0)
      PROVE  LeftInv'
  <2> DEFINE l == Now(p)
             r == AfterSync(p, l)
  <2>1. /\ row'[l] = new
        /\ \A k \in Lists \ {l, "members"} : row'[k] = row[k]
        /\ l # "members" => row'["members"] =
              IF l = "groups" /\ new = over /\ row[l] \notin {0, new} THEN 0 ELSE row["members"]
        /\ orphaned' = (IF l = "groups" /\ new # 0 THEN FALSE
                        ELSE orphaned \/ (l = "members" /\ row["groups"] = 0))
        /\ saved' = saved
    BY <1>1, <1>4, SyncItemFacts
  <2>2. /\ l = "black" => r = NextList(p)
        /\ l # "black" => r = Onto(p, IF proc[p].resp.info # 0 THEN "extra" ELSE "save")
        /\ l # "black" => /\ r.pc = (IF proc[p].resp.info # 0 THEN "extra" ELSE "save")
                          /\ r.todo = proc[p].todo
        /\ Syncing(r) \in GroupLists => Syncing(proc[p]) \in GroupLists
    BY <1>1, AfterSyncMoves
  <2>3. l # "black" => Syncing(r) = l /\ r.pc \in {"extra", "save"}
    BY <1>2, <2>2 DEF Syncing, Now
  <2>4. Becomes(p, r) /\ Syncing(proc[p]) = l /\ l \in Lists
    BY <1>1, <1>2, <1>4
  <2>5. l = "groups" /\ row'["groups"] = 0 => row["groups"] = 0
    BY <1>4, <2>1 DEF Same
  <2> HIDE DEF l, r
  <2>6. CASE l = "groups"
    <3>1. row'["groups"] = 0 /\ ~orphaned' => row'["members"] = 0 /\ saved'["members"] = 0
      BY <1>2, <2>1, <2>4, <2>5, <2>6, LeftHere DEF GroupLists
    <3> QED BY <2>3, <2>4, <2>6, <3>1, LeftMove DEF GroupLists
  <2>7. CASE l = "members"
    <3>1. row'["groups"] = 0 => orphaned'
      BY <2>1, <2>7 DEF Lists
    <3> QED BY <2>3, <2>4, <2>7, <3>1, LeftMove DEF GroupLists
  <2>8. CASE l \notin GroupLists
    <3>2. row'["groups"] = row["groups"] /\ row'["members"] = row["members"]
      BY <2>1, <2>8 DEF GroupLists, Lists
    <3>3. orphaned \in BOOLEAN /\ l # "groups" /\ l # "members"
      BY <2>8 DEF Base, Typed, TypeHist, GroupLists
    <3>1. row'["groups"] = row["groups"] /\ row'["members"] = row["members"] /\ orphaned' = orphaned
      BY <2>1, <3>2, <3>3
    <3> QED BY <2>1, <2>2, <2>4, <2>8, <3>1, LeftAside
  <2> QED BY <2>6, <2>7, <2>8 DEF GroupLists
<1> QED BY <1>1, <1>3, <1>4

LEMMA LeftExtra == ASSUME Base, Base', LeftInv, NEW p \in Processes, Extra(p) PROVE LeftInv'
<1>1. /\ proc[p].pc = "extra" /\ Now(p) = "members" /\ proc[p].resp.info \in 1..now /\ UNCHANGED server
      /\ SyncItem("groups", proc[p].resp.info) /\ Becomes(p, Onto(p, "save")) /\ now \in Nat
  BY ExtraFacts DEF Base, Typed, TypeServer
<1>2. row'["groups"] # 0
  <2>1. "groups" \in Lists /\ proc[p].resp.info \in 0..now
    BY <1>1 DEF Lists
  <2>2. row'["groups"] = proc[p].resp.info
    BY <1>1, <2>1, SyncItemFacts
  <2> QED BY <1>1, <2>2
<1>3. Syncing(proc[p]) = Now(p) /\ proc \in [Processes -> Procs]
  BY <1>1, AtList DEF Answered
<1>4. Onto(p, "save").pc = "save"
  BY <1>3, OntoFacts DEF Places
<1> QED BY <1>1, <1>2, <1>3, <1>4, LeftMove DEF GroupLists

LEMMA LeftDelete == ASSUME Base, Base', LeftInv, NEW p \in Processes, DeleteGroup(p) PROVE LeftInv'
<1>1. /\ proc[p].pc \in Deleting /\ Now(p) = "groups"
      /\ proc[p].pc = "del1" => /\ row' = [row EXCEPT !["members"] = 0] /\ UNCHANGED saved
                                /\ Becomes(p, Onto(p, "del2"))
      /\ proc[p].pc = "del2" => /\ saved' = [saved EXCEPT !["members"] = 0] /\ UNCHANGED row
                                /\ Becomes(p, Onto(p, "del3"))
      /\ proc[p].pc = "del3" => /\ row' = [row EXCEPT !["groups"] = 0] /\ UNCHANGED saved
                                /\ Becomes(p, Onto(p, "save"))
      /\ orphaned' = orphaned
  BY DeleteFacts
<1>2. Syncing(proc[p]) = "groups" /\ proc \in [Processes -> Procs] /\ ~Filling(p, "groups") /\ proc[p].todo # <<>>
  BY <1>1, AtList DEF Deleting, Answered, Filling
<1>3. row \in [Lists -> 0..now] /\ saved \in [Lists -> 0..now] /\ "groups" \in Lists /\ "members" \in Lists
  BY DEF Base, Typed, TypeDb, Lists
<1>4. CASE proc[p].pc = "del1"
  <2>1. Onto(p, "del2").pc = "del2"
    BY <1>2, OntoFacts DEF Places
  <2>2. row'["members"] = 0 /\ row'["groups"] = row["groups"] /\ saved' = saved
    BY <1>1, <1>3, <1>4
  <2>3. row'["groups"] = 0 /\ ~orphaned' => saved'["members"] = 0
    BY <1>1, <1>2, <2>2, LeftHere DEF GroupLists
  <2> QED BY <1>1, <1>2, <1>4, <2>1, <2>2, <2>3, LeftMove DEF GroupLists
<1>5. CASE proc[p].pc = "del2"
  <2>1. Onto(p, "del3").pc = "del3"
    BY <1>2, OntoFacts DEF Places
  <2>2. saved'["members"] = 0 /\ row'["members"] = 0
    BY <1>1, <1>3, <1>5 DEF LeftInv
  <2> QED BY <1>1, <1>2, <1>5, <2>1, <2>2, LeftMove DEF GroupLists
<1>6. CASE proc[p].pc = "del3"
  <2>1. Onto(p, "save").pc = "save" /\ Onto(p, "save").todo = proc[p].todo
    BY <1>2, OntoFacts DEF Places
  <2>2. saved'["members"] = 0 /\ row'["members"] = 0
    BY <1>1, <1>3, <1>6 DEF LeftInv
  <2>3. Syncing(Onto(p, "save")) = "groups"
    BY <1>1, <2>1 DEF Syncing, Now
  <2> QED BY <1>1, <1>2, <1>6, <2>1, <2>2, <2>3, LeftMove DEF GroupLists
<1> QED BY <1>1, <1>4, <1>5, <1>6 DEF Deleting

LEMMA LeftClear == ASSUME Base, Base', LeftInv, NEW p \in Processes, Clear(p) PROVE LeftInv'
<1>1. /\ proc[p].pc = "clear" /\ row' = [row EXCEPT ![Now(p)] = 0] /\ Becomes(p, Onto(p, "fill"))
      /\ UNCHANGED <<saved, orphaned>>
  BY DEF Clear, Now
<1>2. /\ Syncing(proc[p]) = Now(p) /\ Now(p) \in Lists /\ proc \in [Processes -> Procs] /\ ~Filling(p, "groups")
      /\ proc[p].todo # <<>>
  BY <1>1, AtList DEF Answered, Filling
<1>3. row \in [Lists -> 0..now] /\ "groups" \in Lists /\ "members" \in Lists
  BY DEF Base, Typed, TypeDb, Lists
<1>4. Onto(p, "fill").pc = "fill" /\ Syncing(Onto(p, "fill")) = Now(p)
  <2>1. Onto(p, "fill").pc = "fill" /\ Onto(p, "fill").todo = proc[p].todo
    BY <1>2, OntoFacts DEF Places
  <2> QED BY <2>1 DEF Syncing, Now
<1>5. CASE Now(p) = "groups"
  BY <1>1, <1>2, <1>4, <1>5, LeftMove DEF GroupLists
<1>6. CASE Now(p) = "members"
  <2>1. row'["members"] = 0 /\ row'["groups"] = row["groups"] /\ saved' = saved
    BY <1>1, <1>3, <1>6
  <2>2. row'["groups"] = 0 /\ ~orphaned' => saved'["members"] = 0
    BY <1>1, <1>2, <1>6, <2>1, LeftHere DEF GroupLists
  <2> QED BY <1>1, <1>2, <1>4, <1>6, <2>1, <2>2, LeftMove DEF GroupLists
<1>7. CASE Now(p) \notin GroupLists
  <2>1. row'["groups"] = row["groups"] /\ row'["members"] = row["members"]
    BY <1>1, <1>3, <1>7 DEF GroupLists
  <2> QED BY <1>1, <1>2, <1>4, <1>7, <2>1, LeftAside
<1> QED BY <1>5, <1>6, <1>7 DEF GroupLists

LEMMA LeftFill == ASSUME Base, Base', LeftInv, NEW p \in Processes, Fill(p) PROVE LeftInv'
<1>1. /\ proc[p].pc = "fill" /\ Now(p) \in Lists \ {"black"} /\ saved' = saved
      /\ row' = [row EXCEPT ![Now(p)] = Item(Now(p))] /\ Becomes(p, Onto(p, "save"))
      /\ orphaned' = (IF Now(p) = "groups"
                      THEN ~there["groups"] /\ (row["members"] # 0 \/ saved["members"] # 0)
                      ELSE orphaned \/ (Now(p) = "members" /\ row["groups"] = 0))
  BY FillFacts
<1>2. Syncing(proc[p]) = Now(p) /\ proc \in [Processes -> Procs] /\ proc[p].todo # <<>>
  BY <1>1, AtList DEF Answered
<1>3. /\ row \in [Lists -> 0..now] /\ "groups" \in Lists /\ "members" \in Lists /\ 1 <= chg["groups"]
      /\ orphaned \in BOOLEAN
  BY DEF Base, Typed, TypeDb, TypeHist, ServerInv, Lists
<1>4. Onto(p, "save").pc = "save" /\ Syncing(Onto(p, "save")) = Now(p)
  <2>1. Onto(p, "save").pc = "save" /\ Onto(p, "save").todo = proc[p].todo
    BY <1>2, OntoFacts DEF Places
  <2> QED BY <2>1 DEF Syncing, Now
<1>5. CASE Now(p) = "groups"
  <2>1. row'["groups"] = Item("groups") /\ row'["members"] = row["members"]
    BY <1>1, <1>3, <1>5
  <2>2. row'["groups"] = 0 => ~there["groups"]
    BY <1>3, <2>1 DEF Item
  <2>3. row'["groups"] = 0 /\ ~orphaned' => row'["members"] = 0 /\ saved'["members"] = 0
    BY <1>1, <1>5, <2>1, <2>2
  <2> QED BY <1>1, <1>2, <1>4, <1>5, <2>3, LeftMove DEF GroupLists
<1>6. CASE Now(p) = "members"
  <2>1. row'["groups"] = row["groups"] /\ (row["groups"] = 0 => orphaned')
    BY <1>1, <1>3, <1>6
  <2> QED BY <1>1, <1>2, <1>4, <1>6, <2>1, LeftMove DEF GroupLists
<1>7. CASE Now(p) \notin GroupLists
  <2>1. row'["groups"] = row["groups"] /\ row'["members"] = row["members"] /\ orphaned' = orphaned
    BY <1>1, <1>3, <1>7 DEF GroupLists
  <2> QED BY <1>1, <1>2, <1>4, <1>7, <2>1, LeftAside
<1> QED BY <1>5, <1>6, <1>7 DEF GroupLists

LEMMA LeftSave == ASSUME Base, Base', LeftInv, NEW p \in Processes, Save(p) PROVE LeftInv'
<1>1. /\ proc[p].pc = "save" /\ Now(p) \in Lists \ {"black"} /\ UNCHANGED <<row, orphaned>>
      /\ saved' = [saved EXCEPT ![Now(p)] = proc[p].resp.ver] /\ Becomes(p, NextList(p))
  BY SaveFacts
<1>2. Syncing(proc[p]) = Now(p) /\ proc \in [Processes -> Procs] /\ ~Filling(p, "groups") /\ Syncing(proc[p]) # "none"
  BY <1>1, AtList DEF Answered, Filling, Lists
<1>3. saved \in [Lists -> 0..now] /\ "members" \in Lists
  BY DEF Base, Typed, TypeDb, Lists
<1>4. /\ NextList(p).pc \in {"fetch", "done"}
      /\ Syncing(NextList(p)) \in GroupLists => Syncing(proc[p]) \in GroupLists
  BY <1>2, NextMoves
<1>5. CASE Now(p) = "members"
  <2>1. row["groups"] = 0 => orphaned
    BY <1>1, <1>2, <1>5 DEF LeftInv
  <2> QED BY <1>1, <1>2, <1>4, <1>5, <2>1, LeftMove DEF GroupLists
<1>6. CASE Now(p) = "groups"
  <2>1. saved'["members"] = saved["members"]
    BY <1>1, <1>3, <1>6
  <2>2. row["groups"] = 0 /\ ~orphaned => row["members"] = 0 /\ saved["members"] = 0
    BY <1>2, <1>6, LeftHere DEF GroupLists
  <2> QED BY <1>1, <1>2, <1>4, <1>6, <2>1, <2>2, LeftMove DEF GroupLists
<1>7. CASE Now(p) \notin GroupLists
  <2>1. saved'["members"] = saved["members"]
    BY <1>1, <1>3, <1>7 DEF GroupLists
  <2> QED BY <1>1, <1>2, <1>4, <1>7, <2>1, LeftAside
<1> QED BY <1>5, <1>6, <1>7 DEF GroupLists

LEMMA LeftFails == ASSUME Base, Base', LeftInv, NEW p \in Processes, SyncFails(p) PROVE LeftInv'
<1>1. /\ Syncing(proc[p]) # "none" /\ UNCHANGED <<row, saved>>
      /\ \/ Becomes(p, NextList(p)) \/ Becomes(p, Onto(p, "done"))
      /\ orphaned' = (orphaned \/ (proc[p].pc = "fill" /\ Syncing(proc[p]) = "groups"))
  BY FailsFacts DEF db
<1>2. NextList(p).pc \in {"fetch", "done"} /\ Onto(p, "done").pc = "done"
  BY <1>1, NextMoves, OntoDone
<1>3. proc \in [Processes -> Procs] /\ orphaned \in BOOLEAN
  BY DEF Base, Typed, TypeProc, TypeHist
<1>4. PICK r : Becomes(p, r) /\ r.pc \in {"fetch", "done"}
  BY <1>1, <1>2
<1>5. proc'[p] = r /\ \A q \in Processes : q # p => proc'[q] = proc[q]
  BY <1>3, <1>4, BecomesFacts
<1>6. CASE Filling(p, "groups")
  <2>1. orphaned' /\ Syncing(proc[p]) \in GroupLists
    BY <1>1, <1>6 DEF Filling, GroupLists
  <2> QED BY <1>4, <2>1, LeftMove
<1>7. CASE ~Filling(p, "groups")
  <2>1. orphaned' = orphaned
    BY <1>1, <1>3, <1>7 DEF Filling
  <2> QED BY <1>1, <1>4, <1>5, <1>7, <2>1 DEF LeftInv, Filling
<1> QED BY <1>6, <1>7

LEMMA LeftSync == ASSUME Base, Base', LeftInv, SyncSteps PROVE LeftInv'
<1>1. PICK p \in Processes :
        Lock(p) \/ Fetch(p) \/ Apply(p) \/ Extra(p) \/ DeleteGroup(p) \/ Clear(p) \/ Fill(p)
          \/ Save(p) \/ Return(p) \/ SyncFails(p)
  BY DEF SyncSteps
<1>2. proc \in [Processes -> Procs]
  BY DEF Base, Typed, TypeProc
<1>3. CASE Lock(p)
  <2>1. Becomes(p, Onto(p, "fetch")) /\ UNCHANGED <<row, saved, orphaned>> /\ proc[p].pc = "lock"
    BY <1>3 DEF Lock, db
  <2>2. Onto(p, "fetch").pc = "fetch"
    BY <1>2, OntoFacts DEF Places
  <2>3. proc'[p] = Onto(p, "fetch") /\ \A q \in Processes : q # p => proc'[q] = proc[q]
    BY <1>2, <2>1, BecomesFacts
  <2> QED BY <2>1, <2>2, <2>3, LeftQuiet
<1>4. CASE Fetch(p)
  <2>1. /\ proc[p].pc = "fetch" /\ UNCHANGED <<row, saved, orphaned>>
        /\ \/ Becomes(p, Onto(p, "done")) \/ Becomes(p, NextList(p))
           \/ \E a : Given1(p, a) /\ Becomes(p, Given(p, a))
    BY <1>4, FetchFacts DEF db
  <2>2. Syncing(proc[p]) # "none"
    BY <2>1, AtList DEF Lists
  <2>3. Onto(p, "done").pc = "done" /\ NextList(p).pc \in {"fetch", "done"}
    BY <2>2, NextMoves, OntoDone
  <2>4. \A a : Given1(p, a) => Given(p, a).pc \in {"clear", "apply"}
    BY <2>1, Given1Facts, GivenFits
  <2>5. PICK r : Becomes(p, r) /\ r.pc \in {"fetch", "done", "clear", "apply"}
    BY <2>1, <2>3, <2>4
  <2>6. proc'[p] = r /\ \A q \in Processes : q # p => proc'[q] = proc[q]
    BY <1>2, <2>5, BecomesFacts
  <2> QED BY <2>1, <2>5, <2>6, LeftQuiet
<1>5. CASE Return(p)
  <2>1. Becomes(p, Idle) /\ UNCHANGED <<row, saved, orphaned>> /\ proc[p].pc = "done"
    BY <1>5 DEF Return, db
  <2>2. proc'[p] = Idle /\ \A q \in Processes : q # p => proc'[q] = proc[q]
    BY <1>2, <2>1, BecomesFacts
  <2> QED BY <2>1, <2>2, LeftQuiet, IdleFacts
<1> QED BY <1>1, <1>3, <1>4, <1>5, LeftApply, LeftExtra, LeftDelete, LeftClear, LeftFill, LeftSave, LeftFails

(***************************************************************************)
(* NoLeftovers: a group whose row is gone has left neither members nor     *)
(* their version, whatever failed on the way.                              *)
(***************************************************************************)
THEOREM NothingLeft == Spec => []NoLeftovers
<1>1. Init => LeftInv
  <2> SUFFICES ASSUME Init PROVE LeftInv
    OBVIOUS
  <2>1. row["members"] = 0 /\ saved["members"] = 0 /\ \A p \in Processes : proc[p] = Idle
    BY DEF Init, Lists
  <2> QED BY <2>1, IdleFacts DEF LeftInv
<1>2. Base /\ Base' /\ LeftInv /\ [Next]_vars => LeftInv'
  <2> SUFFICES ASSUME Base, Base', LeftInv, [Next]_vars PROVE LeftInv'
    OBVIOUS
  <2>1. CASE SyncSteps
    BY <2>1, LeftSync
  <2>2. CASE Others
    <3>1. Calm
      BY <2>2, OthersCalm
    <3>2. UNCHANGED <<row, saved, orphaned>>
      BY <3>1 DEF Calm
    <3>3. \A q \in Processes : proc'[q] = proc[q] \/ (proc[q] = Idle /\ proc'[q].pc = "lock")
      BY <3>1 DEF Calm, Starts
    <3> QED BY <3>2, <3>3, LeftQuiet, IdleFacts
  <2>3. CASE Crash
    <3>1. /\ UNCHANGED db /\ \A q \in Processes : proc'[q] = Idle
          /\ \A q \in Processes : proc[q].pc = "fill" /\ Syncing(proc[q]) = "groups" => orphaned'
          /\ orphaned => orphaned'
      BY <2>3, CrashFacts
    <3> QED BY <3>1, IdleFacts DEF LeftInv, Filling, db
  <2>4. CASE UNCHANGED vars
    BY <2>4, LeftQuiet DEF vars, db, hist
  <2> QED BY <2>1, <2>2, <2>3, <2>4, NextSteps
<1>3. Base /\ LeftInv => NoLeftovers
  <2> SUFFICES ASSUME Base, LeftInv, mutex["group"] = "free" PROVE row["groups"] = 0 /\ ~orphaned => row["members"] = 0 /\ saved["members"] = 0
    BY DEF NoLeftovers
  <2>1. \A p \in Processes : p # "free"
    BY DEF Processes, Pools
  <2>2. \A p \in Processes : Syncing(proc[p]) # "groups"
    BY <2>1 DEF Base, LockInv, GroupLists
  <2> QED BY <2>2 DEF LeftInv, Filling
<1> QED BY <1>1, <1>2, <1>3, BaseAlways, PTL DEF Spec

-----------------------------------------------------------------------------
(***************************************************************************)
(* What a saved version covers, and what the version of an answer will     *)
(* cover when it is saved: RespOK says of each place of a synchronisation  *)
(* what is still to be done for that.                                      *)
(***************************************************************************)
CoverOne(l) == chg[l] <= saved[l] /\ row[l] # 0 => there[l] /\ row[l] = chg[l]
CoverGroup ==
  there["groups"] /\ chg["groups"] <= saved["groups"] /\ chg["groups"] <= saved["members"]
    /\ missed.skipped < chg["groups"] => row["groups"] = chg["groups"]

(* An answer of list l claims no more than it brings or the table has. *)
RespOK(p, l) ==
  /\ saved[l] <= proc[p].resp.ver
  /\ proc[p].pc = "apply" /\ chg[l] <= proc[p].resp.ver
       => proc[p].resp.item = Item(l) \/ (proc[p].resp.item = Same /\ chg[l] <= saved[l])
  /\ l # "groups" /\ proc[p].pc \in {"extra", "save"} /\ chg[l] <= proc[p].resp.ver /\ row[l] # 0
       => there[l] /\ row[l] = chg[l]
(* The same for the group and its data: by the log of the groups, by that of its members. *)
RespGroups(p) ==
  /\ proc[p].pc \in Deleting /\ chg["groups"] <= proc[p].resp.ver => ~there["groups"]
  /\ proc[p].pc \in {"clear", "fill"} => saved["groups"] < chg["groups"]
  /\ proc[p].pc = "save" /\ chg["groups"] <= proc[p].resp.ver /\ there["groups"]
       /\ chg["groups"] <= saved["members"] /\ missed.skipped < chg["groups"] => row["groups"] = chg["groups"]
RespMembers(p) ==
  /\ proc[p].pc \in {"apply", "extra"} /\ chg["groups"] <= proc[p].resp.ver
       => /\ proc[p].resp.info \in {0, chg["groups"]}
          /\ saved["members"] < chg["groups"] => proc[p].resp.info = chg["groups"]
  /\ proc[p].pc = "save" /\ chg["groups"] <= proc[p].resp.ver /\ there["groups"]
       /\ chg["groups"] <= saved["groups"] /\ missed.skipped < chg["groups"] => row["groups"] = chg["groups"]

RespInv(p) ==
  \A l \in Lists \ {"black"} : proc[p].pc \in Answered /\ Syncing(proc[p]) = l =>
    /\ proc[p].resp.ver <= ver[l]
    /\ l \notin raced => RespOK(p, l)
    /\ l = "groups" => RespGroups(p)
    /\ l = "members" => RespMembers(p)

(* What is covered, and what every answer will cover. *)
CoverInv ==
  /\ \A l \in Lists \ {"black"} : saved[l] <= ver[l]
  /\ \A l \in {"members", "friends"} : l \notin raced => CoverOne(l)
  /\ CoverGroup
  /\ \A p \in Processes : RespInv(p)

LEMMA CoverNums ==
  ASSUME Base
  PROVE  /\ now \in Nat /\ row \in [Lists -> 0..now] /\ saved \in [Lists -> 0..now]
         /\ \A l \in Lists : /\ row[l] \in Nat /\ saved[l] \in Nat /\ chg[l] \in Nat /\ ver[l] \in Nat
                             /\ saved[l] <= now /\ chg[l] <= now /\ 1 <= chg[l] /\ chg[l] <= ver[l]
                             /\ there[l] \in BOOLEAN
         /\ missed.skipped \in Nat /\ missed.skipped <= now
         /\ \A p \in Processes : /\ proc[p].resp.ver \in Nat /\ proc[p].resp.ver <= now
                                 /\ proc[p].resp.info \in Nat /\ proc[p].resp.item \in Int
                                 /\ proc[p].resp.item \in -1..now
         /\ "groups" \in Lists /\ "members" \in Lists /\ "friends" \in Lists /\ "black" \in Lists
         /\ raced \subseteq {"friends", "black"}
<1>1. /\ now \in Nat /\ row \in [Lists -> 0..now] /\ saved \in [Lists -> 0..now] /\ chg \in [Lists -> 0..now]
      /\ ver \in [Lists -> 0..now] /\ there \in [Lists -> BOOLEAN]
  BY DEF Base, Typed, TypeServer, TypeDb
<1>2. missed.skipped \in 0..now
  BY DEF Base, Typed, TypeHist
<1>3. ASSUME NEW p \in Processes
      PROVE  proc[p].resp.ver \in 0..now /\ proc[p].resp.info \in 0..now /\ proc[p].resp.item \in -1..now
  BY DEF Base, Typed, TypeProc, Procs, Resps
<1>4. \A l \in Lists : 1 <= chg[l] /\ chg[l] <= ver[l]
  BY DEF Base, ServerInv
<1> QED BY <1>1, <1>2, <1>3, <1>4 DEF Base, LockInv, Lists

(* Two processes are at one list, or at the lists of a group, only if it is raced. *)
Area(l) == IF l \in GroupLists THEN GroupLists ELSE {l}

LEMMA Apart ==
  ASSUME Base, NEW p \in Processes, NEW q \in Processes, p # q, NEW l \in Lists, Syncing(proc[q]) = l,
         l \notin raced
  PROVE  Syncing(proc[p]) \in Lists => l \notin Area(Syncing(proc[p]))
<1>1. "none" \notin Lists
  BY DEF Lists
<1> QED BY <1>1 DEF Base, LockInv, Area

(* Nothing of this changes, and who is at an answer was there. *)
LEMMA CoverQuiet ==
  ASSUME CoverInv, UNCHANGED <<there, chg, ver, row, saved>>, missed'.skipped = missed.skipped, raced \subseteq raced',
         \A q \in Processes : proc'[q] = proc[q] \/ proc'[q].pc \notin Answered
  PROVE  CoverInv'
<1>1. \A l \in {"members", "friends"} : l \notin raced' => CoverOne(l)'
  BY DEF CoverInv, CoverOne
<1>2. CoverGroup'
  BY DEF CoverInv, CoverGroup
<1>3. ASSUME NEW p \in Processes PROVE RespInv(p)'
  <2>1. CASE proc'[p] = proc[p]
    <3>1. ASSUME NEW l \in Lists \ {"black"}, proc[p].pc \in Answered, Syncing(proc[p]) = l
          PROVE  /\ proc[p].resp.ver <= ver'[l]
                 /\ l \notin raced' => RespOK(p, l)'
                 /\ l = "groups" => RespGroups(p)'
                 /\ l = "members" => RespMembers(p)'
      <4>1. /\ proc[p].resp.ver <= ver[l] /\ (l \notin raced => RespOK(p, l))
            /\ (l = "groups" => RespGroups(p)) /\ (l = "members" => RespMembers(p))
        BY <3>1 DEF CoverInv, RespInv
      <4>2. RespOK(p, l) => RespOK(p, l)'
        BY <2>1 DEF RespOK, Item
      <4>3. RespGroups(p) => RespGroups(p)'
        BY <2>1 DEF RespGroups
      <4>4. RespMembers(p) => RespMembers(p)'
        BY <2>1 DEF RespMembers
      <4> QED BY <4>1, <4>2, <4>3, <4>4
    <3> QED BY <2>1, <3>1 DEF RespInv
  <2>2. CASE proc'[p].pc \notin Answered
    BY <2>2 DEF RespInv
  <2> QED BY <2>1, <2>2
<1> QED BY <1>1, <1>2, <1>3 DEF CoverInv

(* A step of p at a list of the area. *)
LEMMA CoverMove ==
  ASSUME Base, CoverInv, UNCHANGED server, NEW p \in Processes, NEW r, Becomes(p, r),
         NEW A, Syncing(proc[p]) \in Lists, A = Area(Syncing(proc[p])),
         \A l \in Lists \ A : row'[l] = row[l] /\ saved'[l] = saved[l],
         A # GroupLists => missed'.skipped = missed.skipped,
         \A l \in A \ {"black"} : saved'[l] <= ver[l],
         A = GroupLists => CoverGroup',
         \A l \in A \cap {"members", "friends"} : l \notin raced' => CoverOne(l)',
         RespInv(p)'
  PROVE  CoverInv'
<1>1. /\ proc'[p] = r /\ \A q \in Processes : q # p => proc'[q] = proc[q]
      /\ raced \subseteq raced'
  BY BecomesFacts DEF Base, Typed, TypeProc
<1>2. UNCHANGED <<there, chg, ver>>
  BY DEF server
<1>3. \A l \in Lists \ {"black"} : saved'[l] <= ver'[l]
  BY <1>2 DEF CoverInv
<1>4. ASSUME NEW l \in {"members", "friends"}, l \notin raced' PROVE CoverOne(l)'
  <2>1. CASE l \in A
    BY <1>4, <2>1
  <2>2. CASE l \notin A
    BY <1>1, <1>2, <1>4, <2>2 DEF CoverInv, CoverOne, Lists
  <2> QED BY <2>1, <2>2
<1>5. CoverGroup'
  <2>1. CASE A = GroupLists
    BY <2>1
  <2>2. CASE A # GroupLists
    <3>1. "groups" \notin A /\ "members" \notin A
      BY <2>2 DEF Area, GroupLists
    <3>2. /\ row'["groups"] = row["groups"] /\ saved'["groups"] = saved["groups"]
          /\ saved'["members"] = saved["members"] /\ missed'.skipped = missed.skipped
      BY <2>2, <3>1 DEF Lists
    <3> QED BY <1>2, <3>2 DEF CoverInv, CoverGroup
  <2> QED BY <2>1, <2>2
<1>6. ASSUME NEW q \in Processes, q # p PROVE RespInv(q)'
  <2>1. ASSUME NEW l \in Lists \ {"black"}, proc[q].pc \in Answered, Syncing(proc[q]) = l
        PROVE  /\ proc[q].resp.ver <= ver'[l]
               /\ l \notin raced' => RespOK(q, l)'
               /\ l = "groups" => RespGroups(q)'
               /\ l = "members" => RespMembers(q)'
    <3>1. /\ proc[q].resp.ver <= ver[l] /\ (l \notin raced => RespOK(q, l))
          /\ (l = "groups" => RespGroups(q)) /\ (l = "members" => RespMembers(q))
      BY <2>1 DEF CoverInv, RespInv
    <3>2. proc'[q] = proc[q]
      BY <1>1, <1>6
    <3>3. CASE l \in raced
      <4>1. l # "groups" /\ l # "members"
        BY <3>3 DEF Base, LockInv
      <4> QED BY <1>1, <1>2, <3>1, <3>3, <4>1
    <3>4. CASE l \notin raced
      <4>1. l \notin A
        BY <1>6, <2>1, <3>4, Apart
      <4>2. row'[l] = row[l] /\ saved'[l] = saved[l]
        BY <2>1, <4>1
      <4>3. RespOK(q, l)'
        BY <1>2, <3>1, <3>2, <3>4, <4>2 DEF RespOK, Item
      <4>4. ASSUME l \in GroupLists
            PROVE  /\ row'["groups"] = row["groups"] /\ saved'["groups"] = saved["groups"]
                   /\ saved'["members"] = saved["members"] /\ missed'.skipped = missed.skipped
        <5>1. A # GroupLists /\ "groups" \notin A /\ "members" \notin A
          BY <4>1, <4>4 DEF Area, GroupLists
        <5> QED BY <5>1 DEF Lists
      <4>5. l = "groups" => RespGroups(q)'
        BY <1>2, <3>1, <3>2, <4>4 DEF RespGroups, GroupLists
      <4>6. l = "members" => RespMembers(q)'
        BY <1>2, <3>1, <3>2, <4>4 DEF RespMembers, GroupLists
      <4> QED BY <1>2, <3>1, <4>3, <4>5, <4>6
    <3> QED BY <3>3, <3>4
  <2>2. proc'[q] = proc[q]
    BY <1>1, <1>6
  <2> QED BY <2>1, <2>2 DEF RespInv
<1> QED BY <1>3, <1>4, <1>5, <1>6 DEF CoverInv

LEMMA AreaFacts ==
  ASSUME NEW l \in Lists
  PROVE  /\ Area(l) = GroupLists <=> l \in GroupLists
         /\ l \in GroupLists => Area(l) = GroupLists
         /\ l \notin GroupLists => Area(l) = {l} /\ "groups" \notin Area(l) /\ "members" \notin Area(l)
         /\ l \in Area(l)
BY DEF Area, GroupLists, Lists

LEMMA CoverGiven ==
  ASSUME Base, CoverInv, NEW p \in Processes, proc[p].pc = "fetch", NEW a, Given1(p, a), Becomes(p, Given(p, a)),
         UNCHANGED <<server, row, saved, missed>>
  PROVE  CoverInv'
<1> DEFINE l == Now(p)
<1>1. Syncing(proc[p]) = l /\ l \in Lists /\ proc \in [Processes -> Procs]
  BY AtList
<1>2. a \in Resps /\ (l = "black" => ~a.full) /\ (l # "members" => a.info = 0)
  BY Given1Facts
<1>3. Given(p, a).resp = a /\ Given(p, a).pc = (IF a.full THEN "clear" ELSE "apply") /\ Syncing(Given(p, a)) = l
  BY <1>1, <1>2, GivenFacts, GivenFits
<1>4. proc'[p] = Given(p, a) /\ raced \subseteq raced'
  BY <1>1, BecomesFacts
<1>5. UNCHANGED <<there, chg, ver, row, saved, missed>>
  BY DEF server
<1>6. CoverGroup' /\ \A k \in {"members", "friends"} : k \notin raced' => CoverOne(k)'
  BY <1>4, <1>5 DEF CoverInv, CoverGroup, CoverOne
<1>7. /\ saved[l] \in Nat /\ chg[l] \in Nat /\ ver[l] \in Nat /\ a.ver \in Nat /\ a.item \in Int
      /\ (l # "black" => saved[l] <= ver[l])
  BY <1>1, <1>2, CoverNums DEF CoverInv, Resps
<1>8. l # "black" => /\ saved[l] <= a.ver /\ a.ver <= ver[l]
                     /\ ~a.full /\ chg[l] <= a.ver => a.item = Item(l) \/ (a.item = Same /\ chg[l] <= saved[l])
                     /\ l = "groups" /\ a.full => saved["groups"] < chg["groups"]
                     /\ l = "members" /\ ~a.full /\ chg["groups"] <= a.ver
                          => /\ a.info \in {0, chg["groups"]}
                             /\ saved["members"] < chg["groups"] => a.info = chg["groups"]
  <2>1. /\ l # "black" => /\ Answer(l).ver = ver[l] /\ Answer(l).full = (saved[l] < floor[l])
                          /\ Answer(l).item = IF chg[l] > saved[l] THEN Item(l) ELSE Same
        /\ l = "members" => Answer(l).info = IF chg["groups"] > saved["members"] THEN chg["groups"] ELSE 0
    BY <1>1, AnswerFacts DEF Base, Typed
  <2>2. /\ floor["groups"] <= ver["groups"] /\ ver["groups"] = chg["groups"] /\ chg["groups"] \in Nat
        /\ saved["groups"] \in Nat /\ saved["members"] \in Nat /\ floor["groups"] \in Nat
    <3>1. "groups" \in Lists /\ "members" \in Lists /\ floor["groups"] \in 0..now
      BY DEF Lists, Base, Typed, TypeServer
    <3> QED BY <3>1, CoverNums DEF Base, ServerInv
  <2>3. ASSUME NEW b, l # "black", b.ver = ver[l], b.full = (saved[l] < floor[l]),
               b.item = (IF chg[l] > saved[l] THEN Item(l) ELSE Same),
               l = "members" => b.info = IF chg["groups"] > saved["members"] THEN chg["groups"] ELSE 0
        PROVE  /\ saved[l] <= b.ver /\ b.ver <= ver[l]
               /\ ~b.full /\ chg[l] <= b.ver => b.item = Item(l) \/ (b.item = Same /\ chg[l] <= saved[l])
               /\ l = "groups" /\ b.full => saved["groups"] < chg["groups"]
               /\ l = "members" /\ ~b.full /\ chg["groups"] <= b.ver
                    => /\ b.info \in {0, chg["groups"]}
                       /\ saved["members"] < chg["groups"] => b.info = chg["groups"]
    <3>1. saved[l] <= b.ver /\ b.ver <= ver[l]
      BY <1>7, <2>3
    <3>2. ~(chg[l] > saved[l]) <=> chg[l] <= saved[l]
      BY <1>7
    <3>3. b.item = Item(l) \/ (b.item = Same /\ chg[l] <= saved[l])
      BY <2>3, <3>2
    <3>4. l = "groups" /\ b.full => saved["groups"] < chg["groups"]
      <4>1. l = "groups" /\ b.full => saved["groups"] < floor["groups"]
        BY <2>3
      <4> QED BY <2>2, <4>1
    <3>5. l = "members" => b.info \in {0, chg["groups"]} /\ (saved["members"] < chg["groups"] => b.info = chg["groups"])
      BY <2>2, <2>3
    <3> QED BY <3>1, <3>3, <3>4, <3>5
  <2>4. CASE a = Answer(l)
    BY <2>1, <2>3, <2>4
  <2>5. CASE l = "members" /\ a = [Answer("members") EXCEPT !.push = TRUE]
    <3>1. Answer("members") \in Resps
      BY <1>1, <2>5, AnswerFacts DEF Base, Typed
    <3>2. a.ver = Answer(l).ver /\ a.full = Answer(l).full /\ a.item = Answer(l).item /\ a.info = Answer(l).info
      BY <2>5, <3>1 DEF Resps
    <3> QED BY <2>1, <2>3, <2>5, <3>2
  <2>6. CASE /\ l = "members" /\ p = "worker" /\ queue # <<>> /\ queue[1].kind = "push"
             /\ saved["members"] = queue[1].arg /\ a = queue[1].resp
    <3>1. PushOK(queue[1])
      <4>1. queue[1] \in Queued
        BY <2>6 DEF Queued, Base, Typed, TypeProc
      <4> QED BY <2>6, <4>1 DEF Base, QueueInv
    <3> QED BY <1>7, <2>2, <2>6, <3>1 DEF PushOK
  <2> QED BY <2>4, <2>5, <2>6 DEF Given1
<1>9. RespInv(p)'
  <2> SUFFICES ASSUME NEW k \in Lists \ {"black"}, Syncing(proc'[p]) = k
               PROVE  /\ proc'[p].resp.ver <= ver'[k]
                      /\ k \notin raced' => RespOK(p, k)'
                      /\ k = "groups" => RespGroups(p)'
                      /\ k = "members" => RespMembers(p)'
    BY DEF RespInv
  <2>1. k = l /\ l # "black" /\ proc'[p].resp = a /\ proc'[p].pc = (IF a.full THEN "clear" ELSE "apply")
    BY <1>3, <1>4
  <2> HIDE DEF l
  <2>2. RespOK(p, k)'
    BY <1>5, <1>8, <2>1 DEF RespOK, Item
  <2>3. k = "groups" => RespGroups(p)'
    BY <1>5, <1>8, <2>1 DEF RespGroups, Deleting
  <2>4. k = "members" => RespMembers(p)'
    BY <1>5, <1>8, <2>1 DEF RespMembers
  <2> QED BY <1>5, <1>8, <2>1, <2>2, <2>3, <2>4
<1>10. \A k \in Lists \ {"black"} : saved[k] <= ver[k]
  BY DEF CoverInv
<1>11. Area(l) \subseteq Lists
  BY <1>1 DEF Area, GroupLists, Lists
<1> HIDE DEF l
<1> DEFINE A == Area(l)
<1>12. A = Area(Syncing(proc[p])) /\ A \subseteq Lists /\ missed' = missed /\ Syncing(proc[p]) \in Lists
  BY <1>1, <1>5, <1>11
<1> HIDE DEF A
<1> QED BY <1>5, <1>6, <1>9, <1>10, <1>12, CoverMove

-----------------------------------------------------------------------------
(* What the invariant says of the place that p leaves. *)
LEMMA CoverHere ==
  ASSUME Base, CoverInv, NEW p \in Processes, proc[p].pc \in Answered
  PROVE  LET l == Now(p) IN
         /\ l \in Lists /\ Syncing(proc[p]) = l /\ proc \in [Processes -> Procs] /\ proc[p].todo # <<>>
         /\ l # "black" => proc[p].resp.ver <= ver[l] /\ saved[l] <= ver[l]
         /\ l # "black" /\ l \notin raced => RespOK(p, l)
         /\ l = "groups" => RespGroups(p) /\ RespOK(p, "groups") /\ proc[p].resp.info = 0
         /\ l = "members" => RespMembers(p) /\ RespOK(p, "members")
         /\ Area(l) \subseteq Lists
<1>1. /\ Now(p) \in Lists /\ Syncing(proc[p]) = Now(p) /\ proc \in [Processes -> Procs] /\ proc[p].todo # <<>>
      /\ Fits(proc[p])
  BY AtList
<1>2. Now(p) # "members" => proc[p].resp.info = 0
  BY <1>1 DEF Fits, Now
<1>3. "groups" \notin raced /\ "members" \notin raced
  BY CoverNums
<1>4. RespInv(p)
  BY DEF CoverInv
<1>5. Area(Now(p)) \subseteq Lists
  BY <1>1 DEF Area, GroupLists, Lists
<1> QED BY <1>1, <1>2, <1>3, <1>4, <1>5 DEF RespInv, CoverInv

(* A step that leaves the list: nothing is left to be said of p. *)
LEMMA CoverLeave ==
  ASSUME Base, CoverInv, UNCHANGED server, NEW p \in Processes, NEW r, Becomes(p, r), r.pc \notin Answered
  PROVE  RespInv(p)' /\ raced \subseteq raced'
<1>1. proc'[p] = r /\ raced \subseteq raced'
  BY BecomesFacts DEF Base, Typed, TypeProc
<1> QED BY <1>1 DEF RespInv

LEMMA OntoHere ==
  ASSUME Base, NEW p \in Processes, proc[p].pc \in Answered, NEW pc \in Places, pc \in Answered, Becomes(p, Onto(p, pc))
  PROVE  /\ proc'[p].pc = pc /\ proc'[p].resp = proc[p].resp /\ Syncing(proc'[p]) = Now(p)
         /\ raced \subseteq raced'
<1>1. proc \in [Processes -> Procs]
  BY DEF Base, Typed, TypeProc
<1>2. Onto(p, pc).pc = pc /\ Onto(p, pc).todo = proc[p].todo /\ Onto(p, pc).resp = proc[p].resp
  BY <1>1, OntoFacts
<1>3. proc'[p] = Onto(p, pc) /\ raced \subseteq raced'
  BY <1>1, BecomesFacts
<1> QED BY <1>2, <1>3 DEF Syncing, Now, Answered

LEMMA CoverSave == ASSUME Base, CoverInv, NEW p \in Processes, Save(p) PROVE CoverInv'
<1> DEFINE l == Now(p)
           A == Area(l)
<1>1. /\ proc[p].pc = "save" /\ l \in Lists \ {"black"} /\ UNCHANGED <<server, row, missed>>
      /\ saved' = [saved EXCEPT ![l] = proc[p].resp.ver] /\ Becomes(p, NextList(p))
  BY SaveFacts
<1>2. /\ Syncing(proc[p]) = l /\ proc[p].resp.ver <= ver[l]
      /\ l \notin raced => RespOK(p, l)
      /\ l = "groups" => RespGroups(p)
      /\ l = "members" => RespMembers(p)
      /\ A \subseteq Lists
  BY <1>1, CoverHere DEF Answered
<1>3. NextList(p).pc \notin Answered
  BY <1>1, <1>2, NextMoves DEF Lists, Answered
<1>4. RespInv(p)' /\ raced \subseteq raced'
  BY <1>1, <1>3, CoverLeave
<1>5. saved'[l] = proc[p].resp.ver /\ \A k \in Lists : k # l => saved'[k] = saved[k]
  BY <1>1, CoverNums
<1>6. \A k \in Lists \ {"black"} : saved'[k] <= ver[k]
  BY <1>2, <1>5 DEF CoverInv
<1>7. UNCHANGED <<there, chg, row, missed>>
  BY <1>1 DEF server
<1>8. ASSUME NEW k \in {"members", "friends"}, k \notin raced' PROVE CoverOne(k)'
  <2>1. k \notin raced /\ CoverOne(k)
    BY <1>4, <1>8 DEF CoverInv
  <2>2. CASE k = l
    BY <1>1, <1>2, <1>5, <1>7, <2>1, <2>2 DEF RespOK, CoverOne
  <2>3. CASE k # l
    BY <1>5, <1>7, <2>1, <2>3 DEF CoverOne, Lists
  <2> QED BY <2>2, <2>3
<1>9. CoverGroup'
  <2>1. "groups" \in Lists /\ "members" \in Lists
    BY CoverNums
  <2>2. CASE l = "groups"
    <3>1. saved'["groups"] = proc[p].resp.ver /\ saved'["members"] = saved["members"] /\ RespGroups(p)
      BY <1>2, <1>5, <2>1, <2>2
    <3> QED BY <1>1, <1>7, <3>1 DEF CoverGroup, RespGroups
  <2>3. CASE l = "members"
    <3>1. saved'["members"] = proc[p].resp.ver /\ saved'["groups"] = saved["groups"] /\ RespMembers(p)
      BY <1>2, <1>5, <2>1, <2>3
    <3> QED BY <1>1, <1>7, <3>1 DEF CoverGroup, RespMembers
  <2>4. CASE l \notin GroupLists
    <3>1. saved'["members"] = saved["members"] /\ saved'["groups"] = saved["groups"]
      BY <1>5, <2>1, <2>4 DEF GroupLists
    <3> QED BY <1>7, <3>1 DEF CoverGroup, CoverInv
  <2> QED BY <2>2, <2>3, <2>4 DEF GroupLists
<1>10. l \in A /\ A = Area(Syncing(proc[p])) /\ Syncing(proc[p]) \in Lists
  BY <1>1, <1>2, AreaFacts
<1> HIDE DEF l, A
<1> QED BY <1>1, <1>2, <1>4, <1>5, <1>6, <1>7, <1>8, <1>9, <1>10, CoverMove

LEMMA CoverFill == ASSUME Base, CoverInv, NEW p \in Processes, Fill(p) PROVE CoverInv'
<1> DEFINE l == Now(p)
           A == Area(l)
<1>1. /\ proc[p].pc = "fill" /\ l \in Lists \ {"black"} /\ UNCHANGED <<server, saved>>
      /\ row' = [row EXCEPT ![l] = Item(l)] /\ Becomes(p, Onto(p, "save"))
      /\ missed' = (IF l = "members" THEN [missed EXCEPT !.skipped = chg["groups"]] ELSE missed)
  BY FillFacts
<1>2. /\ Syncing(proc[p]) = l /\ proc[p].resp.ver <= ver[l]
      /\ l \notin raced => RespOK(p, l)
      /\ l = "groups" => RespGroups(p)
      /\ A \subseteq Lists
  BY <1>1, CoverHere DEF Answered
<1>3. /\ proc'[p].pc = "save" /\ proc'[p].resp = proc[p].resp /\ Syncing(proc'[p]) = l
      /\ raced \subseteq raced'
  BY <1>1, OntoHere DEF Answered, Places
<1>4. UNCHANGED <<there, chg, ver, saved>>
  BY <1>1 DEF server
<1>5. row'[l] = Item(l) /\ \A k \in Lists : k # l => row'[k] = row[k]
  BY <1>1, CoverNums
<1>6. l = "members" => missed'.skipped = chg["groups"]
  <2>1. missed \in [skipped : 0..now, setBack : 0..now, emptied : 0..now]
    BY DEF Base, Typed, TypeHist
  <2> QED BY <1>1, <2>1
<1>7. ASSUME NEW k \in {"members", "friends"}, k \notin raced' PROVE CoverOne(k)'
  <2>1. k \notin raced /\ CoverOne(k) /\ k \in Lists
    BY <1>3, <1>7 DEF CoverInv, Lists
  <2>2. CASE k = l
    BY <1>4, <1>5, <2>1, <2>2 DEF CoverOne, Item
  <2>3. CASE k # l
    BY <1>4, <1>5, <2>1, <2>3 DEF CoverOne
  <2> QED BY <2>2, <2>3
<1>8. CoverGroup'
  <2>1. "groups" \in Lists /\ chg["groups"] \in Nat /\ CoverGroup
    BY CoverNums DEF CoverInv
  <2>2. CASE l = "groups"
    BY <1>4, <1>5, <2>1, <2>2 DEF CoverGroup, Item
  <2>3. CASE l = "members"
    BY <1>4, <1>6, <2>1, <2>3 DEF CoverGroup
  <2>4. CASE l \notin GroupLists
    <3>1. row'["groups"] = row["groups"] /\ missed' = missed
      BY <1>1, <1>5, <2>1, <2>4 DEF GroupLists
    <3> QED BY <1>4, <2>1, <3>1 DEF CoverGroup
  <2> QED BY <2>2, <2>3, <2>4 DEF GroupLists
<1>9. RespInv(p)'
  <2> SUFFICES ASSUME NEW k \in Lists \ {"black"}, k = l
               PROVE  /\ proc'[p].resp.ver <= ver'[k]
                      /\ k \notin raced' => RespOK(p, k)'
                      /\ k = "groups" => RespGroups(p)'
                      /\ k = "members" => RespMembers(p)'
    BY <1>3 DEF RespInv
  <2>1. k \notin raced' => RespOK(p, k)'
    <3>1. "save" # "apply"
      OBVIOUS
    <3> QED BY <1>2, <1>3, <1>4, <1>5, <3>1 DEF RespOK, Item
  <2>2. k = "groups" => RespGroups(p)'
    BY <1>3, <1>4, <1>5 DEF RespGroups, Item, Deleting
  <2>3. k = "members" => RespMembers(p)'
    <3>1. chg["groups"] \in Nat
      BY CoverNums
    <3> QED BY <1>3, <1>4, <1>6, <3>1 DEF RespMembers
  <2> HIDE DEF l
  <2> QED BY <1>2, <1>3, <1>4, <2>1, <2>2, <2>3
<1>10. l \in A /\ A = Area(Syncing(proc[p])) /\ Syncing(proc[p]) \in Lists /\ (A # GroupLists => l # "members")
  BY <1>1, <1>2, AreaFacts DEF GroupLists
<1>11. \A k \in Lists \ {"black"} : saved'[k] <= ver[k]
  BY <1>4 DEF CoverInv
<1>12. A # GroupLists => missed' = missed
  BY <1>1, <1>10
<1> HIDE DEF l, A
<1> QED BY <1>1, <1>2, <1>4, <1>5, <1>7, <1>8, <1>9, <1>10, <1>11, <1>12, CoverMove

LEMMA CoverClear == ASSUME Base, CoverInv, NEW p \in Processes, Clear(p) PROVE CoverInv'
<1> DEFINE l == Now(p)
           A == Area(l)
<1>1. /\ proc[p].pc = "clear" /\ UNCHANGED <<server, saved, missed>>
      /\ row' = [row EXCEPT ![l] = 0] /\ Becomes(p, Onto(p, "fill"))
  BY DEF Clear, Now
<1>2. /\ l \in Lists /\ Syncing(proc[p]) = l /\ (l # "black" => proc[p].resp.ver <= ver[l])
      /\ l # "black" /\ l \notin raced => RespOK(p, l)
      /\ l = "groups" => RespGroups(p)
      /\ A \subseteq Lists
  BY <1>1, CoverHere DEF Answered
<1>3. /\ proc'[p].pc = "fill" /\ proc'[p].resp = proc[p].resp /\ Syncing(proc'[p]) = l
      /\ raced \subseteq raced'
  BY <1>1, OntoHere DEF Answered, Places
<1>4. UNCHANGED <<there, chg, ver, saved, missed>>
  BY <1>1 DEF server
<1>5. row'[l] = 0 /\ \A k \in Lists : k # l => row'[k] = row[k]
  BY <1>1, <1>2, CoverNums
<1>6. ASSUME NEW k \in {"members", "friends"}, k \notin raced' PROVE CoverOne(k)'
  <2>1. k \notin raced /\ CoverOne(k) /\ k \in Lists
    BY <1>3, <1>6 DEF CoverInv, Lists
  <2>2. CASE k = l
    BY <1>4, <1>5, <2>1, <2>2 DEF CoverOne, Item
  <2>3. CASE k # l
    BY <1>4, <1>5, <2>1, <2>3 DEF CoverOne
  <2> QED BY <2>2, <2>3
<1>7. CoverGroup'
  <2>1. "groups" \in Lists /\ chg["groups"] \in Nat /\ CoverGroup /\ saved["groups"] \in Nat
    BY CoverNums DEF CoverInv
  <2>2. CASE l = "groups"
    <3>1. saved["groups"] < chg["groups"]
      BY <1>1, <1>2, <2>2 DEF RespGroups
    <3> QED BY <1>4, <2>1, <3>1 DEF CoverGroup
  <2>3. CASE l # "groups"
    BY <1>4, <1>5, <2>1, <2>3 DEF CoverGroup
  <2> QED BY <2>2, <2>3
<1>8. RespInv(p)'
  <2> SUFFICES ASSUME NEW k \in Lists \ {"black"}, k = l
               PROVE  /\ proc'[p].resp.ver <= ver'[k]
                      /\ k \notin raced' => RespOK(p, k)'
                      /\ k = "groups" => RespGroups(p)'
                      /\ k = "members" => RespMembers(p)'
    BY <1>3 DEF RespInv
  <2>1. k \notin raced' => RespOK(p, k)'
    BY <1>2, <1>3, <1>4, <1>5 DEF RespOK, Item
  <2>2. k = "groups" => RespGroups(p)'
    BY <1>1, <1>2, <1>3, <1>4 DEF RespGroups, Deleting
  <2>3. k = "members" => RespMembers(p)'
    BY <1>3 DEF RespMembers
  <2> HIDE DEF l
  <2> QED BY <1>2, <1>3, <1>4, <2>1, <2>2, <2>3
<1>9. l \in A /\ A = Area(Syncing(proc[p])) /\ Syncing(proc[p]) \in Lists
  BY <1>2, AreaFacts
<1>10. \A k \in Lists \ {"black"} : saved'[k] <= ver[k]
  BY <1>4 DEF CoverInv
<1> HIDE DEF l, A
<1> QED BY <1>1, <1>2, <1>4, <1>5, <1>6, <1>7, <1>8, <1>9, <1>10, CoverMove

LEMMA CoverDelete == ASSUME Base, CoverInv, NEW p \in Processes, DeleteGroup(p) PROVE CoverInv'
<1>1. /\ proc[p].pc \in Deleting /\ Now(p) = "groups" /\ UNCHANGED <<server, missed>>
      /\ proc[p].pc = "del1" => /\ row' = [row EXCEPT !["members"] = 0] /\ UNCHANGED saved
                                /\ Becomes(p, Onto(p, "del2"))
      /\ proc[p].pc = "del2" => /\ saved' = [saved EXCEPT !["members"] = 0] /\ UNCHANGED row
                                /\ Becomes(p, Onto(p, "del3"))
      /\ proc[p].pc = "del3" => /\ row' = [row EXCEPT !["groups"] = 0] /\ UNCHANGED saved
                                /\ Becomes(p, Onto(p, "save"))
  BY DeleteFacts
<1>2. proc[p].pc \in Answered
  BY <1>1 DEF Deleting, Answered
<1>3. /\ Syncing(proc[p]) = "groups" /\ proc[p].resp.ver <= ver["groups"]
      /\ RespOK(p, "groups") /\ RespGroups(p)
  BY <1>1, <1>2, CoverHere
<1>4. PICK pc \in {"del2", "del3", "save"} : Becomes(p, Onto(p, pc))
  BY <1>1 DEF Deleting
<1>5. /\ proc'[p].pc = pc /\ proc'[p].resp = proc[p].resp /\ Syncing(proc'[p]) = "groups"
      /\ raced \subseteq raced'
  BY <1>1, <1>2, <1>4, OntoHere DEF Answered, Places
<1>6. UNCHANGED <<there, chg, ver, missed>>
  BY <1>1 DEF server
<1>7. /\ "groups" \in Lists /\ "members" \in Lists /\ "friends" \in Lists
      /\ \A l \in Lists : row[l] \in Nat /\ saved[l] \in Nat /\ chg[l] \in Nat /\ 1 <= chg[l] /\ ver[l] \in Nat
      /\ row \in [Lists -> 0..now] /\ saved \in [Lists -> 0..now] /\ proc[p].resp.ver \in Nat
  BY CoverNums
<1>8. /\ row'["members"] \in {0, row["members"]} /\ row'["groups"] \in {0, row["groups"]}
      /\ row'["groups"] = 0 \/ row'["groups"] = row["groups"]
      /\ row'["groups"] # row["groups"] => proc[p].pc = "del3"
      /\ saved'["members"] \in {0, saved["members"]} /\ saved'["groups"] = saved["groups"]
      /\ \A l \in Lists \ GroupLists : row'[l] = row[l] /\ saved'[l] = saved[l]
  <2>1. CASE proc[p].pc = "del1" BY <1>1, <1>7, <2>1 DEF GroupLists
  <2>2. CASE proc[p].pc = "del2" BY <1>1, <1>7, <2>2 DEF GroupLists
  <2>3. CASE proc[p].pc = "del3" BY <1>1, <1>7, <2>3 DEF GroupLists
  <2> QED BY <1>1, <2>1, <2>2, <2>3 DEF Deleting
<1>9. chg["groups"] <= saved["groups"] => ~there["groups"]
  <2>1. saved["groups"] <= proc[p].resp.ver
    BY <1>3 DEF RespOK
  <2> QED BY <1>1, <1>3, <1>7, <2>1 DEF RespGroups
<1>10. CoverGroup'
  BY <1>6, <1>8, <1>9 DEF CoverGroup
<1>11. CoverOne("members")'
  <2>1. CoverOne("members")
    BY CoverNums DEF CoverInv
  <2> QED BY <1>6, <1>7, <1>8, <2>1 DEF CoverOne
<1>12. RespInv(p)'
  <2>1. RespOK(p, "groups")'
    <3>1. saved'["groups"] <= proc'[p].resp.ver
      BY <1>3, <1>5, <1>8 DEF RespOK
    <3> QED BY <1>5, <3>1 DEF RespOK
  <2>2. RespGroups(p)'
    <3>1. chg["groups"] <= proc[p].resp.ver => ~there["groups"]
      BY <1>1, <1>3 DEF RespGroups
    <3> QED BY <1>5, <1>6, <3>1 DEF RespGroups
  <2> QED BY <1>3, <1>5, <1>6, <2>1, <2>2 DEF RespInv
<1>13. Area("groups") = GroupLists
  BY <1>7, AreaFacts DEF GroupLists
<1>14. \A l \in GroupLists : saved'[l] <= ver[l]
  BY <1>7, <1>8 DEF CoverInv, GroupLists
<1>15. \A l \in GroupLists \cap {"members", "friends"} : l = "members"
  BY DEF GroupLists
<1> QED BY <1>1, <1>3, <1>4, <1>7, <1>8, <1>10, <1>11, <1>12, <1>13, <1>14, <1>15, CoverMove

LEMMA CoverExtra == ASSUME Base, CoverInv, NEW p \in Processes, Extra(p) PROVE CoverInv'
<1>1. /\ proc[p].pc = "extra" /\ Now(p) = "members" /\ proc[p].resp.info \in 1..now /\ UNCHANGED server
      /\ SyncItem("groups", proc[p].resp.info) /\ Becomes(p, Onto(p, "save"))
      /\ missed' = (IF row["groups"] = 0 \/ proc[p].resp.info < row["groups"]
                    THEN [missed EXCEPT !.setBack = chg["groups"]] ELSE missed)
  BY ExtraFacts
<1>2. /\ Syncing(proc[p]) = "members" /\ proc[p].resp.ver <= ver["members"]
      /\ RespOK(p, "members") /\ RespMembers(p)
  BY <1>1, CoverHere DEF Answered
<1>3. /\ proc'[p].pc = "save" /\ proc'[p].resp = proc[p].resp /\ Syncing(proc'[p]) = "members"
      /\ raced \subseteq raced'
  BY <1>1, OntoHere DEF Answered, Places
<1>4. UNCHANGED <<there, chg, ver, saved>> /\ missed'.skipped = missed.skipped
  <2>1. missed \in [skipped : 0..now, setBack : 0..now, emptied : 0..now]
    BY DEF Base, Typed, TypeHist
  <2> QED BY <1>1, <2>1 DEF server, SyncItem
<1>5. /\ "groups" \in Lists /\ "members" \in Lists /\ "friends" \in Lists
      /\ \A l \in Lists : row[l] \in Nat /\ saved[l] \in Nat /\ chg[l] \in Nat /\ 1 <= chg[l] /\ ver[l] \in Nat
      /\ proc[p].resp.ver \in Nat /\ now \in Nat
  BY CoverNums
<1>6. /\ row'["groups"] = proc[p].resp.info /\ row'["members"] \in {0, row["members"]}
      /\ \A l \in Lists \ GroupLists : row'[l] = row[l]
  <2>1. proc[p].resp.info \in 0..now
    BY <1>1, <1>5
  <2>2. /\ row'["groups"] = proc[p].resp.info
        /\ \A k \in Lists \ {"groups", "members"} : row'[k] = row[k]
        /\ row'["members"] = IF proc[p].resp.info = over /\ row["groups"] \notin {0, proc[p].resp.info}
                             THEN 0 ELSE row["members"]
    BY <1>1, <1>5, <2>1, SyncItemFacts
  <2> QED BY <2>2 DEF GroupLists
<1>7. chg["groups"] <= proc[p].resp.ver => proc[p].resp.info = chg["groups"]
  <2>1. proc[p].resp.info # 0
    BY <1>1, <1>5
  <2> QED BY <1>1, <1>2, <2>1 DEF RespMembers
<1>8. saved["members"] <= proc[p].resp.ver
  BY <1>2 DEF RespOK
<1>9. CoverGroup'
  BY <1>4, <1>5, <1>6, <1>7, <1>8 DEF CoverGroup
<1>10. CoverOne("members")'
  <2>1. CoverOne("members")
    BY CoverNums DEF CoverInv
  <2> QED BY <1>4, <1>6, <2>1 DEF CoverOne
<1>11. RespInv(p)'
  <2>1. RespOK(p, "members")'
    BY <1>1, <1>2, <1>3, <1>4, <1>6 DEF RespOK
  <2>2. RespMembers(p)'
    BY <1>3, <1>4, <1>6, <1>7 DEF RespMembers
  <2> QED BY <1>2, <1>3, <1>4, <2>1, <2>2 DEF RespInv
<1>12. Area("members") = GroupLists
  BY <1>5, AreaFacts DEF GroupLists
<1>13. \A l \in GroupLists : saved'[l] <= ver[l]
  BY <1>4, <1>5 DEF CoverInv, GroupLists
<1>14. \A l \in GroupLists \cap {"members", "friends"} : l = "members"
  BY DEF GroupLists
<1> QED BY <1>1, <1>2, <1>4, <1>5, <1>6, <1>9, <1>10, <1>11, <1>12, <1>13, <1>14, CoverMove

-----------------------------------------------------------------------------
LEMMA CoverApplied ==
  ASSUME Base, CoverInv, UNCHANGED <<server, missed>>, NEW p \in Processes, proc[p].pc = "apply", NEW l, l = Now(p),
         NEW new \in 0..now, new = (IF proc[p].resp.item = Same THEN row[l] ELSE proc[p].resp.item),
         Becomes(p, AfterSync(p, l)), SyncItem(l, new)
  PROVE  CoverInv'
<1> DEFINE A == Area(l)
<1>1. /\ l \in Lists /\ Syncing(proc[p]) = l
      /\ l # "black" => proc[p].resp.ver <= ver[l] /\ saved[l] <= ver[l]
      /\ l # "black" /\ l \notin raced => RespOK(p, l)
      /\ l = "members" => RespMembers(p)
      /\ l = "groups" => proc[p].resp.info = 0
      /\ A \subseteq Lists
  BY CoverHere DEF Answered
<1>2. /\ "groups" \in Lists /\ "members" \in Lists /\ "friends" \in Lists
      /\ \A k \in Lists : /\ row[k] \in Nat /\ saved[k] \in Nat /\ chg[k] \in Nat /\ 1 <= chg[k] /\ ver[k] \in Nat
                          /\ there[k] \in BOOLEAN
      /\ proc[p].resp.ver \in Nat /\ now \in Nat /\ missed.skipped \in Nat /\ proc[p].resp.info \in Nat
      /\ proc \in [Processes -> Procs]
  BY CoverNums DEF Base, Typed, TypeProc
<1>3. UNCHANGED <<there, chg, ver, missed>>
  BY DEF server
<1>4. /\ row'[l] = new
      /\ \A k \in Lists \ {l, "members"} : row'[k] = row[k]
      /\ l # "members" => row'["members"] \in {0, row["members"]}
      /\ l \notin GroupLists => row'["members"] = row["members"]
      /\ saved' = saved
  BY <1>1, SyncItemFacts DEF GroupLists
<1>5. /\ l = "black" => AfterSync(p, l) = NextList(p)
      /\ l # "black" => AfterSync(p, l) = Onto(p, IF proc[p].resp.info # 0 THEN "extra" ELSE "save")
  BY AfterSyncMoves
<1>6. proc'[p] = AfterSync(p, l) /\ raced \subseteq raced'
  BY <1>2, BecomesFacts
<1>7. l # "black" => /\ proc'[p].pc = (IF proc[p].resp.info # 0 THEN "extra" ELSE "save")
                     /\ proc'[p].resp = proc[p].resp /\ Syncing(proc'[p]) = l
  BY <1>5, OntoHere DEF Places, Answered
<1>8. l = "black" => proc'[p].pc \notin Answered
  <2>1. Syncing(proc[p]) # "none"
    BY <1>1 DEF Lists
  <2> QED BY <1>5, <1>6, <2>1, NextMoves DEF Answered
<1>9. ASSUME l # "black", l \notin raced, chg[l] <= proc[p].resp.ver
      PROVE  new = Item(l) \/ (new = row[l] /\ chg[l] <= saved[l])
  <2>1. proc[p].resp.item = Item(l) \/ (proc[p].resp.item = Same /\ chg[l] <= saved[l])
    BY <1>1, <1>9 DEF RespOK
  <2>2. Item(l) # Same
    BY <1>1, <1>2 DEF Item, Same
  <2> QED BY <2>1, <2>2
<1>10. ASSUME NEW k \in {"members", "friends"}, k \notin raced' PROVE CoverOne(k)'
  <2>1. k \notin raced /\ CoverOne(k) /\ k \in Lists /\ k # "black"
    BY <1>2, <1>6, <1>10 DEF CoverInv
  <2>2. CASE k = l
    <3>1. chg[l] <= saved[l] => chg[l] <= proc[p].resp.ver
      BY <1>1, <1>2, <2>1, <2>2 DEF RespOK
    <3>2. chg[l] <= saved[l] => new = Item(l) \/ new = row[l]
      BY <1>9, <2>1, <2>2, <3>1
    <3> QED BY <1>3, <1>4, <2>1, <2>2, <3>2 DEF CoverOne, Item
  <2>3. CASE k # l
    <3>1. row'[k] \in {0, row[k]}
      BY <1>4, <2>1, <2>3
    <3> QED BY <1>3, <1>4, <2>1, <3>1 DEF CoverOne
  <2> QED BY <2>2, <2>3
<1>11. CoverGroup'
  <2>1. CoverGroup /\ "groups" \notin raced
    BY CoverNums DEF CoverInv
  <2>2. CASE l = "groups"
    <3>1. chg[l] <= saved[l] => chg[l] <= proc[p].resp.ver
      BY <1>1, <1>2, <2>1, <2>2 DEF RespOK
    <3>2. chg[l] <= saved[l] => new = Item(l) \/ new = row[l]
      BY <1>9, <2>1, <2>2, <3>1
    <3> QED BY <1>3, <1>4, <2>1, <2>2, <3>2 DEF CoverGroup, Item
  <2>3. CASE l # "groups"
    <3>1. row'["groups"] = row["groups"]
      BY <1>2, <1>4, <2>3
    <3> QED BY <1>3, <1>4, <2>1, <3>1 DEF CoverGroup
  <2> QED BY <2>2, <2>3
<1>12. RespInv(p)'
  <2> SUFFICES ASSUME l # "black"
               PROVE  /\ proc'[p].resp.ver <= ver'[l]
                      /\ l \notin raced' => RespOK(p, l)'
                      /\ l = "groups" => RespGroups(p)'
                      /\ l = "members" => RespMembers(p)'
    BY <1>7, <1>8 DEF RespInv
  <2>1. ASSUME l \notin raced' PROVE RespOK(p, l)'
    <3>1. l \notin raced /\ RespOK(p, l)
      BY <1>1, <1>6, <2>1
    <3>2. saved'[l] <= proc'[p].resp.ver
      BY <1>4, <1>7, <3>1 DEF RespOK
    <3>3. ASSUME l # "groups", chg[l] <= proc[p].resp.ver, new # 0 PROVE there[l] /\ new = chg[l]
      <4>1. CoverOne(l)
        BY <1>1, <3>1, <3>3 DEF CoverInv, Lists
      <4> QED BY <1>9, <3>1, <3>3, <4>1 DEF CoverOne, Item
    <3> QED BY <1>3, <1>4, <1>7, <3>2, <3>3 DEF RespOK
  <2>2. ASSUME l = "groups" PROVE RespGroups(p)'
    <3>1. proc'[p].pc = "save" /\ proc'[p].resp = proc[p].resp
      BY <1>1, <1>7, <2>2
    <3>2. "groups" \notin raced /\ CoverGroup
      BY CoverNums DEF CoverInv
    <3>3. chg["groups"] <= proc[p].resp.ver /\ there["groups"] /\ chg["groups"] <= saved["members"]
            /\ missed.skipped < chg["groups"] => new = chg["groups"]
      BY <1>9, <2>2, <3>2 DEF Item, CoverGroup
    <3> QED BY <1>3, <1>4, <2>2, <3>1, <3>3 DEF RespGroups, Deleting
  <2>3. ASSUME l = "members" PROVE RespMembers(p)'
    <3>1. row'["groups"] = row["groups"] /\ CoverGroup
      BY <1>2, <1>4, <2>3 DEF CoverInv
    <3>2. chg["groups"] <= proc[p].resp.ver
            => /\ proc[p].resp.info \in {0, chg["groups"]}
               /\ saved["members"] < chg["groups"] => proc[p].resp.info = chg["groups"]
      BY <1>1, <2>3 DEF RespMembers
    <3>3. CASE proc[p].resp.info # 0
      BY <1>3, <1>4, <1>7, <2>3, <3>2, <3>3 DEF RespMembers
    <3>4. CASE proc[p].resp.info = 0
      <4>1. chg["groups"] <= proc[p].resp.ver => chg["groups"] <= saved["members"]
        BY <1>2, <3>2, <3>4
      <4> QED BY <1>3, <1>4, <1>7, <2>3, <3>1, <3>4, <4>1 DEF RespMembers, CoverGroup
    <3> QED BY <3>3, <3>4
  <2> QED BY <1>1, <1>3, <1>7, <2>1, <2>2, <2>3
<1>13. l \in A /\ A = Area(Syncing(proc[p])) /\ Syncing(proc[p]) \in Lists
       /\ (l \in GroupLists => A = GroupLists) /\ (l \notin GroupLists => A = {l})
  BY <1>1, AreaFacts
<1>14. \A k \in Lists \ A : row'[k] = row[k]
  BY <1>4, <1>13 DEF GroupLists
<1>15. \A k \in Lists \ {"black"} : saved'[k] <= ver[k]
  BY <1>4 DEF CoverInv
<1> HIDE DEF A
<1> QED BY <1>1, <1>3, <1>4, <1>10, <1>11, <1>12, <1>13, <1>14, <1>15, CoverMove

LEMMA CoverApply == ASSUME Base, CoverInv, NEW p \in Processes, Apply(p) PROVE CoverInv'
<1>1. /\ proc[p].pc = "apply" /\ UNCHANGED <<server, missed>> /\ Now(p) \in Lists
      /\ \/ /\ Now(p) = "groups" /\ proc[p].resp.item = 0 /\ row["groups"] # 0 /\ Becomes(p, Onto(p, "del1"))
            /\ UNCHANGED db
         \/ \E new \in 0..now :
              /\ new = (IF proc[p].resp.item = Same THEN row[Now(p)] ELSE proc[p].resp.item)
              /\ Becomes(p, AfterSync(p, Now(p))) /\ SyncItem(Now(p), new)
  BY ApplyFacts
<1>2. CASE /\ Now(p) = "groups" /\ proc[p].resp.item = 0 /\ Becomes(p, Onto(p, "del1"))
           /\ UNCHANGED db
  <2>1. /\ Syncing(proc[p]) = "groups" /\ proc[p].resp.ver <= ver["groups"] /\ RespOK(p, "groups")
    BY <1>1, <1>2, CoverHere DEF Answered
  <2>2. /\ proc'[p].pc = "del1" /\ proc'[p].resp = proc[p].resp /\ Syncing(proc'[p]) = "groups" /\ raced \subseteq raced'
    BY <1>1, <1>2, OntoHere DEF Answered, Places
  <2>3. UNCHANGED <<there, chg, ver, missed, row, saved>>
    BY <1>1, <1>2 DEF server, db
  <2>4. RespInv(p)'
    <3>1. RespOK(p, "groups")'
      BY <2>1, <2>2, <2>3 DEF RespOK
    <3>2. chg["groups"] <= proc[p].resp.ver => ~there["groups"]
      <4>1. chg["groups"] # 0
        BY CoverNums
      <4> QED BY <1>1, <1>2, <2>1, <4>1 DEF RespOK, Item, Same
    <3>3. RespGroups(p)'
      BY <2>2, <2>3, <3>2 DEF RespGroups
    <3> QED BY <2>1, <2>2, <2>3, <3>1, <3>3 DEF RespInv
  <2>5. CoverGroup' /\ \A k \in {"members", "friends"} : k \notin raced' => CoverOne(k)'
    BY <2>2, <2>3 DEF CoverInv, CoverGroup, CoverOne
  <2>6. Area("groups") = GroupLists /\ "groups" \in Lists /\ GroupLists \subseteq Lists
    BY AreaFacts DEF GroupLists, Lists
  <2>7. \A l \in GroupLists \ {"black"} : saved'[l] <= ver[l]
    BY <2>3, <2>6 DEF CoverInv
  <2> QED BY <1>1, <1>2, <2>1, <2>3, <2>4, <2>5, <2>6, <2>7, CoverMove
<1>3. CASE \E new \in 0..now :
             /\ new = (IF proc[p].resp.item = Same THEN row[Now(p)] ELSE proc[p].resp.item)
             /\ Becomes(p, AfterSync(p, Now(p))) /\ SyncItem(Now(p), new)
  BY <1>1, <1>3, CoverApplied
<1> QED BY <1>1, <1>2, <1>3

LEMMA CoverFails == ASSUME Base, CoverInv, NEW p \in Processes, SyncFails(p) PROVE CoverInv'
<1>1. /\ Syncing(proc[p]) # "none" /\ UNCHANGED <<server, row, saved>>
      /\ \/ Becomes(p, NextList(p)) \/ Becomes(p, Onto(p, "done"))
      /\ missed' = (IF proc[p].pc = "del2" \/ (proc[p].pc = "fill" /\ Syncing(proc[p]) = "members")
                    THEN [missed EXCEPT !.emptied = chg["members"]] ELSE missed)
  BY FailsFacts DEF db
<1>2. NextList(p).pc \in {"fetch", "done"} /\ Onto(p, "done").pc = "done"
  BY <1>1, NextMoves, OntoDone
<1>3. missed'.skipped = missed.skipped
  <2>1. missed \in [skipped : 0..now, setBack : 0..now, emptied : 0..now]
    BY DEF Base, Typed, TypeHist
  <2> QED BY <1>1, <2>1
<1>4. PICK r : Becomes(p, r) /\ r.pc \notin Answered
  BY <1>1, <1>2 DEF Answered
<1>5. proc'[p] = r /\ (\A q \in Processes : q # p => proc'[q] = proc[q]) /\ raced \subseteq raced'
  BY <1>4, BecomesFacts DEF Base, Typed, TypeProc
<1> QED BY <1>1, <1>3, <1>4, <1>5, CoverQuiet DEF server

LEMMA CoverSync == ASSUME Base, CoverInv, SyncSteps PROVE CoverInv'
<1>1. PICK p \in Processes :
        Lock(p) \/ Fetch(p) \/ Apply(p) \/ Extra(p) \/ DeleteGroup(p) \/ Clear(p) \/ Fill(p)
          \/ Save(p) \/ Return(p) \/ SyncFails(p)
  BY DEF SyncSteps
<1>2. proc \in [Processes -> Procs]
  BY DEF Base, Typed, TypeProc
<1>3. ASSUME NEW r, Becomes(p, r), r.pc \notin Answered, UNCHANGED <<there, chg, ver, row, saved, missed>> PROVE CoverInv'
  <2>1. proc'[p] = r /\ (\A q \in Processes : q # p => proc'[q] = proc[q]) /\ raced \subseteq raced'
    BY <1>2, <1>3, BecomesFacts
  <2> QED BY <1>3, <2>1, CoverQuiet
<1>4. CASE Lock(p)
  <2>1. Becomes(p, Onto(p, "fetch")) /\ UNCHANGED <<there, chg, ver, row, saved, missed>>
    BY <1>4 DEF Lock, db, server
  <2>2. Onto(p, "fetch").pc \notin Answered
    BY <1>2, OntoFacts DEF Places, Answered
  <2> QED BY <1>3, <2>1, <2>2
<1>5. CASE Fetch(p)
  <2>1. /\ proc[p].pc = "fetch" /\ UNCHANGED <<server, row, saved, missed>>
        /\ \/ Becomes(p, Onto(p, "done")) \/ Becomes(p, NextList(p))
           \/ \E a : Given1(p, a) /\ Becomes(p, Given(p, a))
    BY <1>5, FetchFacts DEF db
  <2>2. Syncing(proc[p]) # "none"
    BY <2>1, AtList DEF Lists
  <2>3. Onto(p, "done").pc \notin Answered /\ NextList(p).pc \notin Answered
    BY <2>2, NextMoves, OntoDone DEF Answered
  <2>4. UNCHANGED <<there, chg, ver, row, saved, missed>>
    BY <2>1 DEF server
  <2> QED BY <1>3, <2>1, <2>3, <2>4, CoverGiven
<1>6. CASE Return(p)
  <2>1. Becomes(p, Idle) /\ UNCHANGED <<there, chg, ver, row, saved, missed>>
    BY <1>6 DEF Return, db, server
  <2> QED BY <1>3, <2>1, IdleFacts DEF Answered
<1> QED BY <1>1, <1>4, <1>5, <1>6, CoverApply, CoverExtra, CoverDelete, CoverClear, CoverFill, CoverSave, CoverFails

(* A change on the server is beyond every version that is known. *)
LEMMA CoverChange ==
  ASSUME Base, CoverInv, Calm, NEW op \in Changes, NEW l \in Lists, Changed(op, l) PROVE CoverInv'
<1>1. /\ now' = now + 1 /\ chg'[l] = now' /\ \A k \in Lists : k # l => chg'[k] = chg[k] /\ there'[k] = there[k]
      /\ \A k \in Lists : ver[k] <= ver'[k] /\ ver'[k] \in Nat
  <2>1. TypeServer'
    BY ChangedServer DEF Base, Typed
  <2> QED BY <2>1, ChangedServer DEF Base, Typed, TypeServer
<1>2. UNCHANGED <<row, saved, missed, raced>>
  BY DEF Calm
<1>3. \A q \in Processes : proc'[q] = proc[q] \/ proc'[q].pc \notin Answered
  BY DEF Calm, Starts, Answered
<1>4. /\ "groups" \in Lists /\ "members" \in Lists /\ "friends" \in Lists /\ now \in Nat
      /\ \A k \in Lists : /\ row[k] \in Nat /\ saved[k] \in Nat /\ chg[k] \in Nat /\ 1 <= chg[k] /\ ver[k] \in Nat
                          /\ saved[k] <= now
      /\ \A p \in Processes : proc[p].resp.ver \in Nat /\ proc[p].resp.ver <= now
  BY CoverNums
<1>5. \A k \in Lists \ {"black"} : saved'[k] <= ver'[k]
  <2>1. \A k \in Lists \ {"black"} : saved[k] <= ver[k]
    BY DEF CoverInv
  <2> QED BY <1>1, <1>2, <1>4, <2>1
<1>6. ~(chg'[l] <= saved[l]) /\ \A p \in Processes : ~(chg'[l] <= proc[p].resp.ver)
  BY <1>1, <1>4
<1>7. ASSUME NEW k \in {"members", "friends"}, k \notin raced' PROVE CoverOne(k)'
  <2>1. CoverOne(k) /\ k \in Lists
    BY <1>2, <1>4, <1>7 DEF CoverInv
  <2> QED BY <1>1, <1>2, <1>6, <2>1 DEF CoverOne
<1>8. CoverGroup'
  <2>1. CoverGroup
    BY DEF CoverInv
  <2>2. CASE l = "groups" BY <1>2, <1>6, <2>2 DEF CoverGroup
  <2>3. CASE l # "groups" BY <1>1, <1>2, <1>4, <2>1, <2>3 DEF CoverGroup
  <2> QED BY <2>2, <2>3
<1>9. ASSUME NEW p \in Processes PROVE RespInv(p)'
  <2>1. CASE proc'[p].pc \notin Answered
    BY <2>1 DEF RespInv
  <2>2. CASE proc'[p] = proc[p]
    <3>1. ASSUME NEW k \in Lists \ {"black"}, proc[p].pc \in Answered, Syncing(proc[p]) = k
          PROVE  /\ proc[p].resp.ver <= ver'[k]
                 /\ k \notin raced' => RespOK(p, k)'
                 /\ k = "groups" => RespGroups(p)'
                 /\ k = "members" => RespMembers(p)'
      <4>1. /\ proc[p].resp.ver <= ver[k] /\ (k \notin raced => RespOK(p, k))
            /\ (k = "groups" => RespGroups(p)) /\ (k = "members" => RespMembers(p))
        BY <3>1 DEF CoverInv, RespInv
      <4>2. proc[p].resp.ver <= ver'[k]
        BY <1>1, <1>4, <4>1
      <4>3. ASSUME RespOK(p, k) PROVE RespOK(p, k)'
        <5>1. saved[k] <= proc[p].resp.ver
          BY <4>3 DEF RespOK
        <5>2. CASE k = l BY <1>2, <1>6, <2>2, <5>1, <5>2 DEF RespOK
        <5>3. CASE k # l BY <1>1, <1>2, <2>2, <4>3, <5>3 DEF RespOK, Item
        <5> QED BY <5>2, <5>3
      <4>4. ASSUME RespGroups(p) PROVE RespGroups(p)'
        <5>1. CASE l = "groups"
          <6>1. saved["groups"] < chg'["groups"]
            BY <1>1, <1>4, <5>1
          <6> QED BY <1>2, <1>6, <2>2, <5>1, <6>1 DEF RespGroups
        <5>2. CASE l # "groups" BY <1>1, <1>2, <1>4, <2>2, <4>4, <5>2 DEF RespGroups
        <5> QED BY <5>1, <5>2
      <4>5. ASSUME RespMembers(p) PROVE RespMembers(p)'
        <5>1. CASE l = "groups" BY <1>6, <2>2, <5>1 DEF RespMembers
        <5>2. CASE l # "groups" BY <1>1, <1>2, <1>4, <2>2, <4>5, <5>2 DEF RespMembers
        <5> QED BY <5>1, <5>2
      <4> QED BY <1>2, <4>1, <4>2, <4>3, <4>4, <4>5
    <3> QED BY <2>2, <3>1 DEF RespInv
  <2> QED BY <1>3, <2>1, <2>2
<1> QED BY <1>5, <1>7, <1>8, <1>9 DEF CoverInv

LEMMA CoverAlways == Spec => []CoverInv
<1>1. Init => CoverInv
  <2> SUFFICES ASSUME Init PROVE CoverInv
    OBVIOUS
  <2>1. /\ \A l \in Lists : saved[l] = 0 /\ row[l] = 0 /\ chg[l] = 1 /\ ver[l] = 1
        /\ \A p \in Processes : proc[p] = Idle
    BY DEF Init
  <2>2. \A p \in Processes : RespInv(p)
    BY <2>1, IdleFacts DEF RespInv, Answered
  <2>3. "groups" \in Lists /\ "members" \in Lists /\ "friends" \in Lists
    BY DEF Lists
  <2> QED BY <2>1, <2>2, <2>3 DEF CoverInv, CoverOne, CoverGroup
<1>2. Base /\ Base' /\ CoverInv /\ [Next]_vars => CoverInv'
  <2> SUFFICES ASSUME Base, Base', CoverInv, [Next]_vars PROVE CoverInv'
    OBVIOUS
  <2>1. CASE SyncSteps
    BY <2>1, CoverSync
  <2>2. CASE Others
    <3>1. Calm
      BY <2>2, OthersCalm
    <3>2. CASE UNCHANGED <<scope, now, there, chg, over, ver>>
      BY <3>1, <3>2, CoverQuiet DEF Calm, Starts, Answered
    <3>3. CASE \E op \in Changes, l \in Lists : Changed(op, l)
      BY <3>1, <3>3, CoverChange
    <3> QED BY <2>2, <3>2, <3>3, OthersServer
  <2>3. CASE Crash
    <3>1. /\ UNCHANGED <<server, db, raced>> /\ \A q \in Processes : proc'[q] = Idle
          /\ missed' = (IF \E q \in Processes : proc[q].pc = "del2" \/ (proc[q].pc = "fill" /\ Syncing(proc[q]) = "members")
                        THEN [missed EXCEPT !.emptied = chg["members"]] ELSE missed)
      BY <2>3, CrashFacts
    <3>2. missed'.skipped = missed.skipped
      <4>1. missed \in [skipped : 0..now, setBack : 0..now, emptied : 0..now]
        BY DEF Base, Typed, TypeHist
      <4> QED BY <3>1, <4>1
    <3> QED BY <3>1, <3>2, CoverQuiet, IdleFacts DEF server, db, Answered
  <2>4. CASE UNCHANGED vars
    BY <2>4, CoverQuiet DEF vars, server, db, hist
  <2> QED BY <2>1, <2>2, <2>3, <2>4, NextSteps
<1> QED BY <1>1, <1>2, BaseAlways, PTL DEF Spec

(***************************************************************************)
(* CoveredIsCurrent: what the saved versions cover is not old.             *)
(***************************************************************************)
THEOREM CoveredStaysCurrent == Spec => []CoveredIsCurrent
<1>1. Base /\ CoverInv => CoveredIsCurrent
  <2> SUFFICES ASSUME Base, CoverInv, NEW l \in scope \ raced
               PROVE  /\ l = "groups" /\ there[l] /\ saved[l] >= chg[l] /\ saved["members"] >= chg[l]
                           /\ chg[l] > missed.skipped => row[l] = chg[l]
                      /\ l \in {"members", "friends"} /\ saved[l] >= chg[l] /\ row[l] # 0
                           => there[l] /\ row[l] = chg[l]
    BY DEF CoveredIsCurrent
  <2>1. l \in Lists
    BY DEF Base, Typed, TypeServer
  <2>2. /\ saved[l] \in Nat /\ chg[l] \in Nat /\ saved["members"] \in Nat /\ missed.skipped \in Nat
    BY <2>1, CoverNums
  <2>3. CoverGroup /\ (l \in {"members", "friends"} => CoverOne(l))
    BY DEF CoverInv
  <2> QED BY <2>2, <2>3 DEF CoverGroup, CoverOne
<1> QED BY <1>1, BaseAlways, CoverAlways, PTL

-----------------------------------------------------------------------------
(***************************************************************************)
(* The name that a conversation will have: that of the last event that is  *)
(* still to be handled, or, without one, what it has or is given.          *)
(***************************************************************************)
IsName(e, l) == e.kind = "name" /\ e.todo = <<l>>
Pend(l) == \E k \in 1..Len(queue) : IsName(queue[k], l)
LastOK(l) ==
  \A k \in 1..Len(queue) :
    IsName(queue[k], l) /\ (\A j \in 1..Len(queue) : j > k => ~IsName(queue[j], l)) => queue[k].arg = row[l]
NameOK(l) ==
  row[l] \notin {0, over} =>
    /\ LastOK(l)
    /\ ~Pend(l) => /\ conv[l] \in {0, row[l]}
                   /\ maker["worker"].list = l => maker["worker"].name = row[l]
NameInv == \A l \in {"groups", "friends"} : l \notin stale \cup raced => NameOK(l)

(* The queue has the names it had. *)
SameNames(l) ==
  \/ queue' = queue
  \/ \E e : queue' = Append(queue, e) /\ ~IsName(e, l)
  \/ queue # <<>> /\ queue' = Tail(queue) /\ ~IsName(queue[1], l)
  \/ \E e : queue # <<>> /\ queue' = [queue EXCEPT ![1] = e] /\ ~IsName(e, l) /\ ~IsName(queue[1], l)

LEMMA NamesKept ==
  ASSUME queue \in Seq(Entries), NEW l, SameNames(l), row'[l] = row[l]
  PROVE  (Pend(l)' <=> Pend(l)) /\ (LastOK(l) => LastOK(l)')
<1>1. CASE queue' = queue
  BY <1>1 DEF Pend, LastOK, IsName
<1>2. CASE \E e : queue' = Append(queue, e) /\ ~IsName(e, l)
  <2>1. PICK e : queue' = Append(queue, e) /\ ~IsName(e, l)
    BY <1>2
  <2>2. /\ Len(queue') = Len(queue) + 1 /\ Len(queue) \in Nat /\ queue'[Len(queue) + 1] = e
        /\ \A k \in 1..Len(queue) : queue'[k] = queue[k]
    BY <2>1
  <2>3. Pend(l)' <=> Pend(l)
    BY <2>1, <2>2 DEF Pend, IsName
  <2>4. ASSUME LastOK(l), NEW k \in 1..Len(queue'), IsName(queue'[k], l),
               \A j \in 1..Len(queue') : j > k => ~IsName(queue'[j], l)
        PROVE  queue'[k].arg = row'[l]
    <3>1. k \in 1..Len(queue)
      BY <2>1, <2>2, <2>4
    <3>2. \A j \in 1..Len(queue) : j > k => ~IsName(queue[j], l)
      BY <2>2, <2>4
    <3> QED BY <2>2, <2>4, <3>1, <3>2 DEF LastOK
  <2> QED BY <2>3, <2>4 DEF LastOK, IsName
<1>3. CASE queue # <<>> /\ queue' = Tail(queue) /\ ~IsName(queue[1], l)
  <2>2. /\ Len(queue') = Len(queue) - 1 /\ Len(queue) \in Nat /\ Len(queue) >= 1
        /\ \A k \in 1..Len(queue) - 1 : queue'[k] = queue[k + 1]
    BY <1>3
  <2>3. Pend(l)' <=> Pend(l)
    <3>1. ASSUME NEW k \in 1..Len(queue), IsName(queue[k], l) PROVE Pend(l)'
      <4>1. k # 1 /\ k - 1 \in 1..Len(queue')
        BY <1>3, <2>2, <3>1
      <4>2. queue'[k - 1] = queue[k]
        BY <2>2, <4>1
      <4> QED BY <3>1, <4>1, <4>2 DEF Pend, IsName
    <3>2. ASSUME NEW k \in 1..Len(queue'), IsName(queue'[k], l) PROVE Pend(l)
      <4>1. k + 1 \in 1..Len(queue) /\ queue'[k] = queue[k + 1]
        BY <2>2, <3>2
      <4> QED BY <3>2, <4>1 DEF Pend
    <3> QED BY <3>1, <3>2 DEF Pend, IsName
  <2>4. ASSUME LastOK(l), NEW k \in 1..Len(queue'), IsName(queue'[k], l),
               \A j \in 1..Len(queue') : j > k => ~IsName(queue'[j], l)
        PROVE  queue'[k].arg = row'[l]
    <3>1. k + 1 \in 1..Len(queue) /\ queue'[k] = queue[k + 1]
      BY <2>2
    <3>2. ASSUME NEW j \in 1..Len(queue), j > k + 1 PROVE ~IsName(queue[j], l)
      <4>1. j - 1 \in 1..Len(queue') /\ j - 1 > k
        BY <2>2, <3>2
      <4>2. queue'[j - 1] = queue[j]
        BY <2>2, <4>1
      <4> QED BY <2>4, <4>1, <4>2
    <3> QED BY <2>4, <3>1, <3>2 DEF LastOK
  <2> QED BY <2>3, <2>4 DEF LastOK, IsName
<1>4. CASE \E e : queue # <<>> /\ queue' = [queue EXCEPT ![1] = e] /\ ~IsName(e, l) /\ ~IsName(queue[1], l)
  <2>1. PICK e : queue # <<>> /\ queue' = [queue EXCEPT ![1] = e] /\ ~IsName(e, l) /\ ~IsName(queue[1], l)
    BY <1>4
  <2>2. /\ Len(queue') = Len(queue) /\ Len(queue) \in Nat
        /\ queue'[1] = e /\ \A k \in 1..Len(queue) : k # 1 => queue'[k] = queue[k]
    BY <2>1
  <2>3. \A k \in 1..Len(queue) : IsName(queue'[k], l) <=> IsName(queue[k], l)
    BY <2>1, <2>2
  <2>4. Pend(l)' <=> Pend(l)
    BY <2>2, <2>3 DEF Pend, IsName
  <2>5. ASSUME LastOK(l), NEW k \in 1..Len(queue'), IsName(queue'[k], l),
               \A j \in 1..Len(queue') : j > k => ~IsName(queue'[j], l)
        PROVE  queue'[k].arg = row'[l]
    <3>1. k \in 1..Len(queue) /\ k # 1 /\ queue'[k] = queue[k] /\ IsName(queue[k], l)
      BY <2>1, <2>2, <2>5
    <3>2. \A j \in 1..Len(queue) : j > k => ~IsName(queue[j], l)
      BY <2>2, <2>3, <2>5
    <3> QED BY <2>5, <3>1, <3>2 DEF LastOK
  <2> QED BY <2>4, <2>5 DEF LastOK, IsName
<1> QED BY <1>1, <1>2, <1>3, <1>4 DEF SameNames

LEMMA NameKept ==
  ASSUME queue \in Seq(Entries), NEW l, SameNames(l), NameOK(l), row'[l] = row[l], over' = over \/ over = 0,
         conv'[l] = conv[l], maker'["worker"] = maker["worker"]
  PROVE  NameOK(l)'
BY NamesKept DEF NameOK

(* Every list whose row, conversation and maker stay. *)
LEMMA NameQuiet ==
  ASSUME Base, NameInv, UNCHANGED <<row, conv, maker, stale>>, raced \subseteq raced', over' = over \/ over = 0,
         \A l \in {"groups", "friends"} : SameNames(l)
  PROVE  NameInv'
BY NameKept DEF NameInv, Base, Typed, TypeProc

LEMMA NameTold ==
  ASSUME queue \in Seq(Entries), NEW l, NEW new, queue' = Append(queue, NameEvent(l, new)), row'[l] = new
  PROVE  NameOK(l)'
<1>1. IsName(NameEvent(l, new), l) /\ NameEvent(l, new).arg = new
  BY DEF IsName, NameEvent, Entry
<1>2. /\ Len(queue') = Len(queue) + 1 /\ Len(queue) \in Nat /\ queue'[Len(queue) + 1] = NameEvent(l, new)
      /\ Len(queue') \in 1..Len(queue')
  OBVIOUS
<1>3. Pend(l)'
  BY <1>1, <1>2 DEF Pend, IsName
<1>4. LastOK(l)'
  <2>1. ASSUME NEW k \in 1..Len(queue'), \A j \in 1..Len(queue') : j > k => ~IsName(queue'[j], l)
        PROVE  queue'[k].arg = row'[l]
    BY <1>1, <1>2, <2>1
  <2> QED BY <2>1 DEF LastOK, IsName
<1> QED BY <1>3, <1>4 DEF NameOK

LEMMA NameItem ==
  ASSUME Base, NameInv, UNCHANGED <<server, maker>>, raced \subseteq raced', NEW l \in Lists, NEW new \in 0..now,
         SyncItem(l, new)
  PROVE  NameInv'
<1>1. /\ row'[l] = new /\ \A k \in Lists \ {l, "members"} : row'[k] = row[k]
      /\ conv' = conv
      /\ IF Noticed(l, row[l], new)
         THEN queue' = Append(queue, NameEvent(l, new)) /\ stale' = stale \ {l}
         ELSE queue' = queue /\ stale' = stale
  BY SyncItemFacts
<1>2. queue \in Seq(Entries) /\ over' = over /\ maker' = maker
  BY DEF Base, Typed, TypeProc, server
<1>3. ASSUME NEW k \in {"groups", "friends"}, k \notin stale' \cup raced' PROVE NameOK(k)'
  <2>1. CASE Noticed(l, row[l], new) /\ k = l
    BY <1>1, <1>2, <2>1, NameTold
  <2>2. CASE k # l
    <3>1. row'[k] = row[k] /\ NameOK(k)
      BY <1>1, <1>3, <2>2 DEF NameInv, Lists
    <3>2. SameNames(k)
      <4>1. ~IsName(NameEvent(l, new), k)
        BY <2>2 DEF IsName, NameEvent, Entry
      <4> QED BY <1>1, <4>1 DEF SameNames
    <3> QED BY <1>1, <1>2, <3>1, <3>2, NameKept
  <2>3. CASE ~Noticed(l, row[l], new) /\ k = l
    <3>1. new \in {0, over, row[l]}
      BY <2>3 DEF Noticed, GroupNotice, FriendNotice
    <3>2. CASE new = row[l]
      <4>1. SameNames(k) /\ NameOK(k)
        BY <1>1, <1>3, <2>3 DEF SameNames, NameInv
      <4> QED BY <1>1, <1>2, <2>3, <3>2, <4>1, NameKept
    <3>3. CASE new \in {0, over}
      BY <1>1, <1>2, <2>3, <3>3 DEF NameOK
    <3> QED BY <3>1, <3>2, <3>3
  <2> QED BY <2>1, <2>2, <2>3
<1> QED BY <1>3 DEF NameInv

LEMMA NameFill ==
  ASSUME Base, NameInv, NEW p \in Processes, Fill(p) PROVE NameInv'
<1> DEFINE l == Now(p)
<1>1. /\ l \in Lists /\ row' = [row EXCEPT ![l] = Item(l)] /\ Becomes(p, Onto(p, "save"))
      /\ stale' = (IF conv[l] # 0 \/ NamePending(l) \/ \E w \in DOMAIN maker : maker[w].list = l
                      THEN stale \cup {l} ELSE stale)
      /\ UNCHANGED <<server, conv, queue, maker>>
  BY FillFacts
<1>2. raced \subseteq raced'
  BY <1>1, BecomesFacts DEF Base, Typed, TypeProc
<1>3. /\ row \in [Lists -> 0..now] /\ queue \in Seq(Entries) /\ maker \in [{"worker", "call"} -> Makers]
      /\ over' = over
  BY <1>1 DEF Base, Typed, TypeDb, TypeProc, server
<1>4. ASSUME NEW k \in {"groups", "friends"}, k \notin stale' \cup raced' PROVE NameOK(k)'
  <2>1. SameNames(k) /\ k \notin stale \cup raced
    BY <1>1, <1>2, <1>4 DEF SameNames
  <2>2. CASE k = l
    <3>1. conv[k] = 0 /\ ~NamePending(k) /\ maker["worker"].list # k
      BY <1>1, <1>3, <1>4, <2>2
    <3>2. ~Pend(k)
      BY <1>3, <3>1 DEF Pend, NamePending, IsName
    <3>3. conv'[k] = 0 /\ maker'["worker"].list # k /\ queue' = queue
      BY <1>1, <3>1
    <3> QED BY <3>2, <3>3 DEF NameOK, LastOK, Pend, IsName
  <2>3. CASE k # l
    <3>1. row'[k] = row[k]
      BY <1>1, <1>3, <2>3 DEF Lists
    <3> QED BY <1>1, <1>3, <1>4, <2>1, <3>1, NameKept DEF NameInv
  <2> QED BY <2>2, <2>3
<1> QED BY <1>4 DEF NameInv

LEMMA NameLeast ==
  ASSUME Base, NameInv, UNCHANGED <<server, conv, queue, maker, stale>>, raced \subseteq raced',
         \A l \in {"groups", "friends"} : row'[l] \in {0, row[l]}
  PROVE  NameInv'
<1>1. queue \in Seq(Entries) /\ over' = over
  BY DEF Base, Typed, TypeProc, server
<1>2. ASSUME NEW k \in {"groups", "friends"}, k \notin stale' \cup raced' PROVE NameOK(k)'
  <2>1. SameNames(k) /\ NameOK(k)
    BY <1>2 DEF SameNames, NameInv
  <2>2. CASE row'[k] = row[k] BY <1>1, <2>1, <2>2, NameKept
  <2>3. CASE row'[k] = 0 BY <2>3 DEF NameOK
  <2> QED BY <2>2, <2>3
<1> QED BY <1>2 DEF NameInv

LEMMA NameReturn == ASSUME Base, NameInv, NEW p \in Processes, Return(p) PROVE NameInv'
<1>1. /\ proc[p].pc = "done" /\ Becomes(p, Idle) /\ UNCHANGED <<server, row, conv, maker, stale>>
      /\ queue' = IF p = "worker" THEN Tail(queue) ELSE queue
  BY DEF Return, db
<1>2. raced \subseteq raced'
  BY <1>1, BecomesFacts DEF Base, Typed, TypeProc
<1>3. p = "worker" => queue # <<>> /\ queue[1].kind \in {"sync", "push"}
  BY <1>1 DEF Base, WorkerInv, At
<1>4. \A l \in {"groups", "friends"} : SameNames(l)
  BY <1>1, <1>3 DEF SameNames, IsName
<1> QED BY <1>1, <1>2, <1>4, NameQuiet DEF server

LEMMA NameSync == ASSUME Base, NameInv, SyncSteps PROVE NameInv'
<1>1. PICK p \in Processes :
        Lock(p) \/ Fetch(p) \/ Apply(p) \/ Extra(p) \/ DeleteGroup(p) \/ Clear(p) \/ Fill(p)
          \/ Save(p) \/ Return(p) \/ SyncFails(p)
  BY DEF SyncSteps
<1>2. proc \in [Processes -> Procs] /\ row \in [Lists -> 0..now] /\ "groups" \in Lists /\ "friends" \in Lists
  BY DEF Base, Typed, TypeProc, TypeDb, Lists
<1>3. ASSUME NEW r, Becomes(p, r) PROVE raced \subseteq raced'
  BY <1>2, <1>3, BecomesFacts
<1>4. ASSUME NEW r, Becomes(p, r), UNCHANGED <<server, row, conv, queue, maker, stale>> PROVE NameInv'
  BY <1>3, <1>4, NameLeast
<1>5. CASE Lock(p)
  BY <1>4, <1>5 DEF Lock, db
<1>6. CASE Fetch(p)
  <2>1. /\ UNCHANGED <<server, row, conv, queue, maker, stale>>
        /\ \E r : Becomes(p, r)
    BY <1>6, FetchFacts DEF db
  <2> QED BY <1>4, <2>1
<1>7. CASE Apply(p)
  <2>1. /\ UNCHANGED <<server, maker>> /\ Now(p) \in Lists
        /\ \/ Becomes(p, Onto(p, "del1")) /\ UNCHANGED <<db, queue, stale>>
           \/ \E new \in 0..now : Becomes(p, AfterSync(p, Now(p))) /\ SyncItem(Now(p), new)
    BY <1>7, ApplyFacts
  <2>2. CASE Becomes(p, Onto(p, "del1")) /\ UNCHANGED <<db, queue, stale>>
    BY <1>4, <2>1, <2>2 DEF db
  <2>3. CASE \E new \in 0..now : Becomes(p, AfterSync(p, Now(p))) /\ SyncItem(Now(p), new)
    BY <1>3, <2>1, <2>3, NameItem
  <2> QED BY <2>1, <2>2, <2>3
<1>8. CASE Extra(p)
  <2>1. /\ proc[p].resp.info \in 1..now /\ SyncItem("groups", proc[p].resp.info) /\ Becomes(p, Onto(p, "save"))
        /\ UNCHANGED <<server, maker>> /\ now \in Nat
    BY <1>8, ExtraFacts DEF Base, Typed, TypeServer
  <2>2. proc[p].resp.info \in 0..now
    BY <2>1
  <2> QED BY <1>2, <1>3, <2>1, <2>2, NameItem
<1>9. CASE DeleteGroup(p)
  <2>1. /\ UNCHANGED <<server, conv, queue, maker, stale>> /\ \E r : Becomes(p, r)
        /\ \A l \in {"groups", "friends"} : row'[l] \in {0, row[l]}
    BY <1>2, <1>9, DeleteFacts DEF Deleting
  <2> QED BY <1>3, <2>1, NameLeast
<1>10. CASE Clear(p)
  <2>1. /\ UNCHANGED <<server, conv, queue, maker, stale>> /\ \E r : Becomes(p, r)
        /\ \A l \in {"groups", "friends"} : row'[l] \in {0, row[l]}
    BY <1>2, <1>10 DEF Clear
  <2> QED BY <1>3, <2>1, NameLeast
<1>11. CASE Save(p)
  BY <1>4, <1>11, SaveFacts
<1>12. CASE SyncFails(p)
  BY <1>4, <1>12, FailsFacts DEF db
<1> QED BY <1>1, <1>5, <1>6, <1>7, <1>8, <1>9, <1>10, <1>11, <1>12, NameFill, NameReturn

LEMMA NameUpdate == ASSUME Base, NameInv, UpdateName PROVE NameInv'
<1>1. /\ UNCHANGED <<server, row, maker, stale, raced>> /\ maker["worker"] = NoConv
      /\ queue # <<>> /\ queue[1].kind = "name" /\ queue' = Tail(queue)
  BY CalmUpdateName DEF hist
<1>2. PICK l \in {"groups", "friends"} :
        /\ queue[1].todo = <<l>>
        /\ conv' = IF conv[l] # 0 THEN [conv EXCEPT ![l] = queue[1].arg] ELSE conv
  BY CalmUpdateName
<1>3. /\ queue \in Seq(Entries) /\ conv \in [Lists -> -1..now] /\ over' = over /\ l \in Lists
      /\ "groups" \in Lists /\ "friends" \in Lists
  BY <1>1 DEF Base, Typed, TypeProc, TypeDb, server, Lists
<1>4. ASSUME NEW k \in {"groups", "friends"}, k \notin stale' \cup raced' PROVE NameOK(k)'
  <2>1. NameOK(k)
    BY <1>1, <1>4 DEF NameInv
  <2>2. CASE k # l
    <3>1. ~IsName(queue[1], k)
      BY <1>2, <2>2 DEF IsName
    <3>2. conv'[k] = conv[k]
      BY <1>2, <1>3, <2>2
    <3> QED BY <1>1, <1>3, <2>1, <3>1, <3>2, NameKept DEF SameNames
  <2>3. CASE k = l
    <3>1. /\ Len(queue') = Len(queue) - 1 /\ Len(queue) \in Nat /\ Len(queue) >= 1
          /\ \A n \in 1..Len(queue) - 1 : queue'[n] = queue[n + 1]
      BY <1>1, <1>3
    <3> SUFFICES ASSUME row[k] \notin {0, over} PROVE NameOK(k)'
      BY <1>1, <1>3 DEF NameOK
    <3>2. LastOK(k)
      BY <2>1 DEF NameOK
    <3>3. LastOK(k)'
      <4>1. ASSUME NEW n \in 1..Len(queue'), IsName(queue'[n], k),
                   \A j \in 1..Len(queue') : j > n => ~IsName(queue'[j], k)
            PROVE  queue'[n].arg = row[k]
        <5>1. n + 1 \in 1..Len(queue) /\ queue'[n] = queue[n + 1]
          BY <3>1
        <5>2. ASSUME NEW j \in 1..Len(queue), j > n + 1 PROVE ~IsName(queue[j], k)
          <6>1. j - 1 \in 1..Len(queue') /\ j - 1 > n
            BY <3>1, <5>2
          <6>2. queue'[j - 1] = queue[j]
            BY <3>1, <6>1
          <6> QED BY <4>1, <6>1, <6>2
        <5> QED BY <3>2, <4>1, <5>1, <5>2 DEF LastOK
      <4> QED BY <1>1, <4>1 DEF LastOK, IsName
    <3>4. ASSUME ~Pend(k)' PROVE conv'[k] \in {0, row[k]}
      <4>1. \A n \in 1..Len(queue') : ~IsName(queue'[n], k)
        BY <3>4 DEF Pend, IsName
      <4>2. ASSUME NEW j \in 1..Len(queue), j > 1 PROVE ~IsName(queue[j], k)
        <5>1. j - 1 \in 1..Len(queue') /\ queue'[j - 1] = queue[j]
          BY <3>1, <4>2
        <5> QED BY <4>1, <5>1
      <4>3. 1 \in 1..Len(queue) /\ IsName(queue[1], k)
        BY <1>1, <1>2, <2>3, <3>1 DEF IsName
      <4>4. queue[1].arg = row[k]
        BY <3>2, <4>2, <4>3 DEF LastOK
      <4> QED BY <1>2, <1>3, <2>3, <4>4
    <3> QED BY <1>1, <3>3, <3>4 DEF NameOK, NoConv, Pend
  <2> QED BY <2>2, <2>3
<1> QED BY <1>4 DEF NameInv

LEMMA NameRead ==
  ASSUME Base, NameInv, NEW w \in {"worker", "call"}, NEW l \in Lists, ReadName(w, l), bound' \in Bounds PROVE NameInv'
<1>1. /\ maker' = [maker EXCEPT ![w] = [list |-> l, name |-> IF row[l] # 0 THEN row[l] ELSE Stranger]]
      /\ UNCHANGED <<server, db, queue, hist>>
  BY CalmReadName
<1>2. queue \in Seq(Entries) /\ maker \in [{"worker", "call"} -> Makers]
  BY DEF Base, Typed, TypeProc
<1>3. ASSUME NEW k \in {"groups", "friends"}, k \notin stale' \cup raced' PROVE NameOK(k)'
  <2>1. UNCHANGED <<over, row, conv, queue>> /\ NameOK(k)
    BY <1>1, <1>3 DEF NameInv, server, db, hist
  <2>2. CASE maker'["worker"] = maker["worker"]
    BY <1>2, <2>1, <2>2, NameKept DEF SameNames
  <2>3. CASE w = "worker"
    <3>1. maker'["worker"] = [list |-> l, name |-> IF row[l] # 0 THEN row[l] ELSE Stranger]
      BY <1>1, <1>2, <2>3
    <3>2. row[k] # 0 /\ maker'["worker"].list = k => maker'["worker"].name = row[k]
      BY <3>1
    <3>3. (LastOK(k) => LastOK(k)') /\ (Pend(k)' <=> Pend(k))
      BY <2>1 DEF LastOK, Pend, IsName
    <3> QED BY <2>1, <3>2, <3>3 DEF NameOK
  <2> QED BY <1>1, <1>2, <2>2, <2>3
<1> QED BY <1>3 DEF NameInv

LEMMA NameInsert ==
  ASSUME Base, NameInv, NEW w \in {"worker", "call"}, InsertConversation(w) PROVE NameInv'
<1> DEFINE l == maker[w].list
           n == maker[w].name
<1>1. /\ maker' = [maker EXCEPT ![w] = NoConv]
      /\ IF conv[l] = 0
         THEN /\ conv' = [conv EXCEPT ![l] = n]
              /\ stale' = IF w = "call" /\ n # row[l] /\ ~NamePending(l) THEN stale \cup {l} ELSE stale
         ELSE UNCHANGED <<conv, stale>>
      /\ UNCHANGED <<server, row, queue, raced>>
  BY DEF InsertConversation
<1>2. queue \in Seq(Entries) /\ maker \in [{"worker", "call"} -> Makers] /\ conv \in [Lists -> -1..now]
      /\ "groups" \in Lists /\ "friends" \in Lists
  BY DEF Base, Typed, TypeProc, TypeDb, Lists
<1>3. l \in Lists
  BY CalmInsert
<1> HIDE DEF l, n
<1>4. maker'["worker"] \in {NoConv, maker["worker"]} /\ (w = "worker" => maker["worker"].list = l /\ maker["worker"].name = n)
  BY <1>1, <1>2 DEF l, n
<1>5. ASSUME NEW k \in {"groups", "friends"}, k \notin stale' \cup raced' PROVE NameOK(k)'
  <2>1. UNCHANGED <<over, row, queue>> /\ NameOK(k) /\ NoConv.list = "none"
    BY <1>1, <1>5 DEF NameInv, server, NoConv
  <2> SUFFICES ASSUME row[k] \notin {0, over} PROVE NameOK(k)'
    BY <2>1 DEF NameOK
  <2>2. LastOK(k)' /\ (Pend(k)' <=> Pend(k))
    BY <2>1 DEF NameOK, LastOK, Pend, IsName
  <2>3. ASSUME ~Pend(k)
        PROVE  conv'[k] \in {0, row[k]} /\ (maker'["worker"].list = k => maker'["worker"].name = row[k])
    <3>1. conv[k] \in {0, row[k]} /\ (maker["worker"].list = k => maker["worker"].name = row[k])
      BY <2>1, <2>3 DEF NameOK
    <3>2. maker'["worker"].list = k => maker'["worker"].name = row[k]
      BY <1>4, <2>1, <3>1
    <3>3. CASE conv'[k] = conv[k]
      BY <3>1, <3>2, <3>3
    <3>4. CASE conv'[k] # conv[k]
      <4>1. k = l /\ conv[l] = 0 /\ conv'[k] = n
        BY <1>1, <1>2, <1>3, <3>4
      <4>2. CASE w = "worker"
        BY <1>4, <3>1, <3>2, <4>1, <4>2
      <4>3. CASE w = "call"
        <5>1. ~NamePending(l)
          BY <1>2, <2>3, <4>1 DEF Pend, NamePending, IsName
        <5>2. n = row[l]
          BY <1>1, <1>5, <4>1, <4>3, <5>1
        <5> QED BY <3>2, <4>1, <5>2
      <4> QED BY <4>2, <4>3
    <3> QED BY <3>3, <3>4
  <2> QED BY <2>1, <2>2, <2>3 DEF NameOK
<1> QED BY <1>5 DEF NameInv

LEMMA NameOthers == ASSUME Base, NameInv, Others PROVE NameInv'
<1>1. ASSUME NEW op \in Changes, NEW l \in Lists, Changed(op, l), UNCHANGED <<row, conv, maker, stale, raced>> PROVE NameInv'
  <2>1. \E e : queue' = Append(queue, e) /\ e.kind \in {"sync", "push"}
    BY <1>1, ChangedNote DEF Base, Typed
  <2>2. \A k \in {"groups", "friends"} : SameNames(k)
    BY <2>1 DEF SameNames, IsName
  <2>3. over' = over \/ over = 0
    BY <1>1, ChangedServer DEF Base, Typed
  <2> QED BY <1>1, <2>2, <2>3, NameQuiet
<1>2. ASSUME UNCHANGED <<over, row, conv, maker, stale, raced>>, \A k \in {"groups", "friends"} : SameNames(k) PROVE NameInv'
  BY <1>2, NameQuiet
<1>3. ASSUME UNCHANGED <<over, row, conv, maker, stale, raced>>, queue' = queue PROVE NameInv'
  BY <1>2, <1>3 DEF SameNames
<1>4. CASE \E l \in Lists : Compact(l)
  BY <1>3, <1>4 DEF Compact, db, hist
<1>5. CASE \E op \in Changes, l \in Lists : RemoteChange(op, l)
  BY <1>1, <1>5 DEF RemoteChange, db, hist
<1>6. CASE Asked
  <2>1. PICK op \in Changes, l \in Lists, t \in Todos : Asks(op, l, t)
    BY <1>6 DEF Asked
  <2>2. Changed(op, l) /\ Calm /\ UNCHANGED <<db, maker, stale>>
    BY <2>1, AsksFacts
  <2> QED BY <1>1, <2>2 DEF db, Calm
<1>7. CASE GetGroupMemberList
  <2>1. Calm /\ UNCHANGED <<server, queue, db, maker, stale>>
    BY <1>7, CalmQuery
  <2> QED BY <1>3, <2>1 DEF db, server, Calm
<1>8. CASE DoNotification
  <2>1. Calm /\ UNCHANGED <<server, queue, db, maker, stale>>
    BY <1>8, CalmDo
  <2> QED BY <1>3, <2>1 DEF db, server, Calm
<1>9. CASE LoginSync
  <2>1. Calm /\ UNCHANGED <<server, db, maker, stale>> /\ queue # <<>> /\ queue[1].kind = "login"
        /\ queue' = [queue EXCEPT ![1] = Entry("wait", <<>>, NoResp, 0)]
    BY <1>9, CalmLoginSync
  <2>2. Entry("wait", <<>>, NoResp, 0).kind = "wait"
    BY DEF Entry
  <2>3. \A k \in {"groups", "friends"} : SameNames(k)
    BY <2>1, <2>2 DEF SameNames, IsName
  <2> QED BY <1>2, <2>1, <2>3 DEF db, server, Calm
<1>10. CASE LoginSynced \/ SyncData
  <2>1. Calm /\ UNCHANGED <<server, db, maker, stale>> /\ queue # <<>> /\ queue[1].kind \in {"wait", "begin"}
        /\ queue' = Tail(queue)
    BY <1>10, CalmLoginSynced, CalmSyncData
  <2>2. \A k \in {"groups", "friends"} : SameNames(k)
    BY <2>1 DEF SameNames, IsName
  <2> QED BY <1>2, <2>1, <2>2 DEF db, server, Calm
<1>11. CASE Reconnect
  <2>1. queue' = Append(queue, BeginFlag) /\ UNCHANGED <<server, db, maker, hist>> /\ BeginFlag.kind = "begin"
    BY <1>11, CalmReconnect DEF BeginFlag, Entry
  <2>2. \A k \in {"groups", "friends"} : SameNames(k)
    BY <2>1 DEF SameNames, IsName
  <2> QED BY <1>2, <2>1, <2>2 DEF db, server, hist
<1> QED BY <1>4, <1>5, <1>6, <1>7, <1>8, <1>9, <1>10, <1>11, NameUpdate, NameRead, NameInsert DEF Others

LEMMA NameAlways == Spec => []NameInv
<1>1. Init => NameInv
  <2> SUFFICES ASSUME Init PROVE NameInv
    OBVIOUS
  <2>1. row["groups"] = 0 /\ row["friends"] = 0
    BY DEF Init, Lists
  <2> QED BY <2>1 DEF NameInv, NameOK
<1>2. Base /\ NameInv /\ [Next]_vars => NameInv'
  <2> SUFFICES ASSUME Base, NameInv, [Next]_vars PROVE NameInv'
    OBVIOUS
  <2>1. CASE Crash
    <3>1. /\ UNCHANGED <<server, db, raced>> /\ \A w \in {"worker", "call"} : maker'[w] = NoConv
          /\ \A e \in Queued' : e.kind # "name"
          /\ stale' = stale \cup {l \in Lists : NamePending(l)}
      BY <2>1, CrashFacts
    <3>2. UNCHANGED <<over, row, conv>> /\ queue \in Seq(Entries)
      BY <3>1 DEF server, db, Base, Typed, TypeProc
    <3>3. ASSUME NEW k \in {"groups", "friends"}, k \notin stale' \cup raced' PROVE NameOK(k)'
      <4>1. ~NamePending(k) /\ NameOK(k)
        BY <3>1, <3>3 DEF NameInv, Lists
      <4>2. ~Pend(k)
        BY <3>2, <4>1 DEF Pend, NamePending, IsName
      <4>3. \A n \in 1..Len(queue') : ~IsName(queue'[n], k)
        BY <3>1 DEF Queued, IsName
      <4>4. LastOK(k)' /\ ~Pend(k)'
        BY <4>3 DEF LastOK, Pend, IsName
      <4>5. maker'["worker"].list = "none"
        BY <3>1 DEF NoConv
      <4> QED BY <3>2, <4>1, <4>2, <4>4, <4>5 DEF NameOK
    <3> QED BY <3>3 DEF NameInv
  <2>2. CASE UNCHANGED vars
    BY <2>2, NameQuiet DEF vars, server, db, hist, SameNames
  <2> QED BY <2>1, <2>2, NextSteps, NameSync, NameOthers
<1> QED BY <1>1, <1>2, BaseAlways, PTL DEF Spec

(***************************************************************************)
(* NamesSettle: when the events are handled, a conversation has the name   *)
(* of its group or friend.                                                 *)
(***************************************************************************)
THEOREM NamesAgree == Spec => []NamesSettle
<1>1. Base /\ NameInv => NamesSettle
  <2> SUFFICES ASSUME Base, NameInv, NEW l \in {"groups", "friends"} \ (stale \cup raced), conv[l] # 0,
                      row[l] \notin {0, over}, ~NamePending(l)
               PROVE  conv[l] = row[l]
    BY DEF NamesSettle
  <2>1. queue \in Seq(Entries)
    BY DEF Base, Typed, TypeProc
  <2>2. ~Pend(l)
    BY <2>1 DEF Pend, NamePending, IsName
  <2> QED BY <2>2 DEF NameInv, NameOK
<1> QED BY <1>1, BaseAlways, NameAlways, PTL
=============================================================================
