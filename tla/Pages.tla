------------------------------- MODULE Pages -------------------------------
(***************************************************************************)
(* Reading the lists (pkg/datafetcher, internal/group/api.go,              *)
(* internal/relation/api.go, the searches of internal/conversation_msg).   *)
(* A list has the ids of its items, which a synchronisation saves last,    *)
(* and a table, which may lack rows: a page is a piece of the ids, whose   *)
(* missing rows are asked from the server and inserted.  Other queries go  *)
(* by the ids alone or by the table alone, and searches page in SQL.       *)
(* The application pages from the beginning, by Count, until its place is  *)
(* behind the list; meanwhile the list may be synchronised, which only the *)
(* queries of members exclude by the mutex.                                *)
(*                                                                         *)
(* Items are 1, 2, ... in the order of the list.  The server's list of     *)
(* members begins with those in charge; new members come last.             *)
(***************************************************************************)
EXTENDS Naturals, Sequences, FiniteSets, SequencesExt

CONSTANTS
  Items,    \* how many items there are
  Count,    \* the application's page
  Limit,    \* groupMemberSyncLimit: rows that a full synchronisation inserts
  Changes   \* bound: changes of the list

VARIABLES
  which,    \* what it is: "groups", "members", "friends", "messages"
  is,       \* [item -> role of a member; what of a message contains the keyword]
  black,    \* items that are in the black list
  there,    \* the server's list
  order,    \* the UIDList that was saved; messages: the table, the newest first
  table,    \* items with a row
  sync,     \* "none", "noted", "ids": the rows are written, the ids not yet
  changes,
  query,    \* the query
  given,    \* what the application was told
  late      \* history: items that a query inserted although the list had changed meanwhile

listVars == <<which, is, black>>
dataVars == <<there, order, table, sync, changes>>
pageVars == <<listVars, dataVars, query, given, late>>

AllIds == 1..Items
Listed == ToSet(order)

Places == {"text", "content", "merger", "nothing"}   \* where a message has the keyword

NoQuery == [pc |-> "idle", filter |-> "all", offset |-> 0, page |-> <<>>, found |-> {}, data |-> {},
            some |-> FALSE, changed |-> FALSE, failed |-> "no"]

Filters ==
  CASE which = "groups"   -> {"all"}
    [] which = "members"  -> {"all", "owner", "admin", "users", "notOwner", "inCharge", "search"}
    [] which = "friends"  -> {"all", "white"}
    [] which = "messages" -> {"type", "keyword", "everywhere"}

(* A full synchronisation has inserted the first rows; queries may have added others. *)
Init ==
  /\ which \in {"groups", "members", "friends", "messages"}
  /\ IF which = "messages" THEN is \in {f \in [AllIds -> Places] : Cardinality(Range(f)) >= 3}
     ELSE \E n \in 1..2 : is = [i \in AllIds |-> IF i = 1 THEN "owner" ELSE IF i <= n THEN "admin" ELSE "user"]
  /\ black \in IF which = "friends" THEN SUBSET {1, 3} ELSE {{}}
  /\ \E n \in Items - 1..Items : order = [i \in 1..n |-> i]
  /\ there = Listed
  /\ table = IF which = "messages" THEN Listed ELSE {i \in Listed : i <= Limit}
  /\ sync = "none" /\ changes = 0 /\ query = NoQuery /\ given = <<>> /\ late = {}

Reading == query.pc \notin {"idle", "done"}
Noticed == query' = [query EXCEPT !.changed = TRUE]
-----------------------------------------------------------------------------
(* The server: an item comes or goes. *)
Change(i) ==
  /\ which # "messages" /\ changes < Changes /\ changes' = changes + 1 /\ sync = "none"
  /\ is[i] = "user" \/ which # "members"
  /\ there' = IF i \in there THEN there \ {i} ELSE there \cup {i}
  /\ sync' = "noted" /\ Noticed
  /\ UNCHANGED <<listVars, order, table, given, late>>

(* The synchronisation (see VersionSync): rows, then ids.  Queries of members have its mutex. *)
Locked == which = "members" /\ query.pc \in {"local", "ask", "insert", "tell"}

SyncRows ==
  /\ sync = "noted" /\ ~Locked
  /\ table' = (table \ (Listed \ there)) \cup (there \ Listed)
  /\ sync' = "ids" /\ Noticed
  /\ UNCHANGED <<listVars, there, order, changes, given, late>>

SyncIds ==
  /\ sync = "ids"
  /\ order' = SelectSeq(order, LAMBDA i : i \in there) \o SetToSeq(there \ Listed)
  /\ sync' = "none" /\ Noticed
  /\ UNCHANGED <<listVars, there, table, changes, given, late>>

(* The worker inserts a message, the newest, or one is deleted. *)
MessageChange(i) ==
  /\ which = "messages" /\ changes < Changes /\ changes' = changes + 1
  /\ order' = IF i \in table THEN SelectSeq(order, LAMBDA j : j # i) ELSE <<i>> \o order
  /\ table' = ToSet(order') /\ there' = table' /\ Noticed
  /\ UNCHANGED <<listVars, sync, given, late>>
-----------------------------------------------------------------------------
(* The application begins to page, with a filter that the list has. *)
Page(filter) ==
  /\ ~Reading /\ filter \in Filters
  /\ query' = [NoQuery EXCEPT !.pc = "open", !.filter = filter, !.changed = sync # "none"]
  /\ given' = <<>> /\ UNCHANGED <<listVars, dataVars, late>>

(* Or it asks for some items: a sequence, in the application's order. *)
Specified(ids, filter) ==
  /\ ~Reading /\ filter \in Filters \cap {"all", "white"}
  /\ which = "members" => sync # "ids"
  /\ query' = [NoQuery EXCEPT !.pc = "local", !.filter = filter, !.page = ids, !.some = TRUE,
                              !.changed = sync # "none"]
  /\ given' = <<>> /\ UNCHANGED <<listVars, dataVars, late>>

GetSpecifiedGroupsInfo(ids)          == which = "groups" /\ Specified(ids, "all")
GetSpecifiedGroupMembersInfo(ids)    == which = "members" /\ Specified(ids, "all")
GetSpecifiedFriendsInfo(ids, filter) == which = "friends" /\ Specified(ids, filter)

End == query' = [query EXCEPT !.pc = "done", !.page = <<>>, !.found = {}, !.data = {}] /\ UNCHANGED <<listVars, dataVars, given, late>>
Fail(why) == query' = [query EXCEPT !.pc = "done", !.failed = why, !.page = <<>>, !.found = {}, !.data = {}] /\ UNCHANGED <<listVars, dataVars, given, late>>

(* Mutant: the items at the border of two pages are in neither. *)
Piece_Short(from, length) == SubSeq(order, from + 1, IF from + length > Len(order) THEN Len(order) ELSE from + length - 1)

(* The ids of a page. *)
Piece(from, length) == SubSeq(order, from + 1, IF from + length > Len(order) THEN Len(order) ELSE from + length)

(* FetchWithPagination: behind the last id the answer is empty, or an error. *)
FetchWithPagination(skip, length) ==
  /\ query.pc = "open"
  /\ LET from == query.offset + skip IN
       IF from >= Len(order) THEN End
       ELSE /\ query' = [query EXCEPT !.pc = "local", !.page = Piece(from, length)]
            /\ UNCHANGED <<listVars, dataVars, given, late>>

GetJoinedGroupListPage == which = "groups" /\ FetchWithPagination(0, Count)

(* Some of the items that are read will be left out. *)
GetFriendListPage ==
  which = "friends" /\ FetchWithPagination(0, IF query.filter = "white" /\ black # {} THEN 2 * Count ELSE Count)

(* Who is skipped by a filter, as the table has them. *)
InCharge ==
  {i \in table : \/ query.filter = "users" /\ is[i] # "user"
                 \/ query.filter = "notOwner" /\ is[i] = "owner"}

GetGroupMemberList ==
  /\ which = "members" /\ query.filter # "search" /\ sync # "ids"
  /\ FetchWithPagination(Cardinality(InCharge), Count)

(* GetGroupMemberListByUserIDs: what the statement asks of a row. *)
Matches(i) ==
  CASE query.filter \in {"owner", "admin"} -> is[i] = query.filter
    [] query.filter = "users"    -> is[i] = "user"
    [] query.filter = "notOwner" -> is[i] # "owner"
    [] query.filter = "inCharge" -> is[i] # "user"
    [] OTHER -> TRUE

(* Those in charge are never asked from the server, and in a small group nobody is. *)
NeedServer ==
  ~ \/ query.filter \in {"owner", "admin", "inCharge"}
    \/ which = "members" /\ query.some /\ Len(order) < Limit

Missing == ToSet(query.page) \ query.found

FetchFromLocal ==
  /\ query.pc = "local"
  /\ LET found == {i \in ToSet(query.page) \cap table : Matches(i)} IN
       query' = [query EXCEPT !.found = found,
                   !.pc = IF NeedServer /\ ToSet(query.page) \ found # {} THEN "ask" ELSE "tell"]
  /\ UNCHANGED <<listVars, dataVars, given, late>>

(* The server's answer: a group that the user is not in is known, too; it is not inserted *)
(* when it was asked for by name.                                                          *)
FetchFromServer ==
  /\ query.pc = "ask"
  /\ \/ Fail("request")
     \/ LET data == Missing \cap (IF which = "groups" THEN AllIds ELSE there) IN
        /\ query' = IF data = {} \/ (which = "groups" /\ query.some)
                    THEN [query EXCEPT !.pc = "tell", !.found = @ \cup data]
                    ELSE [query EXCEPT !.pc = "insert", !.data = data]
        /\ UNCHANGED <<listVars, dataVars, given, late>>

(* One statement inserts all, or none when there is one of them already. *)
BatchInsert ==
  /\ query.pc = "insert"
  /\ IF query.data \cap table # {} THEN Fail("conflict")
     ELSE /\ table' = table \cup query.data
          /\ query' = [query EXCEPT !.pc = "tell", !.found = @ \cup query.data]
          /\ late' = IF query.changed THEN late \cup query.data ELSE late
          /\ UNCHANGED <<listVars, there, order, sync, changes, given>>

(* sortByUserIDs, and of friends those who are in the black list are left out. *)
PageTold == SelectSeq(query.page, LAMBDA i : i \in query.found /\ (query.filter = "white" => i \notin black))
FirstOf(s, n) == IF Len(s) > n THEN SubSeq(s, 1, n) ELSE s

(* The answer; the application goes on to the next page. *)
Tell ==
  /\ query.pc = "tell"
  /\ IF query.some THEN given' = PageTold /\ query' = [query EXCEPT !.pc = "done"]
     ELSE /\ given' = given \o FirstOf(PageTold, Count)
          /\ query' = [query EXCEPT !.pc = "open", !.offset = @ + Count, !.page = <<>>, !.found = {}, !.data = {}]
  /\ UNCHANGED <<listVars, dataVars, late>>
-----------------------------------------------------------------------------
(* Pages that SQL makes of the rows that a condition selects; of each page those that may stay. *)
SqlPage(s, kept) ==
  /\ query.pc = "open"
  /\ IF query.offset >= Len(s) THEN End
     ELSE /\ given' = given \o SelectSeq(FirstOf(SubSeq(s, query.offset + 1, Len(s)), Count), LAMBDA i : i \in kept)
          /\ query' = [query EXCEPT !.offset = @ + Count]
          /\ UNCHANGED <<listVars, dataVars, late>>

(* The rows in the order of role and time. *)
SearchGroupMembers ==
  which = "members" /\ query.filter = "search" /\ SqlPage(SetToSortSeq(table, <), table)

(* filterMsg: the text that is shown has the keyword; merged messages are let through. *)
FilterMsg(i) == query.filter # "type" /\ is[i] \notin {"text", "merger"}

SearchMessageByContentType ==
  which = "messages" /\ query.filter = "type" /\ SqlPage(order, {i \in AllIds : ~FilterMsg(i)})

(* LIKE looks at all that is stored of a message; the page is filtered afterwards. *)
Like(i) == is[i] # "nothing"

SearchMessageByKeyword ==
  /\ which = "messages" /\ query.filter = "keyword"
  /\ SqlPage(SelectSeq(order, Like), {i \in AllIds : ~FilterMsg(i)})

(* All conversations at once, without pages; one that cannot be read is missing silently. *)
SearchMessageByContentTypeAndKeyword ==
  /\ which = "messages" /\ query.filter = "everywhere" /\ query.pc = "open"
  /\ \/ Fail("silently")
     \/ given' = SelectSeq(order, LAMBDA i : Like(i) /\ ~FilterMsg(i))
        /\ query' = [query EXCEPT !.pc = "done"] /\ UNCHANGED <<listVars, dataVars, late>>

Next ==
  \/ \E i \in AllIds : Change(i) \/ MessageChange(i)
  \/ SyncRows \/ SyncIds
  \/ \E f \in Filters : Page(f)
  \/ \E i, j \in AllIds : LET ids == <<j, i>> IN
       /\ i < j
       /\ \/ GetSpecifiedGroupsInfo(ids) \/ GetSpecifiedGroupMembersInfo(ids)
          \/ \E f \in Filters : GetSpecifiedFriendsInfo(ids, f)
  \/ GetJoinedGroupListPage \/ GetFriendListPage \/ GetGroupMemberList
  \/ FetchFromLocal \/ FetchFromServer \/ BatchInsert \/ Tell
  \/ SearchGroupMembers \/ SearchMessageByContentType \/ SearchMessageByKeyword
  \/ SearchMessageByContentTypeAndKeyword

Spec == Init /\ [][Next]_pageVars

TypeOK ==
  /\ there \subseteq AllIds /\ table \subseteq AllIds /\ Listed \subseteq AllIds /\ IsInjective(order)
  /\ sync \in {"none", "noted", "ids"} /\ changes \in 0..Changes
  /\ query.pc \in {"idle", "open", "local", "ask", "insert", "tell", "done"}
  /\ query.filter \in Filters \cup {"all"} /\ query.failed \in {"no", "request", "conflict", "silently"}
  /\ given \in Seq(AllIds) /\ late \subseteq AllIds
-----------------------------------------------------------------------------
(* Queries by the table alone, and by the ids alone. *)
GetFriendList == table \ (IF query.filter = "white" THEN black ELSE {})
CheckFriend(i) == i \in table /\ i \notin black
GetUsersInGroup(S) == S \cap Listed
CheckLocalGroupFullSync == Cardinality(table \cap Listed) = Len(order)
CheckGroupMemberFullSync == Cardinality(table) = Len(order)

(* What the application asked for, in the order it is to be told. *)
Wanted ==
  IF query.some THEN SelectSeq(query.page, LAMBDA i : (i \in Listed \/ which = "groups") /\ (query.filter = "white" => i \notin black))
  ELSE CASE which = "messages" -> SelectSeq(order, LAMBDA i : ~FilterMsg(i))
         [] query.filter = "white" -> SelectSeq(order, LAMBDA i : i \notin black)
         [] query.filter = "search" -> SetToSortSeq(table, <)
         [] OTHER -> SelectSeq(order, Matches)

(***************************************************************************)
(* Who pages through a list that does not change is told all that was      *)
(* asked for, and each once and in order: whatever rows the table lacks,   *)
(* however a filter skips and drops.  Pages without the black list         *)
(* overlap, so an item may come twice.  A small group that was larger      *)
(* when its rows were inserted may lack some for ever.                     *)
(***************************************************************************)
PagesTellAll ==
  query.pc = "done" /\ query.failed = "no" /\ ~query.changed =>
    \/ given = Wanted
    \/ query.filter = "white" /\ ToSet(given) = ToSet(Wanted)
    \/ which = "members" /\ query.some /\ Len(order) < Limit /\ ~(Listed \subseteq table)
    \/ which = "friends" /\ query.some /\ late # {}

(* An insert meets a row only where nothing excludes the synchronisation. *)
NoConflict == query.failed = "conflict" => which # "members" /\ query.changed

(***************************************************************************)
(* The queries by table and by ids agree: between synchronisations only a  *)
(* query that one overtook can have left a row of no one who is listed, of *)
(* members never, so that comparing numbers is enough; and once all pages  *)
(* were read nothing is missing from the table.                            *)
(***************************************************************************)
TableAgrees ==
  /\ sync = "none" => table \subseteq Listed \cup late
  /\ which = "members" /\ sync = "none" /\ CheckGroupMemberFullSync => GetUsersInGroup(table) = Listed
  /\ query.pc = "done" /\ query.failed = "no" /\ ~query.changed /\ ~query.some /\ query.filter \in {"all", "white"} =>
       /\ which = "groups" => CheckLocalGroupFullSync
       /\ which = "friends" => ToSet(given) = Listed \cap GetFriendList
       /\ query.filter = "white" => ToSet(given) = {i \in Listed : CheckFriend(i)}
=============================================================================
