------------------------------- MODULE Lookup -------------------------------
(***************************************************************************)
(* What is kept in memory of groups, members and users (pkg/cache,         *)
(* internal/group/{group,cache,api}.go, internal/user, pkg/datafetcher),   *)
(* for one item: its value at the server, its row, its cache entry.  The   *)
(* synchroniser writes row and entry one after the other, in the order of  *)
(* the item's kind; queries look in the cache, then at the row, then ask   *)
(* the server, and store what they found: nothing keeps the two apart.     *)
(*                                                                         *)
(* And the client's configuration (pkg/cliconf), which one goroutine       *)
(* fetches for all that wait, until a login or a lost connection clears it.*)
(***************************************************************************)
EXTENDS Naturals, Sequences, FiniteSets

CONSTANTS
  Writers,     \* goroutines that synchronise
  Readers,     \* goroutines that query or get the configuration
  Changes,     \* bound: changes at the server
  Syncs        \* bound: synchronisations begun

VARIABLES
  about,       \* the kind of the item: "group", "member", "self"; or "config"
  srv,         \* its value at the server; 0: not there
  values,      \* how many values it has had
  noted,       \* notifications of changes not handled yet
  row, cached, \* 0: none
  writer,      \* [Writers -> [pc, val, prog]]
  reader,      \* [Readers -> [pc, val, late]]
  syncs,
  spoiled,     \* history: the entry was stored by a query that a synchronisation overlapped,
               \* or the row was inserted under an entry
  missed,      \* history: a synchronisation failed, or overlapped another
  \* the configuration
  conf,        \* the current fetch, 0: none
  fetches,     \* sequence of [pc, asked: the number of clears when it last asked the server]
  clears,
  getter       \* [Readers -> [on: its fetch, began: the number of clears at its call]]

itemVars == <<srv, values, noted, row, cached>>
busyVars == <<writer, reader, syncs, spoiled, missed>>
confVars == <<conf, fetches, clears, getter>>
lookupVars == <<about, itemVars, busyVars, confVars>>

NoWriter == [pc |-> "idle", val |-> 0, prog |-> <<>>]
NoReader == [pc |-> "idle", val |-> 0, late |-> FALSE]
NoGetter == [on |-> 0, began |-> 0]

Init ==
  /\ about \in {"group", "member", "self", "config"}
  /\ srv = 1 /\ values = 1 /\ noted = 0 /\ row = 1 /\ cached = 0
  /\ writer = [w \in Writers |-> NoWriter] /\ reader = [r \in Readers |-> NoReader]
  /\ syncs = 0 /\ spoiled = FALSE /\ missed = FALSE
  /\ conf = 0 /\ fetches = <<>> /\ clears = 0 /\ getter = [r \in Readers |-> NoGetter]

Busy == {w \in Writers : writer[w].pc # "idle"}
-----------------------------------------------------------------------------
(* The server: a new value, or the user leaves the group, or a member it. *)
Change(to) ==
  /\ about # "config" /\ values < Changes + 1 /\ to # srv
  /\ to = values + 1 \/ (to = 0 /\ about # "self")
  /\ srv' = to /\ values' = values + 1 /\ noted' = 1
  /\ UNCHANGED <<about, row, cached, busyVars, confVars>>

(***************************************************************************)
(* The writes that the syncer of each kind makes, in their order.          *)
(***************************************************************************)
Row(v)   == <<"row", v>>
Entry(v) == <<"cache", v>>

GroupWrites(v) == [insert |-> <<Row(v), Entry(v)>>, update |-> <<Row(v), Entry(v)>>,
                   delete |-> <<Entry(0), Row(0)>>]

(* Mutant: an update leaves the entry. *)
MemberWrites_Keeps(v) == [insert |-> <<Row(v)>>, update |-> <<Row(v)>>, delete |-> <<Row(0)>>]

MemberWrites(v) == [insert |-> <<Row(v)>>, update |-> <<Entry(0), Row(v)>>, delete |-> <<Row(0)>>]

SelfWrites(v) == [insert |-> <<Row(v)>>, update |-> <<Entry(0), Row(v)>>, delete |-> <<>>]

Writes(v) == CASE about = "group" -> GroupWrites(v)
               [] about = "member" -> MemberWrites(v)
               [] about = "self" -> SelfWrites(v)

(* Syncer.Sync *)
Difference(v) == IF v = row THEN <<>> ELSE CASE v = 0   -> Writes(v).delete
                                             [] row = 0 -> Writes(v).insert
                                             [] OTHER   -> Writes(v).update

(* FullSync: all rows of the list are deleted, and inserted anew. *)
Refill(v) == Writes(v).delete \o IF v = 0 THEN <<>> ELSE Writes(v).insert

(* A synchronisation begins with the server's value. *)
FetchItem(w) ==
  /\ syncs < Syncs /\ syncs' = syncs + 1
  /\ writer' = [writer EXCEPT ![w] = [NoWriter EXCEPT !.pc = "fetched", !.val = srv]]
  /\ reader' = [r \in Readers |-> [reader[r] EXCEPT !.late = TRUE]]
  /\ noted' = 0 /\ missed' = (Busy \ {w} # {})
  /\ UNCHANGED <<about, srv, values, row, cached, spoiled, confVars>>

(* Groups and members have a mutex, *)
SyncItem(w) == about \in {"group", "member"} /\ Busy = {} /\ FetchItem(w)

(* the user's own data have none: a notification or a login ... *)
SyncLoginUserInfo(w) == about = "self" /\ writer[w].pc \in {"idle", "sync"} /\ FetchItem(w)

(* ... may meet the application, which changes them and synchronises at once. *)
SetSelfInfo(w) ==
  /\ about = "self" /\ writer[w].pc = "idle" /\ values < Changes + 1
  /\ srv' = values + 1 /\ values' = values + 1 /\ noted' = 1
  /\ writer' = [writer EXCEPT ![w].pc = "sync"]
  /\ reader' = [r \in Readers |-> [reader[r] EXCEPT !.late = TRUE]]
  /\ UNCHANGED <<about, row, cached, syncs, spoiled, missed, confVars>>

(* The local value, and what has to be written. *)
Compare(w) ==
  /\ writer[w].pc = "fetched"
  /\ \E prog \in {Difference(writer[w].val)} \cup
                 (IF about = "self" THEN {} ELSE {Refill(writer[w].val)}) :
       writer' = [writer EXCEPT ![w] = IF prog = <<>> THEN NoWriter
                                       ELSE [@ EXCEPT !.pc = "write", !.prog = prog]]
  /\ UNCHANGED <<about, itemVars, reader, syncs, spoiled, missed, confVars>>

(* A write, whether to the row or to the entry. *)
Write(w) ==
  /\ writer[w].pc = "write"
  /\ LET step == Head(writer[w].prog) rest == Tail(writer[w].prog) IN
       /\ \/ step[1] = "row" /\ row' = step[2] /\ UNCHANGED cached
             /\ spoiled' = (spoiled \/ (about # "group" /\ row = 0 /\ step[2] # cached /\ cached # 0))
          \/ step[1] = "cache" /\ cached' = step[2] /\ UNCHANGED row /\ spoiled' = FALSE
       /\ writer' = [writer EXCEPT ![w] = IF rest = <<>> THEN NoWriter ELSE [@ EXCEPT !.prog = rest]]
  /\ UNCHANGED <<about, srv, values, noted, reader, syncs, missed, confVars>>

(* The server does not answer, or a statement fails; the next synchronisation will do it. *)
SyncItemFails(w) ==
  /\ \/ writer[w].pc \in {"sync", "fetched"}
     \/ writer[w].pc = "write" /\ Head(writer[w].prog)[1] = "row"
  /\ writer' = [writer EXCEPT ![w] = NoWriter] /\ missed' = TRUE
  /\ UNCHANGED <<about, itemVars, reader, syncs, spoiled, confVars>>
-----------------------------------------------------------------------------
(* A query that finds the entry ends there, one that misses it goes on. *)
Hit == about # "config" /\ cached # 0 /\ UNCHANGED lookupVars

Miss(r, pc) ==
  /\ reader[r].pc = "idle" /\ cached = 0
  /\ reader' = [reader EXCEPT ![r] = [pc |-> pc, val |-> 0, late |-> Busy # {}]]
  /\ UNCHANGED <<about, itemVars, writer, syncs, spoiled, missed, confVars>>

GetSpecifiedGroupsInfoSafe(r) == about = "group" /\ Miss(r, "row")
GetGroupMembersInfo(r)        == about = "member" /\ Miss(r, "row")
Fetch(r)                      == about = "self" /\ Miss(r, "row")

(* It has no function for the rows. *)
BatchFetch(r)                 == about = "self" /\ Miss(r, "ask")

Found(r, v) == reader' = [reader EXCEPT ![r] = IF v = 0 THEN [@ EXCEPT !.pc = "ask"]
                                              ELSE [@ EXCEPT !.pc = "store", !.val = v]]

(* FetchFromLocal: a statement that fails ends the query; *)
FetchFromLocal(r) ==
  /\ reader[r].pc = "row" /\ about # "self"
  /\ Found(r, row) \/ reader' = [reader EXCEPT ![r] = NoReader]
  /\ UNCHANGED <<about, itemVars, writer, syncs, spoiled, missed, confVars>>

(* for a user, the server is asked then. *)
FetchUser(r) ==
  /\ reader[r].pc = "row" /\ about = "self"
  /\ \E v \in {row, 0} : Found(r, v)
  /\ UNCHANGED <<about, itemVars, writer, syncs, spoiled, missed, confVars>>

(* It may know more than the database, or not answer. *)
FetchFromServer(r) ==
  /\ reader[r].pc = "ask"
  /\ \/ reader' = [reader EXCEPT ![r] = [pc |-> "store", val |-> srv,
                                          late |-> reader[r].late \/ noted # 0 \/ missed]]
     \/ reader' = [reader EXCEPT ![r] = NoReader]
  /\ UNCHANGED <<about, itemVars, writer, syncs, spoiled, missed, confVars>>

(* What is not there is not stored. *)
StoreEntry(r) ==
  /\ reader[r].pc = "store"
  /\ IF reader[r].val = 0 THEN UNCHANGED <<cached, spoiled>>
     ELSE cached' = reader[r].val /\ spoiled' = reader[r].late
  /\ reader' = [reader EXCEPT ![r] = NoReader]
  /\ UNCHANGED <<about, srv, values, noted, row, writer, syncs, missed, confVars>>
-----------------------------------------------------------------------------
(* getCurrConfig: the current fetch, or a new one; its goroutine asks the server. *)
GetConfig(r) ==
  /\ about = "config" /\ getter[r] = NoGetter
  /\ conf # 0 \/ Len(fetches) < Changes + 1
  /\ IF conf # 0 THEN UNCHANGED <<conf, fetches>>
     ELSE /\ conf' = Len(fetches) + 1
          /\ fetches' = Append(fetches, [pc |-> "ask", asked |-> clears])
  /\ getter' = [getter EXCEPT ![r] = [on |-> conf', began |-> clears]]
  /\ UNCHANGED <<about, itemVars, busyVars, clears>>

(* asyncGetConfig: the server's answer or an error, when the fetch is still the current one; *)
(* otherwise it asks again, for ever.                                                        *)
ConfigAnswered(f) ==
  /\ fetches[f].pc = "ask"
  /\ fetches' = [fetches EXCEPT ![f] = IF conf = f THEN [@ EXCEPT !.pc = "end"]
                                       ELSE [@ EXCEPT !.asked = clears]]
  /\ UNCHANGED <<about, itemVars, busyVars, conf, clears, getter>>

EndConfig(f) ==
  /\ fetches[f].pc = "end"
  /\ \E pc \in {"ok", "err"} : fetches' = [fetches EXCEPT ![f].pc = pc]
  /\ UNCHANGED <<about, itemVars, busyVars, conf, clears, getter>>

(* SetLoginUserID at a login, readPump when the connection fails. *)
ClearConfig ==
  /\ about = "config" /\ clears < Changes /\ clears' = clears + 1
  /\ conf' = 0
  /\ UNCHANGED <<about, itemVars, busyVars, fetches, getter>>

(* The getter's select: the fetch has ended, or its own context. *)
ConfigReturns(r) ==
  /\ getter[r].on # 0 /\ getter' = [getter EXCEPT ![r] = NoGetter]
  /\ UNCHANGED <<about, itemVars, busyVars, conf, fetches, clears>>

Next ==
  \/ \E to \in 0..Changes + 1 : Change(to)
  \/ \E w \in Writers : SyncItem(w) \/ SyncLoginUserInfo(w) \/ SetSelfInfo(w) \/ Compare(w) \/ Write(w) \/ SyncItemFails(w)
  \/ \E r \in Readers : \/ GetSpecifiedGroupsInfoSafe(r) \/ GetGroupMembersInfo(r) \/ Fetch(r) \/ BatchFetch(r)
                        \/ FetchFromLocal(r) \/ FetchUser(r) \/ FetchFromServer(r) \/ StoreEntry(r)
                        \/ GetConfig(r) \/ ConfigReturns(r)
  \/ \E f \in DOMAIN fetches : ConfigAnswered(f) \/ EndConfig(f)
  \/ Hit \/ ClearConfig

Spec == Init /\ [][Next]_lookupVars

TypeOK ==
  /\ about \in {"group", "member", "self", "config"}
  /\ {srv, values, row, cached} \subseteq 0..Changes + 1 /\ noted \in {0, 1}
  /\ \A w \in Writers : writer[w].pc \in {"idle", "sync", "fetched", "write"}
  /\ \A r \in Readers : reader[r].pc \in {"idle", "row", "ask", "store"}
  /\ syncs \in 0..Syncs /\ spoiled \in BOOLEAN /\ missed \in BOOLEAN
  /\ conf \in 0..Len(fetches) /\ clears \in 0..Changes
  /\ \A f \in DOMAIN fetches : fetches[f].pc \in {"ask", "end", "ok", "err"}

(***************************************************************************)
(* Between synchronisations what is in memory is what is in the database,  *)
(* although each is written without the other, in an order that depends on *)
(* the kind, and any statement may fail: except where a query overlapped a *)
(* synchronisation, or a member's row came back under an entry that        *)
(* nothing had removed.  And the user's own row is the server's, once the  *)
(* change is handled, unless its synchronisations failed or overlapped.    *)
(***************************************************************************)
CachesFollow ==
  /\ Busy = {} /\ row # 0 /\ cached # 0 /\ ~spoiled => cached = row
  /\ about = "self" /\ Busy = {} /\ noted = 0 /\ ~missed => row = srv

(* No call waits for, or is given, a configuration that was asked for before a clear that  *)
(* the call came after: a new login never sees the configuration of the user before.       *)
NoOldConfig ==
  \A r \in Readers : getter[r].on # 0 => fetches[getter[r].on].asked >= getter[r].began
=============================================================================
