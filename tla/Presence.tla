------------------------------ MODULE Presence ------------------------------
(***************************************************************************)
(* Which users are online (internal/interaction/subscription.go,           *)
(* long_conn_mgr.go, online.go).  A query for users subscribes to them on  *)
(* the connection; from then on the server reports their changes and the   *)
(* client answers from memory.  Unsubscribing only forgets the entry: the  *)
(* server is told with the next query, after it has reported once more.    *)
(*                                                                         *)
(* A user is on or off, for its list of platforms.  The map sub is filled  *)
(* by nothing, so it is left out, with what depends on it: a new           *)
(* connection starts without subscriptions.                                *)
(***************************************************************************)
EXTENDS Naturals, Sequences, FiniteSets

CONSTANTS
  Users,
  Queries,     \* goroutines that may query at the same time
  Way          \* bound: messages on the way in each direction

VARIABLES
  \* the server
  state,       \* [Users -> {"on", "off"}]
  subs,        \* users subscribed on the connection
  toServer, toClient,   \* what is on its way on the connection
  \* the connection
  link,        \* "up", "broken" (not noticed), "closed" (its entries are not yet
               \* cleared), "cleared", "opened" (unsub is cleared, connStatus not set)
  \* subscription
  load,        \* [Users -> "none", "wait", or the state]
  unsub,       \* users to unsubscribe with the next query
  \* queries
  query,       \* [Queries -> Query]
  \* histories
  lost         \* users whose subscription another query may undo or the server has refused

presenceVars == <<state, subs, toServer, toClient, link, load, unsub, query, lost>>
wire == <<state, subs, toServer, toClient, link>>

(* What a query writes, the entries it has made that are still there, and whom it waits for. *)
NoQuery == [pc |-> "idle", sub |-> {}, unsub |-> {}, own |-> {}, left |-> {}]

Init ==
  /\ state = [u \in Users |-> "off"] /\ subs = {} /\ toServer = <<>> /\ toClient = <<>>
  /\ link = "up"
  /\ load = [u \in Users |-> "none"] /\ unsub = {}
  /\ query = [q \in Queries |-> NoQuery]
  /\ lost = {}
-----------------------------------------------------------------------------
(* subscriptionStatues.finish: those who wait for the users go on. *)
Finish(S) == [q \in Queries |-> [query[q] EXCEPT !.left = @ \ S]]

(* Their entries are deleted, and they finish. *)
Forget(S) ==
  /\ load' = [u \in Users |-> IF u \in S THEN "none" ELSE load[u]]
  /\ query' = [q \in Queries |-> [query[q] EXCEPT !.left = @ \ S, !.own = @ \ S]]

(* getUserOnline, under the lock: entries for the new users, which the query subscribes to. *)
GetUserOnline(q, S) ==
  /\ query[q].pc = "idle"
  /\ LET new  == {u \in S : load[u] = "none"}
         wait == {u \in S : load[u] \in {"none", "wait"}}
         rest == unsub \ S
     IN
       /\ load' = [u \in Users |-> IF u \in new THEN "wait" ELSE load[u]]
       /\ unsub' = IF new = {} THEN rest ELSE {}
       /\ query' = [query EXCEPT ![q] = [NoQuery EXCEPT
            !.pc = IF new = {} THEN "wait" ELSE "write",
            !.sub = new, !.unsub = IF new = {} THEN {} ELSE rest, !.own = new, !.left = wait]]
       /\ lost' = lost \cup {u \in new : \E p \in Queries : u \in query[p].unsub}
  /\ UNCHANGED wire

(* writeSubInfo, when no one connects: the subscriptions go out on the current socket. *)
WriteSubInfo(q) ==
  /\ query[q].pc = "write" /\ link \in {"up", "broken"} /\ Len(toServer) < Way
  /\ toServer' = IF link = "up"
                 THEN Append(toServer, [sub |-> query[q].sub, unsub |-> query[q].unsub])
                 ELSE toServer
  /\ query' = [query EXCEPT ![q] = [NoQuery EXCEPT !.pc = "wait", !.left = query[q].left]]
  /\ UNCHANGED <<state, subs, toClient, link, load, unsub, lost>>

(* writeFailed: the entries that the query has made, unless they were made anew since. *)
WriteFailed(q) ==
  /\ query[q].pc = "write" /\ link \in {"closed", "cleared", "broken"}
  /\ load' = [u \in Users |-> IF u \in query[q].own THEN "none" ELSE load[u]]
  /\ query' = [Finish(query[q].own) EXCEPT ![q] = NoQuery]
  /\ UNCHANGED <<wire, unsub, lost>>

(* The end of GetUserOnlinePlatformIDs: with the states, an error, or after five seconds. *)
Return(q) ==
  /\ query[q].pc = "wait"
  /\ query' = [query EXCEPT ![q] = NoQuery]
  /\ UNCHANGED <<wire, load, unsub, lost>>

(* unsubscribe *)
Unsubscribe(S) ==
  /\ \E u \in S : load[u] # "none"
  /\ Forget(S)
  /\ UNCHANGED <<wire, unsub, lost>>
-----------------------------------------------------------------------------
(* setUserState: entries take the state; of others the server shall not report again. *)
SetUserState(changes) ==
  LET known == {u \in DOMAIN changes : load[u] # "none"} IN
    /\ load' = [u \in Users |-> IF u \in known THEN changes[u] ELSE load[u]]
    /\ unsub' = (unsub \ known) \cup (DOMAIN changes \ known)
    /\ query' = Finish(known)

(* handlerUserOnlineChange; a response with an error says nothing of any user. *)
HandleUserOnlineChange ==
  /\ link = "up" /\ toClient # <<>>
  /\ toClient' = Tail(toClient)
  /\ SetUserState(Head(toClient))
  /\ UNCHANGED <<state, subs, toServer, link, lost>>

(* The read loop closes the connection ... *)
ReadFails ==
  /\ link = "broken" /\ link' = "closed"
  /\ subs' = {} /\ toServer' = <<>> /\ toClient' = <<>>
  /\ UNCHANGED <<state, load, unsub, query, lost>>

(* Mutant: the entries outlive the connection. *)
OnConnClosed_Keeps ==
  /\ link = "closed" /\ link' = "cleared" /\ unsub' = {}
  /\ lost' = {}
  /\ UNCHANGED <<state, subs, toServer, toClient, load, query>>

(* ... and clears the entries (onConnClosed); who waits for them gets an error. *)
OnConnClosed ==
  /\ link = "closed" /\ link' = "cleared"
  /\ unsub' = {} /\ Forget(Users)
  /\ lost' = {}
  /\ UNCHANGED <<state, subs, toServer, toClient>>

(* reConn, which holds connWrite: no query writes. *)
OnConnSuccess ==
  /\ link = "cleared" /\ link' = "opened" /\ unsub' = {}
  /\ UNCHANGED <<state, subs, toServer, toClient, load, query, lost>>

Connected ==
  /\ link = "opened" /\ link' = "up"
  /\ UNCHANGED <<state, subs, toServer, toClient, load, unsub, query, lost>>
-----------------------------------------------------------------------------
(* The server *)
Break ==
  /\ link = "up" /\ link' = "broken"
  /\ UNCHANGED <<state, subs, toServer, toClient, load, unsub, query, lost>>

(* A request takes effect, and is answered with the states asked for or refused. *)
Serve ==
  /\ link = "up" /\ toServer # <<>> /\ Len(toClient) < Way
  /\ LET req == Head(toServer) IN
       \/ /\ subs' = (subs \ req.unsub) \cup req.sub
          /\ toClient' = Append(toClient, [u \in req.sub |-> state[u]])
          /\ UNCHANGED lost
       \/ /\ lost' = lost \cup req.sub
          /\ UNCHANGED <<subs, toClient>>
  /\ toServer' = Tail(toServer)
  /\ UNCHANGED <<state, link, load, unsub, query>>

(* Bound: a user comes online once. *)
Change(u) ==
  /\ state[u] = "off" /\ state' = [state EXCEPT ![u] = "on"]
  /\ Len(toClient) < Way \/ link # "up"
  /\ toClient' = IF link = "up" /\ u \in subs
                 THEN Append(toClient, [v \in {u} |-> "on"]) ELSE toClient
  /\ UNCHANGED <<subs, toServer, link, load, unsub, query, lost>>

Next ==
  \/ \E q \in Queries : WriteSubInfo(q) \/ WriteFailed(q) \/ Return(q)
  \/ \E q \in Queries, S \in SUBSET Users \ {{}} : GetUserOnline(q, S)
  \/ \E S \in SUBSET Users \ {{}} : Unsubscribe(S)
  \/ HandleUserOnlineChange \/ ReadFails \/ OnConnClosed \/ OnConnSuccess \/ Connected
  \/ Break \/ Serve \/ \E u \in Users : Change(u)

Spec == Init /\ [][Next]_presenceVars

TypeOK ==
  /\ state \in [Users -> {"on", "off"}] /\ subs \subseteq Users
  /\ link \in {"up", "broken", "closed", "cleared", "opened"}
  /\ load \in [Users -> {"none", "wait", "on", "off"}] /\ unsub \subseteq Users
  /\ query \in [Queries -> [pc : {"idle", "write", "wait"}, sub : SUBSET Users,
                            unsub : SUBSET Users, own : SUBSET Users, left : SUBSET Users]]
  /\ lost \subseteq Users

OnTheWay(u) ==
  \/ \E i \in DOMAIN toServer : u \in toServer[i].sub
  \/ \E i \in DOMAIN toClient : u \in DOMAIN toClient[i]

(***************************************************************************)
(* An entry is never forgotten: one that waits has its subscription about  *)
(* to be written or on its way, or the connection's end will clear it; one *)
(* with a state has that of the server or a report on its way.  Else later *)
(* queries would wait five seconds for nothing, or be told an old state    *)
(* until the connection ends.  Except for a user whose subscription was    *)
(* refused, or overtaken by the other query's unsubscription.              *)
(***************************************************************************)
EntriesLive ==
  \A u \in Users \ lost :
    load[u] # "none" /\ link # "broken" /\ link # "closed" =>
      \/ OnTheWay(u)
      \/ \E q \in Queries : u \in query[q].sub
      \/ load[u] = state[u] /\ u \in subs
=============================================================================
