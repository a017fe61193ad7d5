--------------------------- MODULE ServicesProofs ---------------------------
(***************************************************************************)
(* Who is online, who is logged in, and what the page answers: type        *)
(* correctness and the safety of Presence, Session and Browser, for any    *)
(* users, queries, calls, errors, epochs, statements and bounds, as scenes *)
(* of MCServices.                                                          *)
(*                                                                         *)
(* Presence: an entry is asked for by a query, by a request on its way, or *)
(* known to the server, and whom the server will be told to forget has no  *)
(* entry, or is asked for anew behind (Kept, Dropped).                     *)
(*                                                                         *)
(* Session: as long as nothing was torn there is one login at a time, in   *)
(* its epoch; the epoch has goroutines exactly once someone is in; who     *)
(* logs out goes from the cancelled context over the closed database to    *)
(* the next epoch; and what has ended is cancelled and closed (Untorn).    *)
(*                                                                         *)
(* Browser: a call waits for the statement that it posted last; while a    *)
(* write is alone no other is with the page; and what was read of the file *)
(* is what comes before the place where the next read begins (Own, Alone,  *)
(* Whole).                                                                 *)
(***************************************************************************)
EXTENDS MCServices, SequenceTheorems, TLAPS

(* Presence: what is on the way between client and server, and the client's entries *)

Reports == UNION {[D -> {"on", "off"}] : D \in SUBSET People}
Asks    == [pc : {"idle", "write", "wait"}, sub : SUBSET People, unsub : SUBSET People,
            own : SUBSET People, left : SUBSET People]
Subscriptions == [sub : SUBSET People, unsub : SUBSET People]
WireType ==
  /\ state \in [People -> {"on", "off"}] /\ subs \subseteq People
  /\ toServer \in Seq(Subscriptions) /\ toClient \in Seq(Reports)
  /\ link \in {"up", "broken", "closed", "cleared", "opened"}
EntryType ==
  /\ load \in [People -> {"none", "wait", "on", "off"}] /\ unsub \subseteq People
  /\ query \in [Queries -> Asks]
PresenceType == WireType /\ EntryType

LEMMA ReportFacts ==
  /\ \A m \in Reports : DOMAIN m \subseteq People /\ \A u \in DOMAIN m : m[u] \in {"on", "off"}
  /\ \A S \in SUBSET People, s \in [People -> {"on", "off"}] :
       [u \in S |-> s[u]] \in Reports /\ DOMAIN [u \in S |-> s[u]] = S
  /\ \A u \in People : [v \in {u} |-> "on"] \in Reports
<1>1. ASSUME NEW m \in Reports PROVE DOMAIN m \subseteq People /\ \A u \in DOMAIN m : m[u] \in {"on", "off"}
  <2>1. PICK D \in SUBSET People : m \in [D -> {"on", "off"}]
    BY DEF Reports
  <2> QED BY <2>1
<1>2. ASSUME NEW S \in SUBSET People, NEW s \in [People -> {"on", "off"}]
      PROVE  [u \in S |-> s[u]] \in Reports /\ DOMAIN [u \in S |-> s[u]] = S
  <2>1. [u \in S |-> s[u]] \in [S -> {"on", "off"}]
    OBVIOUS
  <2> QED BY <2>1 DEF Reports
<1>3. ASSUME NEW u \in People PROVE [v \in {u} |-> "on"] \in Reports
  <2>1. [v \in {u} |-> "on"] \in [{u} -> {"on", "off"}] /\ {u} \in SUBSET People
    OBVIOUS
  <2> QED BY <2>1 DEF Reports
<1> QED BY <1>1, <1>2, <1>3

LEMMA PresenceTypeInit == Online!Init => PresenceType
<1> SUFFICES ASSUME Online!Init PROVE PresenceType
  OBVIOUS
<1>1. WireType
  BY DEF Online!Init, WireType
<1>2. Online!NoQuery \in Asks
  BY DEF Online!NoQuery, Asks
<1>3. EntryType
  BY <1>2 DEF Online!Init, EntryType
<1> QED BY <1>1, <1>3 DEF PresenceType

(* What the steps do to the queries keeps their type. *)
LEMMA AsksKept ==
  ASSUME EntryType, NEW S \in SUBSET People
  PROVE  /\ Online!Finish(S) \in [Queries -> Asks]
         /\ [q \in Queries |-> [query[q] EXCEPT !.left = @ \ S, !.own = @ \ S]] \in [Queries -> Asks]
         /\ Online!NoQuery \in Asks
<1>1. ASSUME NEW q \in Queries
      PROVE  [query[q] EXCEPT !.left = @ \ S] \in Asks /\ [query[q] EXCEPT !.left = @ \ S, !.own = @ \ S] \in Asks
  <2>1. query[q] \in Asks
    BY DEF EntryType
  <2> QED BY <2>1 DEF Asks
<1>2. Online!NoQuery \in Asks
  BY DEF Online!NoQuery, Asks
<1> QED BY <1>1, <1>2 DEF Online!Finish

LEMMA PresenceTypeNext == PresenceType /\ [Online!Next]_Online!presenceVars => PresenceType'
<1> SUFFICES ASSUME PresenceType, [Online!Next]_Online!presenceVars PROVE PresenceType'
  OBVIOUS
<1>0. WireType /\ EntryType
  BY DEF PresenceType
<1>1. ASSUME NEW q \in Queries, NEW S \in SUBSET People, Online!GetUserOnline(q, S) PROVE PresenceType'
  <2>1. WireType'
    BY <1>0, <1>1 DEF Online!GetUserOnline, Online!wire, WireType
  <2>2. \E r \in Asks : query' = [query EXCEPT ![q] = r]
    <3> DEFINE new  == {u \in S : load[u] = "none"}
               wait == {u \in S : load[u] \in {"none", "wait"}}
               rest == unsub \ S
               r == [Online!NoQuery EXCEPT !.pc = IF new = {} THEN "wait" ELSE "write",
                       !.sub = new, !.unsub = IF new = {} THEN {} ELSE rest, !.own = new, !.left = wait]
    <3>1. query' = [query EXCEPT ![q] = r]
      BY <1>1 DEF Online!GetUserOnline
    <3>2. new \in SUBSET People /\ wait \in SUBSET People /\ rest \in SUBSET People
      BY <1>0 DEF EntryType
    <3>3. r \in Asks
      <4> HIDE DEF new, wait, rest
      <4> QED BY <3>2 DEF Asks, Online!NoQuery
    <3> QED BY <3>1, <3>3
  <2>3. load' \in [People -> {"none", "wait", "on", "off"}] /\ unsub' \subseteq People
    BY <1>0, <1>1 DEF Online!GetUserOnline, EntryType
  <2> QED BY <1>0, <2>1, <2>2, <2>3 DEF PresenceType, EntryType
<1>2. ASSUME NEW q \in Queries, Online!WriteSubInfo(q) PROVE PresenceType'
  <2>1. query[q] \in Asks
    BY <1>0 DEF EntryType
  <2>2. [Online!NoQuery EXCEPT !.pc = "wait", !.left = query[q].left] \in Asks
    BY <2>1 DEF Asks, Online!NoQuery
  <2>3. [sub |-> query[q].sub, unsub |-> query[q].unsub] \in Subscriptions
    BY <2>1 DEF Asks, Subscriptions
  <2>4. toServer' \in Seq(Subscriptions)
    <3>1. \/ toServer' = Append(toServer, [sub |-> query[q].sub, unsub |-> query[q].unsub])
          \/ toServer' = toServer
      BY <1>2 DEF Online!WriteSubInfo
    <3> HIDE DEF Asks
    <3> QED BY <1>0, <2>3, <3>1 DEF WireType
  <2>5. \E r \in Asks : query' = [query EXCEPT ![q] = r]
    BY <1>2, <2>2 DEF Online!WriteSubInfo
  <2>6. UNCHANGED <<state, subs, toClient, link, load, unsub>>
    BY <1>2 DEF Online!WriteSubInfo
  <2> QED BY <1>0, <2>4, <2>5, <2>6 DEF PresenceType, WireType, EntryType
<1>3. ASSUME NEW q \in Queries, Online!WriteFailed(q) PROVE PresenceType'
  <2>1. query[q] \in Asks
    BY <1>0 DEF EntryType
  <2>2. query[q].own \in SUBSET People
    BY <2>1 DEF Asks
  <2>3. query' \in [Queries -> Asks]
    BY <1>0, <1>3, <2>2, AsksKept DEF Online!WriteFailed
  <2> QED BY <1>0, <1>3, <2>3 DEF Online!WriteFailed, PresenceType, WireType, EntryType, Online!wire
<1>4. ASSUME NEW q \in Queries, Online!Return(q) PROVE PresenceType'
  BY <1>0, <1>4, AsksKept DEF Online!Return, PresenceType, WireType, EntryType, Online!wire
<1>5. ASSUME NEW S \in SUBSET People, Online!Unsubscribe(S) PROVE PresenceType'
  <2>1. query' \in [Queries -> Asks]
    BY <1>0, <1>5, AsksKept DEF Online!Unsubscribe, Online!Forget
  <2> QED BY <1>0, <1>5, <2>1 DEF Online!Unsubscribe, Online!Forget, PresenceType, WireType,
             EntryType, Online!wire
<1>6. CASE Online!HandleUserOnlineChange
  <2>1. Head(toClient) \in Reports /\ Tail(toClient) \in Seq(Reports)
    BY <1>0, <1>6 DEF Online!HandleUserOnlineChange, WireType
  <2> DEFINE m == Head(toClient)
  <2>2. DOMAIN m \subseteq People /\ \A u \in DOMAIN m : m[u] \in {"on", "off"}
    BY <2>1, ReportFacts
  <2>3. Online!SetUserState(m) /\ toClient' = Tail(toClient) /\ UNCHANGED <<state, subs, toServer, link>>
    BY <1>6 DEF Online!HandleUserOnlineChange
  <2> HIDE DEF m
  <2>4. query' \in [Queries -> Asks]
    <3>1. {u \in DOMAIN m : load[u] # "none"} \in SUBSET People
      BY <2>2
    <3> QED BY <1>0, <2>3, <3>1, AsksKept DEF Online!SetUserState
  <2>5. load' \in [People -> {"none", "wait", "on", "off"}] /\ unsub' \subseteq People
    BY <1>0, <2>2, <2>3 DEF Online!SetUserState, EntryType
  <2> QED BY <1>0, <2>1, <2>3, <2>4, <2>5 DEF PresenceType, WireType, EntryType
<1>7. CASE Online!ReadFails
  BY <1>0, <1>7 DEF Online!ReadFails, PresenceType, WireType, EntryType
<1>8. CASE Online!OnConnClosed
  <2>1. query' \in [Queries -> Asks]
    BY <1>0, <1>8, AsksKept DEF Online!OnConnClosed, Online!Forget
  <2> QED BY <1>0, <1>8, <2>1 DEF Online!OnConnClosed, Online!Forget, PresenceType, WireType,
             EntryType
<1>9. CASE Online!OnConnSuccess \/ Online!Connected \/ Online!Break
  BY <1>0, <1>9 DEF Online!OnConnSuccess, Online!Connected, Online!Break, PresenceType, WireType,
     EntryType
<1>10. CASE Online!Serve
  <2> DEFINE req == Head(toServer)
  <2>1. req \in Subscriptions
        /\ Tail(toServer) \in Seq(Subscriptions)
    BY <1>0, <1>10 DEF Online!Serve, WireType
  <2>2. [u \in req.sub |-> state[u]] \in Reports
    BY <1>0, <2>1, ReportFacts DEF WireType, Subscriptions
  <2>3. /\ UNCHANGED <<state, link, load, unsub, query>> /\ toServer' = Tail(toServer)
        /\ \/ subs' = (subs \ req.unsub) \cup req.sub
             /\ toClient' = Append(toClient, [u \in req.sub |-> state[u]])
           \/ UNCHANGED <<subs, toClient>>
    BY <1>10 DEF Online!Serve
  <2> HIDE DEF req
  <2>4. subs' \subseteq People
    BY <1>0, <2>1, <2>3 DEF WireType, Subscriptions
  <2>5. toClient' \in Seq(Reports)
    BY <1>0, <2>2, <2>3 DEF WireType
  <2> QED BY <1>0, <2>1, <2>3, <2>4, <2>5 DEF PresenceType, WireType, EntryType
<1>11. ASSUME NEW u \in People, Online!Change(u) PROVE PresenceType'
  <2>1. [v \in {u} |-> "on"] \in Reports
    BY ReportFacts
  <2>2. toClient' \in Seq(Reports) /\ state' \in [People -> {"on", "off"}]
    BY <1>0, <1>11, <2>1 DEF Online!Change, WireType
  <2> QED BY <1>0, <1>11, <2>2 DEF Online!Change, PresenceType, WireType, EntryType
<1>12. CASE UNCHANGED Online!presenceVars
  BY <1>0, <1>12 DEF Online!presenceVars, PresenceType, WireType, EntryType
<1> QED
  BY <1>1, <1>2, <1>3, <1>4, <1>5, <1>6, <1>7, <1>8, <1>9, <1>10, <1>11, <1>12 DEF Online!Next

-----------------------------------------------------------------------------
(* Who asks for u: a query that has not written it yet, or a request on its way. *)
Waiting(u) == \E q \in Queries : u \in query[q].sub
Asked(u)   == \E i \in 1..Len(toServer) : u \in toServer[i].sub

(* The server reports u, and what it has said of u last is true. *)
Told(k, u) == u \in DOMAIN toClient[k] /\ \A j \in 1..Len(toClient) : j > k => u \notin DOMAIN toClient[j]
Known(u) ==
  /\ u \in subs
  /\ \A k \in 1..Len(toClient) : Told(k, u) => toClient[k][u] = state[u]
  /\ (\A k \in 1..Len(toClient) : u \notin DOMAIN toClient[k]) => load[u] = state[u]

(* Whom the server is, or will be, told to forget, the client has forgotten, or asks for anew. *)
Dropped(u) ==
  /\ u \in unsub => load[u] = "none"
  /\ \A q \in Queries : u \in query[q].unsub => load[u] = "none"
  /\ link = "up" => \A i \in 1..Len(toServer) : u \in toServer[i].unsub =>
       load[u] = "none" \/ Waiting(u) \/ \E j \in 1..Len(toServer) : j >= i /\ u \in toServer[j].sub

Kept(u) ==
  load[u] # "none" =>
    /\ link = "up" => Waiting(u) \/ Asked(u) \/ Known(u)
    /\ link \in {"cleared", "opened"} => Waiting(u)
    /\ link = "cleared" => \E q \in Queries : u \in query[q].own

(* An entry that a query has made is one that it asks for, until it has written. *)
AsksInv ==
  \A q \in Queries :
    /\ query[q].own \subseteq query[q].sub
    /\ query[q].pc # "write" => query[q].sub = {} /\ query[q].unsub = {}
LinkInv ==
  /\ link \in {"closed", "cleared", "opened"} => subs = {} /\ toServer = <<>> /\ toClient = <<>>
PresenceInv ==
  /\ AsksInv /\ LinkInv
  /\ \A u \in People : u \in unsub => load[u] = "none"
  /\ \A u \in People \ lost : Dropped(u) /\ Kept(u)

LEMMA PresenceInitInv == Online!Init => PresenceInv
  BY DEF Online!Init, PresenceInv, AsksInv, LinkInv, Dropped, Kept, Online!NoQuery

(* The queries, and the entries that are gone, after Forget. *)
LEMMA Forgotten ==
  ASSUME PresenceType, NEW S \in SUBSET People, Online!Forget(S)
  PROVE  /\ \A q \in Queries : /\ query'[q].own = query[q].own \ S
                               /\ query'[q].sub = query[q].sub /\ query'[q].unsub = query[q].unsub
                               /\ query'[q].pc = query[q].pc
         /\ \A u \in People : load'[u] = IF u \in S THEN "none" ELSE load[u]
<1>1. \A q \in Queries : query[q] \in Asks
  BY DEF PresenceType, EntryType
<1>2. ASSUME NEW q \in Queries
      PROVE  /\ query'[q].own = query[q].own \ S
             /\ query'[q].sub = query[q].sub /\ query'[q].unsub = query[q].unsub /\ query'[q].pc = query[q].pc
  <2>1. query'[q] = [query[q] EXCEPT !.left = @ \ S, !.own = @ \ S]
    BY DEF Online!Forget
  <2> QED BY <1>1, <2>1 DEF Asks
<1> QED BY <1>2 DEF Online!Forget

LEMMA Finished ==
  ASSUME PresenceType, NEW S \in SUBSET People, NEW q \in Queries
  PROVE  /\ Online!Finish(S)[q].own = query[q].own /\ Online!Finish(S)[q].sub = query[q].sub
         /\ Online!Finish(S)[q].unsub = query[q].unsub /\ Online!Finish(S)[q].pc = query[q].pc
<1>1. query[q] \in Asks
  BY DEF PresenceType, EntryType
<1>2. Online!Finish(S)[q] = [query[q] EXCEPT !.left = @ \ S]
  BY DEF Online!Finish
<1> QED BY <1>1, <1>2 DEF Asks

(* A step that leaves the connection alone and forgets the entries of S: Unsubscribe, *)
(* and the end of a query, which by then asks for nobody or has failed.                 *)
LEMMA InvForgets ==
  ASSUME PresenceType, PresenceInv, NEW S \in SUBSET People, UNCHANGED <<Online!wire, lost, unsub>>,
         \A u \in People : load'[u] = IF u \in S THEN "none" ELSE load[u],
         \A q \in Queries : \/ /\ query'[q] = Online!NoQuery /\ query[q].own \subseteq S
                               /\ link \in {"up", "opened"} => query[q].sub = {}
                            \/ /\ query[q].own \ S \subseteq query'[q].own /\ query'[q].own \subseteq query[q].own
                               /\ query'[q].pc = query[q].pc
                               /\ query'[q].sub = query[q].sub /\ query'[q].unsub = query[q].unsub
  PROVE  PresenceInv'
<1>1. UNCHANGED <<state, subs, toServer, toClient, link, lost, unsub>>
  BY DEF Online!wire
<1>2. AsksInv'
  BY DEF PresenceInv, AsksInv, Online!NoQuery
<1>3. LinkInv'
  BY <1>1 DEF PresenceInv, LinkInv
<1>4. ASSUME NEW u \in People, u \in unsub' PROVE load'[u] = "none"
  BY <1>1, <1>4 DEF PresenceInv
<1>5. ASSUME NEW u \in People \ lost' PROVE Dropped(u)' /\ Kept(u)'
  <2>1. Dropped(u) /\ Kept(u) /\ u \in People
    BY <1>1, <1>5 DEF PresenceInv
  <2>2. load'[u] # "none" => load'[u] = load[u] /\ u \notin S
    BY <2>1
  <2>3. load[u] = "none" => load'[u] = "none"
    BY <2>1
  <2>4. link \in {"up", "opened"} => (Waiting(u) => Waiting(u)')
    BY DEF Waiting
  <2>5. Dropped(u)'
    <3>1. u \in unsub' => load'[u] = "none"
      BY <1>1, <2>1, <2>3 DEF Dropped
    <3>2. ASSUME NEW q \in Queries, u \in query'[q].unsub PROVE load'[u] = "none"
      <4>1. u \in query[q].unsub
        BY <3>2 DEF Online!NoQuery
      <4> QED BY <2>1, <2>3, <4>1 DEF Dropped
    <3> QED BY <1>1, <2>1, <2>3, <2>4, <3>1, <3>2 DEF Dropped
  <2>6. Asked(u)' = Asked(u)
    BY <1>1 DEF Asked
  <2>7. load'[u] # "none" => (Known(u) => Known(u)')
    BY <1>1, <2>2 DEF Known, Told
  <2>8. load'[u] # "none" /\ link = "cleared" => \E q \in Queries : u \in query'[q].own
    <3> SUFFICES ASSUME load'[u] # "none", link = "cleared" PROVE \E q \in Queries : u \in query'[q].own
      OBVIOUS
    <3>1. PICK q \in Queries : u \in query[q].own
      BY <2>1, <2>2 DEF Kept
    <3> QED BY <2>2, <3>1
  <2>9. (\E q \in Queries : u \in query'[q].own) => Waiting(u)'
    BY <1>2 DEF AsksInv, Waiting
  <2>10. Kept(u)'
    BY <1>1, <2>1, <2>2, <2>4, <2>6, <2>7, <2>8, <2>9 DEF Kept
  <2> QED BY <2>5, <2>10
<1> QED BY <1>2, <1>3, <1>4, <1>5 DEF PresenceInv

LEMMA InvQueryEnds ==
  ASSUME PresenceType, PresenceInv, NEW q \in Queries, Online!WriteFailed(q) \/ Online!Return(q)
  PROVE  PresenceInv'
<1>0. query \in [Queries -> Asks] /\ query[q] \in Asks
  BY DEF PresenceType, EntryType
<1>1. CASE Online!WriteFailed(q)
  <2> DEFINE S == query[q].own
  <2>1. S \in SUBSET People
    BY <1>0 DEF Asks
  <2>2. query' = [Online!Finish(S) EXCEPT ![q] = Online!NoQuery] /\ UNCHANGED <<Online!wire, lost, unsub>>
        /\ load' = [u \in People |-> IF u \in S THEN "none" ELSE load[u]]
        /\ link \notin {"up", "opened"}
    BY <1>1 DEF Online!WriteFailed
  <2> HIDE DEF S
  <2>3. query'[q] = Online!NoQuery /\ \A p \in Queries : p # q => query'[p] = Online!Finish(S)[p]
    BY <2>2 DEF Online!Finish
  <2>4. \A p \in Queries : p # q => /\ query'[p].own = query[p].own /\ query'[p].pc = query[p].pc
                                    /\ query'[p].sub = query[p].sub /\ query'[p].unsub = query[p].unsub
    BY <2>1, <2>3, Finished
  <2>5. query[q].own \subseteq S
    BY DEF S
  <2>6. \A u \in People : load'[u] = IF u \in S THEN "none" ELSE load[u]
    BY <2>2
  <2> QED BY <2>1, <2>2, <2>3, <2>4, <2>5, <2>6, InvForgets
<1>2. CASE Online!Return(q)
  <2>1. query[q].sub = {} /\ query[q].own = {}
    BY <1>2 DEF Online!Return, PresenceInv, AsksInv
  <2>2. query'[q] = Online!NoQuery /\ \A p \in Queries : p # q => query'[p] = query[p]
    BY <1>0, <1>2 DEF Online!Return
  <2>3. \A u \in People : load'[u] = IF u \in {} THEN "none" ELSE load[u]
    BY <1>2 DEF Online!Return
  <2>4. UNCHANGED <<Online!wire, lost, unsub>> /\ {} \in SUBSET People
    BY <1>2 DEF Online!Return
  <2> QED BY <2>1, <2>2, <2>3, <2>4, InvForgets
<1> QED BY <1>1, <1>2

LEMMA InvUnsubscribe ==
  ASSUME PresenceType, PresenceInv, NEW S \in SUBSET People, Online!Unsubscribe(S) PROVE PresenceInv'
<1>1. Online!Forget(S) /\ UNCHANGED <<Online!wire, lost, unsub>>
  BY DEF Online!Unsubscribe
<1> QED BY <1>1, Forgotten, InvForgets

LEMMA InvGetUserOnline ==
  ASSUME PresenceType, PresenceInv, NEW q \in Queries, NEW S \in SUBSET People, Online!GetUserOnline(q, S)
  PROVE  PresenceInv'
<1> DEFINE new  == {u \in S : load[u] = "none"}
           wait == {u \in S : load[u] \in {"none", "wait"}}
           rest == unsub \ S
           r == [Online!NoQuery EXCEPT !.pc = IF new = {} THEN "wait" ELSE "write",
                   !.sub = new, !.unsub = IF new = {} THEN {} ELSE rest, !.own = new, !.left = wait]
<1>1. /\ query[q].pc = "idle" /\ query' = [query EXCEPT ![q] = r]
      /\ load' = [u \in People |-> IF u \in new THEN "wait" ELSE load[u]]
      /\ unsub' = IF new = {} THEN rest ELSE {}
      /\ lost' = lost \cup {u \in new : \E p \in Queries : u \in query[p].unsub}
      /\ UNCHANGED Online!wire
  BY DEF Online!GetUserOnline
<1>2. UNCHANGED <<state, subs, toServer, toClient, link>>
  BY <1>1 DEF Online!wire
<1>3. /\ r.sub = new /\ r.own = new /\ r.unsub = IF new = {} THEN {} ELSE rest
      /\ r.pc = IF new = {} THEN "wait" ELSE "write"
  BY DEF Online!NoQuery
<1>4. \A u \in new : u \in S /\ load[u] = "none"
  OBVIOUS
<1>5. \A u \in S : load[u] = "none" => u \in new
  OBVIOUS
<1>6. rest = unsub \ S
  OBVIOUS
<1>7. query'[q] = r /\ (\A p \in Queries : p # q => query'[p] = query[p]) /\ query[q].sub = {}
      /\ query[q].own = {} /\ query[q].unsub = {}
  BY <1>1 DEF PresenceType, EntryType, PresenceInv, AsksInv
<1> HIDE DEF new, wait, rest, r
<1>8. AsksInv'
  BY <1>3, <1>7 DEF PresenceInv, AsksInv
<1>9. LinkInv'
  BY <1>2 DEF PresenceInv, LinkInv
<1>10. ASSUME NEW u \in People, u \in unsub' PROVE load'[u] = "none"
  BY <1>1, <1>4, <1>6, <1>10 DEF PresenceInv
<1>11. ASSUME NEW u \in People \ lost' PROVE Dropped(u)' /\ Kept(u)'
  <2>1. Dropped(u) /\ Kept(u) /\ u \in People
    BY <1>1, <1>11 DEF PresenceInv
  <2>2. Waiting(u) => Waiting(u)'
    BY <1>7 DEF Waiting
  <2>3. u \in new => Waiting(u)' /\ (\A p \in Queries : u \notin query[p].unsub) /\ load[u] = "none"
    BY <1>1, <1>3, <1>4, <1>7, <1>11 DEF Waiting
  <2>4. u \notin new => load'[u] = load[u]
    BY <1>1, <2>1
  <2>5. Dropped(u)'
    <3>1. u \in unsub' => load'[u] = "none"
      BY <1>10, <2>1
    <3>2. ASSUME NEW p \in Queries, u \in query'[p].unsub PROVE load'[u] = "none"
      <4>1. CASE p = q
        <5>1. u \in unsub /\ u \notin S
          BY <1>3, <1>6, <1>7, <3>2, <4>1
        <5> QED BY <1>4, <2>1, <2>4, <5>1 DEF Dropped
      <4>2. CASE p # q
        <5>1. u \in query[p].unsub
          BY <1>7, <3>2, <4>2
        <5> QED BY <2>1, <2>3, <2>4, <5>1 DEF Dropped
      <4> QED BY <4>1, <4>2
    <3>3. ASSUME link' = "up", NEW i \in 1..Len(toServer'), u \in toServer'[i].unsub
          PROVE  \/ load'[u] = "none" \/ Waiting(u)'
                 \/ \E j \in 1..Len(toServer') : j >= i /\ u \in toServer'[j].sub
      <4>1. i \in 1..Len(toServer) /\ u \in toServer[i].unsub /\ link = "up"
        BY <1>2, <3>3
      <4>2. load[u] = "none" \/ Waiting(u) \/ \E j \in 1..Len(toServer) : j >= i /\ u \in toServer[j].sub
        BY <2>1, <4>1 DEF Dropped
      <4> QED BY <1>2, <2>2, <2>3, <2>4, <4>2
    <3> QED BY <3>1, <3>2, <3>3 DEF Dropped
  <2>6. Kept(u)'
    <3>1. CASE u \in new
      <4>1. u \in query'[q].own
        BY <1>3, <1>7, <3>1
      <4> QED BY <2>3, <3>1, <4>1 DEF Kept
    <3>2. CASE u \notin new
      <4>1. Asked(u)' = Asked(u) /\ Known(u)' = Known(u)
        BY <1>2, <2>4, <3>2 DEF Asked, Known, Told
      <4>2. ASSUME NEW p \in Queries, u \in query[p].own PROVE u \in query'[p].own
        BY <1>7, <4>2
      <4> QED BY <1>2, <2>1, <2>2, <2>4, <3>2, <4>1, <4>2 DEF Kept
    <3> QED BY <3>1, <3>2
  <2> QED BY <2>5, <2>6
<1> QED BY <1>8, <1>9, <1>10, <1>11 DEF PresenceInv

LEMMA InvWriteSubInfo ==
  ASSUME PresenceType, PresenceInv, NEW q \in Queries, Online!WriteSubInfo(q)
  PROVE  PresenceInv'
<1> DEFINE w == [sub |-> query[q].sub, unsub |-> query[q].unsub]
<1>1. /\ link \in {"up", "broken"} /\ UNCHANGED <<state, subs, toClient, link, load, unsub, lost>>
      /\ toServer' = IF link = "up" THEN Append(toServer, w) ELSE toServer
      /\ query' = [query EXCEPT ![q] = [Online!NoQuery EXCEPT !.pc = "wait", !.left = query[q].left]]
  BY DEF Online!WriteSubInfo
<1>2. w.sub = query[q].sub /\ w.unsub = query[q].unsub
  OBVIOUS
<1>3. /\ query'[q].sub = {} /\ query'[q].unsub = {} /\ query'[q].own = {}
      /\ \A p \in Queries : p # q => query'[p] = query[p]
  BY <1>1 DEF PresenceType, EntryType, Online!NoQuery
<1> HIDE DEF w
<1>4. toServer \in Seq(Subscriptions) /\ Len(toServer) \in Nat
  BY DEF PresenceType, WireType
<1>5. link = "up" => /\ Len(toServer') = Len(toServer) + 1 /\ toServer'[Len(toServer) + 1] = w
                     /\ \A i \in 1..Len(toServer) : toServer'[i] = toServer[i]
  BY <1>1, <1>4
<1>6. AsksInv'
  BY <1>3 DEF PresenceInv, AsksInv
<1>7. LinkInv'
  BY <1>1 DEF LinkInv
<1>8. ASSUME NEW u \in People \ lost' PROVE Dropped(u)' /\ Kept(u)'
  <2>1. Dropped(u) /\ Kept(u) /\ u \in People
    BY <1>1, <1>8 DEF PresenceInv
  <2>2. link = "up" => (Waiting(u) => Waiting(u)' \/ u \in w.sub)
    BY <1>2, <1>3 DEF Waiting
  <2>3. Dropped(u)'
    <3>1. ASSUME NEW p \in Queries, u \in query'[p].unsub PROVE load'[u] = "none"
      <4>1. u \in query[p].unsub
        BY <1>3, <3>1
      <4> QED BY <1>1, <2>1, <4>1 DEF Dropped
    <3>2. ASSUME link' = "up", NEW i \in 1..Len(toServer'), u \in toServer'[i].unsub
          PROVE  \/ load'[u] = "none" \/ Waiting(u)'
                 \/ \E j \in 1..Len(toServer') : j >= i /\ u \in toServer'[j].sub
      <4>0. link = "up"
        BY <1>1, <3>2
      <4>1. CASE i = Len(toServer) + 1
        <5>1. u \in query[q].unsub
          BY <1>2, <1>5, <3>2, <4>0, <4>1
        <5> QED BY <1>1, <2>1, <5>1 DEF Dropped
      <4>2. CASE i # Len(toServer) + 1
        <5>1. i \in 1..Len(toServer) /\ u \in toServer[i].unsub
          BY <1>4, <1>5, <3>2, <4>0, <4>2
        <5>2. load[u] = "none" \/ Waiting(u) \/ \E j \in 1..Len(toServer) : j >= i /\ u \in toServer[j].sub
          BY <2>1, <4>0, <5>1 DEF Dropped
        <5>3. u \in w.sub => \E j \in 1..Len(toServer') : j >= i /\ u \in toServer'[j].sub
          <6>1. Len(toServer) + 1 \in 1..Len(toServer') /\ Len(toServer) + 1 >= i
            BY <1>4, <1>5, <4>0, <5>1
          <6> QED BY <1>5, <4>0, <6>1
        <5>4. (\E j \in 1..Len(toServer) : j >= i /\ u \in toServer[j].sub)
              => \E j \in 1..Len(toServer') : j >= i /\ u \in toServer'[j].sub
          BY <1>4, <1>5, <4>0
        <5> QED BY <1>1, <2>2, <4>0, <5>2, <5>3, <5>4
      <4> QED BY <4>1, <4>2
    <3> QED BY <1>1, <2>1, <3>1, <3>2 DEF Dropped
  <2>4. Kept(u)'
    <3>1. link = "up" => (Asked(u) \/ u \in w.sub => Asked(u)')
      <4> SUFFICES ASSUME link = "up", Asked(u) \/ u \in w.sub PROVE Asked(u)'
        OBVIOUS
      <4>1. CASE Asked(u)
        BY <1>4, <1>5, <4>1 DEF Asked
      <4>2. CASE u \in w.sub
        <5>1. Len(toServer) + 1 \in 1..Len(toServer') /\ u \in toServer'[Len(toServer) + 1].sub
          BY <1>4, <1>5, <4>2
        <5> QED BY <5>1 DEF Asked
      <4> QED BY <4>1, <4>2
    <3>2. Known(u)' = Known(u)
      BY <1>1 DEF Known, Told
    <3> QED BY <1>1, <2>1, <2>2, <3>1, <3>2 DEF Kept
  <2> QED BY <2>3, <2>4
<1>9. \A u \in People : u \in unsub' => load'[u] = "none"
  BY <1>1 DEF PresenceInv
<1> QED BY <1>6, <1>7, <1>8, <1>9 DEF PresenceInv

LEMMA InvReported ==
  ASSUME PresenceType, PresenceInv, Online!HandleUserOnlineChange PROVE PresenceInv'
<1> DEFINE m == Head(toClient)
           known == {u \in DOMAIN m : load[u] # "none"}
<1>1. /\ link = "up" /\ toClient # <<>> /\ toClient' = Tail(toClient) /\ query' = Online!Finish(known)
      /\ load' = [u \in People |-> IF u \in known THEN m[u] ELSE load[u]]
      /\ unsub' = (unsub \ known) \cup (DOMAIN m \ known)
      /\ UNCHANGED <<state, subs, toServer, link, lost>>
  BY DEF Online!HandleUserOnlineChange, Online!SetUserState
<1>2. toClient \in Seq(Reports)
  BY DEF PresenceType, WireType
<1>3. /\ Len(toClient) \in Nat /\ Len(toClient) >= 1 /\ Len(toClient') = Len(toClient) - 1
      /\ m = toClient[1] /\ m \in Reports
      /\ \A k \in 1..Len(toClient') : toClient'[k] = toClient[k + 1]
  BY <1>1, <1>2
<1>4. DOMAIN m \subseteq People /\ \A u \in DOMAIN m : m[u] \in {"on", "off"}
  BY <1>3, ReportFacts
<1>5. \A u : u \in known <=> u \in DOMAIN m /\ load[u] # "none"
  OBVIOUS
<1> HIDE DEF m, known
<1>6. known \in SUBSET People
  BY <1>4, <1>5
<1>7. \A q \in Queries : /\ query'[q].own = query[q].own /\ query'[q].pc = query[q].pc
                         /\ query'[q].sub = query[q].sub /\ query'[q].unsub = query[q].unsub
  BY <1>1, <1>6, Finished
<1>8. \A u \in People : load'[u] = "none" <=> load[u] = "none"
  <2> SUFFICES ASSUME NEW u \in People PROVE load'[u] = "none" <=> load[u] = "none"
    OBVIOUS
  <2>1. load'[u] = IF u \in known THEN m[u] ELSE load[u]
    BY <1>1
  <2> QED BY <1>4, <1>5, <2>1
<1>9. AsksInv'
  BY <1>7 DEF PresenceInv, AsksInv
<1>10. LinkInv'
  BY <1>1 DEF LinkInv
<1>11. ASSUME NEW u \in People, u \in unsub' PROVE load'[u] = "none"
  BY <1>1, <1>5, <1>8, <1>11 DEF PresenceInv
<1>12. ASSUME NEW u \in People \ lost' PROVE Dropped(u)' /\ Kept(u)'
  <2>1. Dropped(u) /\ Kept(u) /\ u \in People
    BY <1>1, <1>12 DEF PresenceInv
  <2>2. Waiting(u)' = Waiting(u)
    BY <1>7 DEF Waiting
  <2>3. Dropped(u)'
    <3>1. u \in unsub' => load'[u] = "none"
      BY <1>11, <2>1
    <3>2. \A q \in Queries : u \in query'[q].unsub => load'[u] = "none"
      BY <1>7, <1>8, <2>1 DEF Dropped
    <3> QED BY <1>1, <1>8, <2>1, <2>2, <3>1, <3>2 DEF Dropped
  <2>4. Asked(u)' = Asked(u)
    BY <1>1 DEF Asked
  <2>5. load[u] # "none" /\ Known(u) => Known(u)'
    <3> SUFFICES ASSUME load[u] # "none", Known(u) PROVE Known(u)'
      OBVIOUS
    <3>1. ASSUME NEW k \in 1..Len(toClient'), Told(k, u)' PROVE toClient'[k][u] = state[u]
      <4>1. k + 1 \in 1..Len(toClient) /\ u \in DOMAIN toClient[k + 1]
        BY <1>3, <3>1 DEF Told
      <4>2. ASSUME NEW j \in 1..Len(toClient), j > k + 1 PROVE u \notin DOMAIN toClient[j]
        <5>1. j - 1 \in 1..Len(toClient') /\ j - 1 > k /\ toClient'[j - 1] = toClient[j]
          BY <1>3, <4>2
        <5> QED BY <3>1, <5>1 DEF Told
      <4>3. Told(k + 1, u)
        BY <4>1, <4>2 DEF Told
      <4> QED BY <1>3, <4>1, <4>3 DEF Known
    <3>2. ASSUME \A k \in 1..Len(toClient') : u \notin DOMAIN toClient'[k] PROVE load'[u] = state[u]
      <4>1. ASSUME NEW j \in 1..Len(toClient), j > 1 PROVE u \notin DOMAIN toClient[j]
        <5>1. j - 1 \in 1..Len(toClient') /\ toClient'[j - 1] = toClient[j]
          BY <1>3, <4>1
        <5> QED BY <3>2, <5>1
      <4>2. load'[u] = IF u \in known THEN m[u] ELSE load[u]
        BY <1>1, <2>1
      <4>3. CASE u \in DOMAIN m
        <5>1. 1 \in 1..Len(toClient) /\ Told(1, u)
          BY <1>3, <4>1, <4>3 DEF Told
        <5> QED BY <1>3, <1>5, <4>2, <4>3, <5>1 DEF Known
      <4>4. CASE u \notin DOMAIN m
        <5>1. \A k \in 1..Len(toClient) : u \notin DOMAIN toClient[k]
          BY <1>3, <4>1, <4>4
        <5> QED BY <1>5, <4>2, <4>4, <5>1 DEF Known
      <4> QED BY <4>3, <4>4
    <3> QED BY <1>1, <3>1, <3>2 DEF Known
  <2>6. Kept(u)'
    BY <1>1, <1>8, <2>1, <2>2, <2>4, <2>5 DEF Kept
  <2> QED BY <2>3, <2>6
<1> QED BY <1>9, <1>10, <1>11, <1>12 DEF PresenceInv

(* The connection breaks, ends, is forgotten and is made anew. *)
LEMMA InvLink ==
  ASSUME PresenceType, PresenceInv, Online!ReadFails \/ Online!OnConnClosed \/ Online!OnConnSuccess
    \/ Online!Connected \/ Online!Break
  PROVE  PresenceInv'
<1>1. CASE Online!ReadFails
  <2>1. /\ link' = "closed" /\ subs' = {} /\ toServer' = <<>> /\ toClient' = <<>>
        /\ UNCHANGED <<load, unsub, query, lost>>
    BY <1>1 DEF Online!ReadFails
  <2> QED BY <2>1 DEF PresenceInv, AsksInv, LinkInv, Dropped, Kept
<1>2. CASE Online!OnConnClosed
  <2>1. /\ link = "closed" /\ link' = "cleared" /\ unsub' = {} /\ Online!Forget(People) /\ lost' = {}
        /\ UNCHANGED <<subs, toServer, toClient>>
    BY <1>2 DEF Online!OnConnClosed
  <2>2. \A u \in People : load'[u] = "none"
    BY <2>1 DEF Online!Forget
  <2>3. AsksInv'
    BY <2>1, Forgotten DEF PresenceInv, AsksInv
  <2> QED BY <2>1, <2>2, <2>3 DEF PresenceInv, LinkInv, Dropped, Kept
<1>3. CASE Online!OnConnSuccess
  <2>1. /\ link = "cleared" /\ link' = "opened" /\ unsub' = {}
        /\ UNCHANGED <<subs, toServer, toClient, load, query, lost>>
    BY <1>3 DEF Online!OnConnSuccess
  <2> QED BY <2>1 DEF PresenceInv, AsksInv, LinkInv, Dropped, Kept, Waiting
<1>4. CASE Online!Connected
  <2>1. /\ link = "opened" /\ link' = "up" /\ toServer = <<>>
        /\ UNCHANGED <<subs, toServer, toClient, load, unsub, query, lost>>
    BY <1>4 DEF Online!Connected, PresenceInv, LinkInv
  <2> QED BY <2>1 DEF PresenceInv, AsksInv, LinkInv, Dropped, Kept, Waiting
<1>5. CASE Online!Break
  <2>1. /\ link' = "broken" /\ UNCHANGED <<subs, toServer, toClient, load, unsub, query, lost>>
    BY <1>5 DEF Online!Break
  <2> QED BY <2>1 DEF PresenceInv, AsksInv, LinkInv, Dropped, Kept
<1> QED BY <1>1, <1>2, <1>3, <1>4, <1>5

LEMMA InvServe ==
  ASSUME PresenceType, PresenceInv, Online!Serve PROVE PresenceInv'
<1> DEFINE req == Head(toServer)
           m == [u \in req.sub |-> state[u]]
<1>1. /\ link = "up" /\ toServer # <<>> /\ toServer' = Tail(toServer)
      /\ UNCHANGED <<state, link, load, unsub, query>>
      /\ \/ /\ subs' = (subs \ req.unsub) \cup req.sub /\ toClient' = Append(toClient, m)
            /\ UNCHANGED lost
         \/ lost' = lost \cup req.sub /\ UNCHANGED <<subs, toClient>>
  BY DEF Online!Serve
<1>2. WireType
  BY DEF PresenceType
<1>3. /\ Len(toServer) \in Nat /\ Len(toServer) >= 1 /\ Len(toServer') = Len(toServer) - 1
      /\ req = toServer[1] /\ req \in Subscriptions
      /\ \A k \in 1..Len(toServer') : toServer'[k] = toServer[k + 1]
  BY <1>1, <1>2 DEF WireType
<1>4. DOMAIN m = req.sub /\ \A u \in req.sub : m[u] = state[u]
  OBVIOUS
<1>5. Len(toClient) \in Nat /\ toClient \in Seq(Reports)
  BY <1>2 DEF WireType
<1>6. m \in Reports
  BY <1>2, <1>3, ReportFacts DEF WireType, Subscriptions
<1> HIDE DEF m, req
<1>7. ASSUME NEW u \in People, Asked(u) PROVE Asked(u)' \/ u \in req.sub
  <2>1. PICK i \in 1..Len(toServer) : u \in toServer[i].sub
    BY <1>7 DEF Asked
  <2>2. CASE i = 1
    BY <1>3, <2>1, <2>2
  <2>3. CASE i # 1
    <3>1. i - 1 \in 1..Len(toServer') /\ u \in toServer'[i - 1].sub
      BY <1>3, <2>1, <2>3
    <3> QED BY <3>1 DEF Asked
  <2> QED BY <2>2, <2>3
<1>8. ASSUME NEW u \in People \ lost' PROVE Dropped(u)' /\ Kept(u)'
  <2>1. Dropped(u) /\ Kept(u) /\ u \in People
    BY <1>1, <1>8 DEF PresenceInv
  <2>2. Waiting(u)' = Waiting(u)
    BY <1>1 DEF Waiting
  <2>3. Dropped(u)'
    <3>1. ASSUME NEW i \in 1..Len(toServer'), u \in toServer'[i].unsub
          PROVE  \/ load'[u] = "none" \/ Waiting(u)'
                 \/ \E j \in 1..Len(toServer') : j >= i /\ u \in toServer'[j].sub
      <4>1. i + 1 \in 1..Len(toServer) /\ u \in toServer[i + 1].unsub
        BY <1>3, <3>1
      <4>2. load[u] = "none" \/ Waiting(u) \/ \E j \in 1..Len(toServer) : j >= i + 1 /\ u \in toServer[j].sub
        BY <1>1, <2>1, <4>1 DEF Dropped
      <4>3. ASSUME NEW j \in 1..Len(toServer), j >= i + 1, u \in toServer[j].sub
            PROVE  j - 1 \in 1..Len(toServer') /\ j - 1 >= i /\ u \in toServer'[j - 1].sub
        BY <1>3, <3>1, <4>3
      <4>4. (\E j \in 1..Len(toServer) : j >= i + 1 /\ u \in toServer[j].sub)
            => \E j \in 1..Len(toServer') : j >= i /\ u \in toServer'[j].sub
        BY <4>3
      <4> QED BY <1>1, <2>2, <4>2, <4>4
    <3> QED BY <1>1, <2>1, <3>1 DEF Dropped
  <2>4. CASE UNCHANGED <<subs, toClient>> /\ u \notin req.sub
    <3>1. Known(u)' = Known(u)
      BY <1>1, <2>4 DEF Known, Told
    <3> QED BY <1>1, <1>7, <2>1, <2>2, <2>3, <2>4, <3>1 DEF Kept
  <2>5. CASE subs' = (subs \ req.unsub) \cup req.sub /\ toClient' = Append(toClient, m)
    <3>1. /\ Len(toClient') = Len(toClient) + 1 /\ toClient'[Len(toClient) + 1] = m
          /\ \A k \in 1..Len(toClient) : toClient'[k] = toClient[k]
      BY <1>5, <1>6, <2>5
    <3>2. u \in req.sub => Known(u)'
      <4> SUFFICES ASSUME u \in req.sub PROVE Known(u)'
        OBVIOUS
      <4>1. Len(toClient) + 1 \in 1..Len(toClient') /\ u \in DOMAIN toClient'[Len(toClient) + 1]
        BY <1>4, <1>5, <3>1
      <4>2. ASSUME NEW k \in 1..Len(toClient'), Told(k, u)' PROVE k = Len(toClient) + 1
        BY <1>5, <3>1, <4>1, <4>2 DEF Told
      <4>3. \A k \in 1..Len(toClient') : Told(k, u)' => toClient'[k][u] = state[u]
        BY <1>4, <3>1, <4>2
      <4> QED BY <1>1, <2>5, <4>1, <4>3 DEF Known
    <3>3. u \notin req.sub /\ u \notin req.unsub /\ Known(u) => Known(u)'
      <4> SUFFICES ASSUME u \notin req.sub, u \notin req.unsub, Known(u) PROVE Known(u)'
        OBVIOUS
      <4>1. u \notin DOMAIN toClient'[Len(toClient) + 1]
        BY <1>4, <3>1
      <4>2. ASSUME NEW k \in 1..Len(toClient'), Told(k, u)'
            PROVE  k \in 1..Len(toClient) /\ Told(k, u)
        BY <1>5, <3>1, <4>1, <4>2 DEF Told
      <4>3. \A k \in 1..Len(toClient') : Told(k, u)' => toClient'[k][u] = state[u]
        BY <3>1, <4>2 DEF Known
      <4>4. (\A k \in 1..Len(toClient') : u \notin DOMAIN toClient'[k]) => load[u] = state[u]
        BY <1>5, <3>1 DEF Known
      <4> QED BY <1>1, <2>5, <4>3, <4>4 DEF Known
    <3>4. u \in req.unsub => load[u] = "none" \/ Waiting(u) \/ Asked(u)' \/ u \in req.sub
      <4> SUFFICES ASSUME u \in req.unsub PROVE load[u] = "none" \/ Waiting(u) \/ Asked(u)' \/ u \in req.sub
        OBVIOUS
      <4>1. 1 \in 1..Len(toServer) /\ u \in toServer[1].unsub
        BY <1>3
      <4>2. load[u] = "none" \/ Waiting(u) \/ \E j \in 1..Len(toServer) : u \in toServer[j].sub
        BY <1>1, <2>1, <4>1 DEF Dropped
      <4> QED BY <1>7, <2>1, <4>2 DEF Asked
    <3> QED BY <1>1, <1>7, <2>1, <2>2, <2>3, <3>2, <3>3, <3>4 DEF Kept
  <2>6. (UNCHANGED <<subs, toClient>> /\ u \notin req.sub)
        \/ (subs' = (subs \ req.unsub) \cup req.sub /\ toClient' = Append(toClient, m))
    BY <1>1, <1>8
  <2> QED BY <2>4, <2>5, <2>6
<1>9. AsksInv' /\ LinkInv' /\ \A u \in People : u \in unsub' => load'[u] = "none"
  BY <1>1 DEF PresenceInv, AsksInv, LinkInv
<1> QED BY <1>8, <1>9 DEF PresenceInv

LEMMA InvChange ==
  ASSUME PresenceType, PresenceInv, NEW v \in People, Online!Change(v) PROVE PresenceInv'
<1> DEFINE m == [w \in {v} |-> "on"]
<1>1. /\ state' = [state EXCEPT ![v] = "on"] /\ UNCHANGED <<subs, toServer, link, load, unsub, query, lost>>
      /\ toClient' = IF link = "up" /\ v \in subs THEN Append(toClient, m) ELSE toClient
  BY DEF Online!Change
<1>2. WireType
  BY DEF PresenceType
<1>3. m \in Reports /\ DOMAIN m = {v} /\ m[v] = "on"
  BY ReportFacts
<1> HIDE DEF m
<1>4. Len(toClient) \in Nat /\ toClient \in Seq(Reports) /\ state'[v] = "on"
      /\ \A u \in People : u # v => state'[u] = state[u]
  BY <1>1, <1>2 DEF WireType
<1>5. ASSUME NEW u \in People \ lost' PROVE Dropped(u)' /\ Kept(u)'
  <2>1. Dropped(u) /\ Kept(u) /\ u \in People
    BY <1>1, <1>5 DEF PresenceInv
  <2>2. Waiting(u)' = Waiting(u) /\ Asked(u)' = Asked(u)
    BY <1>1 DEF Waiting, Asked
  <2>3. Dropped(u)'
    BY <1>1, <2>1, <2>2 DEF Dropped
  <2>4. link = "up" /\ Known(u) => Known(u)'
    <3> SUFFICES ASSUME link = "up", Known(u) PROVE Known(u)'
      OBVIOUS
    <3>1. CASE v \notin subs
      <4>1. u # v /\ toClient' = toClient /\ state'[u] = state[u]
        BY <1>1, <1>4, <2>1, <3>1 DEF Known
      <4> QED BY <1>1, <4>1 DEF Known, Told
    <3>2. CASE v \in subs
      <4>1. /\ Len(toClient') = Len(toClient) + 1 /\ toClient'[Len(toClient) + 1] = m
            /\ \A k \in 1..Len(toClient) : toClient'[k] = toClient[k]
        BY <1>1, <1>3, <1>4, <3>2
      <4>2. CASE u = v
        <5>1. Len(toClient) + 1 \in 1..Len(toClient') /\ u \in DOMAIN toClient'[Len(toClient) + 1]
          BY <1>3, <1>4, <4>1, <4>2
        <5>2. ASSUME NEW k \in 1..Len(toClient'), Told(k, u)' PROVE k = Len(toClient) + 1
          BY <1>4, <4>1, <5>1, <5>2 DEF Told
        <5>3. \A k \in 1..Len(toClient') : Told(k, u)' => toClient'[k][u] = state'[u]
          BY <1>3, <1>4, <4>1, <4>2, <5>2
        <5> QED BY <1>1, <5>1, <5>3 DEF Known
      <4>3. CASE u # v
        <5>1. u \notin DOMAIN toClient'[Len(toClient) + 1] /\ state'[u] = state[u]
          BY <1>3, <1>4, <2>1, <4>1, <4>3
        <5>2. ASSUME NEW k \in 1..Len(toClient'), Told(k, u)'
              PROVE  k \in 1..Len(toClient) /\ Told(k, u)
          BY <1>4, <4>1, <5>1, <5>2 DEF Told
        <5>3. \A k \in 1..Len(toClient') : Told(k, u)' => toClient'[k][u] = state'[u]
          BY <4>1, <5>1, <5>2 DEF Known
        <5>4. (\A k \in 1..Len(toClient') : u \notin DOMAIN toClient'[k]) => load[u] = state'[u]
          BY <1>4, <4>1, <5>1 DEF Known
        <5> QED BY <1>1, <5>3, <5>4 DEF Known
      <4> QED BY <4>2, <4>3
    <3> QED BY <3>1, <3>2
  <2> QED BY <1>1, <2>1, <2>2, <2>3, <2>4 DEF Kept
<1>6. AsksInv' /\ \A u \in People : u \in unsub' => load'[u] = "none"
  BY <1>1 DEF PresenceInv, AsksInv
<1>7. LinkInv'
  BY <1>1 DEF PresenceInv, LinkInv
<1> QED BY <1>5, <1>6, <1>7 DEF PresenceInv

LEMMA PresenceInvNext == PresenceType /\ PresenceInv /\ [Online!Next]_Online!presenceVars => PresenceInv'
<1> SUFFICES ASSUME PresenceType, PresenceInv, [Online!Next]_Online!presenceVars PROVE PresenceInv'
  OBVIOUS
<1>1. CASE UNCHANGED Online!presenceVars
  <2>1. UNCHANGED <<state, subs, toServer, toClient, link, load, unsub, query, lost>>
    BY <1>1 DEF Online!presenceVars
  <2>2. AsksInv' /\ LinkInv' /\ \A u \in People : u \in unsub' => load'[u] = "none"
    BY <2>1 DEF PresenceInv, AsksInv, LinkInv
  <2>3. \A u \in People : Dropped(u)' = Dropped(u) /\ Kept(u)' = Kept(u)
    BY <2>1 DEF Dropped, Kept, Waiting, Asked, Known, Told
  <2> QED BY <2>1, <2>2, <2>3 DEF PresenceInv
<1> QED
  BY <1>1, InvQueryEnds, InvUnsubscribe, InvGetUserOnline, InvWriteSubInfo, InvReported, InvLink,
     InvServe, InvChange DEF Online!Next

LEMMA PresenceInvLive == PresenceType /\ PresenceInv => Online!EntriesLive
<1> SUFFICES ASSUME PresenceType, PresenceInv, NEW u \in People \ lost,
                    load[u] # "none", link # "broken", link # "closed"
             PROVE  Online!OnTheWay(u) \/ (\E q \in Queries : u \in query[q].sub)
               \/ (load[u] = state[u] /\ u \in subs)
  BY DEF Online!EntriesLive
<1>1. Kept(u) /\ link \in {"up", "cleared", "opened"}
  BY DEF PresenceInv, PresenceType, WireType
<1>2. DOMAIN toServer = 1..Len(toServer) /\ DOMAIN toClient = 1..Len(toClient)
  BY DEF PresenceType, WireType
<1> QED BY <1>1, <1>2 DEF Kept, Waiting, Asked, Known, Online!OnTheWay

-----------------------------------------------------------------------------
(* Session: a login, a logout and the calls of the application *)

Procs == Apps \cup 1..Epochs
Records == [pc : {"idle", "wait", "again"} \cup Login!LoginSteps \cup Login!LogoutSteps,
            in : 0..Epochs, no : 0..Attempts]
Steps == {s \in Records : s.pc = "open" => s.no # 0}
ApiCalls == [pc : {"idle", "check", "run"}, on : 0..Epochs, kind : {"call", "sync", "message"}]
FieldType ==
  /\ inited \in BOOLEAN /\ status \in {"none", "logout", "logging", "logged"}
  /\ epoch \in 1..Epochs /\ attempt \in 0..Attempts /\ db \in 0..Attempts
  /\ opened \subseteq 1..Attempts /\ comp \in [1..Epochs -> 0..Attempts]
  /\ live \in [1..Epochs -> BOOLEAN] /\ runs \in [1..Epochs -> Nat]
ErrorType == asked \in [1..Epochs -> BOOLEAN] /\ errorsTold \in [1..Epochs -> SUBSET ErrorKinds]
ProcType == proc \in [Procs -> Steps]
ApiType == apiCall \in [Callers -> ApiCalls]
SessionType == FieldType /\ ErrorType /\ ProcType /\ ApiType /\ torn \in BOOLEAN

LEMMA SessionTypeInit == Login!Init => SessionType
<1> SUFFICES ASSUME Login!Init PROVE SessionType
  OBVIOUS
<1>1. Login!Idle \in Steps /\ Login!NoApiCall \in ApiCalls
  BY EpochAssumption DEF Login!Idle, Login!NoApiCall, Steps, Records, ApiCalls
<1>2. ProcType /\ ApiType
  BY <1>1 DEF Login!Init, ProcType, ApiType, Procs
<1>3. 1 \in 1..Epochs /\ 0 \in 0..Attempts
  BY EpochAssumption
<1>4. FieldType
  BY <1>3 DEF Login!Init, FieldType
<1>5. ErrorType /\ torn \in BOOLEAN
  BY DEF Login!Init, ErrorType
<1> QED BY <1>2, <1>4, <1>5 DEF SessionType

(* What a step writes into proc and apiCall is of their type. *)
LEMMA StepFacts ==
  ASSUME SessionType
  PROVE  /\ Login!Idle \in Steps /\ [Login!Idle EXCEPT !.pc = "again"] \in Steps
              /\ [Login!Idle EXCEPT !.pc = "wait", !.in = epoch] \in Steps
         /\ [pc |-> "exit", in |-> epoch, no |-> 0] \in Steps
         /\ attempt < Attempts => [pc |-> "open", in |-> epoch, no |-> attempt + 1] \in Steps
         /\ \A t \in Procs : proc[t] \in Steps
         /\ \A t \in Procs, pc \in {"set", "run", "logged", "close", "reset"} :
              [proc[t] EXCEPT !.pc = pc] \in Steps
         /\ DOMAIN proc = Procs /\ epoch \in Procs /\ Apps \subseteq Procs /\ epoch \notin Apps
<1>0. FieldType /\ ProcType
  BY DEF SessionType
<1>1. epoch \in 0..Epochs /\ epoch \in 1..Epochs /\ attempt \in 0..Attempts
  BY <1>0, EpochAssumption DEF FieldType
<1>2. attempt < Attempts => attempt + 1 \in 0..Attempts /\ attempt + 1 # 0
  BY <1>1, EpochAssumption
<1>3. 0 \in 0..Epochs /\ 0 \in 0..Attempts
  BY EpochAssumption
<1>4. /\ Login!Idle \in Steps /\ [Login!Idle EXCEPT !.pc = "again"] \in Steps
           /\ [Login!Idle EXCEPT !.pc = "wait", !.in = epoch] \in Steps
      /\ [pc |-> "exit", in |-> epoch, no |-> 0] \in Steps
      /\ attempt < Attempts => [pc |-> "open", in |-> epoch, no |-> attempt + 1] \in Steps
  BY <1>1, <1>2, <1>3 DEF Steps, Records, Login!Idle, Login!LoginSteps, Login!LogoutSteps
<1>5. \A t \in Procs : proc[t] \in Steps
  BY <1>0 DEF ProcType
<1>6. \A t \in Procs, pc \in {"set", "run", "logged", "close", "reset"} : [proc[t] EXCEPT !.pc = pc] \in Steps
  BY <1>5 DEF Steps, Records, Login!LoginSteps, Login!LogoutSteps
<1>7. DOMAIN proc = Procs /\ epoch \in Procs /\ Apps \subseteq Procs /\ epoch \notin Apps
  BY <1>0, <1>1, EpochAssumption DEF ProcType, Procs
<1> QED BY <1>4, <1>5, <1>6, <1>7

LEMMA SessionTypeNext == SessionType /\ [Login!Next]_Login!sessionVars => SessionType'
<1> SUFFICES ASSUME SessionType, [Login!Next]_Login!sessionVars PROVE SessionType'
  OBVIOUS
<1>0. FieldType /\ ErrorType /\ ProcType /\ ApiType /\ torn \in BOOLEAN
  BY DEF SessionType
<1>1. CASE Login!InitSDK \/ Login!UnInitSDK \/ UNCHANGED Login!sessionVars
  <2>1. FieldType' /\ ErrorType' /\ ProcType' /\ ApiType' /\ torn' \in BOOLEAN
    BY <1>0, <1>1 DEF Login!InitSDK, Login!UnInitSDK, Login!sessionVars, Login!fields,
       Login!errors, FieldType, ErrorType, ProcType, ApiType
  <2> QED BY <2>1 DEF SessionType
<1>2. ASSUME NEW t \in Apps,
             Login!Login(t) \/ Login!OpenDatabase(t) \/ Login!Initialize(t) \/ Login!Run(t)
               \/ Login!SetLogged(t) \/ Login!Logout(t)
      PROVE  SessionType'
  <2>1. ProcType'
    <3>1. t \in Procs /\ t # epoch
      BY StepFacts
    <3>2. CASE Login!Run(t)
      <4>1. PICK r \in Steps, s \in Steps : proc' = [proc EXCEPT ![t] = r, ![epoch] = s]
        <5>1. proc' = [proc EXCEPT ![t] = [proc[t] EXCEPT !.pc = "logged"], ![epoch] = [Login!Idle EXCEPT !.pc = "wait", !.in = epoch]]
          BY <3>2 DEF Login!Run
        <5>2. [proc[t] EXCEPT !.pc = "logged"] \in Steps
          BY <3>1, StepFacts DEF Login!LoginSteps
        <5> QED BY <5>1, <5>2, StepFacts
      <4> QED BY <1>0, <4>1 DEF ProcType
    <3>3. CASE ~Login!Run(t)
      <4>1. PICK r \in Steps : proc' = [proc EXCEPT ![t] = r]
        <5>1. CASE Login!Login(t)
          BY <5>1, StepFacts DEF Login!Login
        <5>2. CASE Login!OpenDatabase(t)
          BY <3>1, <5>2, StepFacts DEF Login!OpenDatabase, Login!Goto, Login!End, Login!LoginSteps
        <5>3. CASE Login!Initialize(t)
          BY <3>1, <5>3, StepFacts DEF Login!Initialize, Login!Goto, Login!End, Login!LoginSteps
        <5>4. CASE Login!SetLogged(t)
          BY <5>4, StepFacts DEF Login!SetLogged, Login!End
        <5>5. CASE Login!Logout(t)
          BY <5>5, StepFacts DEF Login!Logout
        <5> QED BY <1>2, <3>3, <5>1, <5>2, <5>3, <5>4, <5>5
      <4> QED BY <1>0, <4>1 DEF ProcType
    <3> QED BY <3>2, <3>3
  <2>2. ErrorType' /\ ApiType' /\ torn' \in BOOLEAN
    BY <1>0, <1>2 DEF Login!Login, Login!OpenDatabase, Login!Initialize, Login!Run,
       Login!SetLogged, Login!Logout, Login!Met, Login!errors, ErrorType, ApiType
  <2>3. FieldType'
    <3>1. CASE Login!Login(t)
      <4>1. attempt + 1 \in 0..Attempts
        BY <1>0, <3>1, EpochAssumption DEF Login!Login, FieldType
      <4> QED BY <1>0, <3>1, <4>1 DEF Login!Login, FieldType
    <3>2. CASE Login!OpenDatabase(t)
      <4>1. proc[t].no \in 0..Attempts
        BY StepFacts DEF Steps, Records
      <4>2. proc[t].no \in 1..Attempts
        <5>1. proc[t].no # 0
          BY <3>2, StepFacts DEF Login!OpenDatabase, Steps
        <5> QED BY <4>1, <5>1, EpochAssumption
      <4>3. opened' \subseteq 1..Attempts
        BY <1>0, <3>2, <4>2 DEF Login!OpenDatabase, FieldType
      <4> QED BY <1>0, <3>2, <4>1, <4>3 DEF Login!OpenDatabase, FieldType
    <3>3. CASE Login!Initialize(t) \/ Login!Run(t) \/ Login!SetLogged(t) \/ Login!Logout(t)
      BY <1>0, <3>3 DEF Login!Initialize, Login!Run, Login!SetLogged, Login!Logout, FieldType,
         Login!fields
    <3> QED BY <1>2, <3>1, <3>2, <3>3
  <2> QED BY <2>1, <2>2, <2>3 DEF SessionType
<1>3. ASSUME NEW t \in DOMAIN proc, Login!Exit(t) \/ Login!CloseDatabase(t) \/ Login!InitResources(t)
        PROVE SessionType'
  <2>0. t \in Procs
    BY StepFacts
  <2>1. ProcType'
    <3>1. CASE Login!Exit(t)
      <4>1. [proc[t] EXCEPT !.pc = "close"] \in Steps
        BY <2>0, StepFacts DEF Login!LogoutSteps
      <4>2. PICK s \in Steps : proc' = [[proc EXCEPT ![epoch] = s] EXCEPT ![t].pc = "close"]
        BY <3>1, StepFacts DEF Login!Exit
      <4> DEFINE f == [proc EXCEPT ![epoch] = s]
      <4>3. f \in [Procs -> Steps]
        BY <1>0, <4>2 DEF ProcType
      <4>4. f[t] \in Steps /\ proc' = [f EXCEPT ![t].pc = "close"]
        BY <2>0, <4>2, <4>3
      <4> HIDE DEF f
      <4>5. [f[t] EXCEPT !.pc = "close"] \in Steps
        BY <4>4 DEF Steps, Records, Login!LogoutSteps
      <4> QED BY <4>3, <4>4, <4>5 DEF ProcType
    <3>2. CASE Login!CloseDatabase(t)
      <4>1. [proc[t] EXCEPT !.pc = "reset"] \in Steps
        BY <2>0, StepFacts DEF Login!LogoutSteps
      <4> QED BY <1>0, <3>2, <4>1 DEF Login!CloseDatabase, Login!Goto, ProcType
    <3>3. CASE Login!InitResources(t)
      <4>1. PICK r \in Steps : proc' = [proc EXCEPT ![t] = r]
        BY <3>3, StepFacts DEF Login!InitResources
      <4> QED BY <1>0, <4>1 DEF ProcType
    <3> QED BY <1>3, <3>1, <3>2, <3>3
  <2>2. ErrorType' /\ ApiType' /\ torn' \in BOOLEAN
    BY <1>0, <1>3 DEF Login!Exit, Login!CloseDatabase, Login!InitResources, Login!Met,
       Login!errors, ErrorType, ApiType
  <2>3. FieldType'
    <3>1. CASE Login!Exit(t) \/ Login!CloseDatabase(t)
      BY <1>0, <3>1 DEF Login!Exit, Login!CloseDatabase, FieldType
    <3>2. CASE Login!InitResources(t)
      <4>1. epoch' \in 1..Epochs
        BY <1>0, <3>2, EpochAssumption DEF Login!InitResources, FieldType
      <4> QED BY <1>0, <3>2, <4>1 DEF Login!InitResources, FieldType
    <3> QED BY <1>3, <3>1, <3>2
  <2> QED BY <2>1, <2>2, <2>3 DEF SessionType
<1>4. ASSUME NEW e \in 1..Epochs, Login!LogoutListener(e) \/ Login!ListenAgain(e) \/ Login!ListenerEnds(e)
        PROVE SessionType'
  <2>0. e \in Procs
    BY DEF Procs
  <2>1. PICK r \in Steps : proc' = [proc EXCEPT ![e] = r]
    BY <1>4, StepFacts DEF Login!LogoutListener, Login!ListenAgain, Login!ListenerEnds, Login!End
  <2>2. ProcType'
    BY <1>0, <2>1 DEF ProcType
  <2>3. ErrorType' /\ ApiType' /\ torn' \in BOOLEAN /\ FieldType'
    BY <1>0, <1>4 DEF Login!LogoutListener, Login!ListenAgain, Login!ListenerEnds, Login!fields,
       Login!errors, ErrorType, ApiType, FieldType
  <2> QED BY <2>2, <2>3 DEF SessionType
<1>5. ASSUME NEW e \in 1..Epochs, NEW k \in ErrorKinds, Login!OnError(e, k) PROVE SessionType'
  <2>1. FieldType' /\ ErrorType' /\ ProcType' /\ ApiType' /\ torn' \in BOOLEAN
    BY <1>0, <1>5 DEF Login!OnError, Login!fields, FieldType, ErrorType, ProcType, ApiType
  <2> QED BY <2>1 DEF SessionType
<1>6. ASSUME NEW c \in Callers, Login!CallIn(c) \/ Login!CallOut(c) \/ Login!Call(c) \/ Login!SyncCall(c)
        \/ Login!MessageCall(c) PROVE SessionType'
  <2>1. apiCall[c] \in ApiCalls
    BY <1>0 DEF ApiType
  <2>2. Login!NoApiCall \in ApiCalls /\ [apiCall[c] EXCEPT !.pc = "run"] \in ApiCalls
    BY <2>1, EpochAssumption DEF Login!NoApiCall, ApiCalls
  <2>3. epoch \in 0..Epochs
    BY <1>0, EpochAssumption DEF FieldType
  <2>4. \A kind \in {"call", "sync", "message"} : [pc |-> "check", on |-> epoch, kind |-> kind] \in ApiCalls
    BY <2>3 DEF ApiCalls
  <2>5. PICK r \in ApiCalls : apiCall' = [apiCall EXCEPT ![c] = r]
    BY <1>6, <2>2, <2>4 DEF Login!CallIn, Login!CallOut, Login!Call, Login!SyncCall,
       Login!MessageCall, Login!Bind
  <2>6. ApiType'
    BY <1>0, <2>5 DEF ApiType
  <2>7. FieldType' /\ ErrorType' /\ ProcType' /\ torn' \in BOOLEAN
    BY <1>0, <1>6 DEF Login!CallIn, Login!CallOut, Login!Call, Login!SyncCall, Login!MessageCall,
       Login!Bind, Login!fields, Login!errors, FieldType, ErrorType, ProcType
  <2> QED BY <2>6, <2>7 DEF SessionType
<1> QED BY <1>1, <1>2, <1>3, <1>4, <1>5, <1>6 DEF Login!Next

-----------------------------------------------------------------------------
(***************************************************************************)
(* What holds as long as nothing was torn.                                 *)
(***************************************************************************)
Entering(p) == proc[p].pc \in Login!LoginSteps
Leaving(t)  == proc[t].pc \in Login!LogoutSteps /\ proc[t].in = epoch
Begun(p)    == proc[p].pc = "logged" /\ proc[p].in = epoch

(* Someone is logged in, or will be with the next step: the goroutines run. *)
Running == status = "logged" \/ \E p \in Apps : Begun(p)

(* One login at a time, in its epoch; it has opened its database and given it away. *)
LoginInv ==
  /\ \A p, q \in Apps : Entering(p) /\ Entering(q) => p = q
  /\ \A p \in Apps : Entering(p) =>
       /\ proc[p].no = attempt /\ attempt # 0 /\ status # "logged"
       /\ proc[p].pc # "logged" => proc[p].in = epoch /\ runs[epoch] = 0
       /\ proc[p].pc = "open" => \A e \in 1..epoch : comp[e] # attempt
       /\ proc[p].pc \in {"set", "run"} => db = attempt /\ attempt \in opened
       /\ proc[p].pc = "run" => comp[epoch] = attempt

(* The current epoch has one set of goroutines once someone is in, and none before. *)
EpochInv ==
  /\ IF Running THEN runs[epoch] = 1 /\ comp[epoch] = attempt /\ db = attempt /\ attempt # 0
     ELSE runs[epoch] = 0
  /\ (live[epoch] /\ (Running => attempt \in opened)) \/ \E t \in Procs :
       Leaving(t) /\ proc[t].pc \in {"close", "reset"}
  /\ \A e \in 1..Epochs : e > epoch => live[e] /\ runs[e] = 0 /\ comp[e] = 0
  /\ \A e \in 1..Epochs : (asked[e] => runs[e] # 0) /\ comp[e] <= attempt

(* Who logs out has someone to log out; it cancels, closes and begins anew, in this order. *)
LogoutInv ==
  \A t \in Procs :
    /\ proc[t].in <= epoch
    /\ proc[t].pc \in Login!LogoutSteps => proc[t].in # 0
    /\ Leaving(t) => Running
    /\ Leaving(t) /\ proc[t].pc \in {"close", "reset"} => ~live[epoch]
    /\ Leaving(t) /\ proc[t].pc = "reset" => db \notin opened

ListenInv == \A e \in 1..Epochs : proc[e].pc = "wait" => proc[e].in = epoch /\ e = epoch /\ live[epoch]

PastInv == \A e \in 1..epoch - 1 : ~live[e] /\ comp[e] # 0 /\ comp[e] \notin opened

CallInv ==
  \A c \in Callers : /\ apiCall[c].pc # "idle" => apiCall[c].on \in 1..epoch
                     /\ apiCall[c].pc = "run" /\ apiCall[c].kind # "message" => comp[apiCall[c].on] # 0

Untorn == LoginInv /\ EpochInv /\ LogoutInv /\ ListenInv /\ PastInv /\ CallInv
SessionInv == ~torn => Untorn

LEMMA SessionInitInv == Login!Init => SessionInv
<1> SUFFICES ASSUME Login!Init PROVE Untorn
  BY DEF SessionInv
<1>1. /\ \A t \in Procs : proc[t] = Login!Idle
      /\ \A c \in Callers : apiCall[c] = Login!NoApiCall
      /\ epoch = 1 /\ attempt = 0 /\ status = "logout" /\ 1 \in 1..Epochs
      /\ \A e \in 1..Epochs : comp[e] = 0 /\ live[e] /\ runs[e] = 0 /\ ~asked[e]
  BY EpochAssumption DEF Login!Init, Procs
<1>2. \A t \in Procs : proc[t].pc = "idle" /\ proc[t].in = 0
  BY <1>1 DEF Login!Idle
<1>3. LoginInv /\ LogoutInv /\ ListenInv
  BY <1>1, <1>2 DEF LoginInv, LogoutInv, ListenInv, Entering, Leaving, Login!LoginSteps,
     Login!LogoutSteps, Procs
<1>4. EpochInv
  BY <1>1, <1>2 DEF EpochInv, Running, Begun, Procs
<1>5. PastInv /\ CallInv
  BY <1>1 DEF PastInv, CallInv, Login!NoApiCall
<1> QED BY <1>3, <1>4, <1>5 DEF Untorn

LEMMA SessionWhole == SessionType /\ SessionInv => Login!OneSession
<1> SUFFICES ASSUME SessionType, Untorn PROVE Login!SessionIsWhole /\ Login!EndedIsOver /\ Login!CallsFindDatabase
  BY DEF SessionInv, Login!OneSession
<1>1. Login!SessionIsWhole
  BY StepFacts DEF Login!SessionIsWhole, Login!LoggingOut, Untorn, EpochInv, Running
<1> QED BY <1>1 DEF Login!EndedIsOver, Login!CallsFindDatabase, Untorn, PastInv, CallInv

(* One process goes to another step of its own: what the others are about stays. *)
LEMMA OneMoves ==
  ASSUME SessionType, NEW t \in Procs, NEW s, proc' = [proc EXCEPT ![t] = s]
  PROVE  proc'[t] = s /\ \A p \in Procs : p # t => proc'[p] = proc[p]
  BY DEF SessionType, ProcType

LEMMA InvLogin ==
  ASSUME SessionType, SessionType', Untorn, NEW t \in Apps, Login!Login(t), ~torn'
  PROVE  Untorn'
<1> DEFINE s == [pc |-> "open", in |-> epoch, no |-> attempt + 1]
<1>1. t \in Procs /\ t # epoch /\ Apps \subseteq Procs
  BY StepFacts
<1>2. proc'[t] = s /\ \A p \in Procs : p # t => proc'[p] = proc[p]
  BY <1>1, OneMoves DEF Login!Login
<1>3. /\ status # "logged" /\ status' = "logging" /\ attempt' = attempt + 1
      /\ UNCHANGED <<epoch, db, opened, comp, live, runs, asked, apiCall>>
      /\ \A p \in Apps : ~Entering(p)
  BY DEF Login!Login, Login!errors, Entering
<1>4. epoch \in 1..Epochs /\ attempt \in Nat /\ comp \in [1..Epochs -> 0..Attempts] /\ epoch' \in Nat
  BY EpochAssumption DEF SessionType, FieldType
<1>5. ~Running /\ runs[epoch] = 0
  BY <1>3 DEF Running, Begun, Entering, Login!LoginSteps, Untorn, EpochInv
<1>6. \A p \in Apps : Entering(p)' => p = t
  BY <1>1, <1>2, <1>3 DEF Entering
<1>7. \A p \in Procs : proc'[p].pc \in Login!LogoutSteps => p # t
  BY <1>2 DEF Login!LogoutSteps
<1>8. \A e \in 1..epoch : comp[e] # attempt + 1
  BY <1>4, EpochAssumption DEF Untorn, EpochInv
<1>9. LoginInv'
  BY <1>2, <1>3, <1>4, <1>5, <1>6, <1>8 DEF LoginInv, Entering
<1>10. ~Running'
  BY <1>2, <1>3, <1>6 DEF Running, Begun, Entering, Login!LoginSteps
<1>11. \A p \in Procs : ~Leaving(p)
  BY <1>5 DEF Untorn, LogoutInv
<1>12. EpochInv'
  BY <1>3, <1>4, <1>5, <1>10, <1>11, EpochAssumption DEF Untorn, EpochInv
<1>13. LogoutInv'
  BY <1>1, <1>2, <1>3, <1>4, <1>7, <1>11 DEF Untorn, LogoutInv, Leaving
<1>14. ListenInv'
  BY <1>1, <1>2, <1>3 DEF Untorn, ListenInv, Procs
<1>15. PastInv' /\ CallInv'
  BY <1>3 DEF Untorn, PastInv, CallInv
<1> QED BY <1>9, <1>12, <1>13, <1>14, <1>15 DEF Untorn

(* OpenDatabase, Initialize: a step of a login that has started no goroutine. *)
LEMMA InvOpens ==
  ASSUME SessionType, SessionType', Untorn, NEW t \in Apps, Login!OpenDatabase(t) \/ Login!Initialize(t), ~torn'
  PROVE  Untorn'
<1>1. t \in Procs /\ t # epoch /\ Apps \subseteq Procs /\ proc[t] \in Steps
  BY StepFacts
<1>2. /\ Entering(t) /\ proc[t].pc # "logged" /\ proc[t].in = epoch
           /\ UNCHANGED <<status, epoch, attempt, live, runs, asked, apiCall>>
  BY DEF Login!OpenDatabase, Login!Initialize, Entering, Login!LoginSteps, Login!Met, Login!errors
<1>3. epoch \in 1..Epochs /\ attempt \in Nat /\ comp \in [1..Epochs -> 0..Attempts]
        /\ comp' \in [1..Epochs -> 0..Attempts]
  <2>1. epoch \in 1..Epochs /\ attempt \in Nat /\ comp \in [1..Epochs -> 0..Attempts]
    BY EpochAssumption DEF SessionType, FieldType
  <2>2. comp' \in [1..Epochs -> 0..Attempts]
    BY DEF SessionType, FieldType
  <2> QED BY <2>1, <2>2
<1>4. /\ proc[t].no = attempt /\ attempt # 0 /\ status # "logged" /\ runs[epoch] = 0
      /\ \A p \in Apps : Entering(p) => p = t
  BY <1>2 DEF Untorn, LoginInv
<1>5. ~Running
  BY <1>4 DEF Running, Begun, Untorn, EpochInv
<1>6. \A p \in Procs : ~Leaving(p)
  BY <1>5 DEF Untorn, LogoutInv
<1>7. /\ \A p \in Procs : p # t => proc'[p] = proc[p]
      /\ proc'[t] \in Steps
      /\ \/ proc'[t] = Login!Idle
         \/ proc'[t] = [proc[t] EXCEPT !.pc = IF proc[t].pc = "open" THEN "set" ELSE "run"]
  BY <1>1 DEF Login!OpenDatabase, Login!Initialize, Login!Goto, Login!End, SessionType, ProcType
<1>8. /\ proc'[t].in \in {0, epoch} /\ proc'[t].pc \in {"idle", "set", "run"}
      /\ proc'[t].pc # "idle" => proc'[t].in = epoch /\ proc'[t].no = attempt
  BY <1>1, <1>2, <1>4, <1>7 DEF Steps, Records, Login!Idle, Login!OpenDatabase, Login!Initialize
<1>9. \A p \in Apps : Entering(p)' => p = t
  BY <1>1, <1>4, <1>7 DEF Entering
<1>10. /\ \A e \in 1..Epochs : e # epoch => comp'[e] = comp[e]
       /\ Login!OpenDatabase(t) => comp' = comp
       /\ Login!Initialize(t) => comp'[epoch] = attempt /\ db = attempt /\ attempt \in opened
  <2>1. Login!OpenDatabase(t) => comp' = comp
    BY DEF Login!OpenDatabase
  <2>2. Login!Initialize(t) => db = attempt /\ attempt \in opened /\ comp' = [comp EXCEPT ![epoch] = db]
    BY <1>2 DEF Login!Initialize, Untorn, LoginInv
  <2> QED BY <1>3, <2>1, <2>2
<1>11. UNCHANGED <<db, opened>>
         \/ (Login!OpenDatabase(t) /\ db' = attempt /\ opened' \subseteq opened \cup {attempt})
       \/ (Login!OpenDatabase(t) /\ opened' = opened)
  BY <1>4 DEF Login!OpenDatabase, Login!Initialize
<1>12. LoginInv'
  <2>0. proc'[t] # Login!Idle => proc'[t].pc = IF proc[t].pc = "open" THEN "set" ELSE "run"
    BY <1>1, <1>7 DEF Steps, Records
  <2>3. Login!OpenDatabase(t) =>
          proc[t].pc = "open" /\ (proc'[t] = Login!Idle \/ (db' = attempt /\ attempt \in opened'))
    BY <1>1, <1>4 DEF Login!OpenDatabase, Login!End, SessionType, ProcType
  <2>4. Login!Initialize(t) => proc[t].pc = "set" /\ UNCHANGED <<db, opened>>
    BY DEF Login!Initialize
  <2>5. proc'[t].pc # "idle" => proc'[t] # Login!Idle
    BY DEF Login!Idle
  <2>1. proc'[t].pc = "set" => Login!OpenDatabase(t) /\ db' = attempt /\ attempt \in opened'
    BY <2>0, <2>3, <2>4, <2>5
  <2>2. proc'[t].pc = "run" => Login!Initialize(t) /\ UNCHANGED <<db, opened>>
    BY <2>0, <2>3, <2>4, <2>5
  <2> QED BY <1>2, <1>4, <1>8, <1>9, <1>10, <2>1, <2>2 DEF LoginInv, Entering, Login!LoginSteps
<1>13. ~Running'
  BY <1>2, <1>4, <1>8, <1>9 DEF Running, Begun, Entering, Login!LoginSteps
<1>14. EpochInv'
  <2>1. \A e \in 1..Epochs : comp'[e] <= attempt
    <3>1. \A e \in 1..Epochs : comp[e] <= attempt
      BY DEF Untorn, EpochInv
    <3> QED BY <1>3, <1>10, <3>1
  <2>2. \A e \in 1..Epochs : e > epoch => comp'[e] = 0
    <3>1. \A e \in 1..Epochs : e > epoch => comp[e] = 0
      BY DEF Untorn, EpochInv
    <3> QED BY <1>3, <1>10, <3>1
  <2>3. live[epoch] /\ runs[epoch] = 0
    BY <1>4, <1>6 DEF Untorn, EpochInv
  <2> QED BY <1>2, <1>13, <2>1, <2>2, <2>3 DEF Untorn, EpochInv
<1>15. LogoutInv'
  <2>1. \A p \in Procs : ~Leaving(p)'
    BY <1>2, <1>6, <1>7, <1>8 DEF Leaving, Login!LogoutSteps
  <2>2. \A p \in Procs : proc'[p].in <= epoch /\ (proc'[p].pc \in Login!LogoutSteps => proc'[p].in # 0)
    BY <1>3, <1>7, <1>8 DEF Untorn, LogoutInv, Login!LogoutSteps
  <2> QED BY <1>2, <2>1, <2>2 DEF LogoutInv
<1>16. ListenInv'
  BY <1>1, <1>2, <1>7, <1>8 DEF Untorn, ListenInv, Procs
<1>17. PastInv'
  <2>1. Login!OpenDatabase(t) => \A e \in 1..epoch : comp[e] # attempt
    BY <1>2 DEF Login!OpenDatabase, Untorn, LoginInv
  <2>2. ASSUME NEW e \in 1..epoch - 1 PROVE ~live[e] /\ comp'[e] # 0 /\ comp'[e] \notin opened'
    <3>1. e \in 1..Epochs /\ e # epoch /\ e \in 1..epoch
      BY <1>3, EpochAssumption
    <3>2. ~live[e] /\ comp[e] # 0 /\ comp[e] \notin opened /\ comp'[e] = comp[e]
      BY <1>10, <3>1 DEF Untorn, PastInv
    <3> QED BY <1>11, <2>1, <3>1, <3>2
  <2> QED BY <1>2, <2>2 DEF PastInv
<1>18. CallInv'
  <2>1. ASSUME NEW c \in Callers, apiCall[c].pc = "run", apiCall[c].kind # "message"
          PROVE comp'[apiCall[c].on] # 0
    <3>1. apiCall[c].on \in 1..epoch /\ comp[apiCall[c].on] # 0
      BY <2>1 DEF Untorn, CallInv
    <3>2. apiCall[c].on \in 1..Epochs
      BY <1>3, <3>1, EpochAssumption
    <3> QED BY <1>4, <1>10, <3>1, <3>2
  <2> QED BY <1>2, <2>1 DEF Untorn, CallInv
<1> QED BY <1>12, <1>14, <1>15, <1>16, <1>17, <1>18 DEF Untorn

LEMMA InvRun ==
  ASSUME SessionType, SessionType', Untorn, NEW t \in Apps, Login!Run(t), ~torn'
  PROVE  Untorn'
<1>1. t \in Procs /\ t # epoch /\ Apps \subseteq Procs /\ epoch \in Procs /\ epoch \notin Apps
        /\ proc[t] \in Steps
  BY StepFacts
<1>2. /\ proc[t].pc = "run" /\ Entering(t) /\ proc[t].in = epoch
      /\ UNCHANGED <<status, epoch, attempt, db, opened, comp, live, asked, apiCall>>
  BY DEF Login!Run, Entering, Login!LoginSteps, Login!Met, Login!errors
<1>3. epoch \in 1..Epochs /\ runs \in [1..Epochs -> Nat]
  BY DEF SessionType, FieldType
<1>4. /\ proc[t].no = attempt /\ attempt # 0 /\ status # "logged" /\ runs[epoch] = 0
      /\ db = attempt /\ attempt \in opened /\ comp[epoch] = attempt
      /\ \A p \in Apps : Entering(p) => p = t
  BY <1>2 DEF Untorn, LoginInv
<1>5. ~Running
  BY <1>2, <1>4 DEF Running, Begun, Untorn, EpochInv
<1>6. \A p \in Procs : ~Leaving(p)
  BY <1>5 DEF Untorn, LogoutInv
<1>7. /\ \A p \in Procs : p # t /\ p # epoch => proc'[p] = proc[p]
      /\ proc'[t] = [proc[t] EXCEPT !.pc = "logged"]
      /\ proc'[epoch] = [Login!Idle EXCEPT !.pc = "wait", !.in = epoch]
  BY <1>1 DEF Login!Run, SessionType, ProcType
<1>8. /\ proc'[t].pc = "logged" /\ proc'[t].in = epoch /\ proc'[t].no = attempt
      /\ proc'[epoch].pc = "wait" /\ proc'[epoch].in = epoch
  BY <1>1, <1>2, <1>4, <1>7 DEF Steps, Records, Login!Idle
<1>9. \A p \in Apps : Entering(p)' => p = t
  BY <1>1, <1>4, <1>7 DEF Entering
<1>10. runs'[epoch] = 1 /\ \A e \in 1..Epochs : e # epoch => runs'[e] = runs[e]
  BY <1>3, <1>4 DEF Login!Run
<1>11. LoginInv'
  BY <1>2, <1>4, <1>8, <1>9 DEF LoginInv, Entering
<1>12. Running'
  BY <1>2, <1>8 DEF Running, Begun
<1>13. EpochInv'
  <2>1. live[epoch]
    BY <1>6 DEF Untorn, EpochInv
  <2>2. \A e \in 1..Epochs : e > epoch => live[e] /\ runs'[e] = 0 /\ comp[e] = 0
    BY <1>3, <1>10 DEF Untorn, EpochInv
  <2>3. \A e \in 1..Epochs : (asked[e] => runs'[e] # 0) /\ comp[e] <= attempt
    BY <1>10 DEF Untorn, EpochInv
  <2> QED BY <1>2, <1>4, <1>10, <1>12, <2>1, <2>2, <2>3 DEF EpochInv
<1>14. LogoutInv'
  <2>1. \A p \in Procs : ~Leaving(p)'
    BY <1>2, <1>6, <1>7, <1>8 DEF Leaving, Login!LogoutSteps
  <2>2. ASSUME NEW p \in Procs
          PROVE proc'[p].in <= epoch /\ (proc'[p].pc \in Login!LogoutSteps => proc'[p].in # 0)
    <3>1. CASE p \in {t, epoch}
      BY <1>3, <1>8, <3>1 DEF Login!LogoutSteps
    <3>2. CASE p \notin {t, epoch}
      BY <1>7, <3>2 DEF Untorn, LogoutInv
    <3> QED BY <3>1, <3>2
  <2> QED BY <1>2, <2>1, <2>2 DEF LogoutInv
<1>15. ListenInv'
  <2>1. live[epoch]
    BY <1>6 DEF Untorn, EpochInv
  <2> QED BY <1>1, <1>2, <1>7, <1>8, <2>1, EpochAssumption DEF Untorn, ListenInv, Procs
<1>16. PastInv' /\ CallInv'
  BY <1>2 DEF Untorn, PastInv, CallInv
<1> QED BY <1>11, <1>13, <1>14, <1>15, <1>16 DEF Untorn

LEMMA InvSetLogged ==
  ASSUME SessionType, SessionType', Untorn, NEW t \in Apps, Login!SetLogged(t), ~torn'
  PROVE  Untorn'
<1>1. t \in Procs /\ t # epoch /\ Apps \subseteq Procs /\ proc[t] \in Steps
  BY StepFacts
<1>2. /\ proc[t].pc = "logged" /\ Entering(t) /\ proc[t].in = epoch /\ status' = "logged"
      /\ UNCHANGED <<epoch, attempt, db, opened, comp, live, runs, asked, apiCall>>
  BY DEF Login!SetLogged, Entering, Login!LoginSteps, Login!Met, Login!errors
<1>3. Running /\ Running'
  BY <1>2 DEF Running, Begun
<1>4. proc'[t] = Login!Idle /\ \A p \in Procs : p # t => proc'[p] = proc[p]
  BY <1>1, OneMoves DEF Login!SetLogged, Login!End
<1>5. proc'[t].pc = "idle" /\ proc'[t].in = 0
  BY <1>4 DEF Login!Idle
<1>6. \A p \in Apps : ~Entering(p)'
  BY <1>1, <1>2, <1>4, <1>5 DEF Untorn, LoginInv, Entering, Login!LoginSteps
<1>7. epoch \in 1..Epochs
  BY DEF SessionType, FieldType
<1>8. \A p \in Procs : Leaving(p) <=> Leaving(p)'
  BY <1>2, <1>4, <1>5 DEF Leaving, Login!LogoutSteps
<1>9. \A p \in Procs : Leaving(p) => proc'[p] = proc[p]
  BY <1>2, <1>4 DEF Leaving, Login!LogoutSteps
<1>10. LoginInv'
  BY <1>6 DEF LoginInv
<1>11. EpochInv'
  <2>1. \/ live[epoch] /\ attempt \in opened
        \/ \E p \in Procs : Leaving(p)' /\ proc'[p].pc \in {"close", "reset"}
    BY <1>3, <1>8, <1>9 DEF Untorn, EpochInv
  <2>2. /\ runs[epoch] = 1 /\ comp[epoch] = attempt /\ db = attempt /\ attempt # 0
        /\ \A e \in 1..Epochs : e > epoch => live[e] /\ runs[e] = 0 /\ comp[e] = 0
        /\ \A e \in 1..Epochs : (asked[e] => runs[e] # 0) /\ comp[e] <= attempt
    BY <1>3 DEF Untorn, EpochInv
  <2> QED BY <1>2, <1>3, <2>1, <2>2 DEF EpochInv
<1>12. LogoutInv'
  <2>1. \A p \in Procs : proc'[p].in <= epoch /\ (proc'[p].pc \in Login!LogoutSteps => proc'[p].in # 0)
    BY <1>4, <1>5, <1>7 DEF Untorn, LogoutInv, Login!LogoutSteps
  <2> QED BY <1>2, <1>3, <1>8, <1>9, <2>1 DEF Untorn, LogoutInv
<1>13. ListenInv' /\ PastInv' /\ CallInv'
  <2>1. ListenInv'
    BY <1>1, <1>2, <1>4, <1>5 DEF Untorn, ListenInv, Procs
  <2> QED BY <1>2, <2>1 DEF Untorn, PastInv, CallInv
<1> QED BY <1>10, <1>11, <1>12, <1>13 DEF Untorn

(* Someone who is logged in begins to log out, by a call or because a listener was asked to. *)
LEMMA InvLeaves ==
  ASSUME SessionType, SessionType', Untorn, NEW t \in Procs, Running,
    proc[t].pc \notin Login!LogoutSteps \cup Login!LoginSteps,
         proc' = [proc EXCEPT ![t] = [pc |-> "exit", in |-> epoch, no |-> 0]],
         UNCHANGED <<status, epoch, attempt, db, opened, comp, live, runs, apiCall>>,
         \A e \in 1..Epochs : asked'[e] => asked[e]
  PROVE  Untorn'
<1> DEFINE s == [pc |-> "exit", in |-> epoch, no |-> 0]
<1>1. proc'[t] = s /\ \A p \in Procs : p # t => proc'[p] = proc[p]
  BY OneMoves
<1>2. proc'[t].pc = "exit" /\ proc'[t].in = epoch
  BY <1>1
<1>3. epoch \in 1..Epochs /\ Apps \subseteq Procs /\ 1..Epochs \subseteq Procs
  BY DEF SessionType, FieldType, Procs
<1>4. LoginInv'
  BY <1>1, <1>2, <1>3 DEF Untorn, LoginInv, Entering, Login!LoginSteps
<1>5. Running'
  <2>1. \A p \in Apps : Begun(p) => p # t
    BY DEF Begun, Login!LoginSteps
  <2> QED BY <1>1, <1>3, <2>1 DEF Running, Begun
<1>6. EpochInv'
  <2>1. \/ live[epoch] /\ attempt \in opened
        \/ \E p \in Procs : Leaving(p)' /\ proc'[p].pc \in {"close", "reset"}
    BY <1>1, <1>2 DEF Untorn, EpochInv, Leaving, Login!LogoutSteps
  <2> QED BY <1>5, <2>1 DEF Untorn, EpochInv
<1>7. LogoutInv'
  <2>1. \A p \in Procs : p # t => (Leaving(p)' <=> Leaving(p))
    BY <1>1 DEF Leaving
  <2>2. proc'[t].in <= epoch /\ proc'[t].in # 0
    BY <1>2, <1>3, EpochAssumption
  <2> QED BY <1>1, <1>2, <1>5, <2>1, <2>2 DEF Untorn, LogoutInv
<1>8. ListenInv'
  BY <1>1, <1>2, <1>3 DEF Untorn, ListenInv
<1>9. PastInv' /\ CallInv'
  BY DEF Untorn, PastInv, CallInv
<1> QED BY <1>4, <1>6, <1>7, <1>8, <1>9 DEF Untorn

LEMMA InvAsked ==
  ASSUME SessionType, SessionType', Untorn, ~torn',
         \/ \E t \in Apps : Login!Logout(t)
         \/ \E e \in 1..Epochs : Login!LogoutListener(e) \/ Login!ListenAgain(e)
  PROVE  Untorn'
<1>1. CASE \E t \in Apps : Login!Logout(t)
  <2>1. PICK t \in Apps : Login!Logout(t)
    BY <1>1
  <2>2. t \in Procs /\ Running /\ proc[t].pc \notin Login!LogoutSteps \cup Login!LoginSteps
    BY <2>1 DEF Procs, Running, Login!Logout, Login!LogoutSteps, Login!LoginSteps
  <2>3. proc' = [proc EXCEPT ![t] = [pc |-> "exit", in |-> epoch, no |-> 0]]
        /\ UNCHANGED <<status, epoch, attempt, db, opened, comp, live, runs, apiCall, asked>>
    BY <2>1 DEF Login!Logout, Login!fields, Login!errors
  <2> QED BY <2>2, <2>3, InvLeaves
<1>2. CASE \E e \in 1..Epochs : Login!LogoutListener(e) \/ Login!ListenAgain(e)
  <2>1. PICK e \in 1..Epochs : Login!LogoutListener(e) \/ Login!ListenAgain(e)
    BY <1>2
  <2>2. e \in Procs /\ proc[e].pc \notin Login!LogoutSteps \cup Login!LoginSteps
    BY <2>1 DEF Procs, Login!LogoutListener, Login!ListenAgain, Login!LogoutSteps, Login!LoginSteps
  <2>3. asked[epoch] /\ asked' = [asked EXCEPT ![epoch] = FALSE]
        /\ proc' = [proc EXCEPT ![e] = [pc |-> "exit", in |-> epoch, no |-> 0]]
        /\ UNCHANGED <<status, epoch, attempt, db, opened, comp, live, runs, apiCall>>
    BY <2>1 DEF Login!LogoutListener, Login!ListenAgain, Login!fields, Untorn, ListenInv
  <2>4. epoch \in 1..Epochs /\ asked \in [1..Epochs -> BOOLEAN]
    BY DEF SessionType, FieldType, ErrorType
  <2>5. Running
    BY <2>3, <2>4 DEF Untorn, EpochInv
  <2>6. \A d \in 1..Epochs : asked'[d] => asked[d]
    BY <2>3, <2>4
  <2> QED BY <2>2, <2>3, <2>5, <2>6, InvLeaves
<1> QED BY <1>1, <1>2

(* Exit, CloseDatabase: a logout goes on in the epoch that it began in. *)
LEMMA InvCloses ==
  ASSUME SessionType, SessionType', Untorn, NEW t \in Procs, Login!Exit(t) \/ Login!CloseDatabase(t), ~torn'
  PROVE  Untorn'
<1>1. proc[t] \in Steps /\ epoch \in Procs /\ epoch \notin Apps
  BY StepFacts
<1>2. /\ proc[t].pc \in {"exit", "close"} /\ proc[t].in = epoch /\ Leaving(t)
      /\ UNCHANGED <<status, epoch, attempt, db, comp, runs, asked, apiCall>>
  BY DEF Login!Exit, Login!CloseDatabase, Leaving, Login!LogoutSteps, Login!Met, Login!errors
<1>3. Running
  BY <1>2 DEF Untorn, LogoutInv
<1>4. epoch \in 1..Epochs /\ live \in [1..Epochs -> BOOLEAN] /\ 1..Epochs \subseteq Procs /\ Apps \subseteq Procs
  BY DEF SessionType, FieldType, Procs
<1>5. runs[epoch] = 1 /\ comp[epoch] = attempt /\ db = attempt /\ attempt # 0
  BY <1>3 DEF Untorn, EpochInv
<1>6. proc'[t] = [proc[t] EXCEPT !.pc = IF proc[t].pc = "exit" THEN "close" ELSE "reset"]
      /\ \A p \in Procs : p # t => proc'[p] = proc[p] \/ (p = epoch /\ proc'[p] = Login!Idle)
  <2>1. CASE Login!Exit(t)
    <3> DEFINE f == [proc EXCEPT ![epoch] = IF @.pc = "wait" THEN Login!Idle ELSE @]
    <3>1. /\ f \in [Procs -> Steps] /\ \A p \in Procs : f[p] = proc[p] \/ (p = epoch /\ f[p] = Login!Idle)
          /\ proc[t].pc = "exit" => f[t] = proc[t]
      BY <1>1, StepFacts DEF SessionType, ProcType
    <3>2. proc' = [f EXCEPT ![t].pc = "close"] /\ proc[t].pc = "exit"
      BY <2>1 DEF Login!Exit
    <3> HIDE DEF f
    <3> QED BY <3>1, <3>2
  <2>2. CASE Login!CloseDatabase(t)
    BY <2>2 DEF Login!CloseDatabase, Login!Goto, SessionType, ProcType
  <2> QED BY <2>1, <2>2
<1>7. proc'[t].pc \in {"close", "reset"} /\ proc'[t].in = epoch /\ (proc[t].pc = "exit" => proc'[t].pc = "close")
  BY <1>1, <1>2, <1>6 DEF Steps, Records
<1>8. Login!Idle.pc = "idle" /\ Login!Idle.in = 0
  BY DEF Login!Idle
<1>9. \A p \in Apps : p # t => proc'[p] = proc[p]
  BY <1>1, <1>4, <1>6
<1>10. \A p \in Apps : Entering(p)' => p # t /\ Entering(p) /\ proc'[p] = proc[p]
  BY <1>7, <1>9 DEF Entering, Login!LoginSteps
<1>11. Running'
  <2>1. \A p \in Apps : Begun(p) => p # t
    BY <1>2 DEF Begun
  <2> QED BY <1>2, <1>3, <1>9, <2>1 DEF Running, Begun
<1>12. ~live'[epoch] /\ (\A e \in 1..Epochs : e # epoch => live'[e] = live[e]) /\ opened' \subseteq opened
       /\ (proc'[t].pc = "reset" => db \notin opened')
       /\ (db \notin opened => db \notin opened')
  BY <1>2, <1>4, <1>7 DEF Login!Exit, Login!CloseDatabase, Untorn, LogoutInv
<1>13. LoginInv'
  <2>1. ASSUME NEW p \in Apps, Entering(p)' PROVE proc[p].pc = "logged" /\ proc'[p] = proc[p] /\ Entering(p)
    BY <1>2, <1>5, <1>10, <2>1 DEF Untorn, LoginInv, Entering, Login!LoginSteps
  <2> QED BY <1>2, <2>1 DEF Untorn, LoginInv
<1>14. EpochInv'
  <2>1. Leaving(t)' /\ proc'[t].pc \in {"close", "reset"}
    BY <1>2, <1>7 DEF Leaving, Login!LogoutSteps
  <2>2. \A e \in 1..Epochs : e > epoch => live'[e] /\ runs[e] = 0 /\ comp[e] = 0
    BY <1>4, <1>12 DEF Untorn, EpochInv
  <2>3. \A e \in 1..Epochs : (asked[e] => runs[e] # 0) /\ comp[e] <= attempt
    BY DEF Untorn, EpochInv
  <2> QED BY <1>2, <1>5, <1>11, <2>1, <2>2, <2>3 DEF EpochInv
<1>15. LogoutInv'
  <2>1. ASSUME NEW p \in Procs
        PROVE  /\ proc'[p].in <= epoch
               /\ proc'[p].pc \in Login!LogoutSteps => proc'[p].in # 0
               /\ Leaving(p)' /\ proc'[p].pc = "reset" => db \notin opened'
    <3>1. CASE p = t
      BY <1>4, <1>7, <1>12, <3>1
    <3>2. CASE p # t /\ proc'[p] = proc[p]
      BY <1>2, <1>12, <3>2 DEF Untorn, LogoutInv, Leaving
    <3>3. CASE proc'[p] = Login!Idle
      BY <1>4, <1>8, <3>3 DEF Login!LogoutSteps
    <3> QED BY <1>6, <3>1, <3>2, <3>3
  <2> QED BY <1>2, <1>11, <1>12, <2>1 DEF LogoutInv
<1>16. ListenInv'
  <2>1. ASSUME NEW e \in 1..Epochs, proc'[e].pc = "wait" PROVE proc'[e].in = epoch /\ e = epoch /\ live'[epoch]
    <3>1. e \in Procs /\ e # t /\ proc'[e] = proc[e]
      BY <1>4, <1>6, <1>7, <1>8, <2>1
    <3>2. proc[e].pc = "wait" /\ proc[e].in = epoch /\ e = epoch /\ live[epoch]
      BY <2>1, <3>1 DEF Untorn, ListenInv
    <3>3. CASE Login!Exit(t)
      <4> DEFINE f == [proc EXCEPT ![epoch] = IF @.pc = "wait" THEN Login!Idle ELSE @]
      <4>1. f \in [Procs -> Steps] /\ f[epoch] = Login!Idle
        BY <1>1, <3>2, StepFacts DEF SessionType, ProcType
      <4>2. proc' = [f EXCEPT ![t].pc = "close"]
        BY <3>3 DEF Login!Exit
      <4> HIDE DEF f
      <4>3. proc'[epoch] = Login!Idle
        BY <1>1, <3>1, <3>2, <4>1, <4>2
      <4> QED BY <1>8, <2>1, <3>2, <4>3
    <3>4. CASE Login!CloseDatabase(t)
      BY <3>1, <3>2, <3>4 DEF Login!CloseDatabase
    <3> QED BY <3>3, <3>4
  <2> QED BY <1>2, <2>1 DEF ListenInv
<1>17. PastInv'
  <2>1. ASSUME NEW e \in 1..epoch - 1 PROVE ~live'[e] /\ comp[e] # 0 /\ comp[e] \notin opened'
    <3>1. e \in 1..Epochs /\ e # epoch
      BY <1>4, EpochAssumption
    <3> QED BY <1>12, <3>1 DEF Untorn, PastInv
  <2> QED BY <1>2, <2>1 DEF PastInv
<1>18. CallInv'
  BY <1>2 DEF Untorn, CallInv
<1> QED BY <1>13, <1>14, <1>15, <1>16, <1>17, <1>18 DEF Untorn

LEMMA InvInitResources ==
  ASSUME SessionType, SessionType', Untorn, NEW t \in Procs, Login!InitResources(t), ~torn'
  PROVE  Untorn'
<1>1. /\ proc[t].pc = "reset" /\ proc[t].in = epoch /\ Leaving(t) /\ epoch' = epoch + 1 /\ status' = "logout"
      /\ UNCHANGED <<attempt, db, opened, comp, live, runs, asked, apiCall>>
  BY DEF Login!InitResources, Leaving, Login!LogoutSteps, Login!Met, Login!errors
<1>2. /\ epoch \in 1..Epochs /\ epoch \in Nat /\ epoch + 1 \in 1..Epochs
      /\ 1..Epochs \subseteq Procs /\ Apps \subseteq Procs
  BY <1>1, EpochAssumption DEF SessionType, FieldType, Login!InitResources, Procs
<1>3. Running /\ ~live[epoch] /\ db \notin opened
  BY <1>1 DEF Untorn, LogoutInv
<1>4. runs[epoch] = 1 /\ comp[epoch] = attempt /\ db = attempt /\ attempt # 0
  BY <1>3 DEF Untorn, EpochInv
<1>5. /\ \A p \in Procs : p # t => proc'[p] = proc[p]
      /\ proc'[t].pc \in {"idle", "again"} /\ proc'[t].in = 0
  <2> DEFINE s == IF t \in Apps THEN Login!Idle ELSE [Login!Idle EXCEPT !.pc = "again"]
  <2>1. s.pc \in {"idle", "again"} /\ s.in = 0
    BY DEF Login!Idle
  <2>2. proc' = [proc EXCEPT ![t] = s]
    BY DEF Login!InitResources
  <2> HIDE DEF s
  <2> QED BY <2>1, <2>2, OneMoves
<1>6. ASSUME NEW p \in Apps, Entering(p)'
        PROVE Entering(p) /\ p # t /\ proc'[p] = proc[p] /\ proc[p].pc = "logged"
  <2>1. Entering(p) /\ p # t /\ proc'[p] = proc[p]
    BY <1>2, <1>5, <1>6 DEF Entering, Login!LoginSteps
  <2> QED BY <1>4, <2>1 DEF Untorn, LoginInv, Entering, Login!LoginSteps
<1>7. \A p \in Procs : proc'[p].in <= epoch
  BY <1>2, <1>5 DEF Untorn, LogoutInv
<1>8. LoginInv'
  BY <1>1, <1>6 DEF Untorn, LoginInv
<1>9. ~Running'
  BY <1>1, <1>2, <1>7 DEF Running, Begun
<1>10. EpochInv'
  <2>1. live[epoch + 1] /\ runs[epoch + 1] = 0
    BY <1>2 DEF Untorn, EpochInv
  <2>2. \A e \in 1..Epochs : e > epoch + 1 => live[e] /\ runs[e] = 0 /\ comp[e] = 0
    BY <1>2 DEF Untorn, EpochInv
  <2>3. \A e \in 1..Epochs : (asked[e] => runs[e] # 0) /\ comp[e] <= attempt
    BY DEF Untorn, EpochInv
  <2>4. live'[epoch'] /\ runs'[epoch'] = 0
    BY <1>1, <2>1
  <2>5. \A e \in 1..Epochs : e > epoch' => live'[e] /\ runs'[e] = 0 /\ comp'[e] = 0
    BY <1>1, <2>2
  <2>6. \A e \in 1..Epochs : (asked'[e] => runs'[e] # 0) /\ comp'[e] <= attempt'
    BY <1>1, <2>3
  <2> QED BY <1>9, <2>4, <2>5, <2>6 DEF EpochInv
<1>11. LogoutInv'
  <2>1. \A p \in Procs : ~Leaving(p)'
    BY <1>1, <1>2, <1>7 DEF Leaving
  <2>2. \A p \in Procs : proc'[p].in <= epoch'
    <3>1. \A p \in Procs : proc'[p].in \in 0..Epochs
      BY DEF SessionType, ProcType, Steps, Records
    <3> QED BY <1>1, <1>2, <1>7, <3>1, EpochAssumption
  <2>3. \A p \in Procs : proc'[p].pc \in Login!LogoutSteps => proc'[p].in # 0
    BY <1>5 DEF Untorn, LogoutInv, Login!LogoutSteps
  <2> QED BY <2>1, <2>2, <2>3 DEF LogoutInv
<1>12. ListenInv'
  <2>1. ASSUME NEW e \in 1..Epochs PROVE proc'[e].pc # "wait"
    <3> SUFFICES ASSUME proc'[e].pc = "wait" PROVE FALSE
      OBVIOUS
    <3>1. e \in Procs /\ proc[e].pc = "wait"
      BY <1>2, <1>5
    <3> QED BY <1>3, <3>1 DEF Untorn, ListenInv
  <2> QED BY <2>1 DEF ListenInv
<1>13. PastInv'
  <2>1. ASSUME NEW e \in 1..epoch' - 1 PROVE ~live[e] /\ comp[e] # 0 /\ comp[e] \notin opened
    <3>1. e = epoch \/ e \in 1..epoch - 1
      BY <1>1, <1>2
    <3> QED BY <1>3, <1>4, <3>1 DEF Untorn, PastInv
  <2> QED BY <1>1, <2>1 DEF PastInv
<1>14. CallInv'
  <2>1. \A c \in Callers : apiCall[c].on \in 1..epoch => apiCall[c].on \in 1..epoch'
    BY <1>1, <1>2
  <2> QED BY <1>1, <2>1 DEF Untorn, CallInv
<1> QED BY <1>8, <1>10, <1>11, <1>12, <1>13, <1>14 DEF Untorn

(* The steps that move no login and no logout: a listener that ends, an error, a call, the SDK's start. *)
LEMMA InvAside ==
  ASSUME SessionType, SessionType', Untorn,
         \/ Login!InitSDK \/ Login!UnInitSDK \/ UNCHANGED Login!sessionVars
         \/ \E e \in 1..Epochs : Login!ListenerEnds(e) \/ \E k \in ErrorKinds : Login!OnError(e, k)
         \/ \E c \in Callers : Login!CallIn(c) \/ Login!CallOut(c) \/ Login!Call(c) \/ Login!SyncCall(c)
              \/ Login!MessageCall(c)
  PROVE  Untorn'
<1>1. CASE Login!InitSDK \/ Login!UnInitSDK \/ UNCHANGED Login!sessionVars
  <2>1. /\ UNCHANGED <<epoch, attempt, db, opened, comp, live, runs, asked, proc, apiCall>>
        /\ status' = status \/ (status # "logged" /\ status' # "logged")
    BY <1>1 DEF Login!InitSDK, Login!UnInitSDK, Login!sessionVars, Login!fields, Login!errors
  <2>2. Running' <=> Running
    BY <2>1 DEF Running, Begun
  <2>3. LoginInv'
    BY <2>1 DEF Untorn, LoginInv, Entering
  <2>4. EpochInv'
    BY <2>1, <2>2 DEF Untorn, EpochInv, Leaving
  <2>5. LogoutInv'
    BY <2>1, <2>2 DEF Untorn, LogoutInv, Leaving
  <2> QED BY <2>1, <2>3, <2>4, <2>5 DEF Untorn, ListenInv, PastInv, CallInv
<1>2. ASSUME NEW e \in 1..Epochs, Login!ListenerEnds(e) PROVE Untorn'
  <2>1. /\ UNCHANGED <<status, epoch, attempt, db, opened, comp, live, runs, asked, apiCall>>
        /\ proc[e].pc = "again" /\ e \in Procs
    BY <1>2 DEF Login!ListenerEnds, Login!fields, Login!errors, Procs
  <2>2. proc'[e] = Login!Idle /\ \A p \in Procs : p # e => proc'[p] = proc[p]
    BY <1>2, <2>1, OneMoves DEF Login!ListenerEnds, Login!End
  <2>3. proc'[e].pc = "idle" /\ proc'[e].in = 0
    BY <2>2 DEF Login!Idle
  <2>4. epoch \in 1..Epochs /\ e \notin Apps /\ Apps \subseteq Procs /\ 1..Epochs \subseteq Procs
    BY EpochAssumption DEF SessionType, FieldType, Procs
  <2>5. Running' <=> Running
    BY <2>1, <2>2, <2>4 DEF Running, Begun
  <2>6. \A p \in Procs : (Leaving(p)' <=> Leaving(p)) /\ (Leaving(p) => p # e)
    BY <2>1, <2>2, <2>3 DEF Leaving, Login!LogoutSteps
  <2>7. LoginInv'
    BY <2>1, <2>2, <2>4 DEF Untorn, LoginInv, Entering
  <2>8. EpochInv'
    <3>1. \/ live[epoch] /\ (Running => attempt \in opened)
          \/ \E p \in Procs : Leaving(p)' /\ proc'[p].pc \in {"close", "reset"}
      BY <2>2, <2>6 DEF Untorn, EpochInv
    <3>2. /\ IF Running THEN runs[epoch] = 1 /\ comp[epoch] = attempt /\ db = attempt /\ attempt # 0
             ELSE runs[epoch] = 0
          /\ \A d \in 1..Epochs : d > epoch => live[d] /\ runs[d] = 0 /\ comp[d] = 0
          /\ \A d \in 1..Epochs : (asked[d] => runs[d] # 0) /\ comp[d] <= attempt
      BY DEF Untorn, EpochInv
    <3> QED BY <2>1, <2>5, <3>1, <3>2 DEF EpochInv
  <2>9. LogoutInv'
    <3>1. \A p \in Procs : proc'[p].in <= epoch /\ (proc'[p].pc \in Login!LogoutSteps => proc'[p].in # 0)
      BY <2>2, <2>3, <2>4 DEF Untorn, LogoutInv, Login!LogoutSteps
    <3> QED BY <2>1, <2>2, <2>5, <2>6, <3>1 DEF Untorn, LogoutInv
  <2>10. ListenInv' /\ PastInv' /\ CallInv'
    <3>1. ListenInv'
      BY <2>1, <2>2, <2>3, <2>4 DEF Untorn, ListenInv
    <3> QED BY <2>1, <3>1 DEF Untorn, PastInv, CallInv
  <2> QED BY <2>7, <2>8, <2>9, <2>10 DEF Untorn
<1>3. ASSUME NEW e \in 1..Epochs, NEW k \in ErrorKinds, Login!OnError(e, k) PROVE Untorn'
  <2>1. /\ UNCHANGED <<status, epoch, attempt, db, opened, comp, live, runs, proc, apiCall>>
        /\ runs[e] > 0 /\ asked' = [asked EXCEPT ![e] = TRUE]
    BY <1>3 DEF Login!OnError, Login!fields
  <2>2. \A d \in 1..Epochs : asked'[d] => runs[d] # 0
    <3>1. asked \in [1..Epochs -> BOOLEAN] /\ runs \in [1..Epochs -> Nat]
      BY DEF SessionType, FieldType, ErrorType
    <3>2. runs[e] # 0
      BY <2>1, <3>1
    <3>3. \A d \in 1..Epochs : asked[d] => runs[d] # 0
      BY DEF Untorn, EpochInv
    <3> QED BY <2>1, <3>1, <3>2, <3>3
  <2>3. Running' <=> Running
    BY <2>1 DEF Running, Begun
  <2>4. EpochInv'
    <3>1. \A p \in Procs : Leaving(p)' <=> Leaving(p)
      BY <2>1 DEF Leaving
    <3> QED BY <2>1, <2>2, <2>3, <3>1 DEF Untorn, EpochInv
  <2>5. LogoutInv' /\ LoginInv'
    BY <2>1, <2>3 DEF Untorn, LogoutInv, LoginInv, Leaving, Entering
  <2> QED BY <2>1, <2>4, <2>5 DEF Untorn, ListenInv, PastInv, CallInv
<1>4. ASSUME NEW c \in Callers, Login!CallIn(c) \/ Login!CallOut(c) \/ Login!Call(c) \/ Login!SyncCall(c)
        \/ Login!MessageCall(c) PROVE Untorn'
  <2>1. UNCHANGED <<status, epoch, attempt, db, opened, comp, live, runs, asked, proc>>
    BY <1>4 DEF Login!CallIn, Login!CallOut, Login!Call, Login!SyncCall, Login!MessageCall,
       Login!Bind, Login!fields, Login!errors
  <2>2. LoginInv' /\ EpochInv' /\ LogoutInv' /\ ListenInv' /\ PastInv'
    <3>1. Running' <=> Running
      BY <2>1 DEF Running, Begun
    <3> QED BY <2>1, <3>1 DEF Untorn, LoginInv, EpochInv, LogoutInv, ListenInv, PastInv, Entering,
               Leaving
  <2>3. epoch \in 1..epoch /\ epoch \in 1..Epochs
    BY EpochAssumption DEF SessionType, FieldType
  <2>4. \A d \in Callers : d # c => apiCall'[d] = apiCall[d]
    BY <1>4 DEF Login!CallIn, Login!CallOut, Login!Call, Login!SyncCall, Login!MessageCall,
       Login!Bind, SessionType, ApiType
  <2>5. apiCall[c] \in ApiCalls /\ apiCall \in [Callers -> ApiCalls]
    BY DEF SessionType, ApiType
  <2>6. \/ apiCall'[c].pc = "idle"
        \/ apiCall'[c].pc = "check" /\ apiCall'[c].on = epoch
        \/ /\ apiCall'[c].pc = "run" /\ apiCall'[c].on = apiCall[c].on /\ apiCall'[c].kind = apiCall[c].kind
           /\ apiCall[c].pc = "check" /\ (apiCall[c].kind = "message" \/ status = "logged")
    <3>1. CASE Login!CallIn(c)
      <4>1. \/ apiCall'[c] = Login!NoApiCall
            \/ apiCall'[c] = [apiCall[c] EXCEPT !.pc = "run"] /\ Login!CheckResourceLoad(apiCall[c].kind)
        BY <2>5, <3>1 DEF Login!CallIn
      <4> QED BY <2>5, <3>1, <4>1 DEF Login!CallIn, Login!CheckResourceLoad, Login!NoApiCall,
                 ApiCalls
    <3>2. CASE Login!CallOut(c)
      BY <2>5, <3>2 DEF Login!CallOut, Login!NoApiCall
    <3>3. CASE Login!Call(c) \/ Login!SyncCall(c) \/ Login!MessageCall(c)
      BY <2>5, <3>3 DEF Login!Call, Login!SyncCall, Login!MessageCall, Login!Bind
    <3> QED BY <1>4, <3>1, <3>2, <3>3
  <2>7. status = "logged" => \A d \in 1..epoch : comp[d] # 0
    <3> SUFFICES ASSUME status = "logged", NEW d \in 1..epoch PROVE comp[d] # 0
      OBVIOUS
    <3>1. comp[epoch] # 0
      BY DEF Untorn, EpochInv, Running
    <3>2. d = epoch \/ d \in 1..epoch - 1
      BY <2>3
    <3> QED BY <3>1, <3>2 DEF Untorn, PastInv
  <2>8. CallInv'
    <3>1. ASSUME NEW d \in Callers
          PROVE  /\ apiCall'[d].pc # "idle" => apiCall'[d].on \in 1..epoch
                 /\ apiCall'[d].pc = "run" /\ apiCall'[d].kind # "message" => comp[apiCall'[d].on] # 0
      <4>1. CASE d # c
        BY <2>4, <4>1 DEF Untorn, CallInv
      <4>2. CASE d = c
        <5>1. apiCall[c].pc # "idle" => apiCall[c].on \in 1..epoch
          BY DEF Untorn, CallInv
        <5> QED BY <2>3, <2>6, <2>7, <4>2, <5>1
      <4> QED BY <4>1, <4>2
    <3> QED BY <2>1, <3>1 DEF CallInv
  <2> QED BY <2>2, <2>8 DEF Untorn
<1> QED BY <1>1, <1>2, <1>3, <1>4

LEMMA SessionInvNext == SessionType /\ SessionInv /\ [Login!Next]_Login!sessionVars => SessionInv'
<1> SUFFICES ASSUME SessionType, SessionInv, [Login!Next]_Login!sessionVars, ~torn' PROVE Untorn'
  BY DEF SessionInv
<1>1. SessionType'
  BY SessionTypeNext
<1>2. Untorn
  <2>1. ~torn
    BY DEF Login!Next, Login!sessionVars
  <2> QED BY <2>1 DEF SessionInv
<1>3. DOMAIN proc = Procs
  BY DEF SessionType, ProcType
<1> QED
  BY <1>1, <1>2, <1>3, InvLogin, InvOpens, InvRun, InvSetLogged, InvAsked, InvCloses,
     InvInitResources, InvAside DEF Login!Next

-----------------------------------------------------------------------------
(* Browser: what was posted to the page, and what is known of its answers *)

JsCalls == PageCalls \cup {Upload}
Keys    == Js!Requests \cup {Js!None}
Posted  == [pc : {"none", "sent", "replied", "over"},
            what : {"row", "list", "latest", "write", "mark", "open", "file", "close"},
            from : Nat, length : Nat, done : BOOLEAN, ok : BOOLEAN, saw : Keys, alone : BOOLEAN]
CallType ==
  /\ promise \in [JsCalls -> {"none", "pending", "resolved", "rejected"}]
  /\ handlers \in [JsCalls -> BOOLEAN]
  /\ at \in [JsCalls -> {"none", "run", "wait", "over"}]
  /\ number \in [JsCalls -> Nat] /\ \A c \in JsCalls : number[c] <= StatementsOf[c]
PostType ==
  /\ posted \in [Js!Requests -> Posted] /\ row \in Keys
  /\ answer \in [JsCalls -> [of : Keys, ok : BOOLEAN, saw : Keys]]
FileType == file \in [whence : Nat, buf : Seq(Nat), out : Seq(Nat), pass : 0..3]
BrowserType == CallType /\ PostType /\ FileType

(* Who waits has asked, and who was told that its statement succeeded asked for it last. *)
Own ==
  \A c \in JsCalls :
     /\ at[c] = "wait" => number[c] >= 1
     /\ answer[c].ok =>
          /\ answer[c].of = Js!Current(c) /\ number[c] >= 1
          /\ posted[Js!Current(c)].pc = "over" /\ posted[Js!Current(c)].done
          /\ answer[c].saw = posted[Js!Current(c)].saw

Honest == \A r \in Js!Requests : posted[r].pc = "replied" /\ posted[r].ok => posted[r].done

(* While a write is alone there is no other to be done, and once it is done the row is its. *)
Alone ==
  \A r \in Js!Requests :
     posted[r].alone =>
       /\ posted[r].what \in Js!Writes
       /\ \A s \in Js!Requests : posted[s].pc = "sent" /\ posted[s].what \in Js!Writes => s = r
       /\ posted[r].pc \in {"replied", "over"} /\ posted[r].done => row = r

(* What was taken of the file and what the buffer has are its first bytes, in order. *)
Whole ==
  /\ file.whence = Len(file.out) + Len(file.buf) /\ file.whence <= FileSize
  /\ \A i \in 1..Len(file.out) : file.out[i] = i
  /\ \A i \in 1..Len(file.buf) : file.buf[i] = Len(file.out) + i
  /\ file.pass = 0 => file.whence = 0
  /\ file.pass = 3 => file.whence = FileSize /\ file.buf = <<>>

(* A read that is asked for, or was answered, is of the bytes that come next. *)
Reads ==
  file.pass \in {1, 2} /\ (at[Upload] = "wait" \/ answer[Upload].ok) =>
    LET r == posted[Js!Current(Upload)] IN
      /\ number[Upload] >= 1 /\ file.buf = <<>>
      /\ r.from = file.whence /\ r.length >= 1 /\ r.from + r.length <= FileSize

BrowserInv == Js!PromisesAreKept /\ Own /\ Honest /\ Alone /\ Whole /\ Reads

LEMMA RequestFacts ==
  /\ \A c \in JsCalls, n \in Nat : n >= 1 /\ n <= StatementsOf[c] => <<c, n>> \in Js!Requests
  /\ \A r \in Js!Requests : r[1] \in JsCalls
<1>1. ASSUME NEW c \in JsCalls, NEW n \in Nat, n >= 1, n <= StatementsOf[c] PROVE <<c, n>> \in Js!Requests
  <2>1. StatementsOf[c] \in Nat
    BY BrowserAssumption DEF JsCalls
  <2>2. <<c, n>> \in {c} \X (1..StatementsOf[c])
    BY <1>1, <2>1
  <2> QED
    BY <2>2 DEF Js!Requests, JsCalls
<1>2. ASSUME NEW r \in Js!Requests PROVE r[1] \in JsCalls
  <2>1. PICK c \in JsCalls : r \in {c} \X (1..StatementsOf[c])
    BY DEF Js!Requests, JsCalls
  <2> QED BY <2>1
<1> QED BY <1>1, <1>2

LEMMA RecordFacts ==
  /\ Js!NoRequest \in Posted /\ Js!Forgotten \in Posted
  /\ Js!Forgotten.pc = "over" /\ Js!Forgotten.alone = FALSE
  /\ Js!NoAnswer \in [of : Keys, ok : BOOLEAN, saw : Keys] /\ Js!NoAnswer.ok = FALSE
  BY DEF Js!NoRequest, Js!Forgotten, Js!NoAnswer, Posted, Keys

LEMMA NoLongerAlone ==
  \A p \in Posted : LET q == [p EXCEPT !.alone = FALSE] IN
     /\ q \in Posted /\ ~q.alone /\ q.pc = p.pc /\ q.what = p.what /\ q.done = p.done
     /\ q.ok = p.ok /\ q.saw = p.saw /\ q.from = p.from /\ q.length = p.length
  BY DEF Posted

LEMMA BrowserInit == Js!Init => BrowserType /\ BrowserInv
<1> SUFFICES ASSUME Js!Init PROVE BrowserType /\ BrowserInv
  OBVIOUS
<1>1. CallType
  <2>1. \A c \in JsCalls : StatementsOf[c] \in Nat
    BY BrowserAssumption DEF JsCalls
  <2> QED BY <2>1 DEF Js!Init, CallType, JsCalls
<1>2. PostType
  BY RecordFacts DEF Js!Init, PostType, JsCalls, Keys
<1>3. FileType
  BY DEF Js!Init, FileType
<1>4. Js!PromisesAreKept /\ Own
  BY RecordFacts DEF Js!Init, Js!PromisesAreKept, Own, JsCalls
<1>5. Honest /\ Alone
  BY DEF Js!Init, Honest, Alone, Js!NoRequest
<1>6. Whole /\ Reads
  BY BrowserAssumption DEF Js!Init, Whole, Reads
<1> QED BY <1>1, <1>2, <1>3, <1>4, <1>5, <1>6 DEF BrowserType, BrowserInv

(* Exec posts one request more, and forgets what is over. *)
LEMMA ExecPosts ==
  ASSUME BrowserType, BrowserInv, NEW c \in JsCalls, NEW request \in Posted, Js!Exec(c, request),
         ~request.done, ~request.alone
  PROVE  /\ CallType' /\ PostType' /\ Js!PromisesAreKept' /\ Own' /\ Honest' /\ Alone'
         /\ at[c] = "run" /\ at' = [at EXCEPT ![c] = "wait"]
         /\ ~answer'[c].ok /\ \A d \in JsCalls \ {c} : answer'[d] = answer[d] /\ number'[d] = number[d]
         /\ number'[c] >= 1
         /\ posted'[Js!Current(c)'].from = request.from /\ posted'[Js!Current(c)'].length = request.length
         /\ \A r \in Js!Requests : r[1] # c =>
              posted'[r].from = posted[r].from /\ posted'[r].length = posted[r].length
<1> DEFINE new == <<c, number[c] + 1>>
<1> USE DEF BrowserType
<1>1. new \in Js!Requests /\ number[c] \in Nat /\ StatementsOf[c] \in Nat
  <2>1. number[c] \in Nat /\ StatementsOf[c] \in Nat /\ number[c] < StatementsOf[c]
    BY BrowserAssumption DEF Js!Exec, CallType, JsCalls
  <2>2. number[c] + 1 \in Nat /\ number[c] + 1 >= 1 /\ number[c] + 1 <= StatementsOf[c]
    BY <2>1
  <2> QED BY <2>1, <2>2, RequestFacts
<1>2. CallType'
  <2>1. number' = [number EXCEPT ![c] = number[c] + 1] /\ at' = [at EXCEPT ![c] = "wait"]
        /\ UNCHANGED <<promise, handlers>> /\ number[c] < StatementsOf[c]
    BY DEF Js!Exec
  <2>2. \A d \in JsCalls : number'[d] \in Nat /\ number'[d] <= StatementsOf[d]
    BY <1>1, <2>1 DEF CallType
  <2> QED BY <2>1, <2>2, <1>1 DEF CallType
<1>3. \A r \in Js!Requests : posted[r] \in Posted
  BY DEF PostType
<1>4. /\ posted'[new] \in Posted /\ posted'[new].pc = "sent" /\ posted'[new].what = request.what
      /\ ~posted'[new].done /\ posted'[new].from = request.from /\ posted'[new].length = request.length
      /\ posted'[new].alone => request.what \in Js!Writes /\ Js!Outstanding = {}
  BY <1>1 DEF Js!Exec, Posted
<1>5. ASSUME NEW r \in Js!Requests, r # new
      PROVE  /\ posted'[r] \in Posted
             /\ \/ r[1] = c /\ posted'[r].pc = "over" /\ ~posted'[r].alone
                \/ /\ posted'[r].pc = posted[r].pc /\ posted'[r].what = posted[r].what
                   /\ posted'[r].done = posted[r].done /\ posted'[r].ok = posted[r].ok
                   /\ posted'[r].saw = posted[r].saw /\ posted'[r].from = posted[r].from
                   /\ posted'[r].length = posted[r].length /\ ~(r[1] = c /\ posted[r].pc = "over")
                   /\ posted'[r].alone => posted[r].alone /\ request.what \notin Js!Writes
  <2>1. posted[r] \in Posted
    BY <1>3
  <2>2. \/ posted'[r] = Js!Forgotten /\ r[1] = c
        \/ posted'[r] = posted[r] /\ ~(r[1] = c /\ posted[r].pc = "over") /\ request.what \notin Js!Writes
        \/ posted'[r] = [posted[r] EXCEPT !.alone = FALSE] /\ ~(r[1] = c /\ posted[r].pc = "over")
    BY <1>5 DEF Js!Exec
  <2>3. CASE posted'[r] = Js!Forgotten /\ r[1] = c
    BY <2>3, RecordFacts
  <2>4. CASE posted'[r] = posted[r] /\ ~(r[1] = c /\ posted[r].pc = "over") /\ request.what \notin Js!Writes
    BY <2>1, <2>4
  <2>5. CASE posted'[r] = [posted[r] EXCEPT !.alone = FALSE] /\ ~(r[1] = c /\ posted[r].pc = "over")
    BY <2>1, <2>5, NoLongerAlone
  <2> QED BY <2>2, <2>3, <2>4, <2>5
<1>6. posted' \in [Js!Requests -> Posted]
  <2>1. \A r \in Js!Requests : r # new => posted'[r] \in Posted
    BY <1>5
  <2> QED BY <1>4, <2>1 DEF Js!Exec
<1>7. PostType'
  BY <1>6, RecordFacts DEF PostType, Js!Exec
<1>8. Js!PromisesAreKept'
  BY DEF BrowserInv, CallType, Js!PromisesAreKept, Js!Exec, JsCalls
<1>9. /\ at[c] = "run" /\ at' = [at EXCEPT ![c] = "wait"]
      /\ ~answer'[c].ok /\ \A d \in JsCalls \ {c} : answer'[d] = answer[d] /\ number'[d] = number[d]
      /\ number'[c] = number[c] + 1 /\ Js!Current(c)' = new
  BY <1>1, RecordFacts DEF Js!Exec, PostType, CallType, Js!Current
<1>10. Own'
  <2> SUFFICES ASSUME NEW d \in JsCalls PROVE
         /\ at'[d] = "wait" => number'[d] >= 1
         /\ answer'[d].ok =>
              /\ answer'[d].of = Js!Current(d)' /\ number'[d] >= 1
              /\ posted'[Js!Current(d)'].pc = "over" /\ posted'[Js!Current(d)'].done
              /\ answer'[d].saw = posted'[Js!Current(d)'].saw
    BY DEF Own
  <2>1. CASE d = c
    BY <2>1, <1>9, <1>1
  <2>2. CASE d # c
    <3>1. answer'[d] = answer[d] /\ number'[d] = number[d] /\ at'[d] = at[d] /\ Js!Current(d)' = Js!Current(d)
      BY <2>2, <1>9 DEF CallType, Js!Current
    <3>2. CASE ~answer[d].ok
      BY <3>1, <3>2 DEF BrowserInv, Own
    <3>3. CASE answer[d].ok
      <4>1. Js!Current(d) \in Js!Requests /\ Js!Current(d) # new /\ Js!Current(d)[1] = d
        BY <3>3, <2>2, RequestFacts DEF BrowserInv, Own, Js!Current, CallType
      <4>2. /\ posted'[Js!Current(d)].pc = posted[Js!Current(d)].pc
            /\ posted'[Js!Current(d)].done = posted[Js!Current(d)].done
            /\ posted'[Js!Current(d)].saw = posted[Js!Current(d)].saw
        BY <4>1, <1>5, <2>2
      <4> QED BY <4>2, <3>1, <3>3 DEF BrowserInv, Own
    <3> QED BY <3>2, <3>3
  <2> QED BY <2>1, <2>2
<1>11. Honest'
  <2> SUFFICES ASSUME NEW r \in Js!Requests, posted'[r].pc = "replied", posted'[r].ok PROVE posted'[r].done
    BY DEF Honest
  <2>1. r # new
    BY <1>4
  <2> QED BY <2>1, <1>5 DEF BrowserInv, Honest
<1>12. Alone'
  <2> SUFFICES ASSUME NEW r \in Js!Requests, posted'[r].alone PROVE
         /\ posted'[r].what \in Js!Writes
         /\ \A s \in Js!Requests : posted'[s].pc = "sent" /\ posted'[s].what \in Js!Writes => s = r
         /\ posted'[r].pc \in {"replied", "over"} /\ posted'[r].done => row' = r
    BY DEF Alone, Js!Writes
  <2>0. row' = row
    BY DEF Js!Exec
  <2>1. \A s \in Js!Requests : s # new /\ posted'[s].pc = "sent" /\ posted'[s].what \in Js!Writes =>
          posted[s].pc = "sent" /\ posted[s].what \in Js!Writes
    BY <1>5
  <2>2. CASE r = new
    <3>1. Js!Outstanding = {} /\ request.what \in Js!Writes
      BY <2>2, <1>4
    <3>2. \A s \in Js!Requests : ~(posted[s].pc = "sent" /\ posted[s].what \in Js!Writes)
      BY <3>1 DEF Js!Outstanding
    <3> QED BY <3>1, <3>2, <2>1, <2>2, <1>4
  <2>3. CASE r # new
    <3>1. posted[r].alone /\ request.what \notin Js!Writes /\ posted'[r].what = posted[r].what
          /\ posted'[r].pc = posted[r].pc /\ posted'[r].done = posted[r].done
      BY <2>3, <1>5
    <3>2. ~(posted'[new].what \in Js!Writes)
      BY <3>1, <1>4
    <3> QED BY <3>1, <3>2, <2>0, <2>1 DEF BrowserInv, Alone
  <2> QED BY <2>2, <2>3
<1>13. \A r \in Js!Requests : r[1] # c =>
         posted'[r].from = posted[r].from /\ posted'[r].length = posted[r].length
  BY <1>5
<1> QED BY <1>1, <1>2, <1>13, <1>4, <1>7, <1>8, <1>9, <1>10, <1>11, <1>12

LEMMA InvSettles ==
  ASSUME BrowserType, BrowserInv, NEW c \in JsCalls, Js!HandlerFunc(c) \/ Js!OnSuccess(c) \/ Js!OnError(c)
  PROVE  BrowserType' /\ BrowserInv'
<1> USE DEF BrowserType, BrowserInv
<1>1. /\ UNCHANGED <<number, posted, answer, row, file>>
      /\ \E how \in {"pending", "resolved", "rejected"}, place \in {"run", "over"} :
           /\ promise' = [promise EXCEPT ![c] = how] /\ handlers' = [handlers EXCEPT ![c] = (how = "pending")]
           /\ at' = [at EXCEPT ![c] = place] /\ (how = "pending" <=> place = "run")
  BY DEF Js!HandlerFunc, Js!OnSuccess, Js!OnError, Js!SendMessage
<1>2. BrowserType'
  BY <1>1 DEF CallType, PostType, FileType, Js!Requests
<1>3. Js!PromisesAreKept'
  <2>1. PICK how \in {"pending", "resolved", "rejected"}, place \in {"run", "over"} :
          /\ promise' = [promise EXCEPT ![c] = how] /\ handlers' = [handlers EXCEPT ![c] = (how = "pending")]
          /\ at' = [at EXCEPT ![c] = place] /\ (how = "pending" <=> place = "run")
    BY <1>1
  <2>2. ASSUME NEW d \in JsCalls
        PROVE  /\ (promise'[d] = "pending") <=> (at'[d] \in {"run", "wait"})
               /\ (promise'[d] = "pending") <=> handlers'[d]
    <3>1. CASE d = c
      BY <2>1, <3>1 DEF CallType
    <3>2. CASE d # c
      BY <2>1, <3>2 DEF CallType, Js!PromisesAreKept, JsCalls
    <3> QED BY <3>1, <3>2
  <2> QED BY <2>2 DEF Js!PromisesAreKept, JsCalls
<1>4. Own' /\ Honest' /\ Alone'
  BY <1>1 DEF CallType, Own, Honest, Alone, Js!Current, Js!Writes, Js!Requests
<1>5. Whole' /\ Reads'
  BY <1>1 DEF CallType, Whole, Reads, Js!Current, JsCalls
<1> QED BY <1>2, <1>3, <1>4, <1>5

LEMMA InvTimeout ==
  ASSUME BrowserType, BrowserInv, NEW c \in JsCalls, Js!Timeout(c)
  PROVE  BrowserType' /\ BrowserInv'
<1> USE DEF BrowserType, BrowserInv
<1>1. /\ UNCHANGED <<promise, handlers, number, posted, row, file>>
      /\ at[c] = "wait" /\ at' = [at EXCEPT ![c] = "run"]
      /\ \A d \in JsCalls : answer'[d].ok => d # c /\ answer'[d] = answer[d]
  BY RecordFacts DEF Js!Timeout, PostType, Js!NoAnswer
<1>2. Js!Current(c) \in Keys
  BY <1>1, RequestFacts DEF Own, Keys, Js!Current, CallType
<1>3. CallType' /\ FileType'
  BY <1>1 DEF CallType, FileType
<1>4. [Js!NoAnswer EXCEPT !.of = Js!Current(c)] \in [of : Keys, ok : BOOLEAN, saw : Keys]
  BY <1>2 DEF Js!NoAnswer, Keys
<1>5. PostType'
  BY <1>1, <1>4 DEF PostType, Js!Timeout
<1>6. Js!PromisesAreKept'
  BY <1>1 DEF CallType, Js!PromisesAreKept, JsCalls
<1>7. Own' /\ Honest' /\ Alone'
  BY <1>1 DEF CallType, Own, Honest, Alone, Js!Current, Js!Writes, Js!Requests
<1>8. Whole' /\ Reads'
  BY <1>1 DEF CallType, Whole, Reads, Js!Current, JsCalls
<1> QED BY <1>3, <1>5, <1>6, <1>7, <1>8

LEMMA InvStatement ==
  ASSUME BrowserType, BrowserInv, NEW c \in JsCalls,
         NEW what \in {"row", "list", "latest", "write", "mark"}, Js!Statement(c, what)
  PROVE  BrowserType' /\ BrowserInv'
<1> DEFINE request == [Js!NoRequest EXCEPT !.what = what]
<1>1. /\ request \in Posted /\ ~request.done /\ ~request.alone
  BY DEF Js!NoRequest, Posted, Keys
<1>2. c # Upload /\ Js!Exec(c, request) /\ UNCHANGED file
  BY DEF Js!Statement
<1> HIDE DEF request
<1>3. /\ CallType' /\ PostType' /\ Js!PromisesAreKept' /\ Own' /\ Honest' /\ Alone'
      /\ at' = [at EXCEPT ![c] = "wait"]
      /\ \A d \in JsCalls \ {c} : answer'[d] = answer[d] /\ number'[d] = number[d]
      /\ \A r \in Js!Requests : r[1] # c =>
           posted'[r].from = posted[r].from /\ posted'[r].length = posted[r].length
  BY <1>1, <1>2, ExecPosts
<1>4. FileType' /\ Whole'
  BY <1>2 DEF BrowserType, FileType, BrowserInv, Whole
<1>5. Reads'
  <2>1. Upload \in JsCalls \ {c}
    BY <1>2 DEF JsCalls
  <2>2. at'[Upload] = at[Upload] /\ answer'[Upload] = answer[Upload] /\ number'[Upload] = number[Upload]
    BY <2>1, <1>3 DEF BrowserType, CallType
  <2>3. number[Upload] >= 1 => Js!Current(Upload) \in Js!Requests /\ Js!Current(Upload)[1] = Upload
    BY <2>1, RequestFacts DEF BrowserType, CallType, Js!Current
  <2> QED BY <2>1, <2>2, <2>3, <1>2, <1>3 DEF BrowserInv, Reads, Js!Current
<1> QED BY <1>3, <1>4, <1>5 DEF BrowserType, BrowserInv

LEMMA InvPage ==
  ASSUME BrowserType, BrowserInv, NEW r \in Js!Requests, NEW reply \in Js!Replies(r), Js!Page(r, reply)
  PROVE  BrowserType' /\ BrowserInv'
<1> USE DEF BrowserType, BrowserInv
<1>1. posted[r] \in Posted /\ \A s \in Js!Requests : posted[s] \in Posted
  BY DEF PostType
<1>2. PICK done \in BOOLEAN :
        LET ok == reply \in Js!Accepts(posted[r].what) IN
        /\ reply # "error" => done
        /\ posted' = [posted EXCEPT ![r] = [@ EXCEPT !.pc = "replied", !.done = done, !.ok = ok,
                         !.saw = IF ok /\ posted[r].what \notin Js!Writes THEN row ELSE Js!None]]
        /\ row' = IF posted[r].what \in Js!Writes /\ done THEN r ELSE row
  BY DEF Js!Page
<1>3. /\ UNCHANGED <<promise, handlers, at, number, answer, file>> /\ posted[r].pc = "sent"
  BY DEF Js!Page, Js!callVars
<1>4. "error" \notin Js!Accepts(posted[r].what)
  <2>1. posted[r].what \in {"row", "list", "latest", "write", "mark", "open", "file", "close"}
    BY <1>1 DEF Posted
  <2> QED BY <2>1 DEF Js!Accepts
<1>5. /\ posted'[r] \in Posted /\ posted'[r].pc = "replied" /\ (posted'[r].ok => posted'[r].done)
      /\ posted'[r].what = posted[r].what /\ posted'[r].from = posted[r].from
      /\ posted'[r].length = posted[r].length /\ posted'[r].alone = posted[r].alone
      /\ posted'[r].done = done
  <2>1. DEFINE ok == reply \in Js!Accepts(posted[r].what)
               saw == IF ok /\ posted[r].what \notin Js!Writes THEN row ELSE Js!None
  <2>2. ok \in BOOLEAN /\ saw \in Keys /\ (ok => done)
    BY <1>2, <1>4 DEF PostType, Keys
  <2>3. posted'[r] = [posted[r] EXCEPT !.pc = "replied", !.done = done, !.ok = ok, !.saw = saw]
    BY <1>2 DEF PostType
  <2> HIDE DEF ok, saw
  <2> QED BY <1>1, <2>2, <2>3 DEF Posted
<1>6. \A s \in Js!Requests : s # r => posted'[s] = posted[s]
  BY <1>2
<1>7. CallType' /\ FileType'
  BY <1>3 DEF CallType, FileType
<1>8. PostType'
  BY <1>1, <1>2, <1>3, <1>5, <1>6 DEF PostType, Keys
<1>9. Js!PromisesAreKept' /\ Whole'
  BY <1>3 DEF Js!PromisesAreKept, Whole
<1>10. Own' /\ Honest'
  <2>1. \A c \in JsCalls : answer[c].ok => Js!Current(c) # r /\ Js!Current(c) \in Js!Requests
    BY <1>3, RequestFacts DEF Own, CallType, Js!Current
  <2> QED BY <2>1, <1>3, <1>5, <1>6 DEF Own, Honest, Js!Current
<1>11. Alone'
  BY <1>2, <1>3, <1>5, <1>6 DEF Alone, Js!Writes, Js!Requests
<1>12. Reads'
  <2>1. Upload \in JsCalls
    BY DEF JsCalls
  <2>2. number[Upload] >= 1 => Js!Current(Upload) \in Js!Requests
    BY <2>1, RequestFacts DEF CallType, Js!Current
  <2> QED BY <2>2, <1>3, <1>5, <1>6 DEF Reads, Js!Current
<1> QED BY <1>7, <1>8, <1>9, <1>10, <1>11, <1>12

LEMMA InvThen ==
  ASSUME BrowserType, BrowserInv, NEW r \in Js!Requests, Js!Then(r)
  PROVE  BrowserType' /\ BrowserInv'
<1> USE DEF BrowserType, BrowserInv
<1>1. posted[r] \in Posted /\ posted[r].pc = "replied" /\ r[1] \in JsCalls
      /\ UNCHANGED <<promise, handlers, number, row, file>>
  BY RequestFacts DEF PostType, Js!Then
<1>2. Upload \in JsCalls
  BY DEF JsCalls
<1>3. \A c \in JsCalls : number[c] >= 1 => Js!Current(c) \in Js!Requests /\ Js!Current(c)[1] = c
  BY RequestFacts DEF CallType, Js!Current
<1>4. CASE Js!Waits(r[1], r)
  <2> DEFINE c == r[1]
  <2>1. /\ at[c] = "wait" /\ r = Js!Current(c)
        /\ posted' = [posted EXCEPT ![r] = [posted[r] EXCEPT !.pc = "over"]] /\ at' = [at EXCEPT ![c] = "run"]
        /\ answer' = [answer EXCEPT ![c] = [of |-> Js!Current(c), ok |-> posted[r].ok, saw |-> posted[r].saw]]
    BY <1>4 DEF Js!Then, Js!Waits
  <2>2. /\ posted'[r] \in Posted /\ posted'[r].pc = "over" /\ posted'[r].done = posted[r].done
        /\ posted'[r].saw = posted[r].saw /\ posted'[r].what = posted[r].what
        /\ posted'[r].from = posted[r].from /\ posted'[r].length = posted[r].length
        /\ posted'[r].alone = posted[r].alone
        /\ \A s \in Js!Requests : s # r => posted'[s] = posted[s]
    BY <2>1, <1>1 DEF PostType, Posted
  <2>3. /\ answer'[c].of = r /\ answer'[c].ok = posted[r].ok /\ answer'[c].saw = posted[r].saw
        /\ \A d \in JsCalls : d # c => answer'[d] = answer[d]
        /\ answer' \in [JsCalls -> [of : Keys, ok : BOOLEAN, saw : Keys]]
    BY <2>1, <1>1 DEF PostType, Posted, Keys
  <2> HIDE DEF c
  <2>4. c \in JsCalls
    BY <1>1 DEF c
  <2>5. BrowserType'
    BY <1>1, <2>1, <2>2, <2>3 DEF CallType, PostType, FileType
  <2>6. Js!PromisesAreKept'
    BY <1>1, <2>1, <2>4 DEF CallType, Js!PromisesAreKept, JsCalls
  <2>7. Own'
    BY <1>1, <1>3, <2>1, <2>2, <2>3, <2>4 DEF Own, Honest, Js!Current, CallType
  <2>8. Honest' /\ Alone'
    BY <1>1, <2>2 DEF Honest, Alone, Js!Writes, Js!Requests
  <2>9. Whole'
    BY <1>1 DEF Whole
  <2>10. Reads'
    <3>1. CASE Upload = c
      <4>1. at[Upload] = "wait" /\ <<Upload, number[Upload]>> = r
        BY <3>1, <2>1, <1>1 DEF Js!Current
      <4>2. UNCHANGED <<number, file>>
        BY <1>1
      <4>3. posted'[<<Upload, number[Upload]>>].from = posted[<<Upload, number[Upload]>>].from
            /\ posted'[<<Upload, number[Upload]>>].length = posted[<<Upload, number[Upload]>>].length
        BY <4>1, <2>2
      <4> QED BY <4>1, <4>2, <4>3 DEF Reads, Js!Current
    <3>2. CASE Upload # c
      <4>1. at'[Upload] = at[Upload] /\ answer'[Upload] = answer[Upload]
        BY <3>2, <1>2, <2>1, <2>3 DEF CallType
      <4>2. number[Upload] >= 1 => posted'[Js!Current(Upload)] = posted[Js!Current(Upload)]
        BY <3>2, <1>2, <1>3, <2>2 DEF c
      <4> QED BY <4>1, <4>2, <1>1 DEF Reads, Js!Current
    <3> QED BY <3>1, <3>2
  <2> QED BY <2>5, <2>6, <2>7, <2>8, <2>9, <2>10
<1>5. CASE ~Js!Waits(r[1], r)
  <2>1. posted' = [posted EXCEPT ![r] = Js!Forgotten] /\ UNCHANGED <<at, answer>>
    BY <1>5 DEF Js!Then
  <2>2. /\ posted' \in [Js!Requests -> Posted] /\ posted'[r].pc = "over" /\ ~posted'[r].alone
        /\ \A s \in Js!Requests : s # r => posted'[s] = posted[s]
    BY <2>1, RecordFacts DEF PostType
  <2>3. BrowserType'
    BY <1>1, <2>1, <2>2 DEF CallType, PostType, FileType
  <2>4. Js!PromisesAreKept' /\ Whole'
    BY <1>1, <2>1 DEF Js!PromisesAreKept, Whole
  <2>5. \A c \in JsCalls : (at[c] = "wait" \/ answer[c].ok) => Js!Current(c) # r
    <3> SUFFICES ASSUME NEW c \in JsCalls, at[c] = "wait" \/ answer[c].ok, Js!Current(c) = r PROVE FALSE
      OBVIOUS
    <3>1. r[1] = c
      BY <1>3 DEF Own
    <3> QED BY <3>1, <1>1, <1>5 DEF Own, Js!Waits
  <2>6. Own' /\ Honest' /\ Alone'
    BY <1>1, <1>3, <2>1, <2>2, <2>5 DEF Own, Honest, Alone, Js!Current, Js!Writes, Js!Requests
  <2>7. Reads'
    BY <1>1, <1>2, <1>3, <2>1, <2>2, <2>5 DEF Reads, Js!Current
  <2> QED BY <2>3, <2>4, <2>6, <2>7
<1> QED BY <1>4, <1>5

LEMMA InvUploadAsks ==
  ASSUME BrowserType, BrowserInv, Js!WasmOpen \/ Js!WasmRead \/ Js!WasmClose
  PROVE  BrowserType' /\ BrowserInv'
<1>1. Upload \in JsCalls /\ FileSize \in Nat /\ BufferSize \in Nat \ {0}
  BY BrowserAssumption DEF JsCalls
<1>2. file \in [whence : Nat, buf : Seq(Nat), out : Seq(Nat), pass : 0..3] /\ Len(<<>>) = 0
  BY DEF BrowserType, FileType
<1>3. CASE Js!WasmOpen
  <2> DEFINE request == [Js!NoRequest EXCEPT !.what = "open"]
  <2>1. /\ request \in Posted /\ ~request.done /\ ~request.alone
    BY DEF Js!NoRequest, Posted, Keys
  <2>2. Js!Exec(Upload, request) /\ UNCHANGED file /\ file.pass = 0
    BY <1>3 DEF Js!WasmOpen
  <2> HIDE DEF request
  <2>3. CallType' /\ PostType' /\ Js!PromisesAreKept' /\ Own' /\ Honest' /\ Alone'
    BY <2>1, <2>2, <1>1, ExecPosts
  <2>4. FileType' /\ Whole' /\ Reads'
    BY <2>2 DEF BrowserType, FileType, BrowserInv, Whole, Reads
  <2> QED BY <2>3, <2>4 DEF BrowserType, BrowserInv
<1>4. CASE Js!WasmRead
  <2> DEFINE size == IF file.whence + BufferSize > FileSize THEN FileSize - file.whence ELSE BufferSize
             request == [Js!NoRequest EXCEPT !.what = "file", !.from = file.whence, !.length = size]
  <2>1. file.whence \in Nat /\ file.whence < FileSize /\ file.buf = <<>> /\ UNCHANGED file
    BY <1>2, <1>4 DEF Js!WasmRead, Js!Reading
  <2>2. size \in Nat /\ size >= 1 /\ file.whence + size <= FileSize
    BY <1>1, <2>1
  <2>3. Js!Exec(Upload, request)
    BY <1>4 DEF Js!WasmRead
  <2> HIDE DEF size
  <2>4. request \in Posted /\ ~request.done /\ ~request.alone /\ request.from = file.whence /\ request.length = size
    BY <2>1, <2>2 DEF Js!NoRequest, Posted, Keys
  <2> HIDE DEF request
  <2>5. /\ CallType' /\ PostType' /\ Js!PromisesAreKept' /\ Own' /\ Honest' /\ Alone'
        /\ number'[Upload] >= 1 /\ posted'[Js!Current(Upload)'].from = file.whence
        /\ posted'[Js!Current(Upload)'].length = size
    BY <2>3, <2>4, <1>1, ExecPosts
  <2>6. FileType' /\ Whole'
    BY <2>1 DEF BrowserType, FileType, BrowserInv, Whole
  <2>7. Reads'
    BY <2>1, <2>2, <2>5 DEF Reads, Js!Current
  <2> QED BY <2>5, <2>6, <2>7 DEF BrowserType, BrowserInv
<1>5. CASE Js!WasmClose
  <2> DEFINE request == [Js!NoRequest EXCEPT !.what = "close"]
  <2>1. /\ request \in Posted /\ ~request.done /\ ~request.alone
    BY DEF Js!NoRequest, Posted, Keys
  <2>2. /\ Js!Exec(Upload, request) /\ file' = [file EXCEPT !.pass = 3]
        /\ file.whence = FileSize /\ file.buf = <<>>
    BY <1>5 DEF Js!WasmClose, Js!Reading
  <2> HIDE DEF request
  <2>3. CallType' /\ PostType' /\ Js!PromisesAreKept' /\ Own' /\ Honest' /\ Alone'
    BY <2>1, <2>2, <1>1, ExecPosts
  <2>4. FileType' /\ Whole' /\ Reads'
    BY <2>2, <1>2 DEF FileType, BrowserInv, Whole, Reads
  <2> QED BY <2>3, <2>4 DEF BrowserType, BrowserInv
<1> QED BY <1>3, <1>4, <1>5

(* What leaves calls and requests as they are, except that the answer is taken. *)
LEMMA AnswerTaken ==
  ASSUME BrowserType, BrowserInv, UNCHANGED <<promise, handlers, at, number, posted, row>>,
         UNCHANGED answer \/ answer' = [answer EXCEPT ![Upload] = Js!NoAnswer]
  PROVE  /\ CallType' /\ PostType' /\ Js!PromisesAreKept' /\ Own' /\ Honest' /\ Alone'
         /\ answer'[Upload].ok => answer[Upload].ok
<1>1. Upload \in JsCalls
  BY DEF JsCalls
<1>2. \A c \in JsCalls : answer'[c] = answer[c] \/ ~answer'[c].ok
  BY <1>1, RecordFacts DEF BrowserType, PostType
<1>3. CallType' /\ Js!PromisesAreKept'
  BY DEF BrowserType, BrowserInv, CallType, Js!PromisesAreKept
<1>4. PostType'
  BY <1>1, RecordFacts DEF BrowserType, PostType
<1>5. Own' /\ Honest' /\ Alone'
  BY <1>2 DEF BrowserInv, Own, Honest, Alone, Js!Current, Js!Writes, Js!Requests
<1> QED BY <1>1, <1>2, <1>3, <1>4, <1>5

LEMMA InvFill ==
  ASSUME BrowserType, BrowserInv, Js!Fill
  PROVE  BrowserType' /\ BrowserInv'
<1> DEFINE req == posted[Js!Current(Upload)]
<1>1. Upload \in JsCalls /\ FileSize \in Nat
  BY BrowserAssumption DEF JsCalls
<1>2. file \in [whence : Nat, buf : Seq(Nat), out : Seq(Nat), pass : 0..3]
  BY DEF BrowserType, FileType
<1>3. /\ file.pass \in {1, 2} /\ file.buf = <<>> /\ at[Upload] = "run" /\ answer[Upload].ok
      /\ UNCHANGED <<promise, handlers, at, number, posted, row>>
      /\ answer' = [answer EXCEPT ![Upload] = Js!NoAnswer]
  BY DEF Js!Fill, Js!Reading, Js!callVars
<1>4. answer[Upload].of = Js!Current(Upload) /\ number[Upload] >= 1 /\ Js!Current(Upload) \in Js!Requests
  BY <1>1, <1>3, RequestFacts DEF BrowserType, BrowserInv, Own, CallType, Js!Current
<1>5. req \in Posted /\ req.from = file.whence /\ req.length >= 1 /\ req.from + req.length <= FileSize
  BY <1>3, <1>4 DEF BrowserType, PostType, BrowserInv, Reads
<1>6. PICK n \in 1..req.length :
        file' = [file EXCEPT !.whence = @ + n, !.buf = [i \in 1..n |-> req.from + i]]
  <2>1. posted[answer[Upload].of] = req
    BY <1>4
  <2>2. \E n \in 1..posted[answer[Upload].of].length :
          file' = [file EXCEPT !.whence = @ + n, !.buf = [i \in 1..n |-> posted[answer[Upload].of].from + i]]
    BY DEF Js!Fill
  <2> HIDE DEF req
  <2> QED BY <2>1, <2>2
<1>7. req.from \in Nat /\ req.length \in Nat
  BY <1>5 DEF Posted
<1> HIDE DEF req
<1>8. n \in Nat /\ n <= req.length
  BY <1>6, <1>7
<1>9. [i \in 1..n |-> req.from + i] \in Seq(Nat) /\ Len([i \in 1..n |-> req.from + i]) = n
  BY <1>7, <1>8
<1> DEFINE filled == [i \in 1..n |-> req.from + i]
<1>16. \A i \in 1..n : filled[i] = req.from + i
  OBVIOUS
<1>17. filled \in Seq(Nat) /\ Len(filled) = n /\ file' = [file EXCEPT !.whence = @ + n, !.buf = filled]
  BY <1>6, <1>9
<1> HIDE DEF filled
<1>18. file' = [whence |-> file.whence + n, buf |-> filled, out |-> file.out, pass |-> file.pass]
  BY <1>2, <1>17
<1>19. /\ file.whence + n \in Nat /\ file.out \in Seq(Nat) /\ file.pass \in 0..3
  BY <1>2, <1>8
<1>10. /\ file'.whence = file.whence + n /\ file'.buf = filled
       /\ file'.out = file.out /\ file'.pass = file.pass
       /\ file' \in [whence : Nat, buf : Seq(Nat), out : Seq(Nat), pass : 0..3]
  BY <1>17, <1>18, <1>19
<1>11. /\ CallType' /\ PostType' /\ Js!PromisesAreKept' /\ Own' /\ Honest' /\ Alone'
  BY <1>3, AnswerTaken
<1>12. FileType'
  BY <1>10 DEF FileType
<1>13. Len(file.out) \in Nat /\ file.whence = Len(file.out) /\ Len(<<>>) = 0
  BY <1>2, <1>3 DEF BrowserInv, Whole
<1>14. Whole'
  <2>1. file'.whence = Len(file'.out) + Len(file'.buf) /\ file'.whence <= FileSize
    BY <1>1, <1>5, <1>7, <1>8, <1>10, <1>13, <1>17
  <2>2. \A i \in 1..Len(file'.buf) : file'.buf[i] = Len(file'.out) + i
    BY <1>5, <1>8, <1>10, <1>13, <1>16, <1>17
  <2>3. \A i \in 1..Len(file'.out) : file'.out[i] = i
    BY <1>10 DEF BrowserInv, Whole
  <2>4. file'.pass # 0 /\ file'.pass # 3
    BY <1>3, <1>10
  <2> QED BY <2>1, <2>2, <2>3, <2>4 DEF Whole
<1>15. Reads'
  <2>1. ~answer'[Upload].ok /\ at'[Upload] = "run"
    BY <1>1, <1>3, RecordFacts DEF BrowserType, PostType
  <2> QED BY <2>1 DEF Reads
<1> QED BY <1>11, <1>12, <1>14, <1>15 DEF BrowserType, BrowserInv

LEMMA InvRead ==
  ASSUME BrowserType, BrowserInv, Js!Read
  PROVE  BrowserType' /\ BrowserInv'
<1>1. file \in [whence : Nat, buf : Seq(Nat), out : Seq(Nat), pass : 0..3]
  BY DEF BrowserType, FileType
<1>2. /\ file.pass \in {1, 2} /\ at[Upload] = "run"
      /\ UNCHANGED <<promise, handlers, at, number, posted, answer, row>>
  BY DEF Js!Read, Js!callVars
<1>3. PICK n \in 1..Len(file.buf) :
        file' = [file EXCEPT !.out = @ \o SubSeq(file.buf, 1, n), !.buf = SubSeq(@, n + 1, Len(@))]
  BY DEF Js!Read
<1> DEFINE out == file.out
           buf == file.buf
           head == SubSeq(buf, 1, n)
           rest == SubSeq(buf, n + 1, Len(buf))
<1>4. out \in Seq(Nat) /\ buf \in Seq(Nat) /\ Len(buf) \in Nat /\ Len(out) \in Nat /\ n \in 1..Len(buf)
  BY <1>1, <1>3
<1>5. /\ file'.out = out \o head /\ file'.buf = rest /\ file'.whence = file.whence /\ file'.pass = file.pass
      /\ DOMAIN file' = DOMAIN file /\ file' = [whence |-> file.whence, buf |-> rest, out |-> out \o head, pass |-> file.pass]
  BY <1>1, <1>3
<1>6. /\ Len(buf) >= 1 /\ file.whence = Len(out) + Len(buf) /\ file.whence <= FileSize
      /\ \A i \in 1..Len(out) : out[i] = i
      /\ \A i \in 1..Len(buf) : buf[i] = Len(out) + i
  <2>1. Len(buf) >= 1
    BY <1>4
  <2> QED BY <2>1 DEF BrowserInv, Whole
<1> HIDE DEF out, buf
<1>7. /\ head \in Seq(Nat) /\ Len(head) = n /\ \A i \in 1..n : head[i] = buf[i]
      /\ rest \in Seq(Nat) /\ Len(rest) = Len(buf) - n /\ \A i \in 1..(Len(buf) - n) : rest[i] = buf[n + i]
  <2>1. 1 \in Int /\ n \in Int /\ n + 1 \in Int /\ Len(buf) \in Int /\ 1 <= n /\ n <= Len(buf)
    BY <1>4
  <2>2. (\A i \in 1..n : buf[i] \in Nat) /\ (\A i \in (n + 1)..Len(buf) : buf[i] \in Nat)
    BY <1>4
  <2>3. head \in Seq(Nat) /\ Len(head) = n /\ \A i \in 1..n : head[i] = buf[i]
    <3>1. /\ head \in Seq(Nat) /\ Len(head) = IF 1 <= n THEN n - 1 + 1 ELSE 0
          /\ \A i \in 1..(n - 1 + 1) : head[i] = buf[1 + i - 1]
      BY <2>1, <2>2, SubSeqProperties
    <3>2. 1..(n - 1 + 1) = 1..n /\ \A i \in 1..n : 1 + i - 1 = i
      BY <2>1
    <3> QED BY <3>1, <3>2, <2>1
  <2>4. rest \in Seq(Nat) /\ Len(rest) = Len(buf) - n /\ \A i \in 1..(Len(buf) - n) : rest[i] = buf[n + i]
    <3>1. /\ rest \in Seq(Nat) /\ Len(rest) = IF n + 1 <= Len(buf) THEN Len(buf) - (n + 1) + 1 ELSE 0
          /\ \A i \in 1..(Len(buf) - (n + 1) + 1) : rest[i] = buf[(n + 1) + i - 1]
      BY <2>1, <2>2, SubSeqProperties
    <3>2. Len(buf) - (n + 1) + 1 = Len(buf) - n /\ \A i \in 1..(Len(buf) - n) : (n + 1) + i - 1 = n + i
      BY <2>1
    <3>3. Len(rest) = Len(buf) - n
      BY <3>1, <2>1
    <3> HIDE DEF rest
    <3> QED BY <3>1, <3>2, <3>3
  <2> QED BY <2>3, <2>4
<1> HIDE DEF head, rest
<1>8. /\ out \o head \in Seq(Nat) /\ Len(out \o head) = Len(out) + n
      /\ \A i \in 1..(Len(out) + n) : (out \o head)[i] = IF i <= Len(out) THEN out[i] ELSE head[i - Len(out)]
  BY <1>4, <1>7, ConcatProperties
<1>9. CallType' /\ PostType' /\ Js!PromisesAreKept' /\ Own' /\ Honest' /\ Alone'
  BY <1>2, AnswerTaken
<1>10. FileType'
  BY <1>1, <1>5, <1>7, <1>8 DEF FileType
<1>11. Whole'
  <2>1. file'.whence = Len(file'.out) + Len(file'.buf) /\ file'.whence <= FileSize
    BY <1>4, <1>5, <1>6, <1>7, <1>8
  <2>2. \A i \in 1..Len(file'.out) : file'.out[i] = i
    <3> SUFFICES ASSUME NEW i \in 1..(Len(out) + n) PROVE (out \o head)[i] = i
      BY <1>5, <1>8
    <3>1. CASE i <= Len(out)
      BY <3>1, <1>4, <1>6, <1>8
    <3>2. CASE ~(i <= Len(out))
      <4>1. i - Len(out) \in 1..n /\ i - Len(out) \in 1..Len(buf)
        BY <3>2, <1>4
      <4>2. (out \o head)[i] = head[i - Len(out)]
        BY <3>2, <1>8
      <4>3. head[i - Len(out)] = buf[i - Len(out)] /\ buf[i - Len(out)] = Len(out) + (i - Len(out))
        BY <4>1, <1>6, <1>7
      <4> QED BY <4>2, <4>3, <1>4
    <3> QED BY <3>1, <3>2
  <2>3. \A i \in 1..Len(file'.buf) : file'.buf[i] = Len(file'.out) + i
    <3> SUFFICES ASSUME NEW i \in 1..(Len(buf) - n) PROVE rest[i] = Len(out) + n + i
      BY <1>4, <1>5, <1>7, <1>8
    <3>1. n + i \in 1..Len(buf)
      BY <1>4
    <3> QED BY <3>1, <1>4, <1>6, <1>7
  <2> QED BY <2>1, <2>2, <2>3, <1>2, <1>5 DEF Whole
<1>12. Reads'
  <2>1. buf # <<>>
    BY <1>4, <1>6
  <2>2. ~answer[Upload].ok
    BY <2>1, <1>2 DEF BrowserInv, Reads, buf
  <2> QED BY <2>2, <1>2 DEF Reads
<1> QED BY <1>9, <1>10, <1>11, <1>12 DEF BrowserType, BrowserInv

LEMMA InvPasses ==
  ASSUME BrowserType, BrowserInv, Js!Opened \/ Js!StartSeek
  PROVE  BrowserType' /\ BrowserInv'
<1>1. file \in [whence : Nat, buf : Seq(Nat), out : Seq(Nat), pass : 0..3] /\ Upload \in JsCalls
      /\ FileSize \in Nat /\ <<>> \in Seq(Nat) /\ Len(<<>>) = 0
  BY BrowserAssumption DEF BrowserType, FileType, JsCalls
<1>2. /\ UNCHANGED <<promise, handlers, at, number, posted, row>> /\ at[Upload] = "run"
      /\ UNCHANGED answer \/ answer' = [answer EXCEPT ![Upload] = Js!NoAnswer]
  BY DEF Js!Opened, Js!StartSeek, Js!Reading, Js!callVars
<1>3. CallType' /\ PostType' /\ Js!PromisesAreKept' /\ Own' /\ Honest' /\ Alone'
  BY <1>2, AnswerTaken
<1>4. CASE Js!Opened
  <2>1. file.pass = 0 /\ file' = [file EXCEPT !.pass = 1] /\ answer' = [answer EXCEPT ![Upload] = Js!NoAnswer]
    BY <1>4 DEF Js!Opened
  <2>2. ~answer'[Upload].ok
    BY <2>1, <1>1, RecordFacts DEF BrowserType, PostType
  <2>3. FileType' /\ Whole'
    BY <2>1, <1>1 DEF FileType, BrowserInv, Whole
  <2>4. Reads'
    BY <2>2, <1>2 DEF Reads
  <2> QED BY <1>3, <2>3, <2>4 DEF BrowserType, BrowserInv
<1>5. CASE Js!StartSeek
  <2>1. /\ file.pass = 1 /\ file.whence = FileSize /\ UNCHANGED answer
        /\ file' = [whence |-> 0, buf |-> <<>>, out |-> <<>>, pass |-> 2]
    BY <1>5 DEF Js!StartSeek
  <2>2. ~answer[Upload].ok
    <3> SUFFICES ASSUME answer[Upload].ok PROVE FALSE
      OBVIOUS
    <3>1. number[Upload] >= 1 /\ Js!Current(Upload) \in Js!Requests
      BY <1>1, RequestFacts DEF BrowserType, BrowserInv, Own, CallType, Js!Current
    <3>2. posted[Js!Current(Upload)].from \in Nat /\ posted[Js!Current(Upload)].length \in Nat
      BY <3>1 DEF BrowserType, PostType, Posted
    <3> QED BY <3>2, <2>1, <1>1 DEF BrowserInv, Reads
  <2>3. FileType' /\ Whole'
    BY <2>1, <1>1 DEF FileType, Whole
  <2>4. Reads'
    BY <2>1, <2>2, <1>2 DEF Reads
  <2> QED BY <1>3, <2>3, <2>4 DEF BrowserType, BrowserInv
<1> QED BY <1>4, <1>5

LEMMA BrowserNext == BrowserType /\ BrowserInv /\ [Js!Next]_Js!browserVars => BrowserType' /\ BrowserInv'
<1> SUFFICES ASSUME BrowserType, BrowserInv, [Js!Next]_Js!browserVars PROVE BrowserType' /\ BrowserInv'
  OBVIOUS
<1>1. CASE UNCHANGED Js!browserVars
  <2>1. UNCHANGED <<promise, handlers, at, number, posted, answer, row, file>>
    BY <1>1 DEF Js!browserVars, Js!callVars
  <2>2. CallType' /\ PostType' /\ Js!PromisesAreKept' /\ Own' /\ Honest' /\ Alone'
    BY <2>1, AnswerTaken
  <2> QED
    BY <2>1, <2>2 DEF BrowserType, FileType, BrowserInv, Whole, Reads, Js!Current
<1>2. ASSUME NEW c \in JsCalls, Js!HandlerFunc(c) \/ Js!OnSuccess(c) \/ Js!OnError(c)
      PROVE  BrowserType' /\ BrowserInv'
  BY <1>2, InvSettles
<1>3. ASSUME NEW c \in JsCalls, Js!Timeout(c) PROVE BrowserType' /\ BrowserInv'
  BY <1>3, InvTimeout
<1>4. ASSUME NEW c \in JsCalls,
             \/ Js!GetMessage(c) \/ Js!GetMessageList(c) \/ Js!GetLatestValidServerMessage(c)
             \/ Js!UpdateMessage(c) \/ Js!MarkConversationMessageAsRead(c)
      PROVE  BrowserType' /\ BrowserInv'
  <2>1. \E what \in {"row", "list", "latest", "write", "mark"} : Js!Statement(c, what)
    BY <1>4 DEF Js!GetMessage, Js!GetMessageList, Js!GetLatestValidServerMessage, Js!UpdateMessage,
      Js!MarkConversationMessageAsRead
  <2> QED BY <2>1, InvStatement
<1>5. ASSUME NEW r \in Js!Requests, Js!Then(r) \/ \E reply \in Js!Replies(r) : Js!Page(r, reply)
      PROVE  BrowserType' /\ BrowserInv'
  BY <1>5, InvThen, InvPage
<1>6. CASE \/ Js!WasmOpen \/ Js!Opened \/ Js!WasmRead \/ Js!Fill \/ Js!Read \/ Js!StartSeek
           \/ Js!WasmClose
  BY <1>6, InvUploadAsks, InvPasses, InvFill, InvRead
<1> QED
  BY <1>1, <1>2, <1>3, <1>4, <1>5, <1>6 DEF Js!Next, JsCalls

LEMMA BrowserGood == BrowserType /\ BrowserInv => PageIsAnswered
<1> SUFFICES ASSUME BrowserType, BrowserInv PROVE PageIsAnswered
  OBVIOUS
<1>1. Js!AnswersAreOwn
  BY DEF Js!AnswersAreOwn, BrowserInv, Own, JsCalls
<1>2. Js!LastWriteStays
  <2> SUFFICES ASSUME NEW c \in JsCalls, answer[c].ok, posted[answer[c].of].what \in Js!Writes,
                      posted[answer[c].of].alone
               PROVE  row = answer[c].of
    BY DEF Js!LastWriteStays, JsCalls
  <2>1. answer[c].of = Js!Current(c) /\ posted[Js!Current(c)].pc = "over" /\ posted[Js!Current(c)].done
        /\ Js!Current(c) \in Js!Requests
    BY RequestFacts DEF BrowserInv, Own, BrowserType, CallType, Js!Current
  <2> QED BY <2>1 DEF BrowserInv, Alone
<1>3. Js!FileIsWhole
  <2>1. Len(<<>>) = 0 /\ file.out \in Seq(Nat)
    BY DEF BrowserType, FileType
  <2>2. \A i \in 1..Len(file.out) : file.out[i] = i
    BY DEF BrowserInv, Whole
  <2>3. ASSUME file.pass = 3 PROVE Len(file.out) = FileSize
    <3>1. file.whence = FileSize /\ file.buf = <<>> /\ file.whence = Len(file.out) + Len(file.buf)
      BY <2>3 DEF BrowserInv, Whole
    <3>2. Len(file.buf) = 0 /\ Len(file.out) \in Nat
      BY <3>1, <2>1
    <3> QED BY <3>1, <3>2
  <2> QED BY <2>2, <2>3 DEF Js!FileIsWhole
<1> QED BY <1>1, <1>2, <1>3 DEF PageIsAnswered, BrowserInv
-----------------------------------------------------------------------------
(* The scenes together *)

SceneInv ==
  PresenceType /\ PresenceInv /\ SessionType /\ SessionInv /\ BrowserType /\ BrowserInv

(* What a scene leaves alone is unchanged as its module has it. *)
LEMMA SceneStill ==
  ASSUME UNCHANGED <<presence, session, browser>>
  PROVE  UNCHANGED <<Online!presenceVars, Login!sessionVars, Js!browserVars>>
  BY DEF presence, session, browser, Online!presenceVars, Login!sessionVars, Js!browserVars, Online!wire,
    Login!fields, Login!errors, Js!callVars

LEMMA SceneStep ==
  JointNext => /\ [Online!Next]_Online!presenceVars /\ [Login!Next]_Login!sessionVars
               /\ [Js!Next]_Js!browserVars
  BY DEF JointNext, presence, session, browser, Online!presenceVars, Login!sessionVars, Js!browserVars,
    Online!wire, Login!fields, Login!errors, Js!callVars

LEMMA SceneCorrect == JointSpec => []SceneInv
<1>1. JointInit => SceneInv
  BY PresenceTypeInit, PresenceInitInv, SessionTypeInit, SessionInitInv, BrowserInit DEF JointInit, SceneInv
<1>2. SceneInv /\ [JointNext]_<<scene, vars, presence, session, browser>> => SceneInv'
  <2> SUFFICES ASSUME SceneInv, [JointNext]_<<scene, vars, presence, session, browser>> PROVE SceneInv'
    OBVIOUS
  <2>1. /\ [Online!Next]_Online!presenceVars /\ [Login!Next]_Login!sessionVars
        /\ [Js!Next]_Js!browserVars
    BY SceneStep, SceneStill
  <2> QED
    BY <2>1, PresenceTypeNext, PresenceInvNext, SessionTypeNext, SessionInvNext, BrowserNext DEF SceneInv
<1> QED BY <1>1, <1>2, PTL DEF JointSpec

(* An entry of the cache of who is online is never forgotten by the server while it is there *)
(* (OnlineSubscription.GetUserOnline, setUserState, OnConnClosed): on a connection it is true *)
(* at the server and subscribed, or what will make it so is on its way.  Except for a user     *)
(* whose subscription was refused, or overtaken by another query's unsubscription (lost).      *)
THEOREM SubscriptionsLive == JointSpec => []EntriesLive
<1>1. SceneInv => EntriesLive
  BY PresenceInvLive DEF SceneInv, EntriesLive
<1> QED BY <1>1, SceneCorrect, PTL

(* Who is logged in has one set of goroutines and components with its open database, and the    *)
(* epochs before have neither (Login, login, initialize, run, logout, initResources, call),     *)
(* as long as no two logins overlap and none acts on an epoch that it did not begin in.         *)
THEOREM SessionsAreWhole == JointSpec => []OneSession
<1>1. SceneInv => OneSession
  BY SessionWhole DEF SceneInv, OneSession
<1> QED BY <1>1, SceneCorrect, PTL

(* A promise is pending exactly while a goroutine can settle it (Caller.asyncCallWithCallback),   *)
(* what a call is told is the page's answer to its own statement (exec.Exec), a write that no     *)
(* other overlapped stays, and an upload reads its file whole (file_js.go: read, Open, StartSeek), *)
(* for any calls, statements, sizes of a file and of a buffer.                                    *)
THEOREM PageAnswered == JointSpec => []PageIsAnswered
<1>1. SceneInv => PageIsAnswered
  BY BrowserGood DEF SceneInv
<1> QED BY <1>1, SceneCorrect, PTL
=============================================================================
