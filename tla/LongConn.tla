------------------------------- MODULE LongConn -------------------------------
(***************************************************************************)
(* One session's connection (internal/interaction/long_conn_mgr.go and     *)
(* ws_resp_asyn.go): read loops, heartbeats, writePump, the requests that  *)
(* wait for an answer, and what ends or restarts them: the network, the    *)
(* server, going to the background and back, logout.                       *)
(*                                                                         *)
(*   SendReqWaitResp -> c.send -> writePump -> socket -> server            *)
(*        ^                        |   ^                   |               *)
(*        +----- Message.Resp -----+   +-- WsRespAsyn -- read loop <- socket *)
(*                                                                         *)
(* Every return to the foreground starts a read loop and a heartbeat; the  *)
(* ones started before it end when they notice that their context is gone. *)
(* A socket is a number that is used again when nothing refers to it.      *)
(***************************************************************************)
EXTENDS Integers, Sequences, FiniteSets

CONSTANTS
  Reqs,          \* requests that may be made
  Newest,        \* those of them that are GetNewestSeq
  Bye,           \* the request of logout
  SendCap,       \* capacity of c.send
  MaxTries,      \* maxReconnectAttempts
  MaxGens,       \* bound: read loops started in the session
  MaxBreaks,     \* bound: failures of the network, kicks and rejections
  Faults         \* "background": the app goes to the background and back;
                 \* "twice": it reports the foreground twice; "token": the
                 \* token expires; "kick": the server ends the session;
                 \* "logout": the app logs out

ASSUME RequestAssumption ==
  /\ Newest \subseteq Reqs /\ Bye \in Reqs \ Newest
  /\ Reqs \cap {"idle", "pending", "error", "none", "push", "kick"} = {}
ASSUME SizeAssumption ==
  /\ SendCap \in Nat \ {0} /\ MaxTries \in Nat \ {0} /\ MaxGens \in Nat \ {0}
  /\ MaxBreaks \in Nat
ASSUME FaultAssumption == Faults \subseteq {"background", "twice", "token", "kick", "logout"}

None == "none"

VARIABLES
  \* LongConnMgr
  status,        \* connStatus
  conn,          \* the socket in c.conn; 0: none yet
  owner,         \* who holds connWrite while it connects: a read loop, or 0
  \* read loops and heartbeats; the loop's number is its generation
  gens,          \* generations started
  rpc, rsock,    \* where a read loop is, the socket it reads
  fg,            \* generations whose fgCtx is not cancelled
  \* writePump and the requests
  wpc, cur, tries,   \* where it is, the request it handles, failed writes
  sendCh, closedCh,  \* c.send, and whether it is closed
  calls,         \* [Reqs -> "idle", "blocked", "waiting", "done"], SendReqWaitResp
  result,        \* [Reqs -> what it returned]
  waiting,       \* keys of WsRespAsyn.wsNotification
  ch,            \* [Reqs -> content of the request's channel there]
  \* the session
  ctxDone,       \* the session's context is cancelled
  toLogout,      \* loginMgrCh holds a command
  closing,       \* setAppBackgroundStatus is about to close the connection
  \* the network and the server
  breaks,        \* failures so far
  alive,         \* sockets that are neither closed nor broken
  asked,         \* [Socks -> requests written to it and not answered]
  executed       \* requests of which a response has arrived

readVars == <<gens, rpc, rsock, fg>>
writeVars == <<wpc, cur, tries, sendCh, closedCh>>
callVars == <<calls, result>>
respVars == <<waiting, ch>>
sessVars == <<ctxDone, toLogout, closing>>
netVars  == <<breaks, alive, asked, executed>>
vars == <<status, conn, owner, readVars, writeVars, callVars, respVars, sessVars, netVars>>

Gens  == 1..MaxGens
Socks == 1..(MaxGens + 1)
Msgs  == Reqs \cup {"push", "kick"}

Init ==
  /\ status = "default" /\ conn = 0 /\ owner = 0
  /\ gens = 1 /\ fg = {1}
  /\ rpc = [g \in Gens |-> IF g = 1 THEN "loop" ELSE "none"]
  /\ rsock = [g \in Gens |-> 0]
  /\ wpc = "select" /\ cur = None /\ tries = 0 /\ sendCh = <<>> /\ closedCh = FALSE
  /\ calls = [r \in Reqs |-> "idle"] /\ result = [r \in Reqs |-> None]
  /\ waiting = {} /\ ch = [r \in Reqs |-> None]
  /\ ctxDone = FALSE /\ toLogout = FALSE /\ closing = FALSE
  /\ breaks = 0 /\ alive = {} /\ asked = [s \in Socks |-> {}] /\ executed = {}
-----------------------------------------------------------------------------
(* The connection *)

Connected == status = "connected"

(* close: only a connection that is up is closed; the mutant closes any. *)
Close_Any ==
  /\ status' = IF status = "default" THEN status ELSE "closed"
  /\ alive' = alive \ {conn} /\ UNCHANGED asked

Close ==
  IF Connected
  THEN status' = "closed" /\ alive' = alive \ {conn} /\ asked' = [asked EXCEPT ![conn] = {}]
  ELSE UNCHANGED <<status, alive, asked>>

(* Sockets that nothing refers to; the first of them is the next connection. *)
FreeSocks == Socks \ ({conn} \cup {rsock[g] : g \in Gens})

Goto(g, p) == rpc' = [rpc EXCEPT ![g] = p]
Release(g) == rsock' = [rsock EXCEPT ![g] = 0]
-----------------------------------------------------------------------------
(* Read loops *)

(***************************************************************************)
(* The head of readPump's loop: it ends with the deferred close, or goes   *)
(* on to reConn, which first looks whether there is a connection.          *)
(***************************************************************************)
Leave_Open(g) == UNCHANGED <<status, alive, asked>> /\ Goto(g, "done")    \* Mutant

Leave(g) == Close /\ Goto(g, "done")

(* Mutant: only the foreground's context is looked at. *)
Loop_IgnoresLogout(g) ==
  /\ rpc[g] = "loop"
  /\ IF g \notin fg
     THEN Leave(g)
     ELSE /\ Goto(g, IF Connected THEN "ready" ELSE "lock")
          /\ UNCHANGED <<status, alive, asked>>
  /\ UNCHANGED <<conn, owner, gens, rsock, fg, writeVars, callVars, respVars, sessVars,
                 breaks, executed>>

Loop(g) ==
  /\ rpc[g] = "loop"
  /\ IF ctxDone \/ g \notin fg
     THEN Leave(g)
     ELSE /\ Goto(g, IF Connected THEN "ready" ELSE "lock")
          /\ UNCHANGED <<status, alive, asked>>
  /\ UNCHANGED <<conn, owner, gens, rsock, fg, writeVars, callVars, respVars, sessVars,
                 breaks, executed>>

(* reConn waits for connWrite and does not look at the status again. *)
StartDial(g) ==
  /\ rpc[g] = "lock" /\ owner = 0 /\ Goto(g, "dial")
  /\ owner' = g /\ status' = "connecting"
  /\ UNCHANGED <<conn, gens, rsock, fg, writeVars, callVars, respVars,
                 sessVars, netVars>>

(* The socket that was in c.conn is not closed. *)
DialOk(g) ==
  /\ rpc[g] = "dial" /\ Goto(g, "ready")
  /\ \E s \in FreeSocks :
       /\ \A t \in FreeSocks : s <= t
       /\ conn' = s /\ alive' = (alive \cap {rsock[h] : h \in Gens}) \cup {s}
       /\ asked' = [t \in Socks |-> IF t \in alive' \ {s} THEN asked[t] ELSE {}]
  /\ status' = "connected" /\ owner' = 0
  /\ UNCHANGED <<gens, rsock, fg, writeVars, callVars, respVars, sessVars, breaks, executed>>

DialFails(g) ==
  /\ rpc[g] = "dial" /\ Goto(g, "loop")
  /\ breaks < MaxBreaks /\ breaks' = breaks + 1
  /\ status' = "closed" /\ owner' = 0
  /\ UNCHANGED <<conn, gens, rsock, fg, writeVars, callVars, respVars, sessVars,
                 alive, asked, executed>>

(* A token error ends the loop and asks for a logout. *)
DialRejected(g) ==
  /\ "token" \in Faults /\ rpc[g] = "dial" /\ Goto(g, "exit")
  /\ breaks < MaxBreaks /\ breaks' = breaks + 1
  /\ status' = "closed" /\ owner' = 0 /\ toLogout' = TRUE
  /\ UNCHANGED <<conn, gens, rsock, fg, writeVars, callVars, respVars,
                 ctxDone, closing, alive, asked, executed>>

StartRead(g) ==
  /\ rpc[g] = "ready" /\ Goto(g, "read")
  /\ rsock' = [rsock EXCEPT ![g] = conn]
  /\ UNCHANGED <<status, conn, owner, gens, fg, writeVars, callVars, respVars,
                 sessVars, netVars>>

(* NotifyResp: a response nobody waits for any more is dropped. *)
Notified_Anyone(m) == [r \in Reqs |-> IF r \in waiting THEN m ELSE ch[r]]    \* Mutant

Notified(m) == IF m \in waiting THEN [ch EXCEPT ![m] = m] ELSE ch

(* The answer to a logout and a kick end the loop. *)
EndsLoop(m) == m \in {Bye, "kick"}

(* What may arrive: responses, pushes at any time, and a kick. *)
Sent(s) ==
  asked[s] \cup {"push"} \cup (IF breaks < MaxBreaks THEN {"kick"} \cap Faults ELSE {})

(***************************************************************************)
(* ReadMessage returns a message, and handleMessage deals with it.         *)
(***************************************************************************)
ReadMessage(g, m) ==
  /\ rpc[g] = "read" /\ rsock[g] \in alive /\ m \in Sent(rsock[g])
  /\ asked' = [asked EXCEPT ![rsock[g]] = @ \ {m}]
  /\ executed' = executed \cup ({m} \cap Reqs)
  /\ ch' = Notified(m) /\ toLogout' = (toLogout \/ m = "kick")
  /\ Goto(g, IF EndsLoop(m) THEN "exit" ELSE "loop") /\ Release(g)
  /\ breaks' = IF m = "kick" THEN breaks + 1 ELSE breaks
  /\ UNCHANGED <<status, conn, owner, gens, fg, writeVars, callVars, waiting,
                 ctxDone, closing, alive>>

(***************************************************************************)
(* The heartbeat of a generation runs as long as its context and pings the *)
(* connection in use; without the pongs the read deadline ends.            *)
(***************************************************************************)
Pinged(s) == s = conn /\ Connected /\ fg # {} /\ ~ctxDone

(* Mutant: the loop ends with its first connection. *)
ReadFails_Ends(g) ==
  /\ rpc[g] = "read" /\ (rsock[g] \notin alive \/ ~Pinged(rsock[g]))
  /\ Leave(g) /\ Release(g)
  /\ UNCHANGED <<conn, owner, gens, fg, writeVars, callVars, respVars, sessVars,
                 breaks, executed>>

ReadFails(g) ==
  /\ rpc[g] = "read" /\ (rsock[g] \notin alive \/ ~Pinged(rsock[g]))
  /\ Close /\ Goto(g, "loop") /\ Release(g)
  /\ UNCHANGED <<conn, owner, gens, fg, writeVars, callVars, respVars, sessVars,
                 breaks, executed>>

Exit(g) ==
  /\ rpc[g] = "exit" /\ Leave(g)
  /\ UNCHANGED <<conn, owner, gens, rsock, fg, writeVars, callVars, respVars, sessVars,
                 breaks, executed>>
-----------------------------------------------------------------------------
(* Requests *)

(* SendReqWaitResp: a full channel holds the caller. *)
Call(r) ==
  /\ calls[r] = "idle"
  /\ r = Bye => "logout" \in Faults
  /\ IF Len(sendCh) < SendCap /\ ~closedCh
     THEN calls' = [calls EXCEPT ![r] = "waiting"] /\ sendCh' = Append(sendCh, r)
     ELSE calls' = [calls EXCEPT ![r] = "blocked"] /\ UNCHANGED sendCh
  /\ UNCHANGED <<status, conn, owner, readVars, wpc, cur, tries, closedCh, result,
                 respVars, sessVars, netVars>>

Enqueue(r) ==
  /\ calls[r] = "blocked" /\ ~closedCh /\ Len(sendCh) < SendCap
  /\ sendCh' = Append(sendCh, r) /\ calls' = [calls EXCEPT ![r] = "waiting"]
  /\ UNCHANGED <<status, conn, owner, readVars, wpc, cur, tries, closedCh, result,
                 respVars, sessVars, netVars>>

(* SendReqWaitResp returns; logout goes on when its request has ended, however. *)
Return(r, v) ==
  /\ calls' = [calls EXCEPT ![r] = "done"] /\ result' = [result EXCEPT ![r] = v]
  /\ ctxDone' = (ctxDone \/ r = Bye)

(* A send on the closed channel panics; the caller's wrapper turns that into an error. *)
EnqueuePanics(r) ==
  /\ calls[r] = "blocked" /\ closedCh /\ Return(r, "error")
  /\ UNCHANGED <<status, conn, owner, readVars, writeVars, respVars, toLogout, closing, netVars>>

(* The caller's context: cancelled by the logout; logout's own ends after 20 seconds. *)
GiveUp(r) ==
  /\ calls[r] = "waiting" /\ (ctxDone \/ r = Bye) /\ Return(r, "error")
  /\ UNCHANGED <<status, conn, owner, readVars, writeVars, respVars, toLogout, closing, netVars>>
-----------------------------------------------------------------------------
(* writePump *)

(***************************************************************************)
(* sendAndWaitResp's DelCh, and dispatchMessage's answer to the caller, if *)
(* it still waits.                                                         *)
(***************************************************************************)
Finish(r, v) ==
  /\ waiting' = waiting \ {r} /\ ch' = [ch EXCEPT ![r] = None]
  /\ IF calls[r] = "waiting" THEN Return(r, v) ELSE UNCHANGED <<callVars, ctxDone>>
  /\ UNCHANGED <<toLogout, closing>>
  /\ wpc' = "select" /\ cur' = None /\ tries' = 0

(* GetNewestSeq does not wait for a connection. *)
TakeRequest ==
  /\ wpc = "select" /\ sendCh # <<>> /\ sendCh' = Tail(sendCh)
  /\ LET r == Head(sendCh) IN
       IF r \in Newest /\ ~Connected
       THEN Finish(r, "error")
       ELSE /\ waiting' = waiting \cup {r} /\ wpc' = "write" /\ cur' = r
            /\ UNCHANGED <<ch, tries, callVars, sessVars>>
  /\ UNCHANGED <<status, conn, owner, readVars, closedCh, netVars>>

(* A write to a socket that is broken may succeed and is lost. *)
WriteOk ==
  /\ wpc = "write" /\ owner = 0 /\ Connected
  /\ wpc' = "wait" /\ tries' = 0
  /\ asked' = IF conn \in alive THEN [asked EXCEPT ![conn] = @ \cup {cur}] ELSE asked
  /\ UNCHANGED <<status, conn, owner, readVars, cur, sendCh, closedCh, callVars, respVars,
                 sessVars, breaks, alive, executed>>

(* writeBinaryMsgAndRetry: close, sleep, try again. *)
WriteFails ==
  /\ wpc = "write" /\ owner = 0 /\ ~(Connected /\ conn \in alive)
  /\ tries + 1 < MaxTries /\ tries' = tries + 1 /\ Close
  /\ UNCHANGED <<conn, owner, readVars, wpc, cur, sendCh, closedCh, callVars, respVars,
                 sessVars, breaks, executed>>

WriteGivesUp ==
  /\ wpc = "write" /\ owner = 0 /\ ~(Connected /\ conn \in alive)
  /\ tries + 1 >= MaxTries /\ Close /\ Finish(cur, "error")
  /\ UNCHANGED <<conn, owner, readVars, sendCh, closedCh, breaks, executed>>

Answered ==
  /\ wpc = "wait" /\ ch[cur] # None /\ Finish(cur, ch[cur])
  /\ UNCHANGED <<status, conn, owner, readVars, sendCh, closedCh, netVars>>

WaitTimesOut ==
  /\ wpc = "wait" /\ Finish(cur, "error")
  /\ UNCHANGED <<status, conn, owner, readVars, sendCh, closedCh, netVars>>

WriterExits ==
  /\ wpc = "select" /\ ctxDone /\ wpc' = "done" /\ closedCh' = TRUE /\ Close
  /\ UNCHANGED <<conn, owner, readVars, cur, tries, sendCh, callVars, respVars, sessVars,
                 breaks, executed>>
-----------------------------------------------------------------------------
(* The session *)

(* logoutListener: what a token error or a kick asked for. *)
LogoutListener ==
  /\ toLogout /\ ~ctxDone /\ toLogout' = FALSE /\ ctxDone' = TRUE
  /\ UNCHANGED <<status, conn, owner, readVars, writeVars, callVars, respVars, closing, netVars>>

GoBackground ==
  /\ "background" \in Faults /\ gens < MaxGens /\ gens \in fg /\ ~ctxDone
  /\ fg' = fg \ {gens} /\ closing' = TRUE
  /\ UNCHANGED <<status, conn, owner, gens, rpc, rsock, writeVars, callVars,
                 respVars, ctxDone, toLogout, netVars>>

BackgroundClose ==
  /\ closing /\ closing' = FALSE /\ Close
  /\ UNCHANGED <<conn, owner, readVars, writeVars, callVars, respVars, ctxDone, toLogout,
                 breaks, executed>>

GoForeground ==
  /\ gens \notin fg \/ "twice" \in Faults
  /\ gens < MaxGens /\ gens' = gens + 1 /\ ~ctxDone
  /\ fg' = fg \cup {gens + 1} /\ Goto(gens + 1, "loop")
  /\ UNCHANGED <<status, conn, owner, rsock, writeVars, callVars, respVars, sessVars, netVars>>
-----------------------------------------------------------------------------
(* The network and the server *)

Break(s) ==
  /\ s \in alive /\ breaks < MaxBreaks /\ breaks' = breaks + 1
  /\ alive' = alive \ {s} /\ asked' = [asked EXCEPT ![s] = {}]
  /\ UNCHANGED <<status, conn, owner, readVars, writeVars, callVars, respVars, sessVars,
                 executed>>
-----------------------------------------------------------------------------
ReadLoop(g) == 
  \/ Loop(g) \/ StartDial(g) \/ DialOk(g) \/ DialFails(g) \/ DialRejected(g)
  \/ StartRead(g) \/ (\E m \in Msgs : ReadMessage(g, m)) \/ ReadFails(g) \/ Exit(g)

Caller(r) == Enqueue(r) \/ EnqueuePanics(r) \/ GiveUp(r)

WritePump ==
  TakeRequest \/ WriteOk \/ WriteFails \/ WriteGivesUp \/ Answered \/ WaitTimesOut \/ WriterExits

Environment ==
  \/ \E r \in Reqs : Call(r)
  \/ GoBackground \/ GoForeground
  \/ \E s \in Socks : Break(s)

(* After the logout everything has stopped. *)
SessionOver ==
  wpc = "done" /\ ~Connected /\ \A g \in Gens : rpc[g] \in {"none", "done"}
Terminated ==
  /\ ctxDone /\ SessionOver /\ \A r \in Reqs : calls[r] = "done"
  /\ UNCHANGED vars

Next ==
  \/ Terminated
  \/ \E g \in Gens : ReadLoop(g)
  \/ \E r \in Reqs : Caller(r)
  \/ WritePump \/ LogoutListener \/ BackgroundClose \/ Environment

Spec == Init /\ [][Next]_vars

(***************************************************************************)
(* Every goroutine goes on when it can; a wait ends; the network and the   *)
(* program's timers go on.  The server need not answer.                    *)
(***************************************************************************)
Fairness ==
  /\ \A g \in Gens : WF_vars(ReadLoop(g))
  /\ \A r \in Reqs : WF_vars(Caller(r))
  /\ WF_vars(WritePump) /\ WF_vars(LogoutListener) /\ WF_vars(BackgroundClose)

LiveSpec == Spec /\ Fairness
-----------------------------------------------------------------------------
TypeConn ==
  /\ status \in {"default", "closed", "connecting", "connected"}
  /\ conn \in Socks \cup {0} /\ owner \in Gens \cup {0}
  /\ Connected => conn # 0
  /\ status = "connecting" <=> owner # 0
TypeLoops ==
  /\ gens \in Gens /\ fg \subseteq 1..gens
  /\ rpc \in [Gens -> {"none", "loop", "lock", "dial", "ready", "read", "exit", "done"}]
  /\ rsock \in [Gens -> Socks \cup {0}]
TypeWriter ==
  /\ wpc \in {"select", "write", "wait", "done"} /\ cur \in Reqs \cup {None}
  /\ tries \in 0..(MaxTries - 1) /\ sendCh \in Seq(Reqs) /\ closedCh \in BOOLEAN
  /\ wpc \in {"write", "wait"} => cur # None
TypeCalls ==
  /\ calls \in [Reqs -> {"idle", "blocked", "waiting", "done"}]
  /\ result \in [Reqs -> Reqs \cup {None, "error"}]
TypeResp == waiting \subseteq Reqs /\ ch \in [Reqs -> Reqs \cup {None}]
TypeSession == ctxDone \in BOOLEAN /\ toLogout \in BOOLEAN /\ closing \in BOOLEAN
TypeNet ==
  /\ breaks \in 0..MaxBreaks /\ alive \subseteq Socks
  /\ asked \in [Socks -> SUBSET Reqs] /\ executed \subseteq Reqs
TypeOK ==
  TypeConn /\ TypeLoops /\ TypeWriter /\ TypeCalls /\ TypeResp /\ TypeSession /\ TypeNet

(***************************************************************************)
(* A connection that is up is watched: some read loop reads it, or is      *)
(* about to read or to close it, whatever became of the other loops.  (A   *)
(* ping that fails does not close the connection: only a reader notices.)  *)
(***************************************************************************)
Watches(g) ==
  rpc[g] \in {"loop", "ready", "exit"} \/ (rpc[g] = "read" /\ rsock[g] = conn)
ConnectedIsWatched == Connected => \E g \in Gens : Watches(g)

(***************************************************************************)
(* readPump's comment: at most one reader on a connection.                 *)
(***************************************************************************)
OneReader ==
  \A g, h \in Gens : rpc[g] = "read" /\ rpc[h] = "read" /\ rsock[g] = rsock[h] => g = h

(***************************************************************************)
(* Liveness.  In the foreground, with a token that is good, the connection *)
(* comes back after every loss.                                            *)
(***************************************************************************)
InSession == gens \in fg /\ ~ctxDone /\ ~toLogout
ComesBack == InSession ~> (Connected \/ ~InSession)

(* After the logout every goroutine ends and no connection is left open. *)
LogoutEnds == ctxDone ~> SessionOver

(***************************************************************************)
(* Each request ends, with its own answer or an error.                     *)
(***************************************************************************)
Outcome(r) ==
  CASE calls[r] = "idle" -> "idle"
    [] calls[r] \in {"blocked", "waiting"} -> "pending"
    [] calls[r] = "done" -> result[r]

Calls == INSTANCE Requests WITH outcome <- [r \in Reqs |-> Outcome(r)]
CallsSpec == Calls!Spec
=============================================================================
