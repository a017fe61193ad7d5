--------------------------- MODULE LongConnProofs ---------------------------
(***************************************************************************)
(* Theorems about LongConn, for any requests, capacities, bounds and       *)
(* faults: its types, that a connection that is up is watched, and that    *)
(* the callers of SendReqWaitResp see a behaviour of Requests.             *)
(***************************************************************************)
EXTENDS LongConn, SequenceTheorems, TLAPS

(* The first generation, the first socket and the first try exist. *)
LEMMA Sizes ==
  /\ 1 \in Gens /\ Gens \subseteq Nat /\ Socks \subseteq Nat
  /\ MaxTries \in Nat \ {0} /\ MaxBreaks \in Nat
  /\ 0 \notin Gens /\ 0 \notin Socks /\ None \notin Reqs
  BY SizeAssumption, RequestAssumption DEF Gens, Socks, None

(* What a step leaves alone keeps its type. *)
LEMMA TypeFrame ==
  /\ TypeConn /\ UNCHANGED <<status, conn, owner>> => TypeConn'
  /\ TypeLoops /\ UNCHANGED readVars => TypeLoops'
  /\ TypeWriter /\ UNCHANGED writeVars => TypeWriter'
  /\ TypeCalls /\ UNCHANGED callVars => TypeCalls'
  /\ TypeResp /\ UNCHANGED respVars => TypeResp'
  /\ TypeSession /\ UNCHANGED sessVars => TypeSession'
  /\ TypeNet /\ UNCHANGED netVars => TypeNet'
<1>1. TypeConn /\ UNCHANGED <<status, conn, owner>> => TypeConn'
  BY DEF TypeConn, Connected
<1>2. TypeLoops /\ UNCHANGED readVars => TypeLoops'
  BY DEF TypeLoops, readVars
<1>3. TypeWriter /\ UNCHANGED writeVars => TypeWriter'
  BY DEF TypeWriter, writeVars
<1>4. TypeCalls /\ UNCHANGED callVars => TypeCalls'
  BY DEF TypeCalls, callVars
<1>5. TypeResp /\ UNCHANGED respVars => TypeResp'
  BY DEF TypeResp, respVars
<1>6. TypeSession /\ UNCHANGED sessVars => TypeSession'
  BY DEF TypeSession, sessVars
<1>7. TypeNet /\ UNCHANGED netVars => TypeNet'
  BY DEF TypeNet, netVars
<1> QED BY <1>1, <1>2, <1>3, <1>4, <1>5, <1>6, <1>7

(* Initially every variable has its type. *)
LEMMA TypeInit == Init => TypeOK
<1> SUFFICES ASSUME Init PROVE TypeOK
  OBVIOUS
<1>1. TypeConn    BY DEF Init, TypeConn, Connected
<1>2. TypeLoops   BY Sizes DEF Init, TypeLoops
<1>3. TypeWriter
  <2>1. sendCh \in Seq(Reqs)
    BY DEF Init
  <2>2. tries \in 0..(MaxTries - 1)
    BY Sizes DEF Init
  <2> QED BY <2>1, <2>2 DEF Init, TypeWriter
<1>4. TypeCalls   BY DEF Init, TypeCalls
<1>5. TypeResp    BY DEF Init, TypeResp
<1>6. TypeSession BY DEF Init, TypeSession
<1>7. TypeNet     BY Sizes DEF Init, TypeNet
<1> QED BY <1>1, <1>2, <1>3, <1>4, <1>5, <1>6, <1>7 DEF TypeOK

(* Closing a connection, in whatever step, keeps the types. *)
LEMMA TypeClose ==
  ASSUME TypeOK, Close, UNCHANGED <<conn, owner, breaks, executed>>
  PROVE  TypeConn' /\ TypeNet'
<1>1. TypeConn'
  BY DEF TypeOK, TypeConn, Close, Connected
<1>2. TypeNet'
  <2>1. asked' \in [Socks -> SUBSET Reqs]
    BY DEF TypeOK, TypeNet, Close
  <2> QED BY <2>1 DEF TypeOK, TypeNet, Close
<1> QED BY <1>1, <1>2

(* The end of a request, in whatever step of writePump, keeps the types. *)
LEMMA TypeFinish ==
  ASSUME TypeOK, NEW r \in Reqs, NEW v \in Reqs \cup {None, "error"}, Finish(r, v),
         UNCHANGED closedCh, sendCh' \in Seq(Reqs)
  PROVE  TypeWriter' /\ TypeCalls' /\ TypeResp' /\ TypeSession'
<1>1. TypeWriter'
  BY Sizes DEF TypeOK, TypeWriter, Finish
<1>2. TypeCalls'
  BY DEF TypeOK, TypeCalls, Finish, Return, callVars
<1>3. TypeResp'
  BY DEF TypeOK, TypeResp, Finish
<1>4. TypeSession'
  BY DEF TypeOK, TypeSession, Finish, Return
<1> QED BY <1>1, <1>2, <1>3, <1>4

(* The steps of a read loop preserve the types. *)
LEMMA TypeReadLoop ==
  ASSUME TypeOK, NEW g \in Gens, ReadLoop(g)
  PROVE  TypeOK'
<1> USE DEF TypeOK
<1>1. UNCHANGED <<writeVars, callVars, waiting, ctxDone, closing, gens, fg>>
  BY DEF ReadLoop, Loop, StartDial, DialOk, DialFails, DialRejected, StartRead, ReadMessage,
         ReadFails, Exit, sessVars, respVars
<1>2. TypeWriter' /\ TypeCalls'
  BY <1>1, TypeFrame
<1>3. TypeLoops'
  <2>1. rpc' \in [Gens -> {"none", "loop", "lock", "dial", "ready", "read", "exit", "done"}]
    BY DEF TypeLoops, ReadLoop, Loop, StartDial, DialOk, DialFails, DialRejected, StartRead,
           ReadMessage, ReadFails, Exit, Leave, Goto
  <2>2. rsock' \in [Gens -> Socks \cup {0}]
    BY DEF TypeLoops, TypeConn, ReadLoop, Loop, StartDial, DialOk, DialFails, DialRejected,
           StartRead, ReadMessage, ReadFails, Exit, Release
  <2> QED BY <1>1, <2>1, <2>2 DEF TypeLoops
<1>4. CASE Loop(g) \/ ReadFails(g) \/ Exit(g)
  <2>1. UNCHANGED <<respVars, sessVars, conn, owner, breaks, executed>>
    BY <1>4 DEF Loop, ReadFails, Exit
  <2>2. Close \/ UNCHANGED <<status, alive, asked>>
    BY <1>4 DEF Loop, ReadFails, Exit, Leave
  <2>3. TypeConn' /\ TypeNet'
    BY <2>1, <2>2, TypeClose, TypeFrame DEF netVars
  <2> QED BY <1>2, <1>3, <2>1, <2>3, TypeFrame
<1>5. CASE StartDial(g) \/ StartRead(g)
  <2>1. UNCHANGED <<respVars, sessVars, netVars>>
    BY <1>5 DEF StartDial, StartRead
  <2>2. TypeConn'
    BY <1>5, Sizes DEF StartDial, StartRead, TypeConn, Connected
  <2> QED BY <1>2, <1>3, <2>1, <2>2, TypeFrame
<1>6. CASE DialOk(g)
  <2>1. UNCHANGED <<respVars, sessVars, breaks, executed>>
    BY <1>6 DEF DialOk
  <2>2. PICK s \in FreeSocks :
          /\ conn' = s /\ alive' = (alive \cap {rsock[h] : h \in Gens}) \cup {s}
          /\ asked' = [t \in Socks |-> IF t \in alive' \ {s} THEN asked[t] ELSE {}]
    BY <1>6 DEF DialOk
  <2>3. s \in Socks
    BY DEF FreeSocks
  <2>4. TypeConn'
    BY <1>6, <2>2, <2>3, Sizes DEF DialOk, TypeConn, Connected
  <2>5. TypeNet'
    <3>1. alive' \subseteq Socks
      BY <2>2, <2>3 DEF TypeNet
    <3>2. asked' \in [Socks -> SUBSET Reqs]
      BY <2>2 DEF TypeNet
    <3> QED BY <2>1, <3>1, <3>2 DEF TypeNet
  <2> QED BY <1>2, <1>3, <2>1, <2>4, <2>5, TypeFrame
<1>7. CASE DialFails(g) \/ DialRejected(g)
  <2>1. UNCHANGED <<respVars, ctxDone, closing, alive, asked, executed, conn>>
    BY <1>7 DEF DialFails, DialRejected, sessVars
  <2>2. TypeConn'
    BY <1>7, <2>1 DEF DialFails, DialRejected, TypeConn, Connected
  <2>3. TypeNet'
    BY <1>7, <2>1, Sizes DEF DialFails, DialRejected, TypeNet
  <2>4. TypeSession'
    BY <1>7, <2>1 DEF DialFails, DialRejected, TypeSession, sessVars
  <2> QED BY <1>2, <1>3, <2>1, <2>2, <2>3, <2>4, TypeFrame
<1>8. ASSUME NEW m \in Msgs, ReadMessage(g, m) PROVE TypeOK'
  <2>1. TypeConn'
    BY <1>8, TypeFrame DEF ReadMessage
  <2>2. TypeNet'
    <3>1. asked' \in [Socks -> SUBSET Reqs]
      BY <1>8 DEF ReadMessage, TypeNet
    <3>2. m = "kick" => breaks < MaxBreaks
      <4>1. asked[rsock[g]] \subseteq Reqs
        BY <1>8 DEF ReadMessage, TypeNet
      <4> QED BY <1>8, <4>1, RequestAssumption DEF ReadMessage, Sent
    <3>3. breaks' \in 0..MaxBreaks
      BY <1>8, <3>2, Sizes DEF ReadMessage, TypeNet
    <3> QED BY <1>8, <3>1, <3>3 DEF ReadMessage, TypeNet
  <2>3. TypeSession'
    BY <1>8 DEF ReadMessage, TypeSession
  <2>4. TypeResp'
    BY <1>8 DEF ReadMessage, TypeResp, Notified
  <2> QED BY <1>2, <1>3, <2>1, <2>2, <2>3, <2>4
<1> QED BY <1>4, <1>5, <1>6, <1>7, <1>8 DEF ReadLoop

(* The steps of writePump preserve the types. *)
LEMMA TypeWrite ==
  ASSUME TypeOK, WritePump
  PROVE  TypeOK'
<1> USE DEF TypeOK
<1>1. TypeLoops' /\ UNCHANGED <<conn, owner, breaks, executed>>
  BY TypeFrame DEF WritePump, TakeRequest, WriteOk, WriteFails, WriteGivesUp, Answered,
                   WaitTimesOut, WriterExits, netVars
<1>2. CASE TakeRequest
  <2>1. Head(sendCh) \in Reqs /\ sendCh' \in Seq(Reqs)
    BY <1>2 DEF TakeRequest, TypeWriter
  <2>2. TypeConn' /\ TypeNet'
    BY <1>2, TypeFrame DEF TakeRequest
  <2>3. CASE Finish(Head(sendCh), "error")
    BY <1>1, <1>2, <2>1, <2>2, <2>3, TypeFinish DEF TakeRequest
  <2>4. CASE ~Finish(Head(sendCh), "error")
    <3>1. /\ waiting' = waiting \cup {Head(sendCh)} /\ wpc' = "write" /\ cur' = Head(sendCh)
          /\ UNCHANGED <<ch, tries, callVars, sessVars, closedCh>>
      BY <1>2, <2>4 DEF TakeRequest
    <3>2. TypeWriter'
      BY <2>1, <3>1, Sizes DEF TypeWriter
    <3>3. TypeResp'
      BY <2>1, <3>1 DEF TypeResp
    <3> QED BY <1>1, <2>2, <3>1, <3>2, <3>3, TypeFrame
  <2> QED BY <2>3, <2>4
<1>3. CASE WriteOk
  <2>1. UNCHANGED <<status, conn, owner, callVars, respVars, sessVars>>
    BY <1>3 DEF WriteOk
  <2>2. TypeWriter'
    BY <1>3, Sizes DEF WriteOk, TypeWriter
  <2>3. TypeNet'
    <3>1. cur \in Reqs
      BY <1>3 DEF WriteOk, TypeWriter
    <3> QED BY <1>3, <3>1 DEF WriteOk, TypeNet
  <2> QED BY <1>1, <2>1, <2>2, <2>3, TypeFrame
<1>4. CASE WriteFails
  <2>1. UNCHANGED <<callVars, respVars, sessVars>> /\ Close
    BY <1>4 DEF WriteFails
  <2>2. TypeWriter'
    BY <1>4, Sizes DEF WriteFails, TypeWriter
  <2>3. TypeConn' /\ TypeNet'
    BY <1>1, <2>1, TypeClose
  <2> QED BY <1>1, <2>1, <2>2, <2>3, TypeFrame
<1>5. CASE WriteGivesUp \/ Answered \/ WaitTimesOut
  <2>1. cur \in Reqs /\ ch[cur] \in Reqs \cup {None, "error"}
    BY <1>5 DEF WriteGivesUp, Answered, WaitTimesOut, TypeWriter, TypeResp
  <2>2. /\ Finish(cur, "error") \/ Finish(cur, ch[cur])
        /\ UNCHANGED closedCh /\ sendCh' \in Seq(Reqs)
    BY <1>5 DEF WriteGivesUp, Answered, WaitTimesOut, TypeWriter
  <2>3. TypeWriter' /\ TypeCalls' /\ TypeResp' /\ TypeSession'
    BY <2>1, <2>2, TypeFinish
  <2>4. TypeConn' /\ TypeNet'
    BY <1>1, <1>5, TypeClose, TypeFrame DEF WriteGivesUp, Answered, WaitTimesOut
  <2> QED BY <1>1, <2>3, <2>4
<1>6. CASE WriterExits
  <2>1. UNCHANGED <<callVars, respVars, sessVars>> /\ Close
    BY <1>6 DEF WriterExits
  <2>2. TypeWriter'
    BY <1>6 DEF WriterExits, TypeWriter
  <2>3. TypeConn' /\ TypeNet'
    BY <1>1, <2>1, TypeClose
  <2> QED BY <1>1, <2>1, <2>2, <2>3, TypeFrame
<1> QED BY <1>2, <1>3, <1>4, <1>5, <1>6 DEF WritePump

(* The steps of the callers, the session and the network preserve the types. *)
LEMMA TypeOthers ==
  ASSUME TypeOK, \/ \E r \in Reqs : Caller(r)
                 \/ LogoutListener \/ BackgroundClose \/ Environment
  PROVE  TypeOK'
<1> USE DEF TypeOK
<1>1. ASSUME NEW r \in Reqs, Call(r) \/ Enqueue(r) PROVE TypeOK'
  <2>1. UNCHANGED <<status, conn, owner, readVars, respVars, sessVars, netVars>>
    BY <1>1 DEF Call, Enqueue
  <2>2. sendCh' \in Seq(Reqs)
    <3>1. sendCh \in Seq(Reqs) /\ (sendCh' = Append(sendCh, r) \/ sendCh' = sendCh)
      BY <1>1 DEF Call, Enqueue, TypeWriter
    <3> QED BY <3>1, AppendProperties
  <2>3. TypeWriter'
    BY <1>1, <2>2 DEF Call, Enqueue, TypeWriter
  <2>4. TypeCalls'
    BY <1>1 DEF Call, Enqueue, TypeCalls
  <2> QED BY <2>1, <2>3, <2>4, TypeFrame
<1>2. ASSUME NEW r \in Reqs, EnqueuePanics(r) \/ GiveUp(r) PROVE TypeOK'
  <2>1. UNCHANGED <<status, conn, owner, readVars, writeVars, respVars, netVars>>
    BY <1>2 DEF EnqueuePanics, GiveUp
  <2>2. TypeCalls' /\ TypeSession'
    BY <1>2 DEF EnqueuePanics, GiveUp, Return, TypeCalls, TypeSession
  <2> QED BY <2>1, <2>2, TypeFrame
<1>3. CASE LogoutListener
  <2>1. TypeSession'
    BY <1>3 DEF LogoutListener, TypeSession
  <2> QED BY <1>3, <2>1, TypeFrame DEF LogoutListener
<1>4. CASE BackgroundClose
  <2>1. TypeSession'
    BY <1>4 DEF BackgroundClose, TypeSession
  <2>2. TypeConn' /\ TypeNet'
    BY <1>4, TypeClose DEF BackgroundClose
  <2> QED BY <1>4, <2>1, <2>2, TypeFrame DEF BackgroundClose
<1>5. CASE GoBackground
  <2>1. TypeSession' /\ TypeLoops'
    BY <1>5 DEF GoBackground, TypeSession, TypeLoops
  <2> QED BY <1>5, <2>1, TypeFrame DEF GoBackground
<1>6. CASE GoForeground
  <2>1. gens + 1 \in Gens /\ gens \in Nat
    BY <1>6, SizeAssumption DEF GoForeground, TypeLoops, Gens
  <2>2. TypeLoops'
    BY <1>6, <2>1 DEF GoForeground, TypeLoops, Goto
  <2> QED BY <1>6, <2>2, TypeFrame DEF GoForeground
<1>7. ASSUME NEW s \in Socks, Break(s) PROVE TypeOK'
  <2>1. TypeNet'
    BY <1>7, Sizes DEF Break, TypeNet
  <2> QED BY <1>7, <2>1, TypeFrame DEF Break
<1> QED BY <1>1, <1>2, <1>3, <1>4, <1>5, <1>6, <1>7 DEF Caller, Environment

(***************************************************************************)
(* Every variable of LongConn keeps its type; with it, writePump has a     *)
(* request in hand when it writes or waits, and the connection is being    *)
(* dialled exactly when a read loop holds connWrite.                       *)
(***************************************************************************)
THEOREM TypeCorrect == Spec => []TypeOK
<1>1. TypeOK /\ [Next]_vars => TypeOK'
  <2> SUFFICES ASSUME TypeOK, [Next]_vars PROVE TypeOK'
    OBVIOUS
  <2>1. CASE UNCHANGED vars
    BY <2>1, TypeFrame DEF vars, TypeOK
  <2>2. CASE Next
    BY <2>1, <2>2, TypeReadLoop, TypeWrite, TypeOthers DEF Next, Terminated
  <2> QED BY <2>1, <2>2
<1> QED BY TypeInit, <1>1, PTL DEF Spec

(***************************************************************************)
(* A connection that is up is watched by a read loop: with the types this  *)
(* is inductive.                                                           *)
(***************************************************************************)
THEOREM Watched == Spec => []ConnectedIsWatched
<1>1. Init => ConnectedIsWatched
  BY DEF Init, ConnectedIsWatched, Connected
<1>2. ASSUME TypeOK, ConnectedIsWatched, [Next]_vars
      PROVE  ConnectedIsWatched'
  <2> SUFFICES ASSUME Connected' PROVE \E g \in Gens : Watches(g)'
    BY DEF ConnectedIsWatched
  <2>0. status' = "connected"
    BY DEF Connected
  <2>1. ASSUME UNCHANGED <<status, conn, rpc, rsock>> PROVE \E g \in Gens : Watches(g)'
    BY <1>2, <2>0, <2>1 DEF ConnectedIsWatched, Connected, Watches
  <2>2. ~Close
    BY <2>0 DEF Close, Connected
  <2>3. ASSUME NEW g \in Gens, ReadLoop(g) PROVE Watches(g)'
    <3>1. rpc \in [Gens -> {"none", "loop", "lock", "dial", "ready", "read", "exit", "done"}]
          /\ rsock \in [Gens -> Socks \cup {0}]
      BY <1>2 DEF TypeOK, TypeLoops
    <3>2. CASE Loop(g)
      BY <2>0, <2>2, <3>1, <3>2 DEF Loop, Leave, Connected, Goto, Watches
    <3>3. CASE StartDial(g) \/ DialFails(g) \/ DialRejected(g)
      BY <2>0, <3>3 DEF StartDial, DialFails, DialRejected, Connected
    <3>4. CASE DialOk(g) \/ StartRead(g)
      BY <3>1, <3>4 DEF DialOk, StartRead, Goto, Watches
    <3>5. ASSUME NEW m \in Msgs, ReadMessage(g, m) PROVE Watches(g)'
      BY <3>1, <3>5 DEF ReadMessage, Goto, Watches
    <3>6. CASE ReadFails(g) \/ Exit(g)
      BY <2>2, <3>6 DEF ReadFails, Exit, Leave
    <3> QED BY <2>3, <3>2, <3>3, <3>4, <3>5, <3>6 DEF ReadLoop
  <2>4. CASE WritePump
    <3>1. UNCHANGED <<status, conn, rpc, rsock>>
      BY <2>2, <2>4 DEF WritePump, TakeRequest, WriteOk, WriteFails, WriteGivesUp, Answered,
                        WaitTimesOut, WriterExits, readVars
    <3> QED BY <2>1, <3>1
  <2>5. CASE LogoutListener \/ BackgroundClose \/ (\E r \in Reqs : Caller(r))
    <3>1. UNCHANGED <<status, conn, rpc, rsock>>
      BY <2>2, <2>5 DEF LogoutListener, BackgroundClose, Caller, Enqueue, EnqueuePanics, GiveUp,
                        readVars
    <3> QED BY <2>1, <3>1
  <2>6. CASE Environment
    <3>1. CASE GoForeground
      <4>1. gens + 1 \in Gens
        BY <1>2, <3>1, SizeAssumption DEF GoForeground, TypeOK, TypeLoops, Gens
      <4>2. rpc'[gens + 1] = "loop"
        BY <1>2, <3>1, <4>1 DEF GoForeground, Goto, TypeOK, TypeLoops
      <4> QED BY <4>1, <4>2 DEF Watches
    <3>2. CASE ~GoForeground
      <4>1. UNCHANGED <<status, conn, rpc, rsock>>
        BY <2>6, <3>2 DEF Environment, Call, GoBackground, Break, readVars
      <4> QED BY <2>1, <4>1
    <3> QED BY <3>1, <3>2
  <2>7. CASE Terminated \/ UNCHANGED vars
    <3>1. UNCHANGED <<status, conn, rpc, rsock>>
      BY <2>7 DEF Terminated, vars, readVars
    <3> QED BY <2>1, <3>1
  <2> QED BY <1>2, <2>3, <2>4, <2>5, <2>6, <2>7 DEF Next
<1> QED BY <1>1, <1>2, TypeCorrect, PTL DEF Spec
-----------------------------------------------------------------------------
(***************************************************************************)
(* What ties the requests to the server: only requests that were made are  *)
(* under way, and a channel of WsRespAsyn holds no answer but its own,     *)
(* which the server has given.                                             *)
(***************************************************************************)
UnderWay == {sendCh[i] : i \in 1..Len(sendCh)} \cup (Reqs \cap {cur}) \cup executed
              \cup UNION {asked[s] : s \in Socks}
OnlyMade == \A r \in UnderWay : calls[r] # "idle"
OwnAnswer == \A r \in Reqs : ch[r] = None \/ (ch[r] = r /\ r \in executed)
AnswerInv == OnlyMade /\ OwnAnswer

(* Initially nothing is under way. *)
LEMMA AnswerInit == Init => AnswerInv
<1> SUFFICES ASSUME Init PROVE AnswerInv
  OBVIOUS
<1>1. UnderWay = {}
  <2>1. UNION {asked[s] : s \in Socks} = {} /\ executed = {}
    BY DEF Init
  <2>2. Reqs \cap {cur} = {}
    BY Sizes DEF Init
  <2>3. {sendCh[i] : i \in 1..Len(sendCh)} = {}
    BY DEF Init
  <2> QED BY <2>1, <2>2, <2>3 DEF UnderWay
<1>2. OwnAnswer
  BY DEF Init, OwnAnswer
<1> QED BY <1>1, <1>2 DEF AnswerInv, OnlyMade

(***************************************************************************)
(* A step that makes no request and under which nothing comes under way    *)
(* keeps OnlyMade: a request never becomes idle again.                     *)
(***************************************************************************)
LEMMA MadeFrame ==
  ASSUME TypeOK, OnlyMade, UnderWay' \subseteq UnderWay,
         \A r \in Reqs : calls[r] # "idle" => calls'[r] # "idle"
  PROVE  OnlyMade'
<1>1. UnderWay \subseteq Reqs
  BY DEF UnderWay, TypeOK, TypeWriter, TypeNet
<1> QED BY <1>1 DEF OnlyMade

(* A request that was made stays made. *)
LEMMA StaysMade ==
  ASSUME TypeOK, [Next]_vars, NEW r \in Reqs, calls[r] # "idle"
  PROVE  calls'[r] # "idle"
<1>1. CASE UNCHANGED calls
  BY <1>1
<1>2. ASSUME NEW q \in Reqs, NEW v, Return(q, v) PROVE calls'[r] # "idle"
  BY <1>2 DEF Return, TypeOK, TypeCalls
<1>3. ASSUME NEW q \in Reqs, Caller(q) \/ Call(q) PROVE calls'[r] # "idle"
  BY <1>2, <1>3 DEF Caller, Call, Enqueue, EnqueuePanics, GiveUp, TypeOK, TypeCalls
<1>4. CASE WritePump
  <2>1. ASSUME NEW q \in Reqs, NEW v, Finish(q, v) PROVE calls'[r] # "idle"
    BY <1>1, <1>2, <2>1 DEF Finish, callVars
  <2>2. CASE TakeRequest
    BY <1>1, <2>1, <2>2 DEF TakeRequest, callVars, TypeOK, TypeWriter
  <2>3. CASE WriteGivesUp \/ Answered \/ WaitTimesOut
    <3>1. cur \in Reqs
      BY <2>3 DEF WriteGivesUp, Answered, WaitTimesOut, TypeOK, TypeWriter
    <3> QED BY <2>1, <2>3, <3>1 DEF WriteGivesUp, Answered, WaitTimesOut
  <2>4. CASE WriteOk \/ WriteFails \/ WriterExits
    BY <1>1, <2>4 DEF WriteOk, WriteFails, WriterExits, callVars
  <2> QED BY <1>4, <2>2, <2>3, <2>4 DEF WritePump
<1>5. ASSUME NEW g \in Gens, ReadLoop(g) PROVE calls'[r] # "idle"
  BY <1>1, <1>5 DEF ReadLoop, Loop, StartDial, DialOk, DialFails, DialRejected, StartRead,
                    ReadMessage, ReadFails, Exit, callVars
<1>6. CASE \/ LogoutListener \/ BackgroundClose \/ GoBackground \/ GoForeground
           \/ Terminated \/ UNCHANGED vars \/ \E s \in Socks : Break(s)
  BY <1>1, <1>6 DEF LogoutListener, BackgroundClose, GoBackground, GoForeground, Terminated,
                    Break, callVars, vars
<1> QED BY <1>3, <1>4, <1>5, <1>6 DEF Next, Environment

(* A read loop brings nothing under way: an answer that arrives was asked for. *)
LEMMA UnderWayRead ==
  ASSUME TypeOK, NEW g \in Gens, ReadLoop(g)
  PROVE  UnderWay' \subseteq UnderWay
<1>1. UNCHANGED <<sendCh, cur>>
  BY DEF ReadLoop, Loop, StartDial, DialOk, DialFails, DialRejected, StartRead, ReadMessage,
         ReadFails, Exit, writeVars
<1>2. asked \in [Socks -> SUBSET Reqs] /\ alive \subseteq Socks
  BY DEF TypeOK, TypeNet
<1>3. \A s \in Socks : asked'[s] \subseteq asked[s]
  <2>1. CASE Close \/ UNCHANGED asked
    BY <1>2, <2>1 DEF Close
  <2>2. CASE DialOk(g)
    BY <1>2, <2>2 DEF DialOk
  <2>3. ASSUME NEW m \in Msgs, ReadMessage(g, m) PROVE \A s \in Socks : asked'[s] \subseteq asked[s]
    BY <1>2, <2>3 DEF ReadMessage
  <2> QED BY <2>1, <2>2, <2>3 DEF ReadLoop, Loop, Leave, StartDial, DialFails, DialRejected,
                                  StartRead, ReadFails, Exit, netVars
<1>4. executed' \subseteq executed \cup UNION {asked[s] : s \in Socks}
  <2>1. CASE UNCHANGED executed
    BY <2>1
  <2>2. ASSUME NEW m \in Msgs, ReadMessage(g, m), m \in Reqs
        PROVE  m \in UNION {asked[s] : s \in Socks}
    <3>1. rsock[g] \in Socks /\ m \in asked[rsock[g]]
      BY <1>2, <2>2, RequestAssumption DEF ReadMessage, Sent
    <3> QED BY <3>1
  <2> QED BY <2>1, <2>2 DEF ReadLoop, Loop, StartDial, DialOk, DialFails, DialRejected,
                            StartRead, ReadMessage, ReadFails, Exit, netVars
<1> QED BY <1>1, <1>3, <1>4 DEF UnderWay

(* writePump moves requests along and brings none under way. *)
LEMMA UnderWayWrite ==
  ASSUME TypeOK, WritePump
  PROVE  UnderWay' \subseteq UnderWay
<1> DEFINE Queue == {sendCh[i] : i \in 1..Len(sendCh)}
<1>0. executed' = executed
  BY DEF WritePump, TakeRequest, WriteOk, WriteFails, WriteGivesUp, Answered, WaitTimesOut,
         WriterExits, netVars
<1>1. asked \in [Socks -> SUBSET Reqs] /\ sendCh \in Seq(Reqs) /\ None \notin Reqs
  BY Sizes DEF TypeOK, TypeNet, TypeWriter
<1>2. Close => \A s \in Socks : asked'[s] \subseteq asked[s]
  BY <1>1 DEF Close
<1>3. CASE TakeRequest
  <2>1. Head(sendCh) \in Queue /\ Queue' \subseteq Queue
    <3>1. sendCh # <<>> /\ sendCh' = Tail(sendCh)
      BY <1>3 DEF TakeRequest
    <3> QED BY <1>1, <3>1
  <2>2. cur' = Head(sendCh) \/ cur' = None
    BY <1>3 DEF TakeRequest, Finish
  <2>3. UNCHANGED asked
    BY <1>3 DEF TakeRequest, netVars
  <2> QED BY <1>0, <1>1, <2>1, <2>2, <2>3 DEF UnderWay
<1>4. CASE WriteOk
  <2>1. \A s \in Socks : asked'[s] \subseteq asked[s] \cup (Reqs \cap {cur})
    <3>1. cur \in Reqs
      BY <1>4 DEF WriteOk, TypeOK, TypeWriter
    <3> QED BY <1>1, <1>4, <3>1 DEF WriteOk
  <2> QED BY <1>0, <1>4, <2>1 DEF WriteOk, UnderWay
<1>5. CASE WriteFails \/ WriterExits
  <2>1. UNCHANGED <<cur, sendCh>> /\ Close
    BY <1>5 DEF WriteFails, WriterExits
  <2> QED BY <1>0, <1>2, <2>1 DEF UnderWay
<1>6. CASE WriteGivesUp \/ Answered \/ WaitTimesOut
  <2>1. UNCHANGED sendCh /\ cur' = None /\ (Close \/ UNCHANGED asked)
    BY <1>6 DEF WriteGivesUp, Answered, WaitTimesOut, Finish, netVars
  <2> QED BY <1>0, <1>1, <1>2, <2>1 DEF UnderWay
<1> QED BY <1>3, <1>4, <1>5, <1>6 DEF WritePump

(* Only requests that were made come under way. *)
LEMMA MadeStep == TypeOK /\ OnlyMade /\ [Next]_vars => OnlyMade'
<1> SUFFICES ASSUME TypeOK, OnlyMade, [Next]_vars PROVE OnlyMade'
  OBVIOUS
<1>1. ASSUME UnderWay' \subseteq UnderWay PROVE OnlyMade'
  BY <1>1, StaysMade, MadeFrame
<1>2. ASSUME UNCHANGED <<sendCh, cur, executed, asked>> PROVE OnlyMade'
  <2>1. UnderWay' = UnderWay
    BY <1>2 DEF UnderWay
  <2> QED BY <1>1, <2>1
<1>3. ASSUME NEW r \in Reqs, Call(r) \/ Enqueue(r) PROVE OnlyMade'
  <2>1. UNCHANGED <<cur, executed, asked>> /\ calls'[r] # "idle"
    BY <1>3 DEF Call, Enqueue, netVars, TypeOK, TypeCalls
  <2>2. {sendCh'[i] : i \in 1..Len(sendCh')} \subseteq {sendCh[i] : i \in 1..Len(sendCh)} \cup {r}
    <3>1. sendCh \in Seq(Reqs) /\ (sendCh' = Append(sendCh, r) \/ sendCh' = sendCh)
      BY <1>3 DEF Call, Enqueue, TypeOK, TypeWriter
    <3> QED BY <3>1, AppendProperties
  <2>3. UnderWay' \subseteq UnderWay \cup {r}
    BY <2>1, <2>2 DEF UnderWay
  <2>4. UnderWay \subseteq Reqs
    BY DEF UnderWay, TypeOK, TypeWriter, TypeNet
  <2> QED BY <2>1, <2>3, <2>4, StaysMade DEF OnlyMade
<1>4. ASSUME NEW r \in Reqs, EnqueuePanics(r) \/ GiveUp(r) PROVE OnlyMade'
  BY <1>2, <1>4 DEF EnqueuePanics, GiveUp, writeVars, netVars
<1>5. CASE \/ LogoutListener \/ GoBackground \/ GoForeground \/ Terminated \/ UNCHANGED vars
  BY <1>2, <1>5 DEF LogoutListener, GoBackground, GoForeground, Terminated, vars, writeVars,
                    netVars
<1>6. CASE BackgroundClose \/ \E s \in Socks : Break(s)
  <2>1. UNCHANGED <<sendCh, cur, executed>>
    BY <1>6 DEF BackgroundClose, Break, writeVars
  <2>2. \A s \in Socks : asked'[s] \subseteq asked[s]
    BY <1>6 DEF BackgroundClose, Break, Close, TypeOK, TypeNet
  <2> QED BY <1>1, <2>1, <2>2 DEF UnderWay
<1> QED BY <1>1, <1>3, <1>4, <1>5, <1>6, UnderWayRead, UnderWayWrite
        DEF Next, Environment, Caller

(* A channel holds no answer but its own. *)
LEMMA OwnStep == TypeOK /\ OwnAnswer /\ [Next]_vars => OwnAnswer'
<1> SUFFICES ASSUME TypeOK, OwnAnswer, [Next]_vars PROVE OwnAnswer'
  OBVIOUS
<1>1. ch \in [Reqs -> Reqs \cup {None}]
  BY DEF TypeOK, TypeResp
<1>2. ASSUME UNCHANGED <<ch, executed>> PROVE OwnAnswer'
  BY <1>2 DEF OwnAnswer
<1>3. ASSUME NEW r \in Reqs, NEW v, Finish(r, v), UNCHANGED executed PROVE OwnAnswer'
  BY <1>1, <1>3 DEF Finish, OwnAnswer
<1>4. CASE WritePump
  <2>1. CASE TakeRequest
    BY <1>2, <1>3, <2>1 DEF TakeRequest, TypeOK, TypeWriter, netVars
  <2>2. CASE WriteGivesUp \/ Answered \/ WaitTimesOut
    <3>1. cur \in Reqs
      BY <2>2 DEF WriteGivesUp, Answered, WaitTimesOut, TypeOK, TypeWriter
    <3> QED BY <1>3, <2>2, <3>1 DEF WriteGivesUp, Answered, WaitTimesOut, netVars
  <2>3. CASE WriteOk \/ WriteFails \/ WriterExits
    BY <1>2, <2>3 DEF WriteOk, WriteFails, WriterExits, respVars
  <2> QED BY <1>4, <2>1, <2>2, <2>3 DEF WritePump
<1>5. ASSUME NEW g \in Gens, ReadLoop(g) PROVE OwnAnswer'
  <2>1. ASSUME NEW m \in Msgs, ReadMessage(g, m) PROVE OwnAnswer'
    BY <1>1, <2>1 DEF ReadMessage, Notified, OwnAnswer, TypeOK, TypeResp
  <2> QED BY <1>2, <1>5, <2>1 DEF ReadLoop, Loop, StartDial, DialOk, DialFails, DialRejected,
                                  StartRead, ReadFails, Exit, respVars, netVars
<1>6. ASSUME NEW r \in Reqs, Caller(r) \/ Call(r) PROVE OwnAnswer'
  BY <1>2, <1>6 DEF Caller, Call, Enqueue, EnqueuePanics, GiveUp, respVars, netVars
<1>7. CASE \/ LogoutListener \/ BackgroundClose \/ GoBackground \/ GoForeground
           \/ Terminated \/ UNCHANGED vars \/ \E s \in Socks : Break(s)
  BY <1>2, <1>7 DEF LogoutListener, BackgroundClose, GoBackground, GoForeground, Terminated,
                    Break, respVars, netVars, vars
<1> QED BY <1>4, <1>5, <1>6, <1>7 DEF Next, Environment
-----------------------------------------------------------------------------
(* A step that leaves the calls and what was executed alone leaves Requests alone. *)
LEMMA Stutter ==
  ASSUME UNCHANGED <<calls, result>>
  PROVE  [r \in Reqs |-> Outcome(r)]' = [r \in Reqs |-> Outcome(r)]
  BY DEF Outcome

(* The end of a call is an answer or a failure of Requests. *)
LEMMA ReturnMaps ==
  ASSUME TypeOK, NEW r \in Reqs, NEW v, Return(r, v), UNCHANGED executed,
         calls[r] \in {"blocked", "waiting"},
         v = "error" \/ (v = r /\ r \in executed)
  PROVE  Calls!Next
<1>1. [q \in Reqs |-> Outcome(q)]' = [[q \in Reqs |-> Outcome(q)] EXCEPT ![r] = v]
  BY DEF Return, Outcome, TypeOK, TypeCalls
<1>2. [q \in Reqs |-> Outcome(q)][r] = "pending"
  BY DEF Outcome
<1> QED BY <1>1, <1>2 DEF Calls!Next, Calls!Answer, Calls!Fail

(* Every step is a step of Requests, or leaves it alone. *)
LEMMA StepMaps ==
  ASSUME TypeOK, AnswerInv, [Next]_vars
  PROVE  [Calls!Next]_<<[r \in Reqs |-> Outcome(r)], executed>>
<1> DEFINE out == [r \in Reqs |-> Outcome(r)]
<1>1. ASSUME UNCHANGED <<calls, result, executed>> PROVE UNCHANGED <<out, executed>>
  BY <1>1, Stutter
<1>2. ASSUME NEW r \in Reqs, Call(r) PROVE Calls!Next
  <2>1. out' = [out EXCEPT ![r] = "pending"] /\ out[r] = "idle" /\ UNCHANGED executed
    BY <1>2 DEF Call, Outcome, TypeOK, TypeCalls, netVars
  <2> QED BY <2>1 DEF Calls!Next, Calls!Call
<1>3. ASSUME NEW r \in Reqs, Enqueue(r) PROVE UNCHANGED <<out, executed>>
  BY <1>3 DEF Enqueue, Outcome, TypeOK, TypeCalls, netVars
<1>4. ASSUME NEW r \in Reqs, EnqueuePanics(r) \/ GiveUp(r) PROVE Calls!Next
  BY <1>4, ReturnMaps DEF EnqueuePanics, GiveUp, netVars
<1>5. CASE WritePump
  <2>0. UNCHANGED executed
    BY <1>5 DEF WritePump, TakeRequest, WriteOk, WriteFails, WriteGivesUp, Answered,
                WaitTimesOut, WriterExits, netVars
  <2>1. ASSUME NEW r \in Reqs, NEW v, Finish(r, v), v = "error" \/ (v = r /\ r \in executed)
        PROVE  Calls!Next \/ UNCHANGED <<out, executed>>
    BY <1>1, <2>0, <2>1, ReturnMaps DEF Finish, callVars
  <2>2. CASE TakeRequest
    BY <1>1, <2>0, <2>1, <2>2 DEF TakeRequest, TypeOK, TypeWriter, callVars
  <2>3. CASE WriteGivesUp \/ Answered \/ WaitTimesOut
    <3>1. cur \in Reqs
      BY <2>3 DEF WriteGivesUp, Answered, WaitTimesOut, TypeOK, TypeWriter
    <3> QED BY <2>1, <2>3, <3>1 DEF WriteGivesUp, Answered, WaitTimesOut, AnswerInv, OwnAnswer
  <2>4. CASE WriteOk \/ WriteFails \/ WriterExits
    BY <1>1, <2>0, <2>4 DEF WriteOk, WriteFails, WriterExits, callVars
  <2> QED BY <1>5, <2>2, <2>3, <2>4 DEF WritePump
<1>6. ASSUME NEW g \in Gens, ReadLoop(g) PROVE Calls!Next \/ UNCHANGED <<out, executed>>
  <2>1. UNCHANGED <<calls, result>>
    BY <1>6 DEF ReadLoop, Loop, StartDial, DialOk, DialFails, DialRejected, StartRead,
                ReadMessage, ReadFails, Exit, callVars
  <2>2. CASE UNCHANGED executed
    BY <1>1, <2>1, <2>2
  <2>3. ASSUME NEW m \in Reqs, ReadMessage(g, m) PROVE Calls!Next
    <3>1. executed' = executed \cup {m} /\ UNCHANGED out
      BY <2>1, <2>3, Stutter DEF ReadMessage
    <3>2. m \in UnderWay
      <4>1. rsock[g] \in Socks /\ m \in asked[rsock[g]]
        BY <2>3, RequestAssumption DEF ReadMessage, Sent, TypeOK, TypeNet
      <4> QED BY <4>1 DEF UnderWay
    <3>3. out[m] # "idle"
      BY <3>2, RequestAssumption DEF AnswerInv, OnlyMade, Outcome, TypeOK, TypeCalls, None
    <3> QED BY <3>1, <3>3 DEF Calls!Next, Calls!Execute
  <2>4. (\E m \in Reqs : ReadMessage(g, m)) \/ UNCHANGED executed
    BY <1>6 DEF ReadLoop, Loop, StartDial, DialOk, DialFails, DialRejected, StartRead,
                ReadMessage, ReadFails, Exit, netVars
  <2> QED BY <2>2, <2>3, <2>4
<1>7. CASE \/ LogoutListener \/ BackgroundClose \/ GoBackground \/ GoForeground
           \/ Terminated \/ UNCHANGED vars \/ \E s \in Socks : Break(s)
  BY <1>1, <1>7 DEF LogoutListener, BackgroundClose, GoBackground, GoForeground, Terminated,
                    Break, callVars, netVars, vars
<1> QED BY <1>2, <1>3, <1>4, <1>5, <1>6, <1>7 DEF Next, Environment, Caller

(***************************************************************************)
(* The callers of SendReqWaitResp see a behaviour of Requests, safety      *)
(* part: every call ends at most once, and with an error or the server's   *)
(* answer to this very request.                                            *)
(***************************************************************************)
THEOREM CallsImplemented == Spec => Calls!SafeSpec
<1>1. Init => Calls!Init
  BY DEF Init, Calls!Init, Outcome
<1>2. TypeOK /\ AnswerInv /\ [Next]_vars => AnswerInv'
  BY MadeStep, OwnStep DEF AnswerInv
<1>3. TypeOK /\ AnswerInv /\ [Next]_vars
        => [Calls!Next]_<<[r \in Reqs |-> Outcome(r)], executed>>
  BY StepMaps
<1> QED BY AnswerInit, TypeCorrect, <1>1, <1>2, <1>3, PTL DEF Spec, Calls!SafeSpec
=============================================================================
