-------------------------- MODULE SendQueueProofs --------------------------
(* Theorems about SendQueue, for any messages, workers and capacities. *)
EXTENDS SendQueue, SequenceTheorems, TLAPS

(* Every message has one of the two lanes, and no lane is None. *)
LEMMA LaneType == (\A m \in Msgs : LaneOf(m) \in Lanes) /\ None \notin Lanes
  BY DEF LaneOf, Lanes, None

(* What a step leaves alone keeps its type. *)
LEMMA TypeFrame ==
  /\ TypeTasks /\ UNCHANGED <<taskVars, status>> => TypeTasks'
  /\ TypeWriter /\ UNCHANGED <<sendCh, resp, writerVars>> => TypeWriter'
  /\ TypeLanes /\ UNCHANGED laneVars => TypeLanes'
  /\ TypeServer /\ UNCHANGED <<serverVars, sent, skipped>> => TypeServer'
<1>1. TypeTasks /\ UNCHANGED <<taskVars, status>> => TypeTasks'
  BY DEF TypeTasks, taskVars
<1>2. TypeWriter /\ UNCHANGED <<sendCh, resp, writerVars>> => TypeWriter'
  BY DEF TypeWriter, writerVars
<1>3. TypeLanes /\ UNCHANGED laneVars => TypeLanes'
  BY DEF TypeLanes, laneVars
<1>4. TypeServer /\ UNCHANGED <<serverVars, sent, skipped>> => TypeServer'
  BY DEF TypeServer, serverVars
<1> QED BY <1>1, <1>2, <1>3, <1>4

(* Initially every variable has its type. *)
LEMMA TypeInit == Init => TypeOK
<1> SUFFICES ASSUME Init PROVE TypeOK
  OBVIOUS
<1>1. TypeTasks  BY DEF Init, TypeTasks, Stages
<1>2. TypeWriter
  <2>1. sendCh \in Seq(Msgs) /\ resp \in [Msgs -> Results]
    BY DEF Init, Results
  <2> QED BY <2>1 DEF Init, TypeWriter
<1>3. TypeLanes  BY DEF Init, TypeLanes
<1>4. TypeServer BY DEF Init, TypeServer
<1> QED BY <1>1, <1>2, <1>3, <1>4 DEF TypeOK

(* The tasks' steps preserve the types. *)
LEMMA TypeTask ==
  ASSUME TypeOK, NEW m \in Msgs, Caller(m) \/ Worker(m) \/ UpdateStatus(m) \/ StartTask
  PROVE  TypeOK'
<1> USE DEF TypeOK
<1>1. UNCHANGED <<resp, writerVars, laneVars, serverVars, sent, skipped>>
  BY DEF Caller, Decorate, Enqueue, SubmitFails, Worker, InsertMessage, TaskFails, Request,
         FinishTask, CheckReceived, MarkFailed, UpdateStatus, StartTask
<1>2. TypeLanes' /\ TypeServer'
  BY <1>1, TypeFrame
<1>3. ASSUME NEW o \in BOOLEAN, Decorate(m, o) PROVE TypeTasks' /\ TypeWriter'
  <2>1. laneSeq' \in [Lanes -> Nat] /\ seq' \in [Msgs -> Nat]
    <3>1. /\ laneSeq \in [Lanes -> Nat] /\ seq \in [Msgs -> Nat]
          /\ LaneOf(m) \in Lanes /\ laneSeq[LaneOf(m)] + 1 \in Nat
      BY LaneType DEF TypeTasks
    <3>2. CASE o
      BY <1>3, <3>1, <3>2 DEF Decorate
    <3>3. CASE ~o
      BY <1>3, <3>1, <3>3 DEF Decorate
    <3> QED BY <3>2, <3>3
  <2>2. stage' \in [Msgs -> Stages]
    BY <1>3 DEF Decorate, TypeTasks, Goto, Stages
  <2>3. UNCHANGED <<queue, status, callback>>
    BY <1>3 DEF Decorate
  <2>4. TypeTasks'
    BY <2>1, <2>2, <2>3 DEF TypeTasks
  <2> QED BY <1>3, <2>4, TypeFrame DEF Decorate
<1>4. CASE Enqueue(m) \/ SubmitFails(m)
  <2>1. TypeTasks'
    <3>1. queue' \in Seq(Msgs)
      <4>1. queue \in Seq(Msgs) /\ (queue' = Append(queue, m) \/ queue' = queue)
        BY <1>4 DEF Enqueue, SubmitFails, TypeTasks
      <4> QED BY <4>1, AppendProperties
    <3>2. stage' \in [Msgs -> Stages]
      BY <1>4 DEF Enqueue, SubmitFails, TypeTasks, Goto, Stages
    <3> QED BY <1>4, <3>1, <3>2 DEF Enqueue, SubmitFails, TypeTasks, Tell
  <2> QED BY <1>2, <1>4, <2>1, TypeFrame DEF Enqueue, SubmitFails
<1>5. CASE StartTask
  <2>1. Head(queue) \in Msgs /\ Tail(queue) \in Seq(Msgs)
    BY <1>5 DEF StartTask, TypeTasks
  <2>2. TypeTasks'
    BY <1>5, <2>1 DEF StartTask, TypeTasks, Goto, Stages
  <2> QED BY <1>2, <1>5, <2>2, TypeFrame DEF StartTask
<1>6. CASE Request(m)
  <2>1. sendCh' \in Seq(Msgs)
    BY <1>6 DEF Request, TypeWriter
  <2>2. TypeWriter'
    BY <1>6, <2>1 DEF Request, TypeWriter, writerVars
  <2>3. TypeTasks'
    BY <1>6 DEF Request, TypeTasks, Goto, Stages
  <2> QED BY <1>2, <2>2, <2>3
<1>7. CASE (Worker(m) /\ ~Request(m)) \/ UpdateStatus(m)
  <2>1. TypeTasks'
    <3> USE DEF TypeTasks, Goto, Tell, Stages
    <3>1. CASE InsertMessage(m) \/ TaskFails(m)
      BY <3>1 DEF InsertMessage, TaskFails, MarkRow
    <3>2. CASE FinishTask(m) \/ CheckReceived(m)
      BY <3>2 DEF FinishTask, CheckReceived, Succeed, MarkRow
    <3>3. CASE MarkFailed(m) \/ UpdateStatus(m)
      BY <3>3 DEF MarkFailed, UpdateStatus, MarkRow
    <3> QED BY <1>7, <3>1, <3>2, <3>3 DEF Worker
  <2>2. UNCHANGED <<sendCh, resp, writerVars>>
    BY <1>7 DEF Worker, InsertMessage, TaskFails, FinishTask, CheckReceived, MarkFailed,
                UpdateStatus
  <2> QED BY <1>2, <2>1, <2>2, TypeFrame
<1> QED BY <1>2, <1>3, <1>4, <1>5, <1>6, <1>7 DEF Caller

(* The steps of writePump preserve the types. *)
LEMMA TypeWrite == TypeOK /\ Writer => TypeOK'
<1> SUFFICES ASSUME TypeOK, Writer PROVE TypeOK'
  OBVIOUS
<1> USE DEF TypeOK
<1>0. TypeTasks'
  BY TypeFrame DEF Writer, ProcessIncoming, Write, WriteFails, Answer, Respond, FlushNext,
                   FlushEnd, LaneTimeout
<1>1. CASE ProcessIncoming
  <2>1. Head(sendCh) \in Msgs /\ Tail(sendCh) \in Seq(Msgs)
    BY <1>1 DEF ProcessIncoming, NotHeld, TypeWriter
  <2>2. LaneOf(Head(sendCh)) \in Lanes
    BY <2>1, LaneType
  <2>3. TypeWriter'
    <3>1. \/ Dispatching(Head(sendCh), None)
          \/ Dispatching(Head(sendCh), LaneOf(Head(sendCh)))
          \/ UNCHANGED <<wpc, cur, lane>>
      BY <1>1 DEF ProcessIncoming, NotHeld
    <3>2. sendCh' = Tail(sendCh) /\ wpc = "select" /\ UNCHANGED <<resp, skipping>>
      BY <1>1 DEF ProcessIncoming, NotHeld
    <3> QED BY <2>1, <2>2, <3>1, <3>2 DEF TypeWriter, Dispatching
  <2>4. TypeLanes'
    <3> DEFINE m == Head(sendCh)
               l == LaneOf(m)
    <3>1. /\ expected' = expected
          /\ pending' = pending \/ pending' = [pending EXCEPT ![l] = @ \cup {m}]
          /\ \/ timer' = timer \/ timer' = [timer EXCEPT ![l] = FALSE]
             \/ timer' = [timer EXCEPT ![l] = @ \/ HasGap(l, pending[l] \cup {m})]
      BY <1>1 DEF ProcessIncoming, NotHeld, laneVars
    <3>2. timer' \in [Lanes -> BOOLEAN]
      <4>1. (timer[l] \/ HasGap(l, pending[l] \cup {m})) \in BOOLEAN
        OBVIOUS
      <4> QED BY <3>1, <4>1 DEF TypeLanes
    <3>3. pending' \in [Lanes -> SUBSET Msgs]
      BY <2>1, <2>2, <3>1 DEF TypeLanes
    <3> QED BY <3>1, <3>2, <3>3 DEF TypeLanes
  <2>5. TypeServer'
    BY <1>1, TypeFrame DEF ProcessIncoming, NotHeld
  <2> QED BY <1>0, <2>3, <2>4, <2>5
<1>2. CASE Write
  <2>1. sent' \in Seq(Msgs)
    BY <1>2 DEF Write, TypeWriter, TypeServer
  <2>2. TypeServer' /\ TypeWriter'
    BY <1>2, <2>1 DEF Write, TypeServer, TypeWriter, serverVars
  <2> QED BY <1>0, <1>2, <2>2, TypeFrame DEF Write
<1>3. ASSUME NEW r \in {"ok", "error", "timeout"}, Respond(r), wpc \in {"dispatch", "wait"}
      PROVE TypeOK'
  <2>1. TypeWriter'
    BY <1>3 DEF Respond, TypeWriter, Results
  <2>2. TypeLanes'
    BY <1>3 DEF Respond, TypeLanes, Advance
  <2>3. TypeServer'
    BY <1>3, TypeFrame DEF Respond
  <2> QED BY <1>0, <2>1, <2>2, <2>3
<1>4. ASSUME NEW m \in Msgs, FlushNext(m) PROVE TypeOK'
  <2>1. lane \in Lanes
    BY <1>4 DEF FlushNext, TypeWriter
  <2>2. TypeWriter'
    BY <1>4, <2>1, LaneType DEF FlushNext, Dispatching, TypeWriter
  <2>3. TypeLanes'
    BY <1>4, <2>1 DEF FlushNext, TypeLanes
  <2> QED BY <1>0, <1>4, <2>2, <2>3, TypeFrame DEF FlushNext
<1>5. CASE FlushEnd
  <2>1. lane \in Lanes /\ HasGap(lane, pending[lane]) \in BOOLEAN
    BY <1>5 DEF FlushEnd, TypeWriter, HasGap
  <2>2. expected' \in [Lanes -> Nat] /\ skipped' \in [Lanes -> SUBSET Nat]
    <3>1. expected \in [Lanes -> Nat] /\ skipped \in [Lanes -> SUBSET Nat]
      BY DEF TypeLanes, TypeServer
    <3>2. expected[lane] \in Nat /\ expected[lane] + 1 \in Nat
      BY <2>1, <3>1
    <3>3. CASE skipping /\ HasGap(lane, pending[lane])
      BY <1>5, <3>1, <3>2, <3>3 DEF FlushEnd, Advance
    <3>4. CASE ~(skipping /\ HasGap(lane, pending[lane]))
      BY <1>5, <3>1, <3>4 DEF FlushEnd
    <3> QED BY <3>3, <3>4
  <2>3. TypeLanes' /\ TypeServer'
    BY <1>5, <2>1, <2>2 DEF FlushEnd, TypeLanes, TypeServer, serverVars
  <2>4. TypeWriter'
    BY <1>5 DEF FlushEnd, TypeWriter
  <2> QED BY <1>0, <2>3, <2>4
<1>6. ASSUME NEW l \in Lanes, LaneTimeout(l) PROVE TypeOK'
  <2>1. expected' \in [Lanes -> Nat] /\ skipped' \in [Lanes -> SUBSET Nat]
    BY <1>6 DEF LaneTimeout, Advance, TypeLanes, TypeServer
  <2>2. TypeLanes' /\ TypeServer'
    BY <1>6, <2>1 DEF LaneTimeout, TypeLanes, TypeServer, serverVars
  <2>3. TypeWriter'
    BY <1>6, LaneType DEF LaneTimeout, TypeWriter
  <2> QED BY <1>0, <2>2, <2>3
<1> QED BY <1>1, <1>2, <1>3, <1>4, <1>5, <1>6 DEF Writer, Answer, WriteFails

(* Every step preserves the types. *)
LEMMA TypeNext == TypeOK /\ [Next]_vars => TypeOK'
<1> SUFFICES ASSUME TypeOK, [Next]_vars PROVE TypeOK'
  OBVIOUS
<1>1. CASE StartTask
  <2>1. PICK m \in Msgs : TRUE
    BY <1>1 DEF StartTask, TypeOK, TypeTasks
  <2> QED BY <1>1, TypeTask
<1>2. ASSUME NEW m \in Msgs, Server(m) PROVE TypeOK'
  <2>1. TypeServer'
    BY <1>2 DEF Server, Store, Echo, TypeOK, TypeServer
  <2>2. TypeTasks'
    BY <1>2 DEF Server, Store, Echo, TypeOK, TypeTasks, taskVars
  <2> QED BY <1>2, <2>1, <2>2, TypeFrame DEF Server, Store, Echo, TypeOK
<1>3. CASE Resting \/ UNCHANGED vars
  BY <1>3, TypeFrame DEF Resting, vars, TypeOK, writerVars, laneVars, serverVars
<1> QED BY <1>1, <1>2, <1>3, TypeTask, TypeWrite DEF Next

(* Type correctness of messageSender, its tasks and writePump's lanes. *)
THEOREM TypeCorrect == Spec => []TypeOK
  BY TypeInit, TypeNext, PTL DEF Spec
-----------------------------------------------------------------------------
(***************************************************************************)
(* GapsAreTimed speaks of the select; while writePump works on a lane, the *)
(* other lanes are as they were there.                                     *)
(***************************************************************************)
LanesTimed == \A l \in Lanes \ {lane} : pending[l] # {} => timer[l]

(* Steps outside writePump do not touch its lanes. *)
LEMMA LanesFrame ==
  ASSUME NEW m \in Msgs, Caller(m) \/ Worker(m) \/ UpdateStatus(m) \/ Server(m) \/ StartTask
  PROVE  UNCHANGED <<wpc, cur, lane, laneVars, sent, skipped>>
  BY DEF Caller, Decorate, Enqueue, SubmitFails, Worker, InsertMessage, TaskFails, Request,
         FinishTask, CheckReceived, MarkFailed, UpdateStatus, Server, Store, Echo, StartTask,
         writerVars

(* Every step preserves LanesTimed. *)
LEMMA LanesTimedNext == TypeOK /\ LanesTimed /\ [Next]_vars => LanesTimed'
<1> SUFFICES ASSUME TypeOK, LanesTimed, [Next]_vars PROVE LanesTimed'
  OBVIOUS
<1>0. /\ pending \in [Lanes -> SUBSET Msgs] /\ timer \in [Lanes -> BOOLEAN]
      /\ lane \in Lanes \cup {None} /\ sendCh \in Seq(Msgs)
      /\ wpc = "select" => lane = None
      /\ wpc = "flush" => lane \in Lanes
  BY DEF TypeOK, TypeLanes, TypeWriter
<1>1. ASSUME NEW m \in Msgs, Caller(m) \/ Worker(m) \/ UpdateStatus(m) \/ Server(m) \/ StartTask
      PROVE  LanesTimed'
  BY <1>1, LanesFrame DEF LanesTimed, laneVars
<1>2. CASE StartTask
  <2>1. PICK m \in Msgs : TRUE
    BY <1>2 DEF StartTask, TypeOK, TypeTasks
  <2> QED BY <1>1, <1>2
<1>3. CASE ProcessIncoming
  <2> DEFINE m == Head(sendCh)
             l == LaneOf(m)
  <2>1. m \in Msgs /\ l \in Lanes /\ lane = None
    BY <1>0, <1>3, LaneType DEF ProcessIncoming, NotHeld
  <2> HIDE DEF m
  <2>2. \A k \in Lanes : pending[k] # {} => timer[k]
    BY <2>1, LaneType DEF LanesTimed
  <2>3. CASE UNCHANGED laneVars
    BY <2>2, <2>3 DEF LanesTimed, laneVars
  <2>4. CASE /\ Dispatching(m, l)
             /\ timer' = [timer EXCEPT ![l] = FALSE] /\ UNCHANGED <<expected, pending>>
    BY <1>0, <2>1, <2>2, <2>4 DEF LanesTimed, Dispatching
  <2>5. CASE /\ seq[m] > expected[l]
             /\ pending' = [pending EXCEPT ![l] = @ \cup {m}]
             /\ timer' = [timer EXCEPT ![l] = @ \/ HasGap(l, pending[l] \cup {m})]
    <3>1. ASSUME NEW k \in Lanes, k # l, pending'[k] # {} PROVE timer'[k]
      BY <1>0, <2>2, <2>5, <3>1
    <3>2. timer[l] \/ HasGap(l, pending[l] \cup {m})
      <4>1. CASE pending[l] # {}
        BY <2>1, <2>2, <4>1
      <4>2. CASE pending[l] = {}
        <5>1. expected[l] \in Nat /\ seq[m] \in Nat
          BY <2>1 DEF TypeOK, TypeLanes, TypeTasks
        <5>2. seq[m] # expected[l]
          BY <2>5, <5>1
        <5> QED BY <4>2, <5>2 DEF HasGap
      <4> QED BY <4>1, <4>2
    <3>3. timer'[l] = TRUE
      BY <1>0, <2>1, <2>5, <3>2
    <3> QED BY <3>1, <3>3 DEF LanesTimed
  <2> QED BY <1>3, <2>3, <2>4, <2>5 DEF ProcessIncoming, NotHeld, m
<1>4. CASE Write \/ WriteFails \/ \E r \in {"ok", "error", "timeout"} : Answer(r)
  BY <1>4 DEF Write, WriteFails, Answer, Respond, LanesTimed, laneVars
<1>5. ASSUME NEW m \in Msgs, FlushNext(m) PROVE LanesTimed'
  BY <1>0, <1>5 DEF FlushNext, Dispatching, LanesTimed
<1>6. CASE FlushEnd
  <2>1. lane \in Lanes /\ timer' = [timer EXCEPT ![lane] = HasGap(lane, pending[lane])]
    BY <1>0, <1>6 DEF FlushEnd
  <2>2. pending' = pending /\ (pending[lane] # {} => HasGap(lane, pending[lane]))
    BY <1>6 DEF FlushEnd, HasGap
  <2>3. ASSUME NEW k \in Lanes, pending[k] # {} PROVE timer'[k]
    <3>1. CASE k = lane
      BY <1>0, <2>1, <2>2, <2>3, <3>1
    <3>2. CASE k # lane
      BY <1>0, <2>1, <2>3, <3>2 DEF LanesTimed
    <3> QED BY <3>1, <3>2
  <2> QED BY <2>2, <2>3 DEF LanesTimed
<1>7. ASSUME NEW l \in Lanes, LaneTimeout(l) PROVE LanesTimed'
  BY <1>0, <1>7, LaneType DEF LaneTimeout, LanesTimed
<1>8. CASE Resting \/ UNCHANGED vars
  BY <1>8 DEF Resting, vars, writerVars, laneVars, LanesTimed
<1> QED BY <1>1, <1>2, <1>3, <1>4, <1>5, <1>6, <1>7, <1>8 DEF Next, Writer

(* No message can be stranded behind a gap: the lane's timer is running. *)
THEOREM GapsTimed == Spec => []GapsAreTimed
<1>1. Init => LanesTimed
  BY DEF Init, LanesTimed
<1>2. TypeOK /\ LanesTimed => GapsAreTimed
  BY LaneType DEF TypeOK, TypeWriter, LanesTimed, GapsAreTimed
<1> QED BY TypeCorrect, <1>1, LanesTimedNext, <1>2, PTL DEF Spec
-----------------------------------------------------------------------------
(***************************************************************************)
(* The order of a lane.  Four facts make it inductive: every message is in *)
(* one place at a time, the numbers of a lane are distinct and are given   *)
(* in turn, what writePump holds is what it still expects, and whatever is *)
(* behind the number it expects has been written, or was given up.         *)
(***************************************************************************)

(* A task that has handed over its request, or ended. *)
Handed == {"requested", "checking", "failing", "updating", "done"}

(* writePump has a message in hand. *)
Holding == wpc \in {"dispatch", "wait"}

(* One place at a time. *)
QueuedOnce ==
  /\ \A i \in 1..Len(queue) : stage[queue[i]] = "queued"
  /\ \A i, j \in 1..Len(queue) : i # j => queue[i] # queue[j]
SendingOnce ==
  /\ \A i \in 1..Len(sendCh) :
       /\ stage[sendCh[i]] \in Handed
       /\ \A l \in Lanes : sendCh[i] \notin pending[l]
       /\ Holding => sendCh[i] # cur
  /\ \A i, j \in 1..Len(sendCh) : i # j => sendCh[i] # sendCh[j]
HeldOnce ==
  /\ \A l \in Lanes : \A m \in pending[l] :
       stage[m] \in Handed /\ LaneOf(m) = l /\ (Holding => m # cur)
  /\ Holding => stage[cur] \in Handed
  /\ \A i \in 1..Len(sent) : stage[sent[i]] \in Handed

(* Distinct numbers, given in turn. *)
Numbered ==
  /\ \A m \in Msgs : stage[m] = "new" => seq[m] = 0
  /\ \A m \in Msgs : seq[m] <= laneSeq[LaneOf(m)]
  /\ \A m, n \in Msgs : m # n /\ LaneOf(m) = LaneOf(n) /\ seq[m] = seq[n] => seq[m] = 0
  /\ \A l \in Lanes : 1 <= expected[l] /\ expected[l] <= laneSeq[l] + 1

(* What writePump holds. *)
PendingAhead ==
  \A l \in Lanes :
    /\ \A m \in pending[l] : expected[l] <= seq[m] /\ (l # lane => expected[l] < seq[m])
    /\ timer[l] => pending[l] # {}
CurrentIsExpected ==
  /\ Holding /\ lane # None => LaneOf(cur) = lane /\ seq[cur] = expected[lane]
  /\ Holding /\ lane = None =>
       \/ seq[cur] = 0
       \/ seq[cur] < expected[LaneOf(cur)] /\ seq[cur] \in skipped[LaneOf(cur)]

(* What is behind the number that is expected. *)
LateIsSkipped ==
  \A m \in Msgs :
    /\ stage[m] \notin Handed \/ \E i \in 1..Len(sendCh) : sendCh[i] = m
    /\ 0 < seq[m] /\ seq[m] < expected[LaneOf(m)]
    => seq[m] \in skipped[LaneOf(m)]
SentBehind ==
  \A i \in 1..Len(sent) :
    \/ seq[sent[i]] < expected[LaneOf(sent[i])]
    \/ wpc = "wait" /\ lane # None /\ sent[i] = cur

OrderInv ==
  /\ QueuedOnce /\ SendingOnce /\ HeldOnce /\ Numbered
  /\ PendingAhead /\ CurrentIsExpected /\ LateIsSkipped /\ SentBehind /\ SentInLaneOrder

(* What the order depends on. *)
orderVars == <<stage, laneSeq, seq, queue, sendCh, wpc, cur, lane, laneVars, sent, skipped>>

(* A step that changes nothing of it preserves it. *)
LEMMA OrderFrame == OrderInv /\ UNCHANGED orderVars => OrderInv'
  BY DEF OrderInv, orderVars, laneVars, Holding, QueuedOnce, SendingOnce, HeldOnce, Numbered,
         PendingAhead, CurrentIsExpected, LateIsSkipped, SentBehind, SentInLaneOrder

(* Initially no message has a number, and nothing is anywhere. *)
LEMMA OrderInit == Init => OrderInv
<1> SUFFICES ASSUME Init PROVE OrderInv
  OBVIOUS
<1>1. Len(queue) = 0 /\ Len(sendCh) = 0 /\ Len(sent) = 0
  BY DEF Init
<1>2. QueuedOnce /\ SendingOnce /\ HeldOnce
  BY <1>1 DEF Init, QueuedOnce, SendingOnce, HeldOnce, Holding
<1>3. Numbered
  BY LaneType DEF Init, Numbered
<1>4. PendingAhead /\ CurrentIsExpected /\ LateIsSkipped /\ SentBehind /\ SentInLaneOrder
  BY <1>1 DEF Init, PendingAhead, CurrentIsExpected, Holding, LateIsSkipped, SentBehind,
              SentInLaneOrder
<1> QED BY <1>2, <1>3, <1>4 DEF OrderInv

(* A call that goes on without a new number disturbs nothing that writePump has. *)
LEMMA OrderStage ==
  ASSUME TypeOK, OrderInv, NEW m \in Msgs, NEW s \in Stages \ {"new"}, Goto(m, s),
         stage[m] \in Handed => s \in Handed,
         UNCHANGED <<laneSeq, seq, wpc, cur, lane, laneVars, sent, skipped>>
  PROVE  /\ HeldOnce' /\ Numbered' /\ PendingAhead' /\ CurrentIsExpected' /\ SentBehind'
         /\ SentInLaneOrder'
         /\ UNCHANGED queue /\ stage[m] # "queued" => QueuedOnce'
         /\ UNCHANGED sendCh => SendingOnce' /\ LateIsSkipped'
<1>1. stage \in [Msgs -> Stages] /\ sendCh \in Seq(Msgs) /\ sent \in Seq(Msgs) /\ queue \in Seq(Msgs)
  BY DEF TypeOK, TypeTasks, TypeWriter, TypeServer
<1>2. \A n \in Msgs : /\ stage[n] \in Handed => stage'[n] \in Handed
                      /\ stage'[n] = "new" => stage[n] = "new"
                      /\ n # m => stage'[n] = stage[n]
  BY <1>1 DEF Goto
<1>3. HeldOnce'
  <2>1. \A l \in Lanes : pending[l] \subseteq Msgs
    BY DEF TypeOK, TypeLanes
  <2>2. Holding => cur \in Msgs
    BY DEF Holding, TypeOK, TypeWriter
  <2> QED BY <1>1, <1>2, <2>1, <2>2 DEF OrderInv, HeldOnce, Holding, laneVars
<1>4. Numbered'
  BY <1>2 DEF OrderInv, Numbered, laneVars
<1>5. PendingAhead' /\ CurrentIsExpected' /\ SentBehind' /\ SentInLaneOrder'
  BY DEF OrderInv, PendingAhead, CurrentIsExpected, Holding, SentBehind, SentInLaneOrder, laneVars
<1>6. UNCHANGED queue /\ stage[m] # "queued" => QueuedOnce'
  BY <1>1, <1>2 DEF OrderInv, QueuedOnce
<1>7. UNCHANGED sendCh => SendingOnce' /\ LateIsSkipped'
  BY <1>1, <1>2 DEF OrderInv, SendingOnce, LateIsSkipped, Holding, laneVars
<1> QED BY <1>3, <1>4, <1>5, <1>6, <1>7

(* A new number is the next of its lane, and ahead of what writePump expects. *)
LEMMA OrderDecorate ==
  ASSUME TypeOK, OrderInv, NEW m \in Msgs, NEW o \in BOOLEAN, Decorate(m, o)
  PROVE  OrderInv'
<1>1. /\ stage \in [Msgs -> Stages] /\ sendCh \in Seq(Msgs) /\ sent \in Seq(Msgs)
      /\ queue \in Seq(Msgs) /\ seq \in [Msgs -> Nat] /\ laneSeq \in [Lanes -> Nat]
      /\ expected \in [Lanes -> Nat] /\ pending \in [Lanes -> SUBSET Msgs]
      /\ Holding => cur \in Msgs
  BY DEF TypeOK, TypeTasks, TypeWriter, TypeServer, TypeLanes, Holding
<1>2. /\ stage[m] = "new" /\ stage' = [stage EXCEPT ![m] = "decorated"] /\ LaneOf(m) \in Lanes
      /\ UNCHANGED <<queue, sendCh, wpc, cur, lane, expected, pending, timer, sent, skipped>>
  BY LaneType DEF Decorate, Goto, writerVars, laneVars
<1>3. \/ UNCHANGED <<laneSeq, seq>>
      \/ /\ laneSeq' = [laneSeq EXCEPT ![LaneOf(m)] = @ + 1]
         /\ seq' = [seq EXCEPT ![m] = laneSeq[LaneOf(m)] + 1]
  BY DEF Decorate
<1>4. \A n \in Msgs : n # m => stage'[n] = stage[n] /\ seq'[n] = seq[n]
  BY <1>1, <1>2, <1>3
<1>5. \A n \in Msgs : stage[n] \in Handed => n # m /\ stage'[n] \in Handed /\ seq'[n] = seq[n]
  BY <1>2, <1>4 DEF Handed
<1>6. QueuedOnce'
  BY <1>1, <1>2, <1>4 DEF OrderInv, QueuedOnce
<1>7. SendingOnce' /\ HeldOnce'
  BY <1>1, <1>2, <1>5 DEF OrderInv, SendingOnce, HeldOnce, Holding
<1>8. Numbered'
  <2>1. CASE UNCHANGED <<laneSeq, seq>>
    BY <1>1, <1>2, <2>1 DEF OrderInv, Numbered
  <2>2. CASE /\ laneSeq' = [laneSeq EXCEPT ![LaneOf(m)] = @ + 1]
             /\ seq' = [seq EXCEPT ![m] = laneSeq[LaneOf(m)] + 1]
    <3>1. \A l \in Lanes : laneSeq[l] <= laneSeq'[l]
      BY <1>1, <2>2
    <3>2. \A n \in Msgs : n # m => seq'[n] = seq[n] /\ seq[n] <= laneSeq[LaneOf(n)] /\ seq[n] \in Nat
      BY <1>1, <2>2 DEF OrderInv, Numbered
    <3>3. seq'[m] = laneSeq[LaneOf(m)] + 1 /\ laneSeq'[LaneOf(m)] = laneSeq[LaneOf(m)] + 1
      BY <1>1, <1>2, <2>2
    <3>4. \A n \in Msgs : LaneOf(n) \in Lanes /\ laneSeq[LaneOf(n)] \in Nat /\ laneSeq'[LaneOf(n)] \in Nat
      BY <1>1, <2>2, LaneType
    <3>5. \A n \in Msgs : stage'[n] = "new" => seq'[n] = 0
      BY <1>1, <1>2, <3>2 DEF OrderInv, Numbered
    <3>6. \A n \in Msgs : seq'[n] <= laneSeq'[LaneOf(n)]
      BY <3>1, <3>2, <3>3, <3>4
    <3>7. \A n, k \in Msgs : n # k /\ LaneOf(n) = LaneOf(k) /\ seq'[n] = seq'[k] => seq'[n] = 0
      <4>1. SUFFICES ASSUME NEW n \in Msgs, NEW k \in Msgs, n # k, LaneOf(n) = LaneOf(k),
                            seq'[n] = seq'[k]
                     PROVE  seq'[n] = 0
        OBVIOUS
      <4>2. n # m /\ k # m
        BY <3>2, <3>3, <3>4, <4>1
      <4> QED BY <3>2, <4>1, <4>2 DEF OrderInv, Numbered
    <3>8. \A l \in Lanes : 1 <= expected'[l] /\ expected'[l] <= laneSeq'[l] + 1
      BY <1>1, <1>2, <2>2, <3>1 DEF OrderInv, Numbered
    <3> QED BY <3>5, <3>6, <3>7, <3>8 DEF Numbered
  <2> QED BY <1>3, <2>1, <2>2
<1>9. PendingAhead'
  <2>1. \A l \in Lanes : \A n \in pending[l] : seq'[n] = seq[n]
    BY <1>1, <1>5 DEF OrderInv, HeldOnce
  <2> QED BY <1>2, <2>1 DEF OrderInv, PendingAhead
<1>10. CurrentIsExpected'
  BY <1>1, <1>2, <1>5 DEF OrderInv, HeldOnce, CurrentIsExpected, Holding
<1>11. LateIsSkipped'
  <2>1. expected[LaneOf(m)] <= laneSeq[LaneOf(m)] + 1 /\ seq[m] = 0
    BY <1>2 DEF OrderInv, Numbered
  <2>2. ~(0 < seq'[m] /\ seq'[m] < expected[LaneOf(m)])
    BY <1>1, <1>2, <1>3, <2>1
  <2> QED BY <1>2, <1>4, <2>2 DEF OrderInv, LateIsSkipped
<1>12. SentBehind' /\ SentInLaneOrder'
  <2>1. \A i \in 1..Len(sent) : sent[i] \in Msgs /\ seq'[sent[i]] = seq[sent[i]]
    BY <1>1, <1>5 DEF OrderInv, HeldOnce
  <2> QED BY <1>2, <2>1 DEF OrderInv, SentBehind, SentInLaneOrder
<1> QED BY <1>6, <1>7, <1>8, <1>9, <1>10, <1>11, <1>12 DEF OrderInv

(* The other steps of the tasks. *)
LEMMA OrderTask ==
  ASSUME TypeOK, OrderInv, NEW m \in Msgs,
         Enqueue(m) \/ SubmitFails(m) \/ Worker(m) \/ UpdateStatus(m) \/ StartTask
  PROVE  OrderInv'
<1>1. /\ stage \in [Msgs -> Stages] /\ sendCh \in Seq(Msgs) /\ queue \in Seq(Msgs)
  BY DEF TypeOK, TypeTasks, TypeWriter
<1>2. UNCHANGED <<laneSeq, seq, wpc, cur, lane, laneVars, sent, skipped>>
  BY DEF Enqueue, SubmitFails, Worker, InsertMessage, TaskFails, Request, FinishTask, Succeed,
         CheckReceived, MarkFailed, UpdateStatus, StartTask, writerVars
<1>3. CASE Enqueue(m)
  <2>1. Goto(m, "queued") /\ queue' = Append(queue, m) /\ sendCh' = sendCh /\ stage[m] = "decorated"
    BY <1>3 DEF Enqueue
  <2>2. QueuedOnce'
    <3>1. Len(queue') = Len(queue) + 1 /\ queue'[Len(queue) + 1] = m
      BY <1>1, <2>1
    <3>2. \A i \in 1..Len(queue) : queue'[i] = queue[i] /\ queue[i] # m /\ queue[i] \in Msgs
      BY <1>1, <2>1 DEF OrderInv, QueuedOnce
    <3> QED BY <1>1, <2>1, <3>1, <3>2 DEF OrderInv, QueuedOnce, Goto
  <2> QED BY <1>2, <2>1, <2>2, OrderStage DEF OrderInv, Handed, Stages
<1>4. CASE SubmitFails(m) \/ (Worker(m) /\ ~Request(m)) \/ UpdateStatus(m)
  <2>1. UNCHANGED <<queue, sendCh>> /\ stage[m] # "queued"
    BY <1>4 DEF SubmitFails, Worker, InsertMessage, TaskFails, FinishTask, CheckReceived,
                MarkFailed, UpdateStatus
  <2>2. PICK s \in Stages \ {"new"} : Goto(m, s) /\ (stage[m] \in Handed => s \in Handed)
    BY <1>4 DEF SubmitFails, Worker, InsertMessage, TaskFails, FinishTask, Succeed,
                CheckReceived, MarkFailed, UpdateStatus, Handed, Stages
  <2> QED BY <1>2, <2>1, <2>2, OrderStage DEF OrderInv
<1>5. CASE StartTask
  <2> DEFINE h == Head(queue)
  <2>1. h \in Msgs /\ Goto(h, "running") /\ queue' = Tail(queue) /\ sendCh' = sendCh
        /\ queue # <<>> /\ stage[h] = "queued"
    BY <1>1, <1>5 DEF StartTask, OrderInv, QueuedOnce
  <2>2. QueuedOnce'
    <3>1. /\ Len(queue') = Len(queue) - 1
          /\ \A i \in 1..Len(queue') : queue'[i] = queue[i + 1] /\ i + 1 \in 1..Len(queue)
      BY <1>1, <2>1
    <3>2. \A i \in 1..Len(queue') : queue'[i] # h /\ queue'[i] \in Msgs
      BY <1>1, <2>1, <3>1 DEF OrderInv, QueuedOnce
    <3> QED BY <1>1, <2>1, <3>1, <3>2 DEF OrderInv, QueuedOnce, Goto
  <2> QED BY <1>2, <2>1, <2>2, OrderStage DEF OrderInv, Handed, Stages
<1>6. CASE Request(m)
  <2>1. /\ Goto(m, "requested") /\ sendCh' = Append(sendCh, m) /\ queue' = queue
        /\ stage[m] = "stored"
    BY <1>6 DEF Request
  <2>2. /\ Len(sendCh') = Len(sendCh) + 1 /\ sendCh'[Len(sendCh) + 1] = m
        /\ \A i \in 1..Len(sendCh) : sendCh'[i] = sendCh[i] /\ sendCh[i] # m /\ sendCh[i] \in Msgs
    BY <1>1, <2>1 DEF OrderInv, SendingOnce, Handed
  <2>3. \A n \in Msgs : n # m => stage'[n] = stage[n]
    BY <1>1, <2>1 DEF Goto
  <2>4. stage'[m] = "requested"
    BY <1>1, <2>1 DEF Goto
  <2>5. SendingOnce'
    <3>1. (\A l \in Lanes : m \notin pending[l]) /\ (Holding => m # cur)
      BY <2>1 DEF OrderInv, HeldOnce, Handed
    <3> QED BY <1>2, <2>2, <2>3, <2>4, <3>1 DEF OrderInv, SendingOnce, Handed, Holding, laneVars
  <2>6. LateIsSkipped'
    BY <1>2, <2>1, <2>2, <2>3, <2>4 DEF OrderInv, LateIsSkipped, Handed, laneVars
  <2> QED BY <1>2, <2>1, <2>5, <2>6, OrderStage DEF OrderInv, Handed, Stages
<1> QED BY <1>3, <1>4, <1>5, <1>6

(* Types that the proofs about writePump use. *)
LEMMA OrderTypes ==
  ASSUME TypeOK
  PROVE  /\ stage \in [Msgs -> Stages] /\ seq \in [Msgs -> Nat] /\ laneSeq \in [Lanes -> Nat]
         /\ sendCh \in Seq(Msgs) /\ sent \in Seq(Msgs) /\ expected \in [Lanes -> Nat]
         /\ pending \in [Lanes -> SUBSET Msgs] /\ timer \in [Lanes -> BOOLEAN]
         /\ skipped \in [Lanes -> SUBSET Nat]
         /\ Holding => cur \in Msgs
         /\ lane \in Lanes \cup {None}
  BY DEF TypeOK, TypeTasks, TypeWriter, TypeServer, TypeLanes, Holding

(* A message that is taken from the channel is dispatched or held back. *)
LEMMA OrderIncoming == TypeOK /\ OrderInv /\ ProcessIncoming => OrderInv'
<1> SUFFICES ASSUME TypeOK, OrderInv, ProcessIncoming PROVE OrderInv'
  OBVIOUS
<1> DEFINE m == Head(sendCh)
           l == LaneOf(m)
<1>1. /\ wpc = "select" /\ sendCh # <<>> /\ sendCh' = Tail(sendCh) /\ lane = None
      /\ UNCHANGED <<stage, laneSeq, seq, queue, sent, skipped, expected>>
  BY DEF ProcessIncoming, taskVars, laneVars, TypeOK, TypeWriter
<1>2. m \in Msgs /\ l \in Lanes /\ None \notin Lanes /\ m = sendCh[1] /\ 1 \in 1..Len(sendCh)
  BY <1>1, OrderTypes, LaneType
<1>3. /\ Len(sendCh') = Len(sendCh) - 1 /\ Len(sendCh') \in Nat
      /\ \A i \in 1..Len(sendCh') : /\ sendCh'[i] = sendCh[i + 1] /\ i + 1 \in 1..Len(sendCh)
                                    /\ i + 1 # 1
  BY <1>1, OrderTypes
<1>4. \A i \in 1..Len(sendCh') : sendCh'[i] # m
  BY <1>2, <1>3 DEF OrderInv, SendingOnce
<1>5. \/ /\ NotHeld(m, l) /\ Dispatching(m, None) /\ UNCHANGED <<pending, timer>>
      \/ /\ seq[m] # 0 /\ seq[m] = expected[l] /\ Dispatching(m, l)
         /\ timer' = [timer EXCEPT ![l] = FALSE] /\ UNCHANGED pending
      \/ /\ seq[m] > expected[l]
         /\ pending' = [pending EXCEPT ![l] = @ \cup {m}]
         /\ timer' = [timer EXCEPT ![l] = @ \/ HasGap(l, pending[l] \cup {m})]
         /\ UNCHANGED <<wpc, cur, lane>>
  BY DEF ProcessIncoming, laneVars
<1>6. stage[m] \in Handed /\ \A k \in Lanes : m \notin pending[k]
  BY <1>2 DEF OrderInv, SendingOnce
<1>7. \A k \in Lanes : \A n \in pending'[k] : n \in pending[k] \/ (n = m /\ k = l)
  BY <1>2, <1>5, OrderTypes
<1>8. Holding' => cur' = m /\ \A k \in Lanes : pending'[k] = pending[k]
  BY <1>1, <1>5 DEF Holding, Dispatching
<1> HIDE DEF m
<1>9. QueuedOnce' /\ Numbered'
  BY <1>1 DEF OrderInv, QueuedOnce, Numbered
<1>10. SendingOnce'
  <2>1. ASSUME NEW i \in 1..Len(sendCh'), NEW k \in Lanes
        PROVE  sendCh'[i] \notin pending'[k] /\ stage'[sendCh'[i]] \in Handed
    BY <1>1, <1>3, <1>4, <1>7 DEF OrderInv, SendingOnce
  <2>2. \A i, j \in 1..Len(sendCh') : i # j => sendCh'[i] # sendCh'[j]
    <3>1. SUFFICES ASSUME NEW i \in 1..Len(sendCh'), NEW j \in 1..Len(sendCh'), i # j
                   PROVE  sendCh'[i] # sendCh'[j]
      OBVIOUS
    <3>2. i + 1 # j + 1
      BY <1>3, <3>1
    <3> QED BY <1>3, <3>1, <3>2 DEF OrderInv, SendingOnce
  <2> QED BY <1>2, <1>4, <1>8, <2>1, <2>2 DEF SendingOnce
<1>11. HeldOnce'
  <2>1. \A k \in Lanes : \A n \in pending'[k] : stage'[n] \in Handed /\ LaneOf(n) = k
    BY <1>1, <1>6, <1>7 DEF OrderInv, HeldOnce
  <2>2. Holding' => \A k \in Lanes : \A n \in pending'[k] : n # cur'
    BY <1>6, <1>8
  <2> QED BY <1>1, <1>6, <1>8, <2>1, <2>2 DEF OrderInv, HeldOnce
<1>12. PendingAhead'
  <2>1. \A k \in Lanes : \A n \in pending[k] : expected[k] < seq[n]
    BY <1>1, <1>2 DEF OrderInv, PendingAhead
  <2>2. \A k \in Lanes : \A n \in pending'[k] : expected[k] < seq[n]
    <3>1. CASE UNCHANGED pending
      BY <2>1, <3>1
    <3>2. CASE seq[m] > expected[l]
      <4>1. expected[l] < seq[m]
        BY <1>2, <3>2, OrderTypes
      <4> QED BY <1>7, <2>1, <4>1
    <3> QED BY <1>5, <3>1, <3>2
  <2>3. \A k \in Lanes : timer'[k] => pending'[k] # {}
    <3>1. CASE UNCHANGED <<pending, timer>>
      BY <3>1 DEF OrderInv, PendingAhead
    <3>2. CASE timer' = [timer EXCEPT ![l] = FALSE] /\ UNCHANGED pending
      BY <3>2, OrderTypes DEF OrderInv, PendingAhead
    <3>3. CASE /\ pending' = [pending EXCEPT ![l] = @ \cup {m}]
               /\ timer' = [timer EXCEPT ![l] = @ \/ HasGap(l, pending[l] \cup {m})]
      BY <1>2, <3>3, OrderTypes DEF OrderInv, PendingAhead
    <3> QED BY <1>5, <3>1, <3>2, <3>3
  <2>4. \A k \in Lanes : \A n \in pending'[k] : expected[k] <= seq[n]
    BY <1>1, <2>2, <1>7, <1>2, OrderTypes
  <2> QED BY <1>1, <2>2, <2>3, <2>4 DEF PendingAhead
<1>13. CurrentIsExpected'
  <2>1. CASE NotHeld(m, l) /\ Dispatching(m, None)
    <3>1. stage[m] \in Handed /\ \E i \in 1..Len(sendCh) : sendCh[i] = m
      BY <1>2, <1>6
    <3>2. seq[m] = 0 \/ (seq[m] < expected[l] /\ seq[m] \in skipped[l])
      BY <1>2, <2>1, <3>1, OrderTypes DEF NotHeld, OrderInv, LateIsSkipped
    <3> QED BY <1>1, <2>1, <3>2 DEF CurrentIsExpected, Dispatching
  <2>2. CASE seq[m] = expected[l] /\ Dispatching(m, l)
    BY <1>1, <1>2, <2>2 DEF CurrentIsExpected, Dispatching
  <2>3. CASE UNCHANGED <<wpc, cur, lane>>
    BY <1>1, <2>3 DEF CurrentIsExpected, Holding
  <2> QED BY <1>5, <2>1, <2>2, <2>3
<1>14. LateIsSkipped'
  BY <1>1, <1>3 DEF OrderInv, LateIsSkipped
<1>15. SentBehind' /\ SentInLaneOrder'
  BY <1>1 DEF OrderInv, SentBehind, SentInLaneOrder
<1> QED BY <1>9, <1>10, <1>11, <1>12, <1>13, <1>14, <1>15 DEF OrderInv

(* The message that is written is the expected one of its lane, or its number was given up. *)
LEMMA OrderWrite == TypeOK /\ OrderInv /\ Write => OrderInv'
<1> SUFFICES ASSUME TypeOK, OrderInv, Write PROVE OrderInv'
  OBVIOUS
<1>1. /\ wpc = "dispatch" /\ wpc' = "wait" /\ sent' = Append(sent, cur)
      /\ UNCHANGED <<stage, laneSeq, seq, queue, sendCh, cur, lane, expected, pending, timer, skipped>>
  BY DEF Write, taskVars, laneVars
<1>2. cur \in Msgs /\ LaneOf(cur) \in Lanes /\ Holding /\ Holding'
  BY <1>1, OrderTypes, LaneType DEF Holding
<1>3. /\ Len(sent') = Len(sent) + 1 /\ sent'[Len(sent) + 1] = cur
      /\ \A i \in 1..Len(sent) : sent'[i] = sent[i] /\ sent[i] \in Msgs
  BY <1>1, <1>2, OrderTypes
<1>4. QueuedOnce' /\ Numbered' /\ PendingAhead' /\ LateIsSkipped'
  BY <1>1 DEF OrderInv, QueuedOnce, Numbered, PendingAhead, LateIsSkipped
<1>5. SendingOnce' /\ CurrentIsExpected'
  BY <1>1, <1>2 DEF OrderInv, SendingOnce, CurrentIsExpected
<1>6. HeldOnce'
  <2>1. \A l \in Lanes : \A m \in pending'[l] :
          stage'[m] \in Handed /\ LaneOf(m) = l /\ (Holding' => m # cur')
    BY <1>1, <1>2 DEF OrderInv, HeldOnce
  <2>2. stage'[cur'] \in Handed
    BY <1>1, <1>2 DEF OrderInv, HeldOnce
  <2>3. ASSUME NEW i \in 1..Len(sent') PROVE stage'[sent'[i]] \in Handed
    <3>1. i \in 1..Len(sent) \/ i = Len(sent) + 1
      BY <1>3, OrderTypes
    <3>2. CASE i \in 1..Len(sent)
      BY <1>1, <1>3, <3>2 DEF OrderInv, HeldOnce
    <3>3. CASE i = Len(sent) + 1
      BY <1>1, <1>3, <2>2, <3>3
    <3> QED BY <3>1, <3>2, <3>3
  <2> QED BY <2>1, <2>2, <2>3 DEF HeldOnce
<1>7. \A i \in 1..Len(sent) : seq[sent[i]] < expected[LaneOf(sent[i])]
  BY <1>1 DEF OrderInv, SentBehind
<1>8. SentBehind'
  <2>1. lane = None => seq[cur] < expected[LaneOf(cur)]
    BY <1>2, OrderTypes DEF OrderInv, CurrentIsExpected, Numbered
  <2> QED BY <1>1, <1>2, <1>3, <1>7, <2>1, OrderTypes DEF SentBehind
<1>9. SentInLaneOrder'
  <2>1. ASSUME NEW i \in 1..Len(sent), LaneOf(sent[i]) = LaneOf(cur), 0 < seq[cur],
               seq[cur] < seq[sent[i]]
        PROVE  seq[cur] \in skipped[LaneOf(cur)]
    <3>1. CASE lane = None
      BY <1>2, <2>1, <3>1, OrderTypes DEF OrderInv, CurrentIsExpected
    <3>2. CASE lane # None
      <4>1. seq[cur] = expected[LaneOf(cur)]
        BY <1>2, <3>2 DEF OrderInv, CurrentIsExpected
      <4>2. sent[i] \in Msgs /\ seq[sent[i]] \in Nat /\ expected[LaneOf(cur)] \in Nat
        BY <1>2, <1>3, OrderTypes
      <4> QED BY <1>7, <2>1, <4>1, <4>2
    <3> QED BY <3>1, <3>2
  <2>2. SUFFICES ASSUME NEW i \in 1..Len(sent'), NEW j \in 1..Len(sent'), i < j,
                        LaneOf(sent'[i]) = LaneOf(sent'[j]), 0 < seq[sent'[j]],
                        seq[sent'[j]] < seq[sent'[i]]
                 PROVE  seq[sent'[j]] \in skipped[LaneOf(sent'[j])]
    BY <1>1 DEF SentInLaneOrder
  <2>3. Len(sent) \in Nat
    BY OrderTypes
  <2>4. CASE j \in 1..Len(sent)
    <3>1. i \in 1..Len(sent)
      BY <2>2, <2>3, <2>4
    <3> QED BY <1>3, <2>2, <2>4, <3>1 DEF OrderInv, SentInLaneOrder
  <2>5. CASE j = Len(sent) + 1
    <3>1. i \in 1..Len(sent)
      BY <1>3, <2>2, <2>3, <2>5
    <3> QED BY <1>3, <2>1, <2>2, <2>5, <3>1
  <2> QED BY <1>3, <2>2, <2>3, <2>4, <2>5
<1> QED BY <1>4, <1>5, <1>6, <1>8, <1>9 DEF OrderInv

(* After a dispatch from a lane the next number is expected. *)
LEMMA OrderRespond ==
  ASSUME TypeOK, OrderInv, NEW r, Holding, Respond(r)
  PROVE  OrderInv'
<1>1. UNCHANGED <<stage, laneSeq, seq, queue, sendCh, lane, pending, timer, sent, skipped>>
  BY DEF Respond, taskVars
<1>2. cur \in Msgs /\ LaneOf(cur) \in Lanes /\ ~Holding'
  BY OrderTypes, LaneType DEF Holding, Respond
<1>3. QueuedOnce' /\ SendingOnce' /\ HeldOnce' /\ CurrentIsExpected' /\ SentInLaneOrder'
  BY <1>1, <1>2 DEF OrderInv, QueuedOnce, SendingOnce, HeldOnce, CurrentIsExpected, SentInLaneOrder
<1>4. CASE lane = None
  <2>1. UNCHANGED expected /\ wpc' = "select"
    BY <1>4 DEF Respond
  <2>2. Numbered' /\ PendingAhead' /\ LateIsSkipped'
    BY <1>1, <2>1 DEF OrderInv, Numbered, PendingAhead, LateIsSkipped
  <2>3. SentBehind'
    BY <1>1, <1>4, <2>1 DEF OrderInv, SentBehind
  <2> QED BY <1>3, <2>2, <2>3 DEF OrderInv
<1>5. CASE lane # None
  <2>1. lane \in Lanes /\ LaneOf(cur) = lane /\ seq[cur] = expected[lane]
    BY <1>5, OrderTypes DEF OrderInv, CurrentIsExpected
  <2>2. expected' = [expected EXCEPT ![lane] = @ + 1]
    BY <1>5 DEF Respond, Advance
  <2>3. /\ expected'[lane] = expected[lane] + 1 /\ expected[lane] \in Nat
        /\ \A l \in Lanes : l # lane => expected'[l] = expected[l]
        /\ \A l \in Lanes : expected[l] <= expected'[l]
    BY <2>1, <2>2, OrderTypes
  <2>4. Numbered'
    <3>1. laneSeq[lane] \in Nat /\ seq[cur] <= laneSeq[lane]
      BY <1>2, <2>1, OrderTypes DEF OrderInv, Numbered
    <3>2. \A l \in Lanes : 1 <= expected[l] /\ expected[l] <= laneSeq[l] + 1
      BY DEF OrderInv, Numbered
    <3>3. 1 <= expected'[lane] /\ expected'[lane] <= laneSeq[lane] + 1
      BY <2>1, <2>3, <3>1
    <3>4. \A l \in Lanes : 1 <= expected'[l] /\ expected'[l] <= laneSeq[l] + 1
      BY <2>3, <3>2, <3>3
    <3> QED BY <1>1, <3>4 DEF OrderInv, Numbered
  <2>5. ASSUME NEW n \in Msgs, n # cur, LaneOf(n) = lane, 0 < seq[n]
        PROVE  seq[n] # expected[lane]
    BY <1>2, <2>1, <2>5 DEF OrderInv, Numbered
  <2>6. PendingAhead'
    <3>1. ASSUME NEW n \in pending[lane] PROVE expected'[lane] <= seq[n]
      <4>1. /\ n \in Msgs /\ n # cur /\ LaneOf(n) = lane /\ expected[lane] <= seq[n]
            /\ seq[n] \in Nat /\ 1 <= expected[lane]
        BY <2>1, OrderTypes DEF OrderInv, HeldOnce, PendingAhead, Numbered
      <4>2. seq[n] # expected[lane]
        BY <2>3, <2>5, <4>1
      <4> QED BY <2>3, <4>1, <4>2
    <3> QED BY <1>1, <2>3, <3>1 DEF OrderInv, PendingAhead
  <2>7. LateIsSkipped'
    <3>1. SUFFICES ASSUME NEW n \in Msgs, stage[n] \notin Handed \/ \E i \in 1..Len(sendCh) : sendCh[i] = n,
                          0 < seq[n], seq[n] < expected'[LaneOf(n)]
                   PROVE  seq[n] \in skipped[LaneOf(n)]
      BY <1>1 DEF LateIsSkipped
    <3>2. n # cur
      BY <3>1 DEF OrderInv, SendingOnce, HeldOnce
    <3>3. seq[n] < expected[LaneOf(n)]
      <4>1. CASE LaneOf(n) = lane
        <5>1. seq[n] \in Nat
          BY OrderTypes
        <5> QED BY <2>3, <2>5, <3>1, <3>2, <4>1, <5>1
      <4>2. CASE LaneOf(n) # lane
        BY <2>3, <3>1, <4>2, LaneType
      <4> QED BY <4>1, <4>2
    <3> QED BY <3>1, <3>3 DEF OrderInv, LateIsSkipped
  <2>8. SentBehind'
    <3>1. SUFFICES ASSUME NEW i \in 1..Len(sent) PROVE seq[sent[i]] < expected'[LaneOf(sent[i])]
      BY <1>1 DEF SentBehind
    <3>2. sent[i] \in Msgs /\ LaneOf(sent[i]) \in Lanes /\ seq[sent[i]] \in Nat
      BY OrderTypes, LaneType
    <3>3. CASE sent[i] = cur
      BY <2>1, <2>3, <3>3
    <3>4. CASE sent[i] # cur
      <4>1. seq[sent[i]] < expected[LaneOf(sent[i])]
        BY <3>4 DEF OrderInv, SentBehind
      <4>2. /\ expected[LaneOf(sent[i])] <= expected'[LaneOf(sent[i])]
            /\ expected[LaneOf(sent[i])] \in Nat /\ expected'[LaneOf(sent[i])] \in Nat
        BY <2>1, <2>2, <2>3, <3>2, OrderTypes
      <4> QED BY <3>2, <4>1, <4>2
    <3> QED BY <3>3, <3>4
  <2> QED BY <1>3, <2>4, <2>6, <2>7, <2>8 DEF OrderInv
<1> QED BY <1>4, <1>5

(* The next message of the lane leaves the messages that wait. *)
LEMMA OrderFlushNext == ASSUME TypeOK, OrderInv, NEW m \in Msgs, FlushNext(m) PROVE OrderInv'
<1>1. /\ wpc = "flush" /\ m \in pending[lane] /\ seq[m] = expected[lane] /\ lane' = lane
      /\ pending' = [pending EXCEPT ![lane] = @ \ {m}] /\ timer' = [timer EXCEPT ![lane] = FALSE]
      /\ wpc' = "dispatch" /\ cur' = m
      /\ UNCHANGED <<stage, laneSeq, seq, queue, sendCh, expected, sent, skipped>>
  BY DEF FlushNext, Dispatching, taskVars
<1>2. lane \in Lanes /\ lane # None /\ ~Holding
  BY <1>1, LaneType DEF TypeOK, TypeWriter, Holding
<1>3. /\ pending'[lane] = pending[lane] \ {m} /\ ~timer'[lane]
      /\ \A l \in Lanes : l # lane => pending'[l] = pending[l] /\ timer'[l] = timer[l]
  BY <1>1, <1>2, OrderTypes
<1>4. stage[m] \in Handed /\ LaneOf(m) = lane
  BY <1>1, <1>2 DEF OrderInv, HeldOnce
<1>5. \A l \in Lanes : m \notin pending'[l]
  BY <1>3, <1>4 DEF OrderInv, HeldOnce
<1>6. QueuedOnce' /\ Numbered' /\ LateIsSkipped'
  BY <1>1 DEF OrderInv, QueuedOnce, Numbered, LateIsSkipped
<1>7. SendingOnce'
  BY <1>1, <1>2, <1>3 DEF OrderInv, SendingOnce
<1>8. HeldOnce'
  BY <1>1, <1>3, <1>4, <1>5 DEF OrderInv, HeldOnce
<1>9. PendingAhead'
  BY <1>1, <1>3 DEF OrderInv, PendingAhead
<1>10. CurrentIsExpected'
  BY <1>1, <1>2, <1>4 DEF CurrentIsExpected
<1>11. SentBehind' /\ SentInLaneOrder'
  BY <1>1 DEF OrderInv, SentBehind, SentInLaneOrder
<1> QED BY <1>6, <1>7, <1>8, <1>9, <1>10, <1>11 DEF OrderInv

(***************************************************************************)
(* A number that is given up: none of the messages that wait has it, one   *)
(* of them has a later one, and it is noted among those given up.          *)
(***************************************************************************)
LEMMA OrderSkip ==
  ASSUME TypeOK, OrderInv, NEW l \in Lanes, ~Holding, ~Holding', lane \in {l, None}, lane' = l,
         pending[l] # {}, \A n \in pending[l] : seq[n] # expected[l],
         Advance(l), skipped' = [skipped EXCEPT ![l] = @ \cup {expected[l]}],
         \A k \in Lanes : timer'[k] => pending[k] # {},
         UNCHANGED <<stage, laneSeq, seq, queue, sendCh, cur, pending, sent>>
  PROVE  OrderInv'
<1>1. /\ expected'[l] = expected[l] + 1 /\ expected[l] \in Nat
      /\ \A k \in Lanes : k # l => expected'[k] = expected[k]
      /\ \A k \in Lanes : expected[k] <= expected'[k] /\ expected[k] \in Nat /\ expected'[k] \in Nat
  BY OrderTypes DEF Advance
<1>2. /\ skipped'[l] = skipped[l] \cup {expected[l]}
      /\ \A k \in Lanes : k # l => skipped'[k] = skipped[k]
      /\ \A k \in Lanes : skipped[k] \subseteq skipped'[k]
  BY OrderTypes
<1>3. \A n \in Msgs : LaneOf(n) \in Lanes /\ seq[n] \in Nat
  BY OrderTypes, LaneType
<1>4. \A n \in pending[l] : n \in Msgs /\ LaneOf(n) = l /\ expected'[l] <= seq[n]
  <2>1. SUFFICES ASSUME NEW n \in pending[l] PROVE n \in Msgs /\ LaneOf(n) = l /\ expected'[l] <= seq[n]
    OBVIOUS
  <2>2. n \in Msgs /\ LaneOf(n) = l /\ expected[l] <= seq[n] /\ seq[n] # expected[l] /\ seq[n] \in Nat
    BY OrderTypes DEF OrderInv, HeldOnce, PendingAhead
  <2> QED BY <1>1, <2>2
<1>5. QueuedOnce' /\ SendingOnce' /\ HeldOnce' /\ CurrentIsExpected'
  BY DEF OrderInv, QueuedOnce, SendingOnce, HeldOnce, CurrentIsExpected
<1>6. Numbered'
  <2>1. PICK n \in pending[l] : TRUE
    OBVIOUS
  <2>2. n \in Msgs /\ seq[n] <= laneSeq[l] /\ expected'[l] <= seq[n] /\ laneSeq[l] \in Nat /\ seq[n] \in Nat
    BY <1>4, <2>1, OrderTypes DEF OrderInv, Numbered
  <2>3. expected'[l] <= laneSeq[l] + 1 /\ 1 <= expected'[l]
    BY <1>1, <2>2
  <2>4. \A k \in Lanes : 1 <= expected'[k] /\ expected'[k] <= laneSeq[k] + 1
    BY <1>1, <2>3 DEF OrderInv, Numbered
  <2> QED BY <2>4 DEF OrderInv, Numbered
<1>7. PendingAhead'
  <2>1. \A k \in Lanes : k # l => \A n \in pending[k] : expected[k] < seq[n] /\ expected[k] <= seq[n]
    BY LaneType DEF OrderInv, PendingAhead
  <2> QED BY <1>1, <1>4, <2>1 DEF PendingAhead
<1>8. LateIsSkipped'
  <2>1. SUFFICES ASSUME NEW n \in Msgs, stage[n] \notin Handed \/ \E i \in 1..Len(sendCh) : sendCh[i] = n,
                        0 < seq[n], seq[n] < expected'[LaneOf(n)]
                 PROVE  seq[n] \in skipped'[LaneOf(n)]
    BY DEF LateIsSkipped
  <2>2. CASE seq[n] < expected[LaneOf(n)]
    BY <1>2, <1>3, <2>1, <2>2 DEF OrderInv, LateIsSkipped
  <2>3. CASE ~(seq[n] < expected[LaneOf(n)])
    <3>1. LaneOf(n) = l /\ seq[n] = expected[l]
      BY <1>1, <1>3, <2>1, <2>3
    <3> QED BY <1>2, <3>1
  <2> QED BY <2>2, <2>3
<1>9. SentBehind'
  <2>1. SUFFICES ASSUME NEW i \in 1..Len(sent) PROVE seq[sent[i]] < expected'[LaneOf(sent[i])]
    BY DEF SentBehind
  <2>2. sent[i] \in Msgs /\ seq[sent[i]] < expected[LaneOf(sent[i])]
    BY OrderTypes DEF OrderInv, SentBehind, Holding
  <2> QED BY <1>1, <1>3, <2>2
<1>10. SentInLaneOrder'
  <2>1. \A i \in 1..Len(sent) : sent[i] \in Msgs
    BY OrderTypes
  <2> QED BY <1>2, <1>3, <2>1 DEF OrderInv, SentInLaneOrder
<1> QED BY <1>5, <1>6, <1>7, <1>8, <1>9, <1>10 DEF OrderInv

(* The lane is left, or the next number is given up, too. *)
LEMMA OrderFlushEnd == TypeOK /\ OrderInv /\ FlushEnd => OrderInv'
<1> SUFFICES ASSUME TypeOK, OrderInv, FlushEnd PROVE OrderInv'
  OBVIOUS
<1>1. /\ wpc = "flush" /\ \A n \in pending[lane] : seq[n] # expected[lane]
      /\ timer' = [timer EXCEPT ![lane] = HasGap(lane, pending[lane])]
      /\ UNCHANGED <<stage, laneSeq, seq, queue, sendCh, cur, pending, sent>>
  BY DEF FlushEnd, taskVars
<1>2. lane \in Lanes /\ None \notin Lanes /\ ~Holding
  BY <1>1, LaneType DEF TypeOK, TypeWriter, Holding
<1>3. \A k \in Lanes : timer'[k] => pending[k] # {}
  BY <1>1, <1>2, OrderTypes DEF OrderInv, PendingAhead, HasGap
<1>4. CASE skipping /\ HasGap(lane, pending[lane])
  <2>1. /\ Advance(lane) /\ skipped' = [skipped EXCEPT ![lane] = @ \cup {expected[lane]}]
        /\ UNCHANGED <<wpc, lane>> /\ pending[lane] # {}
    BY <1>4 DEF FlushEnd, HasGap
  <2>2. ~Holding'
    BY <1>2, <2>1 DEF Holding
  <2> QED BY <1>1, <1>2, <1>3, <2>1, <2>2, OrderSkip
<1>5. CASE ~(skipping /\ HasGap(lane, pending[lane]))
  <2>1. wpc' = "select" /\ lane' = None /\ UNCHANGED <<expected, skipped>>
    BY <1>5 DEF FlushEnd
  <2>2. QueuedOnce' /\ SendingOnce' /\ HeldOnce' /\ Numbered' /\ CurrentIsExpected' /\ LateIsSkipped'
    BY <1>1, <2>1 DEF OrderInv, QueuedOnce, SendingOnce, HeldOnce, Numbered, CurrentIsExpected,
                      LateIsSkipped, Holding
  <2>3. PendingAhead'
    <3>1. ASSUME NEW k \in Lanes, NEW n \in pending[k] PROVE expected[k] < seq[n] /\ expected[k] <= seq[n]
      <4>1. expected[k] <= seq[n] /\ expected[k] \in Nat /\ seq[n] \in Nat
        BY OrderTypes DEF OrderInv, PendingAhead
      <4>2. k = lane => seq[n] # expected[k]
        BY <1>1
      <4>3. k # lane => expected[k] < seq[n]
        BY DEF OrderInv, PendingAhead
      <4> QED BY <4>1, <4>2, <4>3
    <3> QED BY <1>1, <1>3, <2>1, <3>1 DEF PendingAhead
  <2>4. SentBehind' /\ SentInLaneOrder'
    BY <1>1, <2>1 DEF OrderInv, SentBehind, SentInLaneOrder
  <2> QED BY <2>2, <2>3, <2>4 DEF OrderInv
<1> QED BY <1>4, <1>5

(* The timer of a lane fires: it holds messages back, all of them ahead. *)
LEMMA OrderTimeout == ASSUME TypeOK, OrderInv, NEW l \in Lanes, LaneTimeout(l) PROVE OrderInv'
<1>1. /\ wpc = "select" /\ timer[l] /\ timer' = [timer EXCEPT ![l] = FALSE] /\ Advance(l)
      /\ skipped' = [skipped EXCEPT ![l] = @ \cup {expected[l]}] /\ wpc' = "flush" /\ lane' = l
      /\ UNCHANGED <<stage, laneSeq, seq, queue, sendCh, cur, pending, sent>>
  BY DEF LaneTimeout, taskVars
<1>2. lane = None /\ None \notin Lanes /\ ~Holding /\ ~Holding'
  BY <1>1, LaneType DEF TypeOK, TypeWriter, Holding
<1>3. \A k \in Lanes : timer'[k] => pending[k] # {}
  BY <1>1, OrderTypes DEF OrderInv, PendingAhead
<1>4. \A n \in pending[l] : seq[n] # expected[l]
  <2>1. \A n \in pending[l] : expected[l] < seq[n] /\ expected[l] \in Nat /\ seq[n] \in Nat
    BY <1>2, OrderTypes DEF OrderInv, PendingAhead
  <2> QED BY <2>1
<1>5. pending[l] # {}
  BY <1>1 DEF OrderInv, PendingAhead
<1> QED BY <1>1, <1>2, <1>3, <1>4, <1>5, OrderSkip

(* Every step preserves the order. *)
LEMMA OrderNext == TypeOK /\ OrderInv /\ [Next]_vars => OrderInv'
<1> SUFFICES ASSUME TypeOK, OrderInv, [Next]_vars PROVE OrderInv'
  OBVIOUS
<1>1. ASSUME NEW m \in Msgs, Caller(m) \/ Worker(m) \/ UpdateStatus(m) PROVE OrderInv'
  BY <1>1, OrderDecorate, OrderTask DEF Caller
<1>2. CASE StartTask
  <2>1. PICK m \in Msgs : TRUE
    BY <1>2 DEF StartTask, TypeOK, TypeTasks
  <2> QED BY <1>2, OrderTask
<1>3. CASE Writer
  <2>1. CASE WriteFails \/ \E r \in {"ok", "error", "timeout"} : Answer(r)
    BY <2>1, OrderRespond DEF WriteFails, Answer, Holding
  <2> QED BY <1>3, <2>1, OrderIncoming, OrderWrite, OrderFlushNext, OrderFlushEnd, OrderTimeout
          DEF Writer
<1>4. ASSUME NEW m \in Msgs, Server(m) PROVE OrderInv'
  BY <1>4, OrderFrame DEF Server, Store, Echo, orderVars, taskVars, writerVars
<1>5. CASE Resting \/ UNCHANGED vars
  BY <1>5, OrderFrame DEF Resting, vars, orderVars, taskVars, writerVars
<1> QED BY <1>1, <1>2, <1>3, <1>4, <1>5 DEF Next

(***************************************************************************)
(* Whatever the order in which the workers hand over their requests, the   *)
(* messages of a lane are written in the order of their numbers; only one  *)
(* whose number the lane's timer has given up may come late.               *)
(***************************************************************************)
THEOREM LanesOrdered == Spec => []SentInLaneOrder
<1>1. OrderInv => SentInLaneOrder
  BY DEF OrderInv
<1> QED BY TypeCorrect, OrderInit, OrderNext, <1>1, PTL DEF Spec
=============================================================================
