------------------------------ MODULE SendQueue ------------------------------
(***************************************************************************)
(* Sending messages: from SendMessage to the callback of the application.  *)
(*                                                                         *)
(*   SendMessage -> submit -> queue -> workers -> c.send -> writePump      *)
(*                                        ^                    | dispatch  *)
(*                                        +----- response -----+           *)
(*                                                                         *)
(* messageSender (internal/conversation_msg/send_queue.go) numbers the     *)
(* messages of a lane in the order of the calls, but hands them to several *)
(* workers; writePump (internal/interaction/long_conn_mgr.go) puts them    *)
(* back into the order of their numbers, and stops waiting for a missing   *)
(* number when the lane's timer fires.  writePump handles one message at a *)
(* time: it waits for the server's response before it takes the next.      *)
(***************************************************************************)
EXTENDS Integers, Sequences, FiniteSets, SequencesExt

CONSTANTS
  Text, Media,    \* the messages to send, by lane
  Workers,        \* worker goroutines of messageSender
  QueueCap,       \* sendTaskQueueSize
  SendCap,        \* capacity of LongConnMgr.send
  Faults          \* "fail": a task ends before its request; "down": the
                  \* connection stays down; "reject": the server answers
                  \* with an error; "timeout": no answer in 10 seconds

None == "none"    \* no message, no lane

ASSUME MessageAssumption == Text \cap Media = {} /\ None \notin Text \cup Media
ASSUME SizeAssumption ==
  /\ Workers \in Nat \ {0} /\ QueueCap \in Nat \ {0} /\ SendCap \in Nat \ {0}
  /\ IsFiniteSet(Text \cup Media)
ASSUME FaultAssumption == Faults \subseteq {"fail", "down", "reject", "timeout"}

VARIABLES
  \* messageSender and its tasks
  stage,      \* [Msgs -> Stages], where the call for a message is
  laneSeq,    \* [Lanes -> Nat], textSeq and mediaSeq
  seq,        \* [Msgs -> Nat], the number decorate gave; 0: not ordered
  queue,      \* messageSender.queue
  status,     \* [Msgs -> Statuses], the message's status in the database
  callback,   \* [Msgs -> Callbacks], what the application was told
  \* LongConnMgr
  sendCh,     \* LongConnMgr.send
  resp,       \* [Msgs -> Responses], Message.Resp
  wpc,        \* where writePump is
  cur, lane,  \* the message it dispatches, the lane it flushes
  skipping,   \* handleLaneTimeout has flushed nothing yet
  expected,   \* [Lanes -> Nat], laneState.expected
  pending,    \* [Lanes -> SUBSET Msgs], laneState.pending
  timer,      \* [Lanes -> BOOLEAN], laneState.active
  \* the server, and histories
  server,     \* messages the server has stored
  echoed,     \* messages it has pushed back to this client
  sent,       \* messages in the order writePump wrote them
  skipped     \* [Lanes -> SUBSET Nat], numbers handleLaneTimeout gave up

taskVars   == <<stage, laneSeq, seq, queue, callback>>
laneVars   == <<expected, pending, timer>>
writerVars == <<wpc, cur, lane, skipping>>
serverVars == <<server, echoed>>
vars == <<taskVars, status, sendCh, resp, writerVars, laneVars, serverVars, sent, skipped>>

Msgs  == Text \cup Media
Lanes == {"text", "media"}
LaneOf(m) == IF m \in Media THEN "media" ELSE "text"

Init ==
  /\ stage = [m \in Msgs |-> "new"] /\ seq = [m \in Msgs |-> 0]
  /\ laneSeq = [l \in Lanes |-> 0] /\ queue = <<>>
  /\ status = [m \in Msgs |-> "none"] /\ callback = [m \in Msgs |-> "none"]
  /\ sendCh = <<>> /\ resp = [m \in Msgs |-> "none"]
  /\ wpc = "select" /\ cur = None /\ lane = None /\ skipping = FALSE
  /\ expected = [l \in Lanes |-> 1] /\ pending = [l \in Lanes |-> {}]
  /\ timer = [l \in Lanes |-> FALSE]
  /\ server = {} /\ echoed = {} /\ sent = <<>> /\ skipped = [l \in Lanes |-> {}]
-----------------------------------------------------------------------------
(* messageSender *)

Goto(m, s) == stage' = [stage EXCEPT ![m] = s]
Tell(m, r) == callback' = [callback EXCEPT ![m] = r]

(***************************************************************************)
(* decorate: text is always ordered, media unless it is larger than what   *)
(* the estimator finds can be sent in time.                                *)
(***************************************************************************)
Decorate(m, ordered) ==
  /\ stage[m] = "new" /\ Goto(m, "decorated")
  /\ m \in Text => ordered
  /\ IF ordered
     THEN /\ laneSeq' = [laneSeq EXCEPT ![LaneOf(m)] = @ + 1]
          /\ seq' = [seq EXCEPT ![m] = laneSeq[LaneOf(m)] + 1]
     ELSE UNCHANGED <<laneSeq, seq>>
  /\ UNCHANGED <<queue, callback, status, sendCh, resp, writerVars, laneVars,
                 serverVars, sent, skipped>>

Enqueue(m) ==
  /\ stage[m] = "decorated" /\ Goto(m, "queued")
  /\ Len(queue) < QueueCap /\ queue' = Append(queue, m)
  /\ UNCHANGED <<laneSeq, seq, callback, status, sendCh, resp, writerVars, laneVars,
                 serverVars, sent, skipped>>

(* The queue stayed full for maxSendEnqueueRetry attempts. *)
SubmitFails(m) ==
  /\ stage[m] = "decorated" /\ Goto(m, "done")
  /\ Len(queue) >= QueueCap
  /\ Tell(m, "error")
  /\ UNCHANGED <<laneSeq, seq, queue, status, sendCh, resp, writerVars, laneVars,
                 serverVars, sent, skipped>>

Busy == {m \in Msgs : stage[m] \in {"running", "stored", "requested", "checking", "failing"}}

(* A free worker takes a task; checkID comes first. *)
StartTask ==
  /\ queue # <<>> /\ Cardinality(Busy) < Workers
  /\ queue' = Tail(queue) /\ Goto(Head(queue), "running")
  /\ UNCHANGED <<laneSeq, seq, callback, status, sendCh, resp, writerVars, laneVars,
                 serverVars, sent, skipped>>

(* UpdateMessageTimeAndStatus: a row that has its number from the server is left alone. *)
MarkRow(m, s) == status' = IF m \in echoed THEN status ELSE [status EXCEPT ![m] = s]

InsertMessage(m) ==
  /\ stage[m] = "running" /\ Goto(m, "stored")
  /\ status' = [status EXCEPT ![m] = "sending"]
  /\ UNCHANGED <<laneSeq, seq, queue, callback, sendCh, resp, writerVars, laneVars,
                 serverVars, sent, skipped>>

(***************************************************************************)
(* The task ends before its request: checkID, the insert, the upload or    *)
(* the update failed.  Only a failed upload marks the message.             *)
(***************************************************************************)
TaskFails(m) ==
  /\ "fail" \in Faults
  /\ stage[m] \in {"running", "stored"} /\ Goto(m, "done")
  /\ \/ status' = status
     \/ stage[m] = "stored" /\ m \in Media /\ MarkRow(m, "failed")
  /\ Tell(m, "error")
  /\ UNCHANGED <<laneSeq, seq, queue, sendCh, resp, writerVars, laneVars, serverVars,
                 sent, skipped>>

(* SendReqWaitResp: c.send takes the request when it has room. *)
Request(m) ==
  /\ stage[m] = "stored" /\ Goto(m, "requested")
  /\ Len(sendCh) < SendCap /\ sendCh' = Append(sendCh, m)
  /\ UNCHANGED <<laneSeq, seq, queue, callback, status, resp, writerVars, laneVars,
                 serverVars, sent, skipped>>

(***************************************************************************)
(* sendMessageToServer after the response.  A success is told at once and  *)
(* stored by a goroutine.  After a timeout the database says whether the   *)
(* message has come back from the server in the meantime.                  *)
(***************************************************************************)
Succeed(m) == Goto(m, "updating") /\ Tell(m, "success")

FinishTask(m) ==
  /\ stage[m] = "requested"
  /\ \/ /\ resp[m] = "ok" /\ Succeed(m) /\ UNCHANGED status
     \/ /\ resp[m] = "error" /\ Goto(m, "done") /\ Tell(m, "error")
        /\ MarkRow(m, "failed")
     \/ /\ resp[m] = "timeout" /\ Goto(m, "checking") /\ UNCHANGED <<callback, status>>
  /\ UNCHANGED <<laneSeq, seq, queue, sendCh, resp, writerVars, laneVars, serverVars,
                 sent, skipped>>

CheckReceived(m) ==
  /\ stage[m] = "checking"
  /\ IF status[m] = "success" THEN Succeed(m)
     ELSE Goto(m, "failing") /\ UNCHANGED callback
  /\ UNCHANGED <<laneSeq, seq, queue, status, sendCh, resp, writerVars, laneVars,
                 serverVars, sent, skipped>>

(***************************************************************************)
(* The message is marked as failed.  The error returned is the inner err,  *)
(* which is nil, so runTask tells the application a success.               *)
(***************************************************************************)
MarkFailed(m) ==
  /\ stage[m] = "failing" /\ Goto(m, "done")
  /\ MarkRow(m, "failed") /\ Tell(m, "success")
  /\ UNCHANGED <<laneSeq, seq, queue, sendCh, resp, writerVars, laneVars, serverVars,
                 sent, skipped>>

UpdateStatus(m) ==
  /\ stage[m] = "updating" /\ Goto(m, "done")
  /\ MarkRow(m, "success")
  /\ UNCHANGED <<laneSeq, seq, queue, callback, sendCh, resp, writerVars, laneVars,
                 serverVars, sent, skipped>>
-----------------------------------------------------------------------------
(* writePump *)

(* Mutant: one waiting message is not taken for a gap. *)
HasGap_OffByOne(l, S) == Cardinality(S) > 1 /\ \A m \in S : seq[m] # expected[l]

(* hasGap, for lane l holding the messages S. *)
HasGap(l, S) == S # {} /\ \A m \in S : seq[m] # expected[l]

Dispatching(m, l) == wpc' = "dispatch" /\ cur' = m /\ lane' = l

(* Mutant: nothing is held back while nothing else is. *)
NotHeld_FirstGoes(m, l) == seq[m] = 0 \/ seq[m] < expected[l] \/ pending[l] = {}

NotHeld(m, l) == seq[m] = 0 \/ seq[m] < expected[l]

(***************************************************************************)
(* processIncomingMessage: a message that is not ordered, or whose number  *)
(* was given up, is dispatched at once; the expected one too, and then its *)
(* lane is flushed; a later one is kept.                                   *)
(***************************************************************************)
ProcessIncoming ==
  /\ wpc = "select" /\ sendCh # <<>> /\ sendCh' = Tail(sendCh)
  /\ LET m == Head(sendCh)
         l == LaneOf(m)
     IN \/ /\ NotHeld(m, l)
           /\ Dispatching(m, None) /\ UNCHANGED laneVars
        \/ /\ seq[m] # 0 /\ seq[m] = expected[l]
           /\ Dispatching(m, l)
           /\ timer' = [timer EXCEPT ![l] = FALSE] /\ UNCHANGED <<expected, pending>>
        \/ /\ seq[m] > expected[l]
           /\ pending' = [pending EXCEPT ![l] = @ \cup {m}]
           /\ timer' = [timer EXCEPT ![l] = @ \/ HasGap(l, pending[l] \cup {m})]
           /\ UNCHANGED <<wpc, cur, lane, expected>>
  /\ UNCHANGED <<taskVars, status, resp, skipping, serverVars, sent, skipped>>

(***************************************************************************)
(* dispatchMessage: the message is written, and the server's answer or the *)
(* timeout is handed to the worker.  A dispatched message of a lane counts *)
(* as the expected one.                                                    *)
(***************************************************************************)
Write ==
  /\ wpc = "dispatch" /\ wpc' = "wait"
  /\ sent' = Append(sent, cur)
  /\ UNCHANGED <<taskVars, status, sendCh, resp, cur, lane, skipping, laneVars,
                 serverVars, skipped>>

Advance(l) == expected' = [expected EXCEPT ![l] = @ + 1]

(* Mutant: a message without a lane is followed by a flush, too. *)
Respond_AlwaysFlush(r) ==
  /\ resp' = [resp EXCEPT ![cur] = r] /\ cur' = None
  /\ wpc' = "flush" /\ Advance(lane)
  /\ UNCHANGED <<taskVars, status, sendCh, lane, skipping, pending, timer, serverVars,
                 sent, skipped>>

Respond(r) ==
  /\ resp' = [resp EXCEPT ![cur] = r] /\ cur' = None
  /\ IF lane = None THEN wpc' = "select" /\ UNCHANGED expected
     ELSE wpc' = "flush" /\ Advance(lane)
  /\ UNCHANGED <<taskVars, status, sendCh, lane, skipping, pending, timer, serverVars,
                 sent, skipped>>

Answer(r) ==
  /\ wpc = "wait" /\ Respond(r)
  /\ \/ r = "ok" /\ cur \in server
     \/ r = "error" /\ cur \notin server /\ "reject" \in Faults
     \/ r = "timeout" /\ "timeout" \in Faults

(* writeBinaryMsgAndRetry could not write it in maxReconnectAttempts attempts. *)
WriteFails == wpc = "dispatch" /\ "down" \in Faults /\ Respond("error")

(* flushLane: the next message of the lane is there. *)
FlushNext(m) ==
  /\ wpc = "flush" /\ m \in pending[lane] /\ seq[m] = expected[lane]
  /\ pending' = [pending EXCEPT ![lane] = @ \ {m}]
  /\ timer' = [timer EXCEPT ![lane] = FALSE]
  /\ Dispatching(m, lane) /\ skipping' = FALSE
  /\ UNCHANGED <<taskVars, status, sendCh, resp, expected, serverVars, sent, skipped>>

(***************************************************************************)
(* flushLane: it is not.  The timer runs exactly while messages wait.      *)
(* handleLaneTimeout goes on to the next number if nothing was flushed.    *)
(***************************************************************************)
FlushEnd ==
  /\ wpc = "flush" /\ \A m \in pending[lane] : seq[m] # expected[lane]
  /\ timer' = [timer EXCEPT ![lane] = HasGap(lane, pending[lane])]
  /\ IF skipping /\ HasGap(lane, pending[lane])
     THEN /\ Advance(lane)
          /\ skipped' = [skipped EXCEPT ![lane] = @ \cup {expected[lane]}]
          /\ UNCHANGED <<wpc, lane, skipping>>
     ELSE /\ wpc' = "select" /\ lane' = None /\ skipping' = FALSE
          /\ UNCHANGED <<expected, skipped>>
  /\ UNCHANGED <<taskVars, status, sendCh, resp, cur, pending, serverVars, sent>>

(* handleLaneTimeout: the expected number is given up. *)
LaneTimeout(l) ==
  /\ wpc = "select" /\ timer[l]
  /\ timer' = [timer EXCEPT ![l] = FALSE]
  /\ Advance(l) /\ skipped' = [skipped EXCEPT ![l] = @ \cup {expected[l]}]
  /\ wpc' = "flush" /\ lane' = l /\ skipping' = TRUE
  /\ UNCHANGED <<taskVars, status, sendCh, resp, cur, pending, serverVars, sent>>
-----------------------------------------------------------------------------
(* The server *)

(* It stores a message it has read, before its answer or after the timeout. *)
Store(m) ==
  /\ m \in ToSet(sent) \ server /\ resp[m] # "error"
  /\ server' = server \cup {m}
  /\ UNCHANGED <<taskVars, status, sendCh, resp, writerVars, laneVars, echoed, sent, skipped>>

(***************************************************************************)
(* It pushes the message back to its sender; doMsgNew marks a message that *)
(* has no sequence number yet as sent.                                     *)
(***************************************************************************)
Echo(m) ==
  /\ m \in server \ echoed /\ echoed' = echoed \cup {m}
  /\ status' = [status EXCEPT ![m] = "success"]
  /\ UNCHANGED <<taskVars, sendCh, resp, writerVars, laneVars, server, sent, skipped>>
-----------------------------------------------------------------------------
Caller(m) == (\E ordered \in BOOLEAN : Decorate(m, ordered)) \/ Enqueue(m) \/ SubmitFails(m)

Worker(m) ==
  \/ InsertMessage(m) \/ TaskFails(m) \/ Request(m) \/ FinishTask(m)
  \/ CheckReceived(m) \/ MarkFailed(m)

Writer ==
  \/ ProcessIncoming \/ Write \/ WriteFails \/ \E r \in {"ok", "error", "timeout"} : Answer(r)
  \/ \E m \in Msgs : FlushNext(m)
  \/ FlushEnd \/ \E l \in Lanes : LaneTimeout(l)

Server(m) == Store(m) \/ Echo(m)

(* All calls are answered. *)
Resting == (\A m \in Msgs : stage[m] = "done") /\ wpc = "select" /\ UNCHANGED vars

Next ==
  \/ \E m \in Msgs : Caller(m) \/ Worker(m) \/ UpdateStatus(m) \/ Server(m)
  \/ StartTask \/ Writer \/ Resting

Spec == Init /\ [][Next]_vars

(***************************************************************************)
(* Fairness: goroutines run, the server stores what it reads, and          *)
(* writePump, which waits for its answer at most ten seconds, comes back   *)
(* to its select, where the lane timers fire.                              *)
(***************************************************************************)
LiveSpec ==
  /\ Spec /\ WF_vars(StartTask) /\ WF_vars(Writer)
  /\ \A m \in Msgs : /\ WF_vars(Enqueue(m) \/ SubmitFails(m)) /\ WF_vars(Worker(m))
                     /\ WF_vars(Store(m))
-----------------------------------------------------------------------------
(* Type correctness. *)
Stages == {"new", "decorated", "queued", "running", "stored", "requested", "checking",
           "failing", "updating", "done"}
Results == {"none", "ok", "error", "timeout"}

TypeTasks ==
  /\ stage \in [Msgs -> Stages] /\ laneSeq \in [Lanes -> Nat]
  /\ seq \in [Msgs -> Nat] /\ queue \in Seq(Msgs)
  /\ status \in [Msgs -> {"none", "sending", "failed", "success"}]
  /\ callback \in [Msgs -> {"none", "error", "success"}]
TypeWriter ==
  /\ sendCh \in Seq(Msgs) /\ resp \in [Msgs -> Results]
  /\ wpc \in {"select", "dispatch", "wait", "flush"}
  /\ wpc \in {"dispatch", "wait"} => cur \in Msgs
  /\ lane \in Lanes \cup {None}
  /\ wpc = "select" => lane = None
  /\ wpc = "flush" => lane # None
  /\ skipping \in BOOLEAN
TypeLanes ==
  /\ expected \in [Lanes -> Nat] /\ pending \in [Lanes -> SUBSET Msgs]
  /\ timer \in [Lanes -> BOOLEAN]
TypeServer ==
  /\ server \subseteq Msgs /\ echoed \subseteq server
  /\ sent \in Seq(Msgs) /\ skipped \in [Lanes -> SUBSET Nat]
TypeOK == TypeTasks /\ TypeWriter /\ TypeLanes /\ TypeServer
-----------------------------------------------------------------------------
(* Safety *)

(***************************************************************************)
(* Whenever writePump is back in its select, a lane that holds messages    *)
(* back has its timer running: no gap in the numbers (a task that failed,  *)
(* a full queue) can hold a message and its worker for ever.               *)
(***************************************************************************)
GapsAreTimed ==
  wpc = "select" => \A l \in Lanes : pending[l] # {} => timer[l]

(***************************************************************************)
(* The messages of a lane are written in the order of their numbers, that  *)
(* is of the calls, whatever the order of the workers; only a message      *)
(* whose number handleLaneTimeout has given up may be late.                *)
(***************************************************************************)
SentInLaneOrder ==
  \A i, j \in 1..Len(sent) :
     LET a == sent[i]
         b == sent[j]
     IN  i < j /\ LaneOf(a) = LaneOf(b) /\ 0 < seq[b] /\ seq[b] < seq[a]
           => seq[b] \in skipped[LaneOf(b)]

(***************************************************************************)
(* sendMessageToServer's comment: "if send message network timeout need to *)
(* double-check message has received by db".  The application is told of a *)
(* success only if the server has the message.                             *)
(***************************************************************************)
SuccessMeansReceived == \A m \in Msgs : callback[m] = "success" => m \in server

(***************************************************************************)
(* Every call is answered, although the workers, fewer than the messages,  *)
(* may all wait for a message that none of them has taken.                 *)
(***************************************************************************)
EveryCallAnswered == \A m \in Msgs : stage[m] # "new" ~> callback[m] # "none"
=============================================================================
