------------------------------- MODULE MsgSync -------------------------------
(***************************************************************************)
(* Message synchronisation of one logged-in user: how the MsgSyncer        *)
(* goroutine (internal/interaction/msg_sync.go) keeps the highest sequence *)
(* number it has synced per conversation, and what reaches the local       *)
(* database through the conversation worker.                               *)
(*                                                                         *)
(*   server log --push--> MessageBatcher --> pushCh --> MsgSyncer          *)
(*       ^                                                  | dispatch     *)
(*       +---- GetNewestSeq / PullMsgByRange ---------------+              *)
(*                                                          v              *)
(*   database <--- conversation worker (Work) <--- eventCh (bounded)       *)
(*                                                                         *)
(* A message is its sequence number in its conversation: the log of        *)
(* conversation c holds 1 .. log[c].  A message map (map[string]*PullMsgs) *)
(* is a function from conversations to sequences of such numbers; number 0 *)
(* is an online-only message, which has no place in the log.               *)
(***************************************************************************)
EXTENDS Integers, Sequences, FiniteSets, FiniteSetsExt, SequencesExt

CONSTANTS
  Regular,          \* conversations that hold chat messages
  Notif,            \* notification conversations ("n_..."): IsNotification
  InitSeq,          \* length of every log when the program starts
  MaxSeq,           \* bound: length a log may reach
  PushCap,          \* capacity of PushMsgAndMaxSeqCh
  EventCap,         \* capacity of conversationEventQueue
  MaxBatch,         \* messages the batcher's buffer may hold
  ConnectPullNums, DefaultPullNums, SplitPullMsgNum,
  MaxRetries,       \* attempts of doConnected at GetNewestSeq
  MaxOps,           \* bound: disconnections, wake-ups, manual syncs, crashes
  FreshInstall,     \* the database is empty when the program starts
  Faults            \* what the environment may do, see below

(***************************************************************************)
(* "loss"     a push is lost although the connection is up                 *)
(* "reorder"  pushes arrive late, out of order or twice                    *)
(* "online"   pushes of online-only messages (seq 0)                       *)
(* "merge"    the batcher merges pushes (more than 20 messages in 10 s)    *)
(* "fail"     a request fails although the connection is up                *)
(* "timeout"  a dispatch to a full channel gives up after its 10 seconds   *)
(* "crash"    the process dies and is started again (or logs in again)     *)
(***************************************************************************)
FaultKinds == {"loss", "reorder", "online", "merge", "fail", "timeout", "crash"}

ASSUME ConvAssumption == Regular \cap Notif = {}
ASSUME BoundAssumption ==
  /\ InitSeq \in Nat /\ MaxSeq \in Nat /\ InitSeq <= MaxSeq
  /\ PushCap \in Nat \ {0} /\ EventCap \in Nat \ {0}
  /\ MaxBatch \in Nat /\ MaxRetries \in Nat \ {0} /\ MaxOps \in Nat
  /\ ConnectPullNums \in Nat \ {0} /\ DefaultPullNums \in Nat \ {0}
  /\ SplitPullMsgNum \in Nat \ {0}
ASSUME FaultAssumption == FreshInstall \in BOOLEAN /\ Faults \subseteq FaultKinds

VARIABLES
  \* the server and the connection to it
  log,          \* [Conv -> Nat], length of each conversation's log
  pushed,       \* [Conv -> Nat], highest sequence number pushed so far
  conn,         \* the long connection is up
  \* MessageBatcher and the channel it feeds
  buffer,       \* the batch the batcher is aggregating
  flushing,     \* the batch its timer has taken and not yet dispatched
  pushCh,       \* PushMsgAndMaxSeqCh
  \* MsgSyncer
  synced,       \* syncedMaxSeqs; Absent where the Go map has no entry
  reinstalled, isSyncing,
  pc,           \* where the DoListener goroutine is
  job,          \* the command it is handling
  scope,        \* conversations whose max seq the handler asked for
  attempt,      \* failed attempts at GetNewestSeq
  push,         \* the batch being handled, what is left of it
  res,          \* "res" of pushTriggerAndSync: messages to trigger
  need,         \* needSyncSeqMap, NoRange where the Go map has no entry
  ret,          \* where to go on when need is exhausted
  outbox,       \* dispatches to eventCh the handler still has to make
  \* conversationEventQueue and the database behind its consumer
  eventCh,
  rows,         \* conversations that have a row in local_conversations
  chatLogs,     \* [Regular -> SUBSET Nat], seqs stored in the chat log table
  notifSeq,     \* [Notif -> Int], NotificationSeqs; Absent: no row
  installed,    \* LocalAppSDKVersion.Installed
  handled,      \* [Notif -> SUBSET Nat], history: notifications accounted for
  ops           \* operations counted against MaxOps

serverVars == <<log, pushed, conn>>
batchVars  == <<buffer, flushing, pushCh>>
jobVars    == <<pc, job, scope, attempt, push, res, need, ret>>
dbVars     == <<rows, chatLogs, notifSeq, installed, handled>>
vars == <<serverVars, batchVars, synced, reinstalled, isSyncing, jobVars,
          outbox, eventCh, dbVars, ops>>

Conv   == Regular \cup Notif
Absent == -1
NoMsgs == [c \in Conv |-> <<>>]
NoRange == [lo |-> 0, hi |-> -1]
AtLeast0(n) == IF n < 0 THEN 0 ELSE n     \* a missing map entry reads as 0

IsEmpty(m) == \A c \in Conv : m[c] = <<>>
Part(m, S) == [c \in Conv |-> IF c \in S THEN m[c] ELSE <<>>]
Single(c, s) == [NoMsgs EXCEPT ![c] = <<s>>]

(***************************************************************************)
(* What a command carries: messages, and a set of conversations (those     *)
(* with an online-only message in a push, those asked for in a manual      *)
(* sync).                                                                  *)
(***************************************************************************)
Batch(m, S) == [msgs |-> m, convs |-> S]
NoBatch == Batch(NoMsgs, {})
Command(k, b) == [cmd |-> k, batch |-> b]
Event(k, m) == [kind |-> k, msgs |-> m]

(* Mutant: a full channel drops the value at once. *)
SendCmdToChan_Drops(ch, cap, v) == {IF Len(ch) < cap THEN Append(ch, v) ELSE ch}

(***************************************************************************)
(* sendCmdToChan: the channel takes the value if it has room; otherwise    *)
(* the sender blocks (no result) until it has room or, with the "timeout"  *)
(* fault, gives the value up.  No caller reacts to the error.              *)
(***************************************************************************)
SendCmdToChan(ch, cap, v) ==
  IF Len(ch) < cap THEN {Append(ch, v)}
  ELSE IF "timeout" \in Faults THEN {ch} ELSE {}

(***************************************************************************)
(* triggerConversation, triggerReinstallConversation, triggerNotification: *)
(* one event when there is anything to tell.                               *)
(***************************************************************************)
Trigger(k, m) == IF IsEmpty(m) THEN <<>> ELSE <<Event(k, m)>>
-----------------------------------------------------------------------------
(***************************************************************************)
(* LoadSeq: at login the synced numbers are read from the database.        *)
(***************************************************************************)
CheckConversationNormalMsgSeq(c) ==
  LET top == {n \in chatLogs[c] : \A k \in chatLogs[c] : k <= n}
  IN  IF top = {} THEN 0 ELSE CHOOSE n \in top : TRUE

(* Mutant: conversations without a row are left out of the map. *)
LoadedSeqs_Partial ==
  [c \in rows \cup Notif |-> IF c \in Notif THEN notifSeq[c]
                            ELSE CheckConversationNormalMsgSeq(c)]

LoadedSeqs ==
  [c \in Conv |-> IF c \in Notif THEN notifSeq[c]
                  ELSE IF c \in rows THEN CheckConversationNormalMsgSeq(c)
                  ELSE Absent]
LoadedReinstalled == rows = {} /\ ~installed

Idle ==
  /\ pc' = "idle" /\ job' = "none" /\ scope' = {} /\ attempt' = 0
  /\ push' = NoBatch /\ res' = NoMsgs
  /\ need' = [c \in Conv |-> NoRange] /\ ret' = "idle"

Init ==
  /\ log = [c \in Conv |-> InitSeq] /\ pushed = log /\ conn = FALSE
  /\ buffer = NoBatch /\ flushing = NoBatch /\ pushCh = <<>>
  /\ pc = "idle" /\ job = "none" /\ scope = {} /\ attempt = 0
  /\ push = NoBatch /\ res = NoMsgs
  /\ need = [c \in Conv |-> NoRange] /\ ret = "idle"
  /\ outbox = <<>> /\ eventCh = <<>> /\ isSyncing = FALSE /\ ops = 0
  /\ rows = IF FreshInstall THEN {} ELSE Regular
  /\ chatLogs = [c \in Regular |-> IF FreshInstall THEN {} ELSE 1..InitSeq]
  /\ notifSeq = [c \in Notif |-> IF FreshInstall THEN Absent ELSE InitSeq]
  /\ handled = [c \in Notif |-> IF FreshInstall THEN {} ELSE 1..InitSeq]
  /\ installed = ~FreshInstall
  /\ synced = LoadedSeqs /\ reinstalled = LoadedReinstalled
-----------------------------------------------------------------------------
(* The server and the connection *)

Publish(c) ==
  /\ log[c] < MaxSeq
  /\ log' = [log EXCEPT ![c] = @ + 1]
  /\ UNCHANGED <<pushed, conn, batchVars, synced, reinstalled, isSyncing, jobVars,
                 outbox, eventCh, dbVars, ops>>

(***************************************************************************)
(* The messages the server may push next for conversation c.  Without      *)
(* faults a connected client is pushed the log in order.                   *)
(***************************************************************************)
Pushable(c) ==
  {s \in 0..log[c] :
     \/ s = pushed[c] + 1
     \/ "loss" \in Faults /\ s > pushed[c]
     \/ "reorder" \in Faults /\ s >= 1
     \/ "online" \in Faults /\ s = 0}

One(c, s) == IF s = 0 THEN Batch(NoMsgs, {c}) ELSE Batch(Single(c, s), {})
Push(b) == Command("PushMsg", b)

(***************************************************************************)
(* doPushMsg and MessageBatcher.Enqueue at low load: the push is           *)
(* dispatched as it is; what is buffered goes first (FlushBuffer).         *)
(***************************************************************************)
PushDirect(c, s) ==
  /\ conn /\ s \in Pushable(c) /\ buffer = NoBatch
  /\ pushed' = [pushed EXCEPT ![c] = IF s > @ THEN s ELSE @]
  /\ pushCh' \in SendCmdToChan(pushCh, PushCap, Push(One(c, s)))
  /\ UNCHANGED <<log, conn, buffer, flushing, synced, reinstalled, isSyncing,
                 jobVars, outbox, eventCh, dbVars, ops>>

(* Enqueue at high load: the push is merged into the buffer. *)
BufferedCount == MapThenSumSet(LAMBDA c : Len(buffer.msgs[c]), Conv)
Merged(c, s) == IF s = 0 THEN [buffer EXCEPT !.convs = @ \cup {c}]
                ELSE [buffer EXCEPT !.msgs[c] = Append(@, s)]

PushMerged(c, s) ==
  /\ "merge" \in Faults
  /\ conn /\ s \in Pushable(c) /\ BufferedCount < MaxBatch
  /\ pushed' = [pushed EXCEPT ![c] = IF s > @ THEN s ELSE @]
  /\ buffer' = Merged(c, s)
  /\ UNCHANGED <<log, conn, flushing, pushCh, synced, reinstalled, isSyncing, jobVars,
                 outbox, eventCh, dbVars, ops>>

(* Enqueue takes the buffer, at low load or when it is full, and dispatches it. *)
FlushBuffer ==
  /\ buffer # NoBatch
  /\ pushCh' \in SendCmdToChan(pushCh, PushCap, Push(buffer))
  /\ buffer' = NoBatch
  /\ UNCHANGED <<serverVars, flushing, synced, reinstalled, isSyncing, jobVars, outbox,
                 eventCh, dbVars, ops>>

(***************************************************************************)
(* onTimer takes the buffer under the lock and dispatches it after the     *)
(* unlock.  Bound: one timer at a time is between the two.                 *)
(***************************************************************************)
TimerFires ==
  /\ buffer # NoBatch /\ flushing = NoBatch
  /\ flushing' = buffer /\ buffer' = NoBatch
  /\ UNCHANGED <<serverVars, pushCh, synced, reinstalled, isSyncing, jobVars, outbox,
                 eventCh, dbVars, ops>>

TimerDispatches ==
  /\ flushing # NoBatch
  /\ pushCh' \in SendCmdToChan(pushCh, PushCap, Push(flushing))
  /\ flushing' = NoBatch
  /\ UNCHANGED <<serverVars, buffer, synced, reinstalled, isSyncing, jobVars, outbox,
                 eventCh, dbVars, ops>>

(***************************************************************************)
(* reConn: a connection is established and CmdConnSuccesss is dispatched.  *)
(* What was published while it was down is not pushed any more.            *)
(***************************************************************************)
Connect ==
  /\ ~conn /\ conn' = TRUE
  /\ pushed' = log
  /\ pushCh' \in SendCmdToChan(pushCh, PushCap, Command("ConnSuccess", NoBatch))
  /\ UNCHANGED <<log, buffer, flushing, synced, reinstalled, isSyncing, jobVars, outbox,
                 eventCh, dbVars, ops>>

Disconnect ==
  /\ conn /\ conn' = FALSE
  /\ ops < MaxOps /\ ops' = ops + 1
  /\ UNCHANGED <<log, pushed, batchVars, synced, reinstalled, isSyncing, jobVars,
                 outbox, eventCh, dbVars>>

(***************************************************************************)
(* setAppBackgroundStatus(false), and waitForMessageSyncSeq's              *)
(* DispatchIMSync, for a conversation that is in the database.             *)
(***************************************************************************)
UserCommand(k, S) ==
  /\ ops < MaxOps /\ ops' = ops + 1
  /\ pushCh' \in SendCmdToChan(pushCh, PushCap, Command(k, Batch(NoMsgs, S)))
  /\ UNCHANGED <<serverVars, buffer, flushing, synced, reinstalled, isSyncing, jobVars,
                 outbox, eventCh, dbVars>>
WakeUp == conn /\ UserCommand("WakeUpDataSync", {})
IMSync == \E c \in Regular \cap rows : UserCommand("IMMessageSync", {c})
-----------------------------------------------------------------------------
(* MsgSyncer: one goroutine.  It takes no step while it has to dispatch. *)

Ready(at) == pc = at /\ outbox = <<>>

Dispatch ==
  /\ outbox # <<>>
  /\ eventCh' \in SendCmdToChan(eventCh, EventCap, Head(outbox))
  /\ outbox' = Tail(outbox)
  /\ UNCHANGED <<serverVars, batchVars, synced, reinstalled, isSyncing, jobVars,
                 dbVars, ops>>

Received(k) ==
  /\ Ready("idle") /\ pushCh # <<>> /\ Head(pushCh).cmd = k
  /\ pushCh' = Tail(pushCh)
  /\ UNCHANGED <<serverVars, buffer, flushing, synced, reinstalled, eventCh, dbVars, ops>>

(* doConnected up to its GetNewestSeq request. *)
StartConnectedSync ==
  /\ Received("ConnSuccess") /\ ~isSyncing /\ isSyncing' = TRUE
  /\ pc' = "maxseq" /\ job' = "connected" /\ scope' = Conv
  /\ outbox' = <<Event(IF reinstalled THEN "AppDataSyncStart" ELSE "MsgSyncBegin", NoMsgs)>>
  /\ UNCHANGED <<attempt, push, res, need, ret>>

(* doWakeupDataSync up to its GetNewestSeq request. *)
StartWakeUpSync ==
  /\ Received("WakeUpDataSync") /\ ~isSyncing /\ isSyncing' = TRUE
  /\ pc' = "maxseq" /\ job' = "wakeup" /\ scope' = Conv
  /\ outbox' = <<Event("SyncData", NoMsgs)>>
  /\ UNCHANGED <<attempt, push, res, need, ret>>

(* startSync returned false: the connected or wake-up event is dropped. *)
IgnoreSync ==
  /\ Received("ConnSuccess") \/ Received("WakeUpDataSync")
  /\ isSyncing
  /\ UNCHANGED <<isSyncing, jobVars, outbox>>

(* startSync's goroutine ends the window after five seconds. *)
SyncWindowEnds ==
  /\ isSyncing /\ isSyncing' = FALSE
  /\ UNCHANGED <<serverVars, batchVars, synced, reinstalled, jobVars, outbox,
                 eventCh, dbVars, ops>>

(* doIMMessageSync up to its GetConvMaxReadSeq request: no startSync guard. *)
StartIMSync ==
  /\ Received("IMMessageSync")
  /\ pc' = "maxseq" /\ job' = "imsync" /\ scope' = Head(pushCh).batch.convs
  /\ UNCHANGED <<isSyncing, attempt, push, res, need, ret, outbox>>

StartPush ==
  /\ Received("PushMsg")
  /\ pc' = "msgs" /\ job' = "push" /\ push' = Head(pushCh).batch
  /\ UNCHANGED <<isSyncing, scope, attempt, res, need, ret, outbox>>

(***************************************************************************)
(* The request for the maximum sequence numbers failed.  Only doConnected  *)
(* tries again, MaxRetries times in all; its back-off (2 s + 4 s) is       *)
(* longer than the five seconds of the window startSync opened.            *)
(***************************************************************************)
RetryMaxSeq ==
  /\ Ready("maxseq") /\ job = "connected" /\ attempt + 1 < MaxRetries
  /\ ~conn \/ "fail" \in Faults
  /\ attempt' = attempt + 1
  /\ UNCHANGED <<serverVars, batchVars, synced, reinstalled, isSyncing, pc, job,
                 scope, push, res, need, ret, outbox, eventCh, dbVars, ops>>

MaxSeqFailed ==
  /\ Ready("maxseq") /\ (job # "connected" \/ (attempt + 1 >= MaxRetries /\ ~isSyncing))
  /\ ~conn \/ "fail" \in Faults
  /\ outbox' = IF job = "connected" THEN <<Event("MsgSyncFailed", NoMsgs)>> ELSE <<>>
  /\ Idle
  /\ UNCHANGED <<serverVars, batchVars, synced, reinstalled, isSyncing, eventCh,
                 dbVars, ops>>

(***************************************************************************)
(* compareSeqsAndBatchSync, up to the pulls.  After a reinstallation the   *)
(* notifications up to now are skipped: their number is taken as synced    *)
(* and stored, unless one of the rows exists (a single INSERT).            *)
(***************************************************************************)
Skipped == IF reinstalled THEN {c \in scope \cap Notif : log[c] # 0} ELSE {}

(* The range that takes a conversation from seq "from" to seq "to". *)
RangeTo(from, to) == [lo |-> from + 1, hi |-> to]

NeedsSync(c) ==
  IF synced[c] # Absent THEN log[c] > synced[c]
  ELSE log[c] # 0 \/ (reinstalled /\ c \in Regular)

CompareSeqs ==
  /\ Ready("maxseq") /\ conn
  /\ need' = [c \in Conv |-> IF c \in scope \ Skipped /\ NeedsSync(c)
                             THEN RangeTo(synced[c], log[c]) ELSE NoRange]
  /\ synced' = [c \in Conv |-> IF c \in Skipped THEN log[c] ELSE synced[c]]
  /\ notifSeq' = IF \E c \in Skipped : notifSeq[c] # Absent THEN notifSeq
                 ELSE [c \in Notif |-> IF c \in Skipped THEN log[c] ELSE notifSeq[c]]
  /\ handled' = [c \in Notif |-> IF c \in Skipped THEN handled[c] \cup 1..log[c]
                                 ELSE handled[c]]
  /\ pc' = "pull" /\ ret' = "end"
  /\ UNCHANGED <<serverVars, batchVars, reinstalled, isSyncing, job, scope, attempt,
                 push, res, outbox, eventCh, rows, chatLogs, installed, ops>>

(* Mutants: a push is accepted when it is newer, when it is anything. *)
InSequence_Newer(storage, cur) == Last(storage) > cur
InSequence_Always(storage, cur) == TRUE

(***************************************************************************)
(* pushTriggerAndSync: first for Msgs, then for NotificationMsgs.  The     *)
(* loop visits the conversations of the map in any order; an online-only   *)
(* message is triggered on its own, at once.                               *)
(***************************************************************************)
(* Mutant: a push is done with after its Msgs. *)
AfterPhase_MsgsOnly == "idle"
AfterPhase == IF pc = "msgs" THEN "notifications" ELSE "idle"

Unvisited == {c \in Conv : push.msgs[c] # <<>>} \cup push.convs
Phase == IF pc = "msgs" THEN Regular ELSE Notif
PhaseKind == IF pc = "msgs" THEN "NewMsgCome" ELSE "Notification"

InSequence(storage, cur) == Last(storage) = cur + Len(storage)

PushConversation(c) ==
  LET storage == push.msgs[c]
      lastSeq == Last(storage)
      cur     == AtLeast0(synced[c])
      accept  == storage # <<>> /\ InSequence(storage, cur)
      pull    == storage # <<>> /\ ~accept /\ lastSeq > cur
  IN /\ pc \in {"msgs", "notifications"} /\ outbox = <<>>
     /\ c \in Phase \cap Unvisited
     /\ push' = [push EXCEPT !.msgs[c] = <<>>, !.convs = @ \ {c}]
     /\ outbox' = IF c \in push.convs THEN <<Event(PhaseKind, Single(c, 0))>> ELSE <<>>
     /\ res' = IF accept THEN [res EXCEPT ![c] = storage] ELSE res
     /\ synced' = IF accept THEN [synced EXCEPT ![c] = lastSeq] ELSE synced
     /\ need' = IF pull THEN [need EXCEPT ![c] = RangeTo(cur, lastSeq)]
                ELSE need
     /\ UNCHANGED <<serverVars, batchVars, reinstalled, isSyncing, pc, job, scope,
                    attempt, ret, eventCh, dbVars, ops>>

PushTriggered ==
  /\ pc \in {"msgs", "notifications"} /\ outbox = <<>>
  /\ Phase \cap Unvisited = {}
  /\ outbox' = Trigger(PhaseKind, res)
  /\ res' = NoMsgs
  /\ pc' = "pull" /\ ret' = AfterPhase
  /\ UNCHANGED <<serverVars, batchVars, synced, reinstalled, isSyncing, job, scope,
                 attempt, push, need, eventCh, dbVars, ops>>

(***************************************************************************)
(* syncAndTriggerMsgs and syncAndTriggerReinstallMsgs: ranges are          *)
(* collected in any order until they amount to SplitPullMsgNum messages,   *)
(* then pulled.  A notification range counts in full.                      *)
(***************************************************************************)
Wanted == {c \in Conv : need[c].lo <= need[c].hi}
PullNum == IF job = "connected" THEN ConnectPullNums ELSE DefaultPullNums

Cost(c) ==
  LET n == need[c].hi - need[c].lo + 1
  IN  IF c \in Notif \/ n < PullNum THEN n ELSE PullNum
TotalCost(B) == MapThenSumSet(Cost, B)

IsBatch(B) ==
  /\ B # {} /\ B \subseteq Wanted
  /\ \/ B = Wanted /\ TotalCost(B) < SplitPullMsgNum
     \/ /\ TotalCost(B) >= SplitPullMsgNum
        /\ \E c \in B : TotalCost(B \ {c}) < SplitPullMsgNum

(***************************************************************************)
(* The server's answer to PullMsgByRange: a notification range in full,    *)
(* of a regular conversation the last PullNum messages of the range.       *)
(***************************************************************************)
PullMsgByRange(c) ==
  LET first == IF c \in Regular /\ need[c].hi - PullNum >= need[c].lo
               THEN need[c].hi - PullNum + 1 ELSE need[c].lo
      lo    == IF first < 1 THEN 1 ELSE first
  IN  [i \in 1..AtLeast0(need[c].hi - lo + 1) |-> lo + i - 1]

PullKind == IF reinstalled /\ ret = "end" THEN "MsgSyncInReinstall" ELSE "NewMsgCome"

(* Mutants: the newest number, or the begin of the range, is taken as synced. *)
SyncedTo_Newest(c) == log[c]
SyncedTo_Begin(c) == need[c].lo

SyncedTo(c) == need[c].hi    \* what a pulled conversation is then synced to

Pulled(B) ==
  /\ Ready("pull") /\ conn /\ IsBatch(B)
  /\ LET msgs == [c \in Conv |-> IF c \in B THEN PullMsgByRange(c) ELSE <<>>]
     IN outbox' = Trigger(PullKind, Part(msgs, Regular))
                    \o Trigger("Notification", Part(msgs, Notif))
  /\ synced' = [c \in Conv |-> IF c \in B THEN SyncedTo(c) ELSE synced[c]]
  /\ need' = [c \in Conv |-> IF c \in B THEN NoRange ELSE need[c]]
  /\ UNCHANGED <<serverVars, batchVars, reinstalled, isSyncing, pc, job, scope,
                 attempt, push, res, ret, eventCh, dbVars, ops>>

(* A pull failed: the error return gives up all the ranges that are left. *)
PullFailed ==
  /\ Ready("pull") /\ Wanted # {}
  /\ ~conn \/ "fail" \in Faults
  /\ need' = [c \in Conv |-> NoRange]
  /\ UNCHANGED <<serverVars, batchVars, synced, reinstalled, isSyncing, pc, job,
                 scope, attempt, push, res, ret, outbox, eventCh, dbVars, ops>>

PullDone ==
  /\ Ready("pull") /\ Wanted = {}
  /\ IF ret = "idle" THEN Idle
     ELSE pc' = ret /\ UNCHANGED <<job, scope, attempt, push, res, need, ret>>
  /\ UNCHANGED <<serverVars, batchVars, synced, reinstalled, isSyncing, outbox,
                 eventCh, dbVars, ops>>

(* compareSeqsAndBatchSync's deferred function, and the end of doConnected. *)
EndSync ==
  /\ Ready("end")
  /\ installed' = (installed \/ reinstalled) /\ reinstalled' = FALSE
  /\ outbox' = IF job # "connected" THEN <<>>
               ELSE <<Event(IF reinstalled THEN "AppDataSyncFinish" ELSE "MsgSyncEnd", NoMsgs)>>
  /\ Idle
  /\ UNCHANGED <<serverVars, batchVars, synced, isSyncing, eventCh, rows, chatLogs,
                 notifSeq, handled, ops>>
-----------------------------------------------------------------------------
(* The conversation worker: Work on the head of the event queue. *)

Numbers(q) == {n \in ToSet(q) : n # 0}    \* the messages of q that are in the log

Next1(c) ==    \* conversation c of the head event is done with
  LET left == [Head(eventCh).msgs EXCEPT ![c] = <<>>]
  IN  eventCh' = IF IsEmpty(left) THEN Tail(eventCh)
                 ELSE <<Event(Head(eventCh).kind, left)>> \o Tail(eventCh)

(***************************************************************************)
(* doMsgNew and doMsgSyncByReinstalled: the messages are inserted, one     *)
(* conversation after the other; then the former adds the rows of the      *)
(* conversations that are new, the latter only updates rows.               *)
(***************************************************************************)
AtMessages(c) ==
  /\ eventCh # <<>> /\ Head(eventCh).kind \in {"NewMsgCome", "MsgSyncInReinstall"}
  /\ Head(eventCh).msgs[c] # <<>>

InsertMessages(c) ==
  /\ AtMessages(c)
  /\ ~(Numbers(Head(eventCh).msgs[c]) \subseteq chatLogs[c])
  /\ chatLogs' = [chatLogs EXCEPT ![c] = @ \cup Numbers(Head(eventCh).msgs[c])]
  /\ UNCHANGED <<serverVars, batchVars, synced, reinstalled, isSyncing, jobVars,
                 outbox, eventCh, rows, notifSeq, installed, handled, ops>>

StoreConversation(c) ==
  /\ AtMessages(c)
  /\ \A d \in Regular : Numbers(Head(eventCh).msgs[d]) \subseteq chatLogs[d]
  /\ rows' = IF Head(eventCh).kind = "NewMsgCome" /\ Numbers(Head(eventCh).msgs[c]) # {}
             THEN rows \cup {c} ELSE rows
  /\ Next1(c)
  /\ UNCHANGED <<serverVars, batchVars, synced, reinstalled, isSyncing, jobVars,
                 outbox, chatLogs, notifSeq, installed, handled, ops>>

(***************************************************************************)
(* doNotificationManager: every notification of a conversation is handled, *)
(* then the number of the last one is stored.                              *)
(***************************************************************************)
AtNotifications(c) ==
  /\ eventCh # <<>> /\ Head(eventCh).kind = "Notification"
  /\ Head(eventCh).msgs[c] # <<>>

DoNotifications(c) ==
  /\ AtNotifications(c)
  /\ ~(Numbers(Head(eventCh).msgs[c]) \subseteq handled[c])
  /\ handled' = [handled EXCEPT ![c] = @ \cup Numbers(Head(eventCh).msgs[c])]
  /\ UNCHANGED <<serverVars, batchVars, synced, reinstalled, isSyncing, jobVars,
                 outbox, eventCh, rows, chatLogs, notifSeq, installed, ops>>

SetNotificationSeq(c) ==
  /\ AtNotifications(c)
  /\ Numbers(Head(eventCh).msgs[c]) \subseteq handled[c]
  /\ LET lastSeq == Last(Head(eventCh).msgs[c])
     IN  notifSeq' = IF lastSeq = 0 THEN notifSeq ELSE [notifSeq EXCEPT ![c] = lastSeq]
  /\ Next1(c)
  /\ UNCHANGED <<serverVars, batchVars, synced, reinstalled, isSyncing, jobVars,
                 outbox, rows, chatLogs, installed, handled, ops>>

(***************************************************************************)
(* syncFlag and syncData: the flags that start a synchronisation also      *)
(* fetch the conversation list from the server, which may fail.            *)
(***************************************************************************)
HandleFlag ==
  /\ eventCh # <<>> /\ IsEmpty(Head(eventCh).msgs)
  /\ \/ rows' = rows
     \/ /\ Head(eventCh).kind \in {"MsgSyncBegin", "AppDataSyncStart", "SyncData"}
        /\ conn /\ rows' = rows \cup {c \in Regular : log[c] > 0}
  /\ eventCh' = Tail(eventCh)
  /\ UNCHANGED <<serverVars, batchVars, synced, reinstalled, isSyncing, jobVars,
                 outbox, chatLogs, notifSeq, installed, handled, ops>>

(***************************************************************************)
(* The process dies, or the user logs out, and logs in again: everything   *)
(* but the database is gone, and LoadSeq reads the numbers back.           *)
(***************************************************************************)
Crash ==
  /\ "crash" \in Faults /\ ops < MaxOps /\ ops' = ops + 1
  /\ conn' = FALSE /\ buffer' = NoBatch /\ flushing' = NoBatch /\ pushCh' = <<>>
  /\ Idle /\ isSyncing' = FALSE /\ outbox' = <<>> /\ eventCh' = <<>>
  /\ synced' = LoadedSeqs /\ reinstalled' = LoadedReinstalled
  /\ UNCHANGED <<log, pushed, dbVars>>
-----------------------------------------------------------------------------
Environment ==
  \/ \E c \in Conv : \/ Publish(c)
                     \/ \E s \in 0..MaxSeq : PushDirect(c, s) \/ PushMerged(c, s)
  \/ FlushBuffer \/ TimerFires \/ TimerDispatches \/ Connect \/ Disconnect \/ WakeUp \/ IMSync \/ SyncWindowEnds

Syncer ==
  \/ Dispatch \/ StartConnectedSync \/ StartWakeUpSync \/ IgnoreSync \/ StartIMSync
  \/ StartPush \/ RetryMaxSeq \/ MaxSeqFailed \/ CompareSeqs
  \/ \E c \in Conv : PushConversation(c)
  \/ PushTriggered \/ \E B \in SUBSET Conv : Pulled(B)
  \/ PullFailed \/ PullDone \/ EndSync

Worker ==
  \/ \E c \in Regular : InsertMessages(c) \/ StoreConversation(c)
  \/ \E c \in Notif : DoNotifications(c) \/ SetNotificationSeq(c)
  \/ HandleFlag

(* Nothing is left to do: the one state the program may stay in for ever. *)
Resting ==
  /\ conn /\ ~isSyncing /\ buffer = NoBatch /\ flushing = NoBatch /\ pushCh = <<>>
  /\ Ready("idle") /\ eventCh = <<>>
  /\ UNCHANGED vars

Next == Environment \/ Syncer \/ Worker \/ Crash \/ Resting

Spec == Init /\ [][Next]_vars

(***************************************************************************)
(* Fairness: the two goroutines run (the request layer bounds every wait   *)
(* by a timeout, so each command ends), timers fire, reConn keeps dialling *)
(* and a connected server pushes what it has.                              *)
(***************************************************************************)
LiveSpec ==
  /\ Spec
  /\ WF_vars(Syncer) /\ WF_vars(Worker)
  /\ WF_vars(SyncWindowEnds) /\ WF_vars(TimerFires) /\ WF_vars(TimerDispatches)
  /\ WF_vars(Connect)
  /\ \A c \in Conv : WF_vars(\E s \in 1..MaxSeq : PushDirect(c, s) \/ PushMerged(c, s))
-----------------------------------------------------------------------------
(* Type correctness. *)
MsgMap     == [Conv -> Seq(Nat)]
Batches    == [msgs : MsgMap, convs : SUBSET Conv]
CmdKinds   == {"ConnSuccess", "WakeUpDataSync", "IMMessageSync", "PushMsg"}
EventKinds == {"NewMsgCome", "Notification", "MsgSyncInReinstall", "SyncData",
               "AppDataSyncStart", "AppDataSyncFinish",
               "MsgSyncBegin", "MsgSyncFailed", "MsgSyncEnd"}
Commands   == [cmd : CmdKinds, batch : Batches]
Events     == [kind : EventKinds, msgs : MsgMap]
PCs        == {"idle", "maxseq", "msgs", "notifications", "pull", "end"}
Jobs       == {"none", "connected", "wakeup", "imsync", "push"}

TypeServer == log \in [Conv -> Nat] /\ pushed \in [Conv -> Nat] /\ conn \in BOOLEAN
TypeBatch  == buffer \in Batches /\ flushing \in Batches /\ pushCh \in Seq(Commands)
TypeSyncer == synced \in [Conv -> Int] /\ reinstalled \in BOOLEAN /\ isSyncing \in BOOLEAN
TypeJob    ==
  /\ pc \in PCs /\ job \in Jobs /\ scope \subseteq Conv /\ attempt \in Nat
  /\ push \in Batches /\ res \in MsgMap
  /\ need \in [Conv -> [lo : Int, hi : Int]] /\ ret \in PCs
TypeEvents == outbox \in Seq(Events) /\ eventCh \in Seq(Events)
TypeDb     ==
  /\ rows \subseteq Conv /\ chatLogs \in [Regular -> SUBSET Nat]
  /\ notifSeq \in [Notif -> Int] /\ installed \in BOOLEAN
  /\ handled \in [Notif -> SUBSET Nat]
TypeOK ==
  /\ TypeServer /\ TypeBatch /\ TypeSyncer /\ TypeJob /\ TypeEvents /\ TypeDb
  /\ ops \in Nat
-----------------------------------------------------------------------------
(* Safety *)

(* What is on its way to the database: the events of eventCh, those to come, and res. *)
Pipeline == eventCh \o outbox \o <<Event("NewMsgCome", res)>>

NumbersIn(q, c) == UNION {Numbers(q[i].msgs[c]) : i \in 1..Len(q)}
InFlight(c) == NumbersIn(Pipeline, c)

(* The numbers of c in the events q come in their order, none of them twice. *)
Ascending(q, c) ==
  \A i, j \in 1..Len(q) : \A k \in 1..Len(q[i].msgs[c]), l \in 1..Len(q[j].msgs[c]) :
    LET m == q[i].msgs[c][k]
        n == q[j].msgs[c][l]
    IN  (i < j \/ (i = j /\ k < l)) /\ m # 0 /\ n # 0 => m < n

(***************************************************************************)
(* Every notification up to the number the syncer believes it has synced   *)
(* is applied or on its way to the worker: whatever pushes the server      *)
(* loses, repeats or reorders, pushTriggerAndSync closes the gap, through  *)
(* failed requests, restarts and reinstallations as well.                  *)
(***************************************************************************)
NotificationsGapFree ==
  \A c \in Notif : 1..synced[c] \subseteq handled[c] \cup InFlight(c)

(***************************************************************************)
(* doNotificationManager applies a notification only when all the earlier  *)
(* ones of its conversation have been applied (or skipped by a             *)
(* reinstallation), and between two restarts none is queued for it twice:  *)
(* an older state never overwrites a newer one.                            *)
(***************************************************************************)
NotificationsAppliedInOrder ==
  \A c \in Notif :
    /\ \A n \in handled[c] : 1..n \subseteq handled[c]
    /\ Ascending(Pipeline, c)

(***************************************************************************)
(* What a restart reads back never claims more than was applied: the       *)
(* number SetNotificationSeq stores covers only handled notifications.     *)
(***************************************************************************)
RestartLosesNoNotification ==
  \A c \in Notif : 1..notifSeq[c] \subseteq handled[c]

(***************************************************************************)
(* Of a chat conversation the syncer may leave older messages to the       *)
(* history queries, but the message at the number it believes it has       *)
(* synced is stored or on its way: the newest message is never skipped.    *)
(***************************************************************************)
LatestDelivered ==
  \A c \in Regular : synced[c] >= 1 => synced[c] \in chatLogs[c] \cup InFlight(c)

(***************************************************************************)
(* The syncer never runs behind the database: no stored message and no     *)
(* applied notification is beyond the synced number, so that no pull or    *)
(* push of this run of the program delivers it a second time.  A restart   *)
(* finds it so when every conversation has its row; one that interrupts a  *)
(* reinstallation between the messages and their row pulls them again.     *)
(***************************************************************************)
NothingBeyondSynced ==
  /\ \A c \in Regular : c \in rows =>
        \A n \in chatLogs[c] \cup InFlight(c) : n <= AtLeast0(synced[c])
  /\ \A c \in Notif : \A n \in InFlight(c) \cup {notifSeq[c]} : n <= AtLeast0(synced[c])

(***************************************************************************)
(* Pushes, pulls computed earlier and reinstallation skips never take a    *)
(* synced number back, and never beyond the server's log; only a restart   *)
(* does, to what the database holds.                                       *)
(***************************************************************************)
SyncedMonotone ==
  [][\/ \A c \in Conv : synced[c] <= synced'[c] /\ synced'[c] <= AtLeast0(log'[c])
     \/ Crash]_vars

-----------------------------------------------------------------------------
(* Liveness *)

PushQueued(c, s) ==
  \E i \in 1..Len(pushCh) :
     pushCh[i].cmd = "PushMsg" /\ s \in ToSet(pushCh[i].batch.msgs[c])

(***************************************************************************)
(* A message whose push reached the syncer's channel is eventually covered *)
(* by the synced number, unless the connection goes down.                  *)
(***************************************************************************)
PushCovered ==
  \A c \in Conv, s \in 1..MaxSeq :
     PushQueued(c, s) ~> (synced[c] >= s \/ ~conn)

(***************************************************************************)
(* What the syncer has synced the worker eventually stores or applies.     *)
(***************************************************************************)
SyncedStored ==
  \A s \in 1..MaxSeq :
     /\ \A c \in Notif : (synced[c] >= s) ~> (s \in handled[c])
     /\ \A c \in Regular : (synced[c] = s) ~> (s \in chatLogs[c])
=============================================================================
