------------------------------ MODULE Sending ------------------------------
(***************************************************************************)
(* The status of a message that this device sends, from the call to the    *)
(* echo of the server (internal/conversation_msg/api.go,                   *)
(* open_im_sdk/userRelated.go).  While a call has a message on its way,    *)
(* the table LocalSendingMessages has an entry for it; a login marks what  *)
(* it finds there as failed.  The server keeps a copy for every request    *)
(* that reaches it, and the worker stores the copies in order.             *)
(*                                                                         *)
(* The order in which messages leave is in SendQueue, the requests are in  *)
(* LongConn and Requests.  After a logout the calls of the session write   *)
(* to a closed database, so that for the tables it is like a crash.        *)
(***************************************************************************)
EXTENDS Integers, Sequences, FiniteSetsExt

CONSTANTS
  Msgs,         \* messages
  MaxCalls,     \* bound: calls of SendMessage, the ones that send again included
  MaxRestarts,  \* bound: crashes, logouts and logins that fail
  BatchSize,    \* bound: copies in one batch for the worker
  Faults        \* what may go wrong, see FaultKinds

(***************************************************************************)
(* "fail": an upload, a request or a login fails; "loss": a request does   *)
(* not reach the server; "timeout": its answer is late or never comes;     *)
(* "early": a call returns after the inserts without settling its message  *)
(* (an unknown content type, an error of UpdateMessage).                   *)
(***************************************************************************)
FaultKinds == {"fail", "loss", "timeout", "early"}

VARIABLES
  session,      \* loginStatus: "out", "logging" or "in"
  todo,         \* what checkSendingMessage has to do for each message
  restarts,
  status,       \* of the message's row: "none" without a row
  number,       \* its Seq, 0 until the echo
  entries,      \* LocalSendingMessages
  media,        \* the messages with a file to upload
  pc, msg,      \* the calls
  write,        \* the status that the call is about to store
  stranded,     \* history: messages that a call, or a crash, left unsettled
  overwritten,  \* history: messages that an upload made "sending" after their echo
  net,          \* requests on their way
  log,          \* the server's log: the call that sent each copy
  stored,       \* copies that the worker has stored
  batch         \* what the worker has read of its current batch, or None

tableVars   == <<status, number, entries>>
sessionVars == <<session, todo, restarts>>
historyVars == <<stranded, overwritten>>
callVars    == <<media, pc, msg, write, historyVars>>
serverVars  == <<net, log>>
workerVars  == <<stored, batch>>
vars == <<tableVars, sessionVars, callVars, serverVars, workerVars>>

Calls == 1..MaxCalls

None == [to |-> 0, unnumbered |-> {}]
NoTodo == [m \in Msgs |-> "nothing"]

(* The calls that have an entry for their message. *)
OnTheWay(c) == pc[c] \in {"ready", "prepared", "waiting", "check", "mark", "delete"}

Received(m) == \E i \in 1..Len(log) : msg[log[i]] = m

Goto(c, p) == pc' = [pc EXCEPT ![c] = p]

Init ==
  /\ session = "in" /\ todo = NoTodo /\ restarts = 0
  /\ status = [m \in Msgs |-> "none"] /\ number = [m \in Msgs |-> 0] /\ entries = {}
  /\ media \in SUBSET Msgs /\ pc = [c \in Calls |-> "idle"] /\ msg \in [Calls -> Msgs]
  /\ write = [c \in Calls |-> "failed"] /\ stranded = {} /\ overwritten = {}
  /\ net = {} /\ log = <<>> /\ stored = 0 /\ batch = None
-----------------------------------------------------------------------------
(* sendMessage, sendMessageNotOss *)

(* The application sends a message, or sends it again; calls start in their order. *)
Call(c) ==
  /\ session = "in" /\ pc[c] = "idle" /\ \A d \in 1..(c - 1) : pc[d] # "idle"
  /\ Goto(c, "lookup")
  /\ UNCHANGED <<media, msg, write, historyVars, tableVars, sessionVars, serverVars, workerVars>>

(* GetMessage: a message that is there is sent again only if it has failed. *)
Lookup(c) ==
  /\ pc[c] = "lookup"
  /\ Goto(c, CASE status[msg[c]] = "none"   -> "insert"
               [] status[msg[c]] = "failed" -> "enter"
               [] OTHER                     -> "done")
  /\ UNCHANGED <<media, msg, write, historyVars, tableVars, sessionVars, serverVars, workerVars>>

(* A second insert of the same key fails. *)
InsertMessage(c) ==
  /\ pc[c] = "insert"
  /\ \/ status[msg[c]] = "none"
        /\ status' = [status EXCEPT ![msg[c]] = "sending"] /\ Goto(c, "enter")
     \/ status[msg[c]] # "none" /\ Goto(c, "done") /\ UNCHANGED status
  /\ UNCHANGED <<number, entries, media, msg, write, historyVars, sessionVars, serverVars, workerVars>>

(* Mutant: the entry is written without regard to one that is there. *)
InsertSendingMessage_Upsert(c) ==
  /\ pc[c] = "enter" /\ entries' = entries \cup {msg[c]} /\ Goto(c, "ready")
  /\ UNCHANGED <<status, number, media, msg, write, historyVars, sessionVars, serverVars, workerVars>>

InsertSendingMessage(c) ==
  /\ pc[c] = "enter"
  /\ \/ msg[c] \notin entries /\ entries' = entries \cup {msg[c]} /\ Goto(c, "ready")
     \/ msg[c] \in entries /\ Goto(c, "done") /\ UNCHANGED entries
  /\ UNCHANGED <<status, number, media, msg, write, historyVars, sessionVars, serverVars, workerVars>>

(* updateMsgStatusAndTriggerConversation begins, with status s. *)
Settle(c, s) == Goto(c, "mark") /\ write' = [write EXCEPT ![c] = s]

UploadFails(c) ==
  /\ pc[c] = "ready" /\ msg[c] \in media /\ "fail" \in Faults /\ Settle(c, "failed")
  /\ UNCHANGED <<media, msg, historyVars, tableVars, sessionVars, serverVars, workerVars>>

(* The entry stays, and with it an error for each attempt to send again, until a login. *)
ReturnEarly(c) ==
  /\ pc[c] = "ready" /\ "early" \in Faults /\ Goto(c, "done")
  /\ stranded' = stranded \cup {msg[c]}
  /\ UNCHANGED <<media, msg, write, overwritten, tableVars, sessionVars, serverVars, workerVars>>

(***************************************************************************)
(* UpdateMessage after the upload writes the address of the file and, with *)
(* it, the status "sending".  If the copy of an earlier attempt came back  *)
(* during the upload, the row has its number: nothing will set its status  *)
(* again.                                                                  *)
(***************************************************************************)
UpdateMessage(c) ==
  /\ pc[c] = "ready" /\ msg[c] \in media /\ Goto(c, "prepared")
  /\ status' = [status EXCEPT ![msg[c]] = "sending"]
  /\ overwritten' = IF number[msg[c]] = 0 THEN overwritten ELSE overwritten \cup {msg[c]}
  /\ UNCHANGED <<number, entries, media, msg, write, stranded, sessionVars, serverVars, workerVars>>

Request(c) ==
  /\ pc[c] = IF msg[c] \in media THEN "prepared" ELSE "ready"
  /\ Goto(c, "waiting") /\ net' = net \cup {c}
  /\ UNCHANGED <<media, msg, write, historyVars, log, tableVars, sessionVars, workerVars>>

(* sendMessageToServer after the answer. *)
Answered(c) ==
  /\ pc[c] = "waiting" /\ (\E i \in 1..Len(log) : log[i] = c) /\ Settle(c, "success")
  /\ UNCHANGED <<media, msg, historyVars, tableVars, sessionVars, serverVars, workerVars>>

(* The write or the server's answer is an error; a failed write may have arrived. *)
Refused(c) ==
  /\ pc[c] = "waiting" /\ "fail" \in Faults /\ Settle(c, "failed")
  /\ UNCHANGED <<media, msg, historyVars, tableVars, sessionVars, serverVars, workerVars>>

TimesOut(c) ==
  /\ pc[c] = "waiting" /\ "timeout" \in Faults /\ Goto(c, "check")
  /\ UNCHANGED <<media, msg, write, historyVars, tableVars, sessionVars, serverVars, workerVars>>

(* Mutant: a message that is not marked as failed counts as received. *)
CheckReceived_NotFailed(c) ==
  /\ pc[c] = "check" /\ Settle(c, IF status[msg[c]] # "failed" THEN "success" ELSE "failed")
  /\ UNCHANGED <<media, msg, historyVars, tableVars, sessionVars, serverVars, workerVars>>

(* After a timeout the row says whether the echo has come. *)
CheckReceived(c) ==
  /\ pc[c] = "check" /\ Settle(c, IF status[msg[c]] = "success" THEN "success" ELSE "failed")
  /\ UNCHANGED <<media, msg, historyVars, tableVars, sessionVars, serverVars, workerVars>>

(* Mutant: the row is found by its id alone. *)
UpdateStatus_AnyRow(c) ==
  /\ pc[c] = "mark" /\ Goto(c, "delete")
  /\ status' = [status EXCEPT ![msg[c]] = write[c]]
  /\ UNCHANGED <<number, entries, media, msg, write, historyVars, sessionVars, serverVars, workerVars>>

(* UpdateMessageTimeAndStatus, where the row's seq is 0. *)
UpdateStatus(c) ==
  /\ pc[c] = "mark" /\ Goto(c, "delete")
  /\ status' = IF number[msg[c]] = 0 THEN [status EXCEPT ![msg[c]] = write[c]] ELSE status
  /\ UNCHANGED <<number, entries, media, msg, write, historyVars, sessionVars, serverVars, workerVars>>

DeleteSendingMessage(c) ==
  /\ pc[c] = "delete" /\ Goto(c, "done") /\ entries' = entries \ {msg[c]}
  /\ UNCHANGED <<status, number, media, msg, write, historyVars, sessionVars, serverVars, workerVars>>
-----------------------------------------------------------------------------
(* The network, the server and the worker *)

(* A request may arrive when its call has given up or its process is gone. *)
Receive(c) ==
  /\ c \in net /\ net' = net \ {c} /\ log' = Append(log, c)
  /\ UNCHANGED <<tableVars, sessionVars, callVars, workerVars>>

Lose(c) ==
  /\ c \in net /\ "loss" \in Faults /\ net' = net \ {c}
  /\ UNCHANGED <<log, tableVars, sessionVars, callVars, workerVars>>

(* doMsgNew reads the rows of a batch of own messages ... *)
ReadBatch ==
  /\ session = "in" /\ batch = None
  /\ \E to \in (stored + 1)..Len(log) :
       /\ to <= stored + BatchSize
       /\ batch' = [to |-> to, unnumbered |-> {m \in Msgs : number[m] = 0}]
  /\ UNCHANGED <<stored, tableVars, sessionVars, callVars, serverVars>>

Copies(m) == {i \in (stored + 1)..batch.to : msg[log[i]] = m}

Echoed == {m \in batch.unnumbered : Copies(m) # {}}

(* Mutant: a message that was marked as failed keeps its mark. *)
StoreBatch_NumberOnly ==
  /\ batch # None /\ batch' = None /\ stored' = batch.to
  /\ number' = [m \in Msgs |-> IF m \in Echoed THEN Max(Copies(m)) ELSE number[m]]
  /\ status' = [m \in Msgs |-> IF m \in Echoed /\ status[m] = "sending"
                               THEN "success" ELSE status[m]]
  /\ UNCHANGED <<entries, sessionVars, callVars, serverVars>>

(***************************************************************************)
(* ... and updates those that had no number: a message with two copies in  *)
(* the batch keeps the second.  A copy of a numbered one is stored as      *)
(* deleted [CLIENT_DUP].                                                   *)
(***************************************************************************)
StoreBatch ==
  /\ batch # None /\ batch' = None /\ stored' = batch.to
  /\ number' = [m \in Msgs |-> IF m \in Echoed THEN Max(Copies(m)) ELSE number[m]]
  /\ status' = [m \in Msgs |-> IF m \in Echoed THEN "success" ELSE status[m]]
  /\ UNCHANGED <<entries, sessionVars, callVars, serverVars>>
-----------------------------------------------------------------------------
(* The session *)

(* Mutant: the batch survives the session. *)
Stop_KeepsBatch ==
  /\ session # "out" /\ restarts < MaxRestarts /\ restarts' = restarts + 1
  /\ session' = "out" /\ todo' = NoTodo
  /\ pc' = [c \in Calls |-> IF pc[c] = "idle" THEN "idle" ELSE "done"]
  /\ stranded' = stranded \cup {m \in Msgs \ entries : status[m] = "sending"}
  /\ UNCHANGED <<tableVars, media, msg, write, overwritten, serverVars, workerVars>>

(***************************************************************************)
(* A crash or a logout: the process, or the session, forgets its calls and *)
(* its batch.  Between the two inserts of a new message it leaves a row    *)
(* that is "sending" without an entry.                                     *)
(***************************************************************************)
Stop ==
  /\ session # "out" /\ restarts < MaxRestarts /\ restarts' = restarts + 1
  /\ session' = "out" /\ todo' = NoTodo /\ batch' = None
  /\ pc' = [c \in Calls |-> IF pc[c] = "idle" THEN "idle" ELSE "done"]
  /\ stranded' = stranded \cup {m \in Msgs \ entries : status[m] = "sending"}
  /\ UNCHANGED <<tableVars, media, msg, write, overwritten, serverVars, stored>>

(* login, up to GetAllSendingMessages of checkSendingMessage. *)
Login ==
  /\ session = "out" /\ session' = "logging"
  /\ todo' = [m \in Msgs |-> IF m \in entries THEN "mark" ELSE "nothing"]
  /\ UNCHANGED <<restarts, tableVars, callVars, serverVars, workerVars>>

(* Mutant: nothing is marked. *)
HandleSendingMsg_DeleteOnly(m) ==
  /\ todo[m] = "mark" /\ todo' = [todo EXCEPT ![m] = "delete"]
  /\ UNCHANGED <<session, restarts, tableVars, callVars, serverVars, workerVars>>

HandleSendingMsg(m) ==
  /\ todo[m] = "mark" /\ todo' = [todo EXCEPT ![m] = "delete"]
  /\ status' = IF status[m] = "sending" THEN [status EXCEPT ![m] = "failed"] ELSE status
  /\ UNCHANGED <<number, entries, session, restarts, callVars, serverVars, workerVars>>

DeleteHandled(m) ==
  /\ todo[m] = "delete" /\ todo' = [todo EXCEPT ![m] = "nothing"]
  /\ entries' = entries \ {m} /\ stranded' = stranded \ {m}
  /\ UNCHANGED <<status, number, session, restarts, media, pc, msg, write, overwritten, serverVars, workerVars>>

LoggedIn ==
  /\ session = "logging" /\ todo = NoTodo /\ session' = "in"
  /\ UNCHANGED <<todo, restarts, tableVars, callVars, serverVars, workerVars>>

(* LoadSeq fails: loginStatus stays Logging, in which Login may be called again. *)
LoginFails ==
  /\ session = "logging" /\ todo = NoTodo /\ "fail" \in Faults
  /\ restarts < MaxRestarts /\ restarts' = restarts + 1 /\ session' = "out"
  /\ UNCHANGED <<todo, tableVars, callVars, serverVars, workerVars>>
-----------------------------------------------------------------------------
Step(c) ==
  \/ Lookup(c) \/ InsertMessage(c) \/ InsertSendingMessage(c) \/ UploadFails(c) \/ UpdateMessage(c)
  \/ ReturnEarly(c) \/ Request(c) \/ Answered(c) \/ Refused(c) \/ TimesOut(c) \/ CheckReceived(c)
  \/ UpdateStatus(c) \/ DeleteSendingMessage(c)

Recover == \E m \in Msgs : HandleSendingMsg(m) \/ DeleteHandled(m)

Worker == ReadBatch \/ StoreBatch

Next ==
  \/ \E c \in Calls : Call(c) \/ Step(c) \/ Receive(c) \/ Lose(c)
  \/ Worker \/ Stop \/ Login \/ Recover \/ LoggedIn \/ LoginFails

Spec == Init /\ [][Next]_vars

(***************************************************************************)
(* A call goes on by itself, a request arrives or is lost, or its answer   *)
(* is given up after sendAndWaitTime; the worker goes on; the application  *)
(* logs in again.                                                          *)
(***************************************************************************)
Fairness ==
  /\ \A c \in Calls : WF_vars(Step(c)) /\ WF_vars(Receive(c) \/ Lose(c))
  /\ WF_vars(Worker) /\ WF_vars(Login \/ Recover \/ LoggedIn)
-----------------------------------------------------------------------------
Statuses == {"none", "sending", "failed", "success"}

Steps == {"idle", "lookup", "insert", "enter", "ready", "prepared", "waiting", "check", "mark",
          "delete", "done"}

TypeSession ==
  /\ session \in {"out", "logging", "in"} /\ restarts \in 0..MaxRestarts
  /\ todo \in [Msgs -> {"nothing", "mark", "delete"}]

TypeTables ==
  /\ status \in [Msgs -> Statuses] /\ number \in [Msgs -> 0..Len(log)] /\ entries \subseteq Msgs

TypeCalls ==
  /\ pc \in [Calls -> Steps] /\ msg \in [Calls -> Msgs] /\ media \subseteq Msgs
  /\ write \in [Calls -> {"failed", "success"}]
  /\ stranded \subseteq Msgs /\ overwritten \subseteq Msgs

TypeServer == net \subseteq Calls /\ log \in Seq(Calls)

TypeWorker ==
  /\ stored \in 0..Len(log) /\ batch \in [to : 0..Len(log), unnumbered : SUBSET Msgs]
  /\ batch # None => session = "in" /\ batch.to > stored

TypeOK == TypeSession /\ TypeTables /\ TypeCalls /\ TypeServer /\ TypeWorker

(***************************************************************************)
(* A message that is stored as sent is on the server, whatever timed out,  *)
(* was lost, was sent again or was interrupted.                            *)
(***************************************************************************)
SuccessOnServer == \A m \in Msgs : status[m] = "success" => Received(m)

(***************************************************************************)
(* While logged in, every entry belongs to one call that is on its way and *)
(* will delete it, and a message never has two: else it could not be sent  *)
(* again, or would be sent by two calls at the same time.                  *)
(***************************************************************************)
EntryHasOneCall ==
  \A m \in Msgs :
    LET owners == {c \in Calls : msg[c] = m /\ OnTheWay(c)} IN
      /\ \A c, d \in owners : c = d
      /\ session = "in" /\ m \notin stranded => (m \in entries <=> owners # {})

(***************************************************************************)
(* A message that has its number is settled: neither a timeout nor a login *)
(* nor a second attempt that fails changes its row.  UpdateMessage does.   *)
(***************************************************************************)
NumberedIsFinal ==
  [][\A m \in Msgs : number[m] # 0 =>
       number'[m] = number[m] /\ (status'[m] = status[m] \/ m \in overwritten')]_vars

(* No message stays "sending" but one that a call or a crash left behind, or UpdateMessage. *)
SendingSettles ==
  \A m \in Msgs : status[m] = "sending" ~>
    status[m] # "sending" \/ m \in stranded \cup overwritten

(***************************************************************************)
(* A message that the server has gets its number and is stored as sent in  *)
(* the end, also if it was marked as failed.                               *)
(***************************************************************************)
ReceivedIsStored ==
  \A m \in Msgs : Received(m) ~>
    number[m] # 0 /\ (status[m] = "success" \/ m \in overwritten)
=============================================================================
