---------------------------- MODULE Conversation ----------------------------
(***************************************************************************)
(* One conversation's messages, unread count and latest message            *)
(* (internal/conversation_msg: conversation_msg.go, read_drawing.go,       *)
(* revoke.go, delete.go, sync.go, max_seq_recorder.go, notification.go).   *)
(*                                                                         *)
(* Two goroutines write the database: the conversation worker, which takes *)
(* messages, notifications and synchronisations from its queue one after   *)
(* the other, and the application's API calls.  conversationSyncMutex      *)
(* keeps some of their steps apart.  Each action is one database call, or  *)
(* the reads before it.                                                    *)
(***************************************************************************)
EXTENDS Integers, Sequences, FiniteSets, FiniteSetsExt

CONSTANTS
  MaxSeq,     \* bound: length of the conversation's log
  MaxOps,     \* bound: API calls, and what the peer and other devices do
  Calls,      \* API calls made: "markConversation", "markMessage", "delete",
              \* "revoke", "clear"
  Events      \* events: "revoke", "delete", "clear", "read", "receipt", "sync", "mine"

ASSUME SizeAssumption == MaxSeq \in Nat \ {0} /\ MaxOps \in Nat
ASSUME CallAssumption ==
  Calls \subseteq {"markConversation", "markMessage", "delete", "revoke", "clear"}
ASSUME EventAssumption ==
  Events \subseteq {"revoke", "delete", "clear", "read", "receipt", "sync", "mine"}

VARIABLES
  \* the server
  log,          \* length of the conversation's log
  mine,         \* messages of it sent by this user from another device
  srvRevoked, srvGone,   \* messages revoked, and deleted by this user
  srvRead,      \* has-read seq of this user
  notes,        \* notifications so far, in order
  \* on the way to the worker
  sent,         \* messages handed to the worker
  noted,        \* notifications handed to it
  queue,        \* conversationEventQueue
  \* the local database
  rows,         \* [Seqs -> row of the message]
  conv,         \* the conversation's row
  \* memory
  recorder,     \* maxSeqRecorder
  mutex,        \* holder of conversationSyncMutex
  local,        \* [Thread -> its place and what it has read or been given]
  \* the scenario, and bookkeeping of the properties
  single,       \* a single chat; else a group chat
  serial,       \* API calls are made only while the worker is idle
  ops,
  base          \* seq up to which messages were read when the count was last set

srvVars  == <<log, mine, srvRevoked, srvGone, srvRead, notes>>
wayVars  == <<sent, noted, queue>>
rowVars  == <<rows, conv>>
memVars  == <<recorder, mutex>>
scenVars == <<single, serial, ops, base>>
vars == <<srvVars, wayVars, rowVars, memVars, local, scenVars>>

Worker == "worker"
App    == "app"
Thread == {Worker, App}
Seqs   == 1..MaxSeq

NoRow    == [st |-> "none", rev |-> FALSE, read |-> FALSE]
NoLatest == [n |-> 0, rev |-> FALSE]
NoConv   == [unread |-> 0, latest |-> NoLatest, time |-> 0]
NoBatch  == [from |-> 1, to |-> 0, gone |-> {}, rev |-> {}, count |-> 0]

(* The local variables of a goroutine that does nothing. *)
Idle == [pc |-> "idle", n |-> 0, latest |-> NoLatest, batch |-> NoBatch, conv |-> NoConv,
         row |-> NoRow, top |-> FALSE]

Init ==
  /\ log = 0 /\ mine = {} /\ srvRevoked = {} /\ srvGone = {} /\ srvRead = 0 /\ notes = <<>>
  /\ sent = 0 /\ noted = 0 /\ queue = <<>>
  /\ rows = [n \in Seqs |-> NoRow]
  /\ conv = NoConv /\ recorder = 0 /\ mutex = "free"
  /\ local = [t \in Thread |-> Idle]
  /\ single \in BOOLEAN /\ serial \in BOOLEAN /\ ops = 0 /\ base = 0
-----------------------------------------------------------------------------
(* The local tables *)

Greatest(S) == IF S = {} THEN 0 ELSE Max(S)

Stored    == {n \in Seqs : rows[n].st # "none"}
Active    == {n \in Seqs : rows[n].st = "ok"}
LocalMax  == Greatest(Stored)                      \* GetConversationNormalMsgSeq
Unread(n) == rows[n].st # "none" /\ ~rows[n].read /\ n \notin mine

(* LocalChatLogToMsgStruct of a row, as the conversation's latest message. *)
LatestOf(n) == IF n = 0 THEN NoLatest ELSE [n |-> n, rev |-> rows[n].rev]

(* Mutant: the count is not compared with zero. *)
Decreased_Unchecked(c) == c - 1

(* DecrConversationUnreadCount. *)
Decreased(c) == IF c = 0 THEN 0 ELSE c - 1

At(t, p)   == local[t].pc = p
Goto(t, p) == local' = [local EXCEPT ![t].pc = p]
Done(t)    == local' = [local EXCEPT ![t] = Idle]

(* What the server does with a mark as read, and whom it tells. *)
MarkOnServer(h, note) ==
  /\ srvRead' = Max({srvRead, h}) /\ notes' = Append(notes, note)
  /\ UNCHANGED <<log, mine, srvRevoked, srvGone>>

Note(kind, n, seqs) == [kind |-> kind, n |-> n, seqs |-> seqs]
ReadNote(h, seqs) == Note("read", h, IF single THEN seqs ELSE {})
-----------------------------------------------------------------------------
(* The server, the peer and other devices (external) *)

Quiet == UNCHANGED <<rowVars, memVars, local, single, serial, base>>

Publish(own) ==
  /\ log < MaxSeq /\ log' = log + 1
  /\ own => "mine" \in Events
  /\ mine' = IF own THEN mine \cup {log + 1} ELSE mine
  /\ UNCHANGED <<srvRevoked, srvGone, srvRead, notes, wayVars, ops>> /\ Quiet

Event(kind) == kind \in Events /\ ops < MaxOps /\ ops' = ops + 1

RevokedElsewhere(n) ==
  /\ Event("revoke") /\ n \in 1..log \ srvRevoked
  /\ srvRevoked' = srvRevoked \cup {n} /\ notes' = Append(notes, Note("revoke", n, {}))
  /\ UNCHANGED <<log, mine, srvGone, srvRead, wayVars>> /\ Quiet

DeletedElsewhere(n) ==
  /\ Event("delete") /\ n \in 1..log \ srvGone
  /\ srvGone' = srvGone \cup {n} /\ notes' = Append(notes, Note("delete", n, {}))
  /\ UNCHANGED <<log, mine, srvRevoked, srvRead, wayVars>> /\ Quiet

ClearedElsewhere ==
  /\ Event("clear") /\ srvGone' = srvGone \cup 1..log
  /\ notes' = Append(notes, Note("clear", 0, {}))
  /\ UNCHANGED <<log, mine, srvRevoked, srvRead, wayVars>> /\ Quiet

ReadElsewhere(h) ==
  /\ Event("read") /\ h \in 1..log /\ h > srvRead
  /\ MarkOnServer(h, ReadNote(h, (srvRead + 1)..h \ mine))
  /\ UNCHANGED wayVars /\ Quiet

(* The peer of a single chat has read a message of this user. *)
PeerReads(n) ==
  /\ Event("receipt") /\ single /\ n \in mine
  /\ notes' = Append(notes, Note("receipt", n, {}))
  /\ UNCHANGED <<log, mine, srvRevoked, srvGone, srvRead, wayVars>> /\ Quiet

(***************************************************************************)
(* The message syncer hands over messages as the server has them at that   *)
(* moment, and every notification, in order (module MsgSync).              *)
(***************************************************************************)
DeliverMsgs ==
  /\ sent < log
  /\ queue' = Append(queue, [cmd |-> "msgs",
       batch |-> [from |-> sent + 1, to |-> log, gone |-> srvGone, rev |-> srvRevoked,
                  count |-> 0]])
  /\ sent' = log /\ UNCHANGED <<srvVars, noted, ops>> /\ Quiet

DeliverNote ==
  /\ noted < Len(notes) /\ noted' = noted + 1
  /\ queue' = Append(queue, [cmd |-> "note", note |-> notes[noted + 1]])
  /\ UNCHANGED <<srvVars, sent, ops>> /\ Quiet

(* Reconnected: MsgSyncBegin. *)
RequestSync ==
  /\ Event("sync") /\ queue' = Append(queue, [cmd |-> "sync"])
  /\ UNCHANGED <<srvVars, sent, noted>> /\ Quiet
-----------------------------------------------------------------------------
(* The worker: new messages (doMsgNew) *)

(* The worker takes the next command of its queue. *)
Take(cmd) ==
  /\ At(Worker, "idle") /\ queue # <<>> /\ Head(queue).cmd = cmd
  /\ serial => At(App, "idle")
  /\ queue' = Tail(queue) /\ UNCHANGED <<srvVars, sent, noted, single, serial, ops>>

Fresh(b) == {n \in b.from..b.to : rows[n].st = "none"}
Shown(b) == Fresh(b) \ b.gone

(* Mutant: the recorder is not looked at. *)
Counted_All(b) == Cardinality(Shown(b) \ mine)

(***************************************************************************)
(* The messages that count: others', newer than the recorder, which moves  *)
(* by one for each of them.                                                *)
(***************************************************************************)
Counted(b) ==
  LET step[n \in (b.from - 1)..b.to] ==
        IF n < b.from THEN recorder
        ELSE IF n \in Shown(b) \ mine /\ n > step[n - 1] THEN step[n - 1] + 1 ELSE step[n - 1]
  IN  step[b.to] - recorder

DoMsgNew ==
  /\ Take("msgs")
  /\ LET b == Head(queue).batch IN
       /\ local' = [local EXCEPT ![Worker].pc = "lock",
                                 ![Worker].batch = [b EXCEPT !.count = Counted(b)]]
       /\ recorder' = recorder + Counted(b)
  /\ UNCHANGED <<rowVars, mutex, base>>

ReadConversation ==
  /\ At(Worker, "lock") /\ mutex = "free" /\ mutex' = Worker
  /\ local' = [local EXCEPT ![Worker].pc = "insert", ![Worker].conv = conv]
  /\ UNCHANGED <<srvVars, wayVars, rowVars, recorder, scenVars>>

InsertMessages ==
  /\ At(Worker, "insert") /\ Goto(Worker, "update")
  /\ LET b == local[Worker].batch IN
       rows' = [n \in Seqs |->
         IF n \in Fresh(b)
         THEN [st |-> IF n \in b.gone THEN "deleted" ELSE "ok", rev |-> n \in b.rev, read |-> FALSE]
         ELSE rows[n]]
  /\ UNCHANGED <<srvVars, wayVars, conv, memVars, scenVars>>

(***************************************************************************)
(* The conversation as diff computed it from what was read before, written *)
(* with gorm's Updates of a struct: no zero count and no empty message.    *)
(***************************************************************************)
Diff(old, b) ==
  LET n == Greatest((b.from..b.to) \ b.gone) IN
    IF n > old.time
    THEN [unread |-> old.unread + b.count, latest |-> [n |-> n, rev |-> n \in b.rev], time |-> n]
    ELSE [old EXCEPT !.unread = @ + b.count]

UpdateConversation ==
  /\ At(Worker, "update") /\ Done(Worker) /\ mutex' = "free"
  /\ LET b == local[Worker].batch
         c == Diff(local[Worker].conv, b) IN
       conv' = IF (b.from..b.to) \subseteq b.gone THEN conv
               ELSE [unread |-> IF c.unread = 0 THEN conv.unread ELSE c.unread,
                     latest |-> IF c.latest = NoLatest THEN conv.latest ELSE c.latest,
                     time   |-> c.time]
  /\ UNCHANGED <<srvVars, wayVars, rows, recorder, scenVars>>
-----------------------------------------------------------------------------
(* The worker: synchronisation, and an update of the latest message *)

(* syncData: SyncAllConversationHashReadSeqs with the mutex. *)
SyncData ==
  /\ Take("sync") /\ Goto(Worker, "syncLock")
  /\ UNCHANGED <<rowVars, memVars, base>>

SyncAnswer ==
  /\ At(Worker, "syncLock") /\ mutex = "free" /\ mutex' = Worker
  /\ recorder' = log
  /\ local' = [local EXCEPT ![Worker].pc = "sync", ![Worker].n = srvRead,
                            ![Worker].conv = conv]
  /\ UNCHANGED <<srvVars, wayVars, rowVars, scenVars>>

SyncUnread ==
  /\ At(Worker, "sync") /\ Done(Worker) /\ mutex' = "free"
  /\ LET unread == recorder - local[Worker].n IN
       conv' = IF local[Worker].conv.unread = unread THEN conv ELSE [conv EXCEPT !.unread = unread]
  /\ base' = local[Worker].n
  /\ UNCHANGED <<srvVars, wayVars, rows, recorder, single, serial, ops>>

(* doUpdateConversation with AddConOrUpLatMsg, queued by a receipt. *)
UpdateLatest ==
  /\ Take("latest")
  /\ LET c == Head(queue).conv IN
       conv' = IF c.time >= conv.time \/ c.latest.n = conv.latest.n
               THEN [conv EXCEPT !.latest = c.latest, !.time = c.time] ELSE conv
  /\ UNCHANGED <<rows, memVars, local, base>>
-----------------------------------------------------------------------------
(* The worker: notifications *)

TakeNote(kind) == Take("note") /\ Head(queue).note.kind = kind

DoNote(kind, p) ==
  /\ TakeNote(kind)
  /\ local' = [local EXCEPT ![Worker].pc = p, ![Worker].n = Head(queue).note.n]
  /\ UNCHANGED <<rowVars, memVars, base>>

DoRevokeMsg == DoNote("revoke", "revoke")
DoDeleteMsgs == DoNote("delete", "delete")
DoClearConversations == DoNote("clear", "clear")

(* doReadDrawing, doUnreadCount: the user's own marks, made here or on another device. *)
DoUnreadCount ==
  /\ TakeNote("read")
  /\ LET h == Head(queue).note.n
         seqs == Head(queue).note.seqs \cap (Stored \ mine) IN
       IF ~single
       THEN /\ conv' = [conv EXCEPT !.unread = 0]
            /\ base' = Max({base, Min({h, LocalMax})}) /\ UNCHANGED <<rows, local>>
       ELSE IF h \notin Stored \/ rows[h].read \/ seqs = {}
       THEN UNCHANGED <<rows, conv, local, base>>
       ELSE /\ rows' = [n \in Seqs |-> [rows[n] EXCEPT !.read = @ \/ n \in seqs]]
            /\ local' = [local EXCEPT ![Worker].pc = "count", ![Worker].n = h,
                                      ![Worker].top = conv.latest.n \in Head(queue).note.seqs]
            /\ UNCHANGED <<conv, base>>
  /\ UNCHANGED memVars

SetUnreadCount ==
  /\ At(Worker, "count")
  /\ LET h == local[Worker].n IN
       IF recorder = 0
       THEN Done(Worker) /\ UNCHANGED <<conv, base>>
       ELSE /\ conv' = [conv EXCEPT !.unread = Max({0, recorder - h})]
            /\ base' = Min({h, recorder})
            /\ IF local[Worker].top THEN Goto(Worker, "latest") ELSE Done(Worker)
  /\ UNCHANGED <<srvVars, wayVars, rows, memVars, single, serial, ops>>

(* doReadDrawing, the peer's receipt: a row is read, and written back as a whole. *)
DoReadDrawing ==
  /\ TakeNote("receipt")
  /\ LET n == Head(queue).note.n IN
       local' = IF rows[n].st = "none" THEN local
                ELSE [local EXCEPT ![Worker].pc = "receipt", ![Worker].n = n,
                                   ![Worker].row = rows[n], ![Worker].conv = conv]
  /\ UNCHANGED <<rowVars, memVars, base>>

UpdateMessage ==
  /\ At(Worker, "receipt") /\ Done(Worker)
  /\ LET n == local[Worker].n
         c == local[Worker].conv IN
       IF rows[n].st = "none" THEN UNCHANGED <<rows, queue>>
       ELSE /\ rows' = [rows EXCEPT ![n] = [local[Worker].row EXCEPT !.read = TRUE]]
            /\ queue' = IF c.latest.n = n THEN Append(queue, [cmd |-> "latest", conv |-> c])
                        ELSE queue
  /\ UNCHANGED <<srvVars, sent, noted, conv, memVars, scenVars>>
-----------------------------------------------------------------------------
(* Steps that both goroutines make *)

Step(t, p) == At(t, p) /\ UNCHANGED <<wayVars, recorder, single, serial, ops>>

GotoWith(t, p, l) == local' = [local EXCEPT ![t].pc = p, ![t].latest = l]

(* revokeMessage *)
RevokeRow(t) ==
  /\ Step(t, "revoke")
  /\ IF rows[local[t].n].st = "none"
     THEN Done(t) /\ UNCHANGED rows
     ELSE Goto(t, "revokeLatest") /\ rows' = [rows EXCEPT ![local[t].n].rev = TRUE]
  /\ UNCHANGED <<srvVars, conv, mutex, base>>

(* GetMessageList with count 1: the newest row, whatever its status. *)
RevokeLatest(t) ==
  /\ Step(t, "revokeLatest")
  /\ IF conv.latest.n <= local[t].n /\ LocalMax # 0
     THEN GotoWith(t, "writeLatest", LatestOf(LocalMax))
     ELSE Done(t)
  /\ UNCHANGED <<srvVars, rowVars, mutex, base>>

(* deleteMessageFromLocal *)
DeleteRow(t) ==
  /\ Step(t, "delete")
  /\ IF rows[local[t].n].st = "none"
     THEN Done(t) /\ UNCHANGED rows
     ELSE /\ rows' = [rows EXCEPT ![local[t].n].st = "deleted"]
          /\ Goto(t, IF Unread(local[t].n) THEN "deleteCount" ELSE "deleteLatest")
  /\ UNCHANGED <<srvVars, conv, mutex, base>>

DeleteCount(t) ==
  /\ Step(t, "deleteCount") /\ Goto(t, "deleteLatest")
  /\ conv' = [conv EXCEPT !.unread = Decreased(@)]
  /\ UNCHANGED <<srvVars, rows, mutex, base>>

(* Mutant: the search starts one too low. *)
DeleteLatest_Older(t) ==
  /\ Step(t, "deleteLatest")
  /\ IF conv.latest.n = local[t].n
     THEN GotoWith(t, "writeLatest", LatestOf(Greatest(Active \cap 1..(local[t].n - 2))))
     ELSE Done(t)
  /\ UNCHANGED <<srvVars, rowVars, mutex, base>>

(* GetLatestActiveMessage. *)
DeleteLatest(t) ==
  /\ Step(t, "deleteLatest")
  /\ IF conv.latest.n = local[t].n
     THEN GotoWith(t, "writeLatest", LatestOf(Greatest(Active)))
     ELSE Done(t)
  /\ UNCHANGED <<srvVars, rowVars, mutex, base>>

(* UpdateColumnsConversation; without a message the old send time stays. *)
WriteLatest(t) ==
  /\ Step(t, "writeLatest") /\ Done(t)
  /\ conv' = [conv EXCEPT !.latest = local[t].latest,
                          !.time = IF local[t].latest.n = 0 THEN local[t].n ELSE local[t].latest.n]
  /\ UNCHANGED <<srvVars, rows, mutex, base>>

(* clearConversationAndDeleteAllMsg *)
ClearHasRead(t) ==
  /\ Step(t, "clear")
  /\ local' = [local EXCEPT ![t].pc = "clearRows", ![t].n = LocalMax]
  /\ srvRead' = Max({srvRead, LocalMax})
  /\ UNCHANGED <<log, mine, srvRevoked, srvGone, notes, rowVars, mutex, base>>

ClearRows(t) ==
  /\ Step(t, "clearRows") /\ Goto(t, "clearConv")
  /\ rows' = [n \in Seqs |-> NoRow]
  /\ UNCHANGED <<srvVars, conv, mutex, base>>

ClearConversation(t) ==
  /\ Step(t, "clearConv") /\ Done(t)
  /\ conv' = [conv EXCEPT !.unread = 0, !.latest = NoLatest]
  /\ base' = IF t = Worker \/ serial THEN Max({base, local[t].n}) ELSE base
  /\ UNCHANGED <<srvVars, rows, mutex>>

(* UpdateLatestMessageReadState: the latest message is read and written back. *)
ReadLatest(t) ==
  /\ Step(t, "latest") /\ GotoWith(t, "latestRead", conv.latest)
  /\ UNCHANGED <<srvVars, rowVars, mutex, base>>

SetLatestRead(t) ==
  /\ Step(t, "latestRead") /\ Done(t) /\ mutex' = IF mutex = t THEN "free" ELSE mutex
  /\ conv' = IF local[t].latest.n = 0 THEN conv
             ELSE [conv EXCEPT !.latest = local[t].latest, !.time = local[t].latest.n]
  /\ UNCHANGED <<srvVars, rows, base>>

Either(t) ==
  \/ RevokeRow(t) \/ RevokeLatest(t) \/ DeleteRow(t) \/ DeleteCount(t) \/ DeleteLatest(t)
  \/ WriteLatest(t) \/ ClearHasRead(t) \/ ClearRows(t) \/ ClearConversation(t)
  \/ ReadLatest(t) \/ SetLatestRead(t)
-----------------------------------------------------------------------------
(* API calls *)

(* top: the call reaches the newest row, and then marks the latest message as read. *)
Start(kind, n, p, top) ==
  /\ kind \in Calls /\ ops < MaxOps /\ ops' = ops + 1
  /\ At(App, "idle") /\ (serial => At(Worker, "idle"))
  /\ local' = [local EXCEPT ![App].pc = p, ![App].n = n, ![App].top = top]
  /\ UNCHANGED <<wayVars, rowVars, recorder, single, serial, base>>

(* revokeOneMessage: the server first; in a single chat only one's own. *)
RevokeMessage(n) ==
  /\ Start("revoke", n, "revoke", FALSE)
  /\ n \in Active \ srvRevoked /\ (single => n \in mine)
  /\ srvRevoked' = srvRevoked \cup {n} /\ notes' = Append(notes, Note("revoke", n, {}))
  /\ UNCHANGED <<log, mine, srvGone, srvRead, mutex>>

(* deleteMessage *)
DeleteMessage(n) ==
  /\ Start("delete", n, "delete", FALSE) /\ n \in Stored /\ srvGone' = srvGone \cup {n}
  /\ UNCHANGED <<log, mine, srvRevoked, srvRead, notes, mutex>>

(* clearConversationFromLocalAndServer *)
ClearMessages ==
  /\ Start("clear", 0, "clear", FALSE) /\ srvGone' = srvGone \cup 1..log
  /\ UNCHANGED <<log, mine, srvRevoked, srvRead, notes, mutex>>

(* Mutant: the mutex is not held. *)
MarkConversation_Unlocked ==
  /\ conv.unread # 0 /\ UNCHANGED mutex
  /\ Start("markConversation", LocalMax, IF single THEN "markRows" ELSE "markCount",
           LocalMax \notin mine)
  /\ MarkOnServer(LocalMax, ReadNote(LocalMax, {n \in Seqs : Unread(n)}))

(* markConversationMessageAsRead: with the mutex to the end. *)
MarkConversation ==
  /\ mutex = "free" /\ conv.unread # 0 /\ mutex' = App
  /\ Start("markConversation", LocalMax, IF single THEN "markRows" ELSE "markCount",
           LocalMax \notin mine)
  /\ MarkOnServer(LocalMax, ReadNote(LocalMax, {n \in Seqs : Unread(n)}))

MarkRows ==
  /\ Step(App, "markRows") /\ Goto(App, "markCount")
  /\ rows' = [n \in Seqs |->
       IF n <= local[App].n /\ Unread(n) THEN [rows[n] EXCEPT !.read = TRUE] ELSE rows[n]]
  /\ UNCHANGED <<srvVars, conv, mutex, base>>

MarkCount ==
  /\ Step(App, "markCount") /\ conv' = [conv EXCEPT !.unread = 0]
  /\ base' = Max({base, local[App].n})
  /\ IF local[App].top
     THEN Goto(App, "latest") /\ UNCHANGED mutex
     ELSE Done(App) /\ mutex' = IF mutex = App THEN "free" ELSE mutex
  /\ UNCHANGED <<srvVars, rows>>

(* markMessagesAsReadByMsgID, with one message: without the mutex. *)
MarkMessage(n) ==
  /\ Start("markMessage", n, "markRow", n = LocalMax) /\ Unread(n)
  /\ MarkOnServer(n, ReadNote(n, {n})) /\ UNCHANGED mutex

MarkRow ==
  /\ Step(App, "markRow")
  /\ IF rows[local[App].n].st = "none"
     THEN (IF local[App].top THEN Goto(App, "latest") ELSE Done(App)) /\ UNCHANGED rows
     ELSE Goto(App, "markDecr") /\ rows' = [rows EXCEPT ![local[App].n].read = TRUE]
  /\ UNCHANGED <<srvVars, conv, mutex, base>>

MarkDecr ==
  /\ Step(App, "markDecr") /\ conv' = [conv EXCEPT !.unread = Decreased(@)]
  /\ IF local[App].top THEN Goto(App, "latest") ELSE Done(App)
  /\ UNCHANGED <<srvVars, rows, mutex, base>>
-----------------------------------------------------------------------------
World ==
  \/ \E own \in BOOLEAN : Publish(own)
  \/ \E n \in Seqs : RevokedElsewhere(n) \/ DeletedElsewhere(n) \/ ReadElsewhere(n) \/ PeerReads(n)
  \/ ClearedElsewhere \/ DeliverMsgs \/ DeliverNote \/ RequestSync

Work ==
  \/ DoMsgNew \/ ReadConversation \/ InsertMessages \/ UpdateConversation
  \/ SyncData \/ SyncAnswer \/ SyncUnread \/ UpdateLatest
  \/ DoRevokeMsg \/ DoDeleteMsgs \/ DoClearConversations \/ DoUnreadCount \/ SetUnreadCount
  \/ DoReadDrawing \/ UpdateMessage \/ Either(Worker)

Call ==
  \/ \E n \in Seqs : RevokeMessage(n) \/ DeleteMessage(n) \/ MarkMessage(n)
  \/ ClearMessages \/ MarkConversation \/ MarkRows \/ MarkCount \/ MarkRow \/ MarkDecr
  \/ Either(App)

Next == World \/ Work \/ Call

Spec == Init /\ [][Next]_vars
-----------------------------------------------------------------------------
Places ==
  {"idle", "lock", "insert", "update", "syncLock", "sync", "count", "receipt",
   "revoke", "revokeLatest", "delete", "deleteCount", "deleteLatest", "writeLatest",
   "clear", "clearRows", "clearConv", "latest", "latestRead",
   "markRows", "markCount", "markRow", "markDecr"}
Latest == [n : 0..MaxSeq, rev : BOOLEAN]
Row    == [st : {"none", "ok", "deleted"}, rev : BOOLEAN, read : BOOLEAN]
Conv   == [unread : 0..MaxSeq, latest : Latest, time : 0..MaxSeq]
Batch  == [from : 1..(MaxSeq + 1), to : 0..MaxSeq, gone : SUBSET Seqs, rev : SUBSET Seqs,
           count : 0..MaxSeq]
TypeOK ==
  /\ log \in 0..MaxSeq /\ mine \subseteq 1..log /\ srvRevoked \subseteq 1..log
  /\ srvGone \subseteq 1..log /\ srvRead \in 0..log
  /\ sent \in 0..log /\ noted \in 0..Len(notes)
  /\ rows \in [Seqs -> Row] /\ conv \in Conv
  /\ recorder \in 0..log /\ mutex \in Thread \cup {"free"}
  /\ local \in [Thread -> [pc : Places, n : 0..MaxSeq, latest : Latest, batch : Batch, conv : Conv,
                            row : Row, top : BOOLEAN]]
  /\ single \in BOOLEAN /\ serial \in BOOLEAN /\ ops \in 0..MaxOps /\ base \in 0..log

Rest ==
  sent = log /\ noted = Len(notes) /\ queue = <<>> /\ \A t \in Thread : At(t, "idle")

(***************************************************************************)
(* A revoked message that is in the local table ends as revoked, whoever   *)
(* revoked it, although a receipt may write back the row as it was before. *)
(***************************************************************************)
RevokeSettles == Rest => \A n \in srvRevoked \cap Stored : rows[n].rev

(***************************************************************************)
(* No message is counted twice, and none again that was read when the      *)
(* count was last set: by the synchronisation, by a mark as read here or   *)
(* on another device, or by clearing the conversation (which has no mutex: *)
(* only while the worker is idle).                                         *)
(***************************************************************************)
CountedOnce == conv.unread <= log - base

(***************************************************************************)
(* When handlers do not overlap, a group's latest message is as the table  *)
(* has it, and none is newer that is not deleted.  It may be deleted       *)
(* itself: after a revocation, which takes the newest row without a look   *)
(* at its status, of this message or an older one.                         *)
(***************************************************************************)
LatestSettles ==
  Rest /\ serial /\ ~single =>
    \E n \in Stored \cup {0} :
      /\ conv.latest = LatestOf(n) /\ \A m \in Active : m <= n
      /\ n \in Stored \ Active => \E m \in srvRevoked : m <= n

(* Both: when nothing is under way, what is shown of the conversation is settled. *)
ConversationSettles == RevokeSettles /\ LatestSettles
=============================================================================
