--------------------------- MODULE MsgSyncProofs ---------------------------
(***************************************************************************)
(* Theorems about MsgSync, for any conversations, bounds and faults: its   *)
(* types and bounds, what a step does to the synced numbers, and then that *)
(* what the syncer takes as synced is applied, stored or on its way, as    *)
(* far as no pushes are merged and no full channel makes a dispatch give   *)
(* up.                                                                     *)
(***************************************************************************)
EXTENDS MsgSync, SequenceTheorems, WellFoundedInduction, TLAPS

-----------------------------------------------------------------------------
(* Messages, batches, commands and events *)

(* The ways to build a message map. *)
LEMMA MsgMapType ==
  /\ NoMsgs \in MsgMap
  /\ \A m \in MsgMap : \A S : Part(m, S) \in MsgMap
  /\ \A c \in Conv, s \in Nat : Single(c, s) \in MsgMap
<1>1. NoMsgs \in MsgMap
  BY DEF NoMsgs, MsgMap
<1>2. ASSUME NEW m \in MsgMap, NEW S PROVE Part(m, S) \in MsgMap
  BY DEF Part, MsgMap
<1>3. ASSUME NEW c \in Conv, NEW s \in Nat PROVE Single(c, s) \in MsgMap
  BY <1>1 DEF Single, MsgMap
<1> QED BY <1>1, <1>2, <1>3

(* The ways to build a batch, a command and an event. *)
LEMMA BatchType ==
  /\ \A m \in MsgMap, S \in SUBSET Conv : Batch(m, S) \in Batches
  /\ NoBatch \in Batches
  /\ \A k \in CmdKinds, b \in Batches : Command(k, b) \in Commands
  /\ \A k \in EventKinds, m \in MsgMap : Event(k, m) \in Events
<1>1. \A m \in MsgMap, S \in SUBSET Conv : Batch(m, S) \in Batches
  BY DEF Batch, Batches
<1>2. NoBatch \in Batches
  BY <1>1, MsgMapType DEF NoBatch
<1>3. \A k \in CmdKinds, b \in Batches : Command(k, b) \in Commands
  BY DEF Command, Commands
<1>4. \A k \in EventKinds, m \in MsgMap : Event(k, m) \in Events
  BY DEF Event, Events
<1> QED BY <1>1, <1>2, <1>3, <1>4

(* A trigger is a sequence of events. *)
LEMMA TriggerType ==
  \A k \in EventKinds, m \in MsgMap : Trigger(k, m) \in Seq(Events)
<1> SUFFICES ASSUME NEW k \in EventKinds, NEW m \in MsgMap
             PROVE  Trigger(k, m) \in Seq(Events)
  OBVIOUS
<1>1. Event(k, m) \in Events
  BY BatchType
<1> QED BY <1>1 DEF Trigger

(* What sendCmdToChan leaves in a channel. *)
LEMMA ChannelType ==
  ASSUME NEW T, NEW ch \in Seq(T), NEW v \in T, NEW cap, NEW r \in SendCmdToChan(ch, cap, v)
  PROVE  r \in Seq(T)
<1>1. r = Append(ch, v) \/ r = ch
  BY DEF SendCmdToChan
<1> QED BY <1>1, AppendProperties

(* A pull returns a sequence of numbers of the log. *)
LEMMA PullType ==
  ASSUME TypeJob, NEW c \in Conv
  PROVE  PullMsgByRange(c) \in Seq(Nat)
<1> DEFINE first == IF c \in Regular /\ need[c].hi - PullNum >= need[c].lo
                    THEN need[c].hi - PullNum + 1 ELSE need[c].lo
           lo == IF first < 1 THEN 1 ELSE first
           len == AtLeast0(need[c].hi - lo + 1)
<1>1. PullNum \in Nat
  BY BoundAssumption DEF PullNum
<1>2. need[c].lo \in Int /\ need[c].hi \in Int
  BY DEF TypeJob
<1>3. lo \in Nat \ {0}
  <2>1. first \in Int
    BY <1>1, <1>2
  <2> HIDE DEF first
  <2> QED BY <2>1
<1>4. len \in Nat
  <2> HIDE DEF lo
  <2> QED BY <1>2, <1>3 DEF AtLeast0
<1>5. PullMsgByRange(c) = [i \in 1..len |-> lo + i - 1]
  BY DEF PullMsgByRange
<1> HIDE DEF lo, len
<1>6. \A i \in 1..len : lo + i - 1 \in Nat
  BY <1>3, <1>4
<1> QED BY <1>4, <1>5, <1>6

(* The numbers LoadSeq reads. *)
LEMMA LoadedType == TypeDb => LoadedSeqs \in [Conv -> Int]
<1> SUFFICES ASSUME TypeDb PROVE LoadedSeqs \in [Conv -> Int]
  OBVIOUS
<1>1. ASSUME NEW c \in Regular PROVE CheckConversationNormalMsgSeq(c) \in Nat
  <2> DEFINE top == {n \in chatLogs[c] : \A k \in chatLogs[c] : k <= n}
  <2>1. top \subseteq Nat
    BY DEF TypeDb
  <2>2. top # {} => (CHOOSE n \in top : TRUE) \in top
    OBVIOUS
  <2> HIDE DEF top
  <2>3. (IF top = {} THEN 0 ELSE CHOOSE n \in top : TRUE) \in Nat
    BY <2>1, <2>2
  <2> QED BY <2>3 DEF CheckConversationNormalMsgSeq, top
<1>2. \A c \in Notif : notifSeq[c] \in Int
  BY DEF TypeDb
<1> QED BY <1>1, <1>2 DEF LoadedSeqs, Conv, Absent
-----------------------------------------------------------------------------
(* Type correctness *)

(* What a step leaves alone keeps its type. *)
LEMMA TypeFrame ==
  /\ TypeServer /\ UNCHANGED serverVars => TypeServer'
  /\ TypeBatch /\ UNCHANGED batchVars => TypeBatch'
  /\ TypeSyncer /\ UNCHANGED <<synced, reinstalled, isSyncing>> => TypeSyncer'
  /\ TypeJob /\ UNCHANGED jobVars => TypeJob'
  /\ TypeEvents /\ UNCHANGED <<outbox, eventCh>> => TypeEvents'
  /\ TypeDb /\ UNCHANGED dbVars => TypeDb'
  BY DEF TypeServer, TypeBatch, TypeSyncer, TypeJob, TypeEvents, TypeDb,
         serverVars, batchVars, jobVars, dbVars

(* The syncer at rest has its types. *)
LEMMA IdleType == Idle => TypeJob'
<1> SUFFICES ASSUME Idle PROVE TypeJob'
  OBVIOUS
<1>1. push' \in Batches /\ res' \in MsgMap
  BY BatchType, MsgMapType DEF Idle
<1>2. need' \in [Conv -> [lo : Int, hi : Int]]
  BY DEF Idle, NoRange
<1> QED BY <1>1, <1>2 DEF Idle, TypeJob, PCs, Jobs

(* Initially every variable has its type. *)
LEMMA TypeInit == Init => TypeOK
<1> SUFFICES ASSUME Init PROVE TypeOK
  OBVIOUS
<1>1. TypeServer
  BY BoundAssumption DEF Init, TypeServer
<1>2. TypeBatch
  BY BatchType DEF Init, TypeBatch
<1>3. TypeJob
  <2>1. push \in Batches /\ res \in MsgMap
    BY BatchType, MsgMapType DEF Init
  <2>2. need \in [Conv -> [lo : Int, hi : Int]]
    BY DEF Init, NoRange
  <2> QED BY <2>1, <2>2 DEF Init, TypeJob, PCs, Jobs
<1>4. TypeEvents
  BY DEF Init, TypeEvents
<1>5. TypeDb
  <2>1. rows \subseteq Conv
    BY DEF Init, Conv
  <2>2. chatLogs \in [Regular -> SUBSET Nat] /\ handled \in [Notif -> SUBSET Nat]
    BY BoundAssumption DEF Init
  <2>3. notifSeq \in [Notif -> Int]
    BY BoundAssumption DEF Init, Absent
  <2>4. installed \in BOOLEAN
    BY FaultAssumption DEF Init
  <2> QED BY <2>1, <2>2, <2>3, <2>4 DEF TypeDb
<1>6. TypeSyncer
  BY <1>5, LoadedType DEF Init, TypeSyncer, LoadedReinstalled
<1> QED BY <1>1, <1>2, <1>3, <1>4, <1>5, <1>6 DEF Init, TypeOK

(* A push is a batch of one message. *)
LEMMA OneType == \A c \in Conv, n \in Nat : One(c, n) \in Batches
  BY BatchType, MsgMapType DEF One

(* The steps of the server, the connection and the batcher preserve the types. *)
LEMMA TypeEnvironment == TypeOK /\ Environment => TypeOK'
<1> SUFFICES ASSUME TypeOK, Environment PROVE TypeOK'
  OBVIOUS
<1> USE DEF TypeOK
<1>1. ASSUME NEW c \in Conv, Publish(c) PROVE TypeOK'
  <2>1. TypeServer'
    BY <1>1 DEF Publish, TypeServer
  <2> QED BY <1>1, <2>1, TypeFrame DEF Publish
<1>2. ASSUME NEW c \in Conv, NEW n \in 0..MaxSeq, PushDirect(c, n) PROVE TypeOK'
  <2>1. TypeServer'
    BY <1>2, BoundAssumption DEF PushDirect, TypeServer
  <2>2. Push(One(c, n)) \in Commands
    BY OneType, BatchType, BoundAssumption DEF Push, CmdKinds
  <2>3. pushCh' \in Seq(Commands)
    BY <1>2, <2>2, ChannelType DEF PushDirect, TypeBatch
  <2>4. TypeBatch'
    BY <1>2, <2>3 DEF PushDirect, TypeBatch
  <2> QED BY <1>2, <2>1, <2>4, TypeFrame DEF PushDirect
<1>3. ASSUME NEW c \in Conv, NEW n \in 0..MaxSeq, PushMerged(c, n) PROVE TypeOK'
  <2>1. TypeServer'
    BY <1>3, BoundAssumption DEF PushMerged, TypeServer
  <2>2. buffer \in Batches /\ n \in Nat
    BY BoundAssumption DEF TypeBatch
  <2>3. Append(buffer.msgs[c], n) \in Seq(Nat)
    BY <2>2, AppendProperties DEF Batches, MsgMap
  <2>4. Merged(c, n) \in Batches
    BY <2>2, <2>3 DEF Merged, Batches, MsgMap
  <2>5. TypeBatch'
    BY <1>3, <2>4 DEF PushMerged, TypeBatch
  <2> QED BY <1>3, <2>1, <2>5, TypeFrame DEF PushMerged
<1>4. CASE FlushBuffer \/ TimerFires \/ TimerDispatches
  <2>1. Push(buffer) \in Commands /\ Push(flushing) \in Commands
    BY BatchType DEF TypeBatch, Push, CmdKinds
  <2>2. pushCh' \in Seq(Commands)
    BY <1>4, <2>1, ChannelType DEF FlushBuffer, TimerFires, TimerDispatches, TypeBatch
  <2>3. TypeBatch'
    BY <1>4, <2>2, BatchType DEF FlushBuffer, TimerFires, TimerDispatches, TypeBatch
  <2> QED BY <1>4, <2>3, TypeFrame DEF FlushBuffer, TimerFires, TimerDispatches
<1>5. CASE Connect
  <2>1. TypeServer'
    BY <1>5 DEF Connect, TypeServer
  <2>2. Command("ConnSuccess", NoBatch) \in Commands
    BY BatchType DEF CmdKinds
  <2>3. pushCh' \in Seq(Commands)
    BY <1>5, <2>2, ChannelType DEF Connect, TypeBatch
  <2>4. TypeBatch'
    BY <1>5, <2>3 DEF Connect, TypeBatch
  <2> QED BY <1>5, <2>1, <2>4, TypeFrame DEF Connect
<1>6. CASE Disconnect
  <2>1. TypeServer'
    BY <1>6 DEF Disconnect, TypeServer
  <2>2. ops' \in Nat
    BY <1>6 DEF Disconnect
  <2> QED BY <1>6, <2>1, <2>2, TypeFrame DEF Disconnect
<1>7. ASSUME NEW k \in CmdKinds, NEW S \in SUBSET Conv, UserCommand(k, S) PROVE TypeOK'
  <2>1. Command(k, Batch(NoMsgs, S)) \in Commands
    BY BatchType, MsgMapType
  <2>2. pushCh' \in Seq(Commands)
    BY <1>7, <2>1, ChannelType DEF UserCommand, TypeBatch
  <2>3. TypeBatch'
    BY <1>7, <2>2 DEF UserCommand, TypeBatch
  <2>4. ops' \in Nat
    BY <1>7 DEF UserCommand
  <2> QED BY <1>7, <2>3, <2>4, TypeFrame DEF UserCommand
<1>8. CASE WakeUp \/ IMSync
  BY <1>7, <1>8 DEF WakeUp, IMSync, CmdKinds, Conv
<1>9. CASE SyncWindowEnds
  <2>1. TypeSyncer'
    BY <1>9 DEF SyncWindowEnds, TypeSyncer
  <2> QED BY <1>9, <2>1, TypeFrame DEF SyncWindowEnds
<1> QED BY <1>1, <1>2, <1>3, <1>4, <1>5, <1>6, <1>8, <1>9 DEF Environment

(* The first command in the channel. *)
LEMMA ReceivedType ==
  ASSUME TypeOK, NEW k, Received(k)
  PROVE  /\ pushCh # <<>> /\ Head(pushCh) \in Commands /\ TypeBatch'
         /\ ops' = ops /\ TypeServer' /\ TypeDb' /\ eventCh' = eventCh
         /\ synced' = synced /\ reinstalled' = reinstalled
<1>1. pushCh \in Seq(Commands) /\ pushCh # <<>>
  BY DEF Received, TypeOK, TypeBatch
<1>2. Head(pushCh) \in Commands /\ Tail(pushCh) \in Seq(Commands)
  BY <1>1
<1>3. TypeBatch'
  BY <1>2 DEF Received, TypeOK, TypeBatch
<1> QED BY <1>1, <1>2, <1>3, TypeFrame DEF Received, TypeOK

(* A dispatch made before the handler goes on. *)
LEMMA OneEventType ==
  \A k \in EventKinds, m \in MsgMap : <<Event(k, m)>> \in Seq(Events)
<1> SUFFICES ASSUME NEW k \in EventKinds, NEW m \in MsgMap
             PROVE  <<Event(k, m)>> \in Seq(Events)
  OBVIOUS
<1>1. Event(k, m) \in Events
  BY BatchType
<1> QED BY <1>1

(* The start of a command preserves the types. *)
LEMMA TypeStart ==
  ASSUME TypeOK,
         StartConnectedSync \/ StartWakeUpSync \/ IgnoreSync \/ StartIMSync \/ StartPush
  PROVE  TypeOK'
<1> USE DEF TypeOK
<1>1. /\ pushCh # <<>> /\ Head(pushCh) \in Commands /\ TypeBatch'
      /\ ops' = ops /\ TypeServer' /\ TypeDb' /\ eventCh' = eventCh
      /\ synced' = synced /\ reinstalled' = reinstalled
  BY ReceivedType DEF StartConnectedSync, StartWakeUpSync, IgnoreSync, StartIMSync, StartPush
<1>2. TypeSyncer'
  BY <1>1 DEF StartConnectedSync, StartWakeUpSync, IgnoreSync, StartIMSync, StartPush, TypeSyncer
<1>3. outbox' \in Seq(Events)
  <2>1. \A k \in EventKinds : <<Event(k, NoMsgs)>> \in Seq(Events)
    BY OneEventType, MsgMapType
  <2>2. outbox \in Seq(Events)
    BY DEF TypeEvents
  <2> QED BY <2>1, <2>2 DEF StartConnectedSync, StartWakeUpSync, IgnoreSync, StartIMSync,
                            StartPush, EventKinds
<1>4. TypeEvents'
  BY <1>1, <1>3 DEF TypeEvents
<1>5. Head(pushCh).batch \in Batches /\ Head(pushCh).batch.convs \subseteq Conv
  BY <1>1 DEF Commands, Batches
<1>6. TypeJob'
  BY <1>5 DEF StartConnectedSync, StartWakeUpSync, IgnoreSync, StartIMSync, StartPush,
              TypeJob, PCs, Jobs, jobVars
<1> QED BY <1>1, <1>2, <1>4, <1>6

(* The steps of a request for the maximum sequence numbers preserve the types. *)
LEMMA TypeMaxSeq ==
  ASSUME TypeOK, RetryMaxSeq \/ MaxSeqFailed \/ CompareSeqs PROVE TypeOK'
<1> USE DEF TypeOK
<1>1. CASE RetryMaxSeq
  <2>1. TypeJob'
    BY <1>1 DEF RetryMaxSeq, TypeJob
  <2> QED BY <1>1, <2>1, TypeFrame DEF RetryMaxSeq
<1>2. CASE MaxSeqFailed
  <2>1. TypeJob'
    BY <1>2, IdleType DEF MaxSeqFailed
  <2>2. <<Event("MsgSyncFailed", NoMsgs)>> \in Seq(Events)
    BY OneEventType, MsgMapType DEF EventKinds
  <2>3. TypeEvents'
    BY <1>2, <2>2 DEF MaxSeqFailed, TypeEvents
  <2> QED BY <1>2, <2>1, <2>3, TypeFrame DEF MaxSeqFailed
<1>3. CASE CompareSeqs
  <2>1. log \in [Conv -> Nat] /\ synced \in [Conv -> Int]
    BY DEF TypeServer, TypeSyncer
  <2>2. \A c \in Conv : RangeTo(synced[c], log[c]) \in [lo : Int, hi : Int]
    BY <2>1 DEF RangeTo
  <2>3. NoRange \in [lo : Int, hi : Int]
    BY DEF NoRange
  <2>4. need' \in [Conv -> [lo : Int, hi : Int]]
    BY <1>3, <2>2, <2>3 DEF CompareSeqs
  <2>5. TypeJob'
    BY <1>3, <2>4 DEF CompareSeqs, TypeJob, PCs
  <2>6. TypeSyncer'
    BY <1>3, <2>1 DEF CompareSeqs, TypeSyncer
  <2>7. notifSeq' \in [Notif -> Int]
    BY <1>3, <2>1 DEF CompareSeqs, TypeDb, Conv
  <2>8. handled' \in [Notif -> SUBSET Nat]
    <3>1. handled' = [c \in Notif |-> IF c \in Skipped THEN handled[c] \cup 1..log[c]
                                      ELSE handled[c]]
      BY <1>3 DEF CompareSeqs
    <3>2. ASSUME NEW c \in Notif PROVE handled[c] \in SUBSET Nat /\ 1..log[c] \in SUBSET Nat
      BY <2>1 DEF TypeDb, Conv
    <3> QED BY <3>1, <3>2
  <2>9. TypeDb'
    BY <1>3, <2>7, <2>8 DEF CompareSeqs, TypeDb
  <2> QED BY <1>3, <2>5, <2>6, <2>9, TypeFrame DEF CompareSeqs
<1> QED BY <1>1, <1>2, <1>3

(* The steps of a push preserve the types. *)
LEMMA TypePush ==
  ASSUME TypeOK, PushTriggered \/ \E c \in Conv : PushConversation(c) PROVE TypeOK'
<1> USE DEF TypeOK
<1>0. /\ push \in Batches /\ res \in MsgMap /\ need \in [Conv -> [lo : Int, hi : Int]]
      /\ synced \in [Conv -> Int]
  BY DEF TypeJob, TypeSyncer
<1>1. ASSUME NEW c \in Conv, PushConversation(c) PROVE TypeOK'
  <2> DEFINE storage == push.msgs[c]
             lastSeq == Last(storage)
             cur     == AtLeast0(synced[c])
             accept  == storage # <<>> /\ InSequence(storage, cur)
             pull    == storage # <<>> /\ ~accept /\ lastSeq > cur
  <2>1. storage \in Seq(Nat)
    BY <1>0 DEF Batches, MsgMap
  <2>2. storage # <<>> => lastSeq \in Nat
    BY <2>1 DEF Last
  <2>3. cur \in Nat
    BY <1>0 DEF AtLeast0
  <2>4. push' \in Batches
    <3>1. push' = [push EXCEPT !.msgs[c] = <<>>, !.convs = @ \ {c}]
      BY <1>1 DEF PushConversation
    <3>2. push.msgs \in MsgMap /\ push.convs \in SUBSET Conv
      BY <1>0 DEF Batches
    <3>3. [push.msgs EXCEPT ![c] = <<>>] \in MsgMap
      BY <3>2 DEF MsgMap
    <3> QED BY <1>0, <3>1, <3>2, <3>3 DEF Batches
  <2>5. outbox' \in Seq(Events)
    <3>1. <<Event(PhaseKind, Single(c, 0))>> \in Seq(Events)
      BY OneEventType, MsgMapType DEF PhaseKind, EventKinds
    <3>2. outbox' = IF c \in push.convs THEN <<Event(PhaseKind, Single(c, 0))>> ELSE <<>>
      BY <1>1 DEF PushConversation
    <3> QED BY <3>1, <3>2
  <2>6. res' \in MsgMap
    <3>1. res' = IF accept THEN [res EXCEPT ![c] = storage] ELSE res
      BY <1>1 DEF PushConversation
    <3> HIDE DEF storage, accept
    <3> QED BY <1>0, <2>1, <3>1 DEF MsgMap
  <2>7. synced' \in [Conv -> Int]
    <3>1. synced' = IF accept THEN [synced EXCEPT ![c] = lastSeq] ELSE synced
      BY <1>1 DEF PushConversation
    <3> HIDE DEF storage, lastSeq, cur
    <3> QED BY <1>0, <2>2, <3>1
  <2>8. need' \in [Conv -> [lo : Int, hi : Int]]
    <3>1. need' = IF pull THEN [need EXCEPT ![c] = RangeTo(cur, lastSeq)] ELSE need
      BY <1>1 DEF PushConversation
    <3> HIDE DEF storage, lastSeq, cur
    <3>2. pull => RangeTo(cur, lastSeq) \in [lo : Int, hi : Int]
      BY <2>2, <2>3 DEF RangeTo
    <3> HIDE DEF pull
    <3> QED BY <1>0, <3>1, <3>2
  <2>9. UNCHANGED <<serverVars, batchVars, reinstalled, isSyncing, pc, job, scope,
                    attempt, ret, eventCh, dbVars, ops>>
    BY <1>1 DEF PushConversation
  <2>10. TypeSyncer' /\ TypeEvents'
    BY <2>5, <2>7, <2>9 DEF TypeSyncer, TypeEvents
  <2>11. TypeJob'
    BY <2>4, <2>6, <2>8, <2>9 DEF TypeJob
  <2> QED BY <2>9, <2>10, <2>11, TypeFrame
<1>2. CASE PushTriggered
  <2>1. outbox' \in Seq(Events)
    BY <1>0, <1>2, TriggerType DEF PushTriggered, PhaseKind, EventKinds
  <2>2. TypeEvents'
    BY <1>2, <2>1 DEF PushTriggered, TypeEvents
  <2>3. TypeJob'
    BY <1>2, MsgMapType DEF PushTriggered, TypeJob, AfterPhase, PCs
  <2> QED BY <1>2, <2>2, <2>3, TypeFrame DEF PushTriggered
<1> QED BY <1>1, <1>2

(* The steps of the pulls, and the end of a command, preserve the types. *)
LEMMA TypePull ==
  ASSUME TypeOK, PullFailed \/ PullDone \/ EndSync \/ \E B \in SUBSET Conv : Pulled(B)
  PROVE  TypeOK'
<1> USE DEF TypeOK
<1>1. ASSUME NEW B \in SUBSET Conv, Pulled(B) PROVE TypeOK'
  <2> DEFINE msgs == [c \in Conv |-> IF c \in B THEN PullMsgByRange(c) ELSE <<>>]
  <2>1. msgs \in MsgMap
    BY PullType DEF MsgMap
  <2>2. PullKind \in EventKinds /\ "Notification" \in EventKinds
    BY DEF PullKind, EventKinds
  <2>3. /\ Trigger(PullKind, Part(msgs, Regular)) \in Seq(Events)
        /\ Trigger("Notification", Part(msgs, Notif)) \in Seq(Events)
    <3> HIDE DEF msgs
    <3> QED BY <2>1, <2>2, MsgMapType, TriggerType
  <2>4. outbox' = Trigger(PullKind, Part(msgs, Regular))
                    \o Trigger("Notification", Part(msgs, Notif))
    BY <1>1 DEF Pulled
  <2>5. outbox' \in Seq(Events)
    <3> HIDE DEF msgs
    <3> QED BY <2>3, <2>4, ConcatProperties
  <2>6. \A c \in Conv : SyncedTo(c) \in Int /\ synced[c] \in Int
    BY DEF TypeJob, TypeSyncer, SyncedTo
  <2>7. TypeSyncer' /\ TypeEvents'
    BY <1>1, <2>5, <2>6 DEF Pulled, TypeSyncer, TypeEvents
  <2>8. TypeJob'
    BY <1>1 DEF Pulled, TypeJob, NoRange
  <2> QED BY <1>1, <2>7, <2>8, TypeFrame DEF Pulled
<1>2. CASE PullFailed
  <2>1. TypeJob'
    BY <1>2 DEF PullFailed, TypeJob, NoRange
  <2> QED BY <1>2, <2>1, TypeFrame DEF PullFailed
<1>3. CASE PullDone
  <2>1. TypeJob'
    BY <1>3, IdleType DEF PullDone, TypeJob
  <2> QED BY <1>3, <2>1, TypeFrame DEF PullDone
<1>4. CASE EndSync
  <2>1. TypeJob'
    BY <1>4, IdleType DEF EndSync
  <2>2. \A k \in EventKinds : <<Event(k, NoMsgs)>> \in Seq(Events)
    BY OneEventType, MsgMapType
  <2>3. outbox' \in Seq(Events)
    BY <1>4, <2>2 DEF EndSync, EventKinds
  <2>4. TypeEvents'
    BY <1>4, <2>3 DEF EndSync, TypeEvents
  <2>5. TypeDb' /\ TypeSyncer'
    BY <1>4 DEF EndSync, TypeDb, TypeSyncer
  <2> QED BY <1>4, <2>1, <2>4, <2>5, TypeFrame DEF EndSync
<1> QED BY <1>1, <1>2, <1>3, <1>4

(* A dispatch to the event queue preserves the types. *)
LEMMA TypeDispatch == ASSUME TypeOK, Dispatch PROVE TypeOK'
<1> USE DEF TypeOK
<1>1. outbox \in Seq(Events) /\ eventCh \in Seq(Events) /\ outbox # <<>>
  BY DEF TypeEvents, Dispatch
<1>2. Head(outbox) \in Events /\ Tail(outbox) \in Seq(Events)
  BY <1>1
<1>3. eventCh' \in Seq(Events)
  BY <1>1, <1>2, ChannelType DEF Dispatch
<1>4. TypeEvents'
  BY <1>2, <1>3 DEF Dispatch, TypeEvents
<1> QED BY <1>4, TypeFrame DEF Dispatch

(* The steps of the conversation worker preserve the types. *)
LEMMA TypeWorker == ASSUME TypeOK, Worker PROVE TypeOK'
<1> USE DEF TypeOK
<1>0. eventCh \in Seq(Events) /\ outbox \in Seq(Events)
  BY DEF TypeEvents
<1>1. eventCh # <<>> => Head(eventCh) \in Events /\ Tail(eventCh) \in Seq(Events)
  BY <1>0
<1>2. ASSUME NEW c \in Conv, eventCh # <<>>
      PROVE  /\ Numbers(Head(eventCh).msgs[c]) \subseteq Nat
             /\ Next1(c) => eventCh' \in Seq(Events)
  <2> DEFINE m == Head(eventCh).msgs
  <2>1. m \in MsgMap /\ Head(eventCh).kind \in EventKinds
    BY <1>1, <1>2 DEF Events
  <2>2. Numbers(m[c]) \subseteq Nat
    BY <2>1 DEF Numbers, ToSet, MsgMap
  <2>3. [m EXCEPT ![c] = <<>>] \in MsgMap
    BY <2>1 DEF MsgMap
  <2>4. <<Event(Head(eventCh).kind, [m EXCEPT ![c] = <<>>])>> \in Seq(Events)
    BY <2>1, <2>3, OneEventType
  <2>5. ASSUME Next1(c) PROVE eventCh' \in Seq(Events)
    BY <1>1, <1>2, <2>4, <2>5, ConcatProperties DEF Next1
  <2> QED BY <2>2, <2>5
<1>3. ASSUME NEW c \in Regular, InsertMessages(c) PROVE TypeOK'
  <2>1. Numbers(Head(eventCh).msgs[c]) \subseteq Nat
    BY <1>2, <1>3 DEF InsertMessages, AtMessages, Conv
  <2>2. TypeDb'
    BY <1>3, <2>1 DEF InsertMessages, TypeDb
  <2> QED BY <1>3, <2>2, TypeFrame DEF InsertMessages
<1>4. ASSUME NEW c \in Regular, StoreConversation(c) PROVE TypeOK'
  <2>1. eventCh' \in Seq(Events)
    BY <1>2, <1>4 DEF StoreConversation, AtMessages, Conv
  <2>2. TypeEvents'
    BY <1>4, <2>1, <1>0 DEF StoreConversation, TypeEvents
  <2>3. TypeDb'
    BY <1>4 DEF StoreConversation, TypeDb, Conv
  <2> QED BY <1>4, <2>2, <2>3, TypeFrame DEF StoreConversation
<1>5. ASSUME NEW c \in Notif, DoNotifications(c) PROVE TypeOK'
  <2>1. Numbers(Head(eventCh).msgs[c]) \subseteq Nat
    BY <1>2, <1>5 DEF DoNotifications, AtNotifications, Conv
  <2>2. TypeDb'
    BY <1>5, <2>1 DEF DoNotifications, TypeDb
  <2> QED BY <1>5, <2>2, TypeFrame DEF DoNotifications
<1>6. ASSUME NEW c \in Notif, SetNotificationSeq(c) PROVE TypeOK'
  <2>1. eventCh' \in Seq(Events)
    BY <1>2, <1>6 DEF SetNotificationSeq, AtNotifications, Conv
  <2>2. TypeEvents'
    BY <1>6, <2>1, <1>0 DEF SetNotificationSeq, TypeEvents
  <2>3. Last(Head(eventCh).msgs[c]) \in Nat
    <3>1. Head(eventCh).msgs[c] \in Seq(Nat) /\ Head(eventCh).msgs[c] # <<>>
      BY <1>1, <1>6 DEF SetNotificationSeq, AtNotifications, Events, MsgMap, Conv
    <3> QED BY <3>1 DEF Last
  <2>4. notifSeq' \in [Notif -> Int]
    BY <1>6, <2>3 DEF SetNotificationSeq, TypeDb
  <2>5. TypeDb'
    BY <1>6, <2>4 DEF SetNotificationSeq, TypeDb
  <2> QED BY <1>6, <2>2, <2>5, TypeFrame DEF SetNotificationSeq
<1>7. CASE HandleFlag
  <2>1. TypeEvents'
    BY <1>0, <1>1, <1>7 DEF HandleFlag, TypeEvents
  <2>2. TypeDb'
    BY <1>7 DEF HandleFlag, TypeDb, Conv
  <2> QED BY <1>7, <2>1, <2>2, TypeFrame DEF HandleFlag
<1> QED BY <1>3, <1>4, <1>5, <1>6, <1>7 DEF Worker

(* A restart preserves the types. *)
LEMMA TypeCrash == ASSUME TypeOK, Crash PROVE TypeOK'
<1> USE DEF TypeOK
<1>1. TypeDb' /\ TypeServer' /\ TypeJob'
  BY TypeFrame, IdleType DEF Crash, TypeServer
<1>2. TypeSyncer'
  BY LoadedType DEF Crash, TypeSyncer, LoadedReinstalled
<1>3. TypeBatch' /\ TypeEvents'
  BY BatchType DEF Crash, TypeBatch, TypeEvents
<1>4. ops' \in Nat
  BY DEF Crash
<1> QED BY <1>1, <1>2, <1>3, <1>4

(* Every step preserves the types. *)
LEMMA TypeNext == TypeOK /\ [Next]_vars => TypeOK'
<1>1. TypeOK /\ (Resting \/ UNCHANGED vars) => TypeOK'
  BY TypeFrame DEF Resting, vars, TypeOK
<1> QED BY <1>1, TypeEnvironment, TypeStart, TypeMaxSeq, TypePush, TypePull, TypeDispatch,
           TypeWorker, TypeCrash DEF Next, Syncer

(* Type correctness of the syncer, its channels and the database. *)
THEOREM TypeCorrect == Spec => []TypeOK
  BY TypeInit, TypeNext, PTL DEF Spec
-----------------------------------------------------------------------------
(***************************************************************************)
(* SyncedMonotone, for any conversations, bounds and faults.  A synced     *)
(* number is set from a push, from a range computed earlier or from the    *)
(* server's maximum.  It never goes back because (1) a range is not older  *)
(* than the synced number while it waits to be pulled, which holds because *)
(* a push visits a conversation once and all its ranges are used up before *)
(* the next visits, and (2) whatever is on its way to the syncer or behind *)
(* it is in the server's log.                                              *)
(***************************************************************************)

(***************************************************************************)
(* MapIn(m, L): every number of the message map m is in a log of the       *)
(* lengths L.                                                              *)
(***************************************************************************)
MapIn(m, L) == \A c \in Conv : \A i \in 1..Len(m[c]) : m[c][i] <= L[c]
CommandsIn(q, L) == \A i \in 1..Len(q) : MapIn(q[i].batch.msgs, L)
EventsIn(q, L) == \A i \in 1..Len(q) : MapIn(q[i].msgs, L)

BatchesInLog ==
  /\ MapIn(buffer.msgs, log) /\ MapIn(flushing.msgs, log) /\ MapIn(push.msgs, log)
  /\ CommandsIn(pushCh, log)
EventsInLog == MapIn(res, log) /\ EventsIn(outbox, log) /\ EventsIn(eventCh, log)
StoredInLog ==
  /\ \A c \in Regular : \A k \in chatLogs[c] : k <= log[c]
  /\ \A c \in Notif : notifSeq[c] <= log[c]

(* A range to pull ends between the synced number and the log's end. *)
RangesNew ==
  \A c \in Conv : /\ synced[c] <= log[c]
                  /\ c \in Wanted => synced[c] <= need[c].hi /\ need[c].hi <= log[c]

(* What a push has still to visit has no range yet. *)
RangesVisited ==
  /\ pc = "idle" => Wanted = {}
  /\ pc \in {"msgs", "notifications"} => Wanted \cap Unvisited = {}

BoundsInv == BatchesInLog /\ EventsInLog /\ StoredInLog /\ RangesNew /\ RangesVisited
-----------------------------------------------------------------------------
(* MapIn, and the ways to build message maps, commands and events *)

Lengths == [Conv -> Nat]

(* A longer log holds what a shorter one does. *)
LEMMA MapInGrows ==
  ASSUME NEW K \in Lengths, NEW L \in Lengths, \A c \in Conv : K[c] <= L[c]
  PROVE  /\ \A m \in MsgMap : MapIn(m, K) => MapIn(m, L)
         /\ \A q \in Seq(Commands) : CommandsIn(q, K) => CommandsIn(q, L)
         /\ \A q \in Seq(Events) : EventsIn(q, K) => EventsIn(q, L)
<1>1. ASSUME NEW m \in MsgMap, MapIn(m, K) PROVE MapIn(m, L)
  <2> SUFFICES ASSUME NEW c \in Conv, NEW i \in 1..Len(m[c]) PROVE m[c][i] <= L[c]
    BY DEF MapIn
  <2>1. m[c] \in Seq(Nat)
    BY DEF MsgMap
  <2>2. m[c][i] \in Nat /\ K[c] \in Nat /\ L[c] \in Nat
    BY <2>1 DEF Lengths
  <2>3. m[c][i] <= K[c] /\ K[c] <= L[c]
    BY <1>1 DEF MapIn
  <2> QED BY <2>2, <2>3
<1>2. ASSUME NEW q \in Seq(Commands), CommandsIn(q, K) PROVE CommandsIn(q, L)
  <2>1. \A i \in 1..Len(q) : q[i] \in Commands
    OBVIOUS
  <2>2. \A v \in Commands : v.batch.msgs \in MsgMap
    BY DEF Commands, Batches
  <2> QED BY <1>1, <1>2, <2>1, <2>2 DEF CommandsIn
<1>3. ASSUME NEW q \in Seq(Events), EventsIn(q, K) PROVE EventsIn(q, L)
  <2>1. \A i \in 1..Len(q) : q[i] \in Events
    OBVIOUS
  <2>2. \A e \in Events : e.msgs \in MsgMap
    BY DEF Events
  <2> QED BY <1>1, <1>3, <2>1, <2>2 DEF EventsIn
<1> QED BY <1>1, <1>2, <1>3

(* The message maps the syncer builds are in the log if their parts are. *)
LEMMA MapInBuilt ==
  ASSUME NEW L \in Lengths
  PROVE  /\ MapIn(NoMsgs, L)
         /\ \A c \in Conv : MapIn(Single(c, 0), L)
         /\ \A c \in Conv, n \in Nat : n <= L[c] => MapIn(Single(c, n), L)
         /\ \A m \in MsgMap : \A S : MapIn(m, L) => MapIn(Part(m, S), L)
         /\ \A m \in MsgMap, c \in Conv : MapIn(m, L) => MapIn([m EXCEPT ![c] = <<>>], L)
<1>1. MapIn(NoMsgs, L)
  BY DEF MapIn, NoMsgs
<1>2. ASSUME NEW c \in Conv, NEW n \in Nat, n <= L[c] PROVE MapIn(Single(c, n), L)
  <2>1. Single(c, n)[c] = <<n>> /\ \A d \in Conv \ {c} : Single(c, n)[d] = <<>>
    BY DEF Single, NoMsgs
  <2> QED BY <1>2, <2>1 DEF MapIn
<1>3. \A c \in Conv : 0 <= L[c]
  BY DEF Lengths
<1>4. ASSUME NEW m \in MsgMap, NEW S, MapIn(m, L) PROVE MapIn(Part(m, S), L)
  <2>1. \A c \in Conv : Part(m, S)[c] = m[c] \/ Part(m, S)[c] = <<>>
    BY DEF Part
  <2> QED BY <1>4, <2>1 DEF MapIn
<1>5. ASSUME NEW m \in MsgMap, NEW c \in Conv, MapIn(m, L)
      PROVE  MapIn([m EXCEPT ![c] = <<>>], L)
  <2>1. \A d \in Conv : [m EXCEPT ![c] = <<>>][d] = m[d] \/ [m EXCEPT ![c] = <<>>][d] = <<>>
    BY DEF MsgMap
  <2> QED BY <1>5, <2>1 DEF MapIn
<1> QED BY <1>1, <1>2, <1>3, <1>4, <1>5

(* Events in the log, through the operations on their queues. *)
LEMMA EventsInBuilt ==
  ASSUME NEW L \in Lengths
  PROVE  /\ EventsIn(<<>>, L)
         /\ \A k \in EventKinds, m \in MsgMap : MapIn(m, L) => EventsIn(<<Event(k, m)>>, L)
         /\ \A k \in EventKinds, m \in MsgMap : MapIn(m, L) => EventsIn(Trigger(k, m), L)
         /\ \A p, q \in Seq(Events) : EventsIn(p, L) /\ EventsIn(q, L) => EventsIn(p \o q, L)
         /\ \A q \in Seq(Events) : q # <<>> /\ EventsIn(q, L) =>
               MapIn(Head(q).msgs, L) /\ EventsIn(Tail(q), L)
<1>1. EventsIn(<<>>, L)
  BY DEF EventsIn
<1>2. ASSUME NEW k \in EventKinds, NEW m \in MsgMap, MapIn(m, L)
      PROVE  EventsIn(<<Event(k, m)>>, L)
  BY <1>2 DEF EventsIn, Event
<1>3. \A k \in EventKinds, m \in MsgMap : MapIn(m, L) => EventsIn(Trigger(k, m), L)
  BY <1>1, <1>2 DEF Trigger
<1>4. ASSUME NEW p \in Seq(Events), NEW q \in Seq(Events), EventsIn(p, L), EventsIn(q, L)
      PROVE  EventsIn(p \o q, L)
  BY <1>4, ConcatProperties DEF EventsIn
<1>5. ASSUME NEW q \in Seq(Events), q # <<>>, EventsIn(q, L)
      PROVE  MapIn(Head(q).msgs, L) /\ EventsIn(Tail(q), L)
  <2>1. Head(q) = q[1] /\ 1 \in 1..Len(q)
    BY <1>5
  <2>2. \A i \in 1..Len(Tail(q)) : Tail(q)[i] = q[i + 1] /\ i + 1 \in 1..Len(q)
    BY <1>5
  <2> QED BY <1>5, <2>1, <2>2 DEF EventsIn
<1> QED BY <1>1, <1>2, <1>3, <1>4, <1>5

(* Commands in the log, through the operations on their channel. *)
LEMMA CommandsInBuilt ==
  ASSUME NEW L \in Lengths
  PROVE  /\ CommandsIn(<<>>, L)
         /\ \A q \in Seq(Commands), v \in Commands : \A cap :
               \A r \in SendCmdToChan(q, cap, v) :
                  CommandsIn(q, L) /\ MapIn(v.batch.msgs, L) => CommandsIn(r, L)
         /\ \A q \in Seq(Commands) : q # <<>> /\ CommandsIn(q, L) =>
               MapIn(Head(q).batch.msgs, L) /\ CommandsIn(Tail(q), L)
<1>1. CommandsIn(<<>>, L)
  BY DEF CommandsIn
<1>2. ASSUME NEW q \in Seq(Commands), NEW v \in Commands, NEW cap,
             NEW r \in SendCmdToChan(q, cap, v), CommandsIn(q, L), MapIn(v.batch.msgs, L)
      PROVE  CommandsIn(r, L)
  <2>1. r = Append(q, v) \/ r = q
    BY DEF SendCmdToChan
  <2>2. CommandsIn(Append(q, v), L)
    BY <1>2, AppendProperties DEF CommandsIn
  <2> QED BY <1>2, <2>1, <2>2
<1>3. ASSUME NEW q \in Seq(Commands), q # <<>>, CommandsIn(q, L)
      PROVE  MapIn(Head(q).batch.msgs, L) /\ CommandsIn(Tail(q), L)
  <2>1. Head(q) = q[1] /\ 1 \in 1..Len(q)
    BY <1>3
  <2>2. \A i \in 1..Len(Tail(q)) : Tail(q)[i] = q[i + 1] /\ i + 1 \in 1..Len(q)
    BY <1>3
  <2> QED BY <1>3, <2>1, <2>2 DEF CommandsIn
<1> QED BY <1>1, <1>2, <1>3
-----------------------------------------------------------------------------
(* BoundsInv holds initially, and every step preserves it *)

(* What LoadSeq reads is in the log. *)
LEMMA LoadedInLog ==
  TypeOK /\ StoredInLog => \A c \in Conv : LoadedSeqs[c] <= log[c]
<1> SUFFICES ASSUME TypeOK, StoredInLog, NEW c \in Conv PROVE LoadedSeqs[c] <= log[c]
  OBVIOUS
<1>1. log[c] \in Nat
  BY DEF TypeOK, TypeServer
<1>2. ASSUME c \in Regular PROVE CheckConversationNormalMsgSeq(c) <= log[c]
  <2> DEFINE top == {n \in chatLogs[c] : \A k \in chatLogs[c] : k <= n}
  <2>1. \A n \in top : n <= log[c]
    BY <1>2 DEF StoredInLog
  <2>2. top # {} => (CHOOSE n \in top : TRUE) \in top
    OBVIOUS
  <2> HIDE DEF top
  <2>3. (IF top = {} THEN 0 ELSE CHOOSE n \in top : TRUE) <= log[c]
    BY <1>1, <2>1, <2>2
  <2> QED BY <2>3 DEF CheckConversationNormalMsgSeq, top
<1>3. c \in Notif => notifSeq[c] <= log[c]
  BY DEF StoredInLog
<1> QED BY <1>1, <1>2, <1>3 DEF LoadedSeqs, Conv, Absent

(* Initially. *)
LEMMA BoundsInit == Init => BoundsInv
<1> SUFFICES ASSUME Init PROVE BoundsInv
  OBVIOUS
<1>1. TypeOK /\ log \in Lengths
  BY TypeInit DEF TypeOK, TypeServer, Lengths
<1>2. BatchesInLog
  BY <1>1, MapInBuilt, CommandsInBuilt DEF Init, BatchesInLog, NoBatch, Batch
<1>3. EventsInLog
  BY <1>1, MapInBuilt, EventsInBuilt DEF Init, EventsInLog
<1>4. StoredInLog
  BY BoundAssumption DEF Init, StoredInLog, Conv, Absent
<1>5. Wanted = {}
  BY DEF Init, Wanted, NoRange
<1>6. RangesNew
  BY <1>1, <1>4, <1>5, LoadedInLog DEF Init, RangesNew
<1>7. RangesVisited
  BY <1>5 DEF Init, RangesVisited
<1> QED BY <1>2, <1>3, <1>4, <1>6, <1>7 DEF BoundsInv

(* What a step that leaves the log alone keeps. *)
LEMMA BoundsFrame ==
  /\ BatchesInLog /\ log' = log /\ UNCHANGED <<batchVars, push>> => BatchesInLog'
  /\ EventsInLog /\ log' = log /\ UNCHANGED <<res, outbox, eventCh>> => EventsInLog'
  /\ StoredInLog /\ log' = log /\ UNCHANGED <<chatLogs, notifSeq>> => StoredInLog'
  /\ RangesNew /\ log' = log /\ UNCHANGED <<synced, need>> => RangesNew'
  /\ RangesVisited /\ UNCHANGED <<pc, push, need>> => RangesVisited'
<1>1. BatchesInLog /\ log' = log /\ UNCHANGED <<batchVars, push>> => BatchesInLog'
  BY DEF BatchesInLog, batchVars
<1>2. EventsInLog /\ log' = log /\ UNCHANGED <<res, outbox, eventCh>> => EventsInLog'
  BY DEF EventsInLog
<1>3. StoredInLog /\ log' = log /\ UNCHANGED <<chatLogs, notifSeq>> => StoredInLog'
  BY DEF StoredInLog
<1>4. RangesNew /\ log' = log /\ UNCHANGED <<synced, need>> => RangesNew'
  BY DEF RangesNew, Wanted
<1>5. RangesVisited /\ UNCHANGED <<pc, push, need>> => RangesVisited'
  BY DEF RangesVisited, Wanted, Unvisited
<1> QED BY <1>1, <1>2, <1>3, <1>4, <1>5

(* A log that grows keeps the invariant. *)
LEMMA BoundsPublish ==
  ASSUME TypeOK, BoundsInv, NEW c \in Conv, Publish(c) PROVE BoundsInv'
<1>1. log \in Lengths /\ log' \in Lengths /\ \A d \in Conv : log[d] <= log'[d]
  BY DEF Publish, TypeOK, TypeServer, Lengths
<1>2. UNCHANGED <<batchVars, push, res, outbox, eventCh, chatLogs, notifSeq, synced, need, pc>>
  BY DEF Publish, jobVars, dbVars
<1>3. BatchesInLog'
  <2>1. /\ buffer.msgs \in MsgMap /\ flushing.msgs \in MsgMap /\ push.msgs \in MsgMap
        /\ pushCh \in Seq(Commands)
    BY DEF TypeOK, TypeBatch, TypeJob, Batches
  <2> QED BY <1>1, <1>2, <2>1, MapInGrows DEF BoundsInv, BatchesInLog, batchVars
<1>4. EventsInLog'
  <2>1. res \in MsgMap /\ outbox \in Seq(Events) /\ eventCh \in Seq(Events)
    BY DEF TypeOK, TypeJob, TypeEvents
  <2> QED BY <1>1, <1>2, <2>1, MapInGrows DEF BoundsInv, EventsInLog
<1>5. StoredInLog'
  <2>1. ASSUME NEW d \in Regular, NEW k \in chatLogs[d] PROVE k <= log'[d]
    <3>1. d \in Conv /\ k \in Nat /\ k <= log[d]
      BY DEF TypeOK, TypeDb, Conv, BoundsInv, StoredInLog
    <3>2. log[d] \in Nat /\ log'[d] \in Nat /\ log[d] <= log'[d]
      BY <1>1, <3>1 DEF Lengths
    <3> QED BY <3>1, <3>2
  <2>2. ASSUME NEW d \in Notif PROVE notifSeq[d] <= log'[d]
    <3>1. d \in Conv /\ notifSeq[d] \in Int /\ notifSeq[d] <= log[d]
      BY DEF TypeOK, TypeDb, Conv, BoundsInv, StoredInLog
    <3>2. log[d] \in Nat /\ log'[d] \in Nat /\ log[d] <= log'[d]
      BY <1>1, <3>1 DEF Lengths
    <3> QED BY <3>1, <3>2
  <2> QED BY <1>2, <2>1, <2>2 DEF StoredInLog
<1>6. RangesNew'
  <2> SUFFICES ASSUME NEW d \in Conv
               PROVE  /\ synced[d] <= log'[d]
                      /\ d \in Wanted => synced[d] <= need[d].hi /\ need[d].hi <= log'[d]
    BY <1>2 DEF RangesNew, Wanted
  <2>1. log[d] \in Nat /\ log'[d] \in Nat /\ log[d] <= log'[d]
    BY <1>1 DEF Lengths
  <2>2. synced[d] \in Int /\ need[d].hi \in Int
    BY DEF TypeOK, TypeSyncer, TypeJob
  <2>3. /\ synced[d] <= log[d]
        /\ d \in Wanted => synced[d] <= need[d].hi /\ need[d].hi <= log[d]
    BY DEF BoundsInv, RangesNew
  <2> QED BY <2>1, <2>2, <2>3
<1> QED BY <1>2, <1>3, <1>4, <1>5, <1>6, BoundsFrame DEF BoundsInv

(* A number of the log may be appended to a message map. *)
LEMMA MapInAppend ==
  ASSUME NEW L \in Lengths, NEW m \in MsgMap, MapIn(m, L),
         NEW c \in Conv, NEW n \in Nat, n <= L[c]
  PROVE  MapIn([m EXCEPT ![c] = Append(@, n)], L)
<1>1. m[c] \in Seq(Nat)
  BY DEF MsgMap
<1>2. \A i \in 1..Len(Append(m[c], n)) : Append(m[c], n)[i] <= L[c]
  BY <1>1, AppendProperties DEF MapIn
<1>3. \A d \in Conv : [m EXCEPT ![c] = Append(@, n)][d] = IF d = c THEN Append(m[c], n) ELSE m[d]
  BY DEF MsgMap
<1> QED BY <1>2, <1>3 DEF MapIn

(* The other steps of the server, the connection and the batcher. *)
LEMMA BoundsEnvironment ==
  ASSUME TypeOK, BoundsInv, Environment PROVE BoundsInv'
<1> USE DEF BoundsInv
<1>0. log \in Lengths /\ pushCh \in Seq(Commands) /\ buffer \in Batches /\ flushing \in Batches
  BY DEF TypeOK, TypeServer, TypeBatch, Lengths
<1>1. \A c \in Conv : Publish(c) => BoundsInv'
  BY BoundsPublish
<1>2. ASSUME NEW b \in Batches, MapIn(b.msgs, log), NEW k \in CmdKinds,
             NEW ch \in SendCmdToChan(pushCh, PushCap, Command(k, b))
      PROVE  CommandsIn(ch, log)
  <2>1. Command(k, b) \in Commands /\ Command(k, b).batch = b
    BY BatchType DEF Command
  <2> QED BY <1>0, <1>2, <2>1, CommandsInBuilt DEF BatchesInLog
<1>3. ASSUME NEW c \in Conv, NEW n \in 0..MaxSeq, n \in Pushable(c)
      PROVE  n \in Nat /\ n <= log[c] /\ MapIn(One(c, n).msgs, log)
  <2>1. n \in Nat /\ n <= log[c]
    BY <1>0, <1>3 DEF Pushable, Lengths
  <2> QED BY <1>0, <2>1, MapInBuilt DEF One, Batch
<1>4. ASSUME NEW c \in Conv, NEW n \in 0..MaxSeq, PushDirect(c, n) PROVE BoundsInv'
  <2>1. One(c, n) \in Batches /\ MapIn(One(c, n).msgs, log)
    BY <1>3, <1>4, OneType DEF PushDirect
  <2>2. CommandsIn(pushCh', log)
    BY <1>2, <1>4, <2>1 DEF PushDirect, Push, CmdKinds
  <2>3. BatchesInLog'
    BY <1>4, <2>2 DEF PushDirect, BatchesInLog, jobVars
  <2> QED BY <1>4, <2>3, BoundsFrame DEF PushDirect, jobVars, dbVars
<1>5. ASSUME NEW c \in Conv, NEW n \in 0..MaxSeq, PushMerged(c, n) PROVE BoundsInv'
  <2>1. n \in Nat /\ n <= log[c]
    BY <1>3, <1>5 DEF PushMerged
  <2>2. buffer.msgs \in MsgMap /\ MapIn(buffer.msgs, log)
    BY <1>0 DEF BatchesInLog, Batches
  <2>3. MapIn([buffer.msgs EXCEPT ![c] = Append(@, n)], log)
    BY <1>0, <2>1, <2>2, MapInAppend
  <2>4. MapIn(Merged(c, n).msgs, log)
    BY <1>0, <2>2, <2>3 DEF Merged, Batches
  <2>5. BatchesInLog'
    BY <1>5, <2>4 DEF PushMerged, BatchesInLog, jobVars
  <2> QED BY <1>5, <2>5, BoundsFrame DEF PushMerged, jobVars, dbVars
<1>6. CASE FlushBuffer \/ TimerFires \/ TimerDispatches
  <2>1. MapIn(NoBatch.msgs, log)
    BY <1>0, MapInBuilt DEF NoBatch, Batch
  <2>2. CommandsIn(pushCh', log)
    BY <1>0, <1>2, <1>6 DEF FlushBuffer, TimerFires, TimerDispatches, Push, CmdKinds, BatchesInLog
  <2>3. BatchesInLog'
    BY <1>6, <2>1, <2>2 DEF FlushBuffer, TimerFires, TimerDispatches, BatchesInLog, jobVars,
                            serverVars
  <2> QED BY <1>6, <2>3, BoundsFrame
             DEF FlushBuffer, TimerFires, TimerDispatches, jobVars, dbVars, serverVars
<1>7. ASSUME UNCHANGED <<log, buffer, flushing, synced, reinstalled, isSyncing, jobVars,
                         outbox, eventCh, dbVars>>,
             CommandsIn(pushCh', log)
      PROVE  BoundsInv'
  <2>1. BatchesInLog'
    BY <1>7 DEF BatchesInLog, jobVars
  <2> QED BY <1>7, <2>1, BoundsFrame DEF jobVars, dbVars
<1>8. CASE Connect
  <2>1. NoBatch \in Batches /\ MapIn(NoBatch.msgs, log)
    BY <1>0, BatchType, MapInBuilt DEF NoBatch, Batch
  <2>2. CommandsIn(pushCh', log)
    BY <1>2, <1>8, <2>1 DEF Connect, CmdKinds
  <2> QED BY <1>7, <1>8, <2>2 DEF Connect
<1>9. CASE WakeUp \/ IMSync
  <2>1. ASSUME NEW k \in CmdKinds, NEW S \in SUBSET Conv, UserCommand(k, S) PROVE BoundsInv'
    <3>1. Batch(NoMsgs, S) \in Batches /\ MapIn(Batch(NoMsgs, S).msgs, log)
      BY <1>0, BatchType, MsgMapType, MapInBuilt DEF Batch
    <3>2. CommandsIn(pushCh', log)
      BY <1>2, <2>1, <3>1 DEF UserCommand
    <3> QED BY <1>7, <2>1, <3>2 DEF UserCommand, serverVars
  <2> QED BY <1>9, <2>1 DEF WakeUp, IMSync, CmdKinds, Conv
<1>10. CASE Disconnect \/ SyncWindowEnds
  BY <1>10, BoundsFrame DEF Disconnect, SyncWindowEnds, serverVars, jobVars, dbVars
<1> QED BY <1>1, <1>4, <1>5, <1>6, <1>8, <1>9, <1>10 DEF Environment

(* A command that ends leaves no range. *)
LEMMA BoundsIdle ==
  ASSUME TypeOK, Idle, log' = log
  PROVE  /\ Wanted' = {} /\ RangesVisited'
         /\ MapIn(push'.msgs, log') /\ MapIn(res', log')
<1>1. log \in Lengths
  BY DEF TypeOK, TypeServer, Lengths
<1>2. Wanted' = {}
  BY DEF Idle, Wanted, NoRange
<1>3. RangesVisited'
  BY <1>2 DEF RangesVisited
<1>4. push'.msgs = NoMsgs /\ res' = NoMsgs
  BY DEF Idle, NoBatch, Batch
<1>5. MapIn(NoMsgs, log)
  BY <1>1, MapInBuilt
<1> QED BY <1>2, <1>3, <1>4, <1>5

(* The start of a command, and a dispatch to the event queue. *)
LEMMA BoundsStart ==
  ASSUME TypeOK, BoundsInv,
         StartConnectedSync \/ StartWakeUpSync \/ IgnoreSync \/ StartIMSync \/ StartPush
         \/ Dispatch
  PROVE  BoundsInv'
<1> USE DEF BoundsInv
<1>0. /\ log \in Lengths /\ pushCh \in Seq(Commands)
      /\ outbox \in Seq(Events) /\ eventCh \in Seq(Events)
  BY DEF TypeOK, TypeServer, TypeBatch, TypeEvents, Lengths
<1>1. CASE Dispatch
  <2>1. outbox # <<>> /\ Head(outbox) \in Events
    BY <1>0, <1>1 DEF Dispatch
  <2>2. MapIn(Head(outbox).msgs, log) /\ EventsIn(Tail(outbox), log)
    BY <1>0, <2>1, EventsInBuilt DEF EventsInLog
  <2>3. eventCh' = Append(eventCh, Head(outbox)) \/ eventCh' = eventCh
    BY <1>1 DEF Dispatch, SendCmdToChan
  <2>4. EventsIn(Append(eventCh, Head(outbox)), log)
    BY <1>0, <2>1, <2>2, AppendProperties DEF EventsIn, EventsInLog
  <2>5. EventsInLog'
    BY <1>1, <2>2, <2>3, <2>4 DEF Dispatch, EventsInLog, serverVars, jobVars
  <2> QED BY <1>1, <2>5, BoundsFrame DEF Dispatch, serverVars, jobVars, dbVars
<1>2. ASSUME StartConnectedSync \/ StartWakeUpSync \/ IgnoreSync \/ StartIMSync \/ StartPush
      PROVE  BoundsInv'
  <2>1. /\ pushCh # <<>> /\ pushCh' = Tail(pushCh) /\ pc = "idle"
        /\ UNCHANGED <<serverVars, buffer, flushing, synced, reinstalled, eventCh, dbVars>>
    BY <1>2 DEF StartConnectedSync, StartWakeUpSync, IgnoreSync, StartIMSync, StartPush,
                Received, Ready
  <2>2. MapIn(Head(pushCh).batch.msgs, log) /\ CommandsIn(Tail(pushCh), log)
    BY <1>0, <2>1, CommandsInBuilt DEF BatchesInLog
  <2>3. push' = push \/ push' = Head(pushCh).batch
    BY <1>2 DEF StartConnectedSync, StartWakeUpSync, IgnoreSync, StartIMSync, StartPush, jobVars
  <2>4. BatchesInLog'
    BY <2>1, <2>2, <2>3 DEF BatchesInLog, serverVars
  <2>5. need' = need /\ res' = res
    BY <1>2 DEF StartConnectedSync, StartWakeUpSync, IgnoreSync, StartIMSync, StartPush, jobVars
  <2>6. Wanted' = {}
    BY <2>1, <2>5 DEF RangesVisited, Wanted
  <2>7. EventsIn(outbox', log)
    <3>1. \A k \in EventKinds : EventsIn(<<Event(k, NoMsgs)>>, log)
      BY <1>0, MapInBuilt, MsgMapType, EventsInBuilt
    <3>2. EventsIn(outbox, log)
      BY DEF EventsInLog
    <3> QED BY <1>2, <3>1, <3>2
               DEF StartConnectedSync, StartWakeUpSync, IgnoreSync, StartIMSync, StartPush,
                   EventKinds
  <2>8. EventsInLog'
    BY <2>1, <2>5, <2>7 DEF EventsInLog, serverVars
  <2>9. RangesVisited'
    BY <2>6 DEF RangesVisited
  <2> QED BY <2>1, <2>4, <2>5, <2>8, <2>9, BoundsFrame DEF serverVars, dbVars
<1> QED BY <1>1, <1>2

(* The request for the maximum sequence numbers. *)
LEMMA BoundsMaxSeq ==
  ASSUME TypeOK, BoundsInv, RetryMaxSeq \/ MaxSeqFailed \/ CompareSeqs PROVE BoundsInv'
<1> USE DEF BoundsInv
<1>0. log \in Lengths /\ log \in [Conv -> Nat] /\ synced \in [Conv -> Int]
  BY DEF TypeOK, TypeServer, TypeSyncer, Lengths
<1>1. CASE RetryMaxSeq
  BY <1>1, BoundsFrame DEF RetryMaxSeq, serverVars, dbVars
<1>2. CASE MaxSeqFailed
  <2>1. log' = log /\ Idle /\ UNCHANGED <<batchVars, synced, eventCh, dbVars>>
    BY <1>2 DEF MaxSeqFailed, serverVars
  <2>2. EventsIn(outbox', log)
    <3>1. EventsIn(<<Event("MsgSyncFailed", NoMsgs)>>, log) /\ EventsIn(<<>>, log)
      BY <1>0, MapInBuilt, MsgMapType, EventsInBuilt DEF EventKinds
    <3> QED BY <1>2, <3>1 DEF MaxSeqFailed
  <2>3. /\ Wanted' = {} /\ RangesVisited'
        /\ MapIn(push'.msgs, log') /\ MapIn(res', log')
    BY <2>1, BoundsIdle
  <2>4. BatchesInLog' /\ EventsInLog'
    BY <2>1, <2>2, <2>3 DEF BatchesInLog, EventsInLog, batchVars
  <2>5. RangesNew'
    BY <2>1, <2>3 DEF RangesNew
  <2> QED BY <2>1, <2>3, <2>4, <2>5, BoundsFrame DEF dbVars
<1>3. CASE CompareSeqs
  <2>1. UNCHANGED <<log, batchVars, push, res, outbox, eventCh, chatLogs>> /\ pc' = "pull"
    BY <1>3 DEF CompareSeqs, serverVars
  <2>2. Skipped \subseteq Notif
    BY DEF Skipped
  <2>3. StoredInLog'
    <3>1. ASSUME NEW c \in Notif PROVE notifSeq'[c] <= log[c]
      <4>1. log[c] \in Nat /\ notifSeq[c] <= log[c]
        BY <1>0 DEF Conv, StoredInLog
      <4>2. notifSeq'[c] = notifSeq[c] \/ notifSeq'[c] = log[c]
        BY <1>3 DEF CompareSeqs
      <4> QED BY <4>1, <4>2
    <3> QED BY <2>1, <3>1 DEF StoredInLog
  <2>4. RangesNew'
    <3> SUFFICES ASSUME NEW c \in Conv
                 PROVE  /\ synced'[c] <= log[c]
                        /\ c \in Wanted' => synced'[c] <= need'[c].hi /\ need'[c].hi <= log[c]
      BY <2>1 DEF RangesNew
    <3>1. log[c] \in Nat /\ synced[c] \in Int /\ synced[c] <= log[c]
      BY <1>0 DEF RangesNew
    <3>2. synced'[c] = IF c \in Skipped THEN log[c] ELSE synced[c]
      BY <1>3 DEF CompareSeqs
    <3>3. need'[c] = IF c \in scope \ Skipped /\ NeedsSync(c)
                     THEN RangeTo(synced[c], log[c]) ELSE NoRange
      BY <1>3 DEF CompareSeqs
    <3>4. ASSUME c \in Wanted' PROVE c \notin Skipped /\ need'[c].hi = log[c]
      BY <3>3, <3>4 DEF Wanted, NoRange, RangeTo
    <3> QED BY <3>1, <3>2, <3>4
  <2>5. RangesVisited'
    BY <2>1 DEF RangesVisited
  <2> QED BY <2>1, <2>3, <2>4, <2>5, BoundsFrame
<1> QED BY <1>1, <1>2, <1>3

(* The steps of a push: the conversation visited has no range yet. *)
LEMMA BoundsPush ==
  ASSUME TypeOK, BoundsInv, NEW c \in Conv, PushConversation(c)
  PROVE  BoundsInv' /\ synced[c] <= synced'[c] /\ \A d \in Conv \ {c} : synced'[d] = synced[d]
<1> USE DEF BoundsInv
<1> DEFINE storage == push.msgs[c]
           lastSeq == Last(storage)
           cur     == AtLeast0(synced[c])
           accept  == storage # <<>> /\ InSequence(storage, cur)
           pull    == storage # <<>> /\ ~accept /\ lastSeq > cur
<1>0. /\ log \in Lengths /\ log[c] \in Nat /\ synced \in [Conv -> Int]
      /\ push \in Batches /\ push.msgs \in MsgMap /\ res \in MsgMap
      /\ need \in [Conv -> [lo : Int, hi : Int]]
  BY DEF TypeOK, TypeServer, TypeSyncer, TypeJob, Lengths, Batches
<1>1. /\ UNCHANGED <<log, batchVars, eventCh, chatLogs, notifSeq, pc>>
      /\ pc \in {"msgs", "notifications"} /\ c \in Unvisited
  BY DEF PushConversation, serverVars, dbVars
<1>2. push' = [push EXCEPT !.msgs[c] = <<>>, !.convs = @ \ {c}]
  BY DEF PushConversation
<1>3. push'.msgs = [push.msgs EXCEPT ![c] = <<>>] /\ push'.convs = push.convs \ {c}
  BY <1>0, <1>2 DEF Batches
<1>4. storage \in Seq(Nat) /\ cur \in Nat /\ synced[c] <= cur
  BY <1>0 DEF MsgMap, AtLeast0
<1>5. storage # <<>> => lastSeq \in Nat /\ lastSeq <= log[c]
  <2>1. \A i \in 1..Len(storage) : storage[i] <= log[c]
    BY DEF BatchesInLog, MapIn
  <2> HIDE DEF storage
  <2> QED BY <1>4, <2>1 DEF Last
<1>6. accept => lastSeq = cur + Len(storage) /\ Len(storage) \in Nat
  BY <1>4 DEF InSequence
<1>7. /\ synced' = IF accept THEN [synced EXCEPT ![c] = lastSeq] ELSE synced
      /\ res' = IF accept THEN [res EXCEPT ![c] = storage] ELSE res
      /\ need' = IF pull THEN [need EXCEPT ![c] = RangeTo(cur, lastSeq)] ELSE need
      /\ outbox' = IF c \in push.convs THEN <<Event(PhaseKind, Single(c, 0))>> ELSE <<>>
  BY DEF PushConversation
<1>8. BatchesInLog'
  <2>1. MapIn([push.msgs EXCEPT ![c] = <<>>], log)
    <3>1. MapIn(push.msgs, log)
      BY DEF BatchesInLog
    <3> QED BY <1>0, <3>1, MapInBuilt
  <2>2. MapIn(push'.msgs, log)
    BY <1>3, <2>1
  <2>3. UNCHANGED <<log, buffer, flushing, pushCh>>
    BY <1>1 DEF batchVars
  <2>4. /\ MapIn(buffer.msgs, log) /\ MapIn(flushing.msgs, log)
        /\ CommandsIn(pushCh, log)
    BY DEF BatchesInLog
  <2> QED BY <2>2, <2>3, <2>4 DEF BatchesInLog
<1>9. EventsInLog'
  <2>1. MapIn(res', log)
    <3>1. \A i \in 1..Len(storage) : storage[i] <= log[c]
      BY DEF BatchesInLog, MapIn
    <3>2. res'[c] = storage \/ res'[c] = res[c]
      BY <1>0, <1>7 DEF MsgMap
    <3>3. \A d \in Conv \ {c} : res'[d] = res[d]
      BY <1>0, <1>7 DEF MsgMap
    <3> HIDE DEF storage
    <3> QED BY <3>1, <3>2, <3>3 DEF MapIn, EventsInLog
  <2>2. EventsIn(outbox', log)
    <3>1. PhaseKind \in EventKinds /\ Single(c, 0) \in MsgMap /\ MapIn(Single(c, 0), log)
      BY <1>0, MsgMapType, MapInBuilt DEF PhaseKind, EventKinds
    <3>2. EventsIn(<<Event(PhaseKind, Single(c, 0))>>, log) /\ EventsIn(<<>>, log)
      BY <1>0, <3>1, EventsInBuilt
    <3> QED BY <1>7, <3>2
  <2> QED BY <1>1, <2>1, <2>2 DEF EventsInLog
<1>10. c \notin Wanted
  BY <1>1 DEF RangesVisited
<1>11. /\ synced'[c] = IF accept THEN lastSeq ELSE synced[c]
       /\ \A d \in Conv \ {c} : synced'[d] = synced[d]
       /\ need'[c] = IF pull THEN RangeTo(cur, lastSeq) ELSE need[c]
       /\ \A d \in Conv \ {c} : need'[d] = need[d]
  <2> HIDE DEF accept, pull, lastSeq, cur
  <2> QED BY <1>0, <1>7
<1>12. synced[c] <= synced'[c] /\ synced'[c] <= log[c]
  <2>1. synced[c] <= log[c] /\ synced[c] \in Int
    BY <1>0 DEF RangesNew
  <2>2. CASE accept
    <3>1. lastSeq = cur + Len(storage) /\ Len(storage) \in Nat /\ lastSeq <= log[c]
      BY <1>5, <1>6, <2>2
    <3>2. synced'[c] = lastSeq
      BY <1>11, <2>2
    <3> HIDE DEF cur, lastSeq, storage, accept
    <3> QED BY <1>4, <2>1, <3>1, <3>2
  <2>3. CASE ~accept
    BY <1>11, <2>1, <2>3
  <2> HIDE DEF accept
  <2> QED BY <2>2, <2>3
<1>13. c \in Wanted' => /\ pull /\ need'[c].hi = lastSeq /\ synced'[c] = synced[c]
  <2>1. CASE pull
    BY <1>11, <2>1 DEF RangeTo
  <2>2. CASE ~pull
    <3>1. need'[c] = need[c]
      BY <1>11, <2>2
    <3>2. c \notin Wanted'
      BY <1>10, <3>1 DEF Wanted
    <3> QED BY <3>2
  <2> HIDE DEF pull
  <2> QED BY <2>1, <2>2
<1>14. RangesNew'
  <2> SUFFICES ASSUME NEW d \in Conv
               PROVE  /\ synced'[d] <= log[d]
                      /\ d \in Wanted' => synced'[d] <= need'[d].hi /\ need'[d].hi <= log[d]
    BY <1>1 DEF RangesNew
  <2>1. CASE d = c
    <3>1. pull => lastSeq > cur /\ lastSeq \in Nat /\ lastSeq <= log[c]
      BY <1>5
    <3>2. synced[c] \in Int
      BY <1>0
    <3> HIDE DEF pull, lastSeq, cur
    <3> QED BY <1>4, <1>12, <1>13, <2>1, <3>1, <3>2
  <2>2. CASE d # c
    BY <1>11, <2>2 DEF RangesNew, Wanted
  <2> QED BY <2>1, <2>2
<1>15. RangesVisited'
  <2>1. Unvisited' \subseteq Unvisited \ {c}
    BY <1>0, <1>3 DEF Unvisited, MsgMap
  <2>2. Wanted' \subseteq Wanted \cup {c}
    BY <1>11 DEF Wanted
  <2> QED BY <1>1, <2>1, <2>2 DEF RangesVisited
<1> QED BY <1>1, <1>8, <1>9, <1>11, <1>12, <1>14, <1>15, BoundsFrame

(* A pull returns numbers of the range. *)
LEMMA PullInLog ==
  ASSUME TypeOK, BoundsInv, NEW c \in Wanted
  PROVE  \A i \in 1..Len(PullMsgByRange(c)) : PullMsgByRange(c)[i] <= log[c]
<1> DEFINE first == IF c \in Regular /\ need[c].hi - PullNum >= need[c].lo
                    THEN need[c].hi - PullNum + 1 ELSE need[c].lo
           lo == IF first < 1 THEN 1 ELSE first
           len == AtLeast0(need[c].hi - lo + 1)
<1>1. PullNum \in Nat
  BY BoundAssumption DEF PullNum
<1>2. c \in Conv /\ need[c].lo \in Int /\ need[c].hi \in Int /\ log[c] \in Nat
  BY DEF Wanted, TypeOK, TypeJob, TypeServer
<1>3. need[c].hi <= log[c]
  BY <1>2 DEF BoundsInv, RangesNew
<1>4. lo \in Nat
  <2>1. first \in Int
    BY <1>1, <1>2
  <2> HIDE DEF first
  <2> QED BY <2>1
<1>5. PullMsgByRange(c) = [i \in 1..len |-> lo + i - 1]
  BY DEF PullMsgByRange
<1> HIDE DEF lo
<1>6. len \in Nat /\ (len = 0 \/ len = need[c].hi - lo + 1)
  BY <1>2, <1>4 DEF AtLeast0
<1> HIDE DEF len
<1>7. Len(PullMsgByRange(c)) = len /\ \A i \in 1..len : PullMsgByRange(c)[i] = lo + i - 1
  BY <1>5, <1>6
<1> QED BY <1>2, <1>3, <1>4, <1>6, <1>7

(* The other steps of a push, and the pulls. *)
LEMMA BoundsPull ==
  ASSUME TypeOK, BoundsInv, NEW B \in SUBSET Conv, Pulled(B)
  PROVE  BoundsInv' /\ \A c \in Conv : synced[c] <= synced'[c]
<1> USE DEF BoundsInv
<1> DEFINE msgs == [c \in Conv |-> IF c \in B THEN PullMsgByRange(c) ELSE <<>>]
<1>0. log \in Lengths
  BY DEF TypeOK, TypeServer, Lengths
<1>1. /\ UNCHANGED <<log, batchVars, push, res, eventCh, chatLogs, notifSeq, pc>>
      /\ pc = "pull" /\ B \subseteq Wanted
  BY DEF Pulled, Ready, IsBatch, serverVars, dbVars
<1>2. msgs \in MsgMap
  BY PullType DEF MsgMap, TypeOK
<1>3. MapIn(msgs, log)
  <2> SUFFICES ASSUME NEW c \in Conv, NEW i \in 1..Len(msgs[c]) PROVE msgs[c][i] <= log[c]
    BY DEF MapIn
  <2>1. c \in B
    OBVIOUS
  <2> QED BY <1>1, <2>1, PullInLog
<1>4. outbox' = Trigger(PullKind, Part(msgs, Regular))
                  \o Trigger("Notification", Part(msgs, Notif))
  BY DEF Pulled
<1>5. EventsIn(outbox', log)
  <2> HIDE DEF msgs
  <2>1. PullKind \in EventKinds /\ "Notification" \in EventKinds
    BY DEF PullKind, EventKinds
  <2>2. /\ Part(msgs, Regular) \in MsgMap /\ MapIn(Part(msgs, Regular), log)
        /\ Part(msgs, Notif) \in MsgMap /\ MapIn(Part(msgs, Notif), log)
    BY <1>0, <1>2, <1>3, MsgMapType, MapInBuilt
  <2>3. /\ Trigger(PullKind, Part(msgs, Regular)) \in Seq(Events)
        /\ EventsIn(Trigger(PullKind, Part(msgs, Regular)), log)
        /\ Trigger("Notification", Part(msgs, Notif)) \in Seq(Events)
        /\ EventsIn(Trigger("Notification", Part(msgs, Notif)), log)
    BY <1>0, <2>1, <2>2, TriggerType, EventsInBuilt
  <2> QED BY <1>0, <1>4, <2>3, EventsInBuilt
<1>6. EventsInLog'
  BY <1>1, <1>5 DEF EventsInLog
<1>7. /\ \A c \in Conv : synced'[c] = IF c \in B THEN need[c].hi ELSE synced[c]
      /\ \A c \in Conv : need'[c] = IF c \in B THEN NoRange ELSE need[c]
  BY DEF Pulled, SyncedTo
<1>8. RangesNew' /\ \A c \in Conv : synced[c] <= synced'[c]
  <2> SUFFICES ASSUME NEW c \in Conv
               PROVE  /\ synced'[c] <= log[c] /\ synced[c] <= synced'[c]
                      /\ c \in Wanted' => synced'[c] <= need'[c].hi /\ need'[c].hi <= log[c]
    BY <1>1 DEF RangesNew
  <2>1. synced[c] \in Int
    BY DEF TypeOK, TypeSyncer
  <2>2. CASE c \in B
    <3>1. c \notin Wanted'
      BY <1>7, <2>2 DEF Wanted, NoRange
    <3> QED BY <1>1, <1>7, <2>2, <3>1 DEF RangesNew
  <2>3. CASE c \notin B
    BY <1>7, <2>1, <2>3 DEF RangesNew, Wanted
  <2> QED BY <2>2, <2>3
<1>9. RangesVisited'
  BY <1>1 DEF RangesVisited
<1> QED BY <1>1, <1>6, <1>8, <1>9, BoundsFrame

(* The end of a push's phase, of the pulls and of a command. *)
LEMMA BoundsEnd ==
  ASSUME TypeOK, BoundsInv, PushTriggered \/ PullFailed \/ PullDone \/ EndSync
  PROVE  BoundsInv'
<1> USE DEF BoundsInv
<1>0. log \in Lengths /\ res \in MsgMap
  BY DEF TypeOK, TypeServer, TypeJob, Lengths
<1>1. CASE PushTriggered
  <2>1. UNCHANGED <<log, batchVars, push, eventCh, chatLogs, notifSeq, synced, need>>
    BY <1>1 DEF PushTriggered, serverVars, dbVars
  <2>2. MapIn(res', log) /\ EventsIn(outbox', log)
    BY <1>0, <1>1, MapInBuilt, EventsInBuilt
       DEF PushTriggered, PhaseKind, EventKinds, EventsInLog
  <2>3. EventsInLog' /\ RangesVisited'
    BY <1>1, <2>1, <2>2 DEF PushTriggered, EventsInLog, RangesVisited
  <2> QED BY <2>1, <2>3, BoundsFrame
<1>2. CASE PullFailed
  <2>1. /\ UNCHANGED <<log, batchVars, push, res, outbox, eventCh, chatLogs, notifSeq, synced>>
        /\ Wanted' = {}
    BY <1>2 DEF PullFailed, serverVars, dbVars, Wanted, NoRange
  <2>2. RangesNew' /\ RangesVisited'
    BY <2>1 DEF RangesNew, RangesVisited
  <2> QED BY <2>1, <2>2, BoundsFrame
<1>3. CASE PullDone
  <2>1. /\ UNCHANGED <<log, batchVars, outbox, eventCh, chatLogs, notifSeq, synced>>
        /\ Wanted = {} /\ (Idle \/ UNCHANGED <<push, res, need>>)
    BY <1>3 DEF PullDone, serverVars, dbVars
  <2>2. CASE Idle
    <3>1. /\ Wanted' = {} /\ RangesVisited'
          /\ MapIn(push'.msgs, log') /\ MapIn(res', log')
      BY <2>1, <2>2, BoundsIdle
    <3>2. BatchesInLog' /\ EventsInLog' /\ RangesNew'
      BY <2>1, <3>1 DEF BatchesInLog, EventsInLog, RangesNew, batchVars
    <3> QED BY <2>1, <3>1, <3>2, BoundsFrame
  <2>3. CASE UNCHANGED <<push, res, need>>
    <3>1. Wanted' = {}
      BY <2>1, <2>3 DEF Wanted
    <3>2. RangesVisited'
      BY <3>1 DEF RangesVisited
    <3> QED BY <2>1, <2>3, <3>2, BoundsFrame
  <2> QED BY <2>1, <2>2, <2>3
<1>4. CASE EndSync
  <2>1. Idle /\ UNCHANGED <<log, batchVars, eventCh, chatLogs, notifSeq, synced>>
    BY <1>4 DEF EndSync, serverVars
  <2>2. EventsIn(outbox', log)
    <3>1. \A k \in EventKinds : EventsIn(<<Event(k, NoMsgs)>>, log)
      BY <1>0, MapInBuilt, MsgMapType, EventsInBuilt
    <3>2. EventsIn(<<>>, log)
      BY <1>0, EventsInBuilt
    <3> QED BY <1>4, <3>1, <3>2 DEF EndSync, EventKinds
  <2>3. /\ Wanted' = {} /\ RangesVisited'
        /\ MapIn(push'.msgs, log') /\ MapIn(res', log')
    BY <2>1, BoundsIdle
  <2>4. BatchesInLog' /\ EventsInLog' /\ RangesNew'
    BY <2>1, <2>2, <2>3 DEF BatchesInLog, EventsInLog, RangesNew, batchVars
  <2> QED BY <2>1, <2>3, <2>4, BoundsFrame
<1> QED BY <1>1, <1>2, <1>3, <1>4

(* The conversation worker stores only what is in the log. *)
LEMMA BoundsWorker == ASSUME TypeOK, BoundsInv, Worker PROVE BoundsInv'
<1> USE DEF BoundsInv
<1>0. log \in Lengths /\ eventCh \in Seq(Events)
  BY DEF TypeOK, TypeServer, TypeEvents, Lengths
<1>1. eventCh # <<>> =>
        /\ Head(eventCh).msgs \in MsgMap /\ Head(eventCh).kind \in EventKinds
        /\ Tail(eventCh) \in Seq(Events)
        /\ MapIn(Head(eventCh).msgs, log) /\ EventsIn(Tail(eventCh), log)
  <2>1. eventCh # <<>> => Head(eventCh) \in Events /\ Tail(eventCh) \in Seq(Events)
    BY <1>0
  <2> QED BY <1>0, <2>1, EventsInBuilt DEF Events, EventsInLog
<1>2. ASSUME NEW c \in Conv, eventCh # <<>>, Next1(c), log' = log, UNCHANGED <<res, outbox>>
      PROVE  EventsInLog'
  <2> DEFINE left == [Head(eventCh).msgs EXCEPT ![c] = <<>>]
  <2>1. left \in MsgMap /\ MapIn(left, log)
    BY <1>0, <1>1, <1>2, MapInBuilt DEF MsgMap
  <2>2. eventCh' = Tail(eventCh)
        \/ eventCh' = <<Event(Head(eventCh).kind, left)>> \o Tail(eventCh)
    BY <1>2 DEF Next1
  <2> HIDE DEF left
  <2>3. /\ <<Event(Head(eventCh).kind, left)>> \in Seq(Events)
        /\ EventsIn(<<Event(Head(eventCh).kind, left)>>, log)
    BY <1>0, <1>1, <1>2, <2>1, OneEventType, EventsInBuilt
  <2>4. EventsIn(eventCh', log)
    BY <1>0, <1>1, <1>2, <2>2, <2>3, EventsInBuilt
  <2> QED BY <1>2, <2>4 DEF EventsInLog
<1>3. ASSUME NEW c \in Regular, InsertMessages(c) PROVE BoundsInv'
  <2>1. eventCh # <<>> /\ c \in Conv
    BY <1>3 DEF InsertMessages, AtMessages, Conv
  <2>2. \A k \in Numbers(Head(eventCh).msgs[c]) : k <= log[c]
    BY <1>1, <2>1 DEF Numbers, ToSet, MapIn, MsgMap
  <2>3. /\ chatLogs' = [chatLogs EXCEPT ![c] = @ \cup Numbers(Head(eventCh).msgs[c])]
        /\ log' = log /\ notifSeq' = notifSeq
    BY <1>3 DEF InsertMessages, serverVars
  <2>4. chatLogs \in [Regular -> SUBSET Nat]
    BY DEF TypeOK, TypeDb
  <2>5. \A d \in Regular : \A k \in chatLogs'[d] :
          k \in chatLogs[d] \/ (d = c /\ k \in Numbers(Head(eventCh).msgs[c]))
    BY <2>3, <2>4
  <2>6. StoredInLog'
    BY <2>2, <2>3, <2>5 DEF StoredInLog
  <2> QED BY <1>3, <2>6, BoundsFrame DEF InsertMessages, serverVars, jobVars
<1>4. ASSUME NEW c \in Regular, StoreConversation(c) PROVE BoundsInv'
  <2>1. EventsInLog'
    BY <1>2, <1>4 DEF StoreConversation, AtMessages, Conv, serverVars, jobVars
  <2> QED BY <1>4, <2>1, BoundsFrame DEF StoreConversation, serverVars, jobVars
<1>5. ASSUME NEW c \in Notif, DoNotifications(c) PROVE BoundsInv'
  BY <1>5, BoundsFrame DEF DoNotifications, serverVars, jobVars
<1>6. ASSUME NEW c \in Notif, SetNotificationSeq(c) PROVE BoundsInv'
  <2> DEFINE lastSeq == Last(Head(eventCh).msgs[c])
  <2>1. EventsInLog'
    BY <1>2, <1>6 DEF SetNotificationSeq, AtNotifications, Conv, serverVars, jobVars
  <2>2. lastSeq \in Nat /\ lastSeq <= log[c]
    <3>1. /\ eventCh # <<>> /\ c \in Conv
          /\ Head(eventCh).msgs[c] \in Seq(Nat) /\ Head(eventCh).msgs[c] # <<>>
      BY <1>1, <1>6 DEF SetNotificationSeq, AtNotifications, MsgMap, Conv
    <3>2. \A i \in 1..Len(Head(eventCh).msgs[c]) : Head(eventCh).msgs[c][i] <= log[c]
      BY <1>1, <3>1 DEF MapIn
    <3> QED BY <3>1, <3>2 DEF Last
  <2>3. /\ notifSeq' = notifSeq \/ notifSeq' = [notifSeq EXCEPT ![c] = lastSeq]
        /\ log' = log /\ chatLogs' = chatLogs
    BY <1>6 DEF SetNotificationSeq, serverVars
  <2>4. StoredInLog'
    <3> HIDE DEF lastSeq
    <3> QED BY <2>2, <2>3 DEF StoredInLog, TypeOK, TypeDb
  <2> QED BY <1>6, <2>1, <2>4, BoundsFrame DEF SetNotificationSeq, serverVars, jobVars
<1>7. CASE HandleFlag
  <2>1. EventsInLog'
    BY <1>1, <1>7 DEF HandleFlag, EventsInLog, serverVars, jobVars
  <2> QED BY <1>7, <2>1, BoundsFrame DEF HandleFlag, serverVars, jobVars
<1> QED BY <1>3, <1>4, <1>5, <1>6, <1>7 DEF Worker

(* A restart starts from what is stored, with nothing on its way. *)
LEMMA BoundsCrash == ASSUME TypeOK, BoundsInv, Crash PROVE BoundsInv'
<1> USE DEF BoundsInv
<1>1. log \in Lengths /\ log' = log /\ Idle /\ UNCHANGED <<chatLogs, notifSeq>>
  BY DEF TypeOK, TypeServer, Lengths, Crash, dbVars
<1>2. /\ Wanted' = {} /\ RangesVisited'
      /\ MapIn(push'.msgs, log') /\ MapIn(res', log')
  BY <1>1, BoundsIdle
<1>3. BatchesInLog'
  BY <1>1, <1>2, MapInBuilt, CommandsInBuilt DEF Crash, BatchesInLog, NoBatch, Batch
<1>4. EventsInLog'
  BY <1>1, <1>2, EventsInBuilt DEF Crash, EventsInLog
<1>5. RangesNew'
  BY <1>1, <1>2, LoadedInLog DEF Crash, RangesNew
<1> QED BY <1>1, <1>2, <1>3, <1>4, <1>5, BoundsFrame

(* Every step preserves the invariant. *)
LEMMA BoundsNext == TypeOK /\ BoundsInv /\ [Next]_vars => BoundsInv'
<1> SUFFICES ASSUME TypeOK, BoundsInv, [Next]_vars PROVE BoundsInv'
  OBVIOUS
<1>1. CASE Resting \/ UNCHANGED vars
  BY <1>1, BoundsFrame DEF Resting, vars, serverVars, jobVars, dbVars, BoundsInv
<1>2. CASE Environment \/ Worker \/ Crash
  BY <1>2, BoundsEnvironment, BoundsWorker, BoundsCrash
<1>3. CASE Syncer
  BY <1>3, BoundsStart, BoundsMaxSeq, BoundsPush, BoundsPull, BoundsEnd DEF Syncer
<1> QED BY <1>1, <1>2, <1>3 DEF Next

(* What is on its way or stored is in the server's log, always. *)
THEOREM Bounded == Spec => []BoundsInv
  BY TypeCorrect, BoundsInit, BoundsNext, PTL DEF Spec
-----------------------------------------------------------------------------
(* The number the server reports is not older than the synced one. *)
LEMMA CompareMonotone ==
  ASSUME TypeOK, BoundsInv, CompareSeqs PROVE \A c \in Conv : synced[c] <= synced'[c]
<1> SUFFICES ASSUME NEW c \in Conv PROVE synced[c] <= synced'[c]
  OBVIOUS
<1>1. synced'[c] = IF c \in Skipped THEN log[c] ELSE synced[c]
  BY DEF CompareSeqs
<1>2. synced[c] \in Int /\ synced[c] <= log[c]
  BY DEF TypeOK, TypeSyncer, BoundsInv, RangesNew
<1> QED BY <1>1, <1>2

(* No step but a restart takes a synced number back. *)
LEMMA MonotoneStep ==
  ASSUME TypeOK, BoundsInv, [Next]_vars
  PROVE  (\A c \in Conv : synced[c] <= synced'[c]) \/ Crash
<1>1. ASSUME synced' = synced PROVE \A c \in Conv : synced[c] <= synced'[c]
  BY <1>1 DEF TypeOK, TypeSyncer
<1>2. CASE Environment
  <2>1. synced' = synced
    BY <1>2 DEF Environment, Publish, PushDirect, PushMerged, FlushBuffer, TimerFires,
                TimerDispatches, Connect, Disconnect, WakeUp, IMSync, UserCommand,
                SyncWindowEnds
  <2> QED BY <1>1, <2>1
<1>3. CASE Worker
  <2>1. synced' = synced
    BY <1>3 DEF Worker, InsertMessages, StoreConversation, DoNotifications,
                SetNotificationSeq, HandleFlag
  <2> QED BY <1>1, <2>1
<1>4. CASE Resting \/ UNCHANGED vars
  BY <1>1, <1>4 DEF Resting, vars
<1>5. ASSUME NEW c \in Conv, PushConversation(c)
      PROVE  \A d \in Conv : synced[d] <= synced'[d]
  <2>1. synced[c] <= synced'[c] /\ \A d \in Conv \ {c} : synced'[d] = synced[d]
    BY <1>5, BoundsPush
  <2>2. \A d \in Conv : synced[d] \in Int
    BY DEF TypeOK, TypeSyncer
  <2> QED BY <2>1, <2>2
<1>6. CASE CompareSeqs
  BY <1>6, CompareMonotone
<1>7. ASSUME NEW B \in SUBSET Conv, Pulled(B) PROVE \A c \in Conv : synced[c] <= synced'[c]
  BY <1>7, BoundsPull
<1>8. CASE Syncer /\ ~CompareSeqs /\ ~(\E c \in Conv : PushConversation(c))
           /\ ~(\E B \in SUBSET Conv : Pulled(B))
  <2>1. synced' = synced
    BY <1>8 DEF Syncer, Dispatch, StartConnectedSync, StartWakeUpSync, IgnoreSync,
                StartIMSync, StartPush, Received, RetryMaxSeq, MaxSeqFailed,
                PushTriggered, PullFailed, PullDone, EndSync
  <2> QED BY <1>1, <2>1
<1> QED BY <1>2, <1>3, <1>4, <1>5, <1>6, <1>7, <1>8 DEF Next

(***************************************************************************)
(* Pushes, pulls and reinstallation skips never take a synced number back  *)
(* nor beyond the server's log.                                            *)
(***************************************************************************)
THEOREM Monotone == Spec => SyncedMonotone
<1>1. TypeOK /\ TypeOK' /\ BoundsInv /\ BoundsInv' /\ [Next]_vars =>
        [\/ \A c \in Conv : synced[c] <= synced'[c] /\ synced'[c] <= AtLeast0(log'[c])
         \/ Crash]_vars
  <2> SUFFICES ASSUME TypeOK, TypeOK', BoundsInv, BoundsInv', [Next]_vars
               PROVE  \/ \A c \in Conv : synced[c] <= synced'[c]
                                         /\ synced'[c] <= AtLeast0(log'[c])
                      \/ Crash
    OBVIOUS
  <2>1. \A c \in Conv : synced'[c] <= AtLeast0(log'[c])
    <3>1. \A c \in Conv : synced'[c] <= log'[c] /\ log'[c] \in Nat
      BY DEF BoundsInv, RangesNew, TypeOK, TypeServer
    <3> QED BY <3>1 DEF AtLeast0
  <2> QED BY <2>1, MonotoneStep
<1> QED BY <1>1, TypeCorrect, Bounded, PTL DEF Spec, SyncedMonotone
-----------------------------------------------------------------------------
(* What of the synced number is applied, stored or on its way *)

(* Numbers of a message map that is in order, and of two that follow each other. *)
Rising(s) == \A k, l \in 1..Len(s) : k < l /\ s[k] # 0 /\ s[l] # 0 => s[k] < s[l]
Before(A, B) == \A m \in A, n \in B : m < n

Flow(evs, out, r) == evs \o out \o <<Event("NewMsgCome", r)>>
-----------------------------------------------------------------------------
(* NumbersIn and Ascending, through the operations on queues of events *)

(* The numbers of a sequence, and of a conversation in a queue of events. *)
LEMMA NumbersAt ==
  /\ \A s \in Seq(Nat) : \A n : n \in Numbers(s) <=> n # 0 /\ \E k \in 1..Len(s) : s[k] = n
  /\ \A q \in Seq(Events), c \in Conv : \A n :
       n \in NumbersIn(q, c) <=>
         \E i \in 1..Len(q) : \E k \in 1..Len(q[i].msgs[c]) : q[i].msgs[c][k] = n /\ n # 0
<1>1. ASSUME NEW s \in Seq(Nat), NEW n
      PROVE  n \in Numbers(s) <=> n # 0 /\ \E k \in 1..Len(s) : s[k] = n
  <2>1. ToSet(s) = {s[k] : k \in 1..Len(s)}
    BY DEF ToSet
  <2> QED BY <2>1 DEF Numbers
<1>2. ASSUME NEW q \in Seq(Events), NEW c \in Conv, NEW n
      PROVE  n \in NumbersIn(q, c) <=>
               \E i \in 1..Len(q) : \E k \in 1..Len(q[i].msgs[c]) : q[i].msgs[c][k] = n /\ n # 0
  <2>1. \A i \in 1..Len(q) : q[i].msgs[c] \in Seq(Nat)
    <3>1. \A i \in 1..Len(q) : q[i] \in Events
      OBVIOUS
    <3> QED BY <3>1 DEF Events, MsgMap
  <2>2. n \in NumbersIn(q, c) <=> \E i \in 1..Len(q) : n \in Numbers(q[i].msgs[c])
    BY DEF NumbersIn
  <2>3. \A i \in 1..Len(q) : n \in Numbers(q[i].msgs[c]) <=>
          n # 0 /\ \E k \in 1..Len(q[i].msgs[c]) : q[i].msgs[c][k] = n
    BY <1>1, <2>1
  <2> QED BY <2>2, <2>3
<1> QED BY <1>1, <1>2

(* Queues of no event, of one, and of one queue after the other. *)
LEMMA QueueNone ==
  \A c : NumbersIn(<<>>, c) = {} /\ Ascending(<<>>, c)
  BY DEF NumbersIn, Ascending

LEMMA QueueOne ==
  ASSUME NEW e \in Events, NEW c \in Conv
  PROVE  /\ NumbersIn(<<e>>, c) = Numbers(e.msgs[c])
         /\ Ascending(<<e>>, c) <=> Rising(e.msgs[c])
<1>1. Len(<<e>>) = 1 /\ <<e>>[1] = e /\ 1..1 = {1}
  OBVIOUS
<1>2. NumbersIn(<<e>>, c) = Numbers(e.msgs[c])
  BY <1>1 DEF NumbersIn
<1>3. Ascending(<<e>>, c) <=> Rising(e.msgs[c])
  BY <1>1 DEF Ascending, Rising
<1> QED BY <1>2, <1>3

LEMMA QueueJoin ==
  ASSUME NEW p \in Seq(Events), NEW q \in Seq(Events), NEW c \in Conv
  PROVE  /\ NumbersIn(p \o q, c) = NumbersIn(p, c) \cup NumbersIn(q, c)
         /\ Ascending(p \o q, c) <=> /\ Ascending(p, c) /\ Ascending(q, c)
                                     /\ Before(NumbersIn(p, c), NumbersIn(q, c))
<1> DEFINE pq == p \o q
<1>1. /\ pq \in Seq(Events) /\ Len(p) \in Nat /\ Len(q) \in Nat /\ Len(pq) = Len(p) + Len(q)
      /\ \A i \in 1..Len(p) : pq[i] = p[i] /\ i \in 1..Len(pq)
      /\ \A i \in 1..Len(q) : pq[Len(p) + i] = q[i] /\ Len(p) + i \in 1..Len(pq)
      /\ \A i \in 1..Len(pq) : i \in 1..Len(p) \/ \E j \in 1..Len(q) : i = Len(p) + j
  <2>1. pq \in Seq(Events) /\ Len(p) \in Nat /\ Len(q) \in Nat /\ Len(pq) = Len(p) + Len(q)
    OBVIOUS
  <2>2. \A i \in 1..Len(p) : pq[i] = p[i] /\ i \in 1..Len(pq)
    BY <2>1
  <2>3. \A i \in 1..Len(q) : pq[Len(p) + i] = q[i] /\ Len(p) + i \in 1..Len(pq)
    BY <2>1
  <2>4. ASSUME NEW i \in 1..Len(pq), i \notin 1..Len(p) PROVE \E j \in 1..Len(q) : i = Len(p) + j
    <3>1. i - Len(p) \in 1..Len(q) /\ i = Len(p) + (i - Len(p))
      BY <2>1, <2>4
    <3> QED BY <3>1
  <2> QED BY <2>1, <2>2, <2>3, <2>4
<1> HIDE DEF pq
<1>7. \A i, j \in 1..Len(q) : (i < j => Len(p) + i < Len(p) + j) /\ (i = j => Len(p) + i = Len(p) + j)
  <2>1. Len(p) \in Nat /\ Len(q) \in Nat
    BY <1>1
  <2> QED BY <2>1
<1>8. ASSUME NEW i \in 1..Len(pq), NEW j \in 1..Len(pq), i < j \/ i = j, i \notin 1..Len(p)
      PROVE  \E a, b \in 1..Len(q) : /\ i = Len(p) + a /\ j = Len(p) + b
                                     /\ i < j => a < b
                                     /\ i = j => a = b
  <2>1. PICK a \in 1..Len(q) : i = Len(p) + a
    BY <1>1, <1>8
  <2>2. j \notin 1..Len(p)
    BY <1>1, <1>8
  <2>3. PICK b \in 1..Len(q) : j = Len(p) + b
    BY <1>1, <2>2
  <2>4. (i < j => a < b) /\ (i = j => a = b)
    BY <1>1, <2>1, <2>3
  <2> QED BY <2>1, <2>3, <2>4
<1>2. NumbersIn(pq, c) = NumbersIn(p, c) \cup NumbersIn(q, c)
  <2>1. \A n : n \in NumbersIn(pq, c) <=> \E i \in 1..Len(pq) : n \in Numbers(pq[i].msgs[c])
    BY DEF NumbersIn
  <2>2. \A n : n \in NumbersIn(p, c) <=> \E i \in 1..Len(p) : n \in Numbers(p[i].msgs[c])
    BY DEF NumbersIn
  <2>3. \A n : n \in NumbersIn(q, c) <=> \E i \in 1..Len(q) : n \in Numbers(q[i].msgs[c])
    BY DEF NumbersIn
  <2>4. ASSUME NEW n \in NumbersIn(pq, c) PROVE n \in NumbersIn(p, c) \cup NumbersIn(q, c)
    <3>1. PICK i \in 1..Len(pq) : n \in Numbers(pq[i].msgs[c])
      BY <2>1
    <3>2. CASE i \in 1..Len(p)
      BY <1>1, <2>2, <3>1, <3>2
    <3>3. ASSUME NEW j \in 1..Len(q), i = Len(p) + j PROVE n \in NumbersIn(q, c)
      BY <1>1, <2>3, <3>1, <3>3
    <3> QED BY <1>1, <3>2, <3>3
  <2>5. ASSUME NEW n \in NumbersIn(p, c) PROVE n \in NumbersIn(pq, c)
    <3>1. PICK i \in 1..Len(p) : n \in Numbers(p[i].msgs[c])
      BY <2>2
    <3>2. pq[i] = p[i] /\ i \in 1..Len(pq)
      BY <1>1
    <3> QED BY <2>1, <3>1, <3>2
  <2>6. ASSUME NEW n \in NumbersIn(q, c) PROVE n \in NumbersIn(pq, c)
    <3>1. PICK i \in 1..Len(q) : n \in Numbers(q[i].msgs[c])
      BY <2>3
    <3>2. pq[Len(p) + i] = q[i] /\ Len(p) + i \in 1..Len(pq)
      BY <1>1
    <3> QED BY <2>1, <3>1, <3>2
  <2> QED BY <2>4, <2>5, <2>6
<1>3. ASSUME Ascending(pq, c) PROVE Ascending(p, c)
  <2> SUFFICES ASSUME NEW i \in 1..Len(p), NEW j \in 1..Len(p), NEW k \in 1..Len(p[i].msgs[c]),
                      NEW l \in 1..Len(p[j].msgs[c]), i < j \/ (i = j /\ k < l),
                      p[i].msgs[c][k] # 0, p[j].msgs[c][l] # 0
               PROVE  p[i].msgs[c][k] < p[j].msgs[c][l]
    BY DEF Ascending
  <2>1. pq[i] = p[i] /\ i \in 1..Len(pq) /\ pq[j] = p[j] /\ j \in 1..Len(pq)
    BY <1>1
  <2> QED BY <1>3, <2>1 DEF Ascending
<1>4. ASSUME Ascending(pq, c) PROVE Ascending(q, c)
  <2> SUFFICES ASSUME NEW i \in 1..Len(q), NEW j \in 1..Len(q), NEW k \in 1..Len(q[i].msgs[c]),
                      NEW l \in 1..Len(q[j].msgs[c]), i < j \/ (i = j /\ k < l),
                      q[i].msgs[c][k] # 0, q[j].msgs[c][l] # 0
               PROVE  q[i].msgs[c][k] < q[j].msgs[c][l]
    BY DEF Ascending
  <2>1. /\ pq[Len(p) + i] = q[i] /\ Len(p) + i \in 1..Len(pq)
        /\ pq[Len(p) + j] = q[j] /\ Len(p) + j \in 1..Len(pq)
    BY <1>1
  <2> QED BY <1>4, <1>7, <2>1 DEF Ascending
<1>5. ASSUME Ascending(pq, c), NEW m \in NumbersIn(p, c), NEW n \in NumbersIn(q, c) PROVE m < n
  <2>1. PICK i \in 1..Len(p) : \E k \in 1..Len(p[i].msgs[c]) : p[i].msgs[c][k] = m /\ m # 0
    BY NumbersAt
  <2>2. PICK k \in 1..Len(p[i].msgs[c]) : p[i].msgs[c][k] = m /\ m # 0
    BY <2>1
  <2>3. PICK j \in 1..Len(q) : \E l \in 1..Len(q[j].msgs[c]) : q[j].msgs[c][l] = n /\ n # 0
    BY NumbersAt
  <2>4. PICK l \in 1..Len(q[j].msgs[c]) : q[j].msgs[c][l] = n /\ n # 0
    BY <2>3
  <2>5. /\ pq[i] = p[i] /\ i \in 1..Len(pq) /\ i < Len(p) + j
        /\ pq[Len(p) + j] = q[j] /\ Len(p) + j \in 1..Len(pq)
    BY <1>1
  <2> QED BY <1>5, <2>2, <2>4, <2>5 DEF Ascending
<1>6. ASSUME Ascending(p, c), Ascending(q, c), Before(NumbersIn(p, c), NumbersIn(q, c))
      PROVE  Ascending(pq, c)
  <2> SUFFICES ASSUME NEW i \in 1..Len(pq), NEW j \in 1..Len(pq), NEW k \in 1..Len(pq[i].msgs[c]),
                      NEW l \in 1..Len(pq[j].msgs[c]), i < j \/ (i = j /\ k < l),
                      pq[i].msgs[c][k] # 0, pq[j].msgs[c][l] # 0
               PROVE  pq[i].msgs[c][k] < pq[j].msgs[c][l]
    BY DEF Ascending
  <2>1. CASE j \in 1..Len(p)
    <3>1. i \in 1..Len(p)
      <4>1. j <= Len(p) /\ i <= j
        BY <1>1, <2>1
      <4> QED BY <1>1, <4>1
    <3>2. pq[i] = p[i] /\ pq[j] = p[j]
      BY <1>1, <2>1, <3>1
    <3> QED BY <3>2, <1>6, <2>1, <3>1 DEF Ascending
  <2>2. CASE i \notin 1..Len(p)
    <3>1. PICK a, b \in 1..Len(q) : /\ i = Len(p) + a /\ j = Len(p) + b
                                    /\ i < j => a < b
                                    /\ i = j => a = b
      <4>1. i < j \/ i = j
        OBVIOUS
      <4> QED BY <1>8, <2>2, <4>1
    <3>3. pq[i] = q[a] /\ pq[j] = q[b]
      BY <1>1, <3>1
    <3> QED BY <1>6, <3>1, <3>3 DEF Ascending
  <2>3. CASE i \in 1..Len(p) /\ j \notin 1..Len(p)
    <3>1. PICK b \in 1..Len(q) : j = Len(p) + b
      BY <1>1, <2>3
    <3>2. pq[i] = p[i] /\ pq[j] = q[b]
      BY <1>1, <2>3, <3>1
    <3>3. pq[i].msgs[c][k] \in NumbersIn(p, c) /\ pq[j].msgs[c][l] \in NumbersIn(q, c)
      BY <2>3, <3>2, NumbersAt
    <3> QED BY <1>6, <3>3 DEF Before
  <2> QED BY <2>1, <2>2, <2>3
<1> QED BY <1>2, <1>3, <1>4, <1>5, <1>6 DEF pq, Before

(* An event in front of a queue. *)
LEMMA QueueFront ==
  ASSUME NEW e \in Events, NEW q \in Seq(Events), NEW c \in Conv
  PROVE  /\ NumbersIn(<<e>> \o q, c) = Numbers(e.msgs[c]) \cup NumbersIn(q, c)
         /\ Ascending(<<e>> \o q, c) <=> /\ Rising(e.msgs[c]) /\ Ascending(q, c)
                                         /\ Before(Numbers(e.msgs[c]), NumbersIn(q, c))
<1>1. <<e>> \in Seq(Events)
  OBVIOUS
<1>2. /\ NumbersIn(<<e>>, c) = Numbers(e.msgs[c])
      /\ Ascending(<<e>>, c) <=> Rising(e.msgs[c])
  BY QueueOne
<1>3. /\ NumbersIn(<<e>> \o q, c) = NumbersIn(<<e>>, c) \cup NumbersIn(q, c)
      /\ Ascending(<<e>> \o q, c) <=> /\ Ascending(<<e>>, c) /\ Ascending(q, c)
                                      /\ Before(NumbersIn(<<e>>, c), NumbersIn(q, c))
  BY <1>1, QueueJoin
<1> QED BY <1>2, <1>3

(* What a trigger tells. *)
LEMMA QueueTrigger ==
  ASSUME NEW k \in EventKinds, NEW m \in MsgMap, NEW c \in Conv
  PROVE  /\ NumbersIn(Trigger(k, m), c) = Numbers(m[c])
         /\ Ascending(Trigger(k, m), c) <=> Rising(m[c])
<1>1. CASE IsEmpty(m)
  <2>1. m[c] = <<>> /\ Trigger(k, m) = <<>>
    BY <1>1 DEF IsEmpty, Trigger
  <2>2. Numbers(<<>>) = {} /\ Rising(<<>>)
    BY DEF Numbers, ToSet, Rising
  <2> QED BY <2>1, <2>2, QueueNone
<1>2. CASE ~IsEmpty(m)
  <2>1. Event(k, m) \in Events /\ Event(k, m).msgs = m /\ Trigger(k, m) = <<Event(k, m)>>
    BY <1>2, BatchType DEF Trigger, Event
  <2>2. /\ NumbersIn(<<Event(k, m)>>, c) = Numbers(Event(k, m).msgs[c])
        /\ Ascending(<<Event(k, m)>>, c) <=> Rising(Event(k, m).msgs[c])
    BY <2>1, QueueOne
  <2> QED BY <2>1, <2>2
<1> QED BY <1>1, <1>2

(* What waits for the worker, for the channel, and in res. *)
LEMMA FlowParts ==
  ASSUME NEW evs \in Seq(Events), NEW out \in Seq(Events), NEW r \in MsgMap, NEW c \in Conv
  PROVE  /\ NumbersIn(Flow(evs, out, r), c) = NumbersIn(evs, c) \cup NumbersIn(out, c) \cup Numbers(r[c])
         /\ Ascending(Flow(evs, out, r), c) <=>
              /\ Ascending(evs, c) /\ Ascending(out, c) /\ Rising(r[c])
              /\ Before(NumbersIn(evs, c), NumbersIn(out, c))
              /\ Before(NumbersIn(evs, c) \cup NumbersIn(out, c), Numbers(r[c]))
<1> DEFINE e == Event("NewMsgCome", r)
<1>1. e \in Events /\ e.msgs = r /\ <<e>> \in Seq(Events) /\ evs \o out \in Seq(Events)
  BY BatchType, OneEventType DEF EventKinds, Event
<1> HIDE DEF e
<1>2. /\ NumbersIn(evs \o out, c) = NumbersIn(evs, c) \cup NumbersIn(out, c)
      /\ Ascending(evs \o out, c) <=> /\ Ascending(evs, c) /\ Ascending(out, c)
                                      /\ Before(NumbersIn(evs, c), NumbersIn(out, c))
  BY QueueJoin
<1>3. /\ NumbersIn((evs \o out) \o <<e>>, c) = NumbersIn(evs \o out, c) \cup NumbersIn(<<e>>, c)
      /\ Ascending((evs \o out) \o <<e>>, c) <=>
           /\ Ascending(evs \o out, c) /\ Ascending(<<e>>, c)
           /\ Before(NumbersIn(evs \o out, c), NumbersIn(<<e>>, c))
  BY <1>1, QueueJoin
<1>4. NumbersIn(<<e>>, c) = Numbers(r[c]) /\ (Ascending(<<e>>, c) <=> Rising(r[c]))
  BY <1>1, QueueOne
<1>5. Flow(evs, out, r) = (evs \o out) \o <<e>>
  BY DEF Flow, e
<1> QED BY <1>2, <1>3, <1>4, <1>5
-----------------------------------------------------------------------------
(* The pipeline, step by step *)

(* The parts of the pipeline, before and after a step. *)
Parts(c) ==
  /\ InFlight(c) = NumbersIn(eventCh, c) \cup NumbersIn(outbox, c) \cup Numbers(res[c])
  /\ Ascending(Pipeline, c) <=>
       /\ Ascending(eventCh, c) /\ Ascending(outbox, c) /\ Rising(res[c])
       /\ Before(NumbersIn(eventCh, c), NumbersIn(outbox, c))
       /\ Before(NumbersIn(eventCh, c) \cup NumbersIn(outbox, c), Numbers(res[c]))

LEMMA PartsOf == ASSUME NEW c \in Conv PROVE (TypeOK => Parts(c)) /\ (TypeOK' => Parts(c)')
<1>1. ASSUME TypeOK PROVE Parts(c)
  <2>1. eventCh \in Seq(Events) /\ outbox \in Seq(Events) /\ res \in MsgMap
    BY <1>1 DEF TypeOK, TypeEvents, TypeJob
  <2>2. Pipeline = Flow(eventCh, outbox, res) /\ InFlight(c) = NumbersIn(Pipeline, c)
    BY DEF Pipeline, Flow, InFlight
  <2>3. /\ NumbersIn(Flow(eventCh, outbox, res), c) =
             NumbersIn(eventCh, c) \cup NumbersIn(outbox, c) \cup Numbers(res[c])
        /\ Ascending(Flow(eventCh, outbox, res), c) <=>
             /\ Ascending(eventCh, c) /\ Ascending(outbox, c) /\ Rising(res[c])
             /\ Before(NumbersIn(eventCh, c), NumbersIn(outbox, c))
             /\ Before(NumbersIn(eventCh, c) \cup NumbersIn(outbox, c), Numbers(res[c]))
    BY <2>1, FlowParts
  <2> QED BY <2>2, <2>3 DEF Parts
<1>2. ASSUME TypeOK' PROVE Parts(c)'
  <2>1. eventCh' \in Seq(Events) /\ outbox' \in Seq(Events) /\ res' \in MsgMap
    BY <1>2 DEF TypeOK, TypeEvents, TypeJob
  <2>2. Pipeline' = Flow(eventCh', outbox', res') /\ InFlight(c)' = NumbersIn(Pipeline', c)
    BY DEF Pipeline, Flow, InFlight
  <2>3. /\ NumbersIn(Flow(eventCh', outbox', res'), c) =
             NumbersIn(eventCh', c) \cup NumbersIn(outbox', c) \cup Numbers(res'[c])
        /\ Ascending(Flow(eventCh', outbox', res'), c) <=>
             /\ Ascending(eventCh', c) /\ Ascending(outbox', c) /\ Rising(res'[c])
             /\ Before(NumbersIn(eventCh', c), NumbersIn(outbox', c))
             /\ Before(NumbersIn(eventCh', c) \cup NumbersIn(outbox', c), Numbers(res'[c]))
    BY <2>1, FlowParts
  <2> QED BY <2>2, <2>3 DEF Parts
<1> QED BY <1>1, <1>2

(* What is on its way is in the log, and numbered from 1. *)
LEMMA InFlightNumbers == ASSUME TypeOK, NEW c \in Conv PROVE \A n \in InFlight(c) : n \in Nat /\ n # 0
<1>1. /\ eventCh \in Seq(Events) /\ outbox \in Seq(Events) /\ res \in MsgMap
  BY DEF TypeOK, TypeEvents, TypeJob
<1>2. \A q \in Seq(Events) : \A n \in NumbersIn(q, c) : n \in Nat /\ n # 0
  <2> SUFFICES ASSUME NEW q \in Seq(Events), NEW n \in NumbersIn(q, c) PROVE n \in Nat /\ n # 0
    OBVIOUS
  <2>1. PICK i \in 1..Len(q) : \E k \in 1..Len(q[i].msgs[c]) : q[i].msgs[c][k] = n /\ n # 0
    BY NumbersAt
  <2>2. q[i] \in Events
    OBVIOUS
  <2>3. q[i].msgs[c] \in Seq(Nat)
    BY <2>2 DEF Events, MsgMap
  <2> QED BY <2>1, <2>3
<1>3. res[c] \in Seq(Nat)
  BY <1>1 DEF MsgMap
<1>4. \A n \in Numbers(res[c]) : n \in Nat /\ n # 0
  BY <1>3, NumbersAt
<1> QED BY <1>1, <1>2, <1>4, PartsOf DEF Parts

(* Nothing moves. *)
LEMMA FlowSame ==
  ASSUME NEW c \in Conv, UNCHANGED <<eventCh, outbox, res>>
  PROVE  InFlight(c)' = InFlight(c) /\ (Ascending(Pipeline, c) => Ascending(Pipeline, c)')
<1>1. Pipeline' = Pipeline
  BY DEF Pipeline
<1> QED BY <1>1 DEF InFlight

(* The first event to be made goes to the channel, or is given up. *)
LEMMA FlowDispatch ==
  ASSUME TypeOK, TypeOK', Dispatch, NEW c \in Conv
  PROVE  /\ InFlight(c)' \subseteq InFlight(c)
         /\ "timeout" \notin Faults =>
              InFlight(c)' = InFlight(c) /\ (Ascending(Pipeline, c) => Ascending(Pipeline, c)')
<1> DEFINE e == Head(outbox)
<1>1. /\ eventCh \in Seq(Events) /\ outbox \in Seq(Events) /\ outbox # <<>>
      /\ outbox' = Tail(outbox) /\ res' = res
  BY DEF TypeOK, TypeEvents, Dispatch, jobVars
<1>2. e \in Events /\ <<e>> \in Seq(Events) /\ Tail(outbox) \in Seq(Events)
  BY <1>1
<1>3. outbox = <<e>> \o Tail(outbox)
  BY <1>1
<1>4. Append(eventCh, e) = eventCh \o <<e>>
  BY <1>1
<1>5. eventCh' = eventCh \o <<e>> \/ (eventCh' = eventCh /\ "timeout" \in Faults)
  BY <1>4 DEF Dispatch, SendCmdToChan
<1> HIDE DEF e
<1>6. /\ NumbersIn(<<e>> \o Tail(outbox), c) = NumbersIn(<<e>>, c) \cup NumbersIn(Tail(outbox), c)
      /\ Ascending(<<e>> \o Tail(outbox), c) <=>
           /\ Ascending(<<e>>, c) /\ Ascending(Tail(outbox), c)
           /\ Before(NumbersIn(<<e>>, c), NumbersIn(Tail(outbox), c))
  BY <1>2, QueueJoin
<1>7. /\ NumbersIn(eventCh \o <<e>>, c) = NumbersIn(eventCh, c) \cup NumbersIn(<<e>>, c)
      /\ Ascending(eventCh \o <<e>>, c) <=> /\ Ascending(eventCh, c) /\ Ascending(<<e>>, c)
                                            /\ Before(NumbersIn(eventCh, c), NumbersIn(<<e>>, c))
  BY <1>1, <1>2, QueueJoin
<1>8. Parts(c) /\ Parts(c)'
  BY PartsOf
<1> QED BY <1>1, <1>3, <1>5, <1>6, <1>7, <1>8 DEF Parts, Before

(***************************************************************************)
(* The syncer makes events, when those before are dispatched, or takes     *)
(* messages into res: what is new of c comes after all that is on its way. *)
(***************************************************************************)
LEMMA FlowEmit ==
  ASSUME TypeOK, TypeOK', NEW c \in Conv, NEW New,
         outbox = <<>>, eventCh' = eventCh,
         NumbersIn(outbox', c) \cup Numbers(res'[c]) = Numbers(res[c]) \cup New
  PROVE  /\ InFlight(c)' = InFlight(c) \cup New
         /\ /\ Ascending(Pipeline, c) /\ Before(InFlight(c), New)
            /\ Rising(res[c]) => /\ Ascending(outbox', c) /\ Rising(res'[c])
                                 /\ Before(NumbersIn(outbox', c), Numbers(res'[c]))
            => Ascending(Pipeline, c)'
<1>1. Parts(c) /\ Parts(c)'
  BY PartsOf
<1>2. NumbersIn(outbox, c) = {}
  BY QueueNone
<1> QED BY <1>1, <1>2 DEF Parts, Before

(* Events that say nothing of c. *)
LEMMA FlowSilent ==
  ASSUME TypeOK, TypeOK', NEW c \in Conv, outbox = <<>>, eventCh' = eventCh,
         NumbersIn(outbox', c) = {}, Ascending(outbox', c), res'[c] = res[c]
  PROVE  InFlight(c)' = InFlight(c) /\ (Ascending(Pipeline, c) => Ascending(Pipeline, c)')
<1>1. Before(InFlight(c), {}) /\ Before(NumbersIn(outbox', c), Numbers(res'[c]))
  BY DEF Before
<1>2. NumbersIn(outbox', c) \cup Numbers(res'[c]) = Numbers(res[c]) \cup {}
  OBVIOUS
<1>3. InFlight(c)' = InFlight(c) \cup {}
  BY <1>2, FlowEmit
<1>4. Ascending(Pipeline, c) => Ascending(Pipeline, c)'
  BY <1>1, <1>2, FlowEmit
<1> QED BY <1>3, <1>4

(* The worker is done with conversation d of the first event. *)
LEMMA FlowWork ==
  ASSUME TypeOK, TypeOK', NEW c \in Conv, NEW d \in Conv, eventCh # <<>>, Next1(d),
         UNCHANGED <<outbox, res>>
  PROVE  /\ InFlight(c)' \subseteq InFlight(c)
         /\ InFlight(c) \subseteq
              InFlight(c)' \cup (IF d = c THEN Numbers(Head(eventCh).msgs[c]) ELSE {})
         /\ Ascending(Pipeline, c) => Ascending(Pipeline, c)'
<1> DEFINE e == Head(eventCh)
           left == [e.msgs EXCEPT ![d] = <<>>]
           f == Event(e.kind, left)
<1>1. /\ eventCh \in Seq(Events) /\ e \in Events /\ <<e>> \in Seq(Events)
      /\ Tail(eventCh) \in Seq(Events) /\ eventCh = <<e>> \o Tail(eventCh)
  BY DEF TypeOK, TypeEvents
<1>2. e.msgs \in MsgMap /\ e.kind \in EventKinds
  BY <1>1 DEF Events
<1>3. left \in MsgMap /\ left[d] = <<>> /\ \A x \in Conv \ {d} : left[x] = e.msgs[x]
  BY <1>2 DEF MsgMap
<1>4. f \in Events /\ f.msgs = left /\ <<f>> \in Seq(Events)
  BY <1>2, <1>3, BatchType, OneEventType DEF Event
<1>5. \/ IsEmpty(left) /\ eventCh' = Tail(eventCh)
      \/ eventCh' = <<f>> \o Tail(eventCh)
  BY DEF Next1
<1> HIDE DEF e, left, f
<1>6. /\ NumbersIn(<<e>> \o Tail(eventCh), c) = Numbers(e.msgs[c]) \cup NumbersIn(Tail(eventCh), c)
      /\ Ascending(<<e>> \o Tail(eventCh), c) <=>
           /\ Rising(e.msgs[c]) /\ Ascending(Tail(eventCh), c)
           /\ Before(Numbers(e.msgs[c]), NumbersIn(Tail(eventCh), c))
  BY <1>1, QueueFront
<1>7. /\ NumbersIn(<<f>> \o Tail(eventCh), c) = Numbers(left[c]) \cup NumbersIn(Tail(eventCh), c)
      /\ Ascending(<<f>> \o Tail(eventCh), c) <=>
           /\ Rising(left[c]) /\ Ascending(Tail(eventCh), c)
           /\ Before(Numbers(left[c]), NumbersIn(Tail(eventCh), c))
  <2>1. f \in Events /\ Tail(eventCh) \in Seq(Events)
    BY <1>1, <1>4
  <2>2. NumbersIn(<<f>> \o Tail(eventCh), c) = Numbers(f.msgs[c]) \cup NumbersIn(Tail(eventCh), c)
    BY <2>1, QueueFront
  <2>3. Ascending(<<f>> \o Tail(eventCh), c) <=>
           /\ Rising(f.msgs[c]) /\ Ascending(Tail(eventCh), c)
           /\ Before(Numbers(f.msgs[c]), NumbersIn(Tail(eventCh), c))
    BY <2>1, QueueFront
  <2> QED BY <1>4, <2>2, <2>3
<1>8. Numbers(<<>>) = {} /\ Rising(<<>>)
  BY DEF Numbers, ToSet, Rising
<1>9. Parts(c) /\ Parts(c)'
  BY PartsOf
<1>10. CASE eventCh' = <<f>> \o Tail(eventCh)
  <2>1. CASE d = c
    BY <1>1, <1>3, <1>6, <1>7, <1>8, <1>9, <1>10, <2>1 DEF Parts, Before, e
  <2>2. CASE d # c
    BY <1>1, <1>3, <1>6, <1>7, <1>9, <1>10, <2>2 DEF Parts, Before
  <2> QED BY <2>1, <2>2
<1>11. CASE IsEmpty(left) /\ eventCh' = Tail(eventCh)
  <2>1. left[c] = <<>>
    BY <1>11 DEF IsEmpty
  <2>2. d # c => Numbers(e.msgs[c]) = {}
    BY <1>3, <1>8, <2>1
  <2> QED BY <1>1, <1>6, <1>9, <1>11, <2>2 DEF Parts, Before, e
<1> QED BY <1>5, <1>10, <1>11

(* A flag carries nothing. *)
LEMMA FlowFlag ==
  ASSUME TypeOK, TypeOK', NEW c \in Conv, HandleFlag
  PROVE  InFlight(c)' = InFlight(c) /\ (Ascending(Pipeline, c) => Ascending(Pipeline, c)')
<1> DEFINE e == Head(eventCh)
<1>1. /\ eventCh # <<>> /\ IsEmpty(e.msgs) /\ eventCh' = Tail(eventCh)
      /\ UNCHANGED <<outbox, res>>
  BY DEF HandleFlag, jobVars
<1>2. /\ eventCh \in Seq(Events) /\ e \in Events /\ <<e>> \in Seq(Events)
      /\ Tail(eventCh) \in Seq(Events) /\ eventCh = <<e>> \o Tail(eventCh)
  BY <1>1 DEF TypeOK, TypeEvents
<1> HIDE DEF e
<1>3. Numbers(e.msgs[c]) = {}
  BY <1>1 DEF IsEmpty, Numbers, ToSet
<1>4. /\ NumbersIn(<<e>> \o Tail(eventCh), c) = Numbers(e.msgs[c]) \cup NumbersIn(Tail(eventCh), c)
      /\ Ascending(<<e>> \o Tail(eventCh), c) <=>
           /\ Rising(e.msgs[c]) /\ Ascending(Tail(eventCh), c)
           /\ Before(Numbers(e.msgs[c]), NumbersIn(Tail(eventCh), c))
  BY <1>2, QueueFront
<1>5. Parts(c) /\ Parts(c)'
  BY PartsOf
<1> QED BY <1>1, <1>2, <1>3, <1>4, <1>5 DEF Parts, Before

(* Nothing is on its way. *)
LEMMA FlowNone ==
  ASSUME NEW c \in Conv, TypeOK', eventCh' = <<>>, outbox' = <<>>, res' = NoMsgs
  PROVE  InFlight(c)' = {} /\ Ascending(Pipeline, c)'
<1>1. res'[c] = <<>> /\ Numbers(<<>>) = {} /\ Rising(<<>>)
  BY DEF NoMsgs, Numbers, ToSet, Rising
<1> QED BY <1>1, QueueNone, PartsOf DEF Parts, Before
-----------------------------------------------------------------------------
(* Pushes *)

InPush == {"msgs", "notifications"}

(* What a push has still to visit has put nothing into res yet. *)
ResFresh ==
  /\ pc \notin InPush => res = NoMsgs
  /\ pc \in InPush => \A c \in Unvisited : res[c] = <<>>

(* The server, the connection and the batcher only fill the syncer's channel. *)
LEMMA EnvironmentQuiet ==
  ASSUME Environment \/ Resting \/ UNCHANGED vars
  PROVE  UNCHANGED <<jobVars, synced, outbox, eventCh, dbVars>>
  BY DEF Environment, Publish, PushDirect, PushMerged, FlushBuffer, TimerFires, TimerDispatches,
         Connect, Disconnect, WakeUp, IMSync, UserCommand, SyncWindowEnds, Resting, vars

(* The worker leaves the syncer alone. *)
LEMMA WorkerQuiet == ASSUME Worker PROVE UNCHANGED <<jobVars, synced, outbox, batchVars, serverVars>>
  BY DEF Worker, InsertMessages, StoreConversation, DoNotifications, SetNotificationSeq, HandleFlag

LEMMA FreshNext == TypeOK /\ ResFresh /\ [Next]_vars => ResFresh'
<1> SUFFICES ASSUME TypeOK, ResFresh, [Next]_vars PROVE ResFresh'
  OBVIOUS
<1>1. ASSUME UNCHANGED <<pc, push, res>> PROVE ResFresh'
  BY <1>1 DEF ResFresh, Unvisited
<1>2. ASSUME res' = NoMsgs PROVE ResFresh'
  <2>1. push' \in Batches
    BY TypeNext DEF TypeOK, TypeJob
  <2>2. Unvisited' \subseteq Conv
    BY <2>1 DEF Unvisited, Batches
  <2> QED BY <1>2, <2>2 DEF ResFresh, NoMsgs
<1>3. CASE Environment \/ Worker \/ Resting \/ UNCHANGED vars
  BY <1>1, <1>3, EnvironmentQuiet, WorkerQuiet DEF jobVars
<1>4. CASE Crash
  BY <1>2, <1>4 DEF Crash, Idle
<1>5. CASE StartConnectedSync \/ StartWakeUpSync \/ IgnoreSync \/ StartIMSync \/ StartPush
  <2>1. pc = "idle" /\ res' = res
    BY <1>5 DEF StartConnectedSync, StartWakeUpSync, IgnoreSync, StartIMSync, StartPush, Received,
                Ready, jobVars
  <2> QED BY <1>2, <2>1 DEF ResFresh, InPush
<1>6. CASE Dispatch \/ RetryMaxSeq \/ PullFailed \/ \E B \in SUBSET Conv : Pulled(B)
  BY <1>1, <1>6 DEF Dispatch, RetryMaxSeq, PullFailed, Pulled, jobVars
<1>7. CASE MaxSeqFailed \/ EndSync \/ PushTriggered
  BY <1>2, <1>7 DEF MaxSeqFailed, EndSync, PushTriggered, Idle
<1>8. CASE CompareSeqs
  BY <1>8 DEF CompareSeqs, Ready, ResFresh, InPush
<1>9. CASE PullDone
  <2>1. pc = "pull" /\ (Idle \/ res' = res)
    BY <1>9 DEF PullDone, Ready
  <2> QED BY <1>2, <2>1 DEF ResFresh, InPush, Idle
<1>10. ASSUME NEW c \in Conv, PushConversation(c) PROVE ResFresh'
  <2>1. /\ pc' = pc /\ pc \in InPush
        /\ push' = [push EXCEPT !.msgs[c] = <<>>, !.convs = @ \ {c}]
        /\ \E s : res' = [res EXCEPT ![c] = s] \/ res' = res
    BY <1>10 DEF PushConversation, InPush
  <2>2. push \in Batches /\ res \in MsgMap
    BY DEF TypeOK, TypeJob
  <2>3. Unvisited' \subseteq Unvisited \ {c}
    BY <2>1, <2>2 DEF Unvisited, Batches, MsgMap
  <2>4. \A d \in Conv \ {c} : res'[d] = res[d]
    BY <2>1, <2>2 DEF MsgMap
  <2>5. Unvisited \subseteq Conv
    BY <2>2 DEF Unvisited, Batches
  <2> QED BY <2>1, <2>3, <2>4, <2>5 DEF ResFresh
<1> QED
  BY <1>3, <1>4, <1>5, <1>6, <1>7, <1>8, <1>9, <1>10 DEF Next, Syncer

(* Without merges a push is of one message. *)
OnePush(b) == \A c \in Conv : Len(b.msgs[c]) <= 1
Unmerged ==
  /\ buffer = NoBatch /\ flushing = NoBatch /\ OnePush(push)
  /\ \A i \in 1..Len(pushCh) : OnePush(pushCh[i].batch)

LEMMA OnePushBuilt ==
  /\ \A S : OnePush(Batch(NoMsgs, S))
  /\ \A c \in Conv, n \in Nat : OnePush(One(c, n))
<1>1. \A S : OnePush(Batch(NoMsgs, S))
  BY DEF OnePush, Batch, NoMsgs
<1>2. ASSUME NEW c \in Conv, NEW n \in Nat PROVE OnePush(Batch(Single(c, n), {}))
  BY DEF OnePush, Batch, Single, NoMsgs
<1> QED BY <1>1, <1>2 DEF One

LEMMA UnmergedNext ==
  ASSUME TypeOK, Unmerged, "merge" \notin Faults, [Next]_vars PROVE Unmerged'
<1>0. pushCh \in Seq(Commands) /\ push \in Batches
  BY DEF TypeOK, TypeBatch, TypeJob
<1>1. ASSUME UNCHANGED <<buffer, flushing, push>>,
             pushCh' = pushCh \/ \E k, b, cap : /\ OnePush(b) /\ b \in Batches
                                                /\ pushCh' \in SendCmdToChan(pushCh, cap, Command(k, b))
      PROVE  Unmerged'
  <2>1. CASE pushCh' = pushCh
    BY <1>1, <2>1 DEF Unmerged, OnePush
  <2>2. ASSUME NEW k, NEW b, OnePush(b), pushCh' = Append(pushCh, Command(k, b)) PROVE Unmerged'
    <3>1. Command(k, b).batch = b
      BY DEF Command
    <3>2. /\ \A i \in 1..Len(pushCh) : pushCh'[i] = pushCh[i]
          /\ pushCh'[Len(pushCh) + 1] = Command(k, b)
          /\ Len(pushCh') = Len(pushCh) + 1 /\ Len(pushCh) \in Nat
      BY <1>0, <2>2
    <3>3. ASSUME NEW i \in 1..Len(pushCh') PROVE OnePush(pushCh'[i].batch)
      BY <2>2, <3>1, <3>2 DEF Unmerged
    <3> QED BY <1>1, <3>3 DEF Unmerged, OnePush
  <2> QED BY <1>1, <2>1, <2>2 DEF SendCmdToChan
<1>2. CASE Worker \/ Resting \/ UNCHANGED vars
  BY <1>1, <1>2, EnvironmentQuiet, WorkerQuiet DEF jobVars, batchVars, Resting, vars
<1>3. CASE Environment
  <2>1. ASSUME NEW c \in Conv, NEW n \in 0..MaxSeq, PushDirect(c, n) PROVE Unmerged'
    <3>1. n \in Nat /\ OnePush(One(c, n)) /\ One(c, n) \in Batches
      BY OnePushBuilt, OneType
    <3>2. /\ pushCh' \in SendCmdToChan(pushCh, PushCap, Command("PushMsg", One(c, n)))
          /\ UNCHANGED <<buffer, flushing, push>>
      BY <2>1 DEF PushDirect, jobVars, Push
    <3> QED BY <1>1, <3>1, <3>2
  <2>2. CASE Connect
    <3>1. OnePush(NoBatch) /\ NoBatch \in Batches
      BY OnePushBuilt, BatchType DEF NoBatch
    <3>2. /\ pushCh' \in SendCmdToChan(pushCh, PushCap, Command("ConnSuccess", NoBatch))
          /\ UNCHANGED <<buffer, flushing, push>>
      BY <2>2 DEF Connect, jobVars
    <3> QED BY <1>1, <3>1, <3>2
  <2>3. ASSUME NEW k, NEW S \in SUBSET Conv, UserCommand(k, S) PROVE Unmerged'
    <3>1. OnePush(Batch(NoMsgs, S)) /\ Batch(NoMsgs, S) \in Batches
      BY OnePushBuilt, BatchType, MsgMapType
    <3>2. /\ pushCh' \in SendCmdToChan(pushCh, PushCap, Command(k, Batch(NoMsgs, S)))
          /\ UNCHANGED <<buffer, flushing, push>>
      BY <2>3 DEF UserCommand, jobVars
    <3> QED BY <1>1, <3>1, <3>2
  <2>4. ~FlushBuffer /\ ~TimerFires /\ ~TimerDispatches /\ \A c \in Conv, n \in 0..MaxSeq : ~PushMerged(c, n)
    BY DEF FlushBuffer, TimerFires, TimerDispatches, PushMerged, Unmerged
  <2>5. CASE Disconnect \/ SyncWindowEnds \/ \E c \in Conv : Publish(c)
    BY <1>1, <2>5 DEF Disconnect, SyncWindowEnds, Publish, jobVars, batchVars
  <2>6. CASE WakeUp \/ IMSync
    BY <2>3, <2>6 DEF WakeUp, IMSync, Conv
  <2> QED BY <1>3, <2>1, <2>2, <2>4, <2>5, <2>6 DEF Environment
<1>4. CASE Crash
  BY <1>4, OnePushBuilt DEF Crash, Idle, Unmerged, NoBatch
<1>5. CASE StartConnectedSync \/ StartWakeUpSync \/ IgnoreSync \/ StartIMSync \/ StartPush
  <2>1. /\ pushCh # <<>> /\ pushCh' = Tail(pushCh) /\ UNCHANGED <<buffer, flushing>>
        /\ push' = push \/ push' = Head(pushCh).batch
    BY <1>5 DEF StartConnectedSync, StartWakeUpSync, IgnoreSync, StartIMSync, StartPush, Received, jobVars
  <2>2. Head(pushCh) = pushCh[1] /\ 1 \in 1..Len(pushCh)
    BY <1>0, <2>1
  <2>3. \A i \in 1..Len(Tail(pushCh)) : Tail(pushCh)[i] = pushCh[i + 1] /\ i + 1 \in 1..Len(pushCh)
    BY <1>0, <2>1
  <2>4. OnePush(push')
    BY <2>1, <2>2 DEF Unmerged
  <2>5. \A i \in 1..Len(pushCh') : OnePush(pushCh'[i].batch)
    BY <2>1, <2>3 DEF Unmerged
  <2> QED BY <2>1, <2>4, <2>5 DEF Unmerged, OnePush
<1>6. CASE Dispatch \/ RetryMaxSeq \/ CompareSeqs \/ PushTriggered \/ PullFailed
           \/ \E B \in SUBSET Conv : Pulled(B)
  BY <1>1, <1>6 DEF Dispatch, RetryMaxSeq, CompareSeqs, PushTriggered, PullFailed, Pulled, jobVars, batchVars
<1>7. CASE MaxSeqFailed \/ EndSync \/ PullDone
  <2>1. UNCHANGED batchVars /\ (push' = NoBatch \/ push' = push)
    BY <1>7 DEF MaxSeqFailed, EndSync, PullDone, Idle
  <2>2. OnePush(push')
    BY <2>1, OnePushBuilt DEF NoBatch, Unmerged
  <2> QED BY <2>1, <2>2 DEF Unmerged, batchVars, OnePush
<1>8. ASSUME NEW c \in Conv, PushConversation(c) PROVE Unmerged'
  <2>1. /\ push' = [push EXCEPT !.msgs[c] = <<>>, !.convs = @ \ {c}] /\ UNCHANGED batchVars
    BY <1>8 DEF PushConversation
  <2>2. \A d \in Conv : push'.msgs[d] = push.msgs[d] \/ push'.msgs[d] = <<>>
    BY <1>0, <2>1 DEF Batches, MsgMap
  <2>3. OnePush(push')
    BY <2>2 DEF OnePush, Unmerged
  <2> QED BY <2>1, <2>3 DEF Unmerged, batchVars, OnePush
<1> QED
  BY <1>2, <1>3, <1>4, <1>5, <1>6, <1>7, <1>8 DEF Next, Syncer
-----------------------------------------------------------------------------
(* Notifications *)

(***************************************************************************)
(* The notifications of c up to the synced number are handled or on their  *)
(* way, in their order, and none beyond it; a range to pull begins where   *)
(* the synced number ends; what the row says is handled.                   *)
(***************************************************************************)
NotifInv(c) ==
  /\ c \in Wanted => need[c].lo \in {synced[c] + 1, AtLeast0(synced[c]) + 1}
  /\ \A n \in InFlight(c) : n <= AtLeast0(synced[c])
  /\ Ascending(Pipeline, c)
  /\ 1..synced[c] \subseteq handled[c] \cup InFlight(c)
  /\ \A n \in handled[c] : 1..n \subseteq handled[c]
  /\ notifSeq[c] <= AtLeast0(synced[c]) /\ 1..notifSeq[c] \subseteq handled[c]
  /\ synced[c] >= Absent /\ notifSeq[c] >= Absent

(* A step that concerns neither c's numbers nor what is on its way. *)
LEMMA NotifFrame ==
  ASSUME NEW c \in Notif, NotifInv(c), InFlight(c)' = InFlight(c), Ascending(Pipeline, c)',
         synced'[c] = synced[c], handled'[c] = handled[c], notifSeq'[c] = notifSeq[c],
         need'[c] = need[c] \/ c \notin Wanted'
  PROVE  NotifInv(c)'
  BY DEF NotifInv, Wanted

(* The numbers up to h follow what is on its way: a push, or a pull. *)
LEMMA NotifAdvance ==
  ASSUME TypeOK, NEW c \in Notif, NotifInv(c), NEW h \in Nat, NEW New \in SUBSET Nat,
         InFlight(c)' = InFlight(c) \cup New, Ascending(Pipeline, c)',
         AtLeast0(synced[c]) <= h, \A n \in New : n <= h,
         \A n \in Nat : AtLeast0(synced[c]) < n /\ n <= h => n \in New,
         synced'[c] = h, handled'[c] = handled[c], notifSeq'[c] = notifSeq[c], c \notin Wanted'
  PROVE  NotifInv(c)'
<1>0. c \in Conv /\ synced[c] \in Int /\ notifSeq[c] \in Int /\ AtLeast0(synced[c]) \in Nat /\ AtLeast0(h) = h
  BY DEF Conv, TypeOK, TypeSyncer, TypeDb, AtLeast0
<1>1. \A n \in InFlight(c) : n \in Nat
  BY <1>0, InFlightNumbers
<1>2. \A n \in InFlight(c)' : n <= AtLeast0(synced'[c])
  <2>1. \A n \in InFlight(c) : n <= AtLeast0(synced[c])
    BY DEF NotifInv
  <2>2. \A n \in InFlight(c) : n <= h
    BY <1>0, <1>1, <2>1
  <2> QED BY <1>0, <2>2
<1>3. 1..synced'[c] \subseteq handled'[c] \cup InFlight(c)'
  <2> SUFFICES ASSUME NEW n \in 1..h PROVE n \in handled[c] \cup InFlight(c) \cup New
    OBVIOUS
  <2>1. CASE n <= AtLeast0(synced[c])
    <3>1. n \in 1..synced[c]
      BY <1>0, <2>1 DEF AtLeast0
    <3> QED BY <3>1 DEF NotifInv
  <2>2. CASE n > AtLeast0(synced[c])
    BY <1>0, <2>2
  <2> QED BY <1>0, <2>1, <2>2
<1>4. notifSeq'[c] <= AtLeast0(synced'[c])
  BY <1>0 DEF NotifInv
<1>5. synced'[c] >= Absent
  BY DEF Absent
<1> QED BY <1>2, <1>3, <1>4, <1>5 DEF NotifInv

(* A push in sequence is the number after the synced one. *)
LEMMA NotifPush ==
  ASSUME TypeOK, TypeOK', BoundsInv, BoundsInv', ResFresh, Unmerged, NEW c \in Notif, NotifInv(c),
         NEW d \in Conv, PushConversation(d)
  PROVE  NotifInv(c)'
<1> DEFINE storage == push.msgs[d]
           lastSeq == Last(storage)
           cur     == AtLeast0(synced[d])
           accept  == storage # <<>> /\ InSequence(storage, cur)
           pull    == storage # <<>> /\ ~accept /\ lastSeq > cur
           said    == IF d \in push.convs THEN <<Event(PhaseKind, Single(d, 0))>> ELSE <<>>
<1>0. /\ c \in Conv /\ synced \in [Conv -> Int] /\ res \in MsgMap /\ storage \in Seq(Nat)
      /\ need \in [Conv -> [lo : Int, hi : Int]]
  BY DEF Conv, TypeOK, TypeSyncer, TypeJob, Batches, MsgMap
<1>1. /\ outbox = <<>> /\ eventCh' = eventCh /\ handled' = handled /\ notifSeq' = notifSeq
      /\ pc \in InPush /\ d \in Unvisited /\ outbox' = said
      /\ res' = IF accept THEN [res EXCEPT ![d] = storage] ELSE res
      /\ synced' = IF accept THEN [synced EXCEPT ![d] = lastSeq] ELSE synced
      /\ need' = IF pull THEN [need EXCEPT ![d] = RangeTo(cur, lastSeq)] ELSE need
  BY DEF PushConversation, dbVars, InPush
<1>2. NumbersIn(said, c) = {} /\ Ascending(said, c)
  <2>1. CASE d \in push.convs
    <3> DEFINE e == Event(PhaseKind, Single(d, 0))
    <3>1. e \in Events /\ e.msgs = Single(d, 0)
      BY BatchType, MsgMapType DEF PhaseKind, EventKinds, Event
    <3>2. e.msgs[c] = <<>> \/ e.msgs[c] = <<0>>
      BY <1>0, <3>1 DEF Single, NoMsgs
    <3>3. Numbers(e.msgs[c]) = {} /\ Rising(e.msgs[c])
      BY <3>2 DEF Numbers, ToSet, Rising
    <3>4. said = <<e>>
      BY <2>1
    <3> HIDE DEF e, said
    <3> QED BY <1>0, <3>1, <3>3, <3>4, QueueOne
  <2>2. CASE d \notin push.convs
    BY <2>2, QueueNone
  <2> QED BY <2>1, <2>2
<1> HIDE DEF said
<1>3. CASE ~(accept /\ c = d)
  <2>1. res'[c] = res[c] /\ synced'[c] = synced[c]
    BY <1>0, <1>1, <1>3 DEF MsgMap
  <2>2. InFlight(c)' = InFlight(c) /\ Ascending(Pipeline, c)'
    BY <1>0, <1>1, <1>2, <2>1, FlowSilent DEF NotifInv
  <2>3. CASE need'[c] = need[c]
    BY <1>1, <2>1, <2>2, <2>3, NotifFrame
  <2>4. CASE pull /\ c = d
    <3>1. need'[c].lo = AtLeast0(synced[c]) + 1
      BY <1>0, <1>1, <2>4 DEF RangeTo
    <3> QED BY <1>1, <2>1, <2>2, <3>1 DEF NotifInv
  <2> QED BY <1>0, <1>1, <2>3, <2>4
<1>4. CASE accept /\ c = d
  <2>1. Len(storage) = 1
    <3>1. Len(storage) <= 1
      BY DEF Unmerged, OnePush
    <3>2. storage \in Seq(Nat) /\ storage # <<>>
      BY <1>0, <1>4
    <3>3. Len(storage) \in Nat /\ Len(storage) # 0
      BY <3>2, EmptySeq
    <3>4. \A x \in Nat : x <= 1 /\ x # 0 => x = 1
      OBVIOUS
    <3> HIDE DEF storage
    <3> QED BY <3>1, <3>3, <3>4
  <2>2. storage = <<lastSeq>> /\ lastSeq = cur + 1 /\ cur \in Nat
    <3>1. storage = <<storage[1]>> /\ lastSeq = storage[1]
      BY <1>0, <2>1 DEF Last
    <3>2. lastSeq = cur + 1 /\ cur \in Nat
      BY <1>0, <1>4, <2>1 DEF InSequence, AtLeast0
    <3> QED BY <3>1, <3>2
  <2>3. res[c] = <<>> /\ res'[c] = <<lastSeq>> /\ synced'[c] = lastSeq /\ need'[c] = need[c]
    <3>1. res[c] = <<>>
      BY <1>1, <1>4 DEF ResFresh
    <3> QED BY <1>0, <1>1, <1>4, <2>2, <3>1 DEF MsgMap
  <2>4. /\ Numbers(<<>>) = {} /\ Numbers(<<lastSeq>>) = {lastSeq}
        /\ Rising(<<lastSeq>>)
    <3>1. lastSeq \in Nat /\ lastSeq # 0
      BY <2>2
    <3> HIDE DEF lastSeq
    <3> QED BY <3>1 DEF Numbers, ToSet, Rising
  <2>5. c \notin Wanted'
    <3>1. c \notin Wanted
      BY <1>1, <1>4 DEF BoundsInv, RangesVisited, InPush
    <3> QED BY <2>3, <3>1 DEF Wanted
  <2>6. InFlight(c)' = InFlight(c) \cup {lastSeq}
    BY <1>0, <1>1, <1>2, <2>3, <2>4, FlowEmit
  <2>7. Ascending(Pipeline, c)'
    <3>1. Before(InFlight(c), {lastSeq})
      <4>1. \A n \in InFlight(c) : n <= cur
        BY <1>4 DEF NotifInv
      <4>2. \A n \in InFlight(c) : n \in Nat
        BY <1>0, InFlightNumbers
      <4> HIDE DEF cur, lastSeq
      <4> QED BY <2>2, <4>1, <4>2 DEF Before
    <3>2. Before(NumbersIn(outbox', c), Numbers(res'[c]))
      BY <1>1, <1>2 DEF Before
    <3> QED BY <1>0, <1>1, <1>2, <2>3, <2>4, <3>1, <3>2, FlowEmit DEF NotifInv
  <2>8. lastSeq \in Nat /\ \A n \in Nat : cur < n /\ n <= lastSeq => n \in {lastSeq}
    <3> HIDE DEF cur, lastSeq
    <3> QED BY <2>2
  <2>9. cur <= lastSeq /\ cur = AtLeast0(synced[c])
    BY <1>4, <2>2
  <2>10. {lastSeq} \in SUBSET Nat /\ \A n \in {lastSeq} : n <= lastSeq
    <3> HIDE DEF cur, lastSeq
    <3> QED BY <2>8
  <2>11. \A n \in Nat : AtLeast0(synced[c]) < n /\ n <= lastSeq => n \in {lastSeq}
    BY <2>8, <2>9
  <2>12. AtLeast0(synced[c]) <= lastSeq
    BY <2>9
  <2> HIDE DEF cur, lastSeq
  <2> QED BY <1>1, <2>3, <2>5, <2>6, <2>7, <2>8, <2>10, <2>11, <2>12, NotifAdvance
<1> QED BY <1>3, <1>4

(* A pull of notifications is the whole range, in order. *)
LEMMA PullWhole ==
  ASSUME TypeOK, NEW c \in Notif, NotifInv(c), c \in Wanted
  PROVE  /\ PullMsgByRange(c) \in Seq(Nat) /\ Rising(PullMsgByRange(c))
         /\ \A n \in Nat : n \in Numbers(PullMsgByRange(c)) <=>
                            AtLeast0(synced[c]) < n /\ n <= need[c].hi
         /\ need[c].hi \in Nat /\ AtLeast0(synced[c]) <= need[c].hi
<1>1. c \in Conv /\ synced[c] \in Int /\ need[c].lo \in Int /\ need[c].hi \in Int
  BY DEF Conv, TypeOK, TypeSyncer, TypeJob
<1>2. /\ need[c].lo <= need[c].hi /\ synced[c] >= -1
      /\ need[c].lo = synced[c] + 1 \/ need[c].lo = AtLeast0(synced[c]) + 1
  BY DEF Wanted, NotifInv, Absent
<1> DEFINE cur == AtLeast0(synced[c])
           hi == need[c].hi
<1>3. cur \in Nat /\ hi \in Nat /\ cur <= hi
  BY <1>1, <1>2 DEF AtLeast0
<1>4. (IF need[c].lo < 1 THEN 1 ELSE need[c].lo) = cur + 1
  BY <1>1, <1>2 DEF AtLeast0
<1>5. c \notin Regular
  BY ConvAssumption
<1>6. PullMsgByRange(c) = [i \in 1..AtLeast0(hi - (cur + 1) + 1) |-> (cur + 1) + i - 1]
  BY <1>4, <1>5 DEF PullMsgByRange
<1> HIDE DEF cur, hi
<1>7. AtLeast0(hi - (cur + 1) + 1) = hi - cur /\ hi - cur \in Nat
  BY <1>3 DEF AtLeast0
<1>8. PullMsgByRange(c) = [i \in 1..(hi - cur) |-> cur + i]
  <2>1. \A i \in 1..(hi - cur) : (cur + 1) + i - 1 = cur + i
    BY <1>3
  <2> QED BY <1>6, <1>7, <2>1
<1> DEFINE q == PullMsgByRange(c)
<1>9. Len(q) = hi - cur /\ \A i \in 1..(hi - cur) : q[i] = cur + i
  BY <1>7, <1>8
<1>10. q \in Seq(Nat)
  BY PullType, <1>1 DEF TypeOK
<1> HIDE DEF q
<1>11. Rising(q)
  BY <1>3, <1>9 DEF Rising
<1>12. ASSUME NEW n \in Nat PROVE n \in Numbers(q) <=> cur < n /\ n <= hi
  <2>1. n \in Numbers(q) <=> n # 0 /\ \E k \in 1..(hi - cur) : cur + k = n
    BY <1>9, <1>10, NumbersAt
  <2>2. ASSUME cur < n, n <= hi PROVE n - cur \in 1..(hi - cur) /\ cur + (n - cur) = n /\ n # 0
    BY <1>3, <2>2
  <2>3. ASSUME NEW k \in 1..(hi - cur), cur + k = n PROVE cur < n /\ n <= hi
    BY <1>3, <2>3
  <2> QED BY <2>1, <2>2, <2>3
<1> QED BY <1>3, <1>10, <1>11, <1>12 DEF cur, hi, q

LEMMA NotifPull ==
  ASSUME TypeOK, TypeOK', ResFresh, NEW c \in Notif, NotifInv(c), NEW B \in SUBSET Conv, Pulled(B)
  PROVE  NotifInv(c)'
<1> DEFINE msgs == [d \in Conv |-> IF d \in B THEN PullMsgByRange(d) ELSE <<>>]
           chats == Trigger(PullKind, Part(msgs, Regular))
           notes == Trigger("Notification", Part(msgs, Notif))
<1>0. c \in Conv /\ c \notin Regular
  BY ConvAssumption DEF Conv
<1>1. /\ outbox = <<>> /\ eventCh' = eventCh /\ handled' = handled /\ notifSeq' = notifSeq
      /\ res' = res /\ res = NoMsgs /\ B \subseteq Wanted /\ outbox' = chats \o notes
      /\ synced'[c] = (IF c \in B THEN need[c].hi ELSE synced[c])
      /\ need'[c] = (IF c \in B THEN NoRange ELSE need[c])
  BY <1>0 DEF Pulled, Ready, IsBatch, dbVars, ResFresh, InPush, SyncedTo
<1>2. msgs \in MsgMap
  BY PullType DEF MsgMap, TypeOK
<1>3. msgs[c] = IF c \in B THEN PullMsgByRange(c) ELSE <<>>
  BY <1>0
<1> HIDE DEF msgs
<1>4. /\ Part(msgs, Regular) \in MsgMap /\ Part(msgs, Notif) \in MsgMap
      /\ Part(msgs, Regular)[c] = <<>> /\ Part(msgs, Notif)[c] = msgs[c]
  BY <1>0, <1>2, MsgMapType DEF Part
<1>5. PullKind \in EventKinds /\ "Notification" \in EventKinds
  BY DEF PullKind, EventKinds
<1>6. /\ chats \in Seq(Events) /\ notes \in Seq(Events)
      /\ NumbersIn(chats, c) = Numbers(<<>>) /\ (Ascending(chats, c) <=> Rising(<<>>))
      /\ NumbersIn(notes, c) = Numbers(msgs[c]) /\ (Ascending(notes, c) <=> Rising(msgs[c]))
  BY <1>0, <1>4, <1>5, TriggerType, QueueTrigger
<1> HIDE DEF chats, notes
<1>7. Numbers(<<>>) = {} /\ Rising(<<>>)
  BY DEF Numbers, ToSet, Rising
<1>8. NumbersIn(outbox', c) = Numbers(msgs[c]) /\ (Ascending(outbox', c) <=> Rising(msgs[c]))
  <2>1. /\ NumbersIn(chats \o notes, c) = NumbersIn(chats, c) \cup NumbersIn(notes, c)
        /\ Ascending(chats \o notes, c) <=> /\ Ascending(chats, c) /\ Ascending(notes, c)
                                            /\ Before(NumbersIn(chats, c), NumbersIn(notes, c))
    BY <1>0, <1>6, QueueJoin
  <2> QED BY <1>1, <1>6, <1>7, <2>1 DEF Before
<1>9. res[c] = <<>> /\ Numbers(res[c]) = {} /\ Numbers(res'[c]) = {} /\ Rising(res'[c])
  BY <1>0, <1>1, <1>7 DEF NoMsgs
<1>10. CASE c \notin B
  <2>1. InFlight(c)' = InFlight(c) /\ Ascending(Pipeline, c)'
    <3>1. NumbersIn(outbox', c) = {} /\ Ascending(outbox', c) /\ res'[c] = res[c]
      BY <1>1, <1>3, <1>7, <1>8, <1>10
    <3> QED BY <1>0, <1>1, <3>1, FlowSilent DEF NotifInv
  <2> QED BY <1>1, <1>10, <2>1, NotifFrame
<1>11. CASE c \in B
  <2> DEFINE New == Numbers(msgs[c])
             h == need[c].hi
  <2>1. /\ msgs[c] \in Seq(Nat) /\ Rising(msgs[c])
        /\ \A n \in Nat : n \in New <=> AtLeast0(synced[c]) < n /\ n <= h
        /\ h \in Nat /\ AtLeast0(synced[c]) <= h
    BY <1>1, <1>3, <1>11, PullWhole
  <2>2. New \in SUBSET Nat
    BY <2>1, NumbersAt
  <2>3. NumbersIn(outbox', c) \cup Numbers(res'[c]) = Numbers(res[c]) \cup New
    BY <1>8, <1>9
  <2> HIDE DEF New, h
  <2>4. InFlight(c)' = InFlight(c) \cup New
    BY <1>0, <1>1, <2>3, FlowEmit
  <2>5. Before(InFlight(c), New)
    <3>1. \A n \in InFlight(c) : n \in Nat /\ n <= AtLeast0(synced[c])
      BY <1>0, InFlightNumbers DEF NotifInv
    <3>2. AtLeast0(synced[c]) \in Nat
      BY <1>0 DEF AtLeast0, TypeOK, TypeSyncer
    <3>3. \A n \in New : n \in Nat /\ AtLeast0(synced[c]) < n
      BY <2>1, <2>2
    <3>4. \A m, n, x \in Nat : m <= x /\ x < n => m < n
      OBVIOUS
    <3> QED BY <3>1, <3>2, <3>3, <3>4 DEF Before
  <2>6. Before(NumbersIn(outbox', c), Numbers(res'[c]))
    BY <1>9 DEF Before
  <2>7. Ascending(Pipeline, c)'
    BY <1>0, <1>1, <1>8, <1>9, <2>1, <2>3, <2>5, <2>6, FlowEmit DEF NotifInv
  <2>8. c \notin Wanted' /\ synced'[c] = h /\ handled'[c] = handled[c] /\ notifSeq'[c] = notifSeq[c]
    BY <1>1, <1>11 DEF Wanted, NoRange, h
  <2>9. (\A n \in New : n <= h) /\ AtLeast0(synced[c]) <= h
    BY <2>1, <2>2
  <2>10. \A n \in Nat : AtLeast0(synced[c]) < n /\ n <= h => n \in New
    BY <2>1
  <2>11. h \in Nat
    BY <2>1
  <2> QED BY <2>2, <2>4, <2>7, <2>8, <2>9, <2>10, <2>11, NotifAdvance
<1> QED BY <1>10, <1>11

(* The end of a push's phase tells what it has taken. *)
LEMMA NotifTriggered ==
  ASSUME TypeOK, TypeOK', NEW c \in Notif, NotifInv(c), PushTriggered
  PROVE  NotifInv(c)'
<1>0. c \in Conv /\ res \in MsgMap /\ PhaseKind \in EventKinds
  BY DEF Conv, TypeOK, TypeJob, PhaseKind, EventKinds
<1>1. /\ outbox = <<>> /\ UNCHANGED <<eventCh, handled, notifSeq, synced, need>>
      /\ outbox' = Trigger(PhaseKind, res) /\ res' = NoMsgs
  BY DEF PushTriggered, dbVars
<1>2. res'[c] = <<>> /\ Numbers(<<>>) = {} /\ Rising(<<>>)
  BY <1>0, <1>1 DEF NoMsgs, Numbers, ToSet, Rising
<1>3. NumbersIn(outbox', c) = Numbers(res[c]) /\ (Ascending(outbox', c) <=> Rising(res[c]))
  BY <1>0, <1>1, QueueTrigger
<1>4. Before(InFlight(c), {}) /\ Before(NumbersIn(outbox', c), Numbers(res'[c]))
  BY <1>2 DEF Before
<1>5. NumbersIn(outbox', c) \cup Numbers(res'[c]) = Numbers(res[c]) \cup {}
  BY <1>2, <1>3
<1>6. InFlight(c)' = InFlight(c) \cup {}
  BY <1>0, <1>1, <1>5, FlowEmit
<1>7. Ascending(Pipeline, c)'
  BY <1>0, <1>1, <1>2, <1>3, <1>4, <1>5, FlowEmit DEF NotifInv
<1> QED BY <1>1, <1>6, <1>7, NotifFrame

(* The server's numbers: a range begins where the synced number ends, or all is skipped. *)
LEMMA NotifCompare ==
  ASSUME TypeOK, BoundsInv, NEW c \in Notif, NotifInv(c), CompareSeqs
  PROVE  NotifInv(c)'
<1>0. /\ c \in Conv /\ synced[c] \in Int /\ log[c] \in Nat /\ synced[c] <= log[c]
      /\ handled \in [Notif -> SUBSET Nat] /\ notifSeq \in [Notif -> Int]
  BY DEF Conv, TypeOK, TypeSyncer, TypeServer, TypeDb, BoundsInv, RangesNew
<1>1. /\ UNCHANGED <<eventCh, outbox, res>>
      /\ need'[c] = (IF c \in scope \ Skipped /\ NeedsSync(c) THEN RangeTo(synced[c], log[c]) ELSE NoRange)
      /\ synced'[c] = (IF c \in Skipped THEN log[c] ELSE synced[c])
      /\ notifSeq' = notifSeq \/ notifSeq'[c] = (IF c \in Skipped THEN log[c] ELSE notifSeq[c])
      /\ handled'[c] = (IF c \in Skipped THEN handled[c] \cup 1..log[c] ELSE handled[c])
  BY <1>0 DEF CompareSeqs
<1>2. InFlight(c)' = InFlight(c) /\ Ascending(Pipeline, c)'
  BY <1>0, <1>1, FlowSame DEF NotifInv
<1>3. CASE c \notin Skipped
  <2>1. synced'[c] = synced[c] /\ handled'[c] = handled[c] /\ notifSeq'[c] = notifSeq[c]
    BY <1>1, <1>3
  <2>2. c \in Wanted' => need'[c].lo = synced[c] + 1
    BY <1>1 DEF Wanted, NoRange, RangeTo
  <2> QED BY <1>2, <2>1, <2>2 DEF NotifInv
<1>4. CASE c \in Skipped
  <2>1. /\ synced'[c] = log[c] /\ handled'[c] = handled[c] \cup 1..log[c] /\ c \notin Wanted'
        /\ notifSeq'[c] = notifSeq[c] \/ notifSeq'[c] = log[c]
    BY <1>1, <1>4 DEF Wanted, NoRange
  <2>2. AtLeast0(synced[c]) <= log[c] /\ AtLeast0(log[c]) = log[c]
    BY <1>0 DEF AtLeast0
  <2>3. \A n \in InFlight(c) : n <= log[c]
    <3>1. \A n \in InFlight(c) : n \in Nat /\ n <= AtLeast0(synced[c])
      BY <1>0, InFlightNumbers DEF NotifInv
    <3>2. AtLeast0(synced[c]) \in Nat
      BY <1>0 DEF AtLeast0
    <3> QED BY <1>0, <2>2, <3>1, <3>2
  <2>4. \A n \in handled'[c] : 1..n \subseteq handled'[c]
    <3> SUFFICES ASSUME NEW n \in handled[c] \cup 1..log[c], NEW m \in 1..n
                 PROVE  m \in handled[c] \cup 1..log[c]
      BY <2>1
    <3>1. CASE n \in handled[c]
      BY <3>1 DEF NotifInv
    <3>2. CASE n \in 1..log[c]
      BY <1>0, <3>2
    <3> QED BY <3>1, <3>2
  <2>5. /\ notifSeq'[c] <= log[c] /\ 1..notifSeq'[c] \subseteq handled'[c]
        /\ notifSeq'[c] >= Absent /\ log[c] >= Absent
    <3>1. /\ notifSeq[c] <= AtLeast0(synced[c]) /\ 1..notifSeq[c] \subseteq handled[c]
          /\ notifSeq[c] >= Absent /\ notifSeq[c] \in Int /\ AtLeast0(synced[c]) \in Nat
      BY <1>0 DEF NotifInv, AtLeast0
    <3>2. CASE notifSeq'[c] = log[c]
      BY <1>0, <2>1, <3>2 DEF Absent
    <3>3. CASE notifSeq'[c] = notifSeq[c]
      BY <1>0, <2>1, <2>2, <3>1, <3>3 DEF Absent
    <3> QED BY <2>1, <3>2, <3>3
  <2> QED BY <1>2, <2>1, <2>2, <2>3, <2>4, <2>5 DEF NotifInv
<1> QED BY <1>3, <1>4

(* The first event's notifications are those before all others that are on their way. *)
LEMMA HeadFirst ==
  ASSUME TypeOK, NEW c \in Conv, eventCh # <<>>
  PROVE  /\ Head(eventCh).msgs[c] \in Seq(Nat)
         /\ Numbers(Head(eventCh).msgs[c]) \subseteq InFlight(c)
         /\ Ascending(Pipeline, c) =>
              \A n \in Numbers(Head(eventCh).msgs[c]), m \in InFlight(c) :
                 m <= n => m \in Numbers(Head(eventCh).msgs[c])
<1> DEFINE e == Head(eventCh)
           Others == NumbersIn(Tail(eventCh), c) \cup NumbersIn(outbox, c) \cup Numbers(res[c])
<1>1. e \in Events /\ Tail(eventCh) \in Seq(Events) /\ eventCh = <<e>> \o Tail(eventCh)
  BY DEF TypeOK, TypeEvents
<1>2. e.msgs[c] \in Seq(Nat)
  BY <1>1 DEF Events, MsgMap
<1> HIDE DEF e
<1>3. /\ NumbersIn(<<e>> \o Tail(eventCh), c) = Numbers(e.msgs[c]) \cup NumbersIn(Tail(eventCh), c)
      /\ Ascending(<<e>> \o Tail(eventCh), c) =>
           Before(Numbers(e.msgs[c]), NumbersIn(Tail(eventCh), c))
  BY <1>1, QueueFront
<1>4. Parts(c)
  BY PartsOf
<1>5. InFlight(c) = Numbers(e.msgs[c]) \cup Others
  BY <1>1, <1>3, <1>4 DEF Parts
<1>6. Ascending(Pipeline, c) => Before(Numbers(e.msgs[c]), Others)
  BY <1>1, <1>3, <1>4 DEF Parts, Before
<1>7. ASSUME Ascending(Pipeline, c), NEW n \in Numbers(e.msgs[c]), NEW m \in InFlight(c), m <= n
      PROVE  m \in Numbers(e.msgs[c])
  <2>1. m \in Nat /\ n \in Nat
    BY <1>5, InFlightNumbers
  <2>2. m \in Others => n < m
    BY <1>6, <1>7 DEF Before
  <2> QED BY <1>5, <1>7, <2>1, <2>2
<1> QED BY <1>2, <1>5, <1>7 DEF e

(* The worker applies what comes first, and stores the number of the last that it applied. *)
LEMMA NotifWork ==
  ASSUME TypeOK, TypeOK', NEW c \in Notif, NotifInv(c), Worker
  PROVE  NotifInv(c)'
<1>0. /\ c \in Conv /\ c \notin Regular /\ synced[c] \in Int
      /\ handled \in [Notif -> SUBSET Nat] /\ notifSeq \in [Notif -> Int]
  BY ConvAssumption DEF Conv, TypeOK, TypeSyncer, TypeDb
<1>1. UNCHANGED <<synced, need, outbox, res>>
  BY WorkerQuiet DEF jobVars
<1>2. ASSUME NEW d \in Regular, InsertMessages(d) PROVE NotifInv(c)'
  <2>1. UNCHANGED <<eventCh, handled, notifSeq>>
    BY <1>2 DEF InsertMessages
  <2> QED BY <1>0, <1>1, <2>1, FlowSame, NotifFrame DEF NotifInv
<1>3. ASSUME NEW d \in Conv \ {c}, eventCh # <<>>, Next1(d),
             handled'[c] = handled[c], notifSeq'[c] = notifSeq[c]
      PROVE  NotifInv(c)'
  <2>1. /\ InFlight(c)' \subseteq InFlight(c)
        /\ InFlight(c) \subseteq
             InFlight(c)' \cup (IF d = c THEN Numbers(Head(eventCh).msgs[c]) ELSE {})
        /\ Ascending(Pipeline, c) => Ascending(Pipeline, c)'
    BY <1>0, <1>1, <1>3, FlowWork
  <2>2. InFlight(c)' = InFlight(c) /\ Ascending(Pipeline, c)'
    BY <1>3, <2>1 DEF NotifInv
  <2> QED BY <1>1, <1>3, <2>2, NotifFrame
<1>4. ASSUME NEW d \in Regular, StoreConversation(d) PROVE NotifInv(c)'
  <2>1. d \in Conv \ {c} /\ eventCh # <<>> /\ Next1(d) /\ handled' = handled /\ notifSeq' = notifSeq
    BY <1>0, <1>4 DEF StoreConversation, AtMessages, Conv
  <2> QED BY <1>3, <2>1
<1>5. ASSUME NEW d \in Notif, DoNotifications(d) PROVE NotifInv(c)'
  <2>1. /\ eventCh # <<>> /\ UNCHANGED <<eventCh, notifSeq>>
        /\ handled' = [handled EXCEPT ![d] = @ \cup Numbers(Head(eventCh).msgs[d])]
    BY <1>5 DEF DoNotifications, AtNotifications
  <2>2. InFlight(c)' = InFlight(c) /\ Ascending(Pipeline, c)'
    BY <1>0, <1>1, <2>1, FlowSame DEF NotifInv
  <2>3. CASE d # c
    <3>1. handled'[c] = handled[c]
      BY <1>0, <2>1, <2>3
    <3> QED BY <1>1, <2>1, <2>2, <3>1, NotifFrame
  <2>4. CASE d = c
    <3> DEFINE new == Numbers(Head(eventCh).msgs[c])
    <3>1. handled'[c] = handled[c] \cup new
      BY <1>0, <2>1, <2>4
    <3>2. /\ new \subseteq InFlight(c)
          /\ \A n \in new, m \in InFlight(c) : m <= n => m \in new
      BY <1>0, <2>1, HeadFirst DEF NotifInv
    <3> HIDE DEF new
    <3>3. ASSUME NEW n \in new, NEW m \in 1..n PROVE m \in handled[c] \cup new
      <4>1. n \in Nat /\ n <= AtLeast0(synced[c])
        BY <1>0, <3>2, InFlightNumbers DEF NotifInv
      <4>2. m \in 1..synced[c] /\ m <= n
        BY <1>0, <4>1 DEF AtLeast0
      <4>3. m \in handled[c] \cup InFlight(c)
        BY <4>2 DEF NotifInv
      <4> QED BY <3>2, <4>2, <4>3
    <3>4. \A n \in handled'[c] : 1..n \subseteq handled'[c]
      BY <3>1, <3>3 DEF NotifInv
    <3>5. /\ 1..synced'[c] \subseteq handled'[c] \cup InFlight(c)'
          /\ 1..notifSeq'[c] \subseteq handled'[c]
      BY <1>1, <2>1, <2>2, <3>1 DEF NotifInv
    <3> QED BY <1>1, <2>1, <2>2, <3>4, <3>5 DEF NotifInv, Wanted
  <2> QED BY <2>3, <2>4
<1>6. ASSUME NEW d \in Notif, SetNotificationSeq(d) PROVE NotifInv(c)'
  <2> DEFINE lastSeq == Last(Head(eventCh).msgs[d])
  <2>1. /\ eventCh # <<>> /\ handled' = handled /\ Next1(d)
        /\ Head(eventCh).msgs[d] # <<>> /\ Numbers(Head(eventCh).msgs[d]) \subseteq handled[d]
        /\ notifSeq' = IF lastSeq = 0 THEN notifSeq ELSE [notifSeq EXCEPT ![d] = lastSeq]
    BY <1>6 DEF SetNotificationSeq, AtNotifications
  <2>2. CASE d # c
    <3>1. notifSeq'[c] = notifSeq[c] /\ d \in Conv \ {c}
      BY <1>0, <2>1, <2>2 DEF Conv
    <3> QED BY <1>3, <2>1, <3>1
  <2>3. CASE d = c
    <3> DEFINE new == Numbers(Head(eventCh).msgs[c])
    <3>1. Head(eventCh).msgs[c] \in Seq(Nat) /\ new \subseteq InFlight(c)
      BY <1>0, <2>1, HeadFirst
    <3>2. lastSeq # 0 => lastSeq \in new
      <4>1. /\ Len(Head(eventCh).msgs[c]) \in 1..Len(Head(eventCh).msgs[c])
            /\ lastSeq = Head(eventCh).msgs[c][Len(Head(eventCh).msgs[c])]
        BY <2>1, <2>3, <3>1 DEF Last
      <4> QED BY <3>1, <4>1, NumbersAt
    <3>3. notifSeq'[c] = notifSeq[c] \/ (notifSeq'[c] = lastSeq /\ lastSeq # 0)
      BY <1>0, <2>1, <2>3
    <3>4. new \subseteq handled[c]
      BY <2>1, <2>3
    <3>5. /\ InFlight(c)' \subseteq InFlight(c)
          /\ InFlight(c) \subseteq InFlight(c)' \cup new
          /\ Ascending(Pipeline, c)'
      BY <1>0, <1>1, <2>1, <2>3, FlowWork DEF NotifInv
    <3> HIDE DEF new, lastSeq
    <3>6. /\ notifSeq'[c] <= AtLeast0(synced[c]) /\ 1..notifSeq'[c] \subseteq handled[c]
          /\ notifSeq'[c] >= Absent
      <4>1. CASE notifSeq'[c] = notifSeq[c]
        BY <4>1 DEF NotifInv
      <4>2. CASE notifSeq'[c] = lastSeq /\ lastSeq # 0
        <5>1. lastSeq \in InFlight(c) /\ lastSeq \in handled[c]
          BY <3>1, <3>2, <3>4, <4>2
        <5>2. lastSeq \in Nat /\ lastSeq <= AtLeast0(synced[c])
          BY <1>0, <5>1, InFlightNumbers DEF NotifInv
        <5> QED BY <4>2, <5>1, <5>2 DEF NotifInv, Absent
      <4> QED BY <3>3, <4>1, <4>2
    <3>7. /\ \A n \in InFlight(c)' : n <= AtLeast0(synced[c])
          /\ 1..synced[c] \subseteq handled[c] \cup InFlight(c)'
      BY <3>4, <3>5 DEF NotifInv
    <3> QED BY <1>1, <2>1, <3>5, <3>6, <3>7 DEF NotifInv, Wanted
  <2> QED BY <2>2, <2>3
<1>7. CASE HandleFlag
  <2>1. handled' = handled /\ notifSeq' = notifSeq
    BY <1>7 DEF HandleFlag
  <2> QED BY <1>0, <1>1, <1>7, <2>1, FlowFlag, NotifFrame DEF NotifInv
<1> QED BY <1>2, <1>4, <1>5, <1>6, <1>7 DEF Worker

(* A restart begins with what the row says, which is handled. *)
LEMMA NotifCrash ==
  ASSUME TypeOK, TypeOK', NEW c \in Notif, NotifInv(c), Crash
  PROVE  NotifInv(c)'
<1>0. c \in Conv /\ notifSeq[c] \in Int
  BY DEF Conv, TypeOK, TypeDb
<1>1. /\ synced'[c] = notifSeq[c] /\ UNCHANGED <<handled, notifSeq>>
      /\ eventCh' = <<>> /\ outbox' = <<>> /\ res' = NoMsgs /\ c \notin Wanted'
  BY <1>0 DEF Crash, LoadedSeqs, Idle, dbVars, Wanted, NoRange
<1>2. InFlight(c)' = {} /\ Ascending(Pipeline, c)'
  BY <1>0, <1>1, FlowNone
<1>3. notifSeq[c] <= AtLeast0(notifSeq[c])
  BY <1>0 DEF AtLeast0
<1> QED BY <1>1, <1>2, <1>3 DEF NotifInv

(* The steps of the syncer that only begin, fail or end a command. *)
LEMMA SyncerQuiet ==
  ASSUME TypeOK, TypeOK', ResFresh, NEW c \in Conv,
         \/ StartConnectedSync \/ StartWakeUpSync \/ IgnoreSync \/ StartIMSync \/ StartPush
         \/ RetryMaxSeq \/ MaxSeqFailed \/ PullFailed \/ PullDone \/ EndSync
  PROVE  /\ InFlight(c)' = InFlight(c) /\ (Ascending(Pipeline, c) => Ascending(Pipeline, c)')
         /\ UNCHANGED <<synced, handled, notifSeq, chatLogs, rows, log>>
         /\ need'[c] = need[c] \/ c \notin Wanted'
<1>1. /\ outbox = <<>> /\ UNCHANGED <<eventCh, synced, handled, notifSeq, chatLogs, rows, log>>
      /\ outbox' = <<>> \/ \E k \in EventKinds : outbox' = <<Event(k, NoMsgs)>>
  BY DEF StartConnectedSync, StartWakeUpSync, IgnoreSync, StartIMSync, StartPush, Received, RetryMaxSeq,
         MaxSeqFailed, PullFailed, PullDone, EndSync, Ready, dbVars, serverVars, EventKinds
<1>2. NumbersIn(outbox', c) = {} /\ Ascending(outbox', c)
  <2>1. CASE outbox' = <<>>
    BY <2>1, QueueNone
  <2>2. ASSUME NEW k \in EventKinds, outbox' = <<Event(k, NoMsgs)>>
        PROVE  NumbersIn(outbox', c) = {} /\ Ascending(outbox', c)
    <3>1. Event(k, NoMsgs) \in Events /\ Event(k, NoMsgs).msgs[c] = <<>>
      BY BatchType, MsgMapType DEF Event, NoMsgs
    <3>2. Numbers(<<>>) = {} /\ Rising(<<>>)
      BY DEF Numbers, ToSet, Rising
    <3> QED BY <2>2, <3>1, <3>2, QueueOne
  <2> QED BY <1>1, <2>1, <2>2
<1>3. /\ res' = res \/ (res' = NoMsgs /\ pc \notin InPush)
      /\ need' = need \/ c \notin Wanted'
  BY DEF StartConnectedSync, StartWakeUpSync, IgnoreSync, StartIMSync, StartPush, Received, RetryMaxSeq,
         MaxSeqFailed, PullFailed, PullDone, EndSync, Ready, jobVars, Idle, Wanted, NoRange, InPush
<1>4. res'[c] = res[c]
  BY <1>3 DEF ResFresh
<1> QED BY <1>1, <1>2, <1>3, <1>4, FlowSilent

(* Every step, as long as pushes are not merged and no dispatch is given up. *)
LEMMA NotifNext ==
  ASSUME TypeOK, TypeOK', BoundsInv, BoundsInv', ResFresh, Unmerged, "timeout" \notin Faults,
         NEW c \in Notif, NotifInv(c), [Next]_vars
  PROVE  NotifInv(c)'
<1>0. c \in Conv
  BY DEF Conv
<1>1. CASE Environment \/ Resting \/ UNCHANGED vars
  <2>1. UNCHANGED <<eventCh, outbox, res, synced, need, handled, notifSeq>>
    BY <1>1, EnvironmentQuiet DEF jobVars, dbVars
  <2> QED BY <1>0, <2>1, FlowSame, NotifFrame DEF NotifInv
<1>2. CASE Worker \/ Crash
  BY <1>2, NotifWork, NotifCrash
<1>3. CASE Dispatch
  <2>1. InFlight(c)' = InFlight(c) /\ Ascending(Pipeline, c)'
    BY <1>0, <1>3, FlowDispatch DEF NotifInv
  <2>2. UNCHANGED <<synced, need, handled, notifSeq>>
    BY <1>3 DEF Dispatch, jobVars, dbVars
  <2> QED BY <2>1, <2>2, NotifFrame
<1>4. CASE \/ StartConnectedSync \/ StartWakeUpSync \/ IgnoreSync \/ StartIMSync \/ StartPush
           \/ RetryMaxSeq \/ MaxSeqFailed \/ PullFailed \/ PullDone \/ EndSync
  <2>1. /\ InFlight(c)' = InFlight(c) /\ Ascending(Pipeline, c)'
        /\ UNCHANGED <<synced, handled, notifSeq>>
        /\ need'[c] = need[c] \/ c \notin Wanted'
    BY <1>0, <1>4, SyncerQuiet DEF NotifInv
  <2> QED BY <2>1, NotifFrame
<1>5. CASE CompareSeqs
  BY <1>5, NotifCompare
<1>6. ASSUME NEW d \in Conv, PushConversation(d) PROVE NotifInv(c)'
  BY <1>6, NotifPush
<1>7. ASSUME NEW B \in SUBSET Conv, Pulled(B) PROVE NotifInv(c)'
  BY <1>7, NotifPull
<1>8. CASE PushTriggered
  BY <1>8, NotifTriggered
<1> QED BY <1>1, <1>2, <1>3, <1>4, <1>5, <1>6, <1>7, <1>8 DEF Next, Syncer

(* Initially nothing is on its way, and the syncer knows what the rows say. *)
LEMMA DeliveryInit == Init => ResFresh /\ Unmerged /\ \A c \in Notif : NotifInv(c)
<1> SUFFICES ASSUME Init PROVE ResFresh /\ Unmerged /\ \A c \in Notif : NotifInv(c)
  OBVIOUS
<1>1. ResFresh
  BY DEF Init, ResFresh, InPush
<1>2. Unmerged
  BY DEF Init, Unmerged, OnePush, NoBatch, Batch, NoMsgs
<1>3. ASSUME NEW c \in Notif PROVE NotifInv(c)
  <2>1. c \in Conv /\ TypeOK
    BY TypeInit DEF Conv
  <2>2. /\ eventCh = <<>> /\ outbox = <<>> /\ res = NoMsgs /\ c \notin Wanted
        /\ synced[c] = notifSeq[c]
    BY <2>1 DEF Init, Wanted, NoRange, LoadedSeqs
  <2>3. \/ notifSeq[c] = Absent /\ handled[c] = {}
        \/ notifSeq[c] = InitSeq /\ handled[c] = 1..InitSeq
    BY DEF Init
  <2>4. InFlight(c) = {} /\ Ascending(Pipeline, c)
    <3>1. res[c] = <<>> /\ Numbers(<<>>) = {} /\ Rising(<<>>)
      BY <2>1, <2>2 DEF NoMsgs, Numbers, ToSet, Rising
    <3> QED BY <2>1, <2>2, <3>1, QueueNone, PartsOf DEF Parts, Before
  <2>5. /\ notifSeq[c] \in Int /\ notifSeq[c] >= Absent /\ notifSeq[c] <= AtLeast0(notifSeq[c])
        /\ 1..notifSeq[c] \subseteq handled[c] /\ \A n \in handled[c] : 1..n \subseteq handled[c]
    BY <2>3, BoundAssumption DEF Absent, AtLeast0
  <2> QED BY <2>2, <2>4, <2>5 DEF NotifInv
<1> QED BY <1>1, <1>2, <1>3

(* NotifInv holds throughout, as long as nothing is merged or given up. *)
LEMMA NotifAlways ==
  ASSUME "merge" \notin Faults, "timeout" \notin Faults
  PROVE  Spec => [](\A c \in Notif : NotifInv(c))
<1> DEFINE Inv == ResFresh /\ Unmerged /\ \A c \in Notif : NotifInv(c)
<1>1. TypeOK /\ TypeOK' /\ BoundsInv /\ BoundsInv' /\ Inv /\ [Next]_vars => Inv'
  BY FreshNext, UnmergedNext, NotifNext
<1>2. Inv => \A c \in Notif : NotifInv(c)
  OBVIOUS
<1>3. Init => Inv
  BY DeliveryInit
<1> HIDE DEF Inv
<1> QED BY <1>1, <1>2, <1>3, TypeCorrect, Bounded, PTL DEF Spec

(***************************************************************************)
(* Every notification up to the synced number is applied or on its way,    *)
(* whatever the server loses, repeats or reorders, through failed requests *)
(* and restarts.  It takes that no pushes are merged (MsgSyncMergedGap     *)
(* shows what comes of that) and that no full channel makes a dispatch     *)
(* give up.                                                                *)
(***************************************************************************)
THEOREM GapFree ==
  ASSUME "merge" \notin Faults, "timeout" \notin Faults
  PROVE  Spec => []NotificationsGapFree
<1>1. (\A c \in Notif : NotifInv(c)) => NotificationsGapFree
  BY DEF NotifInv, NotificationsGapFree
<1> QED BY <1>1, NotifAlways, PTL

(***************************************************************************)
(* Notifications are applied in their order, each after all earlier ones,  *)
(* and between two restarts none is queued twice, on the same conditions.  *)
(***************************************************************************)
THEOREM AppliedInOrder ==
  ASSUME "merge" \notin Faults, "timeout" \notin Faults
  PROVE  Spec => []NotificationsAppliedInOrder
<1>1. (\A c \in Notif : NotifInv(c)) => NotificationsAppliedInOrder
  BY DEF NotifInv, NotificationsAppliedInOrder
<1> QED BY <1>1, NotifAlways, PTL

(***************************************************************************)
(* The number SetNotificationSeq stores never claims more than was         *)
(* applied, so that a restart loses nothing, on the same conditions.       *)
(***************************************************************************)
THEOREM RestartSafe ==
  ASSUME "merge" \notin Faults, "timeout" \notin Faults
  PROVE  Spec => []RestartLosesNoNotification
<1>1. (\A c \in Notif : NotifInv(c)) => RestartLosesNoNotification
  BY DEF NotifInv, RestartLosesNoNotification
<1> QED BY <1>1, NotifAlways, PTL
-----------------------------------------------------------------------------
(* Chat messages, and the bounds that hold even when events are given up *)

(* A pull ends at the end of its range: its newest message is the range's last. *)
LEMMA PullEnds ==
  ASSUME TypeOK, NEW c \in Wanted
  PROVE  /\ PullMsgByRange(c) \in Seq(Nat)
         /\ \A n \in Numbers(PullMsgByRange(c)) : n <= need[c].hi
         /\ need[c].hi >= 1 => need[c].hi \in Numbers(PullMsgByRange(c))
<1> DEFINE hi == need[c].hi
           first == IF c \in Regular /\ hi - PullNum >= need[c].lo
                    THEN hi - PullNum + 1 ELSE need[c].lo
           lo == IF first < 1 THEN 1 ELSE first
           q == PullMsgByRange(c)
<1>1. need[c].lo \in Int /\ hi \in Int /\ need[c].lo <= hi
  BY DEF Wanted, TypeOK, TypeJob
<1>2. PullNum \in Nat \ {0}
  BY BoundAssumption DEF PullNum
<1>3. first \in Int /\ first <= hi
  BY <1>1, <1>2
<1>4. lo \in Nat /\ lo >= 1 /\ (hi >= 1 => lo <= hi)
  BY <1>1, <1>3
<1>5. q = [i \in 1..AtLeast0(hi - lo + 1) |-> lo + i - 1]
  BY DEF PullMsgByRange
<1>6. q \in Seq(Nat)
  BY PullType DEF Wanted, TypeOK
<1> HIDE DEF first, lo, hi, q
<1>7. AtLeast0(hi - lo + 1) \in Nat /\ (AtLeast0(hi - lo + 1) # 0 => AtLeast0(hi - lo + 1) = hi - lo + 1)
  BY <1>1, <1>4 DEF AtLeast0, hi
<1>8. Len(q) = AtLeast0(hi - lo + 1) /\ \A i \in 1..Len(q) : q[i] = lo + i - 1
  BY <1>5, <1>7
<1>9. ASSUME NEW n \in Numbers(q) PROVE n <= hi
  <2>1. PICK k \in 1..Len(q) : q[k] = n
    BY <1>6, NumbersAt
  <2> QED BY <1>1, <1>4, <1>7, <1>8, <2>1 DEF hi
<1>10. ASSUME hi >= 1 PROVE hi \in Numbers(q)
  <2>1. Len(q) = hi - lo + 1 /\ hi - lo + 1 \in 1..Len(q)
    BY <1>1, <1>4, <1>8, <1>10 DEF AtLeast0, hi
  <2>2. q[hi - lo + 1] = hi /\ hi # 0
    BY <1>1, <1>4, <1>8, <1>10, <2>1 DEF hi
  <2> QED BY <1>6, <2>1, <2>2, NumbersAt
<1> QED BY <1>6, <1>9, <1>10 DEF hi, q

(***************************************************************************)
(* A step of the syncer: what is on its way stays there, unless a full     *)
(* channel makes it give an event up; a synced number that rises is on its *)
(* way then; and what is new on its way is not beyond it, if no pushes are *)
(* merged.                                                                 *)
(***************************************************************************)
Moved(c) ==
  /\ "timeout" \notin Faults => InFlight(c) \subseteq InFlight(c)'
  /\ synced[c] <= synced'[c]
  /\ synced'[c] # synced[c] /\ synced'[c] >= 1 => synced'[c] \in InFlight(c)'
  /\ Unmerged => \A n \in InFlight(c)' : n \in InFlight(c) \/ n <= AtLeast0(synced'[c])

LEMMA MovedPush ==
  ASSUME TypeOK, TypeOK', BoundsInv, ResFresh, NEW c \in Conv, NEW d \in Conv, PushConversation(d)
  PROVE  Moved(c)
<1> DEFINE storage == push.msgs[d]
           lastSeq == Last(storage)
           cur     == AtLeast0(synced[d])
           accept  == storage # <<>> /\ InSequence(storage, cur)
           said    == IF d \in push.convs THEN <<Event(PhaseKind, Single(d, 0))>> ELSE <<>>
<1>0. synced \in [Conv -> Int] /\ res \in MsgMap /\ storage \in Seq(Nat)
  BY DEF TypeOK, TypeSyncer, TypeJob, Batches, MsgMap
<1>1. /\ outbox = <<>> /\ eventCh' = eventCh /\ pc \in InPush /\ d \in Unvisited /\ outbox' = said
      /\ res' = IF accept THEN [res EXCEPT ![d] = storage] ELSE res
      /\ synced' = IF accept THEN [synced EXCEPT ![d] = lastSeq] ELSE synced
  BY DEF PushConversation, InPush
<1>2. NumbersIn(said, c) = {} /\ Ascending(said, c)
  <2>1. CASE d \in push.convs
    <3> DEFINE e == Event(PhaseKind, Single(d, 0))
    <3>1. e \in Events /\ e.msgs = Single(d, 0)
      BY BatchType, MsgMapType DEF PhaseKind, EventKinds, Event
    <3>2. e.msgs[c] = <<>> \/ e.msgs[c] = <<0>>
      BY <3>1 DEF Single, NoMsgs
    <3>3. Numbers(e.msgs[c]) = {} /\ Rising(e.msgs[c])
      BY <3>2 DEF Numbers, ToSet, Rising
    <3>4. said = <<e>>
      BY <2>1
    <3> HIDE DEF e, said
    <3> QED BY <3>1, <3>3, <3>4, QueueOne
  <2>2. CASE d \notin push.convs
    BY <2>2, QueueNone
  <2> QED BY <2>1, <2>2
<1> HIDE DEF said
<1>3. CASE ~(accept /\ c = d)
  <2>1. res'[c] = res[c] /\ synced'[c] = synced[c]
    BY <1>0, <1>1, <1>3 DEF MsgMap
  <2>2. InFlight(c)' = InFlight(c)
    BY <1>1, <1>2, <2>1, FlowSilent
  <2> QED BY <1>0, <2>1, <2>2 DEF Moved
<1>4. CASE accept /\ c = d
  <2>1. res[c] = <<>> /\ res'[c] = storage /\ synced'[c] = lastSeq
    BY <1>0, <1>1, <1>4 DEF ResFresh, MsgMap
  <2>2. Numbers(<<>>) = {}
    BY DEF Numbers, ToSet
  <2>3. InFlight(c)' = InFlight(c) \cup Numbers(storage)
    BY <1>1, <1>2, <2>1, <2>2, FlowEmit
  <2>4. Len(storage) \in Nat /\ Len(storage) # 0 /\ lastSeq = storage[Len(storage)]
    <3>1. storage # <<>>
      BY <1>4
    <3>2. lastSeq = storage[Len(storage)]
      BY DEF Last
    <3> HIDE DEF storage
    <3> QED BY <1>0, <3>1, <3>2, EmptySeq
  <2>5. lastSeq = cur + Len(storage)
    BY <1>4 DEF InSequence
  <2>6. cur \in Nat /\ synced[c] <= cur
    BY <1>0, <1>4 DEF AtLeast0
  <2> HIDE DEF storage, lastSeq, cur
  <2>7. lastSeq \in Nat /\ lastSeq # 0 /\ synced[c] <= lastSeq
    BY <1>0, <2>4, <2>5, <2>6
  <2>8. lastSeq \in Numbers(storage)
    <3>1. Len(storage) \in 1..Len(storage)
      BY <2>4
    <3> QED BY <1>0, <2>4, <2>7, <3>1, NumbersAt
  <2>9. ASSUME Unmerged, NEW n \in Numbers(storage) PROVE n <= AtLeast0(synced'[c])
    <3>1. Len(storage) <= 1
      BY <2>9 DEF Unmerged, OnePush, storage
    <3>2. PICK k \in 1..Len(storage) : storage[k] = n
      BY <1>0, NumbersAt
    <3>3. k = Len(storage)
      BY <2>4, <3>1
    <3>4. n = lastSeq
      BY <2>4, <3>2, <3>3
    <3> QED BY <2>1, <2>7, <3>4 DEF AtLeast0
  <2> QED BY <2>1, <2>3, <2>7, <2>8, <2>9 DEF Moved
<1> QED BY <1>3, <1>4

LEMMA MovedPull ==
  ASSUME TypeOK, TypeOK', BoundsInv, ResFresh, NEW c \in Conv, NEW B \in SUBSET Conv, Pulled(B)
  PROVE  Moved(c)
<1> DEFINE msgs == [d \in Conv |-> IF d \in B THEN PullMsgByRange(d) ELSE <<>>]
           chats == Trigger(PullKind, Part(msgs, Regular))
           notes == Trigger("Notification", Part(msgs, Notif))
<1>1. /\ outbox = <<>> /\ eventCh' = eventCh /\ res' = res /\ res = NoMsgs /\ B \subseteq Wanted
      /\ outbox' = chats \o notes
      /\ synced'[c] = (IF c \in B THEN need[c].hi ELSE synced[c])
  BY DEF Pulled, Ready, IsBatch, ResFresh, InPush, SyncedTo
<1>2. msgs \in MsgMap
  BY PullType DEF MsgMap, TypeOK
<1>3. msgs[c] = IF c \in B THEN PullMsgByRange(c) ELSE <<>>
  OBVIOUS
<1> HIDE DEF msgs
<1>4. /\ Part(msgs, Regular) \in MsgMap /\ Part(msgs, Notif) \in MsgMap
      /\ Part(msgs, Regular)[c] = (IF c \in Regular THEN msgs[c] ELSE <<>>)
      /\ Part(msgs, Notif)[c] = (IF c \in Notif THEN msgs[c] ELSE <<>>)
  BY <1>2, MsgMapType DEF Part
<1>5. PullKind \in EventKinds /\ "Notification" \in EventKinds
  BY DEF PullKind, EventKinds
<1>6. /\ chats \in Seq(Events) /\ notes \in Seq(Events)
      /\ NumbersIn(chats, c) = Numbers(Part(msgs, Regular)[c])
      /\ NumbersIn(notes, c) = Numbers(Part(msgs, Notif)[c])
  BY <1>4, <1>5, TriggerType, QueueTrigger
<1> HIDE DEF chats, notes
<1>7. Numbers(<<>>) = {} /\ res[c] = <<>>
  BY <1>1 DEF Numbers, ToSet, NoMsgs
<1>8. NumbersIn(outbox', c) = Numbers(msgs[c])
  <2>1. NumbersIn(chats \o notes, c) = NumbersIn(chats, c) \cup NumbersIn(notes, c)
    BY <1>6, QueueJoin
  <2>2. c \in Regular \/ c \in Notif
    BY DEF Conv
  <2> QED BY <1>1, <1>4, <1>6, <1>7, <2>1, <2>2
<1>9. InFlight(c)' = InFlight(c) \cup Numbers(msgs[c])
  <2>1. NumbersIn(outbox', c) \cup Numbers(res'[c]) = Numbers(res[c]) \cup Numbers(msgs[c])
    BY <1>1, <1>7, <1>8
  <2> QED BY <1>1, <2>1, FlowEmit
<1>10. CASE c \notin B
  BY <1>1, <1>3, <1>7, <1>9, <1>10 DEF Moved, TypeOK, TypeSyncer
<1>11. CASE c \in B
  <2>1. /\ \A n \in Numbers(msgs[c]) : n <= need[c].hi
        /\ need[c].hi >= 1 => need[c].hi \in Numbers(msgs[c])
    BY <1>1, <1>3, <1>11, PullEnds
  <2>2. synced[c] <= need[c].hi /\ need[c].hi \in Int
    BY <1>1, <1>11 DEF BoundsInv, RangesNew, TypeOK, TypeJob
  <2>3. \A n \in Numbers(msgs[c]) : n \in Nat /\ n <= AtLeast0(need[c].hi)
    <3>1. \A n \in Numbers(msgs[c]) : n \in Nat
      BY <1>2, NumbersAt DEF MsgMap
    <3> QED BY <2>1, <2>2, <3>1 DEF AtLeast0
  <2> QED BY <1>1, <1>9, <1>11, <2>1, <2>2, <2>3 DEF Moved
<1> QED BY <1>10, <1>11

LEMMA MovedBySyncer ==
  ASSUME TypeOK, TypeOK', BoundsInv, ResFresh, NEW c \in Conv, Syncer,
         ~(CompareSeqs /\ c \in Skipped)
  PROVE  Moved(c)
<1>0. synced[c] \in Int
  BY DEF TypeOK, TypeSyncer
<1>1. ASSUME synced'[c] = synced[c], InFlight(c)' \subseteq InFlight(c),
             "timeout" \notin Faults => InFlight(c)' = InFlight(c)
      PROVE  Moved(c)
  BY <1>0, <1>1 DEF Moved
<1>2. CASE Dispatch
  BY <1>1, <1>2, FlowDispatch DEF Dispatch
<1>3. CASE \/ StartConnectedSync \/ StartWakeUpSync \/ IgnoreSync \/ StartIMSync \/ StartPush
           \/ RetryMaxSeq \/ MaxSeqFailed \/ PullFailed \/ PullDone \/ EndSync
  BY <1>1, <1>3, SyncerQuiet
<1>4. CASE CompareSeqs
  <2>1. UNCHANGED <<eventCh, outbox, res>> /\ synced'[c] = synced[c]
    BY <1>4 DEF CompareSeqs
  <2> QED BY <1>1, <2>1, FlowSame
<1>5. CASE PushTriggered
  <2>1. res \in MsgMap /\ PhaseKind \in EventKinds
    BY DEF TypeOK, TypeJob, PhaseKind, EventKinds
  <2>2. /\ outbox = <<>> /\ UNCHANGED <<eventCh, synced>>
        /\ outbox' = Trigger(PhaseKind, res) /\ res'[c] = <<>>
    BY <1>5 DEF PushTriggered, NoMsgs
  <2>3. NumbersIn(outbox', c) = Numbers(res[c]) /\ Numbers(<<>>) = {}
    BY <2>1, <2>2, QueueTrigger DEF Numbers, ToSet
  <2>4. NumbersIn(outbox', c) \cup Numbers(res'[c]) = Numbers(res[c]) \cup {}
    BY <2>2, <2>3
  <2>5. InFlight(c)' = InFlight(c) \cup {}
    BY <2>2, <2>4, FlowEmit
  <2> QED BY <1>1, <2>2, <2>5
<1> QED BY <1>2, <1>3, <1>4, <1>5, MovedPush, MovedPull DEF Syncer

(* What is kept of a chat: the messages stored, and those on their way. *)
Kept(c) == chatLogs[c] \cup InFlight(c)

(* The worker stores what it takes. *)
LEMMA KeptByWorker ==
  ASSUME TypeOK, TypeOK', NEW c \in Regular, Worker
  PROVE  Kept(c)' = Kept(c) /\ synced' = synced
<1>0. c \in Conv /\ c \notin Notif /\ chatLogs \in [Regular -> SUBSET Nat]
  BY ConvAssumption DEF Conv, TypeOK, TypeDb
<1>1. UNCHANGED <<synced, outbox, res>>
  BY WorkerQuiet DEF jobVars
<1>2. ASSUME NEW d \in Regular, InsertMessages(d) PROVE Kept(c)' = Kept(c)
  <2>1. /\ eventCh # <<>> /\ eventCh' = eventCh
        /\ chatLogs' = [chatLogs EXCEPT ![d] = @ \cup Numbers(Head(eventCh).msgs[d])]
    BY <1>2 DEF InsertMessages, AtMessages
  <2>2. InFlight(c)' = InFlight(c)
    BY <1>0, <1>1, <2>1, FlowSame
  <2>3. Numbers(Head(eventCh).msgs[c]) \subseteq InFlight(c)
    BY <1>0, <2>1, HeadFirst
  <2>4. chatLogs'[c] = chatLogs[c] \/ chatLogs'[c] = chatLogs[c] \cup Numbers(Head(eventCh).msgs[c])
    BY <1>0, <2>1
  <2> QED BY <2>2, <2>3, <2>4 DEF Kept
<1>3. ASSUME NEW d \in Conv, eventCh # <<>>, Next1(d), chatLogs' = chatLogs,
             d = c => Numbers(Head(eventCh).msgs[c]) \subseteq chatLogs[c]
      PROVE  Kept(c)' = Kept(c)
  <2>1. /\ InFlight(c)' \subseteq InFlight(c)
        /\ InFlight(c) \subseteq
             InFlight(c)' \cup (IF d = c THEN Numbers(Head(eventCh).msgs[c]) ELSE {})
    BY <1>0, <1>1, <1>3, FlowWork
  <2> QED BY <1>3, <2>1 DEF Kept
<1>4. ASSUME NEW d \in Regular, StoreConversation(d) PROVE Kept(c)' = Kept(c)
  <2>1. /\ d \in Conv /\ eventCh # <<>> /\ Next1(d) /\ chatLogs' = chatLogs
        /\ Numbers(Head(eventCh).msgs[c]) \subseteq chatLogs[c]
    BY <1>4 DEF StoreConversation, AtMessages, Conv
  <2> QED BY <1>3, <2>1
<1>5. ASSUME NEW d \in Notif, DoNotifications(d) PROVE Kept(c)' = Kept(c)
  <2>1. UNCHANGED <<eventCh, chatLogs>>
    BY <1>5 DEF DoNotifications
  <2> QED BY <1>0, <1>1, <2>1, FlowSame DEF Kept
<1>6. ASSUME NEW d \in Notif, SetNotificationSeq(d) PROVE Kept(c)' = Kept(c)
  <2>1. d \in Conv /\ d # c /\ eventCh # <<>> /\ Next1(d) /\ chatLogs' = chatLogs
    BY <1>0, <1>6 DEF SetNotificationSeq, AtNotifications, Conv
  <2> QED BY <1>3, <2>1
<1>7. CASE HandleFlag
  <2>1. chatLogs' = chatLogs
    BY <1>7 DEF HandleFlag
  <2>2. InFlight(c)' = InFlight(c)
    BY <1>0, <1>7, FlowFlag
  <2> QED BY <1>1, <2>1, <2>2 DEF Kept
<1> QED BY <1>1, <1>2, <1>4, <1>5, <1>6, <1>7 DEF Worker

(* A set of numbers has a least one. *)
LEMMA Least == ASSUME NEW S \in SUBSET Nat, S # {} PROVE \E m \in S : \A k \in S : m <= k
<1> DEFINE R == {ss \in Nat \X Nat : ss[1] < ss[2]}
<1>1. IsWellFoundedOn(R, Nat)
  BY NatLessThanWellFounded DEF OpToRel
<1> HIDE DEF R
<1>2. PICK m \in S : \A k \in S : ~(<<k, m>> \in R)
  BY <1>1, WFMin
<1>3. ASSUME NEW k \in S PROVE m <= k
  <2>1. <<k, m>> \in Nat \X Nat /\ <<k, m>> \notin R
    BY <1>2
  <2> QED BY <2>1 DEF R
<1> QED BY <1>3

(* A restart keeps the stored messages, and syncs to the newest of them. *)
LEMMA KeptByCrash ==
  ASSUME TypeOK, TypeOK', BoundsInv, NEW c \in Regular, Crash
  PROVE  /\ Kept(c)' = chatLogs[c]
         /\ synced'[c] >= 1 => synced'[c] \in chatLogs[c]
         /\ c \in rows => \A n \in chatLogs[c] : n <= AtLeast0(synced'[c])
<1> DEFINE stored == chatLogs[c]
           top == {n \in stored : \A k \in stored : k <= n}
<1>0. c \in Conv /\ c \notin Notif /\ stored \subseteq Nat /\ log[c] \in Nat
  BY ConvAssumption DEF Conv, TypeOK, TypeDb, TypeServer
<1>1. /\ eventCh' = <<>> /\ outbox' = <<>> /\ res' = NoMsgs /\ chatLogs' = chatLogs
      /\ synced'[c] = IF c \in rows THEN CheckConversationNormalMsgSeq(c) ELSE Absent
  BY <1>0 DEF Crash, Idle, LoadedSeqs, dbVars
<1>2. InFlight(c)' = {}
  BY <1>0, <1>1, FlowNone
<1>3. CheckConversationNormalMsgSeq(c) = IF top = {} THEN 0 ELSE CHOOSE n \in top : TRUE
  BY DEF CheckConversationNormalMsgSeq
<1>4. \A k \in stored : k <= log[c]
  BY DEF BoundsInv, StoredInLog
<1> HIDE DEF stored
<1>5. stored # {} => top # {}
  <2> SUFFICES ASSUME stored # {} PROVE top # {}
    OBVIOUS
  <2> DEFINE behind == {log[c] - k : k \in stored}
  <2>1. behind \in SUBSET Nat
    BY <1>0, <1>4
  <2>2. behind # {}
    OBVIOUS
  <2>3. PICK b \in behind : \A x \in behind : b <= x
    <3> HIDE DEF behind
    <3> QED BY <2>1, <2>2, Least
  <2>4. PICK n \in stored : b = log[c] - n
    OBVIOUS
  <2>5. \A k \in stored : log[c] - n <= log[c] - k
    BY <2>3, <2>4
  <2>6. \A k \in stored : k <= n
    BY <1>0, <2>5
  <2> QED BY <2>6
<1>6. CASE top = {}
  BY <1>1, <1>2, <1>3, <1>5, <1>6 DEF Kept, Absent, stored
<1>7. CASE top # {}
  <2>1. CheckConversationNormalMsgSeq(c) \in top
    BY <1>3, <1>7
  <2> HIDE DEF top
  <2>2. /\ CheckConversationNormalMsgSeq(c) \in stored
        /\ \A k \in stored : k <= CheckConversationNormalMsgSeq(c)
    BY <2>1 DEF top
  <2>3. AtLeast0(CheckConversationNormalMsgSeq(c)) = CheckConversationNormalMsgSeq(c)
    <3>1. CheckConversationNormalMsgSeq(c) \in Nat
      BY <1>0, <2>2 DEF stored
    <3> QED BY <3>1 DEF AtLeast0
  <2> QED BY <1>1, <1>2, <2>2, <2>3 DEF Kept, Absent, stored
<1> QED BY <1>6, <1>7

(* Only the worker and a restart touch what is stored. *)
LEMMA StoredQuiet == ASSUME Syncer PROVE UNCHANGED <<chatLogs, rows>>
  BY DEF Syncer, Dispatch, StartConnectedSync, StartWakeUpSync, IgnoreSync, StartIMSync, StartPush,
         Received, RetryMaxSeq, MaxSeqFailed, CompareSeqs, PushConversation, PushTriggered, Pulled,
         PullFailed, PullDone, EndSync, dbVars

LEMMA LatestNext ==
  ASSUME TypeOK, TypeOK', BoundsInv, ResFresh, "timeout" \notin Faults, LatestDelivered, [Next]_vars
  PROVE  LatestDelivered'
<1> SUFFICES ASSUME NEW c \in Regular
             PROVE  synced'[c] >= 1 => synced'[c] \in Kept(c)'
  BY DEF LatestDelivered, Kept
<1>0. c \in Conv /\ c \notin Notif /\ (synced[c] >= 1 => synced[c] \in Kept(c))
  BY ConvAssumption DEF Conv, LatestDelivered, Kept
<1>1. CASE Environment \/ Resting \/ UNCHANGED vars
  <2>1. UNCHANGED <<eventCh, outbox, res, synced, chatLogs>>
    BY <1>1, EnvironmentQuiet DEF jobVars, dbVars
  <2> QED BY <1>0, <2>1, FlowSame DEF Kept
<1>2. CASE Worker
  BY <1>0, <1>2, KeptByWorker
<1>3. CASE Crash
  BY <1>3, KeptByCrash
<1>4. CASE Syncer
  <2>1. c \notin Skipped
    BY <1>0 DEF Skipped
  <2>2. Moved(c) /\ chatLogs' = chatLogs
    BY <1>0, <1>4, <2>1, MovedBySyncer, StoredQuiet
  <2> QED BY <1>0, <2>2 DEF Moved, Kept
<1> QED BY <1>1, <1>2, <1>3, <1>4 DEF Next

(***************************************************************************)
(* The chat message at the synced number is stored or on its way: the      *)
(* newest message is never skipped, whether pushes are merged or lost,     *)
(* requests fail or the program dies.  It takes that no full channel makes *)
(* a dispatch give up.                                                     *)
(***************************************************************************)
THEOREM LatestKept ==
  ASSUME "timeout" \notin Faults PROVE Spec => []LatestDelivered
<1>1. Init => ResFresh /\ LatestDelivered
  <2> SUFFICES ASSUME Init PROVE LatestDelivered
    BY DeliveryInit
  <2>1. ASSUME NEW c \in Regular, synced[c] >= 1 PROVE synced[c] \in chatLogs[c]
    <3> DEFINE top == {n \in chatLogs[c] : \A k \in chatLogs[c] : k <= n}
    <3>1. /\ c \in Conv /\ c \notin Notif
          /\ synced[c] = IF c \in rows THEN CheckConversationNormalMsgSeq(c) ELSE Absent
      BY ConvAssumption DEF Conv, Init, LoadedSeqs
    <3>2. synced[c] = CheckConversationNormalMsgSeq(c) /\ synced[c] # 0
      BY <2>1, <3>1 DEF Absent
    <3>3. CheckConversationNormalMsgSeq(c) = IF top = {} THEN 0 ELSE CHOOSE n \in top : TRUE
      BY DEF CheckConversationNormalMsgSeq
    <3> HIDE DEF top
    <3>4. synced[c] \in top
      BY <3>2, <3>3
    <3> QED BY <3>4 DEF top
  <2> QED BY <2>1 DEF LatestDelivered
<1>2. TypeOK /\ TypeOK' /\ BoundsInv /\ ResFresh /\ LatestDelivered /\ [Next]_vars
        => ResFresh' /\ LatestDelivered'
  BY FreshNext, LatestNext
<1> QED BY <1>1, <1>2, TypeCorrect, Bounded, PTL DEF Spec

(***************************************************************************)
(* Nothing kept or applied is beyond the synced number: of every chat that *)
(* has a row, and of the others as long as no restart forgets their number.*)
(***************************************************************************)
ChatBehind(c) ==
  /\ c \in rows \/ "crash" \notin Faults
  /\ \A n \in Kept(c) : n <= AtLeast0(synced[c])
NotifBehind(c) ==
  /\ \A n \in InFlight(c) : n <= AtLeast0(synced[c])
  /\ notifSeq[c] <= AtLeast0(synced[c])

(* A synced number that rises leaves what is not beyond it behind. *)
LEMMA BehindMoved ==
  ASSUME TypeOK, Unmerged, NEW c \in Conv, Moved(c), synced'[c] \in Int,
         \A n \in InFlight(c) : n <= AtLeast0(synced[c])
  PROVE  /\ \A n \in InFlight(c)' : n <= AtLeast0(synced'[c])
         /\ \A n \in Int : n <= AtLeast0(synced[c]) => n <= AtLeast0(synced'[c])
<1>1. synced[c] \in Int /\ synced[c] <= synced'[c]
  BY DEF TypeOK, TypeSyncer, Moved
<1>2. ASSUME NEW n \in Int, n <= AtLeast0(synced[c]) PROVE n <= AtLeast0(synced'[c])
  BY <1>1, <1>2 DEF AtLeast0
<1>3. \A n \in InFlight(c) : n \in Int
  BY InFlightNumbers
<1>4. \A n \in InFlight(c)' : n \in InFlight(c) \/ n <= AtLeast0(synced'[c])
  BY DEF Moved
<1> QED BY <1>2, <1>3, <1>4

LEMMA ChatBehindNext ==
  ASSUME TypeOK, TypeOK', BoundsInv, ResFresh, Unmerged, NEW c \in Regular, ChatBehind(c), [Next]_vars
  PROVE  ChatBehind(c)'
<1>0. /\ c \in Conv /\ c \notin Notif /\ synced'[c] \in Int
      /\ chatLogs[c] \subseteq Nat /\ \A n \in chatLogs[c] \cup InFlight(c) : n <= AtLeast0(synced[c])
  BY ConvAssumption DEF Conv, TypeOK, TypeSyncer, TypeDb, ChatBehind, Kept
<1>1. CASE Environment \/ Resting \/ UNCHANGED vars
  <2>1. UNCHANGED <<eventCh, outbox, res, synced, chatLogs, rows>>
    BY <1>1, EnvironmentQuiet DEF jobVars, dbVars
  <2>2. Kept(c)' = Kept(c)
    BY <1>0, <2>1, FlowSame DEF Kept
  <2> QED BY <2>1, <2>2 DEF ChatBehind
<1>2. CASE Worker
  <2>1. rows \subseteq rows'
    BY <1>2 DEF Worker, InsertMessages, StoreConversation, DoNotifications, SetNotificationSeq, HandleFlag
  <2>2. Kept(c)' = Kept(c) /\ synced' = synced
    BY <1>2, KeptByWorker
  <2> QED BY <2>1, <2>2 DEF ChatBehind
<1>3. CASE Crash
  <2>1. rows' = rows /\ "crash" \in Faults
    BY <1>3 DEF Crash, dbVars
  <2>2. c \in rows
    BY <2>1 DEF ChatBehind
  <2>3. Kept(c)' = chatLogs[c] /\ \A n \in chatLogs[c] : n <= AtLeast0(synced'[c])
    BY <1>3, <2>2, KeptByCrash
  <2> QED BY <2>1, <2>2, <2>3 DEF ChatBehind
<1>4. CASE Syncer
  <2>1. c \notin Skipped
    BY <1>0 DEF Skipped
  <2>2. Moved(c) /\ UNCHANGED <<chatLogs, rows>>
    BY <1>0, <1>4, <2>1, MovedBySyncer, StoredQuiet
  <2>3. /\ \A n \in InFlight(c)' : n <= AtLeast0(synced'[c])
        /\ \A n \in Int : n <= AtLeast0(synced[c]) => n <= AtLeast0(synced'[c])
    BY <1>0, <2>2, BehindMoved
  <2>4. \A n \in chatLogs[c] : n \in Int /\ n <= AtLeast0(synced[c])
    BY <1>0
  <2>5. \A n \in chatLogs'[c] : n <= AtLeast0(synced'[c])
    BY <2>2, <2>3, <2>4
  <2> QED BY <2>2, <2>3, <2>5 DEF ChatBehind, Kept
<1> QED BY <1>1, <1>2, <1>3, <1>4 DEF Next

LEMMA NotifBehindNext ==
  ASSUME TypeOK, TypeOK', BoundsInv, ResFresh, Unmerged, NEW c \in Notif, NotifBehind(c), [Next]_vars
  PROVE  NotifBehind(c)'
<1>0. /\ c \in Conv /\ c \notin Regular /\ synced'[c] \in Int /\ synced[c] \in Int
      /\ notifSeq \in [Notif -> Int] /\ log[c] \in Nat /\ synced[c] <= log[c]
  BY ConvAssumption DEF Conv, TypeOK, TypeSyncer, TypeDb, TypeServer, BoundsInv, RangesNew
<1>1. ASSUME InFlight(c)' \subseteq InFlight(c), synced'[c] = synced[c], notifSeq'[c] = notifSeq[c]
      PROVE  NotifBehind(c)'
  BY <1>1 DEF NotifBehind
<1>2. CASE Environment \/ Resting \/ UNCHANGED vars
  <2>1. UNCHANGED <<eventCh, outbox, res, synced, notifSeq>>
    BY <1>2, EnvironmentQuiet DEF jobVars, dbVars
  <2> QED BY <1>0, <1>1, <2>1, FlowSame
<1>3. CASE Worker
  <2>1. UNCHANGED <<synced, outbox, res>>
    BY <1>3, WorkerQuiet DEF jobVars
  <2>2. ASSUME NEW d \in Conv, eventCh # <<>>, Next1(d) PROVE InFlight(c)' \subseteq InFlight(c)
    BY <1>0, <2>1, <2>2, FlowWork
  <2>3. ASSUME NEW d \in Regular, InsertMessages(d) \/ StoreConversation(d) PROVE NotifBehind(c)'
    <3>1. /\ eventCh # <<>> /\ notifSeq' = notifSeq /\ d \in Conv
          /\ eventCh' = eventCh \/ Next1(d)
      BY <2>3 DEF InsertMessages, StoreConversation, AtMessages, Conv
    <3>2. InFlight(c)' \subseteq InFlight(c)
      BY <1>0, <2>1, <2>2, <3>1, FlowSame
    <3> QED BY <1>1, <2>1, <3>1, <3>2
  <2>4. ASSUME NEW d \in Notif, DoNotifications(d) PROVE NotifBehind(c)'
    <3>1. eventCh' = eventCh /\ notifSeq' = notifSeq
      BY <2>4 DEF DoNotifications
    <3> QED BY <1>0, <1>1, <2>1, <3>1, FlowSame
  <2>5. ASSUME NEW d \in Notif, SetNotificationSeq(d) PROVE NotifBehind(c)'
    <3> DEFINE lastSeq == Last(Head(eventCh).msgs[d])
    <3>1. /\ d \in Conv /\ eventCh # <<>> /\ Next1(d) /\ Head(eventCh).msgs[d] # <<>>
          /\ notifSeq' = IF lastSeq = 0 THEN notifSeq ELSE [notifSeq EXCEPT ![d] = lastSeq]
      BY <2>5 DEF SetNotificationSeq, AtNotifications, Conv
    <3>2. InFlight(c)' \subseteq InFlight(c)
      BY <2>2, <3>1
    <3>3. CASE d # c \/ lastSeq = 0
      <4>1. notifSeq'[c] = notifSeq[c]
        BY <1>0, <3>1, <3>3
      <4> QED BY <1>1, <2>1, <3>2, <4>1
    <3>4. CASE d = c /\ lastSeq # 0
      <4>1. /\ Head(eventCh).msgs[c] \in Seq(Nat)
            /\ Numbers(Head(eventCh).msgs[c]) \subseteq InFlight(c)
        BY <1>0, <3>1, HeadFirst
      <4>2. /\ Len(Head(eventCh).msgs[c]) \in 1..Len(Head(eventCh).msgs[c])
            /\ lastSeq = Head(eventCh).msgs[c][Len(Head(eventCh).msgs[c])]
        BY <3>1, <3>4, <4>1 DEF Last
      <4>3. lastSeq \in InFlight(c)
        BY <3>4, <4>1, <4>2, NumbersAt
      <4>4. notifSeq'[c] = lastSeq
        BY <1>0, <3>1, <3>4
      <4> QED BY <2>1, <3>2, <4>3, <4>4 DEF NotifBehind
    <3> QED BY <3>3, <3>4
  <2>6. CASE HandleFlag
    <3>1. notifSeq' = notifSeq
      BY <2>6 DEF HandleFlag
    <3> QED BY <1>0, <1>1, <2>1, <2>6, <3>1, FlowFlag
  <2> QED BY <1>3, <2>3, <2>4, <2>5, <2>6 DEF Worker
<1>4. CASE Crash
  <2>1. /\ eventCh' = <<>> /\ outbox' = <<>> /\ res' = NoMsgs
        /\ notifSeq' = notifSeq /\ synced'[c] = notifSeq[c]
    BY <1>0, <1>4 DEF Crash, Idle, LoadedSeqs, dbVars
  <2>2. InFlight(c)' = {}
    BY <1>0, <2>1, FlowNone
  <2>3. notifSeq[c] <= AtLeast0(notifSeq[c])
    BY <1>0 DEF AtLeast0
  <2> QED BY <2>1, <2>2, <2>3 DEF NotifBehind
<1>5. CASE CompareSeqs /\ c \in Skipped
  <2>1. /\ UNCHANGED <<eventCh, outbox, res>> /\ synced'[c] = log[c]
        /\ notifSeq'[c] = notifSeq[c] \/ notifSeq'[c] = log[c]
    BY <1>0, <1>5 DEF CompareSeqs
  <2>2. InFlight(c)' = InFlight(c)
    BY <1>0, <2>1, FlowSame
  <2>3. ASSUME NEW n \in Int, n <= AtLeast0(synced[c]) PROVE n <= AtLeast0(synced'[c])
    BY <1>0, <2>1, <2>3 DEF AtLeast0
  <2>4. \A n \in InFlight(c) : n \in Int
    BY <1>0, InFlightNumbers
  <2>5. log[c] <= AtLeast0(synced'[c])
    BY <1>0, <2>1 DEF AtLeast0
  <2>6. notifSeq[c] \in Int
    BY <1>0
  <2> QED BY <2>1, <2>2, <2>3, <2>4, <2>5, <2>6 DEF NotifBehind
<1>6. CASE Syncer /\ ~(CompareSeqs /\ c \in Skipped)
  <2>1. Moved(c)
    BY <1>0, <1>6, MovedBySyncer
  <2>2. /\ \A n \in InFlight(c)' : n <= AtLeast0(synced'[c])
        /\ \A n \in Int : n <= AtLeast0(synced[c]) => n <= AtLeast0(synced'[c])
    BY <1>0, <2>1, BehindMoved DEF NotifBehind
  <2>3. notifSeq'[c] = notifSeq[c]
    <3>1. CASE CompareSeqs
      <4>1. c \notin Skipped
        BY <1>6, <3>1
      <4> QED BY <1>0, <3>1, <4>1 DEF CompareSeqs
    <3>2. CASE ~CompareSeqs
      BY <1>6, <3>2 DEF Syncer, Dispatch, StartConnectedSync, StartWakeUpSync, IgnoreSync, StartIMSync,
         StartPush, Received, RetryMaxSeq, MaxSeqFailed, PushConversation, PushTriggered, Pulled,
         PullFailed, PullDone, EndSync, dbVars
    <3> QED BY <3>1, <3>2
  <2>4. notifSeq[c] \in Int /\ notifSeq[c] <= AtLeast0(synced[c])
    BY <1>0 DEF NotifBehind
  <2> QED BY <2>2, <2>3, <2>4 DEF NotifBehind
<1> QED BY <1>2, <1>3, <1>4, <1>5, <1>6 DEF Next

LEMMA BehindInit ==
  ASSUME Init, ~FreshInstall \/ "crash" \notin Faults
  PROVE  /\ \A c \in Regular : ChatBehind(c)
         /\ \A c \in Notif : NotifBehind(c)
<1>1. TypeOK /\ InitSeq \in Nat
  BY TypeInit, BoundAssumption
<1>2. ASSUME NEW c \in Conv PROVE InFlight(c) = {}
  <2>1. eventCh = <<>> /\ outbox = <<>> /\ res[c] = <<>> /\ Numbers(<<>>) = {}
    BY DEF Init, NoMsgs, Numbers, ToSet
  <2> QED BY <1>1, <2>1, QueueNone, PartsOf DEF Parts
<1>3. ASSUME NEW c \in Regular PROVE ChatBehind(c)
  <2>1. c \in Conv /\ c \notin Notif /\ InFlight(c) = {}
    BY <1>2, ConvAssumption DEF Conv
  <2>2. CASE FreshInstall
    BY <2>1, <2>2 DEF Init, ChatBehind, Kept
  <2>3. CASE ~FreshInstall
    <3> DEFINE top == {n \in chatLogs[c] : \A k \in chatLogs[c] : k <= n}
    <3>1. chatLogs[c] = 1..InitSeq /\ c \in rows /\ synced[c] = CheckConversationNormalMsgSeq(c)
      BY <2>1, <2>3 DEF Init, LoadedSeqs
    <3>2. CheckConversationNormalMsgSeq(c) = IF top = {} THEN 0 ELSE CHOOSE n \in top : TRUE
      BY DEF CheckConversationNormalMsgSeq
    <3>3. CASE InitSeq = 0
      <4>1. chatLogs[c] = {}
        BY <3>1, <3>3
      <4> QED BY <2>1, <3>1, <4>1 DEF ChatBehind, Kept
    <3>4. CASE InitSeq # 0
      <4>1. InitSeq \in 1..InitSeq /\ \A k \in 1..InitSeq : k <= InitSeq
        BY <1>1, <3>4
      <4>2. top # {}
        BY <3>1, <4>1
      <4> HIDE DEF top
      <4>3. synced[c] \in top
        BY <3>1, <3>2, <4>2
      <4>4. synced[c] \in Nat /\ \A k \in chatLogs[c] : k <= synced[c]
        BY <1>1, <3>1, <4>3 DEF top
      <4>5. AtLeast0(synced[c]) = synced[c]
        BY <4>4 DEF AtLeast0
      <4> QED BY <2>1, <3>1, <4>4, <4>5 DEF ChatBehind, Kept
    <3> QED BY <3>3, <3>4
  <2> QED BY <2>2, <2>3
<1>4. ASSUME NEW c \in Notif PROVE NotifBehind(c)
  <2>1. c \in Conv /\ InFlight(c) = {} /\ synced[c] = notifSeq[c] /\ notifSeq[c] \in Int
    BY <1>1, <1>2 DEF Conv, Init, LoadedSeqs, TypeOK, TypeDb
  <2>2. notifSeq[c] <= AtLeast0(synced[c])
    BY <2>1 DEF AtLeast0
  <2> QED BY <2>1, <2>2 DEF NotifBehind
<1> QED BY <1>3, <1>4

(***************************************************************************)
(* The syncer never runs behind the database: no stored message, no        *)
(* applied notification and nothing on its way is beyond the synced        *)
(* number.  It takes that no pushes are merged, and that a restart finds a *)
(* row of every conversation: after one that interrupts a reinstallation   *)
(* between the messages and their row, the messages are pulled again.      *)
(***************************************************************************)
THEOREM NeverBehind ==
  ASSUME "merge" \notin Faults, ~FreshInstall \/ "crash" \notin Faults
  PROVE  Spec => []NothingBeyondSynced
<1> DEFINE Inv == /\ ResFresh /\ Unmerged
                  /\ \A c \in Regular : ChatBehind(c)
                  /\ \A c \in Notif : NotifBehind(c)
<1>1. TypeOK /\ TypeOK' /\ BoundsInv /\ Inv /\ [Next]_vars => Inv'
  BY FreshNext, UnmergedNext, ChatBehindNext, NotifBehindNext
<1>2. Inv => NothingBeyondSynced
  BY DEF ChatBehind, NotifBehind, Kept, NothingBeyondSynced
<1>3. Init => Inv
  BY DeliveryInit, BehindInit
<1> HIDE DEF Inv
<1> QED BY <1>1, <1>2, <1>3, TypeCorrect, Bounded, PTL DEF Spec
=============================================================================
