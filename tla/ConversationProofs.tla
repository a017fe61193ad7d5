------------------------- MODULE ConversationProofs -------------------------
(***************************************************************************)
(* Theorems about Conversation, for a log and a queue of any length, and   *)
(* any calls, notices and synchronisations at any moment: its types, the   *)
(* order of what is on the way to the worker, that no message is counted   *)
(* twice, and that what is shown of revoked messages and as a group's      *)
(* latest message is settled once nothing is under way.                    *)
(***************************************************************************)
EXTENDS Conversation, SequenceTheorems, WellFoundedInduction, TLAPS

(* A set of numbers has a least one. *)
LEMMA Least == ASSUME NEW S \in SUBSET Nat, S # {} PROVE \E m \in S : \A k \in S : m <= k
<1> DEFINE R == {ss \in Nat \X Nat : ss[1] < ss[2]}
<1>1. IsWellFoundedOn(R, Nat)
  BY NatLessThanWellFounded DEF OpToRel
<1> HIDE DEF R
<1>2. PICK m \in S : \A k \in S : ~(<<k, m>> \in R)
  BY <1>1, WFMin
<1>3. ASSUME NEW k \in S PROVE m <= k
  <2>1. <<k, m>> \in Nat \X Nat /\ <<k, m>> \notin R
    BY <1>2
  <2> QED BY <2>1 DEF R
<1> QED BY <1>3

(* A set of numbers that has a bound has a greatest one. *)
LEMMA HasGreatest ==
  ASSUME NEW n \in Nat, NEW S \in SUBSET (0..n)
  PROVE  /\ Greatest(S) \in 0..n
         /\ S # {} => Greatest(S) \in S /\ Greatest(S) = Max(S)
         /\ \A x \in S : x <= Greatest(S)
<1>1. CASE S = {}
  BY <1>1 DEF Greatest
<1>2. CASE S # {}
  <2> DEFINE T == {n - x : x \in S}
  <2>1. S \subseteq 0..n
    OBVIOUS
  <2>2. T \in SUBSET Nat
    BY <2>1
  <2>3. T # {}
    BY <1>2
  <2> HIDE DEF T
  <2>4. PICK m \in T : \A k \in T : m <= k
    BY <2>2, <2>3, Least
  <2>5. PICK x \in S : m = n - x
    BY DEF T
  <2>6. \A y \in S : x >= y
    <3> TAKE y \in S
    <3>1. n - y \in T
      BY DEF T
    <3>2. n - x <= n - y
      BY <2>4, <2>5, <3>1
    <3> QED BY <2>1, <3>2
  <2>7. Max(S) \in S /\ \A y \in S : Max(S) >= y
    BY <2>6 DEF Max
  <2> QED BY <1>2, <2>1, <2>7 DEF Greatest
<1> QED BY <1>1, <1>2

(* The greater and the lesser of two numbers. *)
LEMMA GreaterOf ==
  ASSUME NEW a \in Int, NEW b \in Int PROVE Max({a, b}) = (IF a >= b THEN a ELSE b)
<1> DEFINE c == IF a >= b THEN a ELSE b
<1>1. c \in {a, b} /\ \A y \in {a, b} : c >= y
  OBVIOUS
<1>2. \A x \in {a, b} : (\A y \in {a, b} : x >= y) => x = c
  OBVIOUS
<1> HIDE DEF c
<1>3. Max({a, b}) \in {a, b} /\ \A y \in {a, b} : Max({a, b}) >= y
  BY <1>1 DEF Max
<1>4. Max({a, b}) = c
  BY <1>2, <1>3
<1> QED BY <1>4 DEF c

LEMMA LesserOf ==
  ASSUME NEW a \in Int, NEW b \in Int PROVE Min({a, b}) = (IF a <= b THEN a ELSE b)
<1> DEFINE c == IF a <= b THEN a ELSE b
<1>1. c \in {a, b} /\ \A y \in {a, b} : c <= y
  OBVIOUS
<1>2. \A x \in {a, b} : (\A y \in {a, b} : x <= y) => x = c
  OBVIOUS
<1> HIDE DEF c
<1>3. Min({a, b}) \in {a, b} /\ \A y \in {a, b} : Min({a, b}) <= y
  BY <1>1 DEF Min
<1>4. Min({a, b}) = c
  BY <1>2, <1>3
<1> QED BY <1>4 DEF c

-----------------------------------------------------------------------------
(* Types *)

(* The types of what is kept, of what is on the way, and of a goroutine's local variables. *)
Notices ==
  {x \in [kind : {"revoke", "delete", "clear", "read", "receipt"}, n : Nat, seqs : SUBSET Nat] :
     x.kind \in {"revoke", "delete", "receipt"} => x.n \in Seqs}
Latests == [n : Nat, rev : BOOLEAN]
Convs   == [unread : Nat, latest : Latests, time : Nat]
Bundles == [from : Nat, to : Nat, gone : SUBSET Nat, rev : SUBSET Nat, count : Nat]
Commands ==
  [cmd : {"msgs"}, batch : Bundles] \cup [cmd : {"note"}, note : Notices] \cup [cmd : {"sync"}]
    \cup [cmd : {"latest"}, conv : Convs]
Locals == [pc : Places, n : Nat, latest : Latests, batch : Bundles, conv : Convs, row : Row, top : BOOLEAN]

ServerType ==
  /\ log \in 0..MaxSeq /\ mine \subseteq Nat /\ srvRevoked \subseteq Nat /\ srvGone \subseteq Nat
  /\ srvRead \in 0..log /\ notes \in Seq(Notices)
WayType == sent \in 0..log /\ noted \in Nat /\ queue \in Seq(Commands)
TableType == rows \in [Seqs -> Row] /\ conv \in Convs
(***************************************************************************)
(* SyncUnread's answer is not above the recorder.  The queue's bundles are *)
(* in the order of the log, each after what came before it; rows exist     *)
(* only of messages that were sent, and the worker's bundle was sent.      *)
(***************************************************************************)
SyncBelow == At(Worker, "sync") => local[Worker].n <= recorder
MemoryType ==
  /\ recorder \in 0..log /\ local \in [Thread -> Locals] /\ single \in BOOLEAN /\ serial \in BOOLEAN
  /\ base \in Nat /\ SyncBelow
Sent == \A n \in Seqs : rows[n].st # "none" => n <= sent
Batches == {i \in 1..Len(queue) : queue[i].cmd = "msgs"}
InOrder ==
  \A i \in Batches : /\ queue[i].batch.from >= 1 /\ queue[i].batch.from <= queue[i].batch.to
                     /\ queue[i].batch.to <= sent
                     /\ \A j \in Batches : i < j => queue[i].batch.to < queue[j].batch.from
Handed == local[Worker].pc \in {"lock", "insert", "update"} => local[Worker].batch.to <= sent
TypeInv == ServerType /\ WayType /\ TableType /\ MemoryType

(* The recorder after each message of a bundle. *)
CountStep(b, g, n) ==
  IF n < b.from THEN recorder
  ELSE IF n \in Shown(b) \ mine /\ n > g[n - 1] THEN g[n - 1] + 1 ELSE g[n - 1]
CountsTo(b, g, m) == g = [n \in (b.from - 1)..m |-> CountStep(b, g, n)]

(* It exists, and is never ahead of where it began, of the messages it has seen, or of their number. *)
LEMMA CountsExist ==
  ASSUME recorder \in Nat, NEW b, b.from \in Nat \ {0}, NEW m \in Nat, m >= b.from - 1
  PROVE  \E g : CountsTo(b, g, m)
<1> DEFINE low == b.from - 1
           S == {k \in Nat : k >= low /\ ~\E g : CountsTo(b, g, k)}
<1>0. low \in Nat /\ b.from = low + 1
  OBVIOUS
<1> SUFFICES ASSUME m \in S PROVE FALSE
  OBVIOUS
<1>1. PICK k \in S : \A j \in S : k <= j
  <2>1. S \in SUBSET Nat /\ S # {}
    OBVIOUS
  <2> HIDE DEF S
  <2> QED BY <2>1, Least
<1>2. k \in Nat /\ k >= low /\ ~\E g : CountsTo(b, g, k)
  OBVIOUS
<1>3. CASE k = low
  <2> DEFINE g == [n \in low..k |-> recorder]
  <2>1. \A n \in low..k : n < b.from
    BY <1>0, <1>3
  <2>2. g = [n \in low..k |-> CountStep(b, g, n)]
    BY <2>1 DEF CountStep
  <2> QED BY <2>2, <1>2 DEF CountsTo
<1>4. CASE k > low
  <2>1. k - 1 \in Nat /\ k - 1 >= low /\ k - 1 \notin S
    BY <1>0, <1>1, <1>2, <1>4
  <2>2. PICK g : CountsTo(b, g, k - 1)
    BY <2>1
  <2>3. g = [n \in low..(k - 1) |-> CountStep(b, g, n)]
    BY <2>2 DEF CountsTo
  <2> DEFINE h == [n \in low..k |-> IF n = k THEN CountStep(b, g, k) ELSE g[n]]
  <2>4. \A n \in low..k : h[n] = CountStep(b, h, n)
    <3> SUFFICES ASSUME NEW n \in low..k PROVE h[n] = CountStep(b, h, n)
      OBVIOUS
    <3>1. CASE n = low
      <4>1. n # k /\ n \in low..(k - 1) /\ n < b.from
        BY <3>1, <1>0, <1>2, <1>4
      <4>2. h[n] = CountStep(b, g, n)
        BY <4>1, <2>3
      <4> QED BY <4>1, <4>2 DEF CountStep
    <3>2. CASE n # low
      <4>1. n - 1 \in low..k /\ n - 1 # k /\ n - 1 \in low..(k - 1)
        BY <3>2, <1>0, <1>2
      <4>2. h[n - 1] = g[n - 1]
        BY <4>1
      <4>3. h[n] = CountStep(b, g, n)
        <5>1. CASE n = k
          BY <5>1
        <5>2. CASE n # k
          <6>1. n \in low..(k - 1)
            BY <5>2, <1>0, <1>2
          <6> QED BY <6>1, <5>2, <2>3
        <5> QED BY <5>1, <5>2
      <4> HIDE DEF h
      <4> QED BY <4>2, <4>3 DEF CountStep
    <3> QED BY <3>1, <3>2
  <2>5. h = [n \in low..k |-> CountStep(b, h, n)]
    <3>1. h = [n \in low..k |-> h[n]]
      OBVIOUS
    <3> HIDE DEF h
    <3> QED BY <3>1, <2>4
  <2> QED BY <2>5, <1>2 DEF CountsTo
<1> QED BY <1>2, <1>3, <1>4

LEMMA CountsBound ==
  ASSUME recorder \in Nat, NEW b, b.from \in Nat \ {0}, NEW m \in Nat, m >= b.from - 1,
         NEW g, CountsTo(b, g, m)
  PROVE  /\ g[m] \in Nat /\ g[m] >= recorder /\ g[m] - recorder <= m - (b.from - 1)
         /\ g[m] > recorder => g[m] <= m
<1> DEFINE low == b.from - 1
           Fine(k) == /\ g[k] \in Nat /\ g[k] >= recorder /\ g[k] - recorder <= k - low
                      /\ g[k] > recorder => g[k] <= k
           S == {k \in Nat : k >= low /\ k <= m /\ ~Fine(k)}
<1>0. low \in Nat /\ b.from = low + 1
  OBVIOUS
<1> SUFFICES ASSUME m \in S PROVE FALSE
  OBVIOUS
<1>1. PICK k \in S : \A j \in S : k <= j
  <2>1. S \in SUBSET Nat /\ S # {}
    OBVIOUS
  <2> HIDE DEF S
  <2> QED BY <2>1, Least
<1>2. k \in Nat /\ k >= low /\ k <= m /\ ~Fine(k)
  OBVIOUS
<1>3. g[k] = CountStep(b, g, k)
  <2>1. g = [n \in low..m |-> CountStep(b, g, n)]
    BY DEF CountsTo
  <2>2. k \in low..m
    BY <1>0, <1>2
  <2> QED BY <2>1, <2>2
<1>4. CASE k = low
  BY <1>0, <1>2, <1>3, <1>4 DEF CountStep
<1>5. CASE k > low
  <2>1. k - 1 \in Nat /\ k - 1 >= low /\ k - 1 <= m /\ k - 1 \notin S
    BY <1>0, <1>1, <1>2, <1>5
  <2>2. Fine(k - 1)
    BY <2>1
  <2>3. g[k] = g[k - 1] \/ (k > g[k - 1] /\ g[k] = g[k - 1] + 1)
    BY <1>0, <1>3, <1>2, <1>5 DEF CountStep
  <2> QED BY <1>0, <1>2, <2>1, <2>2, <2>3
<1> QED BY <1>2, <1>4, <1>5

(* The recorder after a whole bundle. *)
LEMMA CountedFacts ==
  ASSUME recorder \in Nat, NEW b, b.from \in Nat \ {0}, b.to \in Nat, b.from <= b.to
  PROVE  /\ Counted(b) \in Nat /\ Counted(b) <= b.to - (b.from - 1)
         /\ Counted(b) = 0 \/ recorder + Counted(b) <= b.to
<1> DEFINE g == CHOOSE x : CountsTo(b, x, b.to)
<1>1. Counted(b) = g[b.to] - recorder
  BY DEF Counted, CountsTo, CountStep
<1>2. CountsTo(b, g, b.to)
  <2>1. b.to >= b.from - 1
    OBVIOUS
  <2>2. \E x : CountsTo(b, x, b.to)
    BY <2>1, CountsExist
  <2> QED BY <2>2
<1> HIDE DEF g
<1>3. /\ g[b.to] \in Nat /\ g[b.to] >= recorder /\ g[b.to] - recorder <= b.to - (b.from - 1)
      /\ g[b.to] > recorder => g[b.to] <= b.to
  <2>1. b.to >= b.from - 1
    OBVIOUS
  <2> QED BY <1>2, <2>1, CountsBound
<1> QED BY <1>1, <1>3

(* What is in the queue, in a row, in the latest message, and in an idle goroutine. *)
LEMMA CommandFacts ==
  /\ \A c \in Commands : /\ c.cmd = "msgs" => c.batch \in Bundles
                         /\ c.cmd = "note" => c.note \in Notices
                         /\ c.cmd = "latest" => c.conv \in Convs
  BY DEF Commands

LEMMA TakeFacts ==
  ASSUME queue \in Seq(Commands), NEW cmd, Take(cmd)
  PROVE  /\ At(Worker, "idle") /\ (serial => At(App, "idle")) /\ queue # <<>>
         /\ Head(queue) \in Commands /\ Head(queue).cmd = cmd /\ Head(queue) = queue[1] /\ Len(queue) >= 1
         /\ queue' = Tail(queue) /\ Tail(queue) \in Seq(Commands) /\ Len(Tail(queue)) = Len(queue) - 1
         /\ \A i \in 1..Len(Tail(queue)) : Tail(queue)[i] = queue[i + 1]
         /\ UNCHANGED <<srvVars, sent, noted, single, serial, ops>>
  BY DEF Take

LEMMA RowFacts ==
  ASSUME rows \in [Seqs -> Row], NEW m \in Nat, \A n \in Seqs : rows[n].st # "none" => n <= m
  PROVE  /\ LocalMax \in Nat /\ LocalMax <= m /\ Greatest(Active) \in Nat /\ Greatest(Active) <= m
         /\ LocalMax # 0 => LocalMax \in Stored
         /\ Greatest(Active) # 0 => Greatest(Active) \in Active
         /\ \A n \in Stored : n <= LocalMax
         /\ \A n \in Active : n <= Greatest(Active)
<1>1. MaxSeq \in Nat
  BY SizeAssumption
<1>2. Stored \in SUBSET (0..m) /\ Active \in SUBSET (0..m) /\ 0 \notin Stored /\ 0 \notin Active
  BY <1>1 DEF Stored, Active, Seqs
<1>4. /\ LocalMax \in 0..m /\ (Stored # {} => LocalMax \in Stored) /\ \A n \in Stored : n <= LocalMax
  BY <1>2, HasGreatest DEF LocalMax
<1>5. /\ Greatest(Active) \in 0..m /\ (Active # {} => Greatest(Active) \in Active)
      /\ \A n \in Active : n <= Greatest(Active)
  BY <1>2, HasGreatest
<1>6. Greatest({}) = 0
  BY DEF Greatest
<1> QED BY <1>4, <1>5, <1>6 DEF LocalMax

LEMMA LatestTyped ==
  ASSUME rows \in [Seqs -> Row], NEW n \in Nat, n # 0 => n \in Seqs
  PROVE  LatestOf(n) \in Latests /\ LatestOf(n).n = n
  BY DEF LatestOf, NoLatest, Latests, Row

LEMMA IdleTyped ==
  /\ Idle \in Locals /\ Idle.pc = "idle" /\ NoLatest \in Latests
  /\ NoRow \in Row /\ NoRow.st = "none"
<1>1. NoBatch \in Bundles /\ NoConv \in Convs /\ NoLatest \in Latests /\ NoRow \in Row
  BY DEF NoBatch, Bundles, NoConv, Convs, NoLatest, Latests, NoRow, Row
<1> QED BY <1>1 DEF Idle, Locals, Places, NoRow

(* The largest seq of a table is one that was sent. *)
LEMMA SizeFacts ==
  ASSUME TypeInv, Sent
  PROVE  /\ MaxSeq \in Nat /\ LocalMax \in Nat /\ LocalMax <= sent /\ sent \in Nat /\ sent <= log
              /\ log \in Nat
         /\ log <= MaxSeq /\ recorder \in Nat /\ recorder <= log /\ srvRead \in Nat /\ srvRead <= log
         /\ Worker \in Thread /\ App \in Thread /\ Worker # App /\ Active \subseteq Stored
         /\ \A n \in Stored : n \in Nat \ {0} /\ n \in Seqs /\ n <= sent
<1>1. MaxSeq \in Nat
  BY SizeAssumption
<1>2. log \in 0..MaxSeq /\ sent \in 0..log /\ recorder \in 0..log /\ srvRead \in 0..log
  BY DEF TypeInv, ServerType, WayType, MemoryType
<1>3. sent \in Nat /\ sent <= log /\ log \in Nat /\ log <= MaxSeq
  BY <1>1, <1>2
<1>4. rows \in [Seqs -> Row] /\ \A n \in Seqs : rows[n].st # "none" => n <= sent
  BY DEF TypeInv, TableType, Sent
<1>5. LocalMax \in Nat /\ LocalMax <= sent
  BY <1>3, <1>4, RowFacts
<1>6. /\ Active \subseteq Stored
      /\ \A n \in Stored : n \in Nat \ {0} /\ n \in Seqs /\ n <= sent
  BY <1>1, <1>4 DEF Active, Stored, Seqs
<1> QED BY <1>1, <1>2, <1>3, <1>5, <1>6 DEF Thread, Worker, App

LEMMA GreaterNat ==
  ASSUME NEW a \in Nat, NEW b \in Nat
  PROVE  Max({a, b}) \in Nat /\ Max({a, b}) >= a /\ Max({a, b}) >= b /\ (Max({a, b}) = a \/ Max({a, b}) = b)
  BY GreaterOf

(* Each part of the types, step by step. *)
LEMMA NextServer == ASSUME TypeInv, Sent, [Next]_vars PROVE ServerType'
<1>0. /\ MaxSeq \in Nat /\ LocalMax \in Nat /\ LocalMax <= log /\ log \in Nat /\ log <= MaxSeq
      /\ srvRead \in Nat /\ srvRead <= log /\ \A n \in Stored : n \in Nat \ {0} /\ n <= log
      /\ Active \subseteq Stored
  BY SizeFacts
<1>1. ASSUME NEW own \in BOOLEAN, Publish(own) PROVE ServerType'
  BY <1>1, <1>0 DEF Publish, Quiet, TypeInv, ServerType, Notices, Note, ReadNote, srvVars
<1>2. ASSUME NEW n \in Seqs, RevokedElsewhere(n) PROVE ServerType'
  BY <1>2, <1>0 DEF RevokedElsewhere, Event, Quiet, TypeInv, ServerType, Notices, Note, ReadNote,
    srvVars, Seqs
<1>3. ASSUME NEW n \in Seqs, DeletedElsewhere(n) PROVE ServerType'
  BY <1>3, <1>0 DEF DeletedElsewhere, Event, Quiet, TypeInv, ServerType, Notices, Note, ReadNote,
    srvVars, Seqs
<1>4. ASSUME NEW n \in Seqs, ReadElsewhere(n) PROVE ServerType'
  BY <1>4, <1>0, GreaterNat DEF ReadElsewhere, Event, Quiet, MarkOnServer, TypeInv, ServerType,
    Notices, Note, ReadNote, srvVars, Seqs
<1>5. ASSUME NEW n \in Seqs, PeerReads(n) PROVE ServerType'
  BY <1>5, <1>0 DEF PeerReads, Event, Quiet, TypeInv, ServerType, Notices, Note, ReadNote, srvVars,
    Seqs
<1>6. ASSUME ClearedElsewhere PROVE ServerType'
  BY <1>6, <1>0 DEF ClearedElsewhere, Event, Quiet, TypeInv, ServerType, Notices, Note, ReadNote,
    srvVars
<1>7. ASSUME NEW t \in Thread, ClearHasRead(t) PROVE ServerType'
  <2>1. Max({srvRead, LocalMax}) \in 0..log
    BY <1>0, GreaterNat
  <2> QED BY <1>7, <1>0, <2>1 DEF ClearHasRead, Step, TypeInv, ServerType
<1>8. ASSUME NEW n \in Seqs, RevokeMessage(n) PROVE ServerType'
  BY <1>8, <1>0 DEF RevokeMessage, Start, TypeInv, ServerType, Notices, Note, ReadNote, srvVars,
    Seqs
<1>9. ASSUME NEW n \in Seqs, DeleteMessage(n) PROVE ServerType'
  BY <1>9, <1>0 DEF DeleteMessage, Start, TypeInv, ServerType, Notices, Note, ReadNote, srvVars,
    Seqs
<1>10. ASSUME NEW n \in Seqs, MarkMessage(n) PROVE ServerType'
  <2>1. n \in Stored
    BY <1>10 DEF MarkMessage, Unread, Stored
  <2>2. Max({srvRead, n}) \in 0..log
    BY <1>0, <2>1, GreaterNat
  <2> QED
    BY <1>10, <1>0, <2>1, <2>2 DEF MarkMessage, MarkOnServer, TypeInv, ServerType, Notices, Note,
                                   ReadNote
<1>11. ASSUME ClearMessages PROVE ServerType'
  BY <1>11, <1>0 DEF ClearMessages, Start, TypeInv, ServerType, Notices, Note, ReadNote, srvVars
<1>12. ASSUME MarkConversation PROVE ServerType'
  <2>1. Max({srvRead, LocalMax}) \in 0..log
    BY <1>0, GreaterNat
  <2> QED
    BY <1>12, <1>0, <2>1 DEF MarkConversation, MarkOnServer, TypeInv, ServerType, Notices, Note,
                             ReadNote, Seqs
<1>13. ASSUME DeliverMsgs \/ DeliverNote \/ RequestSync
      PROVE  UNCHANGED srvVars
  BY <1>13 DEF DeliverMsgs, DeliverNote, RequestSync, Quiet, Event, srvVars
<1>14. ASSUME DoMsgNew \/ ReadConversation \/ InsertMessages \/ UpdateConversation \/ SyncData \/
         SyncAnswer \/ SyncUnread \/ UpdateLatest \/ DoRevokeMsg \/ DoDeleteMsgs \/
         DoClearConversations \/ DoUnreadCount \/ SetUnreadCount \/ DoReadDrawing \/ UpdateMessage
      PROVE  UNCHANGED srvVars
  BY <1>14 DEF DoMsgNew, ReadConversation, InsertMessages, UpdateConversation, SyncData, SyncAnswer,
    SyncUnread, UpdateLatest, DoRevokeMsg, DoDeleteMsgs, DoClearConversations, DoUnreadCount,
    SetUnreadCount, DoReadDrawing, UpdateMessage, Take, DoNote, TakeNote, srvVars
<1>15. ASSUME NEW t \in Thread, RevokeRow(t) \/ RevokeLatest(t) \/ DeleteRow(t) \/ DeleteCount(t) \/
         DeleteLatest(t) \/ WriteLatest(t) \/ ClearRows(t) \/ ClearConversation(t) \/ ReadLatest(t)
         \/ SetLatestRead(t)
      PROVE  UNCHANGED srvVars
  BY <1>15 DEF RevokeRow, RevokeLatest, DeleteRow, DeleteCount, DeleteLatest, WriteLatest,
    ClearRows, ClearConversation, ReadLatest, SetLatestRead, Step, srvVars
<1>16. ASSUME MarkRows \/ MarkCount \/ MarkRow \/ MarkDecr
      PROVE  UNCHANGED srvVars
  BY <1>16 DEF MarkRows, MarkCount, MarkRow, MarkDecr, Step, srvVars
<1>17. CASE UNCHANGED vars
  BY <1>17, <1>0 DEF vars, srvVars, wayVars, rowVars, memVars, scenVars, TypeInv, ServerType, Notices,
                     Note, ReadNote
<1>18. ASSUME UNCHANGED srvVars PROVE ServerType'
  BY <1>18, <1>0 DEF srvVars, TypeInv, ServerType, Notices, Note, ReadNote
<1>19. CASE World
  BY <1>19, <1>1, <1>2, <1>3, <1>4, <1>5, <1>6, <1>7, <1>8, <1>9, <1>10, <1>11, <1>12, <1>13, <1>14,
    <1>15, <1>16, <1>18 DEF World, Thread
<1>20. CASE Work
  BY <1>20, <1>1, <1>2, <1>3, <1>4, <1>5, <1>6, <1>7, <1>8, <1>9, <1>10, <1>11, <1>12, <1>13, <1>14,
    <1>15, <1>16, <1>18 DEF Work, Either, Thread
<1>21. CASE Call
  BY <1>21, <1>1, <1>2, <1>3, <1>4, <1>5, <1>6, <1>7, <1>8, <1>9, <1>10, <1>11, <1>12, <1>13, <1>14,
    <1>15, <1>16, <1>18 DEF Call, Either, Thread
<1> QED BY <1>19, <1>20, <1>21, <1>17 DEF Next

LEMMA NextWay == ASSUME TypeInv, Sent, [Next]_vars PROVE WayType'
<1>0. /\ MaxSeq \in Nat /\ log \in Nat /\ sent \in Nat /\ sent <= log /\ noted \in Nat
           /\ queue \in Seq(Commands)
      /\ srvGone \in SUBSET Nat /\ srvRevoked \in SUBSET Nat /\ notes \in Seq(Notices) /\ conv \in Convs
      /\ local \in [Thread -> Locals] /\ Worker \in Thread
  BY SizeFacts DEF TypeInv, WayType, ServerType, TableType, MemoryType
<1>1. ASSUME NEW own \in BOOLEAN, Publish(own) PROVE WayType'
  BY <1>1, <1>0 DEF Publish, Quiet, WayType, wayVars, srvVars
<1>2. ASSUME DeliverMsgs PROVE WayType'
  <2> DEFINE c == [cmd |-> "msgs", batch |-> [from |-> sent + 1, to |-> log, gone |-> srvGone,
                                              rev |-> srvRevoked, count |-> 0]]
  <2>1. c \in Commands
    BY <1>0 DEF Commands, Bundles
  <2>2. queue' = Append(queue, c) /\ sent' = log /\ log' = log /\ noted' = noted
    BY <1>2 DEF DeliverMsgs, srvVars
  <2> HIDE DEF c
  <2> QED BY <1>0, <2>1, <2>2 DEF WayType
<1>3. ASSUME DeliverNote PROVE WayType'
  <2>1. notes[noted + 1] \in Notices
    BY <1>3, <1>0 DEF DeliverNote
  <2>2. [cmd |-> "note", note |-> notes[noted + 1]] \in Commands
    BY <2>1 DEF Commands
  <2> QED BY <1>3, <1>0, <2>2 DEF DeliverNote, WayType, srvVars
<1>4. ASSUME RequestSync PROVE WayType'
  <2>1. [cmd |-> "sync"] \in Commands
    BY DEF Commands
  <2> QED BY <1>4, <1>0, <2>1 DEF RequestSync, WayType, srvVars
<1>5. ASSUME NEW cmd, Take(cmd) PROVE WayType'
  <2>1. /\ queue' = Tail(queue) /\ Tail(queue) \in Seq(Commands)
        /\ UNCHANGED <<srvVars, sent, noted, single, serial, ops>>
    BY <1>5, <1>0, TakeFacts
  <2> QED BY <1>0, <2>1 DEF WayType, srvVars
<1>6. ASSUME DoMsgNew \/ SyncData \/ UpdateLatest \/ DoRevokeMsg \/ DoDeleteMsgs \/
         DoClearConversations \/ DoUnreadCount \/ DoReadDrawing
      PROVE  WayType'
  BY <1>5, <1>6 DEF DoMsgNew, SyncData, UpdateLatest, DoRevokeMsg, DoDeleteMsgs,
    DoClearConversations, DoUnreadCount, DoReadDrawing, DoNote, TakeNote
<1>7. ASSUME UpdateMessage PROVE WayType'
  <2>1. local[Worker].conv \in Convs
    BY <1>0 DEF Locals
  <2>2. [cmd |-> "latest", conv |-> local[Worker].conv] \in Commands
    BY <2>1 DEF Commands
  <2> QED BY <1>7, <1>0, <2>2 DEF UpdateMessage, WayType, srvVars
<1>8. ASSUME ClearedElsewhere
      PROVE  UNCHANGED wayVars /\ UNCHANGED log
  BY <1>8 DEF ClearedElsewhere, Event, Quiet, wayVars, srvVars
<1>9. ASSUME NEW n \in Seqs, RevokedElsewhere(n) \/ DeletedElsewhere(n) \/ ReadElsewhere(n) \/
         PeerReads(n)
      PROVE  UNCHANGED wayVars /\ UNCHANGED log
  BY <1>9 DEF RevokedElsewhere, DeletedElsewhere, ReadElsewhere, PeerReads, Event, Quiet,
    MarkOnServer, wayVars, srvVars
<1>10. ASSUME ReadConversation \/ InsertMessages \/ UpdateConversation \/ SyncAnswer \/ SyncUnread
         \/ SetUnreadCount
      PROVE  UNCHANGED wayVars /\ UNCHANGED log
  BY <1>10 DEF ReadConversation, InsertMessages, UpdateConversation, SyncAnswer, SyncUnread,
    SetUnreadCount, wayVars, srvVars
<1>11. ASSUME NEW t \in Thread, RevokeRow(t) \/ RevokeLatest(t) \/ DeleteRow(t) \/ DeleteCount(t) \/
         DeleteLatest(t) \/ WriteLatest(t) \/ ClearHasRead(t) \/ ClearRows(t) \/
         ClearConversation(t) \/ ReadLatest(t) \/ SetLatestRead(t)
      PROVE  UNCHANGED wayVars /\ UNCHANGED log
  BY <1>11 DEF RevokeRow, RevokeLatest, DeleteRow, DeleteCount, DeleteLatest, WriteLatest,
    ClearHasRead, ClearRows, ClearConversation, ReadLatest, SetLatestRead, Step, wayVars, srvVars
<1>12. ASSUME ClearMessages \/ MarkConversation \/ MarkRows \/ MarkCount \/ MarkRow \/ MarkDecr
      PROVE  UNCHANGED wayVars /\ UNCHANGED log
  BY <1>12 DEF ClearMessages, MarkConversation, MarkRows, MarkCount, MarkRow, MarkDecr, Start,
    MarkOnServer, Step, wayVars, srvVars
<1>13. ASSUME NEW n \in Seqs, RevokeMessage(n) \/ DeleteMessage(n) \/ MarkMessage(n)
      PROVE  UNCHANGED wayVars /\ UNCHANGED log
  BY <1>13 DEF RevokeMessage, DeleteMessage, MarkMessage, Start, MarkOnServer, wayVars, srvVars
<1>14. CASE UNCHANGED vars
  BY <1>14, <1>0 DEF vars, srvVars, wayVars, rowVars, memVars, scenVars, WayType
<1>15. ASSUME UNCHANGED wayVars /\ UNCHANGED log PROVE WayType'
  BY <1>15, <1>0 DEF wayVars, srvVars, WayType
<1>16. CASE World
  BY <1>16, <1>1, <1>2, <1>3, <1>4, <1>6, <1>7, <1>8, <1>9, <1>10, <1>11, <1>12, <1>13, <1>15 DEF
    World, Thread
<1>17. CASE Work
  BY <1>17, <1>1, <1>2, <1>3, <1>4, <1>6, <1>7, <1>8, <1>9, <1>10, <1>11, <1>12, <1>13, <1>15 DEF
    Work, Either, Thread
<1>18. CASE Call
  BY <1>18, <1>1, <1>2, <1>3, <1>4, <1>6, <1>7, <1>8, <1>9, <1>10, <1>11, <1>12, <1>13, <1>15 DEF
    Call, Either, Thread
<1> QED BY <1>16, <1>17, <1>18, <1>14 DEF Next

LEMMA LesserNat ==
  ASSUME NEW a \in Nat, NEW b \in Nat
  PROVE  Min({a, b}) \in Nat /\ Min({a, b}) <= a /\ Min({a, b}) <= b /\ (Min({a, b}) = a \/ Min({a, b}) = b)
  BY LesserOf

LEMMA LocalFacts ==
  ASSUME TypeInv
  PROVE  /\ \A t \in Thread : /\ local[t].n \in Nat /\ local[t].latest \in Latests
                              /\ local[t].batch \in Bundles
                              /\ local[t].conv \in Convs /\ local[t].row \in Row
         /\ \A c \in Convs : c.unread \in Nat /\ c.latest \in Latests /\ c.time \in Nat
         /\ \A l \in Latests : l.n \in Nat
         /\ \A b \in Bundles : b.from \in Nat /\ b.to \in Nat /\ b.count \in Nat
  BY DEF TypeInv, MemoryType, Locals, Convs, Latests, Bundles

LEMMA ConvTyped ==
  ASSUME NEW c \in Convs
  PROVE  /\ \A u \in Nat : [c EXCEPT !.unread = u] \in Convs
         /\ \A l \in Latests : [c EXCEPT !.latest = l] \in Convs
         /\ \A l \in Latests, m \in Nat : [c EXCEPT !.latest = l, !.time = m] \in Convs
         /\ \A u \in Nat, l \in Latests : [c EXCEPT !.unread = u, !.latest = l] \in Convs
         /\ \A u \in Nat, l \in Latests, m \in Nat : [unread |-> u, latest |-> l, time |-> m] \in Convs
         /\ Decreased(c.unread) \in Nat /\ Decreased(c.unread) <= c.unread
         /\ NoLatest \in Latests
<1>1. NoLatest \in Latests
  BY DEF NoLatest, Latests
<1>2. Decreased(c.unread) \in Nat /\ Decreased(c.unread) <= c.unread
  BY DEF Convs, Decreased
<1>3. /\ \A u \in Nat : [c EXCEPT !.unread = u] \in Convs
      /\ \A l \in Latests : [c EXCEPT !.latest = l] \in Convs
  BY DEF Convs
<1>4. \A l \in Latests, m \in Nat : [c EXCEPT !.latest = l, !.time = m] \in Convs
  BY DEF Convs
<1>5. \A u \in Nat, l \in Latests : [c EXCEPT !.unread = u, !.latest = l] \in Convs
  BY DEF Convs
<1>6. \A u \in Nat, l \in Latests, m \in Nat : [unread |-> u, latest |-> l, time |-> m] \in Convs
  BY DEF Convs
<1> QED BY <1>1, <1>2, <1>3, <1>4, <1>5, <1>6

LEMMA RowsTyped ==
  ASSUME rows \in [Seqs -> Row], NEW i
  PROVE  /\ [rows EXCEPT ![i].rev = TRUE] \in [Seqs -> Row]
         /\ [rows EXCEPT ![i].read = TRUE] \in [Seqs -> Row]
         /\ [rows EXCEPT ![i].st = "deleted"] \in [Seqs -> Row]
<1>1. \A r \in Row : /\ [r EXCEPT !.read = TRUE] \in Row /\ [r EXCEPT !.rev = TRUE] \in Row
                     /\ [r EXCEPT !.st = "deleted"] \in Row
  BY DEF Row
<1>2. \A r \in Row : [rows EXCEPT ![i] = r] \in [Seqs -> Row]
  OBVIOUS
<1>3. CASE i \in Seqs
  BY <1>1, <1>2, <1>3
<1>4. CASE i \notin Seqs
  BY <1>4
<1> QED BY <1>3, <1>4

LEMMA NextTable == ASSUME TypeInv, Sent, [Next]_vars PROVE TableType'
<1>0. /\ rows \in [Seqs -> Row] /\ conv \in Convs /\ recorder \in Nat /\ Worker \in Thread /\ App \in Thread
      /\ queue \in Seq(Commands) /\ NoLatest \in Latests /\ NoRow \in Row
  BY SizeFacts, IdleTyped DEF TypeInv, TableType, WayType
<1>a. \A r \in Row : /\ [r EXCEPT !.read = TRUE] \in Row /\ [r EXCEPT !.rev = TRUE] \in Row
                      /\ [r EXCEPT !.st = "deleted"] \in Row
  BY DEF Row
<1>1. ASSUME InsertMessages PROVE TableType'
  <2> DEFINE b == local[Worker].batch
  <2>1. \A n \in Seqs :
          [st |-> IF n \in b.gone THEN "deleted" ELSE "ok", rev |-> n \in b.rev, read |-> FALSE] \in Row
    BY DEF Row
  <2> QED BY <1>1, <1>0, <2>1 DEF InsertMessages, TableType
<1>2. ASSUME UpdateConversation PROVE TableType'
  <2> DEFINE b == local[Worker].batch
             n == Greatest((b.from..b.to) \ b.gone)
             old == local[Worker].conv
  <2>1. b \in Bundles /\ old \in Convs /\ b.from \in Nat /\ b.to \in Nat /\ b.count \in Nat
        /\ old.unread \in Nat /\ conv.latest \in Latests /\ conv.unread \in Nat /\ old.time \in Nat
        /\ old.latest \in Latests
    BY <1>0, LocalFacts
  <2>2. n \in Nat
    <3>1. (b.from..b.to) \ b.gone \in SUBSET (0..b.to)
      BY <2>1
    <3> QED BY <2>1, <3>1, HasGreatest
  <2>3. Diff(old, b) \in Convs
    <3>1. [n |-> n, rev |-> n \in b.rev] \in Latests
      BY <2>2 DEF Latests
    <3>2. old.unread + b.count \in Nat
      BY <2>1
    <3> HIDE DEF n
    <3>3. Diff(old, b) = IF n > old.time
                         THEN [unread |-> old.unread + b.count, latest |-> [n |-> n, rev |-> n \in b.rev],
                               time |-> n]
                         ELSE [old EXCEPT !.unread = old.unread + b.count]
      BY DEF Diff, n
    <3>4. /\ [unread |-> old.unread + b.count, latest |-> [n |-> n, rev |-> n \in b.rev], time |-> n] \in Convs
          /\ [old EXCEPT !.unread = old.unread + b.count] \in Convs
      BY <2>1, <2>2, <3>1, <3>2, ConvTyped
    <3> QED BY <3>3, <3>4
  <2> HIDE DEF n
  <2>4. conv' \in Convs
    <3> DEFINE c == Diff(old, b)
    <3>1. c \in Convs /\ c.unread \in Nat /\ c.latest \in Latests /\ c.time \in Nat
      BY <2>3, LocalFacts
    <3>2. conv' = IF (b.from..b.to) \subseteq b.gone THEN conv
               ELSE [unread |-> IF c.unread = 0 THEN conv.unread ELSE c.unread,
                     latest |-> IF c.latest = NoLatest THEN conv.latest ELSE c.latest,
                     time   |-> c.time]
      BY <1>2 DEF UpdateConversation
    <3> HIDE DEF c, b, old
    <3> QED BY <1>0, <2>1, <3>1, <3>2, ConvTyped
  <2> QED BY <1>2, <1>0, <2>4 DEF UpdateConversation, TableType
<1>3. ASSUME SyncUnread PROVE TableType'
  <2>1. recorder - local[Worker].n \in Nat
    BY <1>3, <1>0, LocalFacts DEF SyncUnread, TypeInv, MemoryType, SyncBelow
  <2>2. [conv EXCEPT !.unread = recorder - local[Worker].n] \in Convs
    BY <1>0, <2>1, ConvTyped
  <2> QED BY <1>3, <1>0, <2>2 DEF SyncUnread, TableType
<1>4. ASSUME UpdateLatest PROVE TableType'
  <2>1. Head(queue) \in Commands /\ Head(queue).cmd = "latest"
    BY <1>4, <1>0, TakeFacts DEF UpdateLatest
  <2>2. Head(queue).conv \in Convs
    BY <2>1, CommandFacts
  <2> DEFINE c == Head(queue).conv
  <2>3. [conv EXCEPT !.latest = c.latest, !.time = c.time] \in Convs
    BY <1>0, <2>2, ConvTyped, LocalFacts
  <2> QED BY <1>4, <1>0, <2>3 DEF UpdateLatest, TableType
<1>5. ASSUME DoUnreadCount PROVE TableType'
  <2>1. [conv EXCEPT !.unread = 0] \in Convs
    BY <1>0, ConvTyped
  <2>2. \A S : [n \in Seqs |-> [rows[n] EXCEPT !.read = @ \/ n \in S]] \in [Seqs -> Row]
    <3> TAKE S
    <3>1. \A n \in Seqs : [rows[n] EXCEPT !.read = @ \/ n \in S] \in Row
      BY <1>0 DEF Row
    <3> QED BY <3>1
  <2>3. rows' = rows \/ \E S : rows' = [n \in Seqs |-> [rows[n] EXCEPT !.read = @ \/ n \in S]]
    BY <1>5 DEF DoUnreadCount
  <2>4. conv' = conv \/ conv' = [conv EXCEPT !.unread = 0]
    BY <1>5 DEF DoUnreadCount
  <2> QED BY <1>0, <2>1, <2>2, <2>3, <2>4 DEF TableType
<1>6. ASSUME SetUnreadCount PROVE TableType'
  <2>1. local[Worker].n \in Nat
    BY <1>0, LocalFacts
  <2>2. Max({0, recorder - local[Worker].n}) \in Nat
    <3> DEFINE d == recorder - local[Worker].n
    <3>1. 0 \in Int /\ d \in Int
      BY <1>0, <2>1
    <3> HIDE DEF d
    <3>2. Max({0, d}) = IF 0 >= d THEN 0 ELSE d
      BY <3>1, GreaterOf
    <3>3. Max({0, d}) \in Nat
      BY <3>1, <3>2
    <3> QED BY <3>3 DEF d
  <2>3. [conv EXCEPT !.unread = Max({0, recorder - local[Worker].n})] \in Convs
    BY <1>0, <2>2, ConvTyped
  <2> QED BY <1>6, <1>0, <2>3 DEF SetUnreadCount, TableType
<1>7. ASSUME UpdateMessage PROVE TableType'
  <2>1. [local[Worker].row EXCEPT !.read = TRUE] \in Row
    BY <1>0, <1>a, LocalFacts
  <2> QED BY <1>7, <1>0, <2>1 DEF UpdateMessage, TableType
<1>8. ASSUME NEW t \in Thread, RevokeRow(t) PROVE TableType'
  <2>1. conv' = conv /\ (rows' = rows \/ rows' = [rows EXCEPT ![local[t].n].rev = TRUE])
    BY <1>8 DEF RevokeRow
  <2>2. [rows EXCEPT ![local[t].n].rev = TRUE] \in [Seqs -> Row]
    BY <1>0, RowsTyped
  <2> QED BY <1>0, <2>1, <2>2 DEF TableType
<1>9. ASSUME NEW t \in Thread, DeleteRow(t) PROVE TableType'
  <2>1. conv' = conv /\ (rows' = rows \/ rows' = [rows EXCEPT ![local[t].n].st = "deleted"])
    BY <1>9 DEF DeleteRow
  <2>2. [rows EXCEPT ![local[t].n].st = "deleted"] \in [Seqs -> Row]
    BY <1>0, RowsTyped
  <2> QED BY <1>0, <2>1, <2>2 DEF TableType
<1>10. ASSUME NEW t \in Thread, DeleteCount(t) PROVE TableType'
  BY <1>10, <1>0, <1>a, ConvTyped, RowsTyped DEF DeleteCount, Step, At, Goto, Done, GotoWith,
    TableType
<1>11. ASSUME NEW t \in Thread, WriteLatest(t) PROVE TableType'
  <2>1. local[t].latest \in Latests /\ local[t].n \in Nat /\ local[t].latest.n \in Nat
    BY LocalFacts
  <2>2. [conv EXCEPT !.latest = local[t].latest,
                     !.time = IF local[t].latest.n = 0 THEN local[t].n ELSE local[t].latest.n] \in Convs
    BY <1>0, <2>1, ConvTyped
  <2> QED BY <1>11, <1>0, <2>2 DEF WriteLatest, TableType
<1>12. ASSUME NEW t \in Thread, ClearRows(t) PROVE TableType'
  BY <1>12, <1>0, <1>a, ConvTyped, RowsTyped DEF ClearRows, Step, At, Goto, Done, GotoWith,
    TableType
<1>13. ASSUME NEW t \in Thread, ClearConversation(t) PROVE TableType'
  BY <1>13, <1>0, <1>a, ConvTyped, RowsTyped DEF ClearConversation, Step, At, Goto, Done, GotoWith,
    TableType
<1>14. ASSUME NEW t \in Thread, SetLatestRead(t) PROVE TableType'
  <2>1. local[t].latest \in Latests /\ local[t].latest.n \in Nat
    BY LocalFacts
  <2>2. [conv EXCEPT !.latest = local[t].latest, !.time = local[t].latest.n] \in Convs
    BY <1>0, <2>1, ConvTyped
  <2> QED BY <1>14, <1>0, <2>2 DEF SetLatestRead, TableType
<1>15. ASSUME MarkRows PROVE TableType'
  <2>1. \A n \in Seqs : [rows[n] EXCEPT !.read = TRUE] \in Row
    BY <1>0, <1>a
  <2> QED BY <1>15, <1>0, <2>1 DEF MarkRows, TableType
<1>16. ASSUME MarkCount PROVE TableType'
  BY <1>16, <1>0, <1>a, ConvTyped, RowsTyped DEF MarkCount, Step, At, Goto, Done, TableType
<1>17. ASSUME MarkRow PROVE TableType'
  <2>1. conv' = conv /\ (rows' = rows \/ rows' = [rows EXCEPT ![local[App].n].read = TRUE])
    BY <1>17 DEF MarkRow
  <2>2. [rows EXCEPT ![local[App].n].read = TRUE] \in [Seqs -> Row]
    BY <1>0, RowsTyped
  <2> QED BY <1>0, <2>1, <2>2 DEF TableType
<1>18. ASSUME MarkDecr PROVE TableType'
  BY <1>18, <1>0, <1>a, ConvTyped, RowsTyped DEF MarkDecr, Step, At, Goto, Done, TableType
<1>19. ASSUME ClearedElsewhere \/ DeliverMsgs \/ DeliverNote \/ RequestSync
      PROVE  UNCHANGED rowVars
  BY <1>19 DEF ClearedElsewhere, DeliverMsgs, DeliverNote, RequestSync, Event, Quiet, rowVars
<1>20. ASSUME NEW own \in BOOLEAN, Publish(own)
      PROVE  UNCHANGED rowVars
  BY <1>20 DEF Publish, Quiet, rowVars
<1>21. ASSUME NEW n \in Seqs, RevokedElsewhere(n) \/ DeletedElsewhere(n) \/ ReadElsewhere(n) \/
         PeerReads(n)
      PROVE  UNCHANGED rowVars
  BY <1>21 DEF RevokedElsewhere, DeletedElsewhere, ReadElsewhere, PeerReads, Event, Quiet,
    MarkOnServer, rowVars
<1>22. ASSUME DoMsgNew \/ ReadConversation \/ SyncData \/ SyncAnswer \/ DoRevokeMsg \/ DoDeleteMsgs
         \/ DoClearConversations \/ DoReadDrawing
      PROVE  UNCHANGED rowVars
  BY <1>22 DEF DoMsgNew, ReadConversation, SyncData, SyncAnswer, DoRevokeMsg, DoDeleteMsgs,
    DoClearConversations, DoReadDrawing, Take, DoNote, TakeNote, rowVars
<1>23. ASSUME NEW t \in Thread, RevokeLatest(t) \/ DeleteLatest(t) \/ ClearHasRead(t) \/
         ReadLatest(t)
      PROVE  UNCHANGED rowVars
  BY <1>23 DEF RevokeLatest, DeleteLatest, ClearHasRead, ReadLatest, Step, rowVars
<1>24. ASSUME ClearMessages \/ MarkConversation
      PROVE  UNCHANGED rowVars
  BY <1>24 DEF ClearMessages, MarkConversation, Start, MarkOnServer, rowVars
<1>25. ASSUME NEW n \in Seqs, RevokeMessage(n) \/ DeleteMessage(n) \/ MarkMessage(n)
      PROVE  UNCHANGED rowVars
  BY <1>25 DEF RevokeMessage, DeleteMessage, MarkMessage, Start, MarkOnServer, rowVars
<1>26. CASE UNCHANGED vars
  BY <1>26, <1>0 DEF vars, srvVars, wayVars, rowVars, memVars, scenVars, TableType
<1>27. ASSUME UNCHANGED rowVars PROVE TableType'
  BY <1>27, <1>0 DEF rowVars, TableType
<1>28. CASE World
  BY <1>28, <1>1, <1>2, <1>3, <1>4, <1>5, <1>6, <1>7, <1>8, <1>9, <1>10, <1>11, <1>12, <1>13, <1>14,
    <1>15, <1>16, <1>17, <1>18, <1>19, <1>20, <1>21, <1>22, <1>23, <1>24, <1>25, <1>27 DEF World,
    Thread
<1>29. CASE Work
  BY <1>29, <1>1, <1>2, <1>3, <1>4, <1>5, <1>6, <1>7, <1>8, <1>9, <1>10, <1>11, <1>12, <1>13, <1>14,
    <1>15, <1>16, <1>17, <1>18, <1>19, <1>20, <1>21, <1>22, <1>23, <1>24, <1>25, <1>27 DEF Work,
    Either, Thread
<1>30. CASE Call
  BY <1>30, <1>1, <1>2, <1>3, <1>4, <1>5, <1>6, <1>7, <1>8, <1>9, <1>10, <1>11, <1>12, <1>13, <1>14,
    <1>15, <1>16, <1>17, <1>18, <1>19, <1>20, <1>21, <1>22, <1>23, <1>24, <1>25, <1>27 DEF Call,
    Either, Thread
<1> QED BY <1>28, <1>29, <1>30, <1>26 DEF Next

LocalsType == local \in [Thread -> Locals]

(* A goroutine writes its local variables, the other one's stay. *)
LEMMA MoveTyped ==
  ASSUME LocalsType, NEW t \in Thread
  PROVE  /\ Done(t) => LocalsType'
         /\ \A p \in Places : Goto(t, p) => LocalsType'
         /\ \A p \in Places, l \in Latests : GotoWith(t, p, l) => LocalsType'
         /\ \A l \in Locals : [local EXCEPT ![t] = l] \in [Thread -> Locals]
         /\ local[t] \in Locals
<1>1. local \in [Thread -> Locals] /\ local[t] \in Locals
  BY DEF LocalsType
<1>2. \A l \in Locals : [local EXCEPT ![t] = l] \in [Thread -> Locals]
  BY <1>1
<1>3. Done(t) => LocalsType'
  BY <1>2, IdleTyped DEF Done, LocalsType
<1>4. ASSUME NEW p \in Places, Goto(t, p) PROVE LocalsType'
  <2>1. [local[t] EXCEPT !.pc = p] \in Locals
    BY <1>1 DEF Locals
  <2>2. local' = [local EXCEPT ![t] = [local[t] EXCEPT !.pc = p]]
    BY <1>1, <1>4 DEF Goto
  <2> QED BY <1>2, <2>1, <2>2 DEF LocalsType
<1>5. ASSUME NEW p \in Places, NEW l \in Latests, GotoWith(t, p, l) PROVE LocalsType'
  <2>1. [local[t] EXCEPT !.pc = p, !.latest = l] \in Locals
    BY <1>1 DEF Locals
  <2>2. local' = [local EXCEPT ![t] = [local[t] EXCEPT !.pc = p, !.latest = l]]
    BY <1>1, <1>5 DEF GotoWith
  <2> QED BY <1>2, <2>1, <2>2 DEF LocalsType
<1> QED BY <1>1, <1>2, <1>3, <1>4, <1>5

LEMMA NextLocals == ASSUME TypeInv, Sent, InOrder, [Next]_vars PROVE LocalsType'
<1>0. /\ rows \in [Seqs -> Row] /\ conv \in Convs /\ recorder \in Nat /\ Worker \in Thread /\ App \in Thread
      /\ queue \in Seq(Commands) /\ LocalsType /\ srvRead \in Nat /\ LocalMax \in Nat /\ MaxSeq \in Nat
      /\ conv.latest \in Latests
  BY SizeFacts, LocalFacts DEF TypeInv, TableType, WayType, MemoryType, LocalsType
<1>a. local \in [Thread -> Locals] /\ local[Worker] \in Locals /\ local[App] \in Locals
  BY <1>0 DEF LocalsType
<1>b. {"lock", "insert", "syncLock", "sync", "revoke", "delete", "clear", "receipt", "count", "revokeLatest",
       "deleteCount", "deleteLatest", "clearRows", "clearConv", "latest", "writeLatest", "latestRead",
       "update", "markRows", "markCount", "markRow", "markDecr"} \subseteq Places
  BY DEF Places
<1>s. ASSUME NEW kind, NEW n \in Nat, NEW p \in Places, NEW top \in BOOLEAN, Start(kind, n, p, top)
               PROVE LocalsType'
  <2>1. [local[App] EXCEPT !.pc = p, !.n = n, !.top = top] \in Locals
    BY <1>a DEF Locals
  <2>2. local' = [local EXCEPT ![App] = [local[App] EXCEPT !.pc = p, !.n = n, !.top = top]]
    BY <1>s, <1>a DEF Start
  <2> QED BY <1>0, <2>1, <2>2, MoveTyped DEF LocalsType
<1>1. ASSUME DoMsgNew PROVE LocalsType'
  <2> DEFINE b == Head(queue).batch
  <2>1. b \in Bundles /\ b.from \in Nat \ {0} /\ b.to \in Nat /\ b.from <= b.to
    <3>1. Head(queue) \in Commands /\ Head(queue).cmd = "msgs" /\ Head(queue) = queue[1]
            /\ 1 \in 1..Len(queue)
      BY <1>1, <1>0, TakeFacts DEF DoMsgNew
    <3>2. b \in Bundles
      BY <3>1, CommandFacts
    <3> QED BY <3>1, <3>2, LocalFacts DEF InOrder, Batches
  <2>2. Counted(b) \in Nat
    BY <1>0, <2>1, CountedFacts
  <2>3. [b EXCEPT !.count = Counted(b)] \in Bundles
    BY <2>1, <2>2 DEF Bundles
  <2>4. local' = [local EXCEPT ![Worker] = [local[Worker] EXCEPT !.pc = "lock",
                                                                 !.batch = [b EXCEPT !.count = Counted(b)]]]
    BY <1>1, <1>a DEF DoMsgNew
  <2> HIDE DEF b
  <2>5. [local[Worker] EXCEPT !.pc = "lock", !.batch = [b EXCEPT !.count = Counted(b)]] \in Locals
    BY <1>a, <1>b, <2>3 DEF Locals
  <2> QED BY <1>0, <2>4, <2>5, MoveTyped DEF LocalsType
<1>2. ASSUME ReadConversation PROVE LocalsType'
  <2>1. conv \in Convs
    BY <1>0
  <2>2. [local[Worker] EXCEPT !.pc = "insert", !.conv = conv] \in Locals
    BY <1>a, <1>b, <2>1 DEF Locals
  <2>3. local' = [local EXCEPT ![Worker] = [local[Worker] EXCEPT !.pc = "insert", !.conv = conv]]
    BY <1>2, <1>a DEF ReadConversation
  <2> QED BY <1>0, <2>2, <2>3, MoveTyped DEF LocalsType
<1>3. ASSUME InsertMessages PROVE LocalsType'
  BY <1>3, <1>0, <1>b, MoveTyped DEF InsertMessages
<1>4. ASSUME UpdateConversation PROVE LocalsType'
  BY <1>4, <1>0, <1>b, MoveTyped DEF UpdateConversation
<1>5. ASSUME SyncData PROVE LocalsType'
  BY <1>5, <1>0, <1>b, MoveTyped DEF SyncData
<1>6. ASSUME SyncAnswer PROVE LocalsType'
  <2>1. srvRead \in Nat /\ conv \in Convs
    BY <1>0
  <2>2. [local[Worker] EXCEPT !.pc = "sync", !.n = srvRead, !.conv = conv] \in Locals
    BY <1>a, <1>b, <2>1 DEF Locals
  <2>3. local' = [local EXCEPT ![Worker] = [local[Worker] EXCEPT !.pc = "sync", !.n = srvRead, !.conv = conv]]
    BY <1>6, <1>a DEF SyncAnswer
  <2> QED BY <1>0, <2>2, <2>3, MoveTyped DEF LocalsType
<1>7. ASSUME SyncUnread PROVE LocalsType'
  BY <1>7, <1>0, <1>b, MoveTyped DEF SyncUnread
<1>8. ASSUME DoRevokeMsg PROVE LocalsType'
  <2>n. Head(queue).note \in Notices
    BY <1>8, <1>0, TakeFacts, CommandFacts DEF DoRevokeMsg, DoNote, TakeNote
  <2>1. Head(queue).note.n \in Nat
    BY <2>n DEF Notices
  <2>2. [local[Worker] EXCEPT !.pc = "revoke", !.n = Head(queue).note.n] \in Locals
    BY <1>a, <1>b, <2>1 DEF Locals
  <2>3. local' = [local EXCEPT ![Worker] = [local[Worker] EXCEPT !.pc = "revoke", !.n = Head(queue).note.n]]
    BY <1>8, <1>a DEF DoRevokeMsg, DoNote
  <2> QED BY <1>0, <2>2, <2>3, MoveTyped DEF LocalsType
<1>9. ASSUME DoDeleteMsgs PROVE LocalsType'
  <2>n. Head(queue).note \in Notices
    BY <1>9, <1>0, TakeFacts, CommandFacts DEF DoDeleteMsgs, DoNote, TakeNote
  <2>1. Head(queue).note.n \in Nat
    BY <2>n DEF Notices
  <2>2. [local[Worker] EXCEPT !.pc = "delete", !.n = Head(queue).note.n] \in Locals
    BY <1>a, <1>b, <2>1 DEF Locals
  <2>3. local' = [local EXCEPT ![Worker] = [local[Worker] EXCEPT !.pc = "delete", !.n = Head(queue).note.n]]
    BY <1>9, <1>a DEF DoDeleteMsgs, DoNote
  <2> QED BY <1>0, <2>2, <2>3, MoveTyped DEF LocalsType
<1>10. ASSUME DoClearConversations PROVE LocalsType'
  <2>n. Head(queue).note \in Notices
    BY <1>10, <1>0, TakeFacts, CommandFacts DEF DoClearConversations, DoNote, TakeNote
  <2>1. Head(queue).note.n \in Nat
    BY <2>n DEF Notices
  <2>2. [local[Worker] EXCEPT !.pc = "clear", !.n = Head(queue).note.n] \in Locals
    BY <1>a, <1>b, <2>1 DEF Locals
  <2>3. local' = [local EXCEPT ![Worker] = [local[Worker] EXCEPT !.pc = "clear", !.n = Head(queue).note.n]]
    BY <1>10, <1>a DEF DoClearConversations, DoNote
  <2> QED BY <1>0, <2>2, <2>3, MoveTyped DEF LocalsType
<1>11. ASSUME DoUnreadCount PROVE LocalsType'
  <2>1. Head(queue).note \in Notices
    BY <1>11, <1>0, TakeFacts, CommandFacts DEF DoUnreadCount, TakeNote
  <2> DEFINE b == conv.latest.n \in Head(queue).note.seqs
  <2>2. b \in BOOLEAN
    OBVIOUS
  <2>3. \/ local' = local
        \/ local' = [local EXCEPT ![Worker] = [local[Worker] EXCEPT !.pc = "count",
                       !.n = Head(queue).note.n, !.top = b]]
    BY <1>11, <1>a DEF DoUnreadCount
  <2> HIDE DEF b
  <2>4. [local[Worker] EXCEPT !.pc = "count", !.n = Head(queue).note.n, !.top = b] \in Locals
    BY <1>a, <1>b, <2>1, <2>2 DEF Locals, Notices
  <2> QED BY <1>0, <2>2, <2>3, <2>4, MoveTyped DEF LocalsType
<1>12. ASSUME SetUnreadCount PROVE LocalsType'
  BY <1>12, <1>0, <1>b, MoveTyped DEF SetUnreadCount
<1>13. ASSUME DoReadDrawing PROVE LocalsType'
  <2> DEFINE n == Head(queue).note.n
  <2>1. n \in Nat
    BY <1>13, <1>0, TakeFacts, CommandFacts DEF DoReadDrawing, TakeNote, Notices
  <2>2. \/ local' = local
        \/ local' = [local EXCEPT ![Worker] = [local[Worker] EXCEPT !.pc = "receipt", !.n = n,
                                                 !.row = rows[n], !.conv = conv]]
    BY <1>13, <1>a DEF DoReadDrawing
  <2>3. CASE n \in Seqs
    <3>1. rows[n] \in Row
      BY <1>0, <2>3
    <3> HIDE DEF n
    <3>2. [local[Worker] EXCEPT !.pc = "receipt", !.n = n, !.row = rows[n], !.conv = conv] \in Locals
      BY <1>0, <1>a, <1>b, <2>1, <3>1 DEF Locals
    <3> QED BY <1>0, <2>2, <3>2, MoveTyped DEF LocalsType
  <2>4. n \in Seqs
    BY <1>13, <1>0, TakeFacts, CommandFacts DEF DoReadDrawing, TakeNote, Notices
  <2> QED BY <2>3, <2>4
<1>14. ASSUME UpdateMessage PROVE LocalsType'
  BY <1>14, <1>0, <1>b, MoveTyped DEF UpdateMessage
<1>15. ASSUME NEW t \in Thread, RevokeRow(t) PROVE LocalsType'
  BY <1>15, <1>0, <1>b, MoveTyped DEF RevokeRow
<1>16. ASSUME NEW t \in Thread, RevokeLatest(t) PROVE LocalsType'
  <2>1. LocalMax # 0 => LatestOf(LocalMax) \in Latests
    <3>1. LocalMax # 0 => LocalMax \in Seqs
      BY SizeFacts, RowFacts, <1>0 DEF Sent, TypeInv, TableType
    <3> QED BY <1>0, <3>1, LatestTyped
  <2>2. Done(t) \/ (LocalMax # 0 /\ GotoWith(t, "writeLatest", LatestOf(LocalMax)))
    BY <1>16 DEF RevokeLatest
  <2> QED BY <1>0, <1>b, <2>1, <2>2, MoveTyped
<1>17. ASSUME NEW t \in Thread, DeleteRow(t) PROVE LocalsType'
  BY <1>17, <1>0, <1>b, MoveTyped DEF DeleteRow
<1>18. ASSUME NEW t \in Thread, DeleteCount(t) PROVE LocalsType'
  BY <1>18, <1>0, <1>b, MoveTyped DEF DeleteCount
<1>19. ASSUME NEW t \in Thread, DeleteLatest(t) PROVE LocalsType'
  <2>1. LatestOf(Greatest(Active)) \in Latests
    <3>1. Greatest(Active) \in Nat /\ (Greatest(Active) # 0 => Greatest(Active) \in Seqs)
      BY SizeFacts, RowFacts, <1>0 DEF Sent, TypeInv, TableType
    <3> QED BY <1>0, <3>1, LatestTyped
  <2>2. Done(t) \/ GotoWith(t, "writeLatest", LatestOf(Greatest(Active)))
    BY <1>19 DEF DeleteLatest
  <2> QED BY <1>0, <1>b, <2>1, <2>2, MoveTyped
<1>20. ASSUME NEW t \in Thread, WriteLatest(t) PROVE LocalsType'
  BY <1>20, <1>0, <1>b, MoveTyped DEF WriteLatest
<1>21. ASSUME NEW t \in Thread, ClearHasRead(t) PROVE LocalsType'
  <2>1. LocalMax \in Nat
    BY <1>0
  <2>2. [local[t] EXCEPT !.pc = "clearRows", !.n = LocalMax] \in Locals
    BY <1>0, <1>b, <2>1, MoveTyped DEF Locals
  <2>3. local' = [local EXCEPT ![t] = [local[t] EXCEPT !.pc = "clearRows", !.n = LocalMax]]
    BY <1>21, <1>0, MoveTyped DEF ClearHasRead
  <2> QED BY <1>0, <2>2, <2>3, MoveTyped DEF LocalsType
<1>22. ASSUME NEW t \in Thread, ClearRows(t) PROVE LocalsType'
  BY <1>22, <1>0, <1>b, MoveTyped DEF ClearRows
<1>23. ASSUME NEW t \in Thread, ClearConversation(t) PROVE LocalsType'
  BY <1>23, <1>0, <1>b, MoveTyped DEF ClearConversation
<1>24. ASSUME NEW t \in Thread, ReadLatest(t) PROVE LocalsType'
  BY <1>24, <1>0, <1>b, MoveTyped DEF ReadLatest
<1>25. ASSUME NEW t \in Thread, SetLatestRead(t) PROVE LocalsType'
  BY <1>25, <1>0, <1>b, MoveTyped DEF SetLatestRead
<1>26. ASSUME NEW n \in Seqs, RevokeMessage(n) PROVE LocalsType'
  <2>1. Start("revoke", n, "revoke", FALSE)
    BY <1>26 DEF RevokeMessage
  <2>2. n \in Nat
    BY DEF Seqs
  <2> QED BY <1>0, <1>b, <1>s, <2>1, <2>2
<1>27. ASSUME NEW n \in Seqs, DeleteMessage(n) PROVE LocalsType'
  <2>1. Start("delete", n, "delete", FALSE)
    BY <1>27 DEF DeleteMessage
  <2>2. n \in Nat
    BY DEF Seqs
  <2> QED BY <1>0, <1>b, <1>s, <2>1, <2>2
<1>28. ASSUME NEW n \in Seqs, MarkMessage(n) PROVE LocalsType'
  <2>1. Start("markMessage", n, "markRow", n = LocalMax)
    BY <1>28 DEF MarkMessage
  <2>2. n \in Nat /\ (n = LocalMax) \in BOOLEAN
    BY DEF Seqs
  <2> QED BY <1>0, <1>b, <1>s, <2>1, <2>2
<1>29. ASSUME ClearMessages PROVE LocalsType'
  <2>1. Start("clear", 0, "clear", FALSE)
    BY <1>29 DEF ClearMessages
  <2> QED BY <1>0, <1>b, <1>s, <2>1
<1>30. ASSUME MarkConversation PROVE LocalsType'
  <2>1. PICK p \in Places : p = IF single THEN "markRows" ELSE "markCount"
    BY <1>b
  <2>2. PICK b \in BOOLEAN : b = (LocalMax \notin mine)
    OBVIOUS
  <2>3. Start("markConversation", LocalMax, p, b)
    BY <1>30, <2>1, <2>2 DEF MarkConversation
  <2> QED BY <1>0, <1>s, <2>3
<1>31. ASSUME MarkRows PROVE LocalsType'
  BY <1>31, <1>0, <1>b, MoveTyped DEF MarkRows
<1>32. ASSUME MarkCount PROVE LocalsType'
  BY <1>32, <1>0, <1>b, MoveTyped DEF MarkCount
<1>33. ASSUME MarkRow PROVE LocalsType'
  BY <1>33, <1>0, <1>b, MoveTyped DEF MarkRow
<1>34. ASSUME MarkDecr PROVE LocalsType'
  BY <1>34, <1>0, <1>b, MoveTyped DEF MarkDecr
<1>35. ASSUME ClearedElsewhere \/ DeliverMsgs \/ DeliverNote \/ RequestSync
      PROVE  UNCHANGED local
  BY <1>35 DEF ClearedElsewhere, DeliverMsgs, DeliverNote, RequestSync, Event, Quiet
<1>36. ASSUME NEW own \in BOOLEAN, Publish(own)
      PROVE  UNCHANGED local
  BY <1>36 DEF Publish, Quiet
<1>37. ASSUME NEW n \in Seqs, RevokedElsewhere(n) \/ DeletedElsewhere(n) \/ ReadElsewhere(n) \/
         PeerReads(n)
      PROVE  UNCHANGED local
  BY <1>37 DEF RevokedElsewhere, DeletedElsewhere, ReadElsewhere, PeerReads, Event, Quiet,
    MarkOnServer
<1>38. ASSUME UpdateLatest
      PROVE  UNCHANGED local
  BY <1>38 DEF UpdateLatest, Take
<1>39. CASE UNCHANGED vars
  BY <1>39, <1>0 DEF vars, srvVars, wayVars, rowVars, memVars, scenVars, LocalsType
<1>40. ASSUME UNCHANGED local PROVE LocalsType'
  BY <1>40, <1>0 DEF LocalsType
<1>41. CASE World
  BY <1>41, <1>1, <1>2, <1>3, <1>4, <1>5, <1>6, <1>7, <1>8, <1>9, <1>10, <1>11, <1>12, <1>13, <1>14,
    <1>15, <1>16, <1>17, <1>18, <1>19, <1>20, <1>21, <1>22, <1>23, <1>24, <1>25, <1>26, <1>27,
    <1>28, <1>29, <1>30, <1>31, <1>32, <1>33, <1>34, <1>35, <1>36, <1>37, <1>38, <1>40 DEF World,
    Thread
<1>42. CASE Work
  BY <1>42, <1>1, <1>2, <1>3, <1>4, <1>5, <1>6, <1>7, <1>8, <1>9, <1>10, <1>11, <1>12, <1>13, <1>14,
    <1>15, <1>16, <1>17, <1>18, <1>19, <1>20, <1>21, <1>22, <1>23, <1>24, <1>25, <1>26, <1>27,
    <1>28, <1>29, <1>30, <1>31, <1>32, <1>33, <1>34, <1>35, <1>36, <1>37, <1>38, <1>40 DEF Work,
    Either, Thread
<1>43. CASE Call
  BY <1>43, <1>1, <1>2, <1>3, <1>4, <1>5, <1>6, <1>7, <1>8, <1>9, <1>10, <1>11, <1>12, <1>13, <1>14,
    <1>15, <1>16, <1>17, <1>18, <1>19, <1>20, <1>21, <1>22, <1>23, <1>24, <1>25, <1>26, <1>27,
    <1>28, <1>29, <1>30, <1>31, <1>32, <1>33, <1>34, <1>35, <1>36, <1>37, <1>38, <1>40 DEF Call,
    Either, Thread
<1> QED BY <1>41, <1>42, <1>43, <1>39 DEF Next

-----------------------------------------------------------------------------
(* What each action does to the goroutines, the count, the recorder and the queue *)

(* The others go on as they are; t ends; t goes to another place, and perhaps with a latest message. *)
Still(t) == \A s \in Thread : s # t => local'[s] = local[s]
Keeps(t) ==
  /\ Still(t) /\ local'[t].n = local[t].n /\ local'[t].batch = local[t].batch
  /\ local'[t].conv = local[t].conv /\ local'[t].row = local[t].row /\ local'[t].top = local[t].top
Ends(t) == local'[t] = Idle /\ Still(t)
Goes(t, p) == Keeps(t) /\ local'[t].pc = p /\ local'[t].latest = local[t].latest
GoesWith(t, p, l) == Keeps(t) /\ local'[t].pc = p /\ local'[t].latest = l

LEMMA MoveFacts ==
  ASSUME LocalsType, NEW t \in Thread
  PROVE  /\ Done(t) => Ends(t)
         /\ \A p : Goto(t, p) => Goes(t, p)
         /\ \A p, l : GotoWith(t, p, l) => GoesWith(t, p, l)
<1>1. local \in [Thread -> Locals] /\ local[t] \in Locals
  BY DEF LocalsType
<1>2. Done(t) => Ends(t)
  BY <1>1 DEF Done, Ends, Still
<1>3. ASSUME NEW p, Goto(t, p) PROVE Goes(t, p)
  BY <1>1, <1>3 DEF Goto, Locals, Goes, Keeps, Still
<1>4. ASSUME NEW p, NEW l, GotoWith(t, p, l) PROVE GoesWith(t, p, l)
  BY <1>1, <1>4 DEF GotoWith, Locals, GoesWith, Keeps, Still
<1> QED BY <1>2, <1>3, <1>4

(* A call begins: the application's goroutine has its place, and the worker goes on. *)
LEMMA StartFacts ==
  ASSUME LocalsType, NEW kind, NEW n, NEW p, NEW top, Start(kind, n, p, top)
  PROVE  /\ local'[App].pc = p /\ local'[App].n = n /\ local'[App].top = top
         /\ local'[Worker] = local[Worker] /\ local[App].pc = "idle"
         /\ (serial => local[Worker].pc = "idle")
         /\ UNCHANGED <<wayVars, rowVars, recorder, single, serial, base>>
  BY DEF Start, LocalsType, Locals, Thread, App, Worker, At

LEMMA InsertMessagesDoes ==
  ASSUME LocalsType, InsertMessages
  PROVE  /\ UNCHANGED <<srvVars, wayVars, conv, memVars, scenVars>>
         /\ local[Worker].pc = "insert" /\ Goes(Worker, "update")
         /\ LET b == local[Worker].batch IN
              rows' = [n \in Seqs |->
                IF n \in Fresh(b)
                THEN [st |-> IF n \in b.gone THEN "deleted" ELSE "ok", rev |-> n \in b.rev, read |-> FALSE]
                ELSE rows[n]]
<1>1. /\ UNCHANGED <<srvVars, wayVars, conv, memVars, scenVars>>
      /\ local[Worker].pc = "insert" /\ Goto(Worker, "update")
      /\ LET b == local[Worker].batch IN
           rows' = [n \in Seqs |->
             IF n \in Fresh(b)
             THEN [st |-> IF n \in b.gone THEN "deleted" ELSE "ok", rev |-> n \in b.rev, read |-> FALSE]
             ELSE rows[n]]
  BY DEF InsertMessages, At, memVars, rowVars, srvVars, wayVars, scenVars
<1>2. Worker \in Thread /\ App \in Thread
  BY DEF Thread
<1> QED BY <1>1, <1>2, MoveFacts

LEMMA UpdateConversationDoes ==
  ASSUME LocalsType, UpdateConversation
  PROVE  /\ UNCHANGED <<srvVars, wayVars, rows, recorder, scenVars>>
         /\ local[Worker].pc = "update" /\ Ends(Worker) /\ mutex' = "free"
         /\ LET b == local[Worker].batch
                c == Diff(local[Worker].conv, b) IN
              conv' = IF (b.from..b.to) \subseteq b.gone THEN conv
                      ELSE [unread |-> IF c.unread = 0 THEN conv.unread ELSE c.unread,
                            latest |-> IF c.latest = NoLatest THEN conv.latest ELSE c.latest,
                            time   |-> c.time]
<1>1. /\ UNCHANGED <<srvVars, wayVars, rows, recorder, scenVars>>
      /\ local[Worker].pc = "update" /\ Done(Worker) /\ mutex' = "free"
      /\ LET b == local[Worker].batch
             c == Diff(local[Worker].conv, b) IN
           conv' = IF (b.from..b.to) \subseteq b.gone THEN conv
                   ELSE [unread |-> IF c.unread = 0 THEN conv.unread ELSE c.unread,
                         latest |-> IF c.latest = NoLatest THEN conv.latest ELSE c.latest,
                         time   |-> c.time]
  BY DEF UpdateConversation, At, memVars, rowVars, srvVars, wayVars, scenVars
<1>2. Worker \in Thread /\ App \in Thread
  BY DEF Thread
<1> QED BY <1>1, <1>2, MoveFacts

LEMMA SyncUnreadDoes ==
  ASSUME LocalsType, SyncUnread
  PROVE  /\ UNCHANGED <<srvVars, wayVars, rows, recorder, single, serial>>
         /\ local[Worker].pc = "sync" /\ Ends(Worker) /\ mutex' = "free"
         /\ conv' = IF local[Worker].conv.unread = recorder - local[Worker].n THEN conv
                    ELSE [conv EXCEPT !.unread = recorder - local[Worker].n]
         /\ base' = local[Worker].n
<1>1. /\ UNCHANGED <<srvVars, wayVars, rows, recorder, single, serial>>
      /\ local[Worker].pc = "sync" /\ Done(Worker) /\ mutex' = "free"
      /\ conv' = IF local[Worker].conv.unread = recorder - local[Worker].n THEN conv
                 ELSE [conv EXCEPT !.unread = recorder - local[Worker].n]
      /\ base' = local[Worker].n
  BY DEF SyncUnread, At, memVars, rowVars, srvVars, wayVars, scenVars
<1>2. Worker \in Thread /\ App \in Thread
  BY DEF Thread
<1> QED BY <1>1, <1>2, MoveFacts

LEMMA SetUnreadCountDoes ==
  ASSUME LocalsType, SetUnreadCount
  PROVE  /\ UNCHANGED <<srvVars, wayVars, rows, memVars, single, serial>>
         /\ local[Worker].pc = "count"
         /\ \/ recorder = 0 /\ Ends(Worker) /\ conv' = conv /\ base' = base
            \/ /\ conv' = [conv EXCEPT !.unread = Max({0, recorder - local[Worker].n})]
               /\ base' = Min({local[Worker].n, recorder}) /\ (Goes(Worker, "latest") \/ Ends(Worker))
<1>1. /\ UNCHANGED <<srvVars, wayVars, rows, memVars, single, serial>>
      /\ local[Worker].pc = "count"
      /\ \/ recorder = 0 /\ Done(Worker) /\ conv' = conv /\ base' = base
         \/ /\ conv' = [conv EXCEPT !.unread = Max({0, recorder - local[Worker].n})]
            /\ base' = Min({local[Worker].n, recorder}) /\ (Goto(Worker, "latest") \/ Done(Worker))
  BY DEF SetUnreadCount, At, memVars, rowVars, srvVars, wayVars, scenVars
<1>2. Worker \in Thread /\ App \in Thread
  BY DEF Thread
<1> QED BY <1>1, <1>2, MoveFacts

LEMMA UpdateMessageDoes ==
  ASSUME LocalsType, UpdateMessage
  PROVE  /\ UNCHANGED <<srvVars, sent, noted, conv, memVars, scenVars>>
         /\ local[Worker].pc = "receipt" /\ Ends(Worker)
         /\ \/ rows[local[Worker].n].st = "none" /\ rows' = rows /\ queue' = queue
            \/ /\ rows[local[Worker].n].st # "none"
               /\ rows' = [rows EXCEPT ![local[Worker].n] = [local[Worker].row EXCEPT !.read = TRUE]]
               /\ queue' = queue \/ queue' = Append(queue, [cmd |-> "latest", conv |-> local[Worker].conv])
<1>1. /\ UNCHANGED <<srvVars, sent, noted, conv, memVars, scenVars>>
      /\ local[Worker].pc = "receipt" /\ Done(Worker)
      /\ \/ rows[local[Worker].n].st = "none" /\ rows' = rows /\ queue' = queue
         \/ /\ rows[local[Worker].n].st # "none"
            /\ rows' = [rows EXCEPT ![local[Worker].n] = [local[Worker].row EXCEPT !.read = TRUE]]
            /\ queue' = queue \/ queue' = Append(queue, [cmd |-> "latest", conv |-> local[Worker].conv])
  BY DEF UpdateMessage, At, memVars, rowVars, srvVars, wayVars, scenVars
<1>2. Worker \in Thread /\ App \in Thread
  BY DEF Thread
<1> QED BY <1>1, <1>2, MoveFacts

LEMMA RevokeRowDoes ==
  ASSUME LocalsType, NEW t \in Thread, RevokeRow(t)
  PROVE  /\ UNCHANGED <<srvVars, wayVars, conv, memVars, single, serial, base>>
         /\ local[t].pc = "revoke"
         /\ \/ rows[local[t].n].st = "none" /\ Ends(t) /\ rows' = rows
            \/ /\ rows[local[t].n].st # "none" /\ Goes(t, "revokeLatest")
               /\ rows' = [rows EXCEPT ![local[t].n].rev = TRUE]
<1>1. /\ UNCHANGED <<srvVars, wayVars, conv, memVars, single, serial, base>>
      /\ local[t].pc = "revoke"
      /\ \/ rows[local[t].n].st = "none" /\ Done(t) /\ rows' = rows
         \/ /\ rows[local[t].n].st # "none" /\ Goto(t, "revokeLatest")
            /\ rows' = [rows EXCEPT ![local[t].n].rev = TRUE]
  BY DEF RevokeRow, Step, At, memVars, rowVars, srvVars, wayVars, scenVars
<1>2. Worker \in Thread /\ App \in Thread
  BY DEF Thread
<1> QED BY <1>1, <1>2, MoveFacts

LEMMA RevokeLatestDoes ==
  ASSUME LocalsType, NEW t \in Thread, RevokeLatest(t)
  PROVE  /\ UNCHANGED <<srvVars, wayVars, rowVars, memVars, single, serial, base>>
         /\ local[t].pc = "revokeLatest"
         /\ \/ ~(conv.latest.n <= local[t].n /\ LocalMax # 0) /\ Ends(t)
            \/ /\ conv.latest.n <= local[t].n /\ LocalMax # 0
               /\ GoesWith(t, "writeLatest", LatestOf(LocalMax))
<1>1. /\ UNCHANGED <<srvVars, wayVars, rowVars, memVars, single, serial, base>>
      /\ local[t].pc = "revokeLatest"
      /\ \/ ~(conv.latest.n <= local[t].n /\ LocalMax # 0) /\ Done(t)
         \/ /\ conv.latest.n <= local[t].n /\ LocalMax # 0
            /\ GotoWith(t, "writeLatest", LatestOf(LocalMax))
  BY DEF RevokeLatest, Step, At, memVars, rowVars, srvVars, wayVars, scenVars
<1>2. Worker \in Thread /\ App \in Thread
  BY DEF Thread
<1> QED BY <1>1, <1>2, MoveFacts

LEMMA DeleteRowDoes ==
  ASSUME LocalsType, NEW t \in Thread, DeleteRow(t)
  PROVE  /\ UNCHANGED <<srvVars, wayVars, conv, memVars, single, serial, base>>
         /\ local[t].pc = "delete"
         /\ \/ rows[local[t].n].st = "none" /\ Ends(t) /\ rows' = rows
            \/ /\ rows[local[t].n].st # "none" /\ (Goes(t, "deleteCount") \/ Goes(t, "deleteLatest"))
               /\ rows' = [rows EXCEPT ![local[t].n].st = "deleted"]
<1>1. /\ UNCHANGED <<srvVars, wayVars, conv, memVars, single, serial, base>>
      /\ local[t].pc = "delete"
      /\ \/ rows[local[t].n].st = "none" /\ Done(t) /\ rows' = rows
         \/ /\ rows[local[t].n].st # "none" /\ (Goto(t, "deleteCount") \/ Goto(t, "deleteLatest"))
            /\ rows' = [rows EXCEPT ![local[t].n].st = "deleted"]
  BY DEF DeleteRow, Step, At, memVars, rowVars, srvVars, wayVars, scenVars
<1>2. Worker \in Thread /\ App \in Thread
  BY DEF Thread
<1> QED BY <1>1, <1>2, MoveFacts

LEMMA DeleteCountDoes ==
  ASSUME LocalsType, NEW t \in Thread, DeleteCount(t)
  PROVE  /\ UNCHANGED <<srvVars, wayVars, rows, memVars, single, serial, base>>
         /\ local[t].pc = "deleteCount" /\ Goes(t, "deleteLatest")
         /\ conv' = [conv EXCEPT !.unread = Decreased(@)]
<1>1. /\ UNCHANGED <<srvVars, wayVars, rows, memVars, single, serial, base>>
      /\ local[t].pc = "deleteCount" /\ Goto(t, "deleteLatest")
      /\ conv' = [conv EXCEPT !.unread = Decreased(@)]
  BY DEF DeleteCount, Step, At, memVars, rowVars, srvVars, wayVars, scenVars
<1>2. Worker \in Thread /\ App \in Thread
  BY DEF Thread
<1> QED BY <1>1, <1>2, MoveFacts

LEMMA DeleteLatestDoes ==
  ASSUME LocalsType, NEW t \in Thread, DeleteLatest(t)
  PROVE  /\ UNCHANGED <<srvVars, wayVars, rowVars, memVars, single, serial, base>>
         /\ local[t].pc = "deleteLatest"
         /\ \/ conv.latest.n # local[t].n /\ Ends(t)
            \/ conv.latest.n = local[t].n /\ GoesWith(t, "writeLatest", LatestOf(Greatest(Active)))
<1>1. /\ UNCHANGED <<srvVars, wayVars, rowVars, memVars, single, serial, base>>
      /\ local[t].pc = "deleteLatest"
      /\ \/ conv.latest.n # local[t].n /\ Done(t)
         \/ conv.latest.n = local[t].n /\ GotoWith(t, "writeLatest", LatestOf(Greatest(Active)))
  BY DEF DeleteLatest, Step, At, memVars, rowVars, srvVars, wayVars, scenVars
<1>2. Worker \in Thread /\ App \in Thread
  BY DEF Thread
<1> QED BY <1>1, <1>2, MoveFacts

LEMMA WriteLatestDoes ==
  ASSUME LocalsType, NEW t \in Thread, WriteLatest(t)
  PROVE  /\ UNCHANGED <<srvVars, wayVars, rows, memVars, single, serial, base>>
         /\ local[t].pc = "writeLatest" /\ Ends(t)
         /\ conv' = [conv EXCEPT !.latest = local[t].latest,
                       !.time = IF local[t].latest.n = 0 THEN local[t].n ELSE local[t].latest.n]
<1>1. /\ UNCHANGED <<srvVars, wayVars, rows, memVars, single, serial, base>>
      /\ local[t].pc = "writeLatest" /\ Done(t)
      /\ conv' = [conv EXCEPT !.latest = local[t].latest,
                    !.time = IF local[t].latest.n = 0 THEN local[t].n ELSE local[t].latest.n]
  BY DEF WriteLatest, Step, At, memVars, rowVars, srvVars, wayVars, scenVars
<1>2. Worker \in Thread /\ App \in Thread
  BY DEF Thread
<1> QED BY <1>1, <1>2, MoveFacts

LEMMA ClearRowsDoes ==
  ASSUME LocalsType, NEW t \in Thread, ClearRows(t)
  PROVE  /\ UNCHANGED <<srvVars, wayVars, conv, memVars, single, serial, base>>
         /\ local[t].pc = "clearRows" /\ Goes(t, "clearConv")
         /\ rows' = [n \in Seqs |-> NoRow]
<1>1. /\ UNCHANGED <<srvVars, wayVars, conv, memVars, single, serial, base>>
      /\ local[t].pc = "clearRows" /\ Goto(t, "clearConv")
      /\ rows' = [n \in Seqs |-> NoRow]
  BY DEF ClearRows, Step, At, memVars, rowVars, srvVars, wayVars, scenVars
<1>2. Worker \in Thread /\ App \in Thread
  BY DEF Thread
<1> QED BY <1>1, <1>2, MoveFacts

LEMMA ClearConversationDoes ==
  ASSUME LocalsType, NEW t \in Thread, ClearConversation(t)
  PROVE  /\ UNCHANGED <<srvVars, wayVars, rows, memVars, single, serial>>
         /\ local[t].pc = "clearConv" /\ Ends(t)
         /\ conv' = [conv EXCEPT !.unread = 0, !.latest = NoLatest]
         /\ base' = IF t = Worker \/ serial THEN Max({base, local[t].n}) ELSE base
<1>1. /\ UNCHANGED <<srvVars, wayVars, rows, memVars, single, serial>>
      /\ local[t].pc = "clearConv" /\ Done(t)
      /\ conv' = [conv EXCEPT !.unread = 0, !.latest = NoLatest]
      /\ base' = IF t = Worker \/ serial THEN Max({base, local[t].n}) ELSE base
  BY DEF ClearConversation, Step, At, memVars, rowVars, srvVars, wayVars, scenVars
<1>2. Worker \in Thread /\ App \in Thread
  BY DEF Thread
<1> QED BY <1>1, <1>2, MoveFacts

LEMMA ReadLatestDoes ==
  ASSUME LocalsType, NEW t \in Thread, ReadLatest(t)
  PROVE  /\ UNCHANGED <<srvVars, wayVars, rowVars, memVars, single, serial, base>>
         /\ local[t].pc = "latest" /\ GoesWith(t, "latestRead", conv.latest)
<1>1. /\ UNCHANGED <<srvVars, wayVars, rowVars, memVars, single, serial, base>>
      /\ local[t].pc = "latest" /\ GotoWith(t, "latestRead", conv.latest)
  BY DEF ReadLatest, Step, At, memVars, rowVars, srvVars, wayVars, scenVars
<1>2. Worker \in Thread /\ App \in Thread
  BY DEF Thread
<1> QED BY <1>1, <1>2, MoveFacts

LEMMA SetLatestReadDoes ==
  ASSUME LocalsType, NEW t \in Thread, SetLatestRead(t)
  PROVE  /\ UNCHANGED <<srvVars, wayVars, rows, recorder, single, serial, base>>
         /\ local[t].pc = "latestRead" /\ Ends(t) /\ mutex' = (IF mutex = t THEN "free" ELSE mutex)
         /\ conv' = IF local[t].latest.n = 0 THEN conv
                    ELSE [conv EXCEPT !.latest = local[t].latest, !.time = local[t].latest.n]
<1>1. /\ UNCHANGED <<srvVars, wayVars, rows, recorder, single, serial, base>>
      /\ local[t].pc = "latestRead" /\ Done(t) /\ mutex' = (IF mutex = t THEN "free" ELSE mutex)
      /\ conv' = IF local[t].latest.n = 0 THEN conv
                 ELSE [conv EXCEPT !.latest = local[t].latest, !.time = local[t].latest.n]
  BY DEF SetLatestRead, Step, At, memVars, rowVars, srvVars, wayVars, scenVars
<1>2. Worker \in Thread /\ App \in Thread
  BY DEF Thread
<1> QED BY <1>1, <1>2, MoveFacts

LEMMA MarkRowsDoes ==
  ASSUME LocalsType, MarkRows
  PROVE  /\ UNCHANGED <<srvVars, wayVars, conv, memVars, single, serial, base>>
         /\ local[App].pc = "markRows" /\ Goes(App, "markCount")
         /\ rows' = [n \in Seqs |->
              IF n <= local[App].n /\ Unread(n) THEN [rows[n] EXCEPT !.read = TRUE] ELSE rows[n]]
<1>1. /\ UNCHANGED <<srvVars, wayVars, conv, memVars, single, serial, base>>
      /\ local[App].pc = "markRows" /\ Goto(App, "markCount")
      /\ rows' = [n \in Seqs |->
           IF n <= local[App].n /\ Unread(n) THEN [rows[n] EXCEPT !.read = TRUE] ELSE rows[n]]
  BY DEF MarkRows, Step, At, memVars, rowVars, srvVars, wayVars, scenVars
<1>2. Worker \in Thread /\ App \in Thread
  BY DEF Thread
<1> QED BY <1>1, <1>2, MoveFacts

LEMMA MarkCountDoes ==
  ASSUME LocalsType, MarkCount
  PROVE  /\ UNCHANGED <<srvVars, wayVars, rows, recorder, single, serial>>
         /\ local[App].pc = "markCount"
         /\ conv' = [conv EXCEPT !.unread = 0] /\ base' = Max({base, local[App].n})
         /\ \/ Goes(App, "latest") /\ mutex' = mutex
            \/ Ends(App) /\ mutex' = (IF mutex = App THEN "free" ELSE mutex)
<1>1. /\ UNCHANGED <<srvVars, wayVars, rows, recorder, single, serial>>
      /\ local[App].pc = "markCount"
      /\ conv' = [conv EXCEPT !.unread = 0] /\ base' = Max({base, local[App].n})
      /\ \/ Goto(App, "latest") /\ mutex' = mutex
         \/ Done(App) /\ mutex' = (IF mutex = App THEN "free" ELSE mutex)
  BY DEF MarkCount, Step, At, memVars, rowVars, srvVars, wayVars, scenVars
<1>2. Worker \in Thread /\ App \in Thread
  BY DEF Thread
<1> QED BY <1>1, <1>2, MoveFacts

LEMMA MarkRowDoes ==
  ASSUME LocalsType, MarkRow
  PROVE  /\ UNCHANGED <<srvVars, wayVars, conv, memVars, single, serial, base>>
         /\ local[App].pc = "markRow"
         /\ \/ (Goes(App, "latest") \/ Ends(App)) /\ rows' = rows
            \/ Goes(App, "markDecr") /\ rows' = [rows EXCEPT ![local[App].n].read = TRUE]
<1>1. /\ UNCHANGED <<srvVars, wayVars, conv, memVars, single, serial, base>>
      /\ local[App].pc = "markRow"
      /\ \/ (Goto(App, "latest") \/ Done(App)) /\ rows' = rows
         \/ Goto(App, "markDecr") /\ rows' = [rows EXCEPT ![local[App].n].read = TRUE]
  BY DEF MarkRow, Step, At, memVars, rowVars, srvVars, wayVars, scenVars
<1>2. Worker \in Thread /\ App \in Thread
  BY DEF Thread
<1> QED BY <1>1, <1>2, MoveFacts

LEMMA MarkDecrDoes ==
  ASSUME LocalsType, MarkDecr
  PROVE  /\ UNCHANGED <<srvVars, wayVars, rows, memVars, single, serial, base>>
         /\ local[App].pc = "markDecr" /\ (Goes(App, "latest") \/ Ends(App))
         /\ conv' = [conv EXCEPT !.unread = Decreased(@)]
<1>1. /\ UNCHANGED <<srvVars, wayVars, rows, memVars, single, serial, base>>
      /\ local[App].pc = "markDecr" /\ (Goto(App, "latest") \/ Done(App))
      /\ conv' = [conv EXCEPT !.unread = Decreased(@)]
  BY DEF MarkDecr, Step, At, memVars, rowVars, srvVars, wayVars, scenVars
<1>2. Worker \in Thread /\ App \in Thread
  BY DEF Thread
<1> QED BY <1>1, <1>2, MoveFacts

LEMMA ReadConversationDoes ==
  ASSUME LocalsType, ReadConversation
  PROVE  /\ UNCHANGED <<srvVars, wayVars, rowVars, recorder, scenVars>>
         /\ local[Worker].pc = "lock" /\ mutex = "free" /\ mutex' = Worker
         /\ Still(Worker) /\ local'[Worker].pc = "insert" /\ local'[Worker].conv = conv
         /\ local'[Worker].batch = local[Worker].batch
  BY DEF ReadConversation, At, memVars, rowVars, srvVars, wayVars, scenVars, LocalsType, Locals,
    Thread, Worker, App, Keeps, Still

LEMMA SyncAnswerDoes ==
  ASSUME LocalsType, SyncAnswer
  PROVE  /\ UNCHANGED <<srvVars, wayVars, rowVars, scenVars>>
         /\ local[Worker].pc = "syncLock" /\ mutex = "free" /\ mutex' = Worker /\ recorder' = log
         /\ Still(Worker) /\ local'[Worker].pc = "sync" /\ local'[Worker].conv = conv
         /\ local'[Worker].n = srvRead
  BY DEF SyncAnswer, At, memVars, rowVars, srvVars, wayVars, scenVars, LocalsType, Locals, Thread,
    Worker, App, Keeps, Still

LEMMA ClearHasReadDoes ==
  ASSUME LocalsType, NEW t \in Thread, ClearHasRead(t)
  PROVE  /\ UNCHANGED <<log, mine, srvRevoked, srvGone, notes, wayVars, rowVars, memVars, single, serial, base>>
         /\ local[t].pc = "clear" /\ Still(t) /\ local'[t].pc = "clearRows" /\ local'[t].n = LocalMax
         /\ srvRead' = Max({srvRead, LocalMax})
  BY DEF ClearHasRead, Step, At, memVars, rowVars, srvVars, wayVars, scenVars, LocalsType, Locals,
    Thread, Worker, App, Keeps, Still

LEMMA DoRevokeMsgDoes ==
  ASSUME LocalsType, DoRevokeMsg
  PROVE  /\ UNCHANGED <<rowVars, memVars, base>>
         /\ Take("note") /\ Head(queue).note.kind = "revoke"
         /\ Still(Worker) /\ local'[Worker].pc = "revoke" /\ local'[Worker].n = Head(queue).note.n
  BY DEF DoRevokeMsg, DoNote, TakeNote, Take, At, memVars, rowVars, srvVars, wayVars, scenVars,
    LocalsType, Locals, Thread, Worker, App, Keeps, Still

LEMMA DoDeleteMsgsDoes ==
  ASSUME LocalsType, DoDeleteMsgs
  PROVE  /\ UNCHANGED <<rowVars, memVars, base>>
         /\ Take("note") /\ Head(queue).note.kind = "delete"
         /\ Still(Worker) /\ local'[Worker].pc = "delete" /\ local'[Worker].n = Head(queue).note.n
  BY DEF DoDeleteMsgs, DoNote, TakeNote, Take, At, memVars, rowVars, srvVars, wayVars, scenVars,
    LocalsType, Locals, Thread, Worker, App, Keeps, Still

LEMMA DoClearConversationsDoes ==
  ASSUME LocalsType, DoClearConversations
  PROVE  /\ UNCHANGED <<rowVars, memVars, base>>
         /\ Take("note") /\ Head(queue).note.kind = "clear"
         /\ Still(Worker) /\ local'[Worker].pc = "clear" /\ local'[Worker].n = Head(queue).note.n
  BY DEF DoClearConversations, DoNote, TakeNote, Take, At, memVars, rowVars, srvVars, wayVars,
    scenVars, LocalsType, Locals, Thread, Worker, App, Keeps, Still

LEMMA SyncDataDoes ==
  ASSUME LocalsType, SyncData
  PROVE  /\ UNCHANGED <<rowVars, memVars, base>>
         /\ Take("sync") /\ Goes(Worker, "syncLock")
<1>1. /\ UNCHANGED <<rowVars, memVars, base>>
      /\ Take("sync") /\ Goto(Worker, "syncLock")
  BY DEF SyncData, Take, At, memVars, rowVars, srvVars, wayVars, scenVars
<1>2. Worker \in Thread /\ App \in Thread
  BY DEF Thread
<1> QED BY <1>1, <1>2, MoveFacts

LEMMA UpdateLatestDoes ==
  ASSUME LocalsType, UpdateLatest
  PROVE  /\ UNCHANGED <<rows, memVars, local, base>>
         /\ Take("latest") /\ \A t \in Thread : local'[t] = local[t]
         /\ LET c == Head(queue).conv IN
              conv' = IF c.time >= conv.time \/ c.latest.n = conv.latest.n
                      THEN [conv EXCEPT !.latest = c.latest, !.time = c.time] ELSE conv
  BY DEF UpdateLatest, Take, At, memVars, rowVars, srvVars, wayVars, scenVars, LocalsType, Locals,
    Thread, Worker, App, Keeps, Still

LEMMA DoUnreadCountDoes ==
  ASSUME LocalsType, DoUnreadCount
  PROVE  /\ UNCHANGED <<memVars>>
         /\ Take("note") /\ Head(queue).note.kind = "read"
         /\ \/ /\ ~single /\ conv' = [conv EXCEPT !.unread = 0] /\ UNCHANGED <<rows, local>>
               /\ base' = Max({base, Min({Head(queue).note.n, LocalMax})})
            \/ UNCHANGED <<rows, conv, local, base>>
            \/ /\ single /\ Still(Worker) /\ local'[Worker].pc = "count"
                 /\ local'[Worker].n = Head(queue).note.n
               /\ rows' = [n \in Seqs |->
                    [rows[n] EXCEPT !.read = @ \/ n \in Head(queue).note.seqs \cap (Stored \ mine)]]
               /\ conv' = conv /\ base' = base
  BY DEF DoUnreadCount, TakeNote, Take, At, memVars, rowVars, srvVars, wayVars, scenVars,
    LocalsType, Locals, Thread, Worker, App, Keeps, Still

LEMMA DoReadDrawingDoes ==
  ASSUME LocalsType, DoReadDrawing
  PROVE  /\ UNCHANGED <<rowVars, memVars, base>>
         /\ Take("note") /\ Head(queue).note.kind = "receipt"
         /\ \/ local' = local
            \/ /\ Still(Worker) /\ local'[Worker].pc = "receipt" /\ local'[Worker].n = Head(queue).note.n
               /\ local'[Worker].row = rows[Head(queue).note.n] /\ local'[Worker].conv = conv
               /\ rows[Head(queue).note.n].st # "none"
<1>1. UNCHANGED <<rowVars, memVars, base>> /\ Take("note") /\ Head(queue).note.kind = "receipt"
  BY DEF DoReadDrawing, TakeNote
<1>2. PICK m : m = Head(queue).note.n
  OBVIOUS
<1>3. \/ local' = local
      \/ /\ rows[m].st # "none"
         /\ local' = [local EXCEPT ![Worker].pc = "receipt", ![Worker].n = m,
                                   ![Worker].row = rows[m], ![Worker].conv = conv]
  BY <1>2 DEF DoReadDrawing
<1>4. ASSUME local' = [local EXCEPT ![Worker].pc = "receipt", ![Worker].n = m,
                                    ![Worker].row = rows[m], ![Worker].conv = conv]
      PROVE  /\ Still(Worker) /\ local'[Worker].pc = "receipt" /\ local'[Worker].n = m
             /\ local'[Worker].row = rows[m] /\ local'[Worker].conv = conv
  <2>1. local \in [Thread -> Locals] /\ Worker \in Thread /\ local[Worker] \in Locals
    BY DEF LocalsType, Thread
  <2>2. Still(Worker)
    BY <1>4, <2>1 DEF Still
  <2>3. local'[Worker] = [local[Worker] EXCEPT !.pc = "receipt", !.n = m, !.row = rows[m], !.conv = conv]
    BY <1>4, <2>1
  <2>4. /\ local'[Worker].pc = "receipt" /\ local'[Worker].n = m /\ local'[Worker].row = rows[m]
        /\ local'[Worker].conv = conv
    BY <2>1, <2>3 DEF Locals
  <2> QED BY <2>2, <2>4
<1>5. \/ local' = local
      \/ /\ Still(Worker) /\ local'[Worker].pc = "receipt" /\ local'[Worker].n = Head(queue).note.n
         /\ local'[Worker].row = rows[Head(queue).note.n] /\ local'[Worker].conv = conv
         /\ rows[Head(queue).note.n].st # "none"
  BY <1>2, <1>3, <1>4
<1> QED BY <1>1, <1>5

LEMMA RevokeMessageDoes ==
  ASSUME LocalsType, NEW n \in Seqs, RevokeMessage(n)
  PROVE  /\ UNCHANGED <<log, mine, srvGone, srvRead, wayVars, rowVars, memVars, single, serial, base>>
         /\ local[App].pc = "idle" /\ (serial => local[Worker].pc = "idle") /\ local'[Worker] = local[Worker]
         /\ local'[App].pc = "revoke" /\ local'[App].n = n /\ n \in Active \ srvRevoked
         /\ srvRevoked' = srvRevoked \cup {n} /\ notes' = Append(notes, Note("revoke", n, {}))
  BY DEF RevokeMessage, Start, At, memVars, rowVars, srvVars, wayVars, scenVars, LocalsType, Locals,
    Thread, Worker, App, Keeps, Still

LEMMA DeleteMessageDoes ==
  ASSUME LocalsType, NEW n \in Seqs, DeleteMessage(n)
  PROVE  /\ UNCHANGED <<log, mine, srvRevoked, srvRead, notes, wayVars, rowVars, memVars, single, serial, base>>
         /\ local[App].pc = "idle" /\ (serial => local[Worker].pc = "idle") /\ local'[Worker] = local[Worker]
         /\ local'[App].pc = "delete" /\ local'[App].n = n /\ n \in Stored
  BY DEF DeleteMessage, Start, At, memVars, rowVars, srvVars, wayVars, scenVars, LocalsType, Locals,
    Thread, Worker, App, Keeps, Still

LEMMA MarkMessageDoes ==
  ASSUME LocalsType, NEW n \in Seqs, MarkMessage(n)
  PROVE  /\ UNCHANGED <<log, mine, srvRevoked, srvGone, wayVars, rowVars, memVars, single, serial, base>>
         /\ local[App].pc = "idle" /\ (serial => local[Worker].pc = "idle") /\ local'[Worker] = local[Worker]
         /\ local'[App].pc = "markRow" /\ Unread(n)
         /\ notes' = Append(notes, ReadNote(n, {n}))
  BY DEF MarkMessage, Start, MarkOnServer, At, memVars, rowVars, srvVars, wayVars, scenVars,
    LocalsType, Locals, Thread, Worker, App, Keeps, Still

LEMMA ClearMessagesDoes ==
  ASSUME LocalsType, ClearMessages
  PROVE  /\ UNCHANGED <<log, mine, srvRevoked, srvRead, notes, wayVars, rowVars, memVars, single, serial, base>>
         /\ local[App].pc = "idle" /\ (serial => local[Worker].pc = "idle") /\ local'[Worker] = local[Worker]
         /\ local'[App].pc = "clear"
  BY DEF ClearMessages, Start, At, memVars, rowVars, srvVars, wayVars, scenVars, LocalsType, Locals,
    Thread, Worker, App, Keeps, Still

LEMMA MarkConversationDoes ==
  ASSUME LocalsType, MarkConversation
  PROVE  /\ UNCHANGED <<log, mine, srvRevoked, srvGone, wayVars, rowVars, recorder, single, serial, base>>
         /\ local[App].pc = "idle" /\ (serial => local[Worker].pc = "idle") /\ local'[Worker] = local[Worker]
         /\ (local'[App].pc = "markRows" \/ local'[App].pc = "markCount") /\ local'[App].n = LocalMax
         /\ mutex = "free" /\ mutex' = App
         /\ notes' = Append(notes, ReadNote(LocalMax, {n \in Seqs : Unread(n)}))
  BY DEF MarkConversation, Start, MarkOnServer, At, memVars, rowVars, srvVars, wayVars, scenVars,
    LocalsType, Locals, Thread, Worker, App, Keeps, Still

-----------------------------------------------------------------------------
(* The recorder and the types *)

LEMMA CounterFacts ==
  ASSUME TypeInv, InOrder, DoMsgNew
  PROVE  LET b == queue[1].batch IN
           /\ 1 \in 1..Len(queue) /\ queue[1].cmd = "msgs" /\ b \in Bundles
           /\ b.from \in Nat \ {0} /\ b.to \in Nat /\ b.from <= b.to /\ b.to <= sent
           /\ Counted(b) \in Nat /\ Counted(b) <= b.to - (b.from - 1)
           /\ Counted(b) = 0 \/ recorder + Counted(b) <= b.to
           /\ recorder' = recorder + Counted(b) /\ Still(Worker) /\ local'[Worker].pc = "lock"
           /\ local'[Worker].batch = [b EXCEPT !.count = Counted(b)]
           /\ local'[Worker].batch.count = Counted(b) /\ local'[Worker].batch.from = b.from
           /\ local'[Worker].batch.to = b.to
           /\ local'[Worker].batch.gone = b.gone /\ local'[Worker].batch.rev = b.rev
           /\ Take("msgs") /\ UNCHANGED <<rowVars, mutex, base>>
<1> DEFINE b == queue[1].batch
<1>0. queue \in Seq(Commands) /\ recorder \in Nat /\ local \in [Thread -> Locals]
  BY DEF TypeInv, WayType, MemoryType, ServerType
<1>1. Head(queue) \in Commands /\ Head(queue).cmd = "msgs" /\ Head(queue) = queue[1] /\ 1 \in 1..Len(queue)
  BY <1>0, TakeFacts DEF DoMsgNew
<1>2. b \in Bundles
  BY <1>1, CommandFacts
<1>3. b.from \in Nat \ {0} /\ b.to \in Nat /\ b.from <= b.to /\ b.to <= sent
  BY <1>1, <1>2, LocalFacts DEF InOrder, Batches
<1>4. /\ Counted(b) \in Nat /\ Counted(b) <= b.to - (b.from - 1)
      /\ Counted(b) = 0 \/ recorder + Counted(b) <= b.to
  BY <1>0, <1>3, CountedFacts
<1>5. /\ recorder' = recorder + Counted(b) /\ UNCHANGED <<rowVars, mutex, base>> /\ Take("msgs")
      /\ local' = [local EXCEPT ![Worker].pc = "lock", ![Worker].batch = [b EXCEPT !.count = Counted(b)]]
  BY <1>1 DEF DoMsgNew
<1> DEFINE c == [b EXCEPT !.count = Counted(b)]
<1>6. c.count = Counted(b) /\ c.from = b.from /\ c.to = b.to /\ c.gone = b.gone /\ c.rev = b.rev
  BY <1>2, <1>4 DEF Bundles
<1> HIDE DEF c
<1>7. Still(Worker) /\ local'[Worker].pc = "lock" /\ local'[Worker].batch = c
  <2>1. local' = [local EXCEPT ![Worker].pc = "lock", ![Worker].batch = c]
    BY <1>5 DEF c
  <2> QED BY <1>0, <2>1 DEF Still, Thread, Locals
<1> HIDE DEF b
<1>8. /\ 1 \in 1..Len(queue) /\ queue[1].cmd = "msgs" /\ b \in Bundles
      /\ b.from \in Nat \ {0} /\ b.to \in Nat /\ b.from <= b.to /\ b.to <= sent
      /\ Counted(b) \in Nat /\ Counted(b) <= b.to - (b.from - 1)
      /\ Counted(b) = 0 \/ recorder + Counted(b) <= b.to
      /\ recorder' = recorder + Counted(b) /\ Still(Worker) /\ local'[Worker].pc = "lock"
      /\ local'[Worker].batch = [b EXCEPT !.count = Counted(b)]
      /\ local'[Worker].batch.count = Counted(b) /\ local'[Worker].batch.from = b.from
      /\ local'[Worker].batch.to = b.to
      /\ local'[Worker].batch.gone = b.gone /\ local'[Worker].batch.rev = b.rev
      /\ Take("msgs") /\ UNCHANGED <<rowVars, mutex, base>>
  <2>1. local'[Worker].batch = [b EXCEPT !.count = Counted(b)]
    BY <1>7 DEF c
  <2> QED BY <1>1, <1>2, <1>3, <1>4, <1>5, <1>6, <1>7, <2>1 DEF b
<1> QED BY <1>8 DEF b

LEMMA NextRecorder == ASSUME TypeInv, Sent, InOrder, [Next]_vars PROVE recorder' \in 0..log'
<1>0. recorder \in Nat /\ recorder <= log /\ log \in Nat /\ sent \in Nat /\ sent <= log
  BY SizeFacts
<1>1. ASSUME NEW own \in BOOLEAN, Publish(own) PROVE recorder' \in 0..log'
  BY <1>1, <1>0 DEF Publish, Quiet, memVars
<1>2. ASSUME DoMsgNew PROVE recorder' \in 0..log'
  <2>1. log' = log
    BY <1>2 DEF DoMsgNew, Take, srvVars
  <2> QED BY <1>2, <1>0, <2>1, CounterFacts
<1>3. ASSUME SyncAnswer PROVE recorder' \in 0..log'
  BY <1>3, <1>0 DEF SyncAnswer, At, srvVars
<1>4. ASSUME ClearedElsewhere \/ DeliverMsgs \/ DeliverNote \/ RequestSync
      PROVE  UNCHANGED recorder /\ UNCHANGED log
  BY <1>4 DEF ClearedElsewhere, DeliverMsgs, DeliverNote, RequestSync, Event, Quiet, memVars,
    srvVars
<1>5. ASSUME NEW n \in Seqs, RevokedElsewhere(n) \/ DeletedElsewhere(n) \/ ReadElsewhere(n) \/
         PeerReads(n)
      PROVE  UNCHANGED recorder /\ UNCHANGED log
  BY <1>5 DEF RevokedElsewhere, DeletedElsewhere, ReadElsewhere, PeerReads, Event, Quiet,
    MarkOnServer, memVars, srvVars
<1>6. ASSUME ReadConversation \/ InsertMessages \/ UpdateConversation \/ SyncData \/ SyncUnread \/
         UpdateLatest \/ DoRevokeMsg \/ DoDeleteMsgs \/ DoClearConversations \/ DoUnreadCount \/
         SetUnreadCount \/ DoReadDrawing \/ UpdateMessage
      PROVE  UNCHANGED recorder /\ UNCHANGED log
  BY <1>6 DEF ReadConversation, InsertMessages, UpdateConversation, SyncData, SyncUnread,
    UpdateLatest, DoRevokeMsg, DoDeleteMsgs, DoClearConversations, DoUnreadCount, SetUnreadCount,
    DoReadDrawing, UpdateMessage, Take, DoNote, TakeNote, memVars, srvVars
<1>7. ASSUME NEW t \in Thread, RevokeRow(t) \/ RevokeLatest(t) \/ DeleteRow(t) \/ DeleteCount(t) \/
         DeleteLatest(t) \/ WriteLatest(t) \/ ClearHasRead(t) \/ ClearRows(t) \/
         ClearConversation(t) \/ ReadLatest(t) \/ SetLatestRead(t)
      PROVE  UNCHANGED recorder /\ UNCHANGED log
  BY <1>7 DEF RevokeRow, RevokeLatest, DeleteRow, DeleteCount, DeleteLatest, WriteLatest,
    ClearHasRead, ClearRows, ClearConversation, ReadLatest, SetLatestRead, Step, memVars, srvVars
<1>8. ASSUME ClearMessages \/ MarkConversation \/ MarkRows \/ MarkCount \/ MarkRow \/ MarkDecr
      PROVE  UNCHANGED recorder /\ UNCHANGED log
  BY <1>8 DEF ClearMessages, MarkConversation, MarkRows, MarkCount, MarkRow, MarkDecr, Start,
    MarkOnServer, Step, memVars, srvVars
<1>9. ASSUME NEW n \in Seqs, RevokeMessage(n) \/ DeleteMessage(n) \/ MarkMessage(n)
      PROVE  UNCHANGED recorder /\ UNCHANGED log
  BY <1>9 DEF RevokeMessage, DeleteMessage, MarkMessage, Start, MarkOnServer, memVars, srvVars
<1>10. CASE UNCHANGED vars
  BY <1>10, <1>0 DEF vars, srvVars, wayVars, rowVars, memVars, scenVars
<1>11. ASSUME UNCHANGED recorder /\ UNCHANGED log PROVE recorder' \in 0..log'
  BY <1>11, <1>0 DEF memVars, srvVars
<1>12. CASE World
  BY <1>12, <1>1, <1>2, <1>3, <1>4, <1>5, <1>6, <1>7, <1>8, <1>9, <1>11 DEF World, Thread
<1>13. CASE Work
  BY <1>13, <1>1, <1>2, <1>3, <1>4, <1>5, <1>6, <1>7, <1>8, <1>9, <1>11 DEF Work, Either, Thread
<1>14. CASE Call
  BY <1>14, <1>1, <1>2, <1>3, <1>4, <1>5, <1>6, <1>7, <1>8, <1>9, <1>11 DEF Call, Either, Thread
<1> QED BY <1>12, <1>13, <1>14, <1>10 DEF Next

LEMMA NextScenario == ASSUME [Next]_vars PROVE single' = single /\ serial' = serial
<1>1. ASSUME ClearedElsewhere \/ DeliverMsgs \/ DeliverNote \/ RequestSync
      PROVE  single' = single /\ serial' = serial
  BY <1>1 DEF ClearedElsewhere, DeliverMsgs, DeliverNote, RequestSync, Event, Quiet, scenVars
<1>2. ASSUME NEW own \in BOOLEAN, Publish(own)
      PROVE  single' = single /\ serial' = serial
  BY <1>2 DEF Publish, Quiet, scenVars
<1>3. ASSUME NEW n \in Seqs, RevokedElsewhere(n) \/ DeletedElsewhere(n) \/ ReadElsewhere(n) \/
         PeerReads(n)
      PROVE  single' = single /\ serial' = serial
  BY <1>3 DEF RevokedElsewhere, DeletedElsewhere, ReadElsewhere, PeerReads, Event, Quiet,
    MarkOnServer, scenVars
<1>4. ASSUME DoMsgNew \/ ReadConversation \/ InsertMessages \/ UpdateConversation \/ SyncData \/
         SyncAnswer \/ SyncUnread \/ UpdateLatest \/ DoRevokeMsg \/ DoDeleteMsgs \/
         DoClearConversations \/ DoUnreadCount \/ SetUnreadCount \/ DoReadDrawing \/ UpdateMessage
      PROVE  single' = single /\ serial' = serial
  BY <1>4 DEF DoMsgNew, ReadConversation, InsertMessages, UpdateConversation, SyncData, SyncAnswer,
    SyncUnread, UpdateLatest, DoRevokeMsg, DoDeleteMsgs, DoClearConversations, DoUnreadCount,
    SetUnreadCount, DoReadDrawing, UpdateMessage, Take, DoNote, TakeNote, scenVars
<1>5. ASSUME NEW t \in Thread, RevokeRow(t) \/ RevokeLatest(t) \/ DeleteRow(t) \/ DeleteCount(t) \/
         DeleteLatest(t) \/ WriteLatest(t) \/ ClearHasRead(t) \/ ClearRows(t) \/
         ClearConversation(t) \/ ReadLatest(t) \/ SetLatestRead(t)
      PROVE  single' = single /\ serial' = serial
  BY <1>5 DEF RevokeRow, RevokeLatest, DeleteRow, DeleteCount, DeleteLatest, WriteLatest,
    ClearHasRead, ClearRows, ClearConversation, ReadLatest, SetLatestRead, Step, scenVars
<1>6. ASSUME ClearMessages \/ MarkConversation \/ MarkRows \/ MarkCount \/ MarkRow \/ MarkDecr
      PROVE  single' = single /\ serial' = serial
  BY <1>6 DEF ClearMessages, MarkConversation, MarkRows, MarkCount, MarkRow, MarkDecr, Start,
    MarkOnServer, Step, scenVars
<1>7. ASSUME NEW n \in Seqs, RevokeMessage(n) \/ DeleteMessage(n) \/ MarkMessage(n)
      PROVE  single' = single /\ serial' = serial
  BY <1>7 DEF RevokeMessage, DeleteMessage, MarkMessage, Start, MarkOnServer, scenVars
<1>8. CASE UNCHANGED vars
  BY <1>8 DEF vars, srvVars, wayVars, rowVars, memVars, scenVars
<1>9. ASSUME single' = single /\ serial' = serial PROVE single' = single /\ serial' = serial
  BY <1>9 DEF scenVars
<1>10. CASE World
  BY <1>10, <1>1, <1>2, <1>3, <1>4, <1>5, <1>6, <1>7, <1>9 DEF World, Thread
<1>11. CASE Work
  BY <1>11, <1>1, <1>2, <1>3, <1>4, <1>5, <1>6, <1>7, <1>9 DEF Work, Either, Thread
<1>12. CASE Call
  BY <1>12, <1>1, <1>2, <1>3, <1>4, <1>5, <1>6, <1>7, <1>9 DEF Call, Either, Thread
<1> QED BY <1>10, <1>11, <1>12, <1>8 DEF Next

LEMMA NextBase == ASSUME TypeInv, Sent, [Next]_vars PROVE base' \in Nat
<1>0. base \in Nat /\ recorder \in Nat /\ LocalMax \in Nat /\ Worker \in Thread /\ App \in Thread
      /\ queue \in Seq(Commands)
  BY SizeFacts DEF TypeInv, MemoryType, WayType
<1>a. \A t \in Thread : local[t].n \in Nat
  BY LocalFacts
<1>1. ASSUME SyncUnread PROVE base' \in Nat
  BY <1>1, <1>0, <1>a DEF SyncUnread, At, Done
<1>2. ASSUME DoUnreadCount PROVE base' \in Nat
  <2>1. Head(queue).note.n \in Nat
    BY <1>2, <1>0, TakeFacts, CommandFacts DEF DoUnreadCount, TakeNote, Notices
  <2>2. Max({base, Min({Head(queue).note.n, LocalMax})}) \in Nat
    BY <1>0, <2>1, LesserNat, GreaterNat
  <2> QED BY <1>2, <1>0, <2>2 DEF DoUnreadCount
<1>3. ASSUME SetUnreadCount PROVE base' \in Nat
  <2>1. Min({local[Worker].n, recorder}) \in Nat
    BY <1>0, <1>a, LesserNat
  <2> QED BY <1>3, <1>0, <2>1 DEF SetUnreadCount
<1>4. ASSUME NEW t \in Thread, ClearConversation(t) PROVE base' \in Nat
  BY <1>4, <1>0, <1>a, GreaterNat DEF ClearConversation, Step, At, Goto, Done, GotoWith
<1>5. ASSUME MarkCount PROVE base' \in Nat
  BY <1>5, <1>0, <1>a, GreaterNat DEF MarkCount, Step, At, Goto, Done
<1>6. ASSUME ClearedElsewhere \/ DeliverMsgs \/ DeliverNote \/ RequestSync
      PROVE  base' = base
  BY <1>6 DEF ClearedElsewhere, DeliverMsgs, DeliverNote, RequestSync, Event, Quiet, scenVars
<1>7. ASSUME NEW own \in BOOLEAN, Publish(own)
      PROVE  base' = base
  BY <1>7 DEF Publish, Quiet, scenVars
<1>8. ASSUME NEW n \in Seqs, RevokedElsewhere(n) \/ DeletedElsewhere(n) \/ ReadElsewhere(n) \/
         PeerReads(n)
      PROVE  base' = base
  BY <1>8 DEF RevokedElsewhere, DeletedElsewhere, ReadElsewhere, PeerReads, Event, Quiet,
    MarkOnServer, scenVars
<1>9. ASSUME DoMsgNew \/ ReadConversation \/ InsertMessages \/ UpdateConversation \/ SyncData \/
         SyncAnswer \/ UpdateLatest \/ DoRevokeMsg \/ DoDeleteMsgs \/ DoClearConversations \/
         DoReadDrawing \/ UpdateMessage
      PROVE  base' = base
  BY <1>9 DEF DoMsgNew, ReadConversation, InsertMessages, UpdateConversation, SyncData, SyncAnswer,
    UpdateLatest, DoRevokeMsg, DoDeleteMsgs, DoClearConversations, DoReadDrawing, UpdateMessage,
    Take, DoNote, TakeNote, scenVars
<1>10. ASSUME NEW t \in Thread, RevokeRow(t) \/ RevokeLatest(t) \/ DeleteRow(t) \/ DeleteCount(t) \/
         DeleteLatest(t) \/ WriteLatest(t) \/ ClearHasRead(t) \/ ClearRows(t) \/ ReadLatest(t) \/
         SetLatestRead(t)
      PROVE  base' = base
  BY <1>10 DEF RevokeRow, RevokeLatest, DeleteRow, DeleteCount, DeleteLatest, WriteLatest,
    ClearHasRead, ClearRows, ReadLatest, SetLatestRead, Step, scenVars
<1>11. ASSUME ClearMessages \/ MarkConversation \/ MarkRows \/ MarkRow \/ MarkDecr
      PROVE  base' = base
  BY <1>11 DEF ClearMessages, MarkConversation, MarkRows, MarkRow, MarkDecr, Start, MarkOnServer,
    Step, scenVars
<1>12. ASSUME NEW n \in Seqs, RevokeMessage(n) \/ DeleteMessage(n) \/ MarkMessage(n)
      PROVE  base' = base
  BY <1>12 DEF RevokeMessage, DeleteMessage, MarkMessage, Start, MarkOnServer, scenVars
<1>13. CASE UNCHANGED vars
  BY <1>13, <1>0 DEF vars, srvVars, wayVars, rowVars, memVars, scenVars
<1>14. ASSUME base' = base PROVE base' \in Nat
  BY <1>14, <1>0 DEF scenVars
<1>15. CASE World
  BY <1>15, <1>1, <1>2, <1>3, <1>4, <1>5, <1>6, <1>7, <1>8, <1>9, <1>10, <1>11, <1>12, <1>14 DEF
    World, Thread
<1>16. CASE Work
  BY <1>16, <1>1, <1>2, <1>3, <1>4, <1>5, <1>6, <1>7, <1>8, <1>9, <1>10, <1>11, <1>12, <1>14 DEF
    Work, Either, Thread
<1>17. CASE Call
  BY <1>17, <1>1, <1>2, <1>3, <1>4, <1>5, <1>6, <1>7, <1>8, <1>9, <1>10, <1>11, <1>12, <1>14 DEF
    Call, Either, Thread
<1> QED BY <1>15, <1>16, <1>17, <1>13 DEF Next

LEMMA NextSync ==
  ASSUME TypeInv, Sent, InOrder, [Next]_vars PROVE SyncBelow'
<1>0. LocalsType /\ SyncBelow /\ Worker \in Thread /\ App \in Thread /\ Worker # App /\ srvRead <= log
      /\ \A t \in Thread : t = Worker \/ t = App
  BY SizeFacts DEF TypeInv, MemoryType, LocalsType, Thread
<1>1. ASSUME DoMsgNew PROVE SyncBelow'
  BY <1>1, <1>0, CounterFacts DEF At, SyncBelow, Goes, GoesWith, Keeps, Ends, Still, srvVars,
    wayVars, rowVars, memVars, scenVars
<1>2. ASSUME SyncAnswer PROVE SyncBelow'
  BY <1>2, <1>0, SyncAnswerDoes DEF At, SyncBelow, Goes, GoesWith, Keeps, Ends, Still, srvVars,
    wayVars, rowVars, memVars, scenVars
<1>3. ASSUME ClearedElsewhere \/ DeliverMsgs \/ DeliverNote \/ RequestSync
      PROVE  recorder' = recorder /\ (local'[Worker].pc = "sync" => local'[Worker] = local[Worker])
  BY <1>3, <1>0, IdleTyped DEF ClearedElsewhere, DeliverMsgs, DeliverNote, RequestSync, Event,
    Quiet, srvVars, wayVars, rowVars, memVars, scenVars
<1>4. ASSUME NEW own \in BOOLEAN, Publish(own)
      PROVE  recorder' = recorder /\ (local'[Worker].pc = "sync" => local'[Worker] = local[Worker])
  BY <1>4, <1>0, IdleTyped DEF Publish, Quiet, srvVars, wayVars, rowVars, memVars, scenVars
<1>5. ASSUME NEW n \in Seqs, RevokedElsewhere(n) \/ DeletedElsewhere(n) \/ ReadElsewhere(n) \/
         PeerReads(n)
      PROVE  recorder' = recorder /\ (local'[Worker].pc = "sync" => local'[Worker] = local[Worker])
  BY <1>5, <1>0, IdleTyped DEF RevokedElsewhere, DeletedElsewhere, ReadElsewhere, PeerReads, Event,
    Quiet, MarkOnServer, srvVars, wayVars, rowVars, memVars, scenVars
<1>6. ASSUME ReadConversation \/ InsertMessages \/ UpdateConversation \/ SyncData \/ SyncUnread \/
         UpdateLatest
      PROVE  recorder' = recorder /\ (local'[Worker].pc = "sync" => local'[Worker] = local[Worker])
  BY <1>6, <1>0, IdleTyped, ReadConversationDoes, InsertMessagesDoes, UpdateConversationDoes,
    SyncDataDoes, SyncUnreadDoes, UpdateLatestDoes DEF srvVars, wayVars, rowVars, memVars, scenVars,
    Goes, GoesWith, Keeps, Ends, Still
<1>7. ASSUME DoRevokeMsg \/ DoDeleteMsgs \/ DoClearConversations \/ DoUnreadCount \/ SetUnreadCount
         \/ DoReadDrawing
      PROVE  recorder' = recorder /\ (local'[Worker].pc = "sync" => local'[Worker] = local[Worker])
  BY <1>7, <1>0, IdleTyped, DoRevokeMsgDoes, DoDeleteMsgsDoes, DoClearConversationsDoes,
    DoUnreadCountDoes, SetUnreadCountDoes, DoReadDrawingDoes DEF srvVars, wayVars, rowVars, memVars,
    scenVars, Goes, GoesWith, Keeps, Ends, Still
<1>8. ASSUME UpdateMessage
      PROVE  recorder' = recorder /\ (local'[Worker].pc = "sync" => local'[Worker] = local[Worker])
  BY <1>8, <1>0, IdleTyped, UpdateMessageDoes DEF srvVars, wayVars, rowVars, memVars, scenVars,
    Goes, GoesWith, Keeps, Ends, Still
<1>9. ASSUME NEW t \in Thread, RevokeRow(t) \/ RevokeLatest(t) \/ DeleteRow(t) \/ DeleteCount(t) \/
         DeleteLatest(t) \/ WriteLatest(t)
      PROVE  recorder' = recorder /\ (local'[Worker].pc = "sync" => local'[Worker] = local[Worker])
  <2>1. CASE RevokeRow(t) \/ RevokeLatest(t)
    BY <2>1, <1>0, IdleTyped, RevokeRowDoes, RevokeLatestDoes
       DEF srvVars, wayVars, rowVars, memVars, scenVars, Goes, GoesWith, Keeps, Ends, Still
  <2>2. CASE DeleteRow(t) \/ DeleteCount(t)
    BY <2>2, <1>0, IdleTyped, DeleteRowDoes, DeleteCountDoes
       DEF srvVars, wayVars, rowVars, memVars, scenVars, Goes, GoesWith, Keeps, Ends, Still
  <2>3. CASE DeleteLatest(t) \/ WriteLatest(t)
    BY <2>3, <1>0, IdleTyped, DeleteLatestDoes, WriteLatestDoes
       DEF srvVars, wayVars, rowVars, memVars, scenVars, Goes, GoesWith, Keeps, Ends, Still
  <2> QED BY <1>9, <2>1, <2>2, <2>3
<1>10. ASSUME NEW t \in Thread, ClearHasRead(t) \/ ClearRows(t) \/ ClearConversation(t) \/
         ReadLatest(t) \/ SetLatestRead(t)
      PROVE  recorder' = recorder /\ (local'[Worker].pc = "sync" => local'[Worker] = local[Worker])
  BY <1>10, <1>0, IdleTyped, ClearHasReadDoes, ClearRowsDoes, ClearConversationDoes, ReadLatestDoes,
    SetLatestReadDoes DEF srvVars, wayVars, rowVars, memVars, scenVars, Goes, GoesWith, Keeps, Ends,
    Still
<1>11. ASSUME ClearMessages \/ MarkConversation \/ MarkRows \/ MarkCount \/ MarkRow \/ MarkDecr
      PROVE  recorder' = recorder /\ (local'[Worker].pc = "sync" => local'[Worker] = local[Worker])
  BY <1>11, <1>0, IdleTyped, ClearMessagesDoes, MarkConversationDoes, MarkRowsDoes, MarkCountDoes,
    MarkRowDoes, MarkDecrDoes DEF srvVars, wayVars, rowVars, memVars, scenVars, Goes, GoesWith,
    Keeps, Ends, Still
<1>12. ASSUME NEW n \in Seqs, RevokeMessage(n) \/ DeleteMessage(n) \/ MarkMessage(n)
      PROVE  recorder' = recorder /\ (local'[Worker].pc = "sync" => local'[Worker] = local[Worker])
  BY <1>12, <1>0, IdleTyped, RevokeMessageDoes, DeleteMessageDoes, MarkMessageDoes DEF srvVars,
    wayVars, rowVars, memVars, scenVars, Goes, GoesWith, Keeps, Ends, Still
<1>13. CASE UNCHANGED vars
  BY <1>13, <1>0 DEF vars, srvVars, wayVars, rowVars, memVars, scenVars, At, SyncBelow
<1>14. ASSUME recorder' = recorder /\ (local'[Worker].pc = "sync" => local'[Worker] = local[Worker])
                PROVE SyncBelow'
  BY <1>14, <1>0 DEF srvVars, wayVars, rowVars, memVars, scenVars, At, SyncBelow
<1>15. CASE World
  BY <1>15, <1>1, <1>2, <1>3, <1>4, <1>5, <1>6, <1>7, <1>8, <1>9, <1>10, <1>11, <1>12, <1>14 DEF
    World, Thread
<1>16. CASE Work
  BY <1>16, <1>1, <1>2, <1>3, <1>4, <1>5, <1>6, <1>7, <1>8, <1>9, <1>10, <1>11, <1>12, <1>14 DEF
    Work, Either, Thread
<1>17. CASE Call
  BY <1>17, <1>1, <1>2, <1>3, <1>4, <1>5, <1>6, <1>7, <1>8, <1>9, <1>10, <1>11, <1>12, <1>14 DEF
    Call, Either, Thread
<1> QED BY <1>15, <1>16, <1>17, <1>13 DEF Next

LEMMA NextType == ASSUME TypeInv, Sent, InOrder, [Next]_vars PROVE TypeInv'
<1>1. MemoryType'
  BY NextLocals, NextRecorder, NextScenario, NextBase, NextSync DEF MemoryType, LocalsType, TypeInv
<1> QED BY <1>1, NextServer, NextWay, NextTable DEF TypeInv

-----------------------------------------------------------------------------
(* The order of what is on the way *)

(* What happens to the bundles in the queue. *)
Shifted(k) == \A i \in Batches' : i + k \in Batches /\ queue'[i] = queue[i + k]

LEMMA TakeShifts ==
  ASSUME queue \in Seq(Commands), NEW cmd, Take(cmd)
  PROVE  Shifted(1) /\ \A i \in 1..Len(queue') : i + 1 \in 1..Len(queue) /\ queue'[i] = queue[i + 1]
<1>1. /\ queue # <<>> /\ queue' = Tail(queue) /\ Len(Tail(queue)) = Len(queue) - 1 /\ Len(queue) >= 1
      /\ \A i \in 1..Len(Tail(queue)) : Tail(queue)[i] = queue[i + 1]
  BY TakeFacts
<1>2. Len(queue) \in Nat /\ Len(queue') = Len(queue) - 1
  BY <1>1
<1>3. \A i \in 1..Len(queue') : i + 1 \in 1..Len(queue) /\ queue'[i] = queue[i + 1]
  BY <1>1, <1>2
<1> QED BY <1>3 DEF Shifted, Batches

LEMMA AppendKeeps ==
  ASSUME queue \in Seq(Commands), NEW c, queue' = Append(queue, c)
  PROVE  /\ Len(queue') = Len(queue) + 1 /\ Len(queue) \in Nat /\ queue'[Len(queue) + 1] = c
         /\ \A i \in 1..Len(queue) : queue'[i] = queue[i]
         /\ \A i \in Batches' : (i \in Batches /\ queue'[i] = queue[i])
              \/ (i = Len(queue) + 1 /\ c.cmd = "msgs")
         /\ c.cmd # "msgs" => Shifted(0)
<1>1. /\ Len(queue') = Len(queue) + 1 /\ Len(queue) \in Nat /\ queue'[Len(queue) + 1] = c
      /\ \A i \in 1..Len(queue) : queue'[i] = queue[i]
  OBVIOUS
<1>2. \A i \in Batches' : (i \in Batches /\ queue'[i] = queue[i]) \/ (i = Len(queue) + 1 /\ c.cmd = "msgs")
  BY <1>1 DEF Batches
<1>3. c.cmd # "msgs" => Shifted(0)
  BY <1>2 DEF Shifted, Batches
<1> QED BY <1>1, <1>2, <1>3

LEMMA QueueShifts == ASSUME TypeInv, [Next]_vars PROVE DeliverMsgs \/ \E k \in {0, 1} : Shifted(k)
<1> DEFINE Fine == \E k \in {0, 1} : Shifted(k)
<1> SUFFICES ASSUME ~DeliverMsgs PROVE Fine
  OBVIOUS
<1>0. queue \in Seq(Commands)
  BY DEF TypeInv, WayType
<1>a. queue' = queue => Fine
  <2>1. ASSUME queue' = queue PROVE Shifted(0)
    BY <1>0, <2>1 DEF Shifted, Batches
  <2> QED BY <2>1
<1>1. ASSUME DeliverMsgs PROVE Fine
  BY <1>1
<1>2. ASSUME DeliverNote PROVE Fine
  <2>1. queue' = Append(queue, [cmd |-> "note", note |-> notes[noted + 1]])
    BY <1>2 DEF DeliverNote
  <2> QED BY <1>0, <2>1, AppendKeeps
<1>3. ASSUME RequestSync PROVE Fine
  <2>1. queue' = Append(queue, [cmd |-> "sync"])
    BY <1>3 DEF RequestSync
  <2> QED BY <1>0, <2>1, AppendKeeps
<1>4. ASSUME NEW cmd, Take(cmd) PROVE Fine
  BY <1>4, <1>0, TakeShifts
<1>5. ASSUME DoMsgNew \/ SyncData \/ UpdateLatest \/ DoRevokeMsg \/ DoDeleteMsgs \/
         DoClearConversations \/ DoUnreadCount \/ DoReadDrawing
      PROVE  Fine
  BY <1>4, <1>5 DEF DoMsgNew, SyncData, UpdateLatest, DoRevokeMsg, DoDeleteMsgs,
    DoClearConversations, DoUnreadCount, DoReadDrawing, DoNote, TakeNote
<1>6. ASSUME UpdateMessage PROVE Fine
  <2>1. queue' = queue \/ queue' = Append(queue, [cmd |-> "latest", conv |-> local[Worker].conv])
    BY <1>6 DEF UpdateMessage
  <2>2. queue' = queue => Shifted(0)
    BY <1>0 DEF Shifted, Batches
  <2> QED BY <1>0, <2>1, <2>2, AppendKeeps
<1>7. ASSUME ClearedElsewhere
      PROVE  queue' = queue
  BY <1>7 DEF ClearedElsewhere, Event, Quiet, wayVars
<1>8. ASSUME NEW own \in BOOLEAN, Publish(own)
      PROVE  queue' = queue
  BY <1>8 DEF Publish, Quiet, wayVars
<1>9. ASSUME NEW n \in Seqs, RevokedElsewhere(n) \/ DeletedElsewhere(n) \/ ReadElsewhere(n) \/
         PeerReads(n)
      PROVE  queue' = queue
  BY <1>9 DEF RevokedElsewhere, DeletedElsewhere, ReadElsewhere, PeerReads, Event, Quiet,
    MarkOnServer, wayVars
<1>10. ASSUME ReadConversation \/ InsertMessages \/ UpdateConversation \/ SyncAnswer \/ SyncUnread
         \/ SetUnreadCount
      PROVE  queue' = queue
  BY <1>10 DEF ReadConversation, InsertMessages, UpdateConversation, SyncAnswer, SyncUnread,
    SetUnreadCount, wayVars
<1>11. ASSUME NEW t \in Thread, RevokeRow(t) \/ RevokeLatest(t) \/ DeleteRow(t) \/ DeleteCount(t) \/
         DeleteLatest(t) \/ WriteLatest(t) \/ ClearHasRead(t) \/ ClearRows(t) \/
         ClearConversation(t) \/ ReadLatest(t) \/ SetLatestRead(t)
      PROVE  queue' = queue
  BY <1>11 DEF RevokeRow, RevokeLatest, DeleteRow, DeleteCount, DeleteLatest, WriteLatest,
    ClearHasRead, ClearRows, ClearConversation, ReadLatest, SetLatestRead, Step, wayVars
<1>12. ASSUME ClearMessages \/ MarkConversation \/ MarkRows \/ MarkCount \/ MarkRow \/ MarkDecr
      PROVE  queue' = queue
  BY <1>12 DEF ClearMessages, MarkConversation, MarkRows, MarkCount, MarkRow, MarkDecr, Start,
    MarkOnServer, Step, wayVars
<1>13. ASSUME NEW n \in Seqs, RevokeMessage(n) \/ DeleteMessage(n) \/ MarkMessage(n)
      PROVE  queue' = queue
  BY <1>13 DEF RevokeMessage, DeleteMessage, MarkMessage, Start, MarkOnServer, wayVars
<1>14. CASE UNCHANGED vars
  BY <1>14, <1>0, <1>a DEF vars, srvVars, wayVars, rowVars, memVars, scenVars
<1>15. ASSUME queue' = queue PROVE Fine
  BY <1>15, <1>0, <1>a DEF wayVars
<1>16. CASE World
  BY <1>16, <1>1, <1>2, <1>3, <1>5, <1>6, <1>7, <1>8, <1>9, <1>10, <1>11, <1>12, <1>13, <1>15 DEF
    World, Thread
<1>17. CASE Work
  BY <1>17, <1>1, <1>2, <1>3, <1>5, <1>6, <1>7, <1>8, <1>9, <1>10, <1>11, <1>12, <1>13, <1>15 DEF
    Work, Either, Thread
<1>18. CASE Call
  BY <1>18, <1>1, <1>2, <1>3, <1>5, <1>6, <1>7, <1>8, <1>9, <1>10, <1>11, <1>12, <1>13, <1>15 DEF
    Call, Either, Thread
<1> QED BY <1>16, <1>17, <1>18, <1>14 DEF Next

LEMMA DeliverShifts ==
  ASSUME TypeInv, DeliverMsgs
  PROVE  LET b == queue'[Len(queue) + 1].batch IN
           /\ \A i \in Batches' : (i \in Batches /\ queue'[i] = queue[i]) \/ i = Len(queue) + 1
           /\ b.from = sent + 1 /\ b.to = log /\ b.gone = srvGone /\ b.rev = srvRevoked
           /\ sent < log /\ sent' = log /\ Len(queue') = Len(queue) + 1 /\ Len(queue) \in Nat
           /\ \A i \in 1..Len(queue) : queue'[i] = queue[i]
           /\ queue'[Len(queue) + 1].cmd = "msgs"
           /\ UNCHANGED <<srvVars, noted, ops, rowVars, memVars, local, single, serial, base>>
<1> DEFINE c == [cmd |-> "msgs", batch |-> [from |-> sent + 1, to |-> log, gone |-> srvGone, rev |-> srvRevoked,
                                            count |-> 0]]
<1>1. queue' = Append(queue, c)
  BY DEF DeliverMsgs
<1>2. queue \in Seq(Commands)
  BY DEF TypeInv, WayType
<1>3. c.batch.from = sent + 1 /\ c.batch.to = log /\ c.batch.gone = srvGone /\ c.batch.rev = srvRevoked
      /\ c.cmd = "msgs"
  OBVIOUS
<1> HIDE DEF c
<1>4. /\ \A i \in Batches' : (i \in Batches /\ queue'[i] = queue[i]) \/ i = Len(queue) + 1
      /\ queue'[Len(queue) + 1] = c /\ Len(queue') = Len(queue) + 1 /\ Len(queue) \in Nat
      /\ \A i \in 1..Len(queue) : queue'[i] = queue[i]
  BY <1>1, <1>2, AppendKeeps
<1>5. sent < log /\ sent' = log /\ UNCHANGED <<srvVars, noted, ops, rowVars, memVars, local, single, serial, base>>
  BY DEF DeliverMsgs, Quiet
<1> QED BY <1>3, <1>4, <1>5

LEMMA SentGrows ==
  ASSUME TypeInv, [Next]_vars
  PROVE  sent' \in Nat /\ sent <= sent' /\ (~DeliverMsgs => sent' = sent)
<1>0. sent \in Nat /\ log \in Nat /\ sent <= log
  BY DEF TypeInv, ServerType, WayType
<1>1. ASSUME DeliverMsgs PROVE sent' \in Nat /\ sent <= sent' /\ (~DeliverMsgs => sent' = sent)
  BY <1>1, <1>0 DEF DeliverMsgs, Quiet
<1>2. ASSUME ClearedElsewhere \/ DeliverNote \/ RequestSync
      PROVE  sent' = sent
  BY <1>2 DEF ClearedElsewhere, DeliverNote, RequestSync, Event, Quiet, wayVars
<1>3. ASSUME NEW own \in BOOLEAN, Publish(own)
      PROVE  sent' = sent
  BY <1>3 DEF Publish, Quiet, wayVars
<1>4. ASSUME NEW n \in Seqs, RevokedElsewhere(n) \/ DeletedElsewhere(n) \/ ReadElsewhere(n) \/
         PeerReads(n)
      PROVE  sent' = sent
  BY <1>4 DEF RevokedElsewhere, DeletedElsewhere, ReadElsewhere, PeerReads, Event, Quiet,
    MarkOnServer, wayVars
<1>5. ASSUME DoMsgNew \/ ReadConversation \/ InsertMessages \/ UpdateConversation \/ SyncData \/
         SyncAnswer \/ SyncUnread \/ UpdateLatest \/ DoRevokeMsg \/ DoDeleteMsgs \/
         DoClearConversations \/ DoUnreadCount \/ SetUnreadCount \/ DoReadDrawing \/ UpdateMessage
      PROVE  sent' = sent
  BY <1>5 DEF DoMsgNew, ReadConversation, InsertMessages, UpdateConversation, SyncData, SyncAnswer,
    SyncUnread, UpdateLatest, DoRevokeMsg, DoDeleteMsgs, DoClearConversations, DoUnreadCount,
    SetUnreadCount, DoReadDrawing, UpdateMessage, Take, DoNote, TakeNote, wayVars
<1>6. ASSUME NEW t \in Thread, RevokeRow(t) \/ RevokeLatest(t) \/ DeleteRow(t) \/ DeleteCount(t) \/
         DeleteLatest(t) \/ WriteLatest(t) \/ ClearHasRead(t) \/ ClearRows(t) \/
         ClearConversation(t) \/ ReadLatest(t) \/ SetLatestRead(t)
      PROVE  sent' = sent
  BY <1>6 DEF RevokeRow, RevokeLatest, DeleteRow, DeleteCount, DeleteLatest, WriteLatest,
    ClearHasRead, ClearRows, ClearConversation, ReadLatest, SetLatestRead, Step, wayVars
<1>7. ASSUME ClearMessages \/ MarkConversation \/ MarkRows \/ MarkCount \/ MarkRow \/ MarkDecr
      PROVE  sent' = sent
  BY <1>7 DEF ClearMessages, MarkConversation, MarkRows, MarkCount, MarkRow, MarkDecr, Start,
    MarkOnServer, Step, wayVars
<1>8. ASSUME NEW n \in Seqs, RevokeMessage(n) \/ DeleteMessage(n) \/ MarkMessage(n)
      PROVE  sent' = sent
  BY <1>8 DEF RevokeMessage, DeleteMessage, MarkMessage, Start, MarkOnServer, wayVars
<1>9. CASE UNCHANGED vars
  BY <1>9, <1>0 DEF vars, srvVars, wayVars, rowVars, memVars, scenVars
<1>10. ASSUME sent' = sent PROVE sent' \in Nat /\ sent <= sent' /\ (~DeliverMsgs => sent' = sent)
  BY <1>10, <1>0 DEF wayVars
<1>11. CASE World
  BY <1>11, <1>1, <1>2, <1>3, <1>4, <1>5, <1>6, <1>7, <1>8, <1>10 DEF World, Thread
<1>12. CASE Work
  BY <1>12, <1>1, <1>2, <1>3, <1>4, <1>5, <1>6, <1>7, <1>8, <1>10 DEF Work, Either, Thread
<1>13. CASE Call
  BY <1>13, <1>1, <1>2, <1>3, <1>4, <1>5, <1>6, <1>7, <1>8, <1>10 DEF Call, Either, Thread
<1> QED BY <1>11, <1>12, <1>13, <1>9 DEF Next

(* Rows appear only when messages are inserted. *)
Fewer == \A n \in Seqs : rows'[n].st # "none" => rows[n].st # "none"

LEMMA RowsGrow == ASSUME TypeInv, [Next]_vars PROVE InsertMessages \/ Fewer
<1> SUFFICES ASSUME ~InsertMessages PROVE Fewer
  OBVIOUS
<1>0. LocalsType /\ rows \in [Seqs -> Row] /\ \A n \in Seqs : rows[n] \in Row
  BY DEF TypeInv, TableType, LocalsType, MemoryType
<1>1. ASSUME InsertMessages PROVE Fewer
  BY <1>1
<1>2. ASSUME DoUnreadCount PROVE Fewer
  <2>1. rows' = rows \/ \E S : rows' = [n \in Seqs |-> [rows[n] EXCEPT !.read = @ \/ n \in S]]
    BY <1>2 DEF DoUnreadCount
  <2>2. ASSUME NEW S, rows' = [n \in Seqs |-> [rows[n] EXCEPT !.read = @ \/ n \in S]] PROVE Fewer
    <3>1. \A n \in Seqs : [rows[n] EXCEPT !.read = @ \/ n \in S].st = rows[n].st
      BY <1>0 DEF Row
    <3> QED BY <2>2, <3>1 DEF Fewer
  <2>3. rows' = rows => Fewer
    BY DEF Fewer
  <2> QED BY <2>1, <2>2, <2>3
<1>3. ASSUME UpdateMessage PROVE Fewer
  <2>1. \/ rows' = rows
        \/ /\ rows[local[Worker].n].st # "none"
           /\ rows' = [rows EXCEPT ![local[Worker].n] = [local[Worker].row EXCEPT !.read = TRUE]]
    BY <1>3 DEF UpdateMessage
  <2> QED BY <1>0, <2>1 DEF Fewer
<1>4. ASSUME NEW t \in Thread, RevokeRow(t) PROVE Fewer
  <2>1. rows' = rows \/ rows' = [rows EXCEPT ![local[t].n].rev = TRUE]
    BY <1>4 DEF RevokeRow
  <2>2. \A n \in Seqs : [rows[n] EXCEPT !.rev = TRUE].st = rows[n].st
    BY <1>0 DEF Row
  <2> QED BY <1>0, <2>1, <2>2 DEF Fewer
<1>5. ASSUME NEW t \in Thread, DeleteRow(t) PROVE Fewer
  <2>1. \/ rows' = rows
        \/ rows[local[t].n].st # "none" /\ rows' = [rows EXCEPT ![local[t].n].st = "deleted"]
    BY <1>5 DEF DeleteRow
  <2> QED BY <1>0, <2>1 DEF Fewer
<1>6. ASSUME NEW t \in Thread, ClearRows(t) PROVE Fewer
  BY <1>6, IdleTyped DEF ClearRows, Fewer
<1>7. ASSUME MarkRows PROVE Fewer
  <2>1. rows' = [n \in Seqs |->
                   IF n <= local[App].n /\ Unread(n) THEN [rows[n] EXCEPT !.read = TRUE] ELSE rows[n]]
    BY <1>7 DEF MarkRows
  <2>2. \A n \in Seqs : [rows[n] EXCEPT !.read = TRUE].st = rows[n].st
    BY <1>0 DEF Row
  <2> QED BY <2>1, <2>2 DEF Fewer
<1>8. ASSUME MarkRow PROVE Fewer
  <2>1. rows' = rows \/ rows' = [rows EXCEPT ![local[App].n].read = TRUE]
    BY <1>8 DEF MarkRow
  <2>2. \A n \in Seqs : [rows[n] EXCEPT !.read = TRUE].st = rows[n].st
    BY <1>0 DEF Row
  <2> QED BY <1>0, <2>1, <2>2 DEF Fewer
<1>9. ASSUME ClearedElsewhere \/ DeliverMsgs \/ DeliverNote \/ RequestSync
      PROVE  rows' = rows
  BY <1>9 DEF ClearedElsewhere, DeliverMsgs, DeliverNote, RequestSync, Event, Quiet, rowVars
<1>10. ASSUME NEW own \in BOOLEAN, Publish(own)
      PROVE  rows' = rows
  BY <1>10 DEF Publish, Quiet, rowVars
<1>11. ASSUME NEW n \in Seqs, RevokedElsewhere(n) \/ DeletedElsewhere(n) \/ ReadElsewhere(n) \/
         PeerReads(n)
      PROVE  rows' = rows
  BY <1>11 DEF RevokedElsewhere, DeletedElsewhere, ReadElsewhere, PeerReads, Event, Quiet,
    MarkOnServer, rowVars
<1>12. ASSUME DoMsgNew \/ ReadConversation \/ UpdateConversation \/ SyncData \/ SyncAnswer \/
         SyncUnread \/ UpdateLatest \/ DoRevokeMsg \/ DoDeleteMsgs \/ DoClearConversations \/
         SetUnreadCount \/ DoReadDrawing
      PROVE  rows' = rows
  BY <1>12 DEF DoMsgNew, ReadConversation, UpdateConversation, SyncData, SyncAnswer, SyncUnread,
    UpdateLatest, DoRevokeMsg, DoDeleteMsgs, DoClearConversations, SetUnreadCount, DoReadDrawing,
    Take, DoNote, TakeNote, rowVars
<1>13. ASSUME NEW t \in Thread, RevokeLatest(t) \/ DeleteCount(t) \/ DeleteLatest(t) \/
         WriteLatest(t) \/ ClearHasRead(t) \/ ClearConversation(t) \/ ReadLatest(t) \/
         SetLatestRead(t)
      PROVE  rows' = rows
  BY <1>13 DEF RevokeLatest, DeleteCount, DeleteLatest, WriteLatest, ClearHasRead,
    ClearConversation, ReadLatest, SetLatestRead, Step, rowVars
<1>14. ASSUME ClearMessages \/ MarkConversation \/ MarkCount \/ MarkDecr
      PROVE  rows' = rows
  BY <1>14 DEF ClearMessages, MarkConversation, MarkCount, MarkDecr, Start, MarkOnServer, Step,
    rowVars
<1>15. ASSUME NEW n \in Seqs, RevokeMessage(n) \/ DeleteMessage(n) \/ MarkMessage(n)
      PROVE  rows' = rows
  BY <1>15 DEF RevokeMessage, DeleteMessage, MarkMessage, Start, MarkOnServer, rowVars
<1>16. CASE UNCHANGED vars
  BY <1>16, <1>0 DEF vars, srvVars, wayVars, rowVars, memVars, scenVars, Fewer
<1>17. ASSUME rows' = rows PROVE Fewer
  BY <1>17, <1>0 DEF rowVars, Fewer
<1>18. CASE World
  BY <1>18, <1>1, <1>2, <1>3, <1>4, <1>5, <1>6, <1>7, <1>8, <1>9, <1>10, <1>11, <1>12, <1>13, <1>14,
    <1>15, <1>17 DEF World, Thread
<1>19. CASE Work
  BY <1>19, <1>1, <1>2, <1>3, <1>4, <1>5, <1>6, <1>7, <1>8, <1>9, <1>10, <1>11, <1>12, <1>13, <1>14,
    <1>15, <1>17 DEF Work, Either, Thread
<1>20. CASE Call
  BY <1>20, <1>1, <1>2, <1>3, <1>4, <1>5, <1>6, <1>7, <1>8, <1>9, <1>10, <1>11, <1>12, <1>13, <1>14,
    <1>15, <1>17 DEF Call, Either, Thread
<1> QED BY <1>18, <1>19, <1>20, <1>16 DEF Next

(* The worker has a bundle in its hands. *)
Holds == local[Worker].pc \in {"lock", "insert", "update"}
StillHolds == Holds' => Holds /\ local'[Worker].batch = local[Worker].batch

LEMMA BatchStays == ASSUME TypeInv, [Next]_vars PROVE DoMsgNew \/ StillHolds
<1> SUFFICES ASSUME ~DoMsgNew PROVE StillHolds
  OBVIOUS
<1>0. LocalsType /\ Worker \in Thread /\ App \in Thread /\ Worker # App
        /\ \A t \in Thread : t = Worker \/ t = App
  BY DEF TypeInv, MemoryType, LocalsType, Thread, Worker, App
<1>1. ASSUME DoMsgNew PROVE StillHolds
  BY <1>1
<1>2. ASSUME ClearedElsewhere \/ DeliverMsgs \/ DeliverNote \/ RequestSync
      PROVE  StillHolds
  BY <1>2, <1>0, IdleTyped DEF ClearedElsewhere, DeliverMsgs, DeliverNote, RequestSync, Event,
    Quiet, srvVars, wayVars, rowVars, memVars, scenVars, StillHolds, Holds
<1>3. ASSUME NEW own \in BOOLEAN, Publish(own)
      PROVE  StillHolds
  BY <1>3, <1>0, IdleTyped DEF Publish, Quiet, srvVars, wayVars, rowVars, memVars, scenVars,
    StillHolds, Holds
<1>4. ASSUME NEW n \in Seqs, RevokedElsewhere(n) \/ DeletedElsewhere(n) \/ ReadElsewhere(n) \/
         PeerReads(n)
      PROVE  StillHolds
  BY <1>4, <1>0, IdleTyped DEF RevokedElsewhere, DeletedElsewhere, ReadElsewhere, PeerReads, Event,
    Quiet, MarkOnServer, srvVars, wayVars, rowVars, memVars, scenVars, StillHolds, Holds
<1>5. ASSUME ReadConversation \/ InsertMessages \/ UpdateConversation \/ SyncData
      PROVE  StillHolds
  BY <1>5, <1>0, IdleTyped, ReadConversationDoes, InsertMessagesDoes, UpdateConversationDoes,
    SyncDataDoes DEF srvVars, wayVars, rowVars, memVars, scenVars, StillHolds, Holds, Goes,
    GoesWith, Keeps, Ends, Still
<1>6. ASSUME SyncAnswer \/ SyncUnread \/ UpdateLatest \/ DoRevokeMsg
      PROVE  StillHolds
  BY <1>6, <1>0, IdleTyped, SyncAnswerDoes, SyncUnreadDoes, UpdateLatestDoes, DoRevokeMsgDoes DEF
    srvVars, wayVars, rowVars, memVars, scenVars, StillHolds, Holds, Goes, GoesWith, Keeps, Ends,
    Still
<1>7. ASSUME DoDeleteMsgs \/ DoClearConversations \/ DoUnreadCount \/ SetUnreadCount
      PROVE  StillHolds
  BY <1>7, <1>0, IdleTyped, DoDeleteMsgsDoes, DoClearConversationsDoes, DoUnreadCountDoes,
    SetUnreadCountDoes DEF srvVars, wayVars, rowVars, memVars, scenVars, StillHolds, Holds, Goes,
    GoesWith, Keeps, Ends, Still
<1>8. ASSUME DoReadDrawing \/ UpdateMessage
      PROVE  StillHolds
  BY <1>8, <1>0, IdleTyped, DoReadDrawingDoes, UpdateMessageDoes DEF srvVars, wayVars, rowVars,
    memVars, scenVars, StillHolds, Holds, Goes, GoesWith, Keeps, Ends, Still
<1>9. ASSUME NEW t \in Thread, RevokeRow(t) \/ RevokeLatest(t) \/ DeleteRow(t) \/ DeleteCount(t)
      PROVE  StillHolds
  BY <1>9, <1>0, IdleTyped, RevokeRowDoes, RevokeLatestDoes, DeleteRowDoes, DeleteCountDoes DEF
    srvVars, wayVars, rowVars, memVars, scenVars, StillHolds, Holds, Goes, GoesWith, Keeps, Ends,
    Still
<1>10. ASSUME NEW t \in Thread, DeleteLatest(t) \/ WriteLatest(t) \/ ClearHasRead(t) \/ ClearRows(t)
      PROVE  StillHolds
  BY <1>10, <1>0, IdleTyped, DeleteLatestDoes, WriteLatestDoes, ClearHasReadDoes, ClearRowsDoes DEF
    srvVars, wayVars, rowVars, memVars, scenVars, StillHolds, Holds, Goes, GoesWith, Keeps, Ends,
    Still
<1>11. ASSUME NEW t \in Thread, ClearConversation(t) \/ ReadLatest(t) \/ SetLatestRead(t)
      PROVE  StillHolds
  BY <1>11, <1>0, IdleTyped, ClearConversationDoes, ReadLatestDoes, SetLatestReadDoes DEF srvVars,
    wayVars, rowVars, memVars, scenVars, StillHolds, Holds, Goes, GoesWith, Keeps, Ends, Still
<1>12. ASSUME ClearMessages \/ MarkConversation \/ MarkRows \/ MarkCount
      PROVE  StillHolds
  BY <1>12, <1>0, IdleTyped, ClearMessagesDoes, MarkConversationDoes, MarkRowsDoes, MarkCountDoes
    DEF srvVars, wayVars, rowVars, memVars, scenVars, StillHolds, Holds, Goes, GoesWith, Keeps,
    Ends, Still
<1>13. ASSUME MarkRow \/ MarkDecr
      PROVE  StillHolds
  BY <1>13, <1>0, IdleTyped, MarkRowDoes, MarkDecrDoes DEF srvVars, wayVars, rowVars, memVars,
    scenVars, StillHolds, Holds, Goes, GoesWith, Keeps, Ends, Still
<1>14. ASSUME NEW n \in Seqs, RevokeMessage(n) \/ DeleteMessage(n) \/ MarkMessage(n)
      PROVE  StillHolds
  BY <1>14, <1>0, IdleTyped, RevokeMessageDoes, DeleteMessageDoes, MarkMessageDoes DEF srvVars,
    wayVars, rowVars, memVars, scenVars, StillHolds, Holds, Goes, GoesWith, Keeps, Ends, Still
<1>15. CASE UNCHANGED vars
  BY <1>15, <1>0 DEF vars, srvVars, wayVars, rowVars, memVars, scenVars, StillHolds, Holds
<1>16. ASSUME StillHolds PROVE StillHolds
  BY <1>16, <1>0 DEF srvVars, wayVars, rowVars, memVars, scenVars, StillHolds, Holds
<1>17. CASE World
  BY <1>17, <1>1, <1>2, <1>3, <1>4, <1>5, <1>6, <1>7, <1>8, <1>9, <1>10, <1>11, <1>12, <1>13, <1>14,
    <1>16 DEF World, Thread
<1>18. CASE Work
  BY <1>18, <1>1, <1>2, <1>3, <1>4, <1>5, <1>6, <1>7, <1>8, <1>9, <1>10, <1>11, <1>12, <1>13, <1>14,
    <1>16 DEF Work, Either, Thread
<1>19. CASE Call
  BY <1>19, <1>1, <1>2, <1>3, <1>4, <1>5, <1>6, <1>7, <1>8, <1>9, <1>10, <1>11, <1>12, <1>13, <1>14,
    <1>16 DEF Call, Either, Thread
<1> QED BY <1>17, <1>18, <1>19, <1>15 DEF Next

WayInv == Sent /\ InOrder /\ Handed

LEMMA BatchTyped == ASSUME queue \in Seq(Commands), NEW i \in Batches
                    PROVE  queue[i].batch \in Bundles /\ queue[i].batch.from \in Nat
                             /\ queue[i].batch.to \in Nat
<1>1. queue[i] \in Commands /\ queue[i].cmd = "msgs"
  BY DEF Batches
<1> QED BY <1>1, CommandFacts DEF Bundles

LEMMA NextWayInv == ASSUME TypeInv, WayInv, [Next]_vars PROVE WayInv'
<1>0. /\ queue \in Seq(Commands) /\ sent \in Nat /\ log \in Nat /\ sent <= log
      /\ sent' \in Nat /\ sent <= sent' /\ Len(queue) \in Nat /\ MaxSeq \in Nat
  BY SentGrows, SizeAssumption DEF TypeInv, ServerType, WayType
<1>1. Sent'
  <2>1. CASE InsertMessages
    <3>1. /\ local[Worker].pc = "insert" /\ sent' = sent
          /\ \A n \in Seqs : rows'[n].st # "none" =>
               rows[n].st # "none" \/ n \in local[Worker].batch.from..local[Worker].batch.to
      BY <2>1 DEF InsertMessages, At, wayVars, Fresh
    <3>2. local[Worker].batch.to <= sent /\ local[Worker].batch.to \in Nat /\ local[Worker].batch.from \in Nat
      BY <3>1, LocalFacts DEF WayInv, Handed, Thread
    <3>3. ASSUME NEW n \in Seqs, rows'[n].st # "none" PROVE n <= sent
      BY <1>0, <3>1, <3>2, <3>3 DEF WayInv, Sent, Seqs
    <3> QED BY <3>1, <3>3 DEF Sent
  <2>2. CASE Fewer
    BY <1>0, <2>2 DEF WayInv, Sent, Fewer, Seqs
  <2> QED BY <2>1, <2>2, RowsGrow
<1>2. InOrder'
  <2>1. CASE DeliverMsgs
    <3> DEFINE b == queue'[Len(queue) + 1].batch
    <3>1. /\ \A i \in Batches' : (i \in Batches /\ queue'[i] = queue[i]) \/ i = Len(queue) + 1
          /\ b.from = sent + 1 /\ b.to = log /\ sent < log /\ sent' = log
      BY <2>1, DeliverShifts
    <3>2. \A i \in Batches : i \in 1..Len(queue)
      BY DEF Batches
    <3> SUFFICES ASSUME NEW i \in Batches'
                 PROVE  /\ queue'[i].batch.from >= 1 /\ queue'[i].batch.from <= queue'[i].batch.to
                        /\ queue'[i].batch.to <= sent'
                        /\ \A j \in Batches' : i < j => queue'[i].batch.to < queue'[j].batch.from
      BY DEF InOrder
    <3>3. CASE i = Len(queue) + 1
      <4>1. \A j \in Batches' : ~(i < j)
        BY <1>0, <3>1, <3>2, <3>3
      <4> HIDE DEF b
      <4> QED BY <1>0, <3>1, <3>3, <4>1 DEF b
    <3>4. CASE i \in Batches /\ queue'[i] = queue[i]
      <4>1. /\ queue[i].batch.from >= 1 /\ queue[i].batch.from <= queue[i].batch.to
            /\ queue[i].batch.to <= sent /\ queue[i].batch.to \in Nat
            /\ \A j \in Batches : i < j => queue[i].batch.to < queue[j].batch.from
        BY <1>0, <3>4, BatchTyped DEF WayInv, InOrder
      <4>2. ASSUME NEW j \in Batches', i < j PROVE queue[i].batch.to < queue'[j].batch.from
        <5>1. CASE j = Len(queue) + 1
          BY <1>0, <3>1, <4>1, <5>1
        <5>2. CASE j \in Batches /\ queue'[j] = queue[j]
          BY <4>1, <4>2, <5>2
        <5> QED BY <3>1, <5>1, <5>2
      <4> HIDE DEF b
      <4> QED BY <1>0, <3>1, <3>4, <4>1, <4>2
    <3> HIDE DEF b
    <3> QED BY <3>1, <3>3, <3>4
  <2>2. ASSUME NEW k \in {0, 1}, Shifted(k) PROVE InOrder'
    <3> SUFFICES ASSUME NEW i \in Batches'
                 PROVE  /\ queue'[i].batch.from >= 1 /\ queue'[i].batch.from <= queue'[i].batch.to
                        /\ queue'[i].batch.to <= sent'
                        /\ \A j \in Batches' : i < j => queue'[i].batch.to < queue'[j].batch.from
      BY DEF InOrder
    <3>1. i + k \in Batches /\ queue'[i] = queue[i + k]
          /\ \A j \in Batches' : j + k \in Batches /\ queue'[j] = queue[j + k]
      BY <2>2 DEF Shifted
    <3>2. i \in Int /\ \A j \in Batches' : j \in Int
      BY DEF Batches
    <3>3. \A j \in Batches' : i < j => i + k < j + k
      BY <3>2
    <3>4. queue[i + k].batch.to \in Nat
      BY <1>0, <3>1, BatchTyped
    <3> QED BY <1>0, <3>1, <3>3, <3>4 DEF WayInv, InOrder
  <2> QED BY <2>1, <2>2, QueueShifts
<1>3. Handed'
  <2>1. CASE DoMsgNew
    BY <1>0, <2>1, CounterFacts, SentGrows DEF Handed, WayInv
  <2>2. CASE StillHolds
    <3>1. Holds => local[Worker].batch.to <= sent /\ local[Worker].batch.to \in Nat
      BY LocalFacts DEF WayInv, Handed, Holds, Thread
    <3>2. Holds' => local'[Worker].batch.to <= sent'
      BY <1>0, <2>2, <3>1 DEF StillHolds
    <3> QED BY <3>2 DEF Handed, Holds
  <2> QED BY <2>1, <2>2, BatchStays
<1> QED BY <1>1, <1>2, <1>3 DEF WayInv

-----------------------------------------------------------------------------
(***************************************************************************)
(* The mutex of the marks and of the worker's writes; handlers that do not *)
(* overlap, where the run says so; and the count, which only sinks while   *)
(* the worker has a synchronisation's answer in its hands.                 *)
(***************************************************************************)
Locked ==
  /\ local[App].pc \in {"markRows", "markCount"} => mutex = App
  /\ local[Worker].pc \in {"insert", "update", "sync"} => mutex = Worker
Turns  == serial => local[App].pc = "idle" \/ local[Worker].pc = "idle"
Sinks  == local[Worker].pc = "sync" => conv.unread <= local[Worker].conv.unread
Apart  == Locked /\ Turns /\ Sinks

LEMMA NextLocked == ASSUME TypeInv, InOrder, Locked, [Next]_vars PROVE Locked'
<1>0. LocalsType /\ Worker \in Thread /\ App \in Thread /\ Worker # App /\ Worker # "free" /\ App # "free"
      /\ (\A t \in Thread : t = Worker \/ t = App) /\ queue \in Seq(Commands) /\ Locked
  BY DEF TypeInv, MemoryType, LocalsType, Thread, Worker, App, WayType
<1>1. ASSUME DoMsgNew PROVE Locked'
  BY <1>1, <1>0, TakeFacts, CounterFacts DEF Locked, Goes, GoesWith, Keeps, Ends, Still, srvVars,
    wayVars, rowVars, memVars, scenVars
<1>2. ASSUME ClearedElsewhere \/ DeliverMsgs \/ DeliverNote \/ RequestSync
      PROVE  Locked'
  BY <1>2, <1>0, IdleTyped DEF ClearedElsewhere, DeliverMsgs, DeliverNote, RequestSync, Event,
    Quiet, srvVars, wayVars, rowVars, memVars, scenVars, Locked
<1>3. ASSUME NEW own \in BOOLEAN, Publish(own)
      PROVE  Locked'
  BY <1>3, <1>0, IdleTyped DEF Publish, Quiet, srvVars, wayVars, rowVars, memVars, scenVars, Locked
<1>4. ASSUME NEW n \in Seqs, RevokedElsewhere(n) \/ DeletedElsewhere(n) \/ ReadElsewhere(n) \/
         PeerReads(n)
      PROVE  Locked'
  BY <1>4, <1>0, IdleTyped DEF RevokedElsewhere, DeletedElsewhere, ReadElsewhere, PeerReads, Event,
    Quiet, MarkOnServer, srvVars, wayVars, rowVars, memVars, scenVars, Locked
<1>5. ASSUME ReadConversation \/ InsertMessages \/ UpdateConversation
      PROVE  Locked'
  BY <1>5, <1>0, IdleTyped, ReadConversationDoes, InsertMessagesDoes, UpdateConversationDoes DEF
    srvVars, wayVars, rowVars, memVars, scenVars, Locked, Goes, GoesWith, Keeps, Ends, Still
<1>6. ASSUME SyncData \/ SyncAnswer \/ SyncUnread
      PROVE  Locked'
  BY <1>6, <1>0, IdleTyped, SyncDataDoes, SyncAnswerDoes, SyncUnreadDoes DEF srvVars, wayVars,
    rowVars, memVars, scenVars, Locked, Goes, GoesWith, Keeps, Ends, Still
<1>7. ASSUME UpdateLatest \/ DoRevokeMsg \/ DoDeleteMsgs
      PROVE  Locked'
  BY <1>7, <1>0, IdleTyped, UpdateLatestDoes, DoRevokeMsgDoes, DoDeleteMsgsDoes DEF srvVars,
    wayVars, rowVars, memVars, scenVars, Locked, Goes, GoesWith, Keeps, Ends, Still
<1>8. ASSUME DoClearConversations \/ DoUnreadCount \/ SetUnreadCount
      PROVE  Locked'
  BY <1>8, <1>0, IdleTyped, DoClearConversationsDoes, DoUnreadCountDoes, SetUnreadCountDoes DEF
    srvVars, wayVars, rowVars, memVars, scenVars, Locked, Goes, GoesWith, Keeps, Ends, Still
<1>9. ASSUME DoReadDrawing \/ UpdateMessage
      PROVE  Locked'
  BY <1>9, <1>0, IdleTyped, DoReadDrawingDoes, UpdateMessageDoes DEF srvVars, wayVars, rowVars,
    memVars, scenVars, Locked, Goes, GoesWith, Keeps, Ends, Still
<1>10. ASSUME NEW t \in Thread, RevokeRow(t) \/ RevokeLatest(t) \/ DeleteRow(t)
      PROVE  Locked'
  BY <1>10, <1>0, IdleTyped, RevokeRowDoes, RevokeLatestDoes, DeleteRowDoes DEF srvVars, wayVars,
    rowVars, memVars, scenVars, Locked, Goes, GoesWith, Keeps, Ends, Still
<1>11. ASSUME NEW t \in Thread, DeleteCount(t) \/ DeleteLatest(t) \/ WriteLatest(t)
      PROVE  Locked'
  BY <1>11, <1>0, IdleTyped, DeleteCountDoes, DeleteLatestDoes, WriteLatestDoes DEF srvVars,
    wayVars, rowVars, memVars, scenVars, Locked, Goes, GoesWith, Keeps, Ends, Still
<1>12. ASSUME NEW t \in Thread, ClearHasRead(t) \/ ClearRows(t) \/ ClearConversation(t)
      PROVE  Locked'
  BY <1>12, <1>0, IdleTyped, ClearHasReadDoes, ClearRowsDoes, ClearConversationDoes DEF srvVars,
    wayVars, rowVars, memVars, scenVars, Locked, Goes, GoesWith, Keeps, Ends, Still
<1>13. ASSUME NEW t \in Thread, ReadLatest(t) \/ SetLatestRead(t)
      PROVE  Locked'
  BY <1>13, <1>0, IdleTyped, ReadLatestDoes, SetLatestReadDoes DEF srvVars, wayVars, rowVars,
    memVars, scenVars, Locked, Goes, GoesWith, Keeps, Ends, Still
<1>14. ASSUME ClearMessages \/ MarkConversation \/ MarkRows
      PROVE  Locked'
  BY <1>14, <1>0, IdleTyped, ClearMessagesDoes, MarkConversationDoes, MarkRowsDoes DEF srvVars,
    wayVars, rowVars, memVars, scenVars, Locked, Goes, GoesWith, Keeps, Ends, Still
<1>15. ASSUME MarkCount \/ MarkRow \/ MarkDecr
      PROVE  Locked'
  BY <1>15, <1>0, IdleTyped, MarkCountDoes, MarkRowDoes, MarkDecrDoes DEF srvVars, wayVars, rowVars,
    memVars, scenVars, Locked, Goes, GoesWith, Keeps, Ends, Still
<1>16. ASSUME NEW n \in Seqs, RevokeMessage(n) \/ DeleteMessage(n) \/ MarkMessage(n)
      PROVE  Locked'
  BY <1>16, <1>0, IdleTyped, RevokeMessageDoes, DeleteMessageDoes, MarkMessageDoes DEF srvVars,
    wayVars, rowVars, memVars, scenVars, Locked, Goes, GoesWith, Keeps, Ends, Still
<1>17. CASE UNCHANGED vars
  BY <1>17, <1>0, TakeFacts DEF vars, srvVars, wayVars, rowVars, memVars, scenVars, Locked
<1>18. ASSUME Locked' PROVE Locked'
  BY <1>18, <1>0, TakeFacts DEF srvVars, wayVars, rowVars, memVars, scenVars, Locked
<1>19. CASE World
  BY <1>19, <1>1, <1>2, <1>3, <1>4, <1>5, <1>6, <1>7, <1>8, <1>9, <1>10, <1>11, <1>12, <1>13, <1>14,
    <1>15, <1>16, <1>18 DEF World, Thread
<1>20. CASE Work
  BY <1>20, <1>1, <1>2, <1>3, <1>4, <1>5, <1>6, <1>7, <1>8, <1>9, <1>10, <1>11, <1>12, <1>13, <1>14,
    <1>15, <1>16, <1>18 DEF Work, Either, Thread
<1>21. CASE Call
  BY <1>21, <1>1, <1>2, <1>3, <1>4, <1>5, <1>6, <1>7, <1>8, <1>9, <1>10, <1>11, <1>12, <1>13, <1>14,
    <1>15, <1>16, <1>18 DEF Call, Either, Thread
<1> QED BY <1>19, <1>20, <1>21, <1>17 DEF Next

LEMMA NextTurns == ASSUME TypeInv, InOrder, Turns, [Next]_vars PROVE Turns'
<1>0. LocalsType /\ Worker \in Thread /\ App \in Thread /\ Worker # App
      /\ (\A t \in Thread : t = Worker \/ t = App) /\ queue \in Seq(Commands) /\ Turns
  BY DEF TypeInv, MemoryType, LocalsType, Thread, Worker, App, WayType
<1>a. \A cmd : Take(cmd) => local[Worker].pc = "idle" /\ (serial => local[App].pc = "idle")
        /\ serial' = serial
  BY DEF Take, At
<1>1. ASSUME DoMsgNew PROVE Turns'
  BY <1>1, <1>0, <1>a, CounterFacts DEF Turns, Goes, GoesWith, Keeps, Ends, Still, srvVars, wayVars,
    rowVars, memVars, scenVars
<1>2. ASSUME ClearedElsewhere \/ DeliverMsgs \/ DeliverNote \/ RequestSync
      PROVE  Turns'
  BY <1>2, <1>0, <1>a, IdleTyped DEF ClearedElsewhere, DeliverMsgs, DeliverNote, RequestSync, Event,
    Quiet, srvVars, wayVars, rowVars, memVars, scenVars, Turns
<1>3. ASSUME NEW own \in BOOLEAN, Publish(own)
      PROVE  Turns'
  BY <1>3, <1>0, <1>a, IdleTyped DEF Publish, Quiet, srvVars, wayVars, rowVars, memVars, scenVars,
    Turns
<1>4. ASSUME NEW n \in Seqs, RevokedElsewhere(n) \/ DeletedElsewhere(n) \/ ReadElsewhere(n) \/
         PeerReads(n)
      PROVE  Turns'
  BY <1>4, <1>0, <1>a, IdleTyped DEF RevokedElsewhere, DeletedElsewhere, ReadElsewhere, PeerReads,
    Event, Quiet, MarkOnServer, srvVars, wayVars, rowVars, memVars, scenVars, Turns
<1>5. ASSUME ReadConversation \/ InsertMessages \/ UpdateConversation
      PROVE  Turns'
  BY <1>5, <1>0, <1>a, IdleTyped, ReadConversationDoes, InsertMessagesDoes, UpdateConversationDoes
    DEF srvVars, wayVars, rowVars, memVars, scenVars, Turns, Goes, GoesWith, Keeps, Ends, Still
<1>6. ASSUME SyncData \/ SyncAnswer \/ SyncUnread
      PROVE  Turns'
  BY <1>6, <1>0, <1>a, IdleTyped, SyncDataDoes, SyncAnswerDoes, SyncUnreadDoes DEF srvVars, wayVars,
    rowVars, memVars, scenVars, Turns, Goes, GoesWith, Keeps, Ends, Still
<1>7. ASSUME UpdateLatest \/ DoRevokeMsg \/ DoDeleteMsgs
      PROVE  Turns'
  BY <1>7, <1>0, <1>a, IdleTyped, UpdateLatestDoes, DoRevokeMsgDoes, DoDeleteMsgsDoes DEF srvVars,
    wayVars, rowVars, memVars, scenVars, Turns, Goes, GoesWith, Keeps, Ends, Still
<1>8. ASSUME DoClearConversations \/ DoUnreadCount \/ SetUnreadCount
      PROVE  Turns'
  BY <1>8, <1>0, <1>a, IdleTyped, DoClearConversationsDoes, DoUnreadCountDoes, SetUnreadCountDoes
    DEF srvVars, wayVars, rowVars, memVars, scenVars, Turns, Goes, GoesWith, Keeps, Ends, Still
<1>9. ASSUME DoReadDrawing \/ UpdateMessage
      PROVE  Turns'
  BY <1>9, <1>0, <1>a, IdleTyped, DoReadDrawingDoes, UpdateMessageDoes DEF srvVars, wayVars,
    rowVars, memVars, scenVars, Turns, Goes, GoesWith, Keeps, Ends, Still
<1>10. ASSUME NEW t \in Thread, RevokeRow(t) \/ RevokeLatest(t) \/ DeleteRow(t)
      PROVE  Turns'
  BY <1>10, <1>0, <1>a, IdleTyped, RevokeRowDoes, RevokeLatestDoes, DeleteRowDoes DEF srvVars,
    wayVars, rowVars, memVars, scenVars, Turns, Goes, GoesWith, Keeps, Ends, Still
<1>11. ASSUME NEW t \in Thread, DeleteCount(t) \/ DeleteLatest(t) \/ WriteLatest(t)
      PROVE  Turns'
  BY <1>11, <1>0, <1>a, IdleTyped, DeleteCountDoes, DeleteLatestDoes, WriteLatestDoes DEF srvVars,
    wayVars, rowVars, memVars, scenVars, Turns, Goes, GoesWith, Keeps, Ends, Still
<1>12. ASSUME NEW t \in Thread, ClearHasRead(t) \/ ClearRows(t) \/ ClearConversation(t)
      PROVE  Turns'
  BY <1>12, <1>0, <1>a, IdleTyped, ClearHasReadDoes, ClearRowsDoes, ClearConversationDoes DEF
    srvVars, wayVars, rowVars, memVars, scenVars, Turns, Goes, GoesWith, Keeps, Ends, Still
<1>13. ASSUME NEW t \in Thread, ReadLatest(t) \/ SetLatestRead(t)
      PROVE  Turns'
  BY <1>13, <1>0, <1>a, IdleTyped, ReadLatestDoes, SetLatestReadDoes DEF srvVars, wayVars, rowVars,
    memVars, scenVars, Turns, Goes, GoesWith, Keeps, Ends, Still
<1>14. ASSUME ClearMessages \/ MarkConversation \/ MarkRows
      PROVE  Turns'
  BY <1>14, <1>0, <1>a, IdleTyped, ClearMessagesDoes, MarkConversationDoes, MarkRowsDoes DEF
    srvVars, wayVars, rowVars, memVars, scenVars, Turns, Goes, GoesWith, Keeps, Ends, Still
<1>15. ASSUME MarkCount \/ MarkRow \/ MarkDecr
      PROVE  Turns'
  BY <1>15, <1>0, <1>a, IdleTyped, MarkCountDoes, MarkRowDoes, MarkDecrDoes DEF srvVars, wayVars,
    rowVars, memVars, scenVars, Turns, Goes, GoesWith, Keeps, Ends, Still
<1>16. ASSUME NEW n \in Seqs, RevokeMessage(n) \/ DeleteMessage(n) \/ MarkMessage(n)
      PROVE  Turns'
  BY <1>16, <1>0, <1>a, IdleTyped, RevokeMessageDoes, DeleteMessageDoes, MarkMessageDoes DEF
    srvVars, wayVars, rowVars, memVars, scenVars, Turns, Goes, GoesWith, Keeps, Ends, Still
<1>17. CASE UNCHANGED vars
  BY <1>17, <1>0, <1>a DEF vars, srvVars, wayVars, rowVars, memVars, scenVars, Turns
<1>18. ASSUME Turns' PROVE Turns'
  BY <1>18, <1>0, <1>a DEF srvVars, wayVars, rowVars, memVars, scenVars, Turns
<1>19. CASE World
  BY <1>19, <1>1, <1>2, <1>3, <1>4, <1>5, <1>6, <1>7, <1>8, <1>9, <1>10, <1>11, <1>12, <1>13, <1>14,
    <1>15, <1>16, <1>18 DEF World, Thread
<1>20. CASE Work
  BY <1>20, <1>1, <1>2, <1>3, <1>4, <1>5, <1>6, <1>7, <1>8, <1>9, <1>10, <1>11, <1>12, <1>13, <1>14,
    <1>15, <1>16, <1>18 DEF Work, Either, Thread
<1>21. CASE Call
  BY <1>21, <1>1, <1>2, <1>3, <1>4, <1>5, <1>6, <1>7, <1>8, <1>9, <1>10, <1>11, <1>12, <1>13, <1>14,
    <1>15, <1>16, <1>18 DEF Call, Either, Thread
<1> QED BY <1>19, <1>20, <1>21, <1>17 DEF Next

LEMMA NextSinks == ASSUME TypeInv, InOrder, Sinks, [Next]_vars PROVE Sinks'
<1>0. LocalsType /\ Worker \in Thread /\ App \in Thread /\ Worker # App
      /\ (\A t \in Thread : t = Worker \/ t = App) /\ queue \in Seq(Commands) /\ Sinks
  BY DEF TypeInv, MemoryType, LocalsType, Thread, Worker, App, WayType
<1>a. \A cmd : Take(cmd) => local[Worker].pc = "idle"
  BY DEF Take, At
<1>b. /\ conv \in Convs /\ conv.unread \in Nat /\ local[Worker].conv.unread \in Nat
      /\ Decreased(conv.unread) \in Nat /\ Decreased(conv.unread) <= conv.unread
      /\ \A u : [conv EXCEPT !.unread = u].unread = u
      /\ \A l, m : [conv EXCEPT !.latest = l, !.time = m].unread = conv.unread
      /\ \A u, l : [conv EXCEPT !.unread = u, !.latest = l].unread = u
  BY LocalFacts, ConvTyped DEF TypeInv, TableType, Thread, Convs
<1>1. ASSUME DoMsgNew PROVE Sinks'
  BY <1>1, <1>0, <1>a, <1>b, CounterFacts DEF Sinks, Goes, GoesWith, Keeps, Ends, Still, srvVars,
    wayVars, rowVars, memVars, scenVars
<1>2. ASSUME NEW t \in Thread, DeleteCount(t) PROVE Sinks'
  <2>0. conv' = [conv EXCEPT !.unread = Decreased(@)]
    BY <1>2, <1>0, DeleteCountDoes
  <2>1. conv'.unread \in Nat /\ conv'.unread <= conv.unread
    BY <2>0, <1>b DEF Convs
  <2>2. local'[Worker].pc = "sync" => local'[Worker] = local[Worker]
    BY <1>2, <1>0, IdleTyped, DeleteCountDoes DEF Goes, Keeps, Ends, Still
  <2> QED BY <1>0, <1>b, <2>1, <2>2 DEF Sinks
<1>3. ASSUME NEW t \in Thread, WriteLatest(t) PROVE Sinks'
  <2>0. conv' = [conv EXCEPT !.latest = local[t].latest,
                !.time = IF local[t].latest.n = 0 THEN local[t].n ELSE local[t].latest.n]
    BY <1>3, <1>0, WriteLatestDoes
  <2>1. conv'.unread \in Nat /\ conv'.unread <= conv.unread
    BY <2>0, <1>b DEF Convs
  <2>2. local'[Worker].pc = "sync" => local'[Worker] = local[Worker]
    BY <1>3, <1>0, IdleTyped, WriteLatestDoes DEF Goes, Keeps, Ends, Still
  <2> QED BY <1>0, <1>b, <2>1, <2>2 DEF Sinks
<1>4. ASSUME NEW t \in Thread, ClearConversation(t) PROVE Sinks'
  <2>0. conv' = [conv EXCEPT !.unread = 0, !.latest = NoLatest]
    BY <1>4, <1>0, ClearConversationDoes
  <2>1. conv'.unread \in Nat /\ conv'.unread <= conv.unread
    BY <2>0, <1>b DEF Convs
  <2>2. local'[Worker].pc = "sync" => local'[Worker] = local[Worker]
    BY <1>4, <1>0, IdleTyped, ClearConversationDoes DEF Goes, Keeps, Ends, Still
  <2> QED BY <1>0, <1>b, <2>1, <2>2 DEF Sinks
<1>5. ASSUME NEW t \in Thread, SetLatestRead(t) PROVE Sinks'
  <2>0. conv' = conv \/ conv' = [conv EXCEPT !.latest = local[t].latest, !.time = local[t].latest.n]
    BY <1>5, <1>0, SetLatestReadDoes
  <2>1. conv'.unread \in Nat /\ conv'.unread <= conv.unread
    <3>1. CASE conv' = conv
      BY <3>1, <1>b
    <3>2. CASE conv' = [conv EXCEPT !.latest = local[t].latest, !.time = local[t].latest.n]
      BY <3>2, <1>b DEF Convs
    <3> QED BY <2>0, <3>1, <3>2
  <2>2. local'[Worker].pc = "sync" => local'[Worker] = local[Worker]
    BY <1>5, <1>0, IdleTyped, SetLatestReadDoes DEF Goes, Keeps, Ends, Still
  <2> QED BY <1>0, <1>b, <2>1, <2>2 DEF Sinks
<1>6. ASSUME MarkCount PROVE Sinks'
  <2>0. conv' = [conv EXCEPT !.unread = 0]
    BY <1>6, <1>0, MarkCountDoes
  <2>1. conv'.unread \in Nat /\ conv'.unread <= conv.unread
    BY <2>0, <1>b DEF Convs
  <2>2. local'[Worker].pc = "sync" => local'[Worker] = local[Worker]
    BY <1>6, <1>0, IdleTyped, MarkCountDoes DEF Goes, Keeps, Ends, Still
  <2> QED BY <1>0, <1>b, <2>1, <2>2 DEF Sinks
<1>7. ASSUME MarkDecr PROVE Sinks'
  <2>0. conv' = [conv EXCEPT !.unread = Decreased(@)]
    BY <1>7, <1>0, MarkDecrDoes
  <2>1. conv'.unread \in Nat /\ conv'.unread <= conv.unread
    BY <2>0, <1>b DEF Convs
  <2>2. local'[Worker].pc = "sync" => local'[Worker] = local[Worker]
    BY <1>7, <1>0, IdleTyped, MarkDecrDoes DEF Goes, Keeps, Ends, Still
  <2> QED BY <1>0, <1>b, <2>1, <2>2 DEF Sinks
<1>8. ASSUME ClearedElsewhere \/ DeliverMsgs \/ DeliverNote \/ RequestSync
      PROVE  Sinks'
  BY <1>8, <1>0, <1>a, <1>b, IdleTyped DEF ClearedElsewhere, DeliverMsgs, DeliverNote, RequestSync,
    Event, Quiet, srvVars, wayVars, rowVars, memVars, scenVars, Sinks
<1>9. ASSUME NEW own \in BOOLEAN, Publish(own)
      PROVE  Sinks'
  BY <1>9, <1>0, <1>a, <1>b, IdleTyped DEF Publish, Quiet, srvVars, wayVars, rowVars, memVars,
    scenVars, Sinks
<1>10. ASSUME NEW n \in Seqs, RevokedElsewhere(n) \/ DeletedElsewhere(n) \/ ReadElsewhere(n) \/
         PeerReads(n)
      PROVE  Sinks'
  BY <1>10, <1>0, <1>a, <1>b, IdleTyped DEF RevokedElsewhere, DeletedElsewhere, ReadElsewhere,
    PeerReads, Event, Quiet, MarkOnServer, srvVars, wayVars, rowVars, memVars, scenVars, Sinks
<1>11. ASSUME ReadConversation \/ InsertMessages \/ UpdateConversation
      PROVE  Sinks'
  BY <1>11, <1>0, <1>a, <1>b, IdleTyped, ReadConversationDoes, InsertMessagesDoes,
    UpdateConversationDoes DEF srvVars, wayVars, rowVars, memVars, scenVars, Sinks, Goes, GoesWith,
    Keeps, Ends, Still
<1>12. ASSUME SyncData \/ SyncAnswer \/ SyncUnread
      PROVE  Sinks'
  BY <1>12, <1>0, <1>a, <1>b, IdleTyped, SyncDataDoes, SyncAnswerDoes, SyncUnreadDoes DEF srvVars,
    wayVars, rowVars, memVars, scenVars, Sinks, Goes, GoesWith, Keeps, Ends, Still
<1>13. ASSUME UpdateLatest \/ DoRevokeMsg \/ DoDeleteMsgs
      PROVE  Sinks'
  BY <1>13, <1>0, <1>a, <1>b, IdleTyped, UpdateLatestDoes, DoRevokeMsgDoes, DoDeleteMsgsDoes DEF
    srvVars, wayVars, rowVars, memVars, scenVars, Sinks, Goes, GoesWith, Keeps, Ends, Still
<1>14. ASSUME DoClearConversations \/ DoUnreadCount \/ SetUnreadCount
      PROVE  Sinks'
  BY <1>14, <1>0, <1>a, <1>b, IdleTyped, DoClearConversationsDoes, DoUnreadCountDoes,
    SetUnreadCountDoes DEF srvVars, wayVars, rowVars, memVars, scenVars, Sinks, Goes, GoesWith,
    Keeps, Ends, Still
<1>15. ASSUME DoReadDrawing \/ UpdateMessage
      PROVE  Sinks'
  BY <1>15, <1>0, <1>a, <1>b, IdleTyped, DoReadDrawingDoes, UpdateMessageDoes DEF srvVars, wayVars,
    rowVars, memVars, scenVars, Sinks, Goes, GoesWith, Keeps, Ends, Still
<1>16. ASSUME NEW t \in Thread, RevokeRow(t) \/ RevokeLatest(t) \/ DeleteRow(t)
      PROVE  Sinks'
  BY <1>16, <1>0, <1>a, <1>b, IdleTyped, RevokeRowDoes, RevokeLatestDoes, DeleteRowDoes DEF srvVars,
    wayVars, rowVars, memVars, scenVars, Sinks, Goes, GoesWith, Keeps, Ends, Still
<1>17. ASSUME NEW t \in Thread, DeleteLatest(t) \/ ClearHasRead(t) \/ ClearRows(t)
      PROVE  Sinks'
  BY <1>17, <1>0, <1>a, <1>b, IdleTyped, DeleteLatestDoes, ClearHasReadDoes, ClearRowsDoes DEF
    srvVars, wayVars, rowVars, memVars, scenVars, Sinks, Goes, GoesWith, Keeps, Ends, Still
<1>18. ASSUME NEW t \in Thread, ReadLatest(t)
      PROVE  Sinks'
  BY <1>18, <1>0, <1>a, <1>b, IdleTyped, ReadLatestDoes DEF srvVars, wayVars, rowVars, memVars,
    scenVars, Sinks, Goes, GoesWith, Keeps, Ends, Still
<1>19. ASSUME ClearMessages \/ MarkConversation \/ MarkRows
      PROVE  Sinks'
  BY <1>19, <1>0, <1>a, <1>b, IdleTyped, ClearMessagesDoes, MarkConversationDoes, MarkRowsDoes DEF
    srvVars, wayVars, rowVars, memVars, scenVars, Sinks, Goes, GoesWith, Keeps, Ends, Still
<1>20. ASSUME MarkRow
      PROVE  Sinks'
  BY <1>20, <1>0, <1>a, <1>b, IdleTyped, MarkRowDoes DEF srvVars, wayVars, rowVars, memVars,
    scenVars, Sinks, Goes, GoesWith, Keeps, Ends, Still
<1>21. ASSUME NEW n \in Seqs, RevokeMessage(n) \/ DeleteMessage(n) \/ MarkMessage(n)
      PROVE  Sinks'
  BY <1>21, <1>0, <1>a, <1>b, IdleTyped, RevokeMessageDoes, DeleteMessageDoes, MarkMessageDoes DEF
    srvVars, wayVars, rowVars, memVars, scenVars, Sinks, Goes, GoesWith, Keeps, Ends, Still
<1>22. CASE UNCHANGED vars
  BY <1>22, <1>0, <1>a, <1>b DEF vars, srvVars, wayVars, rowVars, memVars, scenVars, Sinks
<1>23. ASSUME Sinks' PROVE Sinks'
  BY <1>23, <1>0, <1>a, <1>b DEF srvVars, wayVars, rowVars, memVars, scenVars, Sinks
<1>24. CASE World
  BY <1>24, <1>1, <1>2, <1>3, <1>4, <1>5, <1>6, <1>7, <1>8, <1>9, <1>10, <1>11, <1>12, <1>13, <1>14,
    <1>15, <1>16, <1>17, <1>18, <1>19, <1>20, <1>21, <1>23 DEF World, Thread
<1>25. CASE Work
  BY <1>25, <1>1, <1>2, <1>3, <1>4, <1>5, <1>6, <1>7, <1>8, <1>9, <1>10, <1>11, <1>12, <1>13, <1>14,
    <1>15, <1>16, <1>17, <1>18, <1>19, <1>20, <1>21, <1>23 DEF Work, Either, Thread
<1>26. CASE Call
  BY <1>26, <1>1, <1>2, <1>3, <1>4, <1>5, <1>6, <1>7, <1>8, <1>9, <1>10, <1>11, <1>12, <1>13, <1>14,
    <1>15, <1>16, <1>17, <1>18, <1>19, <1>20, <1>21, <1>23 DEF Call, Either, Thread
<1> QED BY <1>24, <1>25, <1>26, <1>22 DEF Next

LEMMA NextApart == ASSUME TypeInv, InOrder, Apart, [Next]_vars PROVE Apart'
  BY NextLocked, NextTurns, NextSinks DEF Apart

-----------------------------------------------------------------------------
(***************************************************************************)
(* The count.  t is the last message of which the worker knows whether it  *)
(* counts: no bundle in the queue begins at t or before it.  Floor(t) is   *)
(* what of the log is surely accounted for: the messages known of, or the  *)
(* recorder when it is ahead, less those of the bundle in hand that are    *)
(* not yet added to the row.  It never falls, and each count, with what    *)
(* was read when it was set, is not above it.                              *)
(***************************************************************************)
Pending    == IF Holds THEN local[Worker].batch.count ELSE 0
Reached(t) == IF t >= recorder THEN t ELSE recorder
Floor(t)   == Reached(t) - Pending

Later(t)  == (\A i \in Batches : queue[i].batch.from > t) /\ (Holds => local[Worker].batch.to <= t)
Counts(t) ==
  /\ base <= Floor(t) /\ conv.unread + base <= Floor(t)
  /\ local[Worker].pc \in {"insert", "update"} => local[Worker].conv.unread + base <= Floor(t)
Below(t)  ==
  \A n \in Seqs : rows[n].st # "none" => n <= IF local[Worker].pc = "update" THEN Reached(t) ELSE Floor(t)
Marks(t)  ==
  /\ local[App].pc \in {"markRows", "markCount"} => local[App].n <= Floor(t)
  /\ serial /\ local[App].pc \in {"clearRows", "clearConv"} => local[App].n <= Floor(t)
  /\ local[Worker].pc \in {"clearRows", "clearConv"} => local[Worker].n <= Floor(t)

UpTo(t)  == Later(t) /\ Counts(t) /\ Below(t) /\ Marks(t)
CountInv == \E t \in 0..sent : UpTo(t)

(* Who takes and who drops a bundle, and who moves the recorder. *)
LEMMA HoldsMoves ==
  ASSUME TypeInv, InOrder, [Next]_vars PROVE DoMsgNew \/ UpdateConversation \/ (Holds' <=> Holds)
<1> DEFINE Same == DoMsgNew \/ UpdateConversation \/ (Holds' <=> Holds)
<1>0. LocalsType /\ Worker \in Thread /\ App \in Thread /\ Worker # App
      /\ (\A t \in Thread : t = Worker \/ t = App)
  BY DEF TypeInv, MemoryType, LocalsType, Thread, Worker, App
<1>a. \A cmd : Take(cmd) => local[Worker].pc = "idle"
  BY DEF Take, At
<1>1. ASSUME DoMsgNew PROVE Same
  BY <1>1
<1>2. ASSUME UpdateConversation PROVE Same
  BY <1>2
<1>3. ASSUME ClearedElsewhere \/ DeliverMsgs \/ DeliverNote \/ RequestSync
      PROVE  Holds' <=> Holds
  BY <1>3, <1>0, <1>a, IdleTyped DEF ClearedElsewhere, DeliverMsgs, DeliverNote, RequestSync, Event,
    Quiet, srvVars, wayVars, rowVars, memVars, scenVars, Holds
<1>4. ASSUME NEW own \in BOOLEAN, Publish(own)
      PROVE  Holds' <=> Holds
  BY <1>4, <1>0, <1>a, IdleTyped DEF Publish, Quiet, srvVars, wayVars, rowVars, memVars, scenVars,
    Holds
<1>5. ASSUME NEW n \in Seqs, RevokedElsewhere(n) \/ DeletedElsewhere(n) \/ ReadElsewhere(n) \/
         PeerReads(n)
      PROVE  Holds' <=> Holds
  BY <1>5, <1>0, <1>a, IdleTyped DEF RevokedElsewhere, DeletedElsewhere, ReadElsewhere, PeerReads,
    Event, Quiet, MarkOnServer, srvVars, wayVars, rowVars, memVars, scenVars, Holds
<1>6. ASSUME ReadConversation \/ InsertMessages \/ SyncData
      PROVE  Holds' <=> Holds
  BY <1>6, <1>0, <1>a, IdleTyped, ReadConversationDoes, InsertMessagesDoes, SyncDataDoes DEF
    srvVars, wayVars, rowVars, memVars, scenVars, Holds, Goes, GoesWith, Keeps, Ends, Still
<1>7. ASSUME SyncAnswer \/ SyncUnread \/ UpdateLatest
      PROVE  Holds' <=> Holds
  BY <1>7, <1>0, <1>a, IdleTyped, SyncAnswerDoes, SyncUnreadDoes, UpdateLatestDoes DEF srvVars,
    wayVars, rowVars, memVars, scenVars, Holds, Goes, GoesWith, Keeps, Ends, Still
<1>8. ASSUME DoRevokeMsg \/ DoDeleteMsgs \/ DoClearConversations
      PROVE  Holds' <=> Holds
  BY <1>8, <1>0, <1>a, IdleTyped, DoRevokeMsgDoes, DoDeleteMsgsDoes, DoClearConversationsDoes DEF
    srvVars, wayVars, rowVars, memVars, scenVars, Holds, Goes, GoesWith, Keeps, Ends, Still
<1>9. ASSUME DoUnreadCount \/ SetUnreadCount \/ DoReadDrawing
      PROVE  Holds' <=> Holds
  BY <1>9, <1>0, <1>a, IdleTyped, DoUnreadCountDoes, SetUnreadCountDoes, DoReadDrawingDoes DEF
    srvVars, wayVars, rowVars, memVars, scenVars, Holds, Goes, GoesWith, Keeps, Ends, Still
<1>10. ASSUME UpdateMessage
      PROVE  Holds' <=> Holds
  BY <1>10, <1>0, <1>a, IdleTyped, UpdateMessageDoes DEF srvVars, wayVars, rowVars, memVars,
    scenVars, Holds, Goes, GoesWith, Keeps, Ends, Still
<1>11. ASSUME NEW t \in Thread, RevokeRow(t) \/ RevokeLatest(t) \/ DeleteRow(t)
      PROVE  Holds' <=> Holds
  BY <1>11, <1>0, <1>a, IdleTyped, RevokeRowDoes, RevokeLatestDoes, DeleteRowDoes DEF srvVars,
    wayVars, rowVars, memVars, scenVars, Holds, Goes, GoesWith, Keeps, Ends, Still
<1>12. ASSUME NEW t \in Thread, DeleteCount(t) \/ DeleteLatest(t) \/ WriteLatest(t)
      PROVE  Holds' <=> Holds
  BY <1>12, <1>0, <1>a, IdleTyped, DeleteCountDoes, DeleteLatestDoes, WriteLatestDoes DEF srvVars,
    wayVars, rowVars, memVars, scenVars, Holds, Goes, GoesWith, Keeps, Ends, Still
<1>13. ASSUME NEW t \in Thread, ClearHasRead(t) \/ ClearRows(t) \/ ClearConversation(t)
      PROVE  Holds' <=> Holds
  BY <1>13, <1>0, <1>a, IdleTyped, ClearHasReadDoes, ClearRowsDoes, ClearConversationDoes DEF
    srvVars, wayVars, rowVars, memVars, scenVars, Holds, Goes, GoesWith, Keeps, Ends, Still
<1>14. ASSUME NEW t \in Thread, ReadLatest(t) \/ SetLatestRead(t)
      PROVE  Holds' <=> Holds
  BY <1>14, <1>0, <1>a, IdleTyped, ReadLatestDoes, SetLatestReadDoes DEF srvVars, wayVars, rowVars,
    memVars, scenVars, Holds, Goes, GoesWith, Keeps, Ends, Still
<1>15. ASSUME ClearMessages \/ MarkConversation \/ MarkRows
      PROVE  Holds' <=> Holds
  BY <1>15, <1>0, <1>a, IdleTyped, ClearMessagesDoes, MarkConversationDoes, MarkRowsDoes DEF
    srvVars, wayVars, rowVars, memVars, scenVars, Holds, Goes, GoesWith, Keeps, Ends, Still
<1>16. ASSUME MarkCount \/ MarkRow \/ MarkDecr
      PROVE  Holds' <=> Holds
  BY <1>16, <1>0, <1>a, IdleTyped, MarkCountDoes, MarkRowDoes, MarkDecrDoes DEF srvVars, wayVars,
    rowVars, memVars, scenVars, Holds, Goes, GoesWith, Keeps, Ends, Still
<1>17. ASSUME NEW n \in Seqs, RevokeMessage(n) \/ DeleteMessage(n) \/ MarkMessage(n)
      PROVE  Holds' <=> Holds
  BY <1>17, <1>0, <1>a, IdleTyped, RevokeMessageDoes, DeleteMessageDoes, MarkMessageDoes DEF
    srvVars, wayVars, rowVars, memVars, scenVars, Holds, Goes, GoesWith, Keeps, Ends, Still
<1>18. CASE UNCHANGED vars
  BY <1>18, <1>0, <1>a DEF vars, srvVars, wayVars, rowVars, memVars, scenVars, Holds
<1>19. ASSUME Holds' <=> Holds PROVE Same
  BY <1>19, <1>0, <1>a DEF srvVars, wayVars, rowVars, memVars, scenVars, Holds
<1>20. CASE World
  BY <1>20, <1>1, <1>2, <1>3, <1>4, <1>5, <1>6, <1>7, <1>8, <1>9, <1>10, <1>11, <1>12, <1>13, <1>14,
    <1>15, <1>16, <1>17, <1>19 DEF World, Thread
<1>21. CASE Work
  BY <1>21, <1>1, <1>2, <1>3, <1>4, <1>5, <1>6, <1>7, <1>8, <1>9, <1>10, <1>11, <1>12, <1>13, <1>14,
    <1>15, <1>16, <1>17, <1>19 DEF Work, Either, Thread
<1>22. CASE Call
  BY <1>22, <1>1, <1>2, <1>3, <1>4, <1>5, <1>6, <1>7, <1>8, <1>9, <1>10, <1>11, <1>12, <1>13, <1>14,
    <1>15, <1>16, <1>17, <1>19 DEF Call, Either, Thread
<1> QED BY <1>20, <1>21, <1>22, <1>18 DEF Next

Updating == local[Worker].pc = "update"

LEMMA UpdatingMoves ==
  ASSUME TypeInv, InOrder, [Next]_vars PROVE InsertMessages \/ UpdateConversation \/ (Updating' <=> Updating)
<1> DEFINE Same == InsertMessages \/ UpdateConversation \/ (Updating' <=> Updating)
<1>0. LocalsType /\ Worker \in Thread /\ App \in Thread /\ Worker # App
      /\ (\A t \in Thread : t = Worker \/ t = App)
  BY DEF TypeInv, MemoryType, LocalsType, Thread, Worker, App
<1>a. \A cmd : Take(cmd) => local[Worker].pc = "idle"
  BY DEF Take, At
<1>1. ASSUME DoMsgNew PROVE Same
  BY <1>1, <1>0, <1>a, CounterFacts DEF Updating, Goes, GoesWith, Keeps, Ends, Still, srvVars,
    wayVars, rowVars, memVars, scenVars
<1>2. ASSUME UpdateConversation PROVE Same
  BY <1>2
<1>3. ASSUME InsertMessages PROVE Same
  BY <1>3
<1>4. ASSUME ClearedElsewhere \/ DeliverMsgs \/ DeliverNote \/ RequestSync
      PROVE  Updating' <=> Updating
  BY <1>4, <1>0, <1>a, IdleTyped DEF ClearedElsewhere, DeliverMsgs, DeliverNote, RequestSync, Event,
    Quiet, srvVars, wayVars, rowVars, memVars, scenVars, Updating
<1>5. ASSUME NEW own \in BOOLEAN, Publish(own)
      PROVE  Updating' <=> Updating
  BY <1>5, <1>0, <1>a, IdleTyped DEF Publish, Quiet, srvVars, wayVars, rowVars, memVars, scenVars,
    Updating
<1>6. ASSUME NEW n \in Seqs, RevokedElsewhere(n) \/ DeletedElsewhere(n) \/ ReadElsewhere(n) \/
         PeerReads(n)
      PROVE  Updating' <=> Updating
  BY <1>6, <1>0, <1>a, IdleTyped DEF RevokedElsewhere, DeletedElsewhere, ReadElsewhere, PeerReads,
    Event, Quiet, MarkOnServer, srvVars, wayVars, rowVars, memVars, scenVars, Updating
<1>7. ASSUME ReadConversation \/ SyncData \/ SyncAnswer
      PROVE  Updating' <=> Updating
  BY <1>7, <1>0, <1>a, IdleTyped, ReadConversationDoes, SyncDataDoes, SyncAnswerDoes DEF srvVars,
    wayVars, rowVars, memVars, scenVars, Updating, Goes, GoesWith, Keeps, Ends, Still
<1>8. ASSUME SyncUnread \/ UpdateLatest \/ DoRevokeMsg
      PROVE  Updating' <=> Updating
  BY <1>8, <1>0, <1>a, IdleTyped, SyncUnreadDoes, UpdateLatestDoes, DoRevokeMsgDoes DEF srvVars,
    wayVars, rowVars, memVars, scenVars, Updating, Goes, GoesWith, Keeps, Ends, Still
<1>9. ASSUME DoDeleteMsgs \/ DoClearConversations \/ DoUnreadCount
      PROVE  Updating' <=> Updating
  BY <1>9, <1>0, <1>a, IdleTyped, DoDeleteMsgsDoes, DoClearConversationsDoes, DoUnreadCountDoes DEF
    srvVars, wayVars, rowVars, memVars, scenVars, Updating, Goes, GoesWith, Keeps, Ends, Still
<1>10. ASSUME SetUnreadCount \/ DoReadDrawing \/ UpdateMessage
      PROVE  Updating' <=> Updating
  BY <1>10, <1>0, <1>a, IdleTyped, SetUnreadCountDoes, DoReadDrawingDoes, UpdateMessageDoes DEF
    srvVars, wayVars, rowVars, memVars, scenVars, Updating, Goes, GoesWith, Keeps, Ends, Still
<1>11. ASSUME NEW t \in Thread, RevokeRow(t) \/ RevokeLatest(t) \/ DeleteRow(t)
      PROVE  Updating' <=> Updating
  BY <1>11, <1>0, <1>a, IdleTyped, RevokeRowDoes, RevokeLatestDoes, DeleteRowDoes DEF srvVars,
    wayVars, rowVars, memVars, scenVars, Updating, Goes, GoesWith, Keeps, Ends, Still
<1>12. ASSUME NEW t \in Thread, DeleteCount(t) \/ DeleteLatest(t) \/ WriteLatest(t)
      PROVE  Updating' <=> Updating
  BY <1>12, <1>0, <1>a, IdleTyped, DeleteCountDoes, DeleteLatestDoes, WriteLatestDoes DEF srvVars,
    wayVars, rowVars, memVars, scenVars, Updating, Goes, GoesWith, Keeps, Ends, Still
<1>13. ASSUME NEW t \in Thread, ClearHasRead(t) \/ ClearRows(t) \/ ClearConversation(t)
      PROVE  Updating' <=> Updating
  BY <1>13, <1>0, <1>a, IdleTyped, ClearHasReadDoes, ClearRowsDoes, ClearConversationDoes DEF
    srvVars, wayVars, rowVars, memVars, scenVars, Updating, Goes, GoesWith, Keeps, Ends, Still
<1>14. ASSUME NEW t \in Thread, ReadLatest(t) \/ SetLatestRead(t)
      PROVE  Updating' <=> Updating
  BY <1>14, <1>0, <1>a, IdleTyped, ReadLatestDoes, SetLatestReadDoes DEF srvVars, wayVars, rowVars,
    memVars, scenVars, Updating, Goes, GoesWith, Keeps, Ends, Still
<1>15. ASSUME ClearMessages \/ MarkConversation \/ MarkRows
      PROVE  Updating' <=> Updating
  BY <1>15, <1>0, <1>a, IdleTyped, ClearMessagesDoes, MarkConversationDoes, MarkRowsDoes DEF
    srvVars, wayVars, rowVars, memVars, scenVars, Updating, Goes, GoesWith, Keeps, Ends, Still
<1>16. ASSUME MarkCount \/ MarkRow \/ MarkDecr
      PROVE  Updating' <=> Updating
  BY <1>16, <1>0, <1>a, IdleTyped, MarkCountDoes, MarkRowDoes, MarkDecrDoes DEF srvVars, wayVars,
    rowVars, memVars, scenVars, Updating, Goes, GoesWith, Keeps, Ends, Still
<1>17. ASSUME NEW n \in Seqs, RevokeMessage(n) \/ DeleteMessage(n) \/ MarkMessage(n)
      PROVE  Updating' <=> Updating
  BY <1>17, <1>0, <1>a, IdleTyped, RevokeMessageDoes, DeleteMessageDoes, MarkMessageDoes DEF
    srvVars, wayVars, rowVars, memVars, scenVars, Updating, Goes, GoesWith, Keeps, Ends, Still
<1>18. CASE UNCHANGED vars
  BY <1>18, <1>0, <1>a DEF vars, srvVars, wayVars, rowVars, memVars, scenVars, Updating
<1>19. ASSUME Updating' <=> Updating PROVE Same
  BY <1>19, <1>0, <1>a DEF srvVars, wayVars, rowVars, memVars, scenVars, Updating
<1>20. CASE World
  BY <1>20, <1>1, <1>2, <1>3, <1>4, <1>5, <1>6, <1>7, <1>8, <1>9, <1>10, <1>11, <1>12, <1>13, <1>14,
    <1>15, <1>16, <1>17, <1>19 DEF World, Thread
<1>21. CASE Work
  BY <1>21, <1>1, <1>2, <1>3, <1>4, <1>5, <1>6, <1>7, <1>8, <1>9, <1>10, <1>11, <1>12, <1>13, <1>14,
    <1>15, <1>16, <1>17, <1>19 DEF Work, Either, Thread
<1>22. CASE Call
  BY <1>22, <1>1, <1>2, <1>3, <1>4, <1>5, <1>6, <1>7, <1>8, <1>9, <1>10, <1>11, <1>12, <1>13, <1>14,
    <1>15, <1>16, <1>17, <1>19 DEF Call, Either, Thread
<1> QED BY <1>20, <1>21, <1>22, <1>18 DEF Next

LEMMA RecorderMoves == ASSUME TypeInv, [Next]_vars PROVE DoMsgNew \/ SyncAnswer \/ recorder' = recorder
<1> DEFINE Same == DoMsgNew \/ SyncAnswer \/ recorder' = recorder
<1>1. ASSUME DoMsgNew PROVE Same
  BY <1>1
<1>2. ASSUME SyncAnswer PROVE Same
  BY <1>2
<1>3. ASSUME ClearedElsewhere \/ DeliverMsgs \/ DeliverNote \/ RequestSync
      PROVE  recorder' = recorder
  BY <1>3 DEF ClearedElsewhere, DeliverMsgs, DeliverNote, RequestSync, Event, Quiet, memVars
<1>4. ASSUME NEW own \in BOOLEAN, Publish(own)
      PROVE  recorder' = recorder
  BY <1>4 DEF Publish, Quiet, memVars
<1>5. ASSUME NEW n \in Seqs, RevokedElsewhere(n) \/ DeletedElsewhere(n) \/ ReadElsewhere(n) \/
         PeerReads(n)
      PROVE  recorder' = recorder
  BY <1>5 DEF RevokedElsewhere, DeletedElsewhere, ReadElsewhere, PeerReads, Event, Quiet,
    MarkOnServer, memVars
<1>6. ASSUME ReadConversation \/ InsertMessages \/ UpdateConversation \/ SyncData \/ SyncUnread \/
         UpdateLatest \/ DoRevokeMsg \/ DoDeleteMsgs \/ DoClearConversations \/ DoUnreadCount \/
         SetUnreadCount \/ DoReadDrawing \/ UpdateMessage
      PROVE  recorder' = recorder
  BY <1>6 DEF ReadConversation, InsertMessages, UpdateConversation, SyncData, SyncUnread,
    UpdateLatest, DoRevokeMsg, DoDeleteMsgs, DoClearConversations, DoUnreadCount, SetUnreadCount,
    DoReadDrawing, UpdateMessage, Take, DoNote, TakeNote, memVars
<1>7. ASSUME NEW t \in Thread, RevokeRow(t) \/ RevokeLatest(t) \/ DeleteRow(t) \/ DeleteCount(t) \/
         DeleteLatest(t) \/ WriteLatest(t) \/ ClearHasRead(t) \/ ClearRows(t) \/
         ClearConversation(t) \/ ReadLatest(t) \/ SetLatestRead(t)
      PROVE  recorder' = recorder
  BY <1>7 DEF RevokeRow, RevokeLatest, DeleteRow, DeleteCount, DeleteLatest, WriteLatest,
    ClearHasRead, ClearRows, ClearConversation, ReadLatest, SetLatestRead, Step, memVars
<1>8. ASSUME ClearMessages \/ MarkConversation \/ MarkRows \/ MarkCount \/ MarkRow \/ MarkDecr
      PROVE  recorder' = recorder
  BY <1>8 DEF ClearMessages, MarkConversation, MarkRows, MarkCount, MarkRow, MarkDecr, Start,
    MarkOnServer, Step, memVars
<1>9. ASSUME NEW n \in Seqs, RevokeMessage(n) \/ DeleteMessage(n) \/ MarkMessage(n)
      PROVE  recorder' = recorder
  BY <1>9 DEF RevokeMessage, DeleteMessage, MarkMessage, Start, MarkOnServer, memVars
<1>10. CASE UNCHANGED vars
  BY <1>10 DEF vars, srvVars, wayVars, rowVars, memVars, scenVars
<1>11. ASSUME recorder' = recorder PROVE Same
  BY <1>11 DEF memVars
<1>12. CASE World
  BY <1>12, <1>1, <1>2, <1>3, <1>4, <1>5, <1>6, <1>7, <1>8, <1>9, <1>11 DEF World, Thread
<1>13. CASE Work
  BY <1>13, <1>1, <1>2, <1>3, <1>4, <1>5, <1>6, <1>7, <1>8, <1>9, <1>11 DEF Work, Either, Thread
<1>14. CASE Call
  BY <1>14, <1>1, <1>2, <1>3, <1>4, <1>5, <1>6, <1>7, <1>8, <1>9, <1>11 DEF Call, Either, Thread
<1> QED BY <1>12, <1>13, <1>14, <1>10 DEF Next

LEMMA FloorTyped ==
  ASSUME TypeInv, NEW t \in Nat
  PROVE  /\ Reached(t) \in Nat /\ Reached(t) >= t /\ Reached(t) >= recorder
              /\ (Reached(t) = t \/ Reached(t) = recorder)
         /\ Pending \in Nat /\ Floor(t) \in Int /\ Floor(t) + Pending = Reached(t)
<1>1. recorder \in Nat /\ local[Worker].batch.count \in Nat
  BY LocalFacts DEF TypeInv, MemoryType, ServerType, Thread
<1> QED BY <1>1 DEF Reached, Pending, Floor

LEMMA FloorTypedNext ==
  ASSUME TypeInv', NEW t \in Nat
  PROVE  /\ Reached(t)' \in Nat /\ Reached(t)' >= t /\ Reached(t)' >= recorder'
         /\ Pending' \in Nat /\ Floor(t)' \in Int /\ Floor(t)' + Pending' = Reached(t)' /\ recorder' \in Nat
<1>1. recorder' \in Nat
  BY DEF TypeInv, MemoryType, ServerType
<1>2. local'[Worker].batch.count \in Nat
  BY DEF TypeInv, MemoryType, Thread, Locals, Bundles
<1> QED BY <1>1, <1>2 DEF Reached, Pending, Floor

(* The floor never falls, and when the row is written nothing is pending. *)
LEMMA FloorNext ==
  ASSUME TypeInv, InOrder, [Next]_vars, TypeInv', ~DoMsgNew, NEW t \in Nat
  PROVE  /\ Floor(t) <= Floor(t)' /\ Reached(t) <= Reached(t)'
         /\ UpdateConversation => Floor(t)' = Reached(t) /\ Floor(t)' = Floor(t) + local[Worker].batch.count
         /\ ~UpdateConversation => Pending' = Pending
<1>1. /\ Reached(t) \in Nat /\ Pending \in Nat /\ recorder \in Nat /\ Reached(t)' \in Nat /\ Pending' \in Nat
      /\ recorder' \in Nat /\ log \in Nat /\ recorder <= log
  <2>1. recorder \in Nat /\ log \in Nat /\ recorder <= log
    BY DEF TypeInv, MemoryType, ServerType
  <2> QED BY <2>1, FloorTyped, FloorTypedNext
<1>2. CASE UpdateConversation
  <2>1. local[Worker].pc = "update" /\ local'[Worker].pc = "idle" /\ recorder' = recorder
    BY <1>2, UpdateConversationDoes, IdleTyped DEF TypeInv, MemoryType, LocalsType, Ends
  <2>2. Holds /\ ~Holds'
    BY <2>1 DEF Holds
  <2> QED BY <1>1, <1>2, <2>1, <2>2 DEF Floor, Reached, Pending
<1>3. CASE ~UpdateConversation
  <2>1. Pending' = Pending
    BY <1>3, HoldsMoves, BatchStays DEF Pending, StillHolds
  <2>2. recorder <= recorder'
    <3>1. CASE SyncAnswer
      BY <1>1, <3>1 DEF SyncAnswer
    <3>2. CASE recorder' = recorder
      BY <1>1, <3>2
    <3> QED BY <3>1, <3>2, RecorderMoves
  <2>3. Reached(t) <= Reached(t)'
    BY <1>1, <2>2 DEF Reached
  <2> QED BY <1>1, <1>3, <2>1, <2>3 DEF Floor
<1> QED BY <1>2, <1>3

LEMMA LaterNext ==
  ASSUME TypeInv, InOrder, [Next]_vars, ~DoMsgNew, NEW t \in Nat, t <= sent, Later(t) PROVE Later(t)'
<1>0. queue \in Seq(Commands) /\ sent \in Nat
  BY DEF TypeInv, WayType, ServerType
<1>1. ASSUME NEW i \in Batches' PROVE queue'[i].batch.from > t
  <2>1. CASE DeliverMsgs
    BY <1>0, <2>1, DeliverShifts DEF Later
  <2>2. ASSUME NEW k \in {0, 1}, Shifted(k) PROVE queue'[i].batch.from > t
    BY <2>2 DEF Shifted, Later
  <2> QED BY <2>1, <2>2, QueueShifts
<1>2. Holds' => local'[Worker].batch.to <= t
  BY BatchStays DEF StillHolds, Later
<1> QED BY <1>1, <1>2 DEF Later

LEMMA BelowNext ==
  ASSUME TypeInv, InOrder, [Next]_vars, TypeInv', ~DoMsgNew, NEW t \in Nat, Later(t), Below(t) PROVE Below(t)'
<1>0. /\ Reached(t) \in Nat /\ Floor(t) \in Int /\ Reached(t)' \in Nat /\ Floor(t)' \in Int
           /\ Floor(t) <= Reached(t)
      /\ Floor(t)' <= Reached(t)' /\ MaxSeq \in Nat /\ t <= Reached(t)
  BY FloorTyped, FloorTypedNext, SizeAssumption
<1>1. /\ Floor(t) <= Floor(t)' /\ Reached(t) <= Reached(t)'
      /\ UpdateConversation => Floor(t)' = Reached(t)
  BY FloorNext
<1> SUFFICES ASSUME NEW n \in Seqs, rows'[n].st # "none"
             PROVE  n <= IF Updating' THEN Reached(t)' ELSE Floor(t)'
  BY DEF Below, Updating
<1>2. CASE InsertMessages
  <2>1. /\ local[Worker].pc = "insert" /\ local'[Worker].pc = "update"
        /\ rows[n].st # "none" \/ n \in local[Worker].batch.from..local[Worker].batch.to
    BY <1>2, InsertMessagesDoes DEF TypeInv, MemoryType, LocalsType, Goes, Fresh
  <2>2. local[Worker].batch.to <= t /\ local[Worker].batch.to \in Nat /\ local[Worker].batch.from \in Nat
    BY <2>1, LocalFacts DEF Later, Holds, Thread
  <2>3. n <= Reached(t)
    BY <1>0, <2>1, <2>2 DEF Below, Seqs
  <2> QED BY <1>0, <1>1, <2>1, <2>3 DEF Updating, Seqs
<1>3. CASE Fewer
  <2>1. n <= IF Updating THEN Reached(t) ELSE Floor(t)
    BY <1>3 DEF Fewer, Below, Updating
  <2>2. CASE UpdateConversation
    BY <1>0, <1>1, <2>1, <2>2 DEF Seqs
  <2>3. CASE InsertMessages
    BY <1>2, <2>3
  <2>4. CASE Updating' <=> Updating
    BY <1>0, <1>1, <2>1, <2>4 DEF Seqs
  <2> QED BY <2>2, <2>3, <2>4, UpdatingMoves
<1> QED BY <1>2, <1>3, RowsGrow

(* The counts of the row and of the goroutines' copies, and the marks. *)
LEMMA SmallFacts ==
  ASSUME TypeInv, WayInv, NEW t \in Nat, Below(t)
  PROVE  /\ local[Worker].pc # "update" => LocalMax <= Floor(t) \/ Stored = {}
         /\ local[Worker].pc # "update" /\ 0 <= Floor(t) => LocalMax <= Floor(t)
<1>1. CASE Stored = {}
  BY <1>1 DEF LocalMax, Greatest
<1>2. CASE Stored # {} /\ local[Worker].pc # "update"
  <2>1. \A n \in Stored : n <= Floor(t)
    BY <1>2 DEF Below, Stored
  <2>2. LocalMax \in Stored
    <3>1. Stored \in SUBSET (0..MaxSeq) /\ MaxSeq \in Nat
      BY SizeFacts DEF WayInv, Seqs, Stored
    <3> QED BY <1>2, <3>1, HasGreatest DEF LocalMax
  <2> QED BY <2>1, <2>2
<1> QED BY <1>1, <1>2

LEMMA CountsNext ==
  ASSUME TypeInv, WayInv, Apart, [Next]_vars, TypeInv', ~DoMsgNew, NEW t \in Nat, UpTo(t)
  PROVE  Counts(t)'
<1>0. /\ Reached(t) \in Nat /\ Floor(t) \in Int /\ Floor(t)' \in Int /\ Floor(t) <= Floor(t)'
      /\ Pending \in Nat /\ Floor(t) + Pending = Reached(t) /\ recorder <= Reached(t)
      /\ (UpdateConversation => Floor(t)' = Floor(t) + local[Worker].batch.count)
  BY FloorTyped, FloorTypedNext, FloorNext DEF WayInv
<1>a. /\ LocalsType /\ Worker \in Thread /\ App \in Thread /\ Worker # App /\ queue \in Seq(Commands)
      /\ (\A s \in Thread : s = Worker \/ s = App) /\ conv \in Convs /\ conv.unread \in Nat /\ base \in Nat
      /\ local[Worker].conv.unread \in Nat /\ recorder \in Nat /\ LocalMax \in Nat
      /\ \A s \in Thread : local[s].n \in Nat
  BY LocalFacts, SizeFacts DEF TypeInv, MemoryType, LocalsType, Thread, Worker, App, WayType, TableType,
                               WayInv
<1>b. /\ base <= Floor(t) /\ conv.unread + base <= Floor(t)
      /\ local[Worker].pc \in {"insert", "update"} => local[Worker].conv.unread + base <= Floor(t)
  BY DEF UpTo, Counts
<1>c. \A cmd : Take(cmd) => local[Worker].pc = "idle"
  BY DEF Take, At
<1> DEFINE Kept == /\ conv'.unread \in Nat /\ conv'.unread <= conv.unread /\ base' = base
                   /\ local'[Worker].pc \in {"insert", "update"} =>
                        local[Worker].pc \in {"insert", "update"} /\ local'[Worker].conv = local[Worker].conv
           Fine == Counts(t)'
       Steady == /\ conv' = conv /\ base' = base
                 /\ local'[Worker].pc \in {"insert", "update"} =>
                      local[Worker].pc \in {"insert", "update"} /\ local'[Worker].conv = local[Worker].conv
<1>g. /\ base \in Nat /\ conv.unread \in Nat /\ local[Worker].conv.unread \in Nat /\ Floor(t) \in Int
      /\ Floor(t)' \in Int /\ Floor(t) <= Floor(t)'
  BY <1>0, <1>a
<1>d. ASSUME Kept PROVE Fine
  <2>1. base' <= Floor(t)' /\ conv'.unread + base' <= Floor(t)'
    BY <1>b, <1>d, <1>g
  <2>2. ASSUME local'[Worker].pc \in {"insert", "update"}
                 PROVE local'[Worker].conv.unread + base' <= Floor(t)'
    <3>1. local'[Worker].conv.unread = local[Worker].conv.unread /\ base' = base
      BY <1>d, <2>2
    <3>2. local[Worker].conv.unread + base <= Floor(t)
      BY <1>b, <1>d, <2>2
    <3> QED BY <1>g, <3>1, <3>2
  <2> QED BY <2>1, <2>2 DEF Counts
<1>e. Decreased(conv.unread) \in Nat /\ Decreased(conv.unread) <= conv.unread
  BY <1>a, ConvTyped
<1>f. ASSUME NEW m \in Nat, m <= Floor(t), conv'.unread = 0, base' = (IF base >= m THEN base ELSE m),
             local'[Worker].pc \notin {"insert", "update"}
      PROVE  Fine
  BY <1>0, <1>a, <1>b, <1>f DEF Counts

<1>1. ASSUME DoMsgNew PROVE Fine
  BY <1>1
<1>2. ASSUME ReadConversation PROVE Fine
  BY <1>2, <1>0, <1>a, <1>b, ReadConversationDoes DEF Counts, rowVars, scenVars
<1>3. ASSUME UpdateConversation PROVE Fine
  <2> DEFINE b == local[Worker].batch
             old == local[Worker].conv
             c == Diff(old, b)
  <2>1. /\ local'[Worker].pc = "idle" /\ base' = base /\ local[Worker].pc = "update"
        /\ conv' = conv \/ conv' = [unread |-> IF c.unread = 0 THEN conv.unread ELSE c.unread,
                                    latest |-> IF c.latest = NoLatest THEN conv.latest ELSE c.latest,
                                    time   |-> c.time]
    BY <1>3, <1>a, UpdateConversationDoes, IdleTyped DEF Ends, scenVars
  <2>2. old \in Convs /\ b.count \in Nat
    BY <1>a, LocalFacts
  <2>3. c.unread = old.unread + b.count
    BY <2>2 DEF Diff, Convs
  <2>4. conv'.unread = conv.unread \/ conv'.unread = old.unread + b.count
    <3> HIDE DEF c
    <3> QED BY <2>1, <2>3
  <2>5. conv'.unread + base <= Floor(t) + b.count
    <3>1. conv.unread + base <= Floor(t) /\ old.unread + base <= Floor(t) /\ old.unread \in Nat
      BY <1>b, <1>g, <2>1
    <3> HIDE DEF old, b, c
    <3>2. CASE conv'.unread = conv.unread
      BY <1>g, <2>2, <3>1, <3>2
    <3>3. CASE conv'.unread = old.unread + b.count
      BY <1>g, <2>2, <3>1, <3>3
    <3> QED BY <2>4, <3>2, <3>3
  <2> HIDE DEF b, old, c
  <2>6. Floor(t)' = Floor(t) + b.count
    BY <1>3, <1>0 DEF b
  <2>7. base' <= Floor(t)' /\ conv'.unread + base' <= Floor(t)'
    BY <1>b, <1>g, <2>1, <2>5, <2>6
  <2> QED BY <2>1, <2>7 DEF Counts
<1>4. ASSUME SyncUnread PROVE Fine
  <2>1. /\ local[Worker].pc = "sync" /\ local'[Worker].pc = "idle" /\ base' = local[Worker].n
        /\ conv' = IF local[Worker].conv.unread = recorder - local[Worker].n THEN conv
                   ELSE [conv EXCEPT !.unread = recorder - local[Worker].n]
    BY <1>4, <1>a, SyncUnreadDoes, IdleTyped DEF Ends
  <2>2. /\ local[Worker].n <= recorder /\ conv.unread <= local[Worker].conv.unread /\ Pending = 0
        /\ local[Worker].n \in Nat
    BY <2>1, <1>a DEF TypeInv, MemoryType, SyncBelow, Apart, Sinks, Pending, Holds, At
  <2>3. [conv EXCEPT !.unread = recorder - local[Worker].n].unread = recorder - local[Worker].n
    BY <1>a DEF Convs
  <2>4. conv'.unread <= recorder - local[Worker].n
    BY <1>a, <2>1, <2>2, <2>3
  <2>5. conv'.unread \in Nat
    BY LocalFacts DEF TypeInv, TableType, Convs
  <2> QED BY <1>0, <1>a, <2>1, <2>2, <2>4, <2>5 DEF Counts
<1>5. ASSUME UpdateLatest PROVE Fine
  <2>1. conv' = conv \/ \E l, m : conv' = [conv EXCEPT !.latest = l, !.time = m]
    BY <1>5, <1>a, UpdateLatestDoes
  <2>2. conv'.unread = conv.unread
    <3>1. ASSUME NEW l, NEW m, conv' = [conv EXCEPT !.latest = l, !.time = m] PROVE conv'.unread = conv.unread
      BY <3>1, <1>a DEF Convs
    <3> QED BY <2>1, <3>1
  <2>3. base' = base /\ local' = local
    BY <1>5, <1>a, UpdateLatestDoes
  <2> QED BY <1>a, <1>d, <2>2, <2>3
<1>6. ASSUME DoUnreadCount PROVE Fine
  <2>1. local[Worker].pc = "idle"
    BY <1>6, <1>a, <1>c, DoUnreadCountDoes
  <2> DEFINE h == Head(queue).note.n
  <2>2. h \in Nat
    BY <1>6, <1>a, TakeFacts, CommandFacts DEF DoUnreadCount, TakeNote, Notices
  <2> HIDE DEF h
  <2>3. \/ conv' = [conv EXCEPT !.unread = 0] /\ local' = local /\ base' = Max({base, Min({h, LocalMax})})
        \/ conv' = conv /\ base' = base /\ (local' = local \/ local'[Worker].pc = "count")
    BY <1>6, <1>a, DoUnreadCountDoes DEF h
  <2>4. CASE conv' = [conv EXCEPT !.unread = 0] /\ local' = local /\ base' = Max({base, Min({h, LocalMax})})
    <3>1. [conv EXCEPT !.unread = 0].unread = 0
      BY <1>a DEF Convs
    <3> DEFINE k == Min({h, LocalMax})
    <3>2. k \in Nat /\ k <= LocalMax
      BY <1>a, <2>2, LesserNat
    <3>3. LocalMax <= Floor(t)
      <4>1. Below(t) /\ 0 <= Floor(t) /\ local[Worker].pc # "update"
        BY <1>b, <1>g, <2>1 DEF UpTo
      <4> QED BY <4>1, SmallFacts
    <3>4. conv'.unread = 0 /\ base' = Max({base, k}) /\ local' = local
      BY <2>4, <3>1
    <3> HIDE DEF k
    <3>5. Max({base, k}) = (IF base >= k THEN base ELSE k)
      BY <1>g, <3>2, GreaterOf
    <3>6. k <= Floor(t)
      BY <1>a, <1>g, <3>2, <3>3
    <3>7. base' = (IF base >= k THEN base ELSE k)
      BY <3>4, <3>5
    <3> QED BY <1>f, <2>1, <3>2, <3>4, <3>6, <3>7
  <2>5. CASE conv' = conv /\ base' = base /\ (local' = local \/ local'[Worker].pc = "count")
    BY <1>a, <1>d, <2>5
  <2> QED BY <2>3, <2>4, <2>5
<1>7. ASSUME SetUnreadCount PROVE Fine
  <2>1. /\ local[Worker].pc = "count" /\ (local'[Worker].pc = "idle" \/ local'[Worker].pc = "latest")
        /\ \/ conv' = conv /\ base' = base
           \/ /\ conv' = [conv EXCEPT !.unread = Max({0, recorder - local[Worker].n})]
              /\ base' = Min({local[Worker].n, recorder})
    BY <1>7, <1>a, SetUnreadCountDoes, IdleTyped DEF Ends, Goes
  <2>2. CASE conv' = conv /\ base' = base
    BY <1>a, <1>d, <2>1, <2>2
  <2>3. CASE /\ conv' = [conv EXCEPT !.unread = Max({0, recorder - local[Worker].n})]
             /\ base' = Min({local[Worker].n, recorder})
    <3> DEFINE h == local[Worker].n
    <3>1. h \in Nat /\ recorder - h \in Int /\ 0 \in Int
      BY <1>a
    <3>2. Max({0, recorder - h}) = (IF 0 >= recorder - h THEN 0 ELSE recorder - h)
      BY <3>1, GreaterOf
    <3>3. Min({h, recorder}) = (IF h <= recorder THEN h ELSE recorder)
      BY <1>a, <3>1, LesserOf
    <3>4. [conv EXCEPT !.unread = Max({0, recorder - h})].unread = Max({0, recorder - h})
      BY <1>a DEF Convs
    <3>5. Pending = 0
      BY <2>1 DEF Pending, Holds
    <3> HIDE DEF h
    <3>6. conv'.unread = (IF 0 >= recorder - h THEN 0 ELSE recorder - h)
      BY <2>3, <3>2, <3>4 DEF h
    <3>7. base' = (IF h <= recorder THEN h ELSE recorder)
      BY <2>3, <3>3 DEF h
    <3>8. base' <= recorder /\ conv'.unread + base' <= recorder /\ base' \in Nat /\ conv'.unread \in Nat
      BY <1>a, <3>1, <3>6, <3>7
    <3> QED BY <1>0, <1>a, <2>1, <3>5, <3>8 DEF Counts
  <2> QED BY <2>1, <2>2, <2>3
<1>8. ASSUME NEW s \in Thread, DeleteCount(s) PROVE Fine
  <2>1. conv' = [conv EXCEPT !.unread = Decreased(@)]
    BY <1>8, <1>a, DeleteCountDoes
  <2>2. conv'.unread \in Nat /\ conv'.unread <= conv.unread
    BY <2>1, <1>a, <1>e DEF Convs
  <2>3. /\ base' = base
        /\ local'[Worker].pc \in {"insert", "update"} =>
             local[Worker].pc \in {"insert", "update"} /\ local'[Worker].conv = local[Worker].conv
    BY <1>8, <1>a, DeleteCountDoes, IdleTyped DEF Ends, Goes, Keeps, Still, scenVars
  <2> QED BY <1>a, <1>d, <2>2, <2>3
<1>9. ASSUME NEW s \in Thread, WriteLatest(s) PROVE Fine
  <2>1. conv'.unread = conv.unread
    BY <1>9, <1>a, WriteLatestDoes DEF Convs
  <2>2. conv'.unread \in Nat /\ conv'.unread <= conv.unread
    BY <1>g, <2>1
  <2>3. /\ base' = base
        /\ local'[Worker].pc \in {"insert", "update"} =>
             local[Worker].pc \in {"insert", "update"} /\ local'[Worker].conv = local[Worker].conv
    BY <1>9, <1>a, WriteLatestDoes, IdleTyped DEF Ends, Goes, Keeps, Still, scenVars
  <2> QED BY <1>a, <1>d, <2>2, <2>3
<1>10. ASSUME NEW s \in Thread, ClearConversation(s) PROVE Fine
  <2>1. /\ local[s].pc = "clearConv" /\ local'[s].pc = "idle"
             /\ (s # Worker => local'[Worker] = local[Worker])
        /\ conv' = [conv EXCEPT !.unread = 0, !.latest = NoLatest]
        /\ base' = IF s = Worker \/ serial THEN Max({base, local[s].n}) ELSE base
    BY <1>10, <1>a, ClearConversationDoes, IdleTyped DEF Ends, Still
  <2>2. conv'.unread = 0
    BY <2>1, <1>a DEF Convs
  <2>3. CASE s = Worker \/ serial
    <3>1. local[s].n <= Floor(t) /\ local[s].n \in Nat
      BY <1>a, <2>1, <2>3 DEF UpTo, Marks
    <3>2. base' = (IF base >= local[s].n THEN base ELSE local[s].n)
      BY <1>a, <2>1, <2>3, <3>1, GreaterOf
    <3>3. local'[Worker].pc \notin {"insert", "update"}
      BY <1>a, <2>1, <2>3 DEF Apart, Turns
    <3> QED BY <1>f, <2>2, <3>1, <3>2, <3>3
  <2>4. CASE ~(s = Worker \/ serial)
    BY <1>a, <1>d, <2>1, <2>2, <2>4
  <2> QED BY <2>3, <2>4
<1>11. ASSUME NEW s \in Thread, SetLatestRead(s) PROVE Fine
  <2>1. conv' = conv \/ \E l, m : conv' = [conv EXCEPT !.latest = l, !.time = m]
    BY <1>11, <1>a, SetLatestReadDoes
  <2>2. conv'.unread = conv.unread
    <3>1. ASSUME NEW l, NEW m, conv' = [conv EXCEPT !.latest = l, !.time = m] PROVE conv'.unread = conv.unread
      BY <3>1, <1>a DEF Convs
    <3> QED BY <2>1, <3>1
  <2>3. /\ base' = base
        /\ local'[Worker].pc \in {"insert", "update"} =>
             local[Worker].pc \in {"insert", "update"} /\ local'[Worker].conv = local[Worker].conv
    BY <1>11, <1>a, SetLatestReadDoes, IdleTyped DEF Ends, Goes, Keeps, Still, scenVars
  <2> QED BY <1>a, <1>d, <2>2, <2>3
<1>12. ASSUME MarkCount PROVE Fine
  <2>1. /\ local[App].pc = "markCount" /\ local'[Worker] = local[Worker]
        /\ conv' = [conv EXCEPT !.unread = 0] /\ base' = Max({base, local[App].n})
    BY <1>12, <1>a, MarkCountDoes DEF Ends, Goes, Keeps, Still
  <2>2. conv'.unread = 0
    BY <2>1, <1>a DEF Convs
  <2>3. local[App].n <= Floor(t) /\ local[App].n \in Nat
    BY <1>a, <2>1 DEF UpTo, Marks
  <2>4. base' = (IF base >= local[App].n THEN base ELSE local[App].n)
    <3>1. base \in Int /\ local[App].n \in Int
      BY <1>a, <2>3
    <3>2. Max({base, local[App].n}) = (IF base >= local[App].n THEN base ELSE local[App].n)
      BY <3>1, GreaterOf
    <3> QED BY <2>1, <3>2
  <2>5. local'[Worker].pc \notin {"insert", "update"}
    BY <2>1, <1>a DEF Apart, Locked, Worker, App
  <2> QED BY <1>f, <2>2, <2>3, <2>4, <2>5
<1>13. ASSUME MarkDecr PROVE Fine
  <2>1. conv' = [conv EXCEPT !.unread = Decreased(@)]
    BY <1>13, <1>a, MarkDecrDoes
  <2>2. conv'.unread \in Nat /\ conv'.unread <= conv.unread
    BY <2>1, <1>a, <1>e DEF Convs
  <2>3. /\ base' = base
        /\ local'[Worker].pc \in {"insert", "update"} =>
             local[Worker].pc \in {"insert", "update"} /\ local'[Worker].conv = local[Worker].conv
    BY <1>13, <1>a, MarkDecrDoes, IdleTyped DEF Ends, Goes, Keeps, Still, scenVars
  <2> QED BY <1>a, <1>d, <2>2, <2>3
<1>14. ASSUME ClearedElsewhere \/ DeliverMsgs \/ DeliverNote \/ RequestSync
      PROVE  Steady
  BY <1>14, <1>a, <1>c, IdleTyped DEF ClearedElsewhere, DeliverMsgs, DeliverNote, RequestSync,
    Event, Quiet, srvVars, wayVars, rowVars, memVars, scenVars, Steady
<1>15. ASSUME NEW own \in BOOLEAN, Publish(own)
      PROVE  Steady
  BY <1>15, <1>a, <1>c, IdleTyped DEF Publish, Quiet, srvVars, wayVars, rowVars, memVars, scenVars,
    Steady
<1>16. ASSUME NEW n \in Seqs, RevokedElsewhere(n) \/ DeletedElsewhere(n) \/ ReadElsewhere(n) \/
         PeerReads(n)
      PROVE  Steady
  BY <1>16, <1>a, <1>c, IdleTyped DEF RevokedElsewhere, DeletedElsewhere, ReadElsewhere, PeerReads,
    Event, Quiet, MarkOnServer, srvVars, wayVars, rowVars, memVars, scenVars, Steady
<1>17. ASSUME InsertMessages \/ SyncData \/ SyncAnswer
      PROVE  Steady
  BY <1>17, <1>a, <1>c, IdleTyped, InsertMessagesDoes, SyncDataDoes, SyncAnswerDoes DEF srvVars,
    wayVars, rowVars, memVars, scenVars, Steady, Goes, GoesWith, Keeps, Ends, Still
<1>18. ASSUME DoRevokeMsg \/ DoDeleteMsgs \/ DoClearConversations
      PROVE  Steady
  BY <1>18, <1>a, <1>c, IdleTyped, DoRevokeMsgDoes, DoDeleteMsgsDoes, DoClearConversationsDoes DEF
    srvVars, wayVars, rowVars, memVars, scenVars, Steady, Goes, GoesWith, Keeps, Ends, Still
<1>19. ASSUME DoReadDrawing \/ UpdateMessage
      PROVE  Steady
  BY <1>19, <1>a, <1>c, IdleTyped, DoReadDrawingDoes, UpdateMessageDoes DEF srvVars, wayVars,
    rowVars, memVars, scenVars, Steady, Goes, GoesWith, Keeps, Ends, Still
<1>20. ASSUME NEW s \in Thread, RevokeRow(s) \/ RevokeLatest(s) \/ DeleteRow(s)
      PROVE  Steady
  BY <1>20, <1>a, <1>c, IdleTyped, RevokeRowDoes, RevokeLatestDoes, DeleteRowDoes DEF srvVars,
    wayVars, rowVars, memVars, scenVars, Steady, Goes, GoesWith, Keeps, Ends, Still
<1>21. ASSUME NEW s \in Thread, DeleteLatest(s) \/ ClearHasRead(s) \/ ClearRows(s)
      PROVE  Steady
  BY <1>21, <1>a, <1>c, IdleTyped, DeleteLatestDoes, ClearHasReadDoes, ClearRowsDoes DEF srvVars,
    wayVars, rowVars, memVars, scenVars, Steady, Goes, GoesWith, Keeps, Ends, Still
<1>22. ASSUME NEW s \in Thread, ReadLatest(s)
      PROVE  Steady
  BY <1>22, <1>a, <1>c, IdleTyped, ReadLatestDoes DEF srvVars, wayVars, rowVars, memVars, scenVars,
    Steady, Goes, GoesWith, Keeps, Ends, Still
<1>23. ASSUME ClearMessages \/ MarkConversation \/ MarkRows
      PROVE  Steady
  BY <1>23, <1>a, <1>c, IdleTyped, ClearMessagesDoes, MarkConversationDoes, MarkRowsDoes DEF
    srvVars, wayVars, rowVars, memVars, scenVars, Steady, Goes, GoesWith, Keeps, Ends, Still
<1>24. ASSUME MarkRow
      PROVE  Steady
  BY <1>24, <1>a, <1>c, IdleTyped, MarkRowDoes DEF srvVars, wayVars, rowVars, memVars, scenVars,
    Steady, Goes, GoesWith, Keeps, Ends, Still
<1>25. ASSUME NEW n \in Seqs, RevokeMessage(n) \/ DeleteMessage(n) \/ MarkMessage(n)
      PROVE  Steady
  BY <1>25, <1>a, <1>c, IdleTyped, RevokeMessageDoes, DeleteMessageDoes, MarkMessageDoes DEF
    srvVars, wayVars, rowVars, memVars, scenVars, Steady, Goes, GoesWith, Keeps, Ends, Still
<1>26. ASSUME UNCHANGED vars PROVE Fine
  BY <1>26, <1>a, <1>d DEF vars, srvVars, wayVars, rowVars, memVars, scenVars, Steady
<1>27. ASSUME Steady PROVE Fine
  BY <1>27, <1>a, <1>d DEF srvVars, wayVars, rowVars, memVars, scenVars, Steady
<1> HIDE DEF Kept, Fine, Steady
<1>28. ASSUME World PROVE Fine
  BY <1>28, <1>1, <1>2, <1>3, <1>4, <1>5, <1>6, <1>7, <1>8, <1>9, <1>10, <1>11, <1>12, <1>13, <1>14,
    <1>15, <1>16, <1>17, <1>18, <1>19, <1>20, <1>21, <1>22, <1>23, <1>24, <1>25, <1>27 DEF World,
    Thread
<1>29. ASSUME Work PROVE Fine
  BY <1>29, <1>1, <1>2, <1>3, <1>4, <1>5, <1>6, <1>7, <1>8, <1>9, <1>10, <1>11, <1>12, <1>13, <1>14,
    <1>15, <1>16, <1>17, <1>18, <1>19, <1>20, <1>21, <1>22, <1>23, <1>24, <1>25, <1>27 DEF Work,
    Either, Thread
<1>30. ASSUME Call PROVE Fine
  BY <1>30, <1>1, <1>2, <1>3, <1>4, <1>5, <1>6, <1>7, <1>8, <1>9, <1>10, <1>11, <1>12, <1>13, <1>14,
    <1>15, <1>16, <1>17, <1>18, <1>19, <1>20, <1>21, <1>22, <1>23, <1>24, <1>25, <1>27 DEF Call,
    Either, Thread
<1>q. Fine
  BY <1>28, <1>29, <1>30, <1>26 DEF Next
<1> QED BY <1>q DEF Fine

LEMMA MarksNext ==
  ASSUME TypeInv, WayInv, Apart, [Next]_vars, TypeInv', ~DoMsgNew, NEW t \in Nat, UpTo(t)
  PROVE  Marks(t)'
<1>0. /\ Floor(t) \in Int /\ Floor(t)' \in Int /\ Floor(t) <= Floor(t)' /\ base \in Nat /\ base <= Floor(t)
      /\ Below(t) /\ Marks(t) /\ LocalMax \in Nat
  BY FloorTyped, FloorTypedNext, FloorNext, SizeFacts DEF WayInv, TypeInv, MemoryType, UpTo, Counts
<1>a. /\ LocalsType /\ Worker \in Thread /\ App \in Thread /\ Worker # App /\ queue \in Seq(Commands)
      /\ (\A s \in Thread : s = Worker \/ s = App) /\ \A s \in Thread : local[s].n \in Nat
  BY LocalFacts DEF TypeInv, MemoryType, LocalsType, Thread, Worker, App, WayType
<1>b. local[Worker].pc # "update" => LocalMax <= Floor(t)
  BY <1>0, SmallFacts
<1>c. \A cmd : Take(cmd) => local[Worker].pc = "idle" /\ serial' = serial
  BY DEF Take, At
<1> DEFINE Steady ==
             /\ serial' = serial
             /\ local'[App].pc \in {"markRows", "markCount"} =>
                  local[App].pc \in {"markRows", "markCount"} /\ local'[App].n = local[App].n
             /\ local'[App].pc \in {"clearRows", "clearConv"} =>
                  local[App].pc \in {"clearRows", "clearConv"} /\ local'[App].n = local[App].n
             /\ local'[Worker].pc \in {"clearRows", "clearConv"} =>
                  local[Worker].pc \in {"clearRows", "clearConv"} /\ local'[Worker].n = local[Worker].n
           Fine == Marks(t)'
<1>d. ASSUME Steady PROVE Fine
  <2>1. ASSUME local'[App].pc \in {"markRows", "markCount"} PROVE local'[App].n <= Floor(t)'
    BY <1>0, <1>a, <1>d, <2>1 DEF Marks
  <2>2. ASSUME serial', local'[App].pc \in {"clearRows", "clearConv"} PROVE local'[App].n <= Floor(t)'
    BY <1>0, <1>a, <1>d, <2>2 DEF Marks
  <2>3. ASSUME local'[Worker].pc \in {"clearRows", "clearConv"} PROVE local'[Worker].n <= Floor(t)'
    BY <1>0, <1>a, <1>d, <2>3 DEF Marks
  <2> QED BY <2>1, <2>2, <2>3 DEF Marks
<1>1. ASSUME DoMsgNew PROVE Fine
  BY <1>1
<1>2. ASSUME NEW s \in Thread, ClearHasRead(s) PROVE Fine
  <2>1. /\ local[s].pc = "clear" /\ local'[s].pc = "clearRows" /\ local'[s].n = LocalMax /\ serial' = serial
        /\ \A r \in Thread : r # s => local'[r] = local[r]
    BY <1>2, <1>a, ClearHasReadDoes DEF Still
  <2>2. s = Worker \/ serial => LocalMax <= Floor(t)'
    <3>1. s = Worker \/ serial => local[Worker].pc # "update"
      BY <1>a, <2>1 DEF Apart, Turns
    <3> QED BY <1>0, <1>b, <3>1
  <2>3. CASE s = Worker
    <3>1. local'[App] = local[App] /\ local'[Worker].n <= Floor(t)'
      BY <1>a, <2>1, <2>2, <2>3
    <3>2. ASSUME local[App].pc \in {"markRows", "markCount"} PROVE local'[App].n <= Floor(t)'
      BY <1>0, <1>a, <3>1, <3>2 DEF Marks
    <3>3. ASSUME serial, local[App].pc \in {"clearRows", "clearConv"} PROVE local'[App].n <= Floor(t)'
      BY <1>0, <1>a, <3>1, <3>3 DEF Marks
    <3> QED BY <2>1, <3>1, <3>2, <3>3 DEF Marks
  <2>4. CASE s = App
    <3>1. local'[Worker] = local[Worker] /\ (serial => local'[App].n <= Floor(t)')
            /\ local'[App].pc = "clearRows"
      BY <1>a, <2>1, <2>2, <2>4
    <3>2. ASSUME local[Worker].pc \in {"clearRows", "clearConv"} PROVE local'[Worker].n <= Floor(t)'
      BY <1>0, <1>a, <3>1, <3>2 DEF Marks
    <3> QED BY <2>1, <3>1, <3>2 DEF Marks
  <2> QED BY <1>a, <2>3, <2>4
<1>3. ASSUME MarkConversation PROVE Fine
  <2>1. /\ local'[Worker] = local[Worker] /\ local'[App].n = LocalMax /\ mutex = "free" /\ serial' = serial
        /\ local'[App].pc \in {"markRows", "markCount"}
    BY <1>3, <1>a, MarkConversationDoes
  <2>2. local[Worker].pc # "update"
    BY <2>1 DEF Apart, Locked, Worker
  <2>3. LocalMax <= Floor(t)'
    BY <1>0, <1>b, <2>2
  <2>4. ASSUME local'[Worker].pc \in {"clearRows", "clearConv"} PROVE local'[Worker].n <= Floor(t)'
    BY <1>0, <1>a, <2>1, <2>4 DEF Marks
  <2> QED BY <2>1, <2>3, <2>4 DEF Marks
<1>4. ASSUME ClearedElsewhere \/ DeliverMsgs \/ DeliverNote \/ RequestSync
      PROVE  Steady
  BY <1>4, <1>a, <1>c, IdleTyped DEF ClearedElsewhere, DeliverMsgs, DeliverNote, RequestSync, Event,
    Quiet, srvVars, wayVars, rowVars, memVars, scenVars, Steady
<1>5. ASSUME NEW own \in BOOLEAN, Publish(own)
      PROVE  Steady
  BY <1>5, <1>a, <1>c, IdleTyped DEF Publish, Quiet, srvVars, wayVars, rowVars, memVars, scenVars,
    Steady
<1>6. ASSUME NEW n \in Seqs, RevokedElsewhere(n) \/ DeletedElsewhere(n) \/ ReadElsewhere(n) \/
         PeerReads(n)
      PROVE  Steady
  BY <1>6, <1>a, <1>c, IdleTyped DEF RevokedElsewhere, DeletedElsewhere, ReadElsewhere, PeerReads,
    Event, Quiet, MarkOnServer, srvVars, wayVars, rowVars, memVars, scenVars, Steady
<1>7. ASSUME ReadConversation \/ InsertMessages \/ UpdateConversation
      PROVE  Steady
  BY <1>7, <1>a, <1>c, IdleTyped, ReadConversationDoes, InsertMessagesDoes, UpdateConversationDoes
    DEF srvVars, wayVars, rowVars, memVars, scenVars, Steady, Goes, GoesWith, Keeps, Ends, Still
<1>8. ASSUME SyncData \/ SyncAnswer \/ SyncUnread
      PROVE  Steady
  BY <1>8, <1>a, <1>c, IdleTyped, SyncDataDoes, SyncAnswerDoes, SyncUnreadDoes DEF srvVars, wayVars,
    rowVars, memVars, scenVars, Steady, Goes, GoesWith, Keeps, Ends, Still
<1>9. ASSUME UpdateLatest \/ DoRevokeMsg \/ DoDeleteMsgs
      PROVE  Steady
  BY <1>9, <1>a, <1>c, IdleTyped, UpdateLatestDoes, DoRevokeMsgDoes, DoDeleteMsgsDoes DEF srvVars,
    wayVars, rowVars, memVars, scenVars, Steady, Goes, GoesWith, Keeps, Ends, Still
<1>10. ASSUME DoClearConversations \/ DoUnreadCount \/ SetUnreadCount
      PROVE  Steady
  BY <1>10, <1>a, <1>c, IdleTyped, DoClearConversationsDoes, DoUnreadCountDoes, SetUnreadCountDoes
    DEF srvVars, wayVars, rowVars, memVars, scenVars, Steady, Goes, GoesWith, Keeps, Ends, Still
<1>11. ASSUME DoReadDrawing \/ UpdateMessage
      PROVE  Steady
  BY <1>11, <1>a, <1>c, IdleTyped, DoReadDrawingDoes, UpdateMessageDoes DEF srvVars, wayVars,
    rowVars, memVars, scenVars, Steady, Goes, GoesWith, Keeps, Ends, Still
<1>12. ASSUME NEW s \in Thread, RevokeRow(s) \/ RevokeLatest(s) \/ DeleteRow(s)
      PROVE  Steady
  <2>1. CASE RevokeRow(s)
    BY <2>1, <1>a, <1>c, IdleTyped, RevokeRowDoes
       DEF srvVars, wayVars, rowVars, memVars, scenVars, Steady, Goes, GoesWith, Keeps, Ends, Still
  <2>2. CASE RevokeLatest(s)
    BY <2>2, <1>a, <1>c, IdleTyped, RevokeLatestDoes
       DEF srvVars, wayVars, rowVars, memVars, scenVars, Steady, Goes, GoesWith, Keeps, Ends, Still
  <2>3. CASE DeleteRow(s)
    BY <2>3, <1>a, <1>c, IdleTyped, DeleteRowDoes
       DEF srvVars, wayVars, rowVars, memVars, scenVars, Steady, Goes, GoesWith, Keeps, Ends, Still
  <2> QED BY <1>12, <2>1, <2>2, <2>3
<1>13. ASSUME NEW s \in Thread, DeleteCount(s) \/ DeleteLatest(s) \/ WriteLatest(s)
      PROVE  Steady
  BY <1>13, <1>a, <1>c, IdleTyped, DeleteCountDoes, DeleteLatestDoes, WriteLatestDoes DEF srvVars,
    wayVars, rowVars, memVars, scenVars, Steady, Goes, GoesWith, Keeps, Ends, Still
<1>14. ASSUME NEW s \in Thread, ClearRows(s) \/ ClearConversation(s) \/ ReadLatest(s)
      PROVE  Steady
  BY <1>14, <1>a, <1>c, IdleTyped, ClearRowsDoes, ClearConversationDoes, ReadLatestDoes DEF srvVars,
    wayVars, rowVars, memVars, scenVars, Steady, Goes, GoesWith, Keeps, Ends, Still
<1>15. ASSUME NEW s \in Thread, SetLatestRead(s)
      PROVE  Steady
  BY <1>15, <1>a, <1>c, IdleTyped, SetLatestReadDoes DEF srvVars, wayVars, rowVars, memVars,
    scenVars, Steady, Goes, GoesWith, Keeps, Ends, Still
<1>16. ASSUME ClearMessages \/ MarkRows \/ MarkCount
      PROVE  Steady
  BY <1>16, <1>a, <1>c, IdleTyped, ClearMessagesDoes, MarkRowsDoes, MarkCountDoes DEF srvVars,
    wayVars, rowVars, memVars, scenVars, Steady, Goes, GoesWith, Keeps, Ends, Still
<1>17. ASSUME MarkRow \/ MarkDecr
      PROVE  Steady
  BY <1>17, <1>a, <1>c, IdleTyped, MarkRowDoes, MarkDecrDoes DEF srvVars, wayVars, rowVars, memVars,
    scenVars, Steady, Goes, GoesWith, Keeps, Ends, Still
<1>18. ASSUME NEW n \in Seqs, RevokeMessage(n) \/ DeleteMessage(n) \/ MarkMessage(n)
      PROVE  Steady
  BY <1>18, <1>a, <1>c, IdleTyped, RevokeMessageDoes, DeleteMessageDoes, MarkMessageDoes DEF
    srvVars, wayVars, rowVars, memVars, scenVars, Steady, Goes, GoesWith, Keeps, Ends, Still
<1>19. ASSUME UNCHANGED vars PROVE Fine
  BY <1>19, <1>a, <1>d DEF vars, srvVars, wayVars, rowVars, memVars, scenVars, Steady
<1>20. ASSUME Steady PROVE Fine
  BY <1>20, <1>a, <1>d DEF srvVars, wayVars, rowVars, memVars, scenVars, Steady
<1> HIDE DEF Fine, Steady
<1>21. ASSUME World PROVE Fine
  BY <1>21, <1>1, <1>2, <1>3, <1>4, <1>5, <1>6, <1>7, <1>8, <1>9, <1>10, <1>11, <1>12, <1>13, <1>14,
    <1>15, <1>16, <1>17, <1>18, <1>20 DEF World, Thread
<1>22. ASSUME Work PROVE Fine
  BY <1>22, <1>1, <1>2, <1>3, <1>4, <1>5, <1>6, <1>7, <1>8, <1>9, <1>10, <1>11, <1>12, <1>13, <1>14,
    <1>15, <1>16, <1>17, <1>18, <1>20 DEF Work, Either, Thread
<1>23. ASSUME Call PROVE Fine
  BY <1>23, <1>1, <1>2, <1>3, <1>4, <1>5, <1>6, <1>7, <1>8, <1>9, <1>10, <1>11, <1>12, <1>13, <1>14,
    <1>15, <1>16, <1>17, <1>18, <1>20 DEF Call, Either, Thread
<1>q. Fine
  BY <1>21, <1>22, <1>23, <1>19 DEF Next
<1> QED BY <1>q DEF Fine

(* The worker takes a batch: from now on it knows about the messages of the batch, too. *)
LEMMA BatchTaken ==
  ASSUME TypeInv, WayInv, TypeInv', DoMsgNew, NEW t \in Nat, UpTo(t)
  PROVE  \E m \in 0..sent : UpTo(m)'
<1> DEFINE b == queue[1].batch
<1>a. PICK m \in Nat : m = b.to
  BY CounterFacts DEF WayInv
<1>b. PICK c \in Nat : c = Counted(b)
  BY CounterFacts DEF WayInv
<1>1. /\ 1 \in Batches /\ m \in Nat /\ b.from \in Nat /\ b.from <= m /\ m <= sent
      /\ c \in Nat /\ c <= m - (b.from - 1) /\ recorder' = recorder + c /\ Still(Worker)
      /\ local'[Worker].pc = "lock" /\ local'[Worker].batch.count = c /\ local'[Worker].batch.to = m
      /\ Take("msgs") /\ rows' = rows /\ conv' = conv /\ base' = base
  BY CounterFacts, <1>a, <1>b DEF WayInv, rowVars, Batches
<1>2. /\ recorder \in Nat /\ local[Worker].pc = "idle" /\ serial' = serial /\ queue' = Tail(queue)
           /\ queue # <<>>
      /\ queue \in Seq(Commands) /\ local'[App] = local[App] /\ base \in Nat /\ conv.unread \in Nat
      /\ local[App].n \in Nat /\ sent \in Nat
  BY <1>1, LocalFacts, SizeFacts DEF Take, At, Still, TypeInv, TableType, MemoryType, WayType, WayInv,
                                     Thread,
    Worker, App
<1> HIDE DEF b
<1>3. b.from > t
  BY <1>1 DEF UpTo, Later, b
<1>4. Pending = 0 /\ Pending' = c
  BY <1>1, <1>2 DEF Pending, Holds
<1>5. Floor(t) \in Int /\ Floor(m)' \in Int /\ Floor(t) <= Floor(m)' /\ Reached(m)' \in Nat
  <2>1. Reached(t) \in Nat /\ Floor(t) = Reached(t) /\ (Reached(t) = t \/ Reached(t) = recorder)
    BY <1>4, FloorTyped
  <2>2. Reached(m)' >= m /\ Reached(m)' >= recorder + c /\ Reached(m)' \in Nat /\ Floor(m)' + c = Reached(m)'
        /\ Floor(m)' \in Int
    BY <1>1, <1>4, FloorTypedNext
  <2>3. t + c <= m
    BY <1>1, <1>3
  <2> QED BY <1>1, <1>2, <2>1, <2>2, <2>3
<1>6. Later(m)'
  <2>1. ASSUME NEW i \in Batches' PROVE queue'[i].batch.from > m
    <3>1. i \in 1..Len(queue') /\ queue'[i].cmd = "msgs" /\ Len(queue') = Len(queue) - 1 /\ Len(queue) \in Nat
          /\ queue'[i] = queue[i + 1]
      BY <1>2 DEF Batches
    <3>2. i + 1 \in Batches /\ 1 < i + 1
      BY <3>1 DEF Batches
    <3>3. queue[i + 1].batch.from \in Nat
      BY <1>2, <3>2, BatchTyped
    <3> QED BY <1>1, <1>a, <3>1, <3>2, <3>3 DEF WayInv, InOrder, b
  <2> QED BY <1>1, <2>1 DEF Later
<1>7. Counts(m)'
  <2>1. base <= Floor(t) /\ conv.unread + base <= Floor(t)
    BY DEF UpTo, Counts
  <2>2. base' <= Floor(m)' /\ conv'.unread + base' <= Floor(m)'
    BY <1>1, <1>2, <1>5, <2>1
  <2> QED BY <1>1, <2>2 DEF Counts
<1>8. Below(m)'
  <2> SUFFICES ASSUME NEW n \in Seqs, rows'[n].st # "none" PROVE n <= Floor(m)'
    BY <1>1 DEF Below
  <2>1. n <= Floor(t)
    BY <1>1, <1>2 DEF UpTo, Below
  <2> QED BY <1>5, <2>1 DEF Seqs
<1>9. Marks(m)'
  <2>1. ASSUME local[App].pc \in {"markRows", "markCount"} PROVE local'[App].n <= Floor(m)'
    BY <1>2, <1>5, <2>1 DEF UpTo, Marks
  <2>2. ASSUME serial, local[App].pc \in {"clearRows", "clearConv"} PROVE local'[App].n <= Floor(m)'
    BY <1>2, <1>5, <2>2 DEF UpTo, Marks
  <2> QED BY <1>1, <1>2, <2>1, <2>2 DEF Marks
<1>10. m \in 0..sent
  BY <1>1, <1>2
<1>11. UpTo(m)'
  BY <1>6, <1>7, <1>8, <1>9 DEF UpTo
<1> QED BY <1>10, <1>11

(* The invariant of the count: every step, the first state, and what follows. *)
LEMMA NextCount == ASSUME TypeInv, WayInv, Apart, CountInv, [Next]_vars, TypeInv' PROVE CountInv'
<1>1. PICK t \in 0..sent : UpTo(t)
  BY DEF CountInv
<1>2. sent \in Nat /\ sent' \in Nat /\ sent <= sent' /\ t \in Nat /\ t <= sent
  BY <1>1, SentGrows DEF TypeInv, WayType, ServerType
<1>3. CASE DoMsgNew
  <2>1. PICK m \in 0..sent : UpTo(m)'
    BY <1>1, <1>2, <1>3, BatchTaken
  <2>2. m \in 0..sent'
    BY <1>2
  <2> QED BY <2>1, <2>2 DEF CountInv
<1>4. CASE ~DoMsgNew
  <2>1. UpTo(t)'
    BY <1>1, <1>2, <1>4, LaterNext, CountsNext, BelowNext, MarksNext DEF UpTo, WayInv
  <2>2. t \in 0..sent'
    BY <1>2
  <2> QED BY <2>1, <2>2 DEF CountInv
<1> QED BY <1>3, <1>4

LEMMA InitCount == ASSUME Init PROVE TypeInv /\ WayInv /\ Apart /\ CountInv
<1>1. /\ Idle \in Locals /\ Idle.pc = "idle" /\ NoRow \in Row /\ NoRow.st = "none" /\ NoConv \in Convs
      /\ NoConv.unread = 0 /\ Worker \in Thread /\ App \in Thread
  BY IdleTyped DEF Idle, NoConv, NoLatest, Latests, Convs, Locals, Thread
<1>2. local[Worker] = Idle /\ local[App] = Idle /\ \A n \in Seqs : rows[n] = NoRow
  BY <1>1 DEF Init
<1>3. TypeInv
  <2>1. ServerType /\ WayType
    BY SizeAssumption DEF Init, ServerType, WayType
  <2>2. TableType
    BY <1>1 DEF Init, TableType
  <2>3. MemoryType
    BY <1>1, <1>2 DEF Init, MemoryType, SyncBelow, At
  <2> QED BY <2>1, <2>2, <2>3 DEF TypeInv
<1>4. Batches = {}
  BY DEF Init, Batches
<1>5. WayInv
  BY <1>1, <1>2, <1>4 DEF WayInv, Sent, InOrder, Handed
<1>6. Apart
  BY <1>1, <1>2 DEF Apart, Locked, Turns, Sinks
<1>7. UpTo(0)
  <2>1. recorder = 0 /\ base = 0 /\ conv.unread = 0
    BY <1>1 DEF Init
  <2>2. Floor(0) = 0 /\ Reached(0) = 0 /\ ~Holds
    BY <1>1, <1>2, <2>1 DEF Floor, Reached, Pending, Holds
  <2>3. Later(0) /\ Counts(0)
    BY <1>1, <1>2, <1>4, <2>1, <2>2 DEF Later, Counts
  <2>4. Below(0) /\ Marks(0)
    BY <1>1, <1>2, <2>2 DEF Below, Marks
  <2> QED BY <2>3, <2>4 DEF UpTo
<1>8. 0 \in 0..sent
  BY DEF Init
<1> QED BY <1>3, <1>5, <1>6, <1>7, <1>8 DEF CountInv

LEMMA CountCorrect == ASSUME TypeInv, CountInv PROVE CountedOnce
<1>1. PICK t \in 0..sent : UpTo(t)
  BY DEF CountInv
<1>2. /\ sent \in Nat /\ sent <= log /\ log \in Nat /\ t \in Nat /\ t <= sent /\ recorder \in Nat
           /\ recorder <= log
      /\ base \in Nat /\ conv.unread \in Nat
  BY LocalFacts DEF TypeInv, WayType, ServerType, MemoryType, TableType
<1>3. Floor(t) \in Int /\ Floor(t) <= log
  BY <1>2, FloorTyped
<1>4. conv.unread + base <= Floor(t)
  BY <1>1 DEF UpTo, Counts
<1> QED BY <1>2, <1>3, <1>4 DEF CountedOnce

(***************************************************************************)
(* No message is counted twice, and none again that was read when the      *)
(* count was last set: by the synchronisation, by a mark as read here or   *)
(* on another device, or by clearing the conversation while the worker is  *)
(* idle (doMsgNew, batchUpdateMessageList, SyncAllConversationHashReadSeqs,*)
(* doUnreadCount, markConversationMessageAsRead).                          *)
(***************************************************************************)
THEOREM NoneCountedTwice == Spec => []CountedOnce
<1>1. Init => TypeInv /\ WayInv /\ Apart /\ CountInv
  BY InitCount
<1>2. TypeInv /\ WayInv /\ Apart /\ CountInv /\ [Next]_vars
        => TypeInv' /\ WayInv' /\ Apart' /\ CountInv'
  <2> SUFFICES ASSUME TypeInv, WayInv, Apart, CountInv, [Next]_vars
               PROVE  TypeInv' /\ WayInv' /\ Apart' /\ CountInv'
    OBVIOUS
  <2>1. TypeInv' /\ WayInv' /\ Apart'
    BY NextType, NextWayInv, NextApart DEF WayInv
  <2> QED BY <2>1, NextCount
<1>3. TypeInv /\ CountInv => CountedOnce
  BY CountCorrect
<1> QED BY <1>1, <1>2, <1>3, PTL DEF Spec

-----------------------------------------------------------------------------
(* Revocations *)

(* What a step appends to the server's notifications, and to the queue; or it takes the head of the queue. *)
Told(c) ==
  /\ notes' = Append(notes, c) /\ c \in Notices
  /\ c.kind = "revoke" => srvRevoked' = srvRevoked \cup {c.n}
  /\ c.kind # "revoke" => srvRevoked' = srvRevoked
  /\ c.kind = "receipt" => single
Telling == (notes' = notes /\ srvRevoked' = srvRevoked) \/ \E c : Told(c)

Appended(c) ==
  /\ queue' = Append(queue, c)
  /\ c.cmd = "msgs" => c.batch.rev = srvRevoked /\ srvRevoked' = srvRevoked
  /\ c.cmd = "note" => noted < Len(notes) /\ c.note = notes[noted + 1]
  /\ c.cmd = "latest" => local[Worker].pc = "receipt"
Taken ==
  /\ queue # <<>> /\ queue' = Tail(queue) /\ local[Worker].pc = "idle"
  /\ Head(queue).cmd = "note" /\ Head(queue).note.kind = "revoke" => DoRevokeMsg
Queues == queue' = queue \/ (\E c : Appended(c)) \/ Taken

LEMMA NotesTell == ASSUME TypeInv, Sent, [Next]_vars PROVE Telling
<1>0. /\ LocalsType /\ MaxSeq \in Nat /\ mine \subseteq Nat /\ Worker \in Thread /\ App \in Thread
      /\ LocalMax \in Nat
  BY SizeFacts, SizeAssumption DEF TypeInv, ServerType, MemoryType, LocalsType, Thread
<1>a. /\ \A n \in Seqs : Note("revoke", n, {}) \in Notices /\ Note("revoke", n, {}).n = n
      /\ \A n \in Seqs : Note("delete", n, {}) \in Notices /\ Note("receipt", n, {}) \in Notices
      /\ Note("clear", 0, {}) \in Notices
      /\ \A h \in Nat, S \in SUBSET Nat : ReadNote(h, S) \in Notices /\ ReadNote(h, S).kind = "read"
      /\ \A k, n, S : Note(k, n, S).kind = k
  BY <1>0 DEF Note, ReadNote, Notices, Seqs
<1>b. \A S \in SUBSET Seqs : S \in SUBSET Nat
  BY <1>0 DEF Seqs
<1>1. ASSUME NEW n \in Seqs, RevokedElsewhere(n) PROVE Telling
  BY <1>1, <1>0, <1>a DEF RevokedElsewhere, Event, Quiet, Telling, Told, srvVars, wayVars, rowVars,
    memVars, scenVars
<1>2. ASSUME NEW n \in Seqs, DeletedElsewhere(n) PROVE Telling
  BY <1>2, <1>0, <1>a DEF DeletedElsewhere, Event, Quiet, Telling, Told, srvVars, wayVars, rowVars,
    memVars, scenVars
<1>3. ASSUME NEW n \in Seqs, ReadElsewhere(n) PROVE Telling
  <2> DEFINE S == (srvRead + 1)..n \ mine
  <2>1. n \in Nat /\ S \in SUBSET Nat /\ srvRead \in Nat
    BY <1>0 DEF Seqs, TypeInv, ServerType
  <2> HIDE DEF S
  <2>2. ReadNote(n, S) \in Notices /\ ReadNote(n, S).kind = "read"
    BY <2>1, <1>a
  <2>3. notes' = Append(notes, ReadNote(n, S)) /\ srvRevoked' = srvRevoked
    BY <1>3 DEF ReadElsewhere, MarkOnServer, S
  <2>4. Told(ReadNote(n, S))
    BY <2>2, <2>3 DEF Told
  <2> QED BY <2>4 DEF Telling
<1>4. ASSUME NEW n \in Seqs, PeerReads(n) PROVE Telling
  BY <1>4, <1>0, <1>a DEF PeerReads, Event, Quiet, Telling, Told, srvVars, wayVars, rowVars,
    memVars, scenVars
<1>5. ASSUME ClearedElsewhere PROVE Telling
  BY <1>5, <1>0, <1>a DEF ClearedElsewhere, Event, Quiet, Telling, Told, srvVars, wayVars, rowVars,
    memVars, scenVars
<1>6. ASSUME NEW n \in Seqs, RevokeMessage(n) PROVE Telling
  BY <1>6, <1>0, <1>a, RevokeMessageDoes DEF Telling, Told, Goes, GoesWith, Keeps, Ends, Still,
    srvVars, wayVars, rowVars, memVars, scenVars
<1>7. ASSUME NEW n \in Seqs, MarkMessage(n) PROVE Telling
  <2>1. n \in Nat /\ {n} \in SUBSET Nat
    BY <1>0 DEF Seqs
  <2>2. ReadNote(n, {n}) \in Notices /\ ReadNote(n, {n}).kind = "read"
    BY <2>1, <1>a
  <2>3. notes' = Append(notes, ReadNote(n, {n})) /\ srvRevoked' = srvRevoked
    BY <1>7, <1>0, MarkMessageDoes
  <2>4. Told(ReadNote(n, {n}))
    BY <2>2, <2>3 DEF Told
  <2> QED BY <2>4 DEF Telling
<1>8. ASSUME MarkConversation PROVE Telling
  BY <1>8, <1>0, <1>a, <1>b, MarkConversationDoes DEF Telling, Told, Goes, GoesWith, Keeps, Ends,
    Still, srvVars, wayVars, rowVars, memVars, scenVars
<1>9. ASSUME DeliverMsgs \/ DeliverNote \/ RequestSync
      PROVE  notes' = notes /\ srvRevoked' = srvRevoked
  BY <1>9, <1>0 DEF DeliverMsgs, DeliverNote, RequestSync, Quiet, Event, srvVars, wayVars, rowVars,
    memVars, scenVars
<1>10. ASSUME NEW own \in BOOLEAN, Publish(own)
      PROVE  notes' = notes /\ srvRevoked' = srvRevoked
  BY <1>10, <1>0 DEF Publish, Quiet, srvVars, wayVars, rowVars, memVars, scenVars
<1>11. ASSUME DoMsgNew \/ ReadConversation \/ InsertMessages \/ UpdateConversation \/ SyncData \/
         SyncAnswer \/ SyncUnread \/ UpdateLatest \/ DoRevokeMsg \/ DoDeleteMsgs \/
         DoClearConversations \/ DoUnreadCount \/ SetUnreadCount \/ DoReadDrawing \/ UpdateMessage
      PROVE  notes' = notes /\ srvRevoked' = srvRevoked
  BY <1>11, <1>0 DEF DoMsgNew, ReadConversation, InsertMessages, UpdateConversation, SyncData,
    SyncAnswer, SyncUnread, UpdateLatest, DoRevokeMsg, DoDeleteMsgs, DoClearConversations,
    DoUnreadCount, SetUnreadCount, DoReadDrawing, UpdateMessage, Take, DoNote, TakeNote, srvVars,
    wayVars, rowVars, memVars, scenVars
<1>12. ASSUME NEW t \in Thread, RevokeRow(t) \/ RevokeLatest(t) \/ DeleteRow(t)
      PROVE  notes' = notes /\ srvRevoked' = srvRevoked
  BY <1>12, <1>0, RevokeRowDoes, RevokeLatestDoes, DeleteRowDoes DEF srvVars, wayVars, rowVars,
    memVars, scenVars, Goes, GoesWith, Keeps, Ends, Still
<1>13. ASSUME NEW t \in Thread, DeleteCount(t) \/ DeleteLatest(t) \/ WriteLatest(t)
      PROVE  notes' = notes /\ srvRevoked' = srvRevoked
  BY <1>13, <1>0, DeleteCountDoes, DeleteLatestDoes, WriteLatestDoes DEF srvVars, wayVars, rowVars,
    memVars, scenVars, Goes, GoesWith, Keeps, Ends, Still
<1>14. ASSUME NEW t \in Thread, ClearHasRead(t) \/ ClearRows(t) \/ ClearConversation(t)
      PROVE  notes' = notes /\ srvRevoked' = srvRevoked
  BY <1>14, <1>0, ClearHasReadDoes, ClearRowsDoes, ClearConversationDoes DEF srvVars, wayVars,
    rowVars, memVars, scenVars, Goes, GoesWith, Keeps, Ends, Still
<1>15. ASSUME NEW t \in Thread, ReadLatest(t) \/ SetLatestRead(t)
      PROVE  notes' = notes /\ srvRevoked' = srvRevoked
  BY <1>15, <1>0, ReadLatestDoes, SetLatestReadDoes DEF srvVars, wayVars, rowVars, memVars,
    scenVars, Goes, GoesWith, Keeps, Ends, Still
<1>16. ASSUME ClearMessages \/ MarkRows \/ MarkCount
      PROVE  notes' = notes /\ srvRevoked' = srvRevoked
  BY <1>16, <1>0, ClearMessagesDoes, MarkRowsDoes, MarkCountDoes DEF srvVars, wayVars, rowVars,
    memVars, scenVars, Goes, GoesWith, Keeps, Ends, Still
<1>17. ASSUME MarkRow \/ MarkDecr
      PROVE  notes' = notes /\ srvRevoked' = srvRevoked
  BY <1>17, <1>0, MarkRowDoes, MarkDecrDoes DEF srvVars, wayVars, rowVars, memVars, scenVars, Goes,
    GoesWith, Keeps, Ends, Still
<1>18. ASSUME NEW n \in Seqs, DeleteMessage(n)
      PROVE  notes' = notes /\ srvRevoked' = srvRevoked
  BY <1>18, <1>0, DeleteMessageDoes DEF srvVars, wayVars, rowVars, memVars, scenVars, Goes,
    GoesWith, Keeps, Ends, Still
<1>19. CASE UNCHANGED vars
  BY <1>19, <1>0, <1>a DEF vars, srvVars, wayVars, rowVars, memVars, scenVars, Telling, Told
<1>20. ASSUME notes' = notes /\ srvRevoked' = srvRevoked PROVE Telling
  BY <1>20, <1>0, <1>a DEF srvVars, wayVars, rowVars, memVars, scenVars, Telling, Told
<1>21. CASE World
  BY <1>21, <1>1, <1>2, <1>3, <1>4, <1>5, <1>6, <1>7, <1>8, <1>9, <1>10, <1>11, <1>12, <1>13, <1>14,
    <1>15, <1>16, <1>17, <1>18, <1>20 DEF World, Thread
<1>22. CASE Work
  BY <1>22, <1>1, <1>2, <1>3, <1>4, <1>5, <1>6, <1>7, <1>8, <1>9, <1>10, <1>11, <1>12, <1>13, <1>14,
    <1>15, <1>16, <1>17, <1>18, <1>20 DEF Work, Either, Thread
<1>23. CASE Call
  BY <1>23, <1>1, <1>2, <1>3, <1>4, <1>5, <1>6, <1>7, <1>8, <1>9, <1>10, <1>11, <1>12, <1>13, <1>14,
    <1>15, <1>16, <1>17, <1>18, <1>20 DEF Call, Either, Thread
<1> QED BY <1>21, <1>22, <1>23, <1>19 DEF Next


LEMMA QueueMoves == ASSUME TypeInv, [Next]_vars PROVE Queues
<1>0. LocalsType /\ queue \in Seq(Commands) /\ Worker \in Thread /\ App \in Thread
  BY DEF TypeInv, MemoryType, LocalsType, Thread, WayType
<1>a. ASSUME NEW cmd, Take(cmd)
      PROVE  queue # <<>> /\ queue' = Tail(queue) /\ local[Worker].pc = "idle" /\ Head(queue).cmd = cmd
  BY <1>a DEF Take, At
<1>1. ASSUME DoMsgNew PROVE Queues
  BY <1>1, <1>a DEF DoMsgNew, Queues, Taken
<1>2. ASSUME SyncData PROVE Queues
  BY <1>2, <1>a DEF SyncData, Queues, Taken
<1>3. ASSUME UpdateLatest PROVE Queues
  BY <1>3, <1>a DEF UpdateLatest, Queues, Taken
<1>4. ASSUME DoRevokeMsg PROVE Queues
  BY <1>4, <1>a DEF DoRevokeMsg, DoNote, TakeNote, Queues, Taken
<1>5. ASSUME DoDeleteMsgs PROVE Queues
  BY <1>5, <1>a DEF DoDeleteMsgs, DoNote, TakeNote, Queues, Taken
<1>6. ASSUME DoClearConversations PROVE Queues
  BY <1>6, <1>a DEF DoClearConversations, DoNote, TakeNote, Queues, Taken
<1>7. ASSUME DoUnreadCount PROVE Queues
  BY <1>7, <1>a DEF DoUnreadCount, DoNote, TakeNote, Queues, Taken
<1>8. ASSUME DoReadDrawing PROVE Queues
  BY <1>8, <1>a DEF DoReadDrawing, DoNote, TakeNote, Queues, Taken
<1>9. ASSUME DeliverMsgs PROVE Queues
  <2> DEFINE c == [cmd |-> "msgs", batch |-> [from |-> sent + 1, to |-> log, gone |-> srvGone,
                                              rev |-> srvRevoked, count |-> 0]]
  <2>1. queue' = Append(queue, c) /\ srvRevoked' = srvRevoked
    BY <1>9 DEF DeliverMsgs, srvVars
  <2>2. c.cmd = "msgs" /\ c.batch.rev = srvRevoked
    OBVIOUS
  <2> HIDE DEF c
  <2>3. Appended(c)
    BY <2>1, <2>2 DEF Appended
  <2> QED BY <2>3 DEF Queues
<1>10. ASSUME DeliverNote PROVE Queues
  <2> DEFINE c == [cmd |-> "note", note |-> notes[noted + 1]]
  <2>1. queue' = Append(queue, c) /\ noted < Len(notes)
    BY <1>10 DEF DeliverNote
  <2>2. c.cmd = "note" /\ c.note = notes[noted + 1]
    OBVIOUS
  <2> HIDE DEF c
  <2>3. Appended(c)
    BY <2>1, <2>2 DEF Appended
  <2> QED BY <2>3 DEF Queues
<1>11. ASSUME RequestSync PROVE Queues
  <2>1. Appended([cmd |-> "sync"])
    BY <1>11 DEF RequestSync, Appended
  <2> QED BY <2>1 DEF Queues
<1>12. ASSUME UpdateMessage PROVE Queues
  <2> DEFINE c == [cmd |-> "latest", conv |-> local[Worker].conv]
  <2>1. (queue' = queue \/ queue' = Append(queue, c)) /\ local[Worker].pc = "receipt"
    BY <1>12, <1>0, UpdateMessageDoes
  <2>2. Appended(c) \/ queue' = queue
    BY <2>1 DEF Appended
  <2> QED BY <2>2 DEF Queues
<1>13. ASSUME ClearedElsewhere
      PROVE  queue' = queue
  BY <1>13, <1>0 DEF ClearedElsewhere, Event, Quiet, srvVars, wayVars, rowVars, memVars, scenVars
<1>14. ASSUME NEW own \in BOOLEAN, Publish(own)
      PROVE  queue' = queue
  BY <1>14, <1>0 DEF Publish, Quiet, srvVars, wayVars, rowVars, memVars, scenVars
<1>15. ASSUME NEW n \in Seqs, RevokedElsewhere(n) \/ DeletedElsewhere(n) \/ ReadElsewhere(n) \/
         PeerReads(n)
      PROVE  queue' = queue
  BY <1>15, <1>0 DEF RevokedElsewhere, DeletedElsewhere, ReadElsewhere, PeerReads, Event, Quiet,
    MarkOnServer, srvVars, wayVars, rowVars, memVars, scenVars
<1>16. ASSUME ReadConversation \/ InsertMessages \/ UpdateConversation
      PROVE  queue' = queue
  BY <1>16, <1>0, ReadConversationDoes, InsertMessagesDoes, UpdateConversationDoes DEF srvVars,
    wayVars, rowVars, memVars, scenVars, Goes, GoesWith, Keeps, Ends, Still
<1>17. ASSUME SyncAnswer \/ SyncUnread \/ SetUnreadCount
      PROVE  queue' = queue
  BY <1>17, <1>0, SyncAnswerDoes, SyncUnreadDoes, SetUnreadCountDoes DEF srvVars, wayVars, rowVars,
    memVars, scenVars, Goes, GoesWith, Keeps, Ends, Still
<1>18. ASSUME NEW t \in Thread, RevokeRow(t) \/ RevokeLatest(t) \/ DeleteRow(t)
      PROVE  queue' = queue
  BY <1>18, <1>0, RevokeRowDoes, RevokeLatestDoes, DeleteRowDoes DEF srvVars, wayVars, rowVars,
    memVars, scenVars, Goes, GoesWith, Keeps, Ends, Still
<1>19. ASSUME NEW t \in Thread, DeleteCount(t) \/ DeleteLatest(t) \/ WriteLatest(t)
      PROVE  queue' = queue
  BY <1>19, <1>0, DeleteCountDoes, DeleteLatestDoes, WriteLatestDoes DEF srvVars, wayVars, rowVars,
    memVars, scenVars, Goes, GoesWith, Keeps, Ends, Still
<1>20. ASSUME NEW t \in Thread, ClearHasRead(t) \/ ClearRows(t) \/ ClearConversation(t)
      PROVE  queue' = queue
  BY <1>20, <1>0, ClearHasReadDoes, ClearRowsDoes, ClearConversationDoes DEF srvVars, wayVars,
    rowVars, memVars, scenVars, Goes, GoesWith, Keeps, Ends, Still
<1>21. ASSUME NEW t \in Thread, ReadLatest(t) \/ SetLatestRead(t)
      PROVE  queue' = queue
  BY <1>21, <1>0, ReadLatestDoes, SetLatestReadDoes DEF srvVars, wayVars, rowVars, memVars,
    scenVars, Goes, GoesWith, Keeps, Ends, Still
<1>22. ASSUME ClearMessages \/ MarkConversation \/ MarkRows
      PROVE  queue' = queue
  BY <1>22, <1>0, ClearMessagesDoes, MarkConversationDoes, MarkRowsDoes DEF srvVars, wayVars,
    rowVars, memVars, scenVars, Goes, GoesWith, Keeps, Ends, Still
<1>23. ASSUME MarkCount \/ MarkRow \/ MarkDecr
      PROVE  queue' = queue
  BY <1>23, <1>0, MarkCountDoes, MarkRowDoes, MarkDecrDoes DEF srvVars, wayVars, rowVars, memVars,
    scenVars, Goes, GoesWith, Keeps, Ends, Still
<1>24. ASSUME NEW n \in Seqs, RevokeMessage(n) \/ DeleteMessage(n) \/ MarkMessage(n)
      PROVE  queue' = queue
  BY <1>24, <1>0, RevokeMessageDoes, DeleteMessageDoes, MarkMessageDoes DEF srvVars, wayVars,
    rowVars, memVars, scenVars, Goes, GoesWith, Keeps, Ends, Still
<1>25. CASE UNCHANGED vars
  BY <1>25, <1>0 DEF vars, srvVars, wayVars, rowVars, memVars, scenVars, Queues
<1>26. ASSUME queue' = queue PROVE Queues
  BY <1>26, <1>0 DEF srvVars, wayVars, rowVars, memVars, scenVars, Queues
<1>27. CASE World
  BY <1>27, <1>1, <1>2, <1>3, <1>4, <1>5, <1>6, <1>7, <1>8, <1>9, <1>10, <1>11, <1>12, <1>13, <1>14,
    <1>15, <1>16, <1>17, <1>18, <1>19, <1>20, <1>21, <1>22, <1>23, <1>24, <1>26 DEF World, Thread
<1>28. CASE Work
  BY <1>28, <1>1, <1>2, <1>3, <1>4, <1>5, <1>6, <1>7, <1>8, <1>9, <1>10, <1>11, <1>12, <1>13, <1>14,
    <1>15, <1>16, <1>17, <1>18, <1>19, <1>20, <1>21, <1>22, <1>23, <1>24, <1>26 DEF Work, Either,
    Thread
<1>29. CASE Call
  BY <1>29, <1>1, <1>2, <1>3, <1>4, <1>5, <1>6, <1>7, <1>8, <1>9, <1>10, <1>11, <1>12, <1>13, <1>14,
    <1>15, <1>16, <1>17, <1>18, <1>19, <1>20, <1>21, <1>22, <1>23, <1>24, <1>26 DEF Call, Either,
    Thread
<1> QED BY <1>27, <1>28, <1>29, <1>25 DEF Next


LEMMA NotedMoves == ASSUME TypeInv, [Next]_vars PROVE DeliverNote \/ noted' = noted
<1>0. LocalsType /\ queue \in Seq(Commands) /\ Worker \in Thread /\ App \in Thread
  BY DEF TypeInv, MemoryType, LocalsType, Thread, WayType
<1>a. \A cmd : Take(cmd) => noted' = noted
  BY DEF Take
<1> DEFINE Fine == DeliverNote \/ noted' = noted
<1>1. ASSUME DeliverNote PROVE Fine
  BY <1>1
<1>2. ASSUME DoMsgNew PROVE Fine
  BY <1>2, <1>a DEF DoMsgNew
<1>3. ASSUME ClearedElsewhere \/ DeliverMsgs \/ RequestSync
      PROVE  noted' = noted
  BY <1>3, <1>0, <1>a DEF ClearedElsewhere, DeliverMsgs, RequestSync, Event, Quiet, srvVars,
    wayVars, rowVars, memVars, scenVars
<1>4. ASSUME NEW own \in BOOLEAN, Publish(own)
      PROVE  noted' = noted
  BY <1>4, <1>0, <1>a DEF Publish, Quiet, srvVars, wayVars, rowVars, memVars, scenVars
<1>5. ASSUME NEW n \in Seqs, RevokedElsewhere(n) \/ DeletedElsewhere(n) \/ ReadElsewhere(n) \/
         PeerReads(n)
      PROVE  noted' = noted
  BY <1>5, <1>0, <1>a DEF RevokedElsewhere, DeletedElsewhere, ReadElsewhere, PeerReads, Event,
    Quiet, MarkOnServer, srvVars, wayVars, rowVars, memVars, scenVars
<1>6. ASSUME ReadConversation \/ InsertMessages \/ UpdateConversation
      PROVE  noted' = noted
  BY <1>6, <1>0, <1>a, ReadConversationDoes, InsertMessagesDoes, UpdateConversationDoes DEF srvVars,
    wayVars, rowVars, memVars, scenVars, Goes, GoesWith, Keeps, Ends, Still
<1>7. ASSUME SyncData \/ SyncAnswer \/ SyncUnread
      PROVE  noted' = noted
  BY <1>7, <1>0, <1>a, SyncDataDoes, SyncAnswerDoes, SyncUnreadDoes DEF srvVars, wayVars, rowVars,
    memVars, scenVars, Goes, GoesWith, Keeps, Ends, Still
<1>8. ASSUME UpdateLatest \/ DoRevokeMsg \/ DoDeleteMsgs
      PROVE  noted' = noted
  BY <1>8, <1>0, <1>a, UpdateLatestDoes, DoRevokeMsgDoes, DoDeleteMsgsDoes DEF srvVars, wayVars,
    rowVars, memVars, scenVars, Goes, GoesWith, Keeps, Ends, Still
<1>9. ASSUME DoClearConversations \/ DoUnreadCount \/ SetUnreadCount
      PROVE  noted' = noted
  BY <1>9, <1>0, <1>a, DoClearConversationsDoes, DoUnreadCountDoes, SetUnreadCountDoes DEF srvVars,
    wayVars, rowVars, memVars, scenVars, Goes, GoesWith, Keeps, Ends, Still
<1>10. ASSUME DoReadDrawing \/ UpdateMessage
      PROVE  noted' = noted
  BY <1>10, <1>0, <1>a, DoReadDrawingDoes, UpdateMessageDoes DEF srvVars, wayVars, rowVars, memVars,
    scenVars, Goes, GoesWith, Keeps, Ends, Still
<1>11. ASSUME NEW t \in Thread, RevokeRow(t) \/ RevokeLatest(t) \/ DeleteRow(t)
      PROVE  noted' = noted
  BY <1>11, <1>0, <1>a, RevokeRowDoes, RevokeLatestDoes, DeleteRowDoes DEF srvVars, wayVars,
    rowVars, memVars, scenVars, Goes, GoesWith, Keeps, Ends, Still
<1>12. ASSUME NEW t \in Thread, DeleteCount(t) \/ DeleteLatest(t) \/ WriteLatest(t)
      PROVE  noted' = noted
  BY <1>12, <1>0, <1>a, DeleteCountDoes, DeleteLatestDoes, WriteLatestDoes DEF srvVars, wayVars,
    rowVars, memVars, scenVars, Goes, GoesWith, Keeps, Ends, Still
<1>13. ASSUME NEW t \in Thread, ClearHasRead(t) \/ ClearRows(t) \/ ClearConversation(t)
      PROVE  noted' = noted
  BY <1>13, <1>0, <1>a, ClearHasReadDoes, ClearRowsDoes, ClearConversationDoes DEF srvVars, wayVars,
    rowVars, memVars, scenVars, Goes, GoesWith, Keeps, Ends, Still
<1>14. ASSUME NEW t \in Thread, ReadLatest(t) \/ SetLatestRead(t)
      PROVE  noted' = noted
  BY <1>14, <1>0, <1>a, ReadLatestDoes, SetLatestReadDoes DEF srvVars, wayVars, rowVars, memVars,
    scenVars, Goes, GoesWith, Keeps, Ends, Still
<1>15. ASSUME ClearMessages \/ MarkConversation \/ MarkRows
      PROVE  noted' = noted
  BY <1>15, <1>0, <1>a, ClearMessagesDoes, MarkConversationDoes, MarkRowsDoes DEF srvVars, wayVars,
    rowVars, memVars, scenVars, Goes, GoesWith, Keeps, Ends, Still
<1>16. ASSUME MarkCount \/ MarkRow \/ MarkDecr
      PROVE  noted' = noted
  BY <1>16, <1>0, <1>a, MarkCountDoes, MarkRowDoes, MarkDecrDoes DEF srvVars, wayVars, rowVars,
    memVars, scenVars, Goes, GoesWith, Keeps, Ends, Still
<1>17. ASSUME NEW n \in Seqs, RevokeMessage(n) \/ DeleteMessage(n) \/ MarkMessage(n)
      PROVE  noted' = noted
  BY <1>17, <1>0, <1>a, RevokeMessageDoes, DeleteMessageDoes, MarkMessageDoes DEF srvVars, wayVars,
    rowVars, memVars, scenVars, Goes, GoesWith, Keeps, Ends, Still
<1>18. CASE UNCHANGED vars
  BY <1>18, <1>0 DEF vars, srvVars, wayVars, rowVars, memVars, scenVars
<1>19. ASSUME noted' = noted PROVE Fine
  BY <1>19, <1>0 DEF srvVars, wayVars, rowVars, memVars, scenVars
<1>20. CASE World
  BY <1>20, <1>1, <1>2, <1>3, <1>4, <1>5, <1>6, <1>7, <1>8, <1>9, <1>10, <1>11, <1>12, <1>13, <1>14,
    <1>15, <1>16, <1>17, <1>19 DEF World, Thread
<1>21. CASE Work
  BY <1>21, <1>1, <1>2, <1>3, <1>4, <1>5, <1>6, <1>7, <1>8, <1>9, <1>10, <1>11, <1>12, <1>13, <1>14,
    <1>15, <1>16, <1>17, <1>19 DEF Work, Either, Thread
<1>22. CASE Call
  BY <1>22, <1>1, <1>2, <1>3, <1>4, <1>5, <1>6, <1>7, <1>8, <1>9, <1>10, <1>11, <1>12, <1>13, <1>14,
    <1>15, <1>16, <1>17, <1>19 DEF Call, Either, Thread
<1> QED BY <1>20, <1>21, <1>22, <1>18 DEF Next

(* Who lets go of a revocation or of a receipt, and where a goroutine that revokes has its message from. *)
Odd == {"receipt", "count", "latest", "latestRead"}
Revoking(t) ==
  local'[t].pc \in {"revoke", "revokeLatest"} =>
    \/ local[t].pc \in {"revoke", "revokeLatest"} /\ local'[t].n = local[t].n
    \/ local'[t].n \in srvRevoked' \/ (t = Worker /\ DoRevokeMsg)
HandsOn ==
  /\ local[Worker].pc = "revoke" => RevokeRow(Worker) \/ local'[Worker] = local[Worker]
  /\ local'[Worker].pc = "receipt" => DoReadDrawing \/ local'[Worker] = local[Worker]
  /\ local'[Worker].pc \in Odd => local[Worker].pc \in Odd \/ DoReadDrawing \/ single
  /\ Revoking(Worker) /\ Revoking(App)

LEMMA HandMoves == ASSUME TypeInv, InOrder, [Next]_vars PROVE HandsOn
<1>0. LocalsType /\ Worker \in Thread /\ App \in Thread /\ Worker # App
      /\ (\A t \in Thread : t = Worker \/ t = App) /\ queue \in Seq(Commands)
  BY DEF TypeInv, MemoryType, LocalsType, Thread, Worker, App, WayType
<1>a. \A cmd : Take(cmd) => local[Worker].pc = "idle"
  BY DEF Take, At
<1>1. ASSUME DoMsgNew PROVE HandsOn
  BY <1>1, <1>0, <1>a, IdleTyped, CounterFacts DEF HandsOn, Revoking, Odd, Goes, GoesWith, Keeps,
    Ends, Still, srvVars, wayVars, rowVars, memVars, scenVars
<1>2. ASSUME DoRevokeMsg PROVE HandsOn
  BY <1>2, <1>0, <1>a, IdleTyped, DoRevokeMsgDoes DEF HandsOn, Revoking, Odd, Goes, GoesWith, Keeps,
    Ends, Still, srvVars, wayVars, rowVars, memVars, scenVars
<1>3. ASSUME DoReadDrawing PROVE HandsOn
  BY <1>3, <1>0, <1>a, IdleTyped, DoReadDrawingDoes DEF HandsOn, Revoking, Odd, Goes, GoesWith,
    Keeps, Ends, Still, srvVars, wayVars, rowVars, memVars, scenVars
<1>4. ASSUME NEW t \in Thread, RevokeRow(t) PROVE HandsOn
  BY <1>4, <1>0, <1>a, IdleTyped, RevokeRowDoes DEF HandsOn, Revoking, Odd, Goes, GoesWith, Keeps,
    Ends, Still, srvVars, wayVars, rowVars, memVars, scenVars
<1>5. ASSUME NEW n \in Seqs, RevokeMessage(n) PROVE HandsOn
  BY <1>5, <1>0, <1>a, IdleTyped, RevokeMessageDoes DEF HandsOn, Revoking, Odd, Goes, GoesWith,
    Keeps, Ends, Still, srvVars, wayVars, rowVars, memVars, scenVars
<1>6. ASSUME ClearedElsewhere \/ DeliverMsgs \/ DeliverNote \/ RequestSync
      PROVE  HandsOn
  BY <1>6, <1>0, <1>a, IdleTyped DEF ClearedElsewhere, DeliverMsgs, DeliverNote, RequestSync, Event,
    Quiet, srvVars, wayVars, rowVars, memVars, scenVars, HandsOn, Revoking, Odd
<1>7. ASSUME NEW own \in BOOLEAN, Publish(own)
      PROVE  HandsOn
  BY <1>7, <1>0, <1>a, IdleTyped DEF Publish, Quiet, srvVars, wayVars, rowVars, memVars, scenVars,
    HandsOn, Revoking, Odd
<1>8. ASSUME NEW n \in Seqs, RevokedElsewhere(n) \/ DeletedElsewhere(n) \/ ReadElsewhere(n) \/
         PeerReads(n)
      PROVE  HandsOn
  BY <1>8, <1>0, <1>a, IdleTyped DEF RevokedElsewhere, DeletedElsewhere, ReadElsewhere, PeerReads,
    Event, Quiet, MarkOnServer, srvVars, wayVars, rowVars, memVars, scenVars, HandsOn, Revoking, Odd
<1>9. ASSUME ReadConversation \/ InsertMessages
      PROVE  HandsOn
  BY <1>9, <1>0, <1>a, IdleTyped, ReadConversationDoes, InsertMessagesDoes DEF srvVars, wayVars,
    rowVars, memVars, scenVars, HandsOn, Revoking, Odd, Goes, GoesWith, Keeps, Ends, Still
<1>10. ASSUME UpdateConversation \/ SyncData
      PROVE  HandsOn
  BY <1>10, <1>0, <1>a, IdleTyped, UpdateConversationDoes, SyncDataDoes DEF srvVars, wayVars,
    rowVars, memVars, scenVars, HandsOn, Revoking, Odd, Goes, GoesWith, Keeps, Ends, Still
<1>11. ASSUME SyncAnswer \/ SyncUnread
      PROVE  HandsOn
  BY <1>11, <1>0, <1>a, IdleTyped, SyncAnswerDoes, SyncUnreadDoes DEF srvVars, wayVars, rowVars,
    memVars, scenVars, HandsOn, Revoking, Odd, Goes, GoesWith, Keeps, Ends, Still
<1>12. ASSUME UpdateLatest \/ DoDeleteMsgs
      PROVE  HandsOn
  BY <1>12, <1>0, <1>a, IdleTyped, UpdateLatestDoes, DoDeleteMsgsDoes DEF srvVars, wayVars, rowVars,
    memVars, scenVars, HandsOn, Revoking, Odd, Goes, GoesWith, Keeps, Ends, Still
<1>13. ASSUME DoClearConversations \/ DoUnreadCount
      PROVE  HandsOn
  BY <1>13, <1>0, <1>a, IdleTyped, DoClearConversationsDoes, DoUnreadCountDoes DEF srvVars, wayVars,
    rowVars, memVars, scenVars, HandsOn, Revoking, Odd, Goes, GoesWith, Keeps, Ends, Still
<1>14. ASSUME SetUnreadCount \/ UpdateMessage
      PROVE  HandsOn
  BY <1>14, <1>0, <1>a, IdleTyped, SetUnreadCountDoes, UpdateMessageDoes DEF srvVars, wayVars,
    rowVars, memVars, scenVars, HandsOn, Revoking, Odd, Goes, GoesWith, Keeps, Ends, Still
<1>15. ASSUME NEW t \in Thread, RevokeLatest(t) \/ DeleteRow(t)
      PROVE  HandsOn
  BY <1>15, <1>0, <1>a, IdleTyped, RevokeLatestDoes, DeleteRowDoes DEF srvVars, wayVars, rowVars,
    memVars, scenVars, HandsOn, Revoking, Odd, Goes, GoesWith, Keeps, Ends, Still
<1>16. ASSUME NEW t \in Thread, DeleteCount(t) \/ DeleteLatest(t)
      PROVE  HandsOn
  BY <1>16, <1>0, <1>a, IdleTyped, DeleteCountDoes, DeleteLatestDoes DEF srvVars, wayVars, rowVars,
    memVars, scenVars, HandsOn, Revoking, Odd, Goes, GoesWith, Keeps, Ends, Still
<1>17. ASSUME NEW t \in Thread, WriteLatest(t) \/ ClearHasRead(t)
      PROVE  HandsOn
  BY <1>17, <1>0, <1>a, IdleTyped, WriteLatestDoes, ClearHasReadDoes DEF srvVars, wayVars, rowVars,
    memVars, scenVars, HandsOn, Revoking, Odd, Goes, GoesWith, Keeps, Ends, Still
<1>18. ASSUME NEW t \in Thread, ClearRows(t) \/ ClearConversation(t)
      PROVE  HandsOn
  BY <1>18, <1>0, <1>a, IdleTyped, ClearRowsDoes, ClearConversationDoes DEF srvVars, wayVars,
    rowVars, memVars, scenVars, HandsOn, Revoking, Odd, Goes, GoesWith, Keeps, Ends, Still
<1>19. ASSUME NEW t \in Thread, ReadLatest(t) \/ SetLatestRead(t)
      PROVE  HandsOn
  BY <1>19, <1>0, <1>a, IdleTyped, ReadLatestDoes, SetLatestReadDoes DEF srvVars, wayVars, rowVars,
    memVars, scenVars, HandsOn, Revoking, Odd, Goes, GoesWith, Keeps, Ends, Still
<1>20. ASSUME ClearMessages \/ MarkConversation
      PROVE  HandsOn
  BY <1>20, <1>0, <1>a, IdleTyped, ClearMessagesDoes, MarkConversationDoes DEF srvVars, wayVars,
    rowVars, memVars, scenVars, HandsOn, Revoking, Odd, Goes, GoesWith, Keeps, Ends, Still
<1>21. ASSUME MarkRows \/ MarkCount
      PROVE  HandsOn
  BY <1>21, <1>0, <1>a, IdleTyped, MarkRowsDoes, MarkCountDoes DEF srvVars, wayVars, rowVars,
    memVars, scenVars, HandsOn, Revoking, Odd, Goes, GoesWith, Keeps, Ends, Still
<1>22. ASSUME MarkRow \/ MarkDecr
      PROVE  HandsOn
  BY <1>22, <1>0, <1>a, IdleTyped, MarkRowDoes, MarkDecrDoes DEF srvVars, wayVars, rowVars, memVars,
    scenVars, HandsOn, Revoking, Odd, Goes, GoesWith, Keeps, Ends, Still
<1>23. ASSUME NEW n \in Seqs, DeleteMessage(n) \/ MarkMessage(n)
      PROVE  HandsOn
  BY <1>23, <1>0, <1>a, IdleTyped, DeleteMessageDoes, MarkMessageDoes DEF srvVars, wayVars, rowVars,
    memVars, scenVars, HandsOn, Revoking, Odd, Goes, GoesWith, Keeps, Ends, Still
<1>24. CASE UNCHANGED vars
  BY <1>24, <1>0, <1>a, IdleTyped DEF vars, srvVars, wayVars, rowVars, memVars, scenVars, HandsOn, Revoking,
    Odd
<1>25. ASSUME HandsOn PROVE HandsOn
  BY <1>25, <1>0, <1>a, IdleTyped DEF srvVars, wayVars, rowVars, memVars, scenVars, HandsOn,
    Revoking, Odd
<1>26. CASE World
  BY <1>26, <1>1, <1>2, <1>3, <1>4, <1>5, <1>6, <1>7, <1>8, <1>9, <1>10, <1>11, <1>12, <1>13, <1>14,
    <1>15, <1>16, <1>17, <1>18, <1>19, <1>20, <1>21, <1>22, <1>23, <1>25 DEF World, Thread
<1>27. CASE Work
  BY <1>27, <1>1, <1>2, <1>3, <1>4, <1>5, <1>6, <1>7, <1>8, <1>9, <1>10, <1>11, <1>12, <1>13, <1>14,
    <1>15, <1>16, <1>17, <1>18, <1>19, <1>20, <1>21, <1>22, <1>23, <1>25 DEF Work, Either, Thread
<1>28. CASE Call
  BY <1>28, <1>1, <1>2, <1>3, <1>4, <1>5, <1>6, <1>7, <1>8, <1>9, <1>10, <1>11, <1>12, <1>13, <1>14,
    <1>15, <1>16, <1>17, <1>18, <1>19, <1>20, <1>21, <1>22, <1>23, <1>25 DEF Call, Either, Thread
<1> QED BY <1>26, <1>27, <1>28, <1>24 DEF Next


(* A row stays revoked; only an insertion brings new rows, and only a receipt writes a row back. *)
Revised == \A n \in Seqs : rows'[n].st # "none" => rows[n].st # "none" /\ (rows[n].rev => rows'[n].rev)

LEMMA RowsRevised == ASSUME TypeInv, [Next]_vars PROVE InsertMessages \/ UpdateMessage \/ Revised
<1> DEFINE Fine == InsertMessages \/ UpdateMessage \/ Revised
<1>0. LocalsType /\ rows \in [Seqs -> Row] /\ (\A n \in Seqs : rows[n] \in Row) /\ Worker \in Thread
        /\ App \in Thread
  BY DEF TypeInv, TableType, LocalsType, MemoryType, Thread
<1>a. \A n \in Seqs : /\ [rows[n] EXCEPT !.rev = TRUE].st = rows[n].st /\ [rows[n] EXCEPT !.rev = TRUE].rev
                      /\ \A b : /\ [rows[n] EXCEPT !.read = b].st = rows[n].st
                                /\ [rows[n] EXCEPT !.read = b].rev = rows[n].rev
                      /\ \A s : [rows[n] EXCEPT !.st = s].rev = rows[n].rev
  BY <1>0 DEF Row
<1>b. rows' = rows => Fine
  BY DEF Revised
<1>c. ASSUME NEW i
      PROVE  /\ rows' = [rows EXCEPT ![i].rev = TRUE] => Revised
             /\ rows' = [rows EXCEPT ![i].read = TRUE] => Revised
             /\ rows[i].st # "none" /\ rows' = [rows EXCEPT ![i].st = "deleted"] => Revised
  <2>1. ASSUME rows' = [rows EXCEPT ![i].rev = TRUE] PROVE Revised
    BY <1>0, <1>a, <2>1 DEF Revised
  <2>2. ASSUME rows' = [rows EXCEPT ![i].read = TRUE] PROVE Revised
    BY <1>0, <1>a, <2>2 DEF Revised
  <2>3. ASSUME rows[i].st # "none", rows' = [rows EXCEPT ![i].st = "deleted"] PROVE Revised
    BY <1>0, <1>a, <2>3 DEF Revised
  <2> QED BY <2>1, <2>2, <2>3
<1>d. ASSUME NEW S, rows' = [n \in Seqs |-> [rows[n] EXCEPT !.read = @ \/ n \in S]] PROVE Revised
  BY <1>d, <1>a DEF Revised
<1>1. ASSUME InsertMessages PROVE Fine
  BY <1>1
<1>2. ASSUME UpdateMessage PROVE Fine
  BY <1>2
<1>3. ASSUME DoUnreadCount PROVE Fine
  <2>1. rows' = rows \/ \E S : rows' = [n \in Seqs |-> [rows[n] EXCEPT !.read = @ \/ n \in S]]
    BY <1>3 DEF DoUnreadCount
  <2> QED BY <2>1, <1>b, <1>d
<1>4. ASSUME NEW t \in Thread, RevokeRow(t) PROVE Fine
  BY <1>4, <1>0, <1>b, <1>c, RevokeRowDoes
<1>5. ASSUME NEW t \in Thread, DeleteRow(t) PROVE Fine
  BY <1>5, <1>0, <1>b, <1>c, DeleteRowDoes
<1>6. ASSUME NEW t \in Thread, ClearRows(t) PROVE Fine
  BY <1>6, <1>0, IdleTyped, ClearRowsDoes DEF Revised
<1>7. ASSUME MarkRow PROVE Fine
  BY <1>7, <1>0, <1>b, <1>c, MarkRowDoes
<1>8. ASSUME MarkRows PROVE Fine
  <2>1. rows' = [n \in Seqs |->
                  IF n <= local[App].n /\ Unread(n) THEN [rows[n] EXCEPT !.read = TRUE] ELSE rows[n]]
    BY <1>8, <1>0, MarkRowsDoes
  <2>2. \A n \in Seqs : rows'[n] = rows[n] \/ rows'[n] = [rows[n] EXCEPT !.read = TRUE]
    BY <2>1
  <2>3. ASSUME NEW n \in Seqs PROVE rows'[n].st = rows[n].st /\ rows'[n].rev = rows[n].rev
    <3>1. [rows[n] EXCEPT !.read = TRUE].st = rows[n].st /\ [rows[n] EXCEPT !.read = TRUE].rev = rows[n].rev
      BY <1>a
    <3> QED BY <2>2, <3>1
  <2> QED BY <2>3 DEF Revised
<1>9. ASSUME DoMsgNew PROVE Fine
  BY <1>9, <1>b DEF DoMsgNew, rowVars
<1>10. ASSUME ClearedElsewhere \/ DeliverMsgs \/ DeliverNote \/ RequestSync
      PROVE  rows' = rows
  BY <1>10, <1>0 DEF ClearedElsewhere, DeliverMsgs, DeliverNote, RequestSync, Event, Quiet, srvVars,
    wayVars, rowVars, memVars, scenVars
<1>11. ASSUME NEW own \in BOOLEAN, Publish(own)
      PROVE  rows' = rows
  BY <1>11, <1>0 DEF Publish, Quiet, srvVars, wayVars, rowVars, memVars, scenVars
<1>12. ASSUME NEW n \in Seqs, RevokedElsewhere(n) \/ DeletedElsewhere(n) \/ ReadElsewhere(n) \/
         PeerReads(n)
      PROVE  rows' = rows
  BY <1>12, <1>0 DEF RevokedElsewhere, DeletedElsewhere, ReadElsewhere, PeerReads, Event, Quiet,
    MarkOnServer, srvVars, wayVars, rowVars, memVars, scenVars
<1>13. ASSUME ReadConversation \/ UpdateConversation \/ SyncData
      PROVE  rows' = rows
  BY <1>13, <1>0, ReadConversationDoes, UpdateConversationDoes, SyncDataDoes DEF srvVars, wayVars,
    rowVars, memVars, scenVars, Goes, GoesWith, Keeps, Ends, Still
<1>14. ASSUME SyncAnswer \/ SyncUnread \/ UpdateLatest
      PROVE  rows' = rows
  BY <1>14, <1>0, SyncAnswerDoes, SyncUnreadDoes, UpdateLatestDoes DEF srvVars, wayVars, rowVars,
    memVars, scenVars, Goes, GoesWith, Keeps, Ends, Still
<1>15. ASSUME DoRevokeMsg \/ DoDeleteMsgs \/ DoClearConversations
      PROVE  rows' = rows
  BY <1>15, <1>0, DoRevokeMsgDoes, DoDeleteMsgsDoes, DoClearConversationsDoes DEF srvVars, wayVars,
    rowVars, memVars, scenVars, Goes, GoesWith, Keeps, Ends, Still
<1>16. ASSUME SetUnreadCount \/ DoReadDrawing
      PROVE  rows' = rows
  BY <1>16, <1>0, SetUnreadCountDoes, DoReadDrawingDoes DEF srvVars, wayVars, rowVars, memVars,
    scenVars, Goes, GoesWith, Keeps, Ends, Still
<1>17. ASSUME NEW t \in Thread, RevokeLatest(t) \/ DeleteCount(t) \/ DeleteLatest(t)
      PROVE  rows' = rows
  BY <1>17, <1>0, RevokeLatestDoes, DeleteCountDoes, DeleteLatestDoes DEF srvVars, wayVars, rowVars,
    memVars, scenVars, Goes, GoesWith, Keeps, Ends, Still
<1>18. ASSUME NEW t \in Thread, WriteLatest(t) \/ ClearHasRead(t) \/ ClearConversation(t)
      PROVE  rows' = rows
  BY <1>18, <1>0, WriteLatestDoes, ClearHasReadDoes, ClearConversationDoes DEF srvVars, wayVars,
    rowVars, memVars, scenVars, Goes, GoesWith, Keeps, Ends, Still
<1>19. ASSUME NEW t \in Thread, ReadLatest(t) \/ SetLatestRead(t)
      PROVE  rows' = rows
  BY <1>19, <1>0, ReadLatestDoes, SetLatestReadDoes DEF srvVars, wayVars, rowVars, memVars,
    scenVars, Goes, GoesWith, Keeps, Ends, Still
<1>20. ASSUME ClearMessages \/ MarkConversation \/ MarkCount
      PROVE  rows' = rows
  BY <1>20, <1>0, ClearMessagesDoes, MarkConversationDoes, MarkCountDoes DEF srvVars, wayVars,
    rowVars, memVars, scenVars, Goes, GoesWith, Keeps, Ends, Still
<1>21. ASSUME MarkDecr
      PROVE  rows' = rows
  BY <1>21, <1>0, MarkDecrDoes DEF srvVars, wayVars, rowVars, memVars, scenVars, Goes, GoesWith,
    Keeps, Ends, Still
<1>22. ASSUME NEW n \in Seqs, RevokeMessage(n) \/ DeleteMessage(n) \/ MarkMessage(n)
      PROVE  rows' = rows
  BY <1>22, <1>0, RevokeMessageDoes, DeleteMessageDoes, MarkMessageDoes DEF srvVars, wayVars,
    rowVars, memVars, scenVars, Goes, GoesWith, Keeps, Ends, Still
<1>23. CASE UNCHANGED vars
  BY <1>23, <1>b DEF vars, srvVars, wayVars, rowVars, memVars, scenVars
<1>24. ASSUME rows' = rows PROVE Fine
  BY <1>24, <1>b DEF srvVars, wayVars, rowVars, memVars, scenVars
<1>25. CASE World
  BY <1>25, <1>1, <1>2, <1>3, <1>4, <1>5, <1>6, <1>7, <1>8, <1>9, <1>10, <1>11, <1>12, <1>13, <1>14,
    <1>15, <1>16, <1>17, <1>18, <1>19, <1>20, <1>21, <1>22, <1>24 DEF World, Thread
<1>26. CASE Work
  BY <1>26, <1>1, <1>2, <1>3, <1>4, <1>5, <1>6, <1>7, <1>8, <1>9, <1>10, <1>11, <1>12, <1>13, <1>14,
    <1>15, <1>16, <1>17, <1>18, <1>19, <1>20, <1>21, <1>22, <1>24 DEF Work, Either, Thread
<1>27. CASE Call
  BY <1>27, <1>1, <1>2, <1>3, <1>4, <1>5, <1>6, <1>7, <1>8, <1>9, <1>10, <1>11, <1>12, <1>13, <1>14,
    <1>15, <1>16, <1>17, <1>18, <1>19, <1>20, <1>21, <1>22, <1>24 DEF Call, Either, Thread
<1> QED BY <1>25, <1>26, <1>27, <1>23 DEF Next

(***************************************************************************)
(* A revocation that the server has made is noted and not yet handed over, *)
(* or in the queue, or in the worker's hands; or it has settled.  Bundles  *)
(* that come to the worker after it have the message as revoked: until     *)
(* then the row may come into the table as it was before.                  *)
(***************************************************************************)
Right(b, n) == n \in b.from..b.to => n \in b.rev
RightFrom(k, n) == \A i \in Batches : i > k => Right(queue[i].batch, n)

Noted(n)  == \E k \in 1..Len(notes) : k > noted /\ notes[k].kind = "revoke" /\ notes[k].n = n
Queued(n) == \E k \in 1..Len(queue) : /\ queue[k].cmd = "note" /\ queue[k].note.kind = "revoke"
                                      /\ queue[k].note.n = n /\ RightFrom(k, n)
InHand(n) == local[Worker].pc = "revoke" /\ local[Worker].n = n /\ RightFrom(0, n)
Settled(n) ==
  /\ rows[n].st # "none" => rows[n].rev
  /\ RightFrom(0, n) /\ (Holds => Right(local[Worker].batch, n))
  /\ local[Worker].pc = "receipt" /\ local[Worker].n = n => local[Worker].row.rev

NotedInv  == noted <= Len(notes)
RevokeInv == \A n \in srvRevoked : n \in Seqs /\ (Noted(n) \/ Queued(n) \/ InHand(n) \/ Settled(n))

LEMMA NextNoted == ASSUME TypeInv, Sent, NotedInv, [Next]_vars PROVE NotedInv'
<1>0. notes \in Seq(Notices) /\ Len(notes) \in Nat /\ noted \in Nat /\ noted <= Len(notes)
  BY DEF TypeInv, ServerType, WayType, NotedInv
<1>1. CASE DeliverNote
  <2>1. noted < Len(notes) /\ noted' = noted + 1 /\ notes' = notes
    BY <1>1 DEF DeliverNote, srvVars
  <2> QED BY <1>0, <2>1 DEF NotedInv
<1>2. CASE noted' = noted
  <2>1. CASE notes' = notes
    BY <1>0, <1>2, <2>1 DEF NotedInv
  <2>2. ASSUME NEW c, Told(c) PROVE NotedInv'
    <3>1. Len(notes') = Len(notes) + 1
      BY <1>0, <2>2 DEF Told
    <3> QED BY <1>0, <1>2, <3>1 DEF NotedInv
  <2> QED BY <2>1, <2>2, NotesTell DEF Telling
<1> QED BY <1>1, <1>2, NotedMoves

(* The server's revocations only grow, each new one with its notification. *)
LEMMA RevokedGrows ==
  ASSUME TypeInv, Sent, NotedInv, [Next]_vars
  PROVE  /\ srvRevoked \subseteq srvRevoked'
         /\ \A n \in srvRevoked' \ srvRevoked : n \in Seqs /\ Noted(n)'
         /\ \A n : Noted(n) => Noted(n)' \/ (DeliverNote /\ notes[noted + 1].kind = "revoke"
                                                         /\ notes[noted + 1].n = n)
<1>0. notes \in Seq(Notices) /\ Len(notes) \in Nat /\ noted \in Nat /\ noted <= Len(notes)
  BY DEF TypeInv, ServerType, WayType, NotedInv
<1>1. srvRevoked \subseteq srvRevoked'
  BY NotesTell DEF Telling, Told
<1>2. ASSUME NEW n \in srvRevoked' \ srvRevoked PROVE n \in Seqs /\ Noted(n)'
  <2>1. PICK c : Told(c)
    BY NotesTell DEF Telling
  <2>2. c \in Notices /\ c.kind = "revoke" /\ c.n = n /\ notes' = Append(notes, c)
    BY <2>1 DEF Told
  <2>3. n \in Seqs
    BY <2>2 DEF Notices
  <2>4. Len(notes') = Len(notes) + 1 /\ notes'[Len(notes) + 1] = c /\ notes' # notes
    BY <1>0, <2>2
  <2>5. noted' = noted
    BY <2>4, NotedMoves DEF DeliverNote, srvVars
  <2>6. Len(notes) + 1 \in 1..Len(notes') /\ Len(notes) + 1 > noted'
    BY <1>0, <2>4, <2>5
  <2> QED BY <2>2, <2>3, <2>4, <2>6 DEF Noted
<1>3. ASSUME NEW n, Noted(n)
      PROVE  Noted(n)' \/ (DeliverNote /\ notes[noted + 1].kind = "revoke" /\ notes[noted + 1].n = n)
  <2>1. PICK k \in 1..Len(notes) : k > noted /\ notes[k].kind = "revoke" /\ notes[k].n = n
    BY <1>3 DEF Noted
  <2>2. k \in 1..Len(notes') /\ notes'[k] = notes[k]
    <3>1. ASSUME NEW c, Told(c) PROVE k \in 1..Len(notes') /\ notes'[k] = notes[k]
      BY <1>0, <2>1, <3>1 DEF Told
    <3> QED BY <3>1, NotesTell DEF Telling
  <2>3. CASE DeliverNote
    <3>1. noted' = noted + 1
      BY <2>3 DEF DeliverNote
    <3>2. CASE k = noted + 1
      BY <2>1, <2>3, <3>2
    <3>3. CASE k # noted + 1
      <4>1. k > noted'
        BY <1>0, <2>1, <3>1, <3>3
      <4> QED BY <2>1, <2>2, <4>1 DEF Noted
    <3> QED BY <3>2, <3>3
  <2>4. CASE noted' = noted
    BY <2>1, <2>2, <2>4 DEF Noted
  <2> QED BY <2>3, <2>4, NotedMoves
<1> QED BY <1>1, <1>2, <1>3

(* The bundles stay right, however the queue moves. *)
LEMMA RightStays ==
  ASSUME TypeInv, [Next]_vars, NEW n \in srvRevoked, NEW k \in Nat, k <= Len(queue), RightFrom(k, n)
  PROVE  /\ queue' = queue => RightFrom(k, n)'
         /\ \A c : Appended(c) => RightFrom(k, n)'
         /\ Taken => RightFrom(k, n)' /\ (k > 0 => RightFrom(k - 1, n)')
<1>0. queue \in Seq(Commands) /\ Len(queue) \in Nat
  BY DEF TypeInv, WayType
<1>1. queue' = queue => RightFrom(k, n)'
  BY DEF RightFrom, Batches
<1>2. ASSUME NEW c, Appended(c) PROVE RightFrom(k, n)'
  <2>1. ASSUME NEW i \in Batches', i > k PROVE Right(queue'[i].batch, n)
    <3>1. (i \in Batches /\ queue'[i] = queue[i]) \/ (queue'[i] = c /\ c.cmd = "msgs")
      BY <1>0, <1>2, AppendKeeps DEF Appended
    <3> QED BY <1>2, <2>1, <3>1 DEF RightFrom, Appended, Right
  <2> QED BY <2>1 DEF RightFrom
<1>3. ASSUME Taken PROVE RightFrom(k, n)' /\ (k > 0 => RightFrom(k - 1, n)')
  <2>1. \A i \in Batches' : i \in Nat /\ i + 1 \in Batches /\ queue'[i] = queue[i + 1]
    BY <1>0, <1>3 DEF Taken, Batches
  <2>2. ASSUME NEW i \in Batches', i + 1 > k PROVE Right(queue'[i].batch, n)
    BY <2>1, <2>2 DEF RightFrom
  <2>3. \A i \in Batches' : (i > k => i + 1 > k) /\ (i > k - 1 => i + 1 > k)
    BY <2>1
  <2> QED BY <2>2, <2>3 DEF RightFrom
<1> QED BY <1>1, <1>2, <1>3

LEMMA HandedRight ==
  ASSUME TypeInv, InOrder, [Next]_vars, NEW n, RightFrom(0, n), Holds => Right(local[Worker].batch, n)
  PROVE  Holds' => Right(local'[Worker].batch, n)
<1>1. CASE DoMsgNew
  <2>1. /\ 1 \in Batches /\ local'[Worker].batch.from = queue[1].batch.from
        /\ local'[Worker].batch.to = queue[1].batch.to /\ local'[Worker].batch.rev = queue[1].batch.rev
    BY <1>1, CounterFacts DEF Batches
  <2>2. Right(queue[1].batch, n)
    BY <2>1 DEF RightFrom
  <2> QED BY <2>1, <2>2 DEF Right
<1>2. CASE StillHolds
  BY <1>2 DEF StillHolds
<1> QED BY <1>1, <1>2, BatchStays

LEMMA QueuedStays ==
  ASSUME TypeInv, InOrder, [Next]_vars, NEW n \in srvRevoked, Queued(n)
  PROVE  Queued(n)' \/ InHand(n)'
<1>0. queue \in Seq(Commands) /\ Len(queue) \in Nat /\ LocalsType
  BY DEF TypeInv, WayType, MemoryType, LocalsType
<1>1. PICK k \in 1..Len(queue) : /\ queue[k].cmd = "note" /\ queue[k].note.kind = "revoke"
                                 /\ queue[k].note.n = n /\ RightFrom(k, n)
  BY DEF Queued
<1>a. k \in Nat /\ k >= 1 /\ k <= Len(queue)
  BY <1>0
<1>2. CASE queue' = queue
  BY <1>1, <1>2, <1>a, RightStays DEF Queued
<1>3. ASSUME NEW c, Appended(c) PROVE Queued(n)'
  <2>1. RightFrom(k, n)'
    BY <1>1, <1>3, <1>a, RightStays
  <2>2. k \in 1..Len(queue') /\ queue'[k] = queue[k]
    BY <1>0, <1>3, <1>a DEF Appended
  <2> QED BY <1>1, <2>1, <2>2 DEF Queued
<1>4. CASE Taken
  <2>1. RightFrom(k, n)' /\ RightFrom(k - 1, n)'
    BY <1>1, <1>4, <1>a, RightStays
  <2>2. CASE k = 1
    <3>1. Head(queue) = queue[k]
      BY <1>0, <1>a, <2>2
    <3>2. DoRevokeMsg
      BY <1>1, <1>4, <3>1 DEF Taken
    <3>3. local'[Worker].pc = "revoke" /\ local'[Worker].n = n
      BY <1>0, <1>1, <3>1, <3>2, DoRevokeMsgDoes
    <3>4. RightFrom(0, n)'
      BY <2>1, <2>2
    <3> QED BY <3>3, <3>4 DEF InHand
  <2>3. CASE k # 1
    <3>1. k - 1 \in 1..Len(queue') /\ queue'[k - 1] = queue[k]
      BY <1>0, <1>4, <1>a, <2>3 DEF Taken
    <3> QED BY <1>1, <2>1, <3>1 DEF Queued
  <2> QED BY <2>2, <2>3
<1> QED BY <1>2, <1>3, <1>4, QueueMoves DEF Queues

LEMMA RightNext ==
  ASSUME TypeInv, [Next]_vars, NEW n \in srvRevoked, RightFrom(0, n) PROVE RightFrom(0, n)'
<1>1. Len(queue) \in Nat
  BY DEF TypeInv, WayType
<1> QED BY <1>1, QueueMoves, RightStays DEF Queues

LEMMA InHandStays ==
  ASSUME TypeInv, InOrder, [Next]_vars, NEW n \in srvRevoked, n \in Seqs, InHand(n)
  PROVE  InHand(n)' \/ Settled(n)'
<1>0. LocalsType /\ rows \in [Seqs -> Row] /\ (\A m \in Seqs : rows[m] \in Row) /\ Worker \in Thread
  BY DEF TypeInv, MemoryType, LocalsType, TableType, Thread
<1>1. RightFrom(0, n)' /\ local[Worker].pc = "revoke" /\ local[Worker].n = n
  BY RightNext DEF InHand
<1>2. CASE RevokeRow(Worker)
  <2>1. /\ rows'[n].st # "none" => rows'[n].rev
        /\ local'[Worker].pc = "idle" \/ local'[Worker].pc = "revokeLatest"
    <3>1. \/ rows[n].st = "none" /\ Ends(Worker) /\ rows' = rows
          \/ Goes(Worker, "revokeLatest") /\ rows' = [rows EXCEPT ![n].rev = TRUE]
      BY <1>0, <1>1, <1>2, RevokeRowDoes
    <3>2. [rows[n] EXCEPT !.rev = TRUE].rev
      BY <1>0 DEF Row
    <3> QED BY <1>0, <3>1, <3>2, IdleTyped DEF Ends, Goes
  <2> QED BY <1>1, <2>1 DEF Settled, Holds
<1>3. CASE local'[Worker] = local[Worker]
  BY <1>1, <1>3 DEF InHand
<1> QED BY <1>1, <1>2, <1>3, HandMoves DEF HandsOn

LEMMA SettledStays ==
  ASSUME TypeInv, InOrder, [Next]_vars, NEW n \in srvRevoked, n \in Seqs, Settled(n)
  PROVE  Settled(n)'
<1>0. /\ LocalsType /\ rows \in [Seqs -> Row] /\ (\A m \in Seqs : rows[m] \in Row) /\ Worker \in Thread
      /\ local[Worker].row \in Row
  BY LocalFacts DEF TypeInv, MemoryType, LocalsType, TableType, Thread
<1>1. RightFrom(0, n)' /\ (Holds' => Right(local'[Worker].batch, n))
  BY RightNext, HandedRight DEF Settled
<1>2. rows'[n].st # "none" => rows'[n].rev
  <2>1. CASE InsertMessages
    <3> DEFINE b == local[Worker].batch
    <3>1. /\ local[Worker].pc = "insert"
          /\ n \in Fresh(b) => n \in b.from..b.to /\ rows'[n].rev = (n \in b.rev)
          /\ n \notin Fresh(b) => rows'[n] = rows[n]
      BY <1>0, <2>1, InsertMessagesDoes DEF Fresh
    <3>2. Right(b, n)
      BY <3>1 DEF Settled, Holds
    <3> QED BY <3>1, <3>2 DEF Settled, Right
  <2>2. CASE UpdateMessage
    <3>1. /\ local[Worker].pc = "receipt"
          /\ rows' = rows \/ rows' = [rows EXCEPT ![local[Worker].n] = [local[Worker].row EXCEPT !.read = TRUE]]
      BY <1>0, <2>2, UpdateMessageDoes
    <3>2. [local[Worker].row EXCEPT !.read = TRUE].rev = local[Worker].row.rev
      BY <1>0 DEF Row
    <3>3. CASE local[Worker].n = n
      BY <1>0, <3>1, <3>2, <3>3 DEF Settled
    <3>4. CASE local[Worker].n # n
      BY <1>0, <3>1, <3>4 DEF Settled
    <3> QED BY <3>3, <3>4
  <2>3. CASE Revised
    BY <2>3 DEF Settled, Revised
  <2> QED BY <2>1, <2>2, <2>3, RowsRevised
<1>3. ASSUME local'[Worker].pc = "receipt", local'[Worker].n = n PROVE local'[Worker].row.rev
  <2>1. CASE DoReadDrawing
    <3>1. local' = local \/ (local'[Worker].row = rows[local'[Worker].n] /\ rows[local'[Worker].n].st # "none")
      BY <1>0, <2>1, DoReadDrawingDoes
    <3> QED BY <1>3, <3>1 DEF Settled
  <2>2. CASE local'[Worker] = local[Worker]
    BY <1>3, <2>2 DEF Settled
  <2> QED BY <1>3, <2>1, <2>2, HandMoves DEF HandsOn
<1> QED BY <1>1, <1>2, <1>3 DEF Settled

LEMMA NextRevoke == ASSUME TypeInv, WayInv, NotedInv, RevokeInv, [Next]_vars PROVE RevokeInv'
<1> SUFFICES ASSUME NEW n \in srvRevoked'
             PROVE  n \in Seqs /\ (Noted(n)' \/ Queued(n)' \/ InHand(n)' \/ Settled(n)')
  BY DEF RevokeInv
<1>0. Sent /\ InOrder /\ queue \in Seq(Commands) /\ Len(queue) \in Nat
  BY DEF WayInv, TypeInv, WayType
<1>1. CASE n \notin srvRevoked
  BY <1>0, <1>1, RevokedGrows
<1>2. CASE n \in srvRevoked
  <2>0. n \in Seqs
    BY <1>2 DEF RevokeInv
  <2>1. CASE Noted(n)
    <3>1. CASE DeliverNote /\ notes[noted + 1].kind = "revoke" /\ notes[noted + 1].n = n
      <4> DEFINE c == [cmd |-> "note", note |-> notes[noted + 1]]
      <4>1. queue' = Append(queue, c)
        BY <3>1 DEF DeliverNote
      <4>2. c.cmd = "note" /\ c.note.kind = "revoke" /\ c.note.n = n
        BY <3>1
      <4> HIDE DEF c
      <4>3. PICK m \in Nat : m = Len(queue) + 1
        BY <1>0
      <4>4. m \in 1..Len(queue') /\ queue'[m] = c /\ \A i \in Batches' : ~(i > m)
        BY <1>0, <4>1, <4>3 DEF Batches
      <4>5. RightFrom(m, n)'
        BY <4>4 DEF RightFrom
      <4>6. m \in 1..Len(queue') /\ queue'[m].cmd = "note" /\ queue'[m].note.kind = "revoke"
              /\ queue'[m].note.n = n
        BY <4>2, <4>4
      <4>7. Queued(n)'
        BY <4>5, <4>6 DEF Queued
      <4> QED BY <2>0, <4>7
    <3> QED BY <1>0, <2>0, <2>1, <3>1, RevokedGrows
  <2>2. CASE Queued(n)
    BY <1>0, <1>2, <2>0, <2>2, QueuedStays
  <2>3. CASE InHand(n)
    BY <1>0, <1>2, <2>0, <2>3, InHandStays
  <2>4. CASE Settled(n)
    BY <1>0, <1>2, <2>0, <2>4, SettledStays
  <2> QED BY <1>2, <2>1, <2>2, <2>3, <2>4 DEF RevokeInv
<1> QED BY <1>1, <1>2

LEMMA RevokeCorrect == ASSUME TypeInv, RevokeInv PROVE RevokeSettles
<1> SUFFICES ASSUME Rest, NEW n \in srvRevoked \cap Stored PROVE rows[n].rev
  BY DEF RevokeSettles
<1>1. notes \in Seq(Notices) /\ noted = Len(notes) /\ queue = <<>> /\ local[Worker].pc = "idle"
  BY DEF Rest, At, Thread, TypeInv, ServerType
<1>2. ~Noted(n) /\ ~Queued(n) /\ ~InHand(n)
  BY <1>1 DEF Noted, Queued, InHand
<1>3. Settled(n)
  BY <1>2 DEF RevokeInv
<1> QED BY <1>3 DEF Settled, Stored

(***************************************************************************)
(* The latest message of a group whose handlers do not overlap.  Every row *)
(* comes before all that the worker has yet to store (Behind), but for     *)
(* those of the bundle that it has just inserted.                          *)
(***************************************************************************)
Behind(n) ==
  /\ n <= sent /\ \A i \in Batches : n < queue[i].batch.from
  /\ Holds => n < local[Worker].batch.from
HeldFirst == Holds => \A i \in Batches : local[Worker].batch.to < queue[i].batch.from
PastInv ==
  /\ HeldFirst
  /\ \A n \in Seqs : rows[n].st # "none" =>
       Behind(n) \/ (Updating /\ n \in local[Worker].batch.from..local[Worker].batch.to)

(* Nothing on the way is about a receipt, and what is on the way as a revocation has been made. *)
GroupInv ==
  /\ ~single => /\ \A k \in 1..Len(notes) : notes[k].kind # "receipt"
                /\ \A i \in 1..Len(queue) : /\ queue[i].cmd # "latest"
                                            /\ queue[i].cmd = "note" => queue[i].note.kind # "receipt"
                /\ local[Worker].pc \notin Odd
  /\ \A k \in 1..Len(notes) : notes[k].kind = "revoke" => notes[k].n \in srvRevoked
  /\ \A i \in 1..Len(queue) : queue[i].cmd = "note" /\ queue[i].note.kind = "revoke"
       => queue[i].note.n \in srvRevoked
  /\ \A t \in Thread : local[t].pc \in {"revoke", "revokeLatest"} => local[t].n \in srvRevoked

(* l is a row, as the table has it but for the revocation of k; none is newer that is not deleted.  It may be *)
(* deleted itself: m, just now, or behind a revocation.                                                       *)
IsRow(l, k) ==
  /\ l.n \in Stored \cup {0} /\ (l.n = 0 => l = NoLatest)
  /\ l.n # 0 /\ l.n # k => l.rev = rows[l.n].rev
Newest(l)  == \A i \in Active : i <= l.n
Excused(l, m) == l.n \in Stored \ Active => l.n = m \/ \E i \in srvRevoked : i <= l.n
Shows(l, k, m) == IsRow(l, k) /\ Newest(l) /\ Excused(l, m)

(* The bundle is inserted, and the row of the conversation is still that of before. *)
Inserted(b, l) ==
  /\ \A n \in b.from..b.to : n \in Seqs /\ rows[n].rev = (n \in b.rev)
                             /\ rows[n].st = IF n \in b.gone THEN "deleted" ELSE "ok"
  /\ IsRow(l, 0) /\ Excused(l, 0) /\ \A i \in Active : i <= l.n \/ i \in b.from..b.to

(* The goroutine that does something, and how far it is. *)
Doing == IF local[App].pc = "idle" THEN Worker ELSE App
Busy(t) ==
  LET p == local[t].pc
      l == conv.latest IN
    /\ p = "revokeLatest" => Shows(l, local[t].n, 0) /\ local[t].n \in Stored
    /\ p \in {"deleteCount", "deleteLatest"} => Shows(l, 0, local[t].n)
    /\ p = "writeLatest" => Shows(local[t].latest, 0, 0) /\ Behind(local[t].n)
    /\ p = "clearConv" => Stored = {}
    /\ p = "latestRead" => local[t].latest = l
    /\ p \in {"insert", "update"} => local[t].conv = conv
    /\ p = "update" => Inserted(local[t].batch, l)
    /\ p \notin {"revokeLatest", "deleteCount", "deleteLatest", "writeLatest", "clearConv", "update"} =>
         Shows(l, 0, 0)
LatestInv == serial /\ ~single => Behind(conv.time) /\ Busy(Doing)

LEMMA BehindNext ==
  ASSUME TypeInv, InOrder, [Next]_vars, NEW n \in Nat, Behind(n) PROVE Behind(n)'
<1>0. queue \in Seq(Commands) /\ sent \in Nat /\ sent' \in Nat /\ sent <= sent'
  BY SentGrows DEF TypeInv, WayType, ServerType
<1>1. ASSUME NEW i \in Batches' PROVE n < queue'[i].batch.from
  <2>1. CASE DeliverMsgs
    BY <1>0, <2>1, DeliverShifts DEF Behind
  <2>2. ASSUME NEW k \in {0, 1}, Shifted(k) PROVE n < queue'[i].batch.from
    BY <2>2 DEF Shifted, Behind
  <2> QED BY <2>1, <2>2, QueueShifts
<1>2. Holds' => n < local'[Worker].batch.from
  <2>1. CASE DoMsgNew
    <3>1. 1 \in Batches /\ local'[Worker].batch.from = queue[1].batch.from
      BY <2>1, CounterFacts DEF Batches
    <3> QED BY <3>1 DEF Behind
  <2>2. CASE StillHolds
    BY <2>2 DEF StillHolds, Behind
  <2> QED BY <2>1, <2>2, BatchStays
<1>3. n <= sent'
  BY <1>0 DEF Behind
<1> QED BY <1>1, <1>2, <1>3 DEF Behind

LEMMA NextPast == ASSUME TypeInv, WayInv, PastInv, [Next]_vars PROVE PastInv'
<1>0. /\ queue \in Seq(Commands) /\ sent \in Nat /\ sent' \in Nat /\ sent <= sent' /\ MaxSeq \in Nat
      /\ local[Worker].batch.to \in Nat /\ local[Worker].batch.from \in Nat /\ InOrder /\ LocalsType
      /\ \A n \in Seqs : n \in Nat
  BY SentGrows, LocalFacts, SizeAssumption
     DEF TypeInv, WayType, ServerType, MemoryType, LocalsType, Thread, WayInv, Seqs
<1>1. HeldFirst'
  <2> SUFFICES ASSUME Holds', NEW i \in Batches' PROVE local'[Worker].batch.to < queue'[i].batch.from
    BY DEF HeldFirst
  <2>1. CASE DoMsgNew
    <3>1. /\ 1 \in Batches /\ local'[Worker].batch.to = queue[1].batch.to /\ Take("msgs")
      BY <1>0, <2>1, CounterFacts DEF Batches
    <3>2. i + 1 \in Batches /\ queue'[i] = queue[i + 1] /\ 1 < i + 1
      BY <1>0, <3>1, TakeShifts DEF Shifted, Batches
    <3> QED BY <1>0, <3>1, <3>2 DEF InOrder
  <2>2. CASE StillHolds
    <3>1. Holds /\ local'[Worker].batch = local[Worker].batch /\ local[Worker].batch.to <= sent
      BY <2>2 DEF StillHolds, WayInv, Handed, Holds
    <3>2. CASE DeliverMsgs
      BY <1>0, <3>1, <3>2, DeliverShifts DEF PastInv, HeldFirst
    <3>3. ASSUME NEW k \in {0, 1}, Shifted(k) PROVE local'[Worker].batch.to < queue'[i].batch.from
      BY <3>1, <3>3 DEF Shifted, PastInv, HeldFirst
    <3> QED BY <3>2, <3>3, QueueShifts
  <2> QED BY <2>1, <2>2, BatchStays
<1>2. ASSUME NEW n \in Seqs, rows'[n].st # "none"
      PROVE  Behind(n)' \/ (Updating' /\ n \in local'[Worker].batch.from..local'[Worker].batch.to)
  <2> DEFINE b == local[Worker].batch
  <2>0. Behind(n) => Behind(n)'
    BY <1>0, BehindNext
  <2>1. CASE InsertMessages
    <3>1. /\ local[Worker].pc = "insert" /\ local'[Worker].pc = "update" /\ local'[Worker].batch = b
          /\ rows[n].st # "none" \/ n \in b.from..b.to
      BY <1>0, <1>2, <2>1, InsertMessagesDoes DEF Goes, Keeps, Fresh
    <3>2. rows[n].st # "none" => Behind(n)
      BY <3>1 DEF PastInv, Updating
    <3> QED BY <2>0, <3>1, <3>2 DEF Updating
  <2>2. CASE Fewer
    <3>1. Behind(n) \/ (Updating /\ n \in b.from..b.to)
      BY <1>2, <2>2 DEF Fewer, PastInv
    <3>2. CASE Updating /\ n \in b.from..b.to
      <4>1. CASE UpdateConversation
        <5>1. ~Holds' /\ queue' = queue /\ sent' = sent
          BY <1>0, <4>1, UpdateConversationDoes, IdleTyped DEF Ends, Holds, wayVars
        <5>2. n \in Nat /\ b.to \in Nat /\ n <= b.to /\ b.to <= sent
                /\ \A i \in Batches : b.to < queue[i].batch.from /\ queue[i].batch.from \in Nat
          BY <1>0, <3>2, BatchTyped DEF WayInv, Handed, PastInv, HeldFirst, Holds, Updating
        <5> HIDE DEF b
        <5>3. n <= sent' /\ \A i \in Batches' : n < queue'[i].batch.from
          BY <1>0, <5>1, <5>2 DEF Batches
        <5> QED BY <5>1, <5>3 DEF Behind
      <4>2. CASE ~UpdateConversation
        <5>1. CASE DoMsgNew
          <6>1. local[Worker].pc = "idle"
            BY <5>1 DEF DoMsgNew, Take, At
          <6> QED BY <3>2, <6>1 DEF Updating
        <5>2. CASE InsertMessages
          BY <1>0, <3>2, <5>2, InsertMessagesDoes DEF Updating
        <5>3. CASE StillHolds /\ (Updating' <=> Updating)
          BY <3>2, <5>3 DEF StillHolds, Updating, Holds
        <5> QED BY <1>0, <4>2, <5>1, <5>2, <5>3, BatchStays, UpdatingMoves
      <4> QED BY <4>1, <4>2
    <3> QED BY <2>0, <3>1, <3>2
  <2> QED BY <2>1, <2>2, RowsGrow
<1> QED BY <1>1, <1>2 DEF PastInv

LEMMA NextGroup == ASSUME TypeInv, WayInv, NotedInv, GroupInv, [Next]_vars PROVE GroupInv'
<1>0. /\ queue \in Seq(Commands) /\ notes \in Seq(Notices) /\ Len(notes) \in Nat /\ noted \in Nat
      /\ Sent /\ InOrder /\ LocalsType /\ single' = single
  BY NextScenario DEF TypeInv, WayType, ServerType, WayInv, MemoryType, LocalsType
<1>1. srvRevoked \subseteq srvRevoked'
  BY <1>0, RevokedGrows
<1>2. \A k \in 1..Len(notes') : /\ ~single => notes'[k].kind # "receipt"
                                /\ notes'[k].kind = "revoke" => notes'[k].n \in srvRevoked'
  <2>1. CASE notes' = notes
    BY <1>1, <2>1 DEF GroupInv
  <2>2. ASSUME NEW c, Told(c)
        PROVE  \A k \in 1..Len(notes') : /\ ~single => notes'[k].kind # "receipt"
                                         /\ notes'[k].kind = "revoke" => notes'[k].n \in srvRevoked'
    <3>1. \A k \in 1..Len(notes') : (k \in 1..Len(notes) /\ notes'[k] = notes[k]) \/ notes'[k] = c
      BY <1>0, <2>2 DEF Told
    <3> QED BY <1>1, <2>2, <3>1 DEF GroupInv, Told
  <2> QED BY <1>0, <2>1, <2>2, NotesTell DEF Telling
<1>3. \A i \in 1..Len(queue') :
        /\ ~single => queue'[i].cmd # "latest" /\ (queue'[i].cmd = "note" => queue'[i].note.kind # "receipt")
        /\ queue'[i].cmd = "note" /\ queue'[i].note.kind = "revoke" => queue'[i].note.n \in srvRevoked'
  <2> DEFINE Fine(x) == /\ ~single => x.cmd # "latest" /\ (x.cmd = "note" => x.note.kind # "receipt")
                        /\ x.cmd = "note" /\ x.note.kind = "revoke" => x.note.n \in srvRevoked'
  <2>1. \A i \in 1..Len(queue) : Fine(queue[i])
    BY <1>1 DEF GroupInv
  <2>2. ASSUME NEW c, Appended(c) PROVE Fine(c)
    <3>1. c.cmd = "latest" => single
      BY <2>2 DEF Appended, GroupInv, Odd
    <3>2. ASSUME c.cmd = "note" PROVE Fine(c)
      <4>1. noted + 1 \in 1..Len(notes) /\ c.note = notes[noted + 1]
        BY <1>0, <2>2, <3>2 DEF Appended
      <4> QED BY <1>1, <3>2, <4>1 DEF GroupInv
    <3> QED BY <3>1, <3>2
  <2> HIDE DEF Fine
  <2>3. \A i \in 1..Len(queue') : Fine(queue'[i])
    <3>1. CASE queue' = queue
      BY <2>1, <3>1
    <3>2. ASSUME NEW c, Appended(c) PROVE \A i \in 1..Len(queue') : Fine(queue'[i])
      <4>1. \A i \in 1..Len(queue') : (i \in 1..Len(queue) /\ queue'[i] = queue[i]) \/ queue'[i] = c
        BY <1>0, <3>2 DEF Appended
      <4> QED BY <2>1, <2>2, <3>2, <4>1
    <3>3. CASE Taken
      <4>1. \A i \in 1..Len(queue') : i + 1 \in 1..Len(queue) /\ queue'[i] = queue[i + 1]
        BY <1>0, <3>3 DEF Taken
      <4> QED BY <2>1, <4>1
    <3> QED BY <3>1, <3>2, <3>3, QueueMoves DEF Queues
  <2> QED BY <2>3 DEF Fine
<1>4. ~single => local'[Worker].pc \notin Odd
  <2>1. ASSUME DoReadDrawing PROVE single
    <3>1. Take("note") /\ Head(queue).note.kind = "receipt"
      BY <1>0, <2>1, DoReadDrawingDoes
    <3>2. Head(queue).cmd = "note" /\ Head(queue) = queue[1] /\ 1 \in 1..Len(queue)
      BY <1>0, <3>1, TakeFacts
    <3> QED BY <3>1, <3>2 DEF GroupInv
  <2> QED BY <1>0, <2>1, HandMoves DEF HandsOn, GroupInv
<1>5. ASSUME NEW t \in Thread, local'[t].pc \in {"revoke", "revokeLatest"} PROVE local'[t].n \in srvRevoked'
  <2>1. Revoking(t)
    BY <1>0, HandMoves DEF HandsOn, Thread
  <2>2. CASE t = Worker /\ DoRevokeMsg
    <3>1. Take("note") /\ Head(queue).note.kind = "revoke" /\ local'[Worker].n = Head(queue).note.n
      BY <1>0, <2>2, DoRevokeMsgDoes
    <3>2. Head(queue).cmd = "note" /\ Head(queue) = queue[1] /\ 1 \in 1..Len(queue)
      BY <1>0, <3>1, TakeFacts
    <3> QED BY <1>1, <2>2, <3>1, <3>2 DEF GroupInv
  <2> QED BY <1>1, <1>5, <2>1, <2>2 DEF Revoking, GroupInv
<1>6. /\ ~single' => /\ \A k \in 1..Len(notes') : notes'[k].kind # "receipt"
                     /\ \A i \in 1..Len(queue') : /\ queue'[i].cmd # "latest"
                                                  /\ queue'[i].cmd = "note" => queue'[i].note.kind # "receipt"
                     /\ local'[Worker].pc \notin Odd
      /\ \A k \in 1..Len(notes') : notes'[k].kind = "revoke" => notes'[k].n \in srvRevoked'
      /\ \A i \in 1..Len(queue') : queue'[i].cmd = "note" /\ queue'[i].note.kind = "revoke"
                                     => queue'[i].note.n \in srvRevoked'
  BY <1>0, <1>2, <1>3, <1>4
<1> QED BY <1>5, <1>6 DEF GroupInv

(* A goroutine that acts alone is the one that does something, before and after. *)
Lone(t) == \A s \in Thread : s # t => local[s].pc = "idle"

LEMMA LoneFacts ==
  ASSUME Busy(Doing), NEW t \in Thread, Lone(t)
  PROVE  Busy(t) /\ (Still(t) /\ Busy(t)' => Busy(Doing)')
<1>0. Worker \in Thread /\ App \in Thread /\ Worker # App /\ (t = Worker \/ t = App)
  BY DEF Thread, Worker, App
<1>1. ASSUME NEW s \in Thread, local[s].pc = "idle"
      PROVE  Busy(s) <=> Shows(conv.latest, 0, 0)
  BY <1>1 DEF Busy
<1>2. ASSUME NEW s \in Thread, local'[s].pc = "idle"
      PROVE  Busy(s)' <=> Shows(conv.latest, 0, 0)'
  BY <1>2 DEF Busy
<1>3. CASE t = Worker
  <2>1. local[App].pc = "idle" /\ Doing = Worker
    BY <1>0, <1>3 DEF Lone, Doing
  <2>2. Still(t) => Doing' = Worker
    BY <1>0, <1>3, <2>1 DEF Still, Doing
  <2>3. ASSUME Still(t), Busy(t)' PROVE Busy(Doing)'
    BY <1>3, <2>2, <2>3 DEF Busy
  <2> QED BY <1>3, <2>1, <2>3
<1>4. CASE t = App
  <2>1. local[Worker].pc = "idle" /\ (Still(t) => local'[Worker].pc = "idle")
    BY <1>0, <1>4 DEF Lone, Still
  <2>2. Busy(t)
    BY <1>0, <1>1, <1>4, <2>1 DEF Doing
  <2>3. ASSUME Still(t), Busy(t)' PROVE Busy(Doing)'
    <3>1. CASE local'[App].pc = "idle"
      <4>1. Doing' = Worker
        BY <3>1 DEF Doing
      <4>2. Busy(Worker)'
        BY <1>0, <1>2, <1>4, <2>1, <2>3, <3>1
      <4> QED BY <4>1, <4>2 DEF Busy
    <3>2. CASE local'[App].pc # "idle"
      <4>1. Doing' = App
        BY <3>2 DEF Doing
      <4> QED BY <1>4, <2>3, <4>1 DEF Busy
    <3> QED BY <3>1, <3>2
  <2> QED BY <2>2, <2>3
<1> QED BY <1>0, <1>3, <1>4

(* What is shown stays shown while rows change neither status nor revocation. *)
Alike ==
  /\ \A n \in Seqs : rows'[n].st = rows[n].st /\ rows'[n].rev = rows[n].rev
  /\ srvRevoked \subseteq srvRevoked'

LEMMA ShowsStays ==
  ASSUME MaxSeq \in Nat, Alike
  PROVE  /\ Stored' = Stored /\ Active' = Active
         /\ \A l, k : IsRow(l, k) => IsRow(l, k)'
         /\ \A l : Newest(l) => Newest(l)'
         /\ \A l, m : Excused(l, m) => Excused(l, m)'
         /\ \A l, k, m : Shows(l, k, m) => Shows(l, k, m)'
         /\ \A b, l : Inserted(b, l) => Inserted(b, l)'
<1>1. Stored' = Stored /\ Active' = Active
  BY DEF Alike, Stored, Active
<1>2. \A n \in Stored : n \in Seqs
  BY DEF Stored
<1>3. ASSUME NEW l, NEW k, IsRow(l, k) PROVE IsRow(l, k)'
  BY <1>1, <1>2, <1>3 DEF IsRow, Alike
<1>4. ASSUME NEW l, Newest(l) PROVE Newest(l)'
  BY <1>1, <1>4 DEF Newest
<1>5. ASSUME NEW l, NEW m, Excused(l, m) PROVE Excused(l, m)'
  BY <1>1, <1>5 DEF Excused, Alike
<1>6. ASSUME NEW l, NEW k, NEW m, Shows(l, k, m) PROVE Shows(l, k, m)'
  BY <1>3, <1>4, <1>5, <1>6 DEF Shows
<1>7. ASSUME NEW b, NEW l, Inserted(b, l) PROVE Inserted(b, l)'
  <2>1. IsRow(l, 0)' /\ Excused(l, 0)'
    BY <1>3, <1>5, <1>7 DEF Inserted
  <2> QED BY <1>1, <1>7, <2>1 DEF Inserted, Alike
<1> QED BY <1>1, <1>3, <1>4, <1>5, <1>6, <1>7

(* Steps of others, and steps between places where the row of the conversation shows the latest message. *)
Special == {"revokeLatest", "deleteCount", "deleteLatest", "writeLatest", "clearConv", "update"}

LEMMA WorldStep ==
  ASSUME TypeInv, WayInv, LatestInv, [Next]_vars, serial, ~single,
         Alike, UNCHANGED <<conv, local>>
  PROVE  LatestInv'
<1>0. /\ MaxSeq \in Nat /\ InOrder /\ conv.time \in Nat /\ \A t \in Thread : local[t].n \in Nat
      /\ Doing \in Thread
  BY SizeAssumption, LocalFacts DEF WayInv, TypeInv, TableType, Doing, Thread
<1>1. Behind(conv.time) /\ Busy(Doing)
  BY DEF LatestInv
<1>2. Behind(conv.time)'
  <2>1. PICK n \in Nat : n = conv.time
    BY <1>0
  <2>2. Behind(n)' /\ n = conv'.time
    BY <1>0, <1>1, <2>1, BehindNext
  <2> QED BY <2>2 DEF Behind
<1>3. PICK t \in Thread : t = Doing
  BY <1>0
<1>4. PICK n \in Nat : n = local[t].n
  BY <1>0
<1>5. Doing' = t /\ local'[t] = local[t] /\ conv' = conv
  BY <1>3 DEF Doing
<1>6. Behind(n) => Behind(n)'
  BY <1>0, BehindNext
<1>7. Stored' = Stored
  BY <1>0, ShowsStays
<1>8. PICK l, b : l = conv.latest /\ b = local[t].batch
  OBVIOUS
<1>9. PICK w : w = local[t].latest
  OBVIOUS
<1>10. Busy(t)
  BY <1>1, <1>3 DEF Busy
<1>11. /\ local[t].pc = "revokeLatest" => Shows(l, n, 0)'
       /\ local[t].pc \in {"deleteCount", "deleteLatest"} => Shows(l, 0, n)'
       /\ local[t].pc = "writeLatest" => Shows(w, 0, 0)' /\ Behind(n)'
       /\ local[t].pc = "update" => Inserted(b, l)'
       /\ local[t].pc \notin Special => Shows(l, 0, 0)'
  BY <1>0, <1>4, <1>6, <1>8, <1>9, <1>10, ShowsStays DEF Busy, Special
<1>12. Busy(t)'
  BY <1>4, <1>5, <1>7, <1>8, <1>9, <1>10, <1>11 DEF Busy, Special
<1> QED BY <1>2, <1>5, <1>12 DEF LatestInv, Busy

LEMMA PlainStep ==
  ASSUME TypeInv, WayInv, LatestInv, [Next]_vars, serial, ~single,
         Alike, conv'.latest = conv.latest, conv'.time = conv.time, NEW t \in Thread, Lone(t), Still(t),
         local[t].pc \notin Special, local'[t].pc \notin Special \cup {"insert", "latestRead"}
  PROVE  LatestInv'
<1>0. MaxSeq \in Nat /\ InOrder /\ conv.time \in Nat
  BY SizeAssumption, LocalFacts DEF WayInv, TypeInv, TableType
<1>1. Behind(conv.time) /\ Busy(Doing) /\ Busy(t)
  BY LoneFacts DEF LatestInv
<1>2. Behind(conv.time)'
  <2>1. PICK n \in Nat : n = conv.time
    BY <1>0
  <2>2. Behind(n)' /\ n = conv'.time
    BY <1>0, <1>1, <2>1, BehindNext
  <2> QED BY <2>2 DEF Behind
<1>3. PICK l : l = conv.latest
  OBVIOUS
<1>4. Shows(l, 0, 0)'
  BY <1>0, <1>1, <1>3, ShowsStays DEF Busy, Special
<1>5. Busy(t)'
  BY <1>3, <1>4 DEF Busy, Special
<1> QED BY <1>1, <1>2, <1>5, LoneFacts DEF LatestInv

(* All that the steps of a goroutine in a group rest on. *)
Grounds == TypeInv /\ WayInv /\ Turns /\ NotedInv /\ RevokeInv /\ PastInv /\ GroupInv /\ LatestInv

LEMMA ActFacts ==
  ASSUME Grounds, [Next]_vars, serial, ~single, NEW t \in Thread, local[t].pc # "idle"
  PROVE  /\ Lone(t) /\ Busy(t) /\ Behind(conv.time) /\ MaxSeq \in Nat /\ LocalsType /\ InOrder
         /\ rows \in [Seqs -> Row] /\ (\A n \in Seqs : rows[n] \in Row) /\ conv \in Convs
         /\ conv.time \in Nat /\ conv.latest \in Latests /\ conv.latest.n \in Nat
         /\ local[t].n \in Nat /\ local[t].latest \in Latests /\ local[t].latest.n \in Nat
         /\ Worker \in Thread /\ App \in Thread /\ Worker # App
         /\ \A n \in Stored : n \in Nat \ {0} /\ n \in Seqs /\ (local[Worker].pc # "update" => Behind(n))
         /\ (~Holds => Behind(0))
         /\ \A n \in Seqs : n \in Nat
<1>1. TypeInv /\ WayInv /\ Turns /\ PastInv /\ LatestInv
  BY DEF Grounds
<1>2. MaxSeq \in Nat /\ Worker \in Thread /\ App \in Thread /\ Worker # App /\ Sent /\ InOrder
      /\ (t = Worker \/ t = App) /\ \A n \in Seqs : n \in Nat \ {0}
  BY <1>1, SizeAssumption DEF Thread, Worker, App, WayInv, Seqs
<1>3. Lone(t)
  BY <1>1, <1>2 DEF Turns, Lone, Thread
<1>4. Busy(t) /\ Behind(conv.time)
  BY <1>1, <1>3, LoneFacts DEF LatestInv
<1>5. /\ rows \in [Seqs -> Row] /\ (\A n \in Seqs : rows[n] \in Row) /\ conv \in Convs /\ LocalsType
      /\ conv.time \in Nat /\ conv.latest \in Latests /\ conv.latest.n \in Nat
      /\ local[t].n \in Nat /\ local[t].latest \in Latests /\ local[t].latest.n \in Nat /\ sent \in Nat
  BY <1>1, LocalFacts DEF TypeInv, TableType, MemoryType, LocalsType, WayType, ServerType
<1>6. \A n \in Stored : n \in Nat \ {0} /\ n \in Seqs /\ (local[Worker].pc # "update" => Behind(n))
  BY <1>1, <1>2 DEF PastInv, Stored, Updating
<1>7. ~Holds => Behind(0)
  <2>1. \A i \in Batches : 0 < queue[i].batch.from
    <3>1. \A i \in Batches : queue[i].batch.from \in Nat /\ queue[i].batch.from >= 1
      BY <1>1, <1>2, BatchTyped DEF TypeInv, WayType, InOrder
    <3> QED BY <3>1
  <2> QED BY <1>5, <2>1 DEF Behind
<1> QED BY <1>2, <1>3, <1>4, <1>5, <1>6, <1>7

(* A goroutine that acts alone leaves the latest message as its new place asks. *)
LEMMA Lands ==
  ASSUME Grounds, [Next]_vars, serial, ~single, NEW t \in Thread, local[t].pc # "idle", Still(t), Busy(t)',
         NEW m \in Nat, Behind(m), conv'.time = m
  PROVE  LatestInv'
<1>1. Lone(t) /\ InOrder /\ TypeInv
  BY ActFacts DEF Grounds
<1>2. Busy(Doing)
  BY DEF Grounds, LatestInv
<1>3. Busy(Doing)'
  BY <1>1, <1>2, LoneFacts
<1>4. Behind(m)'
  BY <1>1, BehindNext
<1>5. Behind(conv.time)'
  BY <1>4 DEF Behind
<1> QED BY <1>3, <1>5 DEF LatestInv

LEMMA LatestAtRevoke ==
  ASSUME Grounds, [Next]_vars, serial, ~single, NEW t \in Thread, RevokeRow(t) \/ RevokeLatest(t)
  PROVE  LatestInv'
<1>0. TypeInv /\ WayInv /\ LatestInv /\ LocalsType
  BY DEF Grounds, TypeInv, MemoryType, LocalsType
<1> DEFINE n == local[t].n
           l == conv.latest
<1>1. CASE RevokeRow(t)
  <2>1. /\ UNCHANGED <<srvVars, wayVars, conv, memVars, single, serial, base>>
        /\ local[t].pc = "revoke"
        /\ \/ rows[n].st = "none" /\ Ends(t) /\ rows' = rows
           \/ /\ rows[n].st # "none" /\ Goes(t, "revokeLatest")
              /\ rows' = [rows EXCEPT ![n].rev = TRUE]
    BY <1>0, <1>1, RevokeRowDoes
  <2>2. local[t].pc # "idle"
    BY <2>1
  <2>3. CASE Ends(t) /\ rows' = rows
    <3>1. Alike /\ Still(t) /\ local'[t].pc = "idle" /\ conv' = conv
      BY <2>1, <2>3, IdleTyped DEF Alike, Ends, srvVars
    <3>2. Lone(t)
      BY <2>2, ActFacts
    <3> QED BY <1>0, <2>1, <3>1, <3>2, PlainStep DEF Special
  <2>4. CASE rows[n].st # "none" /\ Goes(t, "revokeLatest") /\ rows' = [rows EXCEPT ![n].rev = TRUE]
    <3>1. n \in srvRevoked /\ n \in Seqs /\ n \in Stored
      BY <2>1, <2>4 DEF Grounds, GroupInv, RevokeInv, Stored
    <3>2. /\ \A i \in Seqs : rows'[i].st = rows[i].st /\ (i # n => rows'[i] = rows[i])
          /\ srvRevoked' = srvRevoked
      BY <2>1, <2>2, <2>4, ActFacts DEF Row, srvVars
    <3>3. Stored' = Stored /\ Active' = Active
      BY <3>2 DEF Stored, Active
    <3>4. Shows(l, 0, 0)
      BY <2>1, <2>2, ActFacts DEF Busy
    <3>5. PICK x, i : x = l /\ i = n
      OBVIOUS
    <3>6. Shows(x, i, 0)'
      <4>1. \A j \in Stored : j \in Seqs
        BY DEF Stored
      <4>2. IsRow(x, i)'
        BY <3>2, <3>3, <3>4, <3>5, <4>1 DEF Shows, IsRow
      <4>3. Newest(x)' /\ Excused(x, 0)'
        BY <3>2, <3>3, <3>4, <3>5 DEF Shows, Newest, Excused
      <4> QED BY <4>2, <4>3 DEF Shows
    <3>7. Still(t) /\ local'[t].pc = "revokeLatest" /\ local'[t].n = i /\ conv'.latest = x
            /\ conv'.time = conv.time
      BY <2>1, <2>4, <3>5 DEF Goes, Keeps
    <3>8. Busy(t)'
      BY <3>1, <3>3, <3>5, <3>6, <3>7 DEF Busy
    <3> QED BY <2>2, <3>7, <3>8, ActFacts, Lands
  <2> QED BY <2>1, <2>3, <2>4
<1>2. CASE RevokeLatest(t)
  <2>1. /\ UNCHANGED <<srvVars, wayVars, rowVars, memVars, single, serial, base>>
        /\ local[t].pc = "revokeLatest"
        /\ \/ ~(l.n <= n /\ LocalMax # 0) /\ Ends(t)
           \/ l.n <= n /\ LocalMax # 0 /\ GoesWith(t, "writeLatest", LatestOf(LocalMax))
    BY <1>0, <1>2, RevokeLatestDoes
  <2>2. local[t].pc # "idle" /\ Alike /\ conv' = conv /\ local[Worker].pc # "update"
    <3>1. local[t].pc # "idle"
      BY <2>1
    <3>2. local[Worker].pc # "update"
      BY <2>1, <3>1, ActFacts DEF Lone
    <3> QED BY <2>1, <3>1, <3>2 DEF Alike, srvVars, rowVars
  <2>3. Shows(l, n, 0) /\ n \in Stored /\ n \in srvRevoked
    BY <2>1, <2>2, ActFacts DEF Busy, Grounds, GroupInv
  <2>4. LocalMax \in Nat /\ LocalMax \in Stored /\ \A i \in Stored : i <= LocalMax
    <3>1. Stored \in SUBSET (0..MaxSeq) /\ MaxSeq \in Nat
      BY <1>0, SizeFacts DEF WayInv, Seqs, Stored
    <3> QED BY <2>3, <3>1, HasGreatest DEF LocalMax
  <2>5. n \in Nat \ {0} /\ Behind(n) /\ MaxSeq \in Nat
    BY <2>2, <2>3, ActFacts
  <2>6. CASE ~(l.n <= n /\ LocalMax # 0) /\ Ends(t)
    <3>1. l.n # n
      BY <2>3, <2>4, <2>5, <2>6
    <3>2. Shows(l, 0, 0)
      BY <2>3, <3>1 DEF Shows, IsRow
    <3>3. PICK x : x = l
      OBVIOUS
    <3>4. Shows(x, 0, 0)'
      BY <2>2, <2>5, <3>2, <3>3, ShowsStays
    <3>5. Still(t) /\ local'[t].pc = "idle" /\ conv'.latest = x /\ conv'.time = conv.time
      BY <2>2, <2>6, <3>3, IdleTyped DEF Ends
    <3>6. Busy(t)'
      BY <3>4, <3>5 DEF Busy
    <3> QED BY <2>2, <3>5, <3>6, ActFacts, Lands
  <2>7. CASE l.n <= n /\ LocalMax # 0 /\ GoesWith(t, "writeLatest", LatestOf(LocalMax))
    <3>1. PICK w, i : w = LatestOf(LocalMax) /\ i = n
      OBVIOUS
    <3>2. w.n = LocalMax /\ w.rev = rows[LocalMax].rev
      BY <2>4, <2>5, <3>1, ActFacts, <2>2 DEF LatestOf
    <3>3. Shows(w, 0, 0)
      <4>1. 0 \notin Stored /\ Active \subseteq Stored /\ n <= LocalMax
        BY <2>2, <2>3, <2>4, ActFacts DEF Active, Stored
      <4> QED BY <2>3, <2>4, <3>2, <4>1 DEF Shows, IsRow, Newest, Excused
    <3>4. Shows(w, 0, 0)'
      BY <2>2, <2>5, <3>3, ShowsStays
    <3>5. Still(t) /\ local'[t].pc = "writeLatest" /\ local'[t].latest = w /\ local'[t].n = i /\ conv' = conv
      BY <2>2, <2>7, <3>1 DEF GoesWith, Keeps
    <3>6. Behind(i)'
      BY <1>0, <2>2, <2>5, <3>1, ActFacts, BehindNext
    <3>7. Busy(t)'
      BY <3>4, <3>5, <3>6 DEF Busy, Behind
    <3> QED BY <2>2, <3>5, <3>7, ActFacts, Lands
  <2> QED BY <2>1, <2>6, <2>7
<1> QED BY <1>1, <1>2

LEMMA LatestAtDelete ==
  ASSUME Grounds, [Next]_vars, serial, ~single, NEW t \in Thread, DeleteRow(t) \/ DeleteCount(t)
           \/ DeleteLatest(t)
  PROVE  LatestInv'
<1>0. TypeInv /\ WayInv /\ LatestInv /\ LocalsType
  BY DEF Grounds, TypeInv, MemoryType, LocalsType
<1> DEFINE n == local[t].n
           l == conv.latest
<1>1. CASE DeleteRow(t)
  <2>1. /\ UNCHANGED <<srvVars, wayVars, conv, memVars, single, serial, base>>
        /\ local[t].pc = "delete"
        /\ \/ rows[n].st = "none" /\ Ends(t) /\ rows' = rows
           \/ /\ rows[n].st # "none" /\ (Goes(t, "deleteCount") \/ Goes(t, "deleteLatest"))
              /\ rows' = [rows EXCEPT ![n].st = "deleted"]
    BY <1>0, <1>1, DeleteRowDoes
  <2>2. local[t].pc # "idle"
    BY <2>1
  <2>3. CASE Ends(t) /\ rows' = rows
    <3>1. Alike /\ Still(t) /\ local'[t].pc = "idle" /\ conv' = conv
      BY <2>1, <2>3, IdleTyped DEF Alike, Ends, srvVars
    <3>2. Lone(t)
      BY <2>2, ActFacts
    <3> QED BY <1>0, <2>1, <3>1, <3>2, PlainStep DEF Special
  <2>4. CASE /\ rows[n].st # "none" /\ (Goes(t, "deleteCount") \/ Goes(t, "deleteLatest"))
             /\ rows' = [rows EXCEPT ![n].st = "deleted"]
    <3>1. Shows(l, 0, 0) /\ rows \in [Seqs -> Row] /\ \A j \in Seqs : rows[j] \in Row
      BY <2>1, <2>2, ActFacts DEF Busy
    <3>2. /\ \A j \in Seqs : /\ rows'[j].rev = rows[j].rev /\ (j # n => rows'[j] = rows[j])
                             /\ (j = n => rows'[j].st = "deleted")
          /\ srvRevoked' = srvRevoked
      BY <2>1, <2>4, <3>1 DEF Row, srvVars
    <3>3. Stored' = Stored /\ Active' = Active \ {n}
      BY <2>4, <3>2 DEF Stored, Active
    <3>4. PICK x, i : x = l /\ i = n
      OBVIOUS
    <3>5. Shows(x, 0, i)'
      <4>1. \A j \in Stored : j \in Seqs
        BY DEF Stored
      <4>2. IsRow(x, 0) /\ Newest(x) /\ Excused(x, 0)
        BY <3>1, <3>4 DEF Shows
      <4>3. IsRow(x, 0)'
        BY <3>2, <3>3, <4>1, <4>2 DEF IsRow
      <4>4. Newest(x)'
        BY <3>3, <4>2 DEF Newest
      <4>5. Excused(x, i)'
        <5>1. ASSUME x.n \in Stored' \ Active', x.n # i
              PROVE  \E j \in srvRevoked' : j <= x.n
          <6>1. x.n \in Stored \ Active /\ x.n # 0
            BY <3>3, <3>4, <5>1, <2>2, ActFacts
          <6> QED BY <3>2, <4>2, <6>1 DEF Excused
        <5> QED BY <5>1 DEF Excused
      <4> QED BY <4>3, <4>4, <4>5 DEF Shows
    <3>6. /\ Still(t) /\ local'[t].pc \in {"deleteCount", "deleteLatest"} /\ local'[t].n = i
          /\ conv'.latest = x /\ conv'.time = conv.time
      BY <2>1, <2>4, <3>4 DEF Goes, Keeps
    <3>7. Busy(t)'
      BY <3>5, <3>6 DEF Busy
    <3> QED BY <2>2, <3>6, <3>7, ActFacts, Lands
  <2> QED BY <2>1, <2>3, <2>4
<1>2. CASE DeleteCount(t)
  <2>1. /\ UNCHANGED <<srvVars, wayVars, rows, memVars, single, serial, base>>
        /\ local[t].pc = "deleteCount" /\ Goes(t, "deleteLatest")
        /\ conv' = [conv EXCEPT !.unread = Decreased(@)]
    BY <1>0, <1>2, DeleteCountDoes
  <2>2. local[t].pc # "idle" /\ Alike
    BY <2>1 DEF Alike, srvVars
  <2>3. Shows(l, 0, n) /\ conv \in Convs /\ MaxSeq \in Nat
    BY <2>1, <2>2, ActFacts DEF Busy
  <2>4. PICK x, i : x = l /\ i = n
    OBVIOUS
  <2>5. conv'.latest = x /\ conv'.time = conv.time
    BY <2>1, <2>3, <2>4 DEF Convs
  <2>6. Shows(x, 0, i)' /\ Still(t) /\ local'[t].pc = "deleteLatest" /\ local'[t].n = i
    BY <2>1, <2>2, <2>3, <2>4, ShowsStays DEF Goes, Keeps
  <2>7. Busy(t)'
    BY <2>5, <2>6 DEF Busy
  <2> QED BY <2>2, <2>5, <2>6, <2>7, ActFacts, Lands
<1>3. CASE DeleteLatest(t)
  <2>1. /\ UNCHANGED <<srvVars, wayVars, rowVars, memVars, single, serial, base>>
        /\ local[t].pc = "deleteLatest"
        /\ \/ l.n # n /\ Ends(t)
           \/ l.n = n /\ GoesWith(t, "writeLatest", LatestOf(Greatest(Active)))
    BY <1>0, <1>3, DeleteLatestDoes
  <2>2. local[t].pc # "idle" /\ Alike /\ conv' = conv /\ ~Holds /\ local[Worker].pc # "update"
    <3>1. local[t].pc # "idle"
      BY <2>1
    <3>2. ~Holds /\ local[Worker].pc # "update"
      BY <2>1, <3>1, ActFacts DEF Lone, Holds
    <3> QED BY <2>1, <3>1, <3>2 DEF Alike, srvVars, rowVars
  <2>3. Shows(l, 0, n) /\ MaxSeq \in Nat
    BY <2>1, <2>2, ActFacts DEF Busy
  <2>4. CASE l.n # n /\ Ends(t)
    <3>1. Shows(l, 0, 0)
      BY <2>3, <2>4 DEF Shows, Excused
    <3>2. PICK x : x = l
      OBVIOUS
    <3>3. Shows(x, 0, 0)'
      BY <2>2, <2>3, <3>1, <3>2, ShowsStays
    <3>4. Still(t) /\ local'[t].pc = "idle" /\ conv'.latest = x /\ conv'.time = conv.time
      BY <2>2, <2>4, <3>2, IdleTyped DEF Ends
    <3>5. Busy(t)'
      BY <3>3, <3>4 DEF Busy
    <3> QED BY <2>2, <3>4, <3>5, ActFacts, Lands
  <2>5. CASE l.n = n /\ GoesWith(t, "writeLatest", LatestOf(Greatest(Active)))
    <3> DEFINE g == Greatest(Active)
    <3>1. g \in Nat /\ (g # 0 => g \in Active) /\ (\A i \in Active : i <= g) /\ 0 \notin Stored
          /\ Active \subseteq Stored
      <4>1. Active \in SUBSET (0..MaxSeq) /\ 0 \notin Stored /\ Active \subseteq Stored
        BY <2>3 DEF Active, Stored, Seqs
      <4>2. Active = {} => g = 0
        BY DEF Greatest
      <4>3. g \in 0..MaxSeq /\ (Active # {} => g \in Active) /\ \A i \in Active : i <= g
        BY <2>3, <4>1, HasGreatest
      <4> QED BY <4>1, <4>2, <4>3
    <3> HIDE DEF g
    <3>2. PICK w, i : w = LatestOf(g) /\ i = n
      OBVIOUS
    <3>3. w.n = g /\ (g # 0 => w.rev = rows[g].rev) /\ (g = 0 => w = NoLatest)
      BY <3>1, <3>2 DEF LatestOf, NoLatest
    <3>4. Shows(w, 0, 0)
      BY <3>1, <3>3 DEF Shows, IsRow, Newest, Excused
    <3>5. Shows(w, 0, 0)'
      BY <2>2, <2>3, <3>4, ShowsStays
    <3>6. Still(t) /\ local'[t].pc = "writeLatest" /\ local'[t].latest = w /\ local'[t].n = i /\ conv' = conv
      BY <2>2, <2>5, <3>2 DEF GoesWith, Keeps, g
    <3>7. i \in Nat /\ Behind(i)
      <4>1. i \in Stored \/ i = 0
        BY <2>3, <2>5, <3>2 DEF Shows, IsRow
      <4> QED BY <2>2, <3>2, <4>1, ActFacts
    <3>8. Behind(i)'
      BY <1>0, <3>7, BehindNext DEF WayInv
    <3>9. Busy(t)'
      BY <3>5, <3>6, <3>8 DEF Busy, Behind
    <3> QED BY <2>2, <3>6, <3>9, ActFacts, Lands
  <2> QED BY <2>1, <2>4, <2>5
<1> QED BY <1>1, <1>2, <1>3

LEMMA LatestAtWrite ==
  ASSUME Grounds, [Next]_vars, serial, ~single, NEW t \in Thread,
         WriteLatest(t) \/ ClearRows(t) \/ ClearConversation(t) \/ ReadLatest(t) \/ SetLatestRead(t)
  PROVE  LatestInv'
<1>0. TypeInv /\ WayInv /\ LatestInv /\ LocalsType
  BY DEF Grounds, TypeInv, MemoryType, LocalsType
<1> DEFINE n == local[t].n
           l == conv.latest
<1>1. CASE WriteLatest(t)
  <2>1. /\ UNCHANGED <<srvVars, wayVars, rows, memVars, single, serial, base>>
        /\ local[t].pc = "writeLatest" /\ Ends(t)
        /\ conv' = [conv EXCEPT !.latest = local[t].latest,
                      !.time = IF local[t].latest.n = 0 THEN n ELSE local[t].latest.n]
    BY <1>0, <1>1, WriteLatestDoes
  <2>2. local[t].pc # "idle" /\ Alike
    BY <2>1 DEF Alike, srvVars
  <2>3. local[Worker].pc # "update"
    BY <2>1, <2>2, ActFacts DEF Lone
  <2>4. PICK w : w = local[t].latest
    OBVIOUS
  <2>5. Shows(w, 0, 0) /\ Behind(n) /\ n \in Nat /\ conv \in Convs /\ MaxSeq \in Nat
    BY <2>1, <2>2, <2>4, ActFacts DEF Busy
  <2>6. PICK m : m = IF w.n = 0 THEN n ELSE w.n
    OBVIOUS
  <2>7. m \in Nat /\ Behind(m)
    <3>1. w.n # 0 => w.n \in Stored
      BY <2>5 DEF Shows, IsRow
    <3> QED BY <2>2, <2>3, <2>5, <2>6, <3>1, ActFacts
  <2>8. conv'.latest = w /\ conv'.time = m
    BY <2>1, <2>4, <2>5, <2>6 DEF Convs
  <2>9. Shows(w, 0, 0)' /\ Still(t) /\ local'[t].pc = "idle"
    BY <2>1, <2>2, <2>5, ShowsStays, IdleTyped DEF Ends
  <2>10. Busy(t)'
    BY <2>8, <2>9 DEF Busy
  <2> QED BY <2>2, <2>7, <2>8, <2>9, <2>10, Lands
<1>2. CASE ClearRows(t)
  <2>1. /\ UNCHANGED <<srvVars, wayVars, conv, memVars, single, serial, base>>
        /\ local[t].pc = "clearRows" /\ Goes(t, "clearConv") /\ rows' = [i \in Seqs |-> NoRow]
    BY <1>0, <1>2, ClearRowsDoes
  <2>2. Stored' = {} /\ local[t].pc # "idle" /\ Still(t) /\ local'[t].pc = "clearConv" /\ conv' = conv
    BY <2>1, IdleTyped DEF Stored, Goes, Keeps
  <2>3. Busy(t)'
    BY <2>2 DEF Busy
  <2> QED BY <2>2, <2>3, ActFacts, Lands
<1>3. CASE ClearConversation(t)
  <2>1. /\ UNCHANGED <<srvVars, wayVars, rows, memVars, single, serial>>
        /\ local[t].pc = "clearConv" /\ Ends(t) /\ conv' = [conv EXCEPT !.unread = 0, !.latest = NoLatest]
    BY <1>0, <1>3, ClearConversationDoes
  <2>2. local[t].pc # "idle"
    BY <2>1
  <2>3. Stored = {} /\ conv \in Convs
    BY <2>1, <2>2, ActFacts DEF Busy
  <2>4. Stored' = {} /\ Active' = {} /\ conv'.latest = NoLatest /\ conv'.time = conv.time
    BY <2>1, <2>3 DEF Stored, Active, Convs
  <2>5. Shows(NoLatest, 0, 0)'
    BY <2>4 DEF Shows, IsRow, Newest, Excused, NoLatest
  <2>6. Still(t) /\ local'[t].pc = "idle"
    BY <2>1, IdleTyped DEF Ends
  <2>7. Busy(t)'
    BY <2>4, <2>5, <2>6 DEF Busy
  <2> QED BY <2>2, <2>4, <2>6, <2>7, ActFacts, Lands
<1>4. CASE ReadLatest(t)
  <2>1. /\ UNCHANGED <<srvVars, wayVars, rowVars, memVars, single, serial, base>>
        /\ local[t].pc = "latest" /\ GoesWith(t, "latestRead", l)
    BY <1>0, <1>4, ReadLatestDoes
  <2>2. local[t].pc # "idle" /\ Alike /\ conv' = conv
    BY <2>1 DEF Alike, srvVars, rowVars
  <2>3. PICK x : x = l
    OBVIOUS
  <2>4. Shows(x, 0, 0) /\ MaxSeq \in Nat
    BY <2>1, <2>2, <2>3, ActFacts DEF Busy
  <2>5. Shows(x, 0, 0)' /\ Still(t) /\ local'[t].pc = "latestRead" /\ local'[t].latest = x /\ conv'.latest = x
    BY <2>1, <2>2, <2>3, <2>4, ShowsStays DEF GoesWith, Keeps
  <2>6. Busy(t)'
    BY <2>5 DEF Busy
  <2> QED BY <2>2, <2>5, <2>6, ActFacts, Lands
<1>5. CASE SetLatestRead(t)
  <2>1. /\ UNCHANGED <<srvVars, wayVars, rows, recorder, single, serial, base>>
        /\ local[t].pc = "latestRead" /\ Ends(t)
        /\ conv' = IF local[t].latest.n = 0 THEN conv
                   ELSE [conv EXCEPT !.latest = local[t].latest, !.time = local[t].latest.n]
    BY <1>0, <1>5, SetLatestReadDoes
  <2>2. local[t].pc # "idle" /\ Alike
    BY <2>1 DEF Alike, srvVars
  <2>3. local[Worker].pc # "update"
    BY <2>1, <2>2, ActFacts DEF Lone
  <2>4. PICK x : x = l
    OBVIOUS
  <2>5. local[t].latest = x /\ Shows(x, 0, 0) /\ MaxSeq \in Nat /\ conv \in Convs /\ Behind(conv.time)
    BY <2>1, <2>2, <2>4, ActFacts DEF Busy
  <2>6. PICK m : m = IF x.n = 0 THEN conv.time ELSE x.n
    OBVIOUS
  <2>7. m \in Nat /\ Behind(m)
    <3>1. x.n # 0 => x.n \in Stored
      BY <2>5 DEF Shows, IsRow
    <3> QED BY <2>2, <2>3, <2>5, <2>6, <3>1, ActFacts
  <2>8. conv'.latest = x /\ conv'.time = m
    <3>1. CASE x.n = 0
      BY <2>1, <2>4, <2>5, <2>6, <3>1
    <3>2. CASE x.n # 0
      <4>1. conv' = [conv EXCEPT !.latest = x, !.time = x.n]
        BY <2>1, <2>5, <3>2
      <4> QED BY <2>5, <2>6, <3>2, <4>1 DEF Convs
    <3> QED BY <3>1, <3>2
  <2>9. Shows(x, 0, 0)' /\ Still(t) /\ local'[t].pc = "idle"
    BY <2>1, <2>2, <2>5, ShowsStays, IdleTyped DEF Ends
  <2>10. Busy(t)'
    BY <2>8, <2>9 DEF Busy
  <2> QED BY <2>2, <2>7, <2>8, <2>9, <2>10, Lands
<1> QED BY <1>1, <1>2, <1>3, <1>4, <1>5

LEMMA LatestAtInsert ==
  ASSUME Grounds, [Next]_vars, serial, ~single, ReadConversation \/ InsertMessages \/ UpdateConversation
  PROVE  LatestInv'
<1>0. /\ TypeInv /\ WayInv /\ LatestInv /\ PastInv /\ LocalsType /\ Worker \in Thread
      /\ local[Worker].batch.from \in Nat /\ local[Worker].batch.to \in Nat
      /\ sent \in Nat /\ sent <= MaxSeq
  <2>1. TypeInv /\ WayInv /\ LatestInv /\ PastInv
    BY DEF Grounds
  <2> QED BY <2>1, LocalFacts, SizeFacts DEF TypeInv, MemoryType, LocalsType, Thread, WayInv
<1> DEFINE b == local[Worker].batch
           l == conv.latest
<1>1. CASE ReadConversation
  <2>1. /\ UNCHANGED <<srvVars, wayVars, rowVars, recorder, scenVars>>
        /\ local[Worker].pc = "lock" /\ Still(Worker) /\ local'[Worker].pc = "insert"
        /\ local'[Worker].conv = conv
    BY <1>0, <1>1, ReadConversationDoes
  <2>2. local[Worker].pc # "idle" /\ Alike /\ conv' = conv
    BY <2>1 DEF Alike, srvVars, rowVars
  <2>3. PICK x : x = l
    OBVIOUS
  <2>4. Shows(x, 0, 0) /\ MaxSeq \in Nat
    BY <1>0, <2>1, <2>2, <2>3, ActFacts DEF Busy
  <2>5. Shows(x, 0, 0)'
    BY <2>2, <2>4, ShowsStays
  <2>6. Busy(Worker)'
    BY <2>1, <2>2, <2>3, <2>5 DEF Busy
  <2> QED BY <1>0, <2>1, <2>2, <2>6, ActFacts, Lands
<1>2. CASE InsertMessages
  <2>1. /\ UNCHANGED <<srvVars, wayVars, conv, memVars, scenVars>>
        /\ local[Worker].pc = "insert" /\ Goes(Worker, "update")
        /\ rows' = [n \in Seqs |->
                      IF n \in Fresh(b)
                      THEN [st |-> IF n \in b.gone THEN "deleted" ELSE "ok", rev |-> n \in b.rev, read |-> FALSE]
                      ELSE rows[n]]
    BY <1>0, <1>2, InsertMessagesDoes
  <2>2. local[Worker].pc # "idle" /\ local[Worker].pc # "update" /\ Holds
    BY <2>1 DEF Holds
  <2>3. /\ Shows(l, 0, 0) /\ local[Worker].conv = conv /\ MaxSeq \in Nat /\ conv.time \in Nat
        /\ conv.time < b.from /\ b.to <= sent /\ \A n \in Stored : n \in Nat \ {0} /\ n \in Seqs /\ n < b.from
    BY <1>0, <2>1, <2>2, ActFacts DEF Busy, Behind, WayInv, Handed
  <2>4. \A n \in b.from..b.to : n \in Seqs /\ rows[n].st = "none"
    <3>1. \A n \in b.from..b.to : n \in Seqs /\ ~(n < b.from)
      BY <1>0, <2>3 DEF Seqs
    <3> QED BY <2>3, <3>1 DEF Stored
  <2>5. \A n \in Seqs : n \in Fresh(b) <=> n \in b.from..b.to
    BY <2>4 DEF Fresh
  <2>6. /\ \A n \in Seqs : n \notin b.from..b.to => rows'[n] = rows[n]
        /\ \A n \in b.from..b.to : rows'[n].rev = (n \in b.rev)
                                   /\ rows'[n].st = IF n \in b.gone THEN "deleted" ELSE "ok"
    BY <2>1, <2>4, <2>5
  <2>7. Stored' = Stored \cup b.from..b.to /\ Active' \subseteq Active \cup b.from..b.to
        /\ \A n \in Stored : n \notin b.from..b.to /\ rows'[n] = rows[n] /\ (n \in Active => n \in Active')
    <3>1. \A n \in b.from..b.to : rows'[n].st # "none"
      BY <2>6
    <3>2. \A n \in Stored : n \notin b.from..b.to
      BY <1>0, <2>3
    <3> QED BY <2>3, <2>4, <2>6, <3>1, <3>2 DEF Stored, Active
  <2>8. PICK x, c : x = l /\ c = b
    OBVIOUS
  <2>9. IsRow(x, 0) /\ Newest(x) /\ Excused(x, 0) /\ srvRevoked' = srvRevoked
    BY <2>1, <2>3, <2>8 DEF Shows, srvVars
  <2> HIDE DEF b, l
  <2>10. IsRow(x, 0)'
    BY <2>7, <2>9 DEF IsRow
  <2>11. Excused(x, 0)'
    <3>1. ASSUME x.n \in Stored' \ Active', x.n # 0
          PROVE  \E i \in srvRevoked' : i <= x.n
      <4>1. x.n \in Stored \ Active
        BY <2>7, <2>9, <3>1 DEF IsRow
      <4> QED BY <2>9, <3>1, <4>1 DEF Excused
    <3> QED BY <3>1 DEF Excused
  <2>12. \A i \in Active' : i <= x.n \/ i \in c.from..c.to
    BY <2>7, <2>8, <2>9 DEF Newest
  <2>13. Inserted(c, x)'
    BY <2>4, <2>6, <2>8, <2>10, <2>11, <2>12 DEF Inserted
  <2>14. /\ Still(Worker) /\ local'[Worker].pc = "update" /\ local'[Worker].batch = c
         /\ local'[Worker].conv = local[Worker].conv /\ conv' = conv
    BY <2>1, <2>8 DEF Goes, Keeps, b
  <2>15. Busy(Worker)'
    BY <2>3, <2>8, <2>13, <2>14 DEF Busy, l
  <2> QED BY <1>0, <2>2, <2>14, <2>15, ActFacts, Lands
<1>3. CASE UpdateConversation
  <2> DEFINE d == Diff(local[Worker].conv, b)
  <2>1. /\ UNCHANGED <<srvVars, wayVars, rows, recorder, scenVars>>
        /\ local[Worker].pc = "update" /\ Ends(Worker)
        /\ conv' = IF (b.from..b.to) \subseteq b.gone THEN conv
                   ELSE [unread |-> IF d.unread = 0 THEN conv.unread ELSE d.unread,
                         latest |-> IF d.latest = NoLatest THEN conv.latest ELSE d.latest,
                         time   |-> d.time]
    BY <1>0, <1>3, UpdateConversationDoes
  <2>2. /\ local[Worker].pc # "idle" /\ Holds /\ Updating /\ Alike /\ Still(Worker)
             /\ local'[Worker].pc = "idle"
        /\ ~Holds'
    BY <2>1, IdleTyped DEF Holds, Updating, Alike, Ends, srvVars
  <2>3. /\ Inserted(b, l) /\ local[Worker].conv = conv /\ MaxSeq \in Nat /\ conv.time \in Nat
        /\ conv.time < b.from /\ b.to <= sent /\ Lone(Worker)
    BY <1>0, <2>1, <2>2, ActFacts DEF Busy, Behind, WayInv, Handed
  <2>4. CASE (b.from..b.to) \subseteq b.gone
    <3>1. conv' = conv
      BY <2>1, <2>4
    <3>2. \A i \in b.from..b.to : i \notin Active
      BY <2>3, <2>4 DEF Inserted, Active
    <3>3. Shows(l, 0, 0)
      BY <2>3, <3>2 DEF Inserted, Shows, Newest
    <3>4. PICK x : x = l
      OBVIOUS
    <3>5. Shows(x, 0, 0)'
      BY <2>2, <2>3, <3>3, <3>4, ShowsStays
    <3>6. Busy(Worker)'
      BY <2>2, <3>1, <3>4, <3>5 DEF Busy
    <3> QED BY <1>0, <2>2, <3>1, <3>6, ActFacts, Lands
  <2>5. CASE ~((b.from..b.to) \subseteq b.gone)
    <3> DEFINE S == (b.from..b.to) \ b.gone
               g == Greatest(S)
    <3>1. g \in b.from..b.to /\ g \notin b.gone /\ (\A i \in S : i <= g) /\ g \in Nat
      <4>1. S \in SUBSET (0..b.to) /\ S # {}
        BY <1>0, <2>5
      <4> HIDE DEF S
      <4>2. g \in S /\ \A i \in S : i <= g
        BY <1>0, <4>1, HasGreatest
      <4> QED BY <1>0, <4>2 DEF S
    <3>2. g > conv.time /\ g # 0 /\ g <= sent
      BY <1>0, <2>3, <3>1
    <3>3. PICK w, m : w = [n |-> g, rev |-> g \in b.rev] /\ m = g
      OBVIOUS
    <3>4. d.latest = w /\ d.time = m /\ w # NoLatest /\ m \in Nat
      BY <2>3, <3>1, <3>2, <3>3 DEF Diff, NoLatest
    <3> HIDE DEF d
    <3>5. conv'.latest = w /\ conv'.time = m
      BY <2>1, <2>5, <3>4
    <3>6. g \in Seqs /\ rows[g].st = "ok" /\ rows[g].rev = (g \in b.rev)
      BY <2>3, <3>1 DEF Inserted
    <3>7. \A i \in Active : i <= g
      <4> SUFFICES ASSUME NEW i \in Active PROVE i <= g
        OBVIOUS
      <4>1. i \in Seqs /\ i \in Nat /\ rows[i].st = "ok"
        BY <2>3 DEF Active, Seqs
      <4>2. CASE Behind(i)
        BY <1>0, <2>2, <3>1, <4>1, <4>2 DEF Behind
      <4>3. CASE i \in b.from..b.to
        <5>1. i \notin b.gone
          BY <2>3, <4>1, <4>3 DEF Inserted
        <5> QED BY <3>1, <4>3, <5>1
      <4> QED BY <1>0, <4>1, <4>2, <4>3 DEF PastInv
    <3> HIDE DEF g, S
    <3>8. Shows(w, 0, 0)
      <4>1. g \in Stored /\ g \in Active /\ w.n = g /\ w.rev = rows[g].rev
        BY <3>3, <3>6 DEF Stored, Active
      <4> QED BY <3>2, <3>7, <4>1 DEF Shows, IsRow, Newest, Excused
    <3>9. Shows(w, 0, 0)'
      BY <2>2, <2>3, <3>8, ShowsStays
    <3>10. Busy(Worker)'
      BY <2>2, <3>5, <3>9 DEF Busy
    <3>11. Busy(Doing)'
      <4>1. Busy(Doing)
        BY <1>0, NextScenario DEF LatestInv
      <4> QED BY <1>0, <2>2, <2>3, <3>10, <4>1, LoneFacts
    <3>12. Behind(m)'
      <4>1. queue' = queue /\ sent' = sent /\ queue \in Seq(Commands)
        BY <1>0, <2>1 DEF wayVars, TypeInv, WayType
      <4>2. \A i \in Batches : m < queue[i].batch.from
        <5>1. \A i \in Batches : b.to < queue[i].batch.from /\ queue[i].batch.from \in Nat
          BY <1>0, <2>2, <4>1, BatchTyped DEF PastInv, HeldFirst
        <5> QED BY <1>0, <3>1, <3>3, <5>1
      <4> QED BY <2>2, <3>2, <3>3, <4>1, <4>2 DEF Behind, Batches
    <3>13. Behind(conv.time)'
      BY <3>5, <3>12 DEF Behind
    <3> QED BY <3>11, <3>13 DEF LatestInv
  <2> QED BY <2>4, <2>5
<1> QED BY <1>1, <1>2, <1>3

(* A step of others, or one between places where the row of the conversation shows the latest message. *)
Calm == Alike /\ UNCHANGED <<conv, local>>
Plain(t) ==
  /\ Alike /\ conv'.latest = conv.latest /\ conv'.time = conv.time /\ Lone(t) /\ Still(t)
  /\ local[t].pc \notin Special /\ local'[t].pc \notin Special \cup {"insert", "latestRead"}

LEMMA NextLatest == ASSUME Grounds, [Next]_vars PROVE LatestInv'
<1> SUFFICES ASSUME serial, ~single PROVE LatestInv'
  BY NextScenario DEF LatestInv
<1>0. /\ TypeInv /\ WayInv /\ LatestInv /\ GroupInv /\ LocalsType /\ Worker \in Thread /\ App \in Thread
      /\ Worker # App /\ (\A t \in Thread : t = Worker \/ t = App) /\ queue \in Seq(Commands)
      /\ rows \in [Seqs -> Row] /\ (\A n \in Seqs : rows[n] \in Row) /\ conv \in Convs
      /\ srvRevoked \subseteq srvRevoked' /\ InOrder
  <2>1. TypeInv /\ WayInv /\ LatestInv /\ GroupInv /\ NotedInv /\ Sent /\ InOrder
    BY DEF Grounds, WayInv
  <2> QED BY <2>1, RevokedGrows
        DEF TypeInv, MemoryType, LocalsType, Thread, Worker, App, WayType, TableType
<1>a. ASSUME NEW cmd, Take(cmd)
      PROVE  /\ local[Worker].pc = "idle" /\ Lone(Worker)
             /\ Head(queue).cmd = cmd /\ Head(queue) = queue[1] /\ 1 \in 1..Len(queue)
  <2>1. local[Worker].pc = "idle" /\ local[App].pc = "idle"
    BY <1>a DEF Take, At
  <2>2. Head(queue).cmd = cmd /\ Head(queue) = queue[1] /\ Len(queue) >= 1
    BY <1>0, <1>a, TakeFacts
  <2>3. 1 \in 1..Len(queue)
    BY <1>0, <2>2
  <2> QED BY <1>0, <2>1, <2>2, <2>3 DEF Lone
<1>b. \A t \in Thread : local[t].pc # "idle" => Lone(t)
  BY ActFacts
<1>c. local[Worker].pc = "idle" => Lone(App)
  BY <1>0 DEF Lone
<1>d. Calm => LatestInv'
  BY <1>0, WorldStep DEF Calm
<1>e. \A t \in Thread : Plain(t) => LatestInv'
  BY <1>0, PlainStep DEF Plain
<1>f. \A c \in Convs : /\ \A u : [c EXCEPT !.unread = u].latest = c.latest
                       /\ \A u : [c EXCEPT !.unread = u].time = c.time
  BY DEF Convs
<1>g. \A r \in Row : /\ [r EXCEPT !.read = TRUE].st = r.st /\ [r EXCEPT !.read = TRUE].rev = r.rev
  BY DEF Row
<1>h. DoUnreadCount /\ local' = local => rows' = rows
  BY <1>0, <1>a, DoUnreadCountDoes
<1>1. ASSUME ClearedElsewhere \/ DeliverMsgs \/ DeliverNote \/ RequestSync PROVE LatestInv'
  <2>1. Calm
    BY <1>1, <1>0 DEF ClearedElsewhere, DeliverMsgs, DeliverNote, RequestSync, Event, Quiet, srvVars,
      wayVars, rowVars, memVars, scenVars, Calm, Alike
  <2> QED BY <2>1, <1>d
<1>2. ASSUME NEW own \in BOOLEAN, Publish(own) PROVE LatestInv'
  <2>1. Calm
    BY <1>2, <1>0 DEF Publish, Quiet, srvVars, wayVars, rowVars, memVars, scenVars, Calm, Alike
  <2> QED BY <2>1, <1>d
<1>3. ASSUME NEW n \in Seqs, RevokedElsewhere(n) \/ DeletedElsewhere(n) \/ ReadElsewhere(n) \/ PeerReads(n)
               PROVE LatestInv'
  <2>1. Calm
    BY <1>3, <1>0 DEF RevokedElsewhere, DeletedElsewhere, ReadElsewhere, PeerReads, Event, Quiet,
      MarkOnServer, srvVars, wayVars, rowVars, memVars, scenVars, Calm, Alike
  <2> QED BY <2>1, <1>d
<1>4. ASSUME DoMsgNew PROVE LatestInv'
  <2>1. Lone(Worker)
    BY <1>4, <1>0, <1>a, <1>b, <1>c, CounterFacts
  <2>2. Still(Worker) /\ local[Worker].pc \notin Special
          /\ local'[Worker].pc \notin Special \cup {"insert", "latestRead"}
    BY <1>4, <1>0, <1>a, IdleTyped, CounterFacts DEF Special, Goes, Keeps, Ends, Still
  <2>3. Alike
    BY <1>4, <1>0, <1>g, CounterFacts DEF Alike, rowVars
  <2>4. conv'.latest = conv.latest /\ conv'.time = conv.time
    BY <1>4, <1>0, <1>f, CounterFacts DEF rowVars
  <2> QED BY <1>0, <1>e, <2>1, <2>2, <2>3, <2>4 DEF Plain
<1>5. ASSUME SyncData PROVE LatestInv'
  <2>1. Lone(Worker)
    BY <1>5, <1>0, <1>a, <1>b, <1>c, SyncDataDoes
  <2>2. Still(Worker) /\ local[Worker].pc \notin Special
          /\ local'[Worker].pc \notin Special \cup {"insert", "latestRead"}
    BY <1>5, <1>0, <1>a, IdleTyped, SyncDataDoes DEF Special, Goes, Keeps, Ends, Still
  <2>3. Alike
    BY <1>5, <1>0, <1>g, SyncDataDoes DEF Alike, rowVars
  <2>4. conv'.latest = conv.latest /\ conv'.time = conv.time
    BY <1>5, <1>0, <1>f, SyncDataDoes DEF rowVars
  <2> QED BY <1>0, <1>e, <2>1, <2>2, <2>3, <2>4 DEF Plain
<1>6. ASSUME SyncAnswer PROVE LatestInv'
  <2>1. Lone(Worker)
    BY <1>6, <1>0, <1>a, <1>b, <1>c, SyncAnswerDoes
  <2>2. Still(Worker) /\ local[Worker].pc \notin Special
          /\ local'[Worker].pc \notin Special \cup {"insert", "latestRead"}
    BY <1>6, <1>0, <1>a, IdleTyped, SyncAnswerDoes DEF Special, Goes, Keeps, Ends, Still
  <2>3. Alike
    BY <1>6, <1>0, <1>g, SyncAnswerDoes DEF Alike, rowVars
  <2>4. conv'.latest = conv.latest /\ conv'.time = conv.time
    BY <1>6, <1>0, <1>f, SyncAnswerDoes DEF rowVars
  <2> QED BY <1>0, <1>e, <2>1, <2>2, <2>3, <2>4 DEF Plain
<1>7. ASSUME SyncUnread PROVE LatestInv'
  <2>1. Lone(Worker)
    BY <1>7, <1>0, <1>a, <1>b, <1>c, SyncUnreadDoes
  <2>2. Still(Worker) /\ local[Worker].pc \notin Special
          /\ local'[Worker].pc \notin Special \cup {"insert", "latestRead"}
    BY <1>7, <1>0, <1>a, IdleTyped, SyncUnreadDoes DEF Special, Goes, Keeps, Ends, Still
  <2>3. Alike
    BY <1>7, <1>0, <1>g, SyncUnreadDoes DEF Alike, rowVars
  <2>4. conv'.latest = conv.latest /\ conv'.time = conv.time
    BY <1>7, <1>0, <1>f, SyncUnreadDoes DEF rowVars
  <2> QED BY <1>0, <1>e, <2>1, <2>2, <2>3, <2>4 DEF Plain
<1>8. ASSUME DoRevokeMsg PROVE LatestInv'
  <2>1. Lone(Worker)
    BY <1>8, <1>0, <1>a, <1>b, <1>c, DoRevokeMsgDoes
  <2>2. Still(Worker) /\ local[Worker].pc \notin Special
          /\ local'[Worker].pc \notin Special \cup {"insert", "latestRead"}
    BY <1>8, <1>0, <1>a, IdleTyped, DoRevokeMsgDoes DEF Special, Goes, Keeps, Ends, Still
  <2>3. Alike
    BY <1>8, <1>0, <1>g, DoRevokeMsgDoes DEF Alike, rowVars
  <2>4. conv'.latest = conv.latest /\ conv'.time = conv.time
    BY <1>8, <1>0, <1>f, DoRevokeMsgDoes DEF rowVars
  <2> QED BY <1>0, <1>e, <2>1, <2>2, <2>3, <2>4 DEF Plain
<1>9. ASSUME DoDeleteMsgs PROVE LatestInv'
  <2>1. Lone(Worker)
    BY <1>9, <1>0, <1>a, <1>b, <1>c, DoDeleteMsgsDoes
  <2>2. Still(Worker) /\ local[Worker].pc \notin Special
          /\ local'[Worker].pc \notin Special \cup {"insert", "latestRead"}
    BY <1>9, <1>0, <1>a, IdleTyped, DoDeleteMsgsDoes DEF Special, Goes, Keeps, Ends, Still
  <2>3. Alike
    BY <1>9, <1>0, <1>g, DoDeleteMsgsDoes DEF Alike, rowVars
  <2>4. conv'.latest = conv.latest /\ conv'.time = conv.time
    BY <1>9, <1>0, <1>f, DoDeleteMsgsDoes DEF rowVars
  <2> QED BY <1>0, <1>e, <2>1, <2>2, <2>3, <2>4 DEF Plain
<1>10. ASSUME DoClearConversations PROVE LatestInv'
  <2>1. Lone(Worker)
    BY <1>10, <1>0, <1>a, <1>b, <1>c, DoClearConversationsDoes
  <2>2. Still(Worker) /\ local[Worker].pc \notin Special
          /\ local'[Worker].pc \notin Special \cup {"insert", "latestRead"}
    BY <1>10, <1>0, <1>a, IdleTyped, DoClearConversationsDoes DEF Special, Goes, Keeps, Ends, Still
  <2>3. Alike
    BY <1>10, <1>0, <1>g, DoClearConversationsDoes DEF Alike, rowVars
  <2>4. conv'.latest = conv.latest /\ conv'.time = conv.time
    BY <1>10, <1>0, <1>f, DoClearConversationsDoes DEF rowVars
  <2> QED BY <1>0, <1>e, <2>1, <2>2, <2>3, <2>4 DEF Plain
<1>11. ASSUME DoUnreadCount PROVE LatestInv'
  <2>1. CASE local' = local
    <3>0. Take("note")
      BY <1>11, <1>0, DoUnreadCountDoes
    <3>1. Lone(Worker) /\ Still(Worker) /\ local[Worker].pc = "idle"
      BY <1>a, <2>1, <3>0 DEF Still
    <3>2. Alike
      BY <1>11, <1>0, <1>h, <2>1 DEF Alike
    <3>3. conv' = conv \/ conv' = [conv EXCEPT !.unread = 0]
      BY <1>11, <1>0, DoUnreadCountDoes
    <3>4. conv'.latest = conv.latest /\ conv'.time = conv.time
      <4>1. CASE conv' = conv
        BY <4>1
      <4>2. CASE conv' = [conv EXCEPT !.unread = 0]
        <5>1. conv \in Convs
          BY <1>0
        <5> QED BY <1>f, <4>2, <5>1
      <4> QED BY <3>3, <4>1, <4>2
    <3> QED BY <1>0, <1>e, <2>1, <3>1, <3>2, <3>4 DEF Plain, Special
  <2> QED BY <1>11, <2>1, <1>0, DoUnreadCountDoes
<1>12. ASSUME UpdateLatest \/ SetUnreadCount \/ DoReadDrawing \/ UpdateMessage PROVE LatestInv'
  <2>1. ASSUME UpdateLatest PROVE FALSE
    BY <1>0, <1>a, <2>1, UpdateLatestDoes DEF GroupInv
  <2>2. ASSUME SetUnreadCount PROVE FALSE
    BY <1>0, <2>2, SetUnreadCountDoes DEF GroupInv, Odd
  <2>3. ASSUME DoReadDrawing PROVE FALSE
    BY <1>0, <1>a, <2>3, DoReadDrawingDoes DEF GroupInv
  <2>4. ASSUME UpdateMessage PROVE FALSE
    BY <1>0, <2>4, UpdateMessageDoes DEF GroupInv, Odd
  <2> QED BY <1>12, <2>1, <2>2, <2>3, <2>4
<1>13. ASSUME NEW t \in Thread, ClearHasRead(t) PROVE LatestInv'
  <2>1. Plain(t)
    BY <1>13, <1>0, <1>b, ClearHasReadDoes DEF Goes, GoesWith, Keeps, Ends, Still, srvVars, wayVars, rowVars,
      memVars, scenVars, Plain, Alike, Special
  <2> QED BY <1>0, <2>1, <1>e
<1>14. ASSUME MarkRows PROVE LatestInv'
  <2>1. Lone(App)
    BY <1>14, <1>0, <1>a, <1>b, <1>c, MarkRowsDoes
  <2>2. Still(App) /\ local[App].pc \notin Special
          /\ local'[App].pc \notin Special \cup {"insert", "latestRead"}
    BY <1>14, <1>0, <1>a, IdleTyped, MarkRowsDoes DEF Special, Goes, Keeps, Ends, Still
  <2>3. Alike
    BY <1>14, <1>0, <1>g, MarkRowsDoes DEF Alike, rowVars
  <2>4. conv'.latest = conv.latest /\ conv'.time = conv.time
    BY <1>14, <1>0, <1>f, MarkRowsDoes DEF rowVars
  <2> QED BY <1>0, <1>e, <2>1, <2>2, <2>3, <2>4 DEF Plain
<1>15. ASSUME MarkCount PROVE LatestInv'
  <2>1. Lone(App)
    BY <1>15, <1>0, <1>a, <1>b, <1>c, MarkCountDoes
  <2>2. Still(App) /\ local[App].pc \notin Special
          /\ local'[App].pc \notin Special \cup {"insert", "latestRead"}
    <3>1. local[App].pc \in {"markCount", "markDecr"} /\ (Goes(App, "latest") \/ Ends(App))
      BY <1>15, <1>0, MarkCountDoes
    <3>2. Still(App) /\ (local'[App].pc = "latest" \/ local'[App].pc = "idle")
      BY <3>1, IdleTyped DEF Goes, Keeps, Ends
    <3> QED BY <3>1, <3>2 DEF Special
  <2>3. Alike
    BY <1>15, <1>0, <1>g, MarkCountDoes DEF Alike, rowVars
  <2>4. conv'.latest = conv.latest /\ conv'.time = conv.time
    <3>1. conv' = [conv EXCEPT !.unread = 0]
      BY <1>15, <1>0, MarkCountDoes
    <3>2. conv \in Convs
      BY <1>0
    <3> QED BY <1>f, <3>1, <3>2
  <2> QED BY <1>0, <1>e, <2>1, <2>2, <2>3, <2>4 DEF Plain
<1>16. ASSUME MarkRow PROVE LatestInv'
  <2>1. Lone(App)
    BY <1>16, <1>0, <1>a, <1>b, <1>c, MarkRowDoes
  <2>2. Still(App) /\ local[App].pc \notin Special
          /\ local'[App].pc \notin Special \cup {"insert", "latestRead"}
    BY <1>16, <1>0, <1>a, IdleTyped, MarkRowDoes DEF Special, Goes, Keeps, Ends, Still
  <2>3. Alike
    BY <1>16, <1>0, <1>g, MarkRowDoes DEF Alike, rowVars
  <2>4. conv'.latest = conv.latest /\ conv'.time = conv.time
    BY <1>16, <1>0, <1>f, MarkRowDoes DEF rowVars
  <2> QED BY <1>0, <1>e, <2>1, <2>2, <2>3, <2>4 DEF Plain
<1>17. ASSUME MarkDecr PROVE LatestInv'
  <2>1. Lone(App)
    BY <1>17, <1>0, <1>a, <1>b, <1>c, MarkDecrDoes
  <2>2. Still(App) /\ local[App].pc \notin Special
          /\ local'[App].pc \notin Special \cup {"insert", "latestRead"}
    <3>1. local[App].pc \in {"markCount", "markDecr"} /\ (Goes(App, "latest") \/ Ends(App))
      BY <1>17, <1>0, MarkDecrDoes
    <3>2. Still(App) /\ (local'[App].pc = "latest" \/ local'[App].pc = "idle")
      BY <3>1, IdleTyped DEF Goes, Keeps, Ends
    <3> QED BY <3>1, <3>2 DEF Special
  <2>3. Alike
    BY <1>17, <1>0, <1>g, MarkDecrDoes DEF Alike, rowVars
  <2>4. conv'.latest = conv.latest /\ conv'.time = conv.time
    <3>1. conv' = [conv EXCEPT !.unread = Decreased(@)]
      BY <1>17, <1>0, MarkDecrDoes
    <3>2. conv \in Convs
      BY <1>0
    <3> QED BY <1>f, <3>1, <3>2
  <2> QED BY <1>0, <1>e, <2>1, <2>2, <2>3, <2>4 DEF Plain
<1>18. ASSUME MarkConversation PROVE LatestInv'
  <2>1. Lone(App)
    BY <1>18, <1>0, <1>a, <1>b, <1>c, MarkConversationDoes
  <2>2. Still(App) /\ local[App].pc \notin Special
          /\ local'[App].pc \notin Special \cup {"insert", "latestRead"}
    BY <1>18, <1>0, <1>a, IdleTyped, MarkConversationDoes DEF Special, Goes, Keeps, Ends, Still
  <2>3. Alike
    BY <1>18, <1>0, <1>g, MarkConversationDoes DEF Alike, rowVars
  <2>4. conv'.latest = conv.latest /\ conv'.time = conv.time
    BY <1>18, <1>0, <1>f, MarkConversationDoes DEF rowVars
  <2> QED BY <1>0, <1>e, <2>1, <2>2, <2>3, <2>4 DEF Plain
<1>19. ASSUME ClearMessages PROVE LatestInv'
  <2>1. Lone(App)
    BY <1>19, <1>0, <1>a, <1>b, <1>c, ClearMessagesDoes
  <2>2. Still(App) /\ local[App].pc \notin Special
          /\ local'[App].pc \notin Special \cup {"insert", "latestRead"}
    BY <1>19, <1>0, <1>a, IdleTyped, ClearMessagesDoes DEF Special, Goes, Keeps, Ends, Still
  <2>3. Alike
    BY <1>19, <1>0, <1>g, ClearMessagesDoes DEF Alike, rowVars
  <2>4. conv'.latest = conv.latest /\ conv'.time = conv.time
    BY <1>19, <1>0, <1>f, ClearMessagesDoes DEF rowVars
  <2> QED BY <1>0, <1>e, <2>1, <2>2, <2>3, <2>4 DEF Plain
<1>20. ASSUME NEW n \in Seqs, RevokeMessage(n) PROVE LatestInv'
  <2>1. Lone(App)
    BY <1>20, <1>0, <1>a, <1>b, <1>c, RevokeMessageDoes
  <2>2. Still(App) /\ local[App].pc \notin Special
          /\ local'[App].pc \notin Special \cup {"insert", "latestRead"}
    BY <1>20, <1>0, <1>a, IdleTyped, RevokeMessageDoes DEF Special, Goes, Keeps, Ends, Still
  <2>3. Alike
    BY <1>20, <1>0, <1>g, RevokeMessageDoes DEF Alike, rowVars
  <2>4. conv'.latest = conv.latest /\ conv'.time = conv.time
    BY <1>20, <1>0, <1>f, RevokeMessageDoes DEF rowVars
  <2> QED BY <1>0, <1>e, <2>1, <2>2, <2>3, <2>4 DEF Plain
<1>21. ASSUME NEW n \in Seqs, DeleteMessage(n) PROVE LatestInv'
  <2>1. Lone(App)
    BY <1>21, <1>0, <1>a, <1>b, <1>c, DeleteMessageDoes
  <2>2. Still(App) /\ local[App].pc \notin Special
          /\ local'[App].pc \notin Special \cup {"insert", "latestRead"}
    BY <1>21, <1>0, <1>a, IdleTyped, DeleteMessageDoes DEF Special, Goes, Keeps, Ends, Still
  <2>3. Alike
    BY <1>21, <1>0, <1>g, DeleteMessageDoes DEF Alike, rowVars
  <2>4. conv'.latest = conv.latest /\ conv'.time = conv.time
    BY <1>21, <1>0, <1>f, DeleteMessageDoes DEF rowVars
  <2> QED BY <1>0, <1>e, <2>1, <2>2, <2>3, <2>4 DEF Plain
<1>22. ASSUME NEW n \in Seqs, MarkMessage(n) PROVE LatestInv'
  <2>1. Lone(App)
    BY <1>22, <1>0, <1>a, <1>b, <1>c, MarkMessageDoes
  <2>2. Still(App) /\ local[App].pc \notin Special
          /\ local'[App].pc \notin Special \cup {"insert", "latestRead"}
    BY <1>22, <1>0, <1>a, IdleTyped, MarkMessageDoes DEF Special, Goes, Keeps, Ends, Still
  <2>3. Alike
    BY <1>22, <1>0, <1>g, MarkMessageDoes DEF Alike, rowVars
  <2>4. conv'.latest = conv.latest /\ conv'.time = conv.time
    BY <1>22, <1>0, <1>f, MarkMessageDoes DEF rowVars
  <2> QED BY <1>0, <1>e, <2>1, <2>2, <2>3, <2>4 DEF Plain
<1>23. ASSUME NEW t \in Thread, RevokeRow(t) \/ RevokeLatest(t) PROVE LatestInv'
  BY <1>23, LatestAtRevoke
<1>24. ASSUME NEW t \in Thread, DeleteRow(t) \/ DeleteCount(t) \/ DeleteLatest(t) PROVE LatestInv'
  BY <1>24, LatestAtDelete
<1>25. ASSUME NEW t \in Thread, WriteLatest(t) \/ ClearRows(t) \/ ClearConversation(t) \/ ReadLatest(t)
                \/ SetLatestRead(t) PROVE LatestInv'
  BY <1>25, LatestAtWrite
<1>26. ASSUME ReadConversation \/ InsertMessages \/ UpdateConversation PROVE LatestInv'
  BY <1>26, LatestAtInsert
<1>27. ASSUME UNCHANGED vars PROVE LatestInv'
  <2>1. Calm
    BY <1>27, <1>0 DEF vars, srvVars, wayVars, rowVars, memVars, scenVars, Calm, Alike
  <2> QED BY <2>1, <1>d
<1>28. CASE World
  BY <1>0, <1>28, <1>1, <1>2, <1>3, <1>4, <1>5, <1>6, <1>7, <1>8, <1>9, <1>10, <1>11, <1>12, <1>13, <1>14,
    <1>15, <1>16, <1>17, <1>18, <1>19, <1>20, <1>21, <1>22, <1>23, <1>24, <1>25, <1>26 DEF World
<1>29. CASE Work
  BY <1>0, <1>29, <1>1, <1>2, <1>3, <1>4, <1>5, <1>6, <1>7, <1>8, <1>9, <1>10, <1>11, <1>12, <1>13, <1>14,
    <1>15, <1>16, <1>17, <1>18, <1>19, <1>20, <1>21, <1>22, <1>23, <1>24, <1>25, <1>26 DEF Work, Either
<1>30. CASE Call
  BY <1>0, <1>30, <1>1, <1>2, <1>3, <1>4, <1>5, <1>6, <1>7, <1>8, <1>9, <1>10, <1>11, <1>12, <1>13, <1>14,
    <1>15, <1>16, <1>17, <1>18, <1>19, <1>20, <1>21, <1>22, <1>23, <1>24, <1>25, <1>26 DEF Call, Either
<1> QED BY <1>27, <1>28, <1>29, <1>30 DEF Next

LEMMA InitSettles == ASSUME Init PROVE NotedInv /\ RevokeInv /\ PastInv /\ GroupInv /\ LatestInv
<1>1. /\ notes = <<>> /\ queue = <<>> /\ sent = 0 /\ noted = 0 /\ srvRevoked = {} /\ conv = NoConv
      /\ \A t \in Thread : local[t] = Idle
  BY DEF Init
<1>2. MaxSeq \in Nat /\ Batches = {} /\ Stored = {} /\ Active = {} /\ Worker \in Thread /\ App \in Thread
  BY SizeAssumption, <1>1 DEF Init, Batches, Stored, Active, NoRow, Thread
<1>3. local[Worker].pc = "idle" /\ local[App].pc = "idle" /\ ~Holds /\ Idle.pc = "idle"
  BY <1>1, <1>2 DEF Idle, Holds
<1>4. NotedInv /\ RevokeInv
  BY <1>1 DEF NotedInv, RevokeInv
<1>5. PastInv
  BY <1>2, <1>3 DEF PastInv, HeldFirst, Stored
<1>6. GroupInv
  BY <1>1, <1>3 DEF GroupInv, Odd
<1>7. Behind(conv.time)
  BY <1>1, <1>2, <1>3 DEF Behind, NoConv
<1>8. Shows(conv.latest, 0, 0)
  BY <1>1, <1>2 DEF NoConv, NoLatest, Shows, IsRow, Newest, Excused
<1>9. Busy(Doing)
  BY <1>3, <1>8 DEF Busy, Doing
<1> QED BY <1>4, <1>5, <1>6, <1>7, <1>9 DEF LatestInv

LEMMA LatestCorrect == ASSUME TypeInv, LatestInv PROVE LatestSettles
<1> SUFFICES ASSUME Rest, serial, ~single
             PROVE  \E n \in Stored \cup {0} :
                      /\ conv.latest = LatestOf(n) /\ \A m \in Active : m <= n
                      /\ n \in Stored \ Active => \E m \in srvRevoked : m <= n
  BY DEF LatestSettles
<1>1. local[Doing].pc = "idle"
  BY DEF Rest, At, Doing, Thread
<1>2. Shows(conv.latest, 0, 0) /\ conv.latest \in Latests /\ 0 \notin Stored
  BY <1>1, LocalFacts, SizeAssumption DEF LatestInv, Busy, TypeInv, TableType, Stored, Seqs
<1>3. PICK l \in Latests : l = conv.latest
  BY <1>2
<1>4. l.n \in Stored \cup {0} /\ l = LatestOf(l.n)
  <2>1. CASE l.n = 0
    BY <1>2, <1>3, <2>1 DEF Shows, IsRow, LatestOf
  <2>2. CASE l.n # 0
    <3>1. l.n \in Stored /\ l.rev = rows[l.n].rev /\ l = [n |-> l.n, rev |-> l.rev]
      BY <1>2, <1>3, <2>2 DEF Shows, IsRow, Latests
    <3> QED BY <2>2, <3>1 DEF LatestOf
  <2> QED BY <2>1, <2>2
<1>5. \A m \in Active : m <= l.n
  BY <1>2, <1>3 DEF Shows, Newest
<1>6. l.n \in Stored \ Active => \E m \in srvRevoked : m <= l.n
  BY <1>2, <1>3 DEF Shows, Excused
<1> QED BY <1>3, <1>4, <1>5, <1>6

(***************************************************************************)
(* When nothing is under way, a revoked message of the table is shown as   *)
(* revoked, whoever revoked it and whatever receipts came in between, and  *)
(* a group's latest message is as the table has it with none newer that is *)
(* not deleted, if its handlers do not overlap (doMsgNew,                  *)
(* batchUpdateMessageList, revokeMessage, deleteMessageFromLocal,          *)
(* clearConversationAndDeleteAllMsg, doReadDrawing).                       *)
(***************************************************************************)
THEOREM ShownIsSettled == Spec => []ConversationSettles
<1> DEFINE Inv == TypeInv /\ WayInv /\ Apart /\ NotedInv /\ RevokeInv /\ PastInv /\ GroupInv /\ LatestInv
<1>1. Init => Inv
  BY InitCount, InitSettles
<1>2. Inv /\ [Next]_vars => Inv'
  <2> SUFFICES ASSUME Inv, [Next]_vars PROVE Inv'
    OBVIOUS
  <2>1. TypeInv' /\ WayInv' /\ Apart' /\ NotedInv' /\ RevokeInv'
    BY NextType, NextWayInv, NextApart, NextNoted, NextRevoke DEF WayInv
  <2>2. PastInv' /\ GroupInv' /\ LatestInv'
    BY NextPast, NextGroup, NextLatest DEF Grounds, Apart
  <2> QED BY <2>1, <2>2
<1>3. Inv => ConversationSettles
  BY RevokeCorrect, LatestCorrect DEF ConversationSettles
<1> QED BY <1>1, <1>2, <1>3, PTL DEF Spec
=============================================================================
