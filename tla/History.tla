------------------------------ MODULE History ------------------------------
(***************************************************************************)
(* Pages of a conversation's history (internal/conversation_msg:           *)
(* conversation.go, message_check.go).  A page is read from the local      *)
(* table; gaps inside it, before it and after it are pulled from the       *)
(* server.  When too few of its messages are valid, the query goes on from *)
(* its end.  One query at a time, of one conversation and view; an action  *)
(* ends before the next request, and between two of them the connection    *)
(* may be lost and messages may arrive.                                    *)
(*                                                                         *)
(* The local table and the lists read from it are sets of positions in the *)
(* order of send times: 3s is the row of message s of the server, 3s + 1 a *)
(* row [SEQ_DUP] of a second answer with s, and 3s + 2 a message of this   *)
(* device without sequence number, sent between s and s + 1.               *)
(***************************************************************************)
EXTENDS Integers, FiniteSets, FiniteSetsExt

CONSTANTS
  MaxSeq,     \* bound: messages of the server
  PageSize,   \* messages asked for (req.Count)
  Limit,      \* PullMsgNumForReadDiffusion
  MaxFaults,  \* bound: lost requests and connections
  Disorders   \* what may disturb the pages, see Disorder

ASSUME SizeAssumption ==
  MaxSeq \in Nat \ {0} /\ PageSize \in Nat \ {0} /\ Limit \in Nat \ {0} /\ MaxFaults \in Nat

(***************************************************************************)
(* Each of these lets pages have holes, with every request answered:       *)
(* "behind": the newest messages of the server are missing in the table;   *)
(* "racing": messages are stored while a query runs;                       *)
(* "unsent": a message that could not be sent is the newest row before a   *)
(* gap, so that what is pulled for the gap is newer than the page's end.   *)
(***************************************************************************)
Disorder == {"behind", "racing", "unsent"}

ASSUME DisordersAssumption == Disorders \subseteq Disorder

VARIABLES
  log,        \* the newest sequence number of the server, as maxSeqRecorder has it
  srvMin,     \* the oldest that this user may pull
  gone,       \* deleted messages
  rows,       \* the local table
  pending,    \* messages sent by this device whose number has not come back yet
  convMin, convMax,  \* MinSeq and MaxSeq of the conversation's row, 0 if unknown
  ends,       \* messagePullForwardEndSeqMap and messagePullReverseEndSeqMap, 0 if none
  online, faults,
  shown,      \* what the application shows
  clean,      \* it has taken no page with an error nor one that was read offline, and
              \* no request of a page of newer messages has failed
  q           \* the query

vars == <<log, srvMin, gone, rows, pending, convMin, convMax, ends, online, faults, shown,
          clean, q>>
dataVars == <<log, srvMin, gone, rows, pending>>
netVars  == <<online, faults>>
uiVars   == <<shown, clean>>

Seqs == 1..MaxSeq
Directions == {"forward", "reverse"}    \* to older, and to newer messages

Row(s)    == 3 * s
Dup(s)    == 3 * s + 1
Unsent(s) == 3 * s + 2

SeqOf(p)   == IF p % 3 = 2 THEN 0 ELSE p \div 3
Valid(p)   == p % 3 # 1 /\ ~(p % 3 = 0 /\ p \div 3 \in gone)     \* status < HasDeleted
SeqsOf(S)  == {SeqOf(p) : p \in S} \ {0}

(* The greatest and the least number in a list, 0 if there is none. *)
MaxSeqOf(S) == IF SeqsOf(S) = {} THEN 0 ELSE Max(SeqsOf(S))
MinSeqOf(S) == IF SeqsOf(S) = {} THEN 0 ELSE Min(SeqsOf(S))

Before(dir, a, b) == IF dir = "forward" THEN a > b ELSE a < b

(* Mutant: one too many. *)
FirstOf_OneMore(dir, n, S) == {a \in S : Cardinality({b \in S : Before(dir, b, a)}) <= n}

(* The first n of a list or of numbers, in the order of a direction. *)
FirstOf(dir, n, S) == {a \in S : Cardinality({b \in S : Before(dir, b, a)}) < n}

LastOf(dir, S) == IF S = {} THEN 0 ELSE IF dir = "forward" THEN Min(S) ELSE Max(S)

NoQuery == [pc |-> "idle", dir |-> "forward", from |-> 0, start |-> 0, need |-> 0, list |-> {},
            first |-> 0, valid |-> {}, err |-> FALSE, end |-> FALSE, skipped |-> FALSE]

(***************************************************************************)
(* Any part of the log may be in the table, the newest message among it.   *)
(* At most one message has no number: one that failed, or one that the     *)
(* server has and whose number is pending.                                 *)
(***************************************************************************)
Init ==
  /\ log \in Seqs /\ srvMin \in 1..Min({2, log})
  /\ gone \in SUBSET (srvMin..log)
  /\ \E stored \in SUBSET (srvMin..log), failed \in SUBSET (srvMin..log) :
       /\ pending \in SUBSET {s \in srvMin..log \ (stored \cup gone) : s + 1 \in stored}
       /\ "behind" \in Disorders \/ log \in stored
       /\ failed \subseteq stored /\ Cardinality(failed \cup pending) <= 1
       /\ "unsent" \in Disorders \/ \A s \in failed : s = log \/ s + 1 \in stored
       /\ rows = {Row(s) : s \in stored} \cup {Unsent(s) : s \in failed \cup pending}
  /\ convMin = 0 /\ convMax = 0 /\ ends = [dir \in Directions |-> 0]
  /\ online \in BOOLEAN /\ faults = 0 /\ shown = {} /\ clean = TRUE /\ q = NoQuery
-----------------------------------------------------------------------------
(* Around the query *)

(***************************************************************************)
(* The worker stores a message that a push or a synchronisation brings:    *)
(* one that is pending, or that was behind.                                *)
(***************************************************************************)
Store(s) ==
  /\ "racing" \in Disorders \/ (q.pc = "idle" /\ ("behind" \in Disorders \/ s \in pending))
  /\ s \in srvMin..log /\ Row(s) \notin rows /\ s \notin gone
  /\ rows' = (rows \ (IF s \in pending THEN {Unsent(s)} ELSE {})) \cup {Row(s)}
  /\ pending' = pending \ {s}
  /\ UNCHANGED <<log, srvMin, gone, convMin, convMax, ends, netVars, uiVars, q>>

Publish ==
  /\ "racing" \in Disorders \/ q.pc = "idle"
  /\ log < MaxSeq /\ log' = log + 1
  /\ rows' = IF "behind" \in Disorders THEN rows ELSE rows \cup {Row(log + 1)}
  /\ UNCHANGED <<srvMin, gone, pending, convMin, convMax, ends, netVars, uiVars, q>>

GoOffline ==
  /\ online /\ faults < MaxFaults /\ online' = FALSE /\ faults' = faults + 1
  /\ UNCHANGED <<dataVars, convMin, convMax, ends, uiVars, q>>

GoOnline ==
  /\ ~online /\ online' = TRUE
  /\ UNCHANGED <<dataVars, convMin, convMax, ends, faults, uiVars, q>>
-----------------------------------------------------------------------------
(* The application's calls *)

Ask(dir, start) ==
  q' = [NoQuery EXCEPT !.pc = "query", !.dir = dir, !.from = start, !.start = start,
                       !.need = PageSize]

(* Without a start message: both maps are cleared. *)
Enter ==
  /\ q.pc = "idle" /\ shown' = {} /\ clean' = TRUE
  /\ ends' = [dir \in Directions |-> 0] /\ Ask("forward", 0)
  /\ UNCHANGED <<dataVars, convMin, convMax, netVars>>

(***************************************************************************)
(* A message found by a search, which clears the maps of its view.  It has *)
(* a number: when one without a number is the oldest row, a page cannot    *)
(* know what is missing around it.                                         *)
(***************************************************************************)
Jump(p) ==
  /\ q.pc = "idle" /\ p \in rows /\ Valid(p) /\ SeqOf(p) # 0 /\ shown' = {p} /\ clean' = TRUE
  /\ ends' = [dir \in Directions |-> 0]
  /\ UNCHANGED <<dataVars, convMin, convMax, netVars, q>>

(* GetLatestValidServerMessage: the nearest row with a number on the other side. *)
Nearest(dir, p) ==
  LET S == {r \in rows : Before(dir, r, p) /\ SeqOf(r) # 0} IN
    IF S = {} THEN 0 ELSE SeqOf(LastOf(dir, S))

(* handleEndSeq *)
Page(dir) ==
  /\ q.pc = "idle" /\ shown # {}
  /\ LET start == LastOf(dir, shown) IN
       /\ start \in rows /\ Ask(dir, start)
       /\ ends' = IF ends[dir] # 0 THEN ends
                  ELSE [ends EXCEPT ![dir] =
                          IF SeqOf(start) # 0 THEN SeqOf(start) ELSE Nearest(dir, start)]
  /\ UNCHANGED <<dataVars, convMin, convMax, netVars, uiVars>>

(* The application takes a page, or drops a failed one to ask for it again. *)
Take ==
  /\ q.pc = "returned" /\ q' = NoQuery
  /\ shown' = shown \cup q.valid /\ clean' = (clean /\ ~q.err /\ ~q.skipped)
  /\ UNCHANGED <<dataVars, convMin, convMax, ends, netVars>>

Discard ==
  /\ q.pc = "returned" /\ q.err /\ q' = NoQuery /\ clean' = (clean /\ q.dir = "forward")
  /\ UNCHANGED <<dataVars, convMin, convMax, ends, netVars, shown>>
-----------------------------------------------------------------------------
(* Missing numbers and their request *)

(* Mutant: the trim keeps the same end for both directions. *)
LostSeqs_Trimmed(dir, lo, hi, have) == FirstOf("reverse", Limit, (lo..hi) \ have)

(* getLostSeqListWithLimitLength *)
LostSeqs(dir, lo, hi, have) == FirstOf(dir, Limit, (lo..hi) \ have)

(* errHandle: the list up to the first message that is not above all of the lost ones. *)
UpToBreak(list, lost) ==
  LET broken == {p \in list : SeqOf(p) # 0 /\ SeqOf(p) <= Max(lost)} IN
    {p \in list : \A b \in broken : Before(q.dir, p, b)}

RequestFails(lost, p) ==
  /\ ~online \/ faults < MaxFaults
  /\ faults' = IF online THEN faults + 1 ELSE faults
  /\ q' = IF q.start = 0 /\ ~online THEN [q EXCEPT !.pc = p, !.skipped = TRUE]
          ELSE [q EXCEPT !.pc = p, !.err = TRUE, !.list = UpToBreak(q.list, lost)]
  /\ UNCHANGED <<online, dataVars, convMin, convMax, ends, uiVars>>

(***************************************************************************)
(* pullMessageIntoTable, setConversationMinSeq and mergeSortedArrays.  A   *)
(* message the table has already goes in, and into the page, as deleted.   *)
(***************************************************************************)
RequestAnswered(lost, p) ==
  LET came    == lost \cap srvMin..log
      mine    == {s \in came \cap pending : Unsent(s) \in rows}
      updated == {Unsent(s) : s \in mine}
      pulled  == {IF Row(s) \in rows THEN Dup(s) ELSE Row(s) : s \in came}
      isEnd   == IF q.dir = "forward" THEN Min(lost) <= srvMin ELSE Max(lost) >= log
  IN
  /\ online
  /\ rows' = (rows \ updated) \cup pulled
  /\ pending' = pending \ mine
  /\ q' = [q EXCEPT !.pc = p, !.list = FirstOf(q.dir, q.need, (@ \ updated) \cup pulled)]
  /\ convMin' = IF isEnd /\ q.dir = "forward" THEN Max({convMin, srvMin}) ELSE convMin
  /\ convMax' = IF isEnd /\ q.dir = "reverse" /\ (convMax = 0 \/ log < convMax)
                THEN log ELSE convMax
  /\ UNCHANGED <<log, srvMin, gone, ends, netVars, uiVars>>

(* fetchAndMergeMissingMessages, if anything is missing; then on to step p. *)
Fetch(lost, p) ==
  \/ /\ lost = {} /\ q' = [q EXCEPT !.pc = p]
     /\ UNCHANGED <<dataVars, convMin, convMax, ends, netVars, uiVars>>
  \/ lost # {} /\ (RequestFails(lost, p) \/ RequestAnswered(lost, p))
-----------------------------------------------------------------------------
(* fetchMessagesWithGapCheck *)

(* Mutant: the start belongs to the page. *)
GetMessageList_Inclusive ==
  /\ q.pc = "query"
  /\ LET list == FirstOf(q.dir, q.need,
                   {p \in rows : q.start = 0 \/ p = q.start \/ Before(q.dir, q.start, p)}) IN
       q' = [q EXCEPT !.pc = "internal", !.list = list,
               !.first = IF q.dir = "forward" THEN MaxSeqOf(list) ELSE MinSeqOf(list)]
  /\ UNCHANGED <<dataVars, convMin, convMax, ends, netVars, uiVars>>

(* GetMessageList; thisStartSeq is taken from it before gaps are filled. *)
GetMessageList ==
  /\ q.pc = "query"
  /\ LET list == FirstOf(q.dir, q.need,
                   {p \in rows : q.start = 0 \/ Before(q.dir, q.start, p)}) IN
       q' = [q EXCEPT !.pc = "internal", !.list = list,
               !.first = IF q.dir = "forward" THEN MaxSeqOf(list) ELSE MinSeqOf(list)]
  /\ UNCHANGED <<dataVars, convMin, convMax, ends, netVars, uiVars>>

FillInternalGaps ==
  /\ q.pc = "internal"
  /\ Fetch(IF SeqsOf(q.list) = {} THEN {}
           ELSE LostSeqs(q.dir, MinSeqOf(q.list), MaxSeqOf(q.list), SeqsOf(q.list)), "between")

(* Mutant: the message next to the last page's end is left out. *)
FillInterBlockGaps_Short ==
  /\ q.pc = "between"
  /\ LET last == ends[q.dir] IN
       Fetch(IF last = 0 THEN {}
             ELSE IF q.dir = "forward" THEN LostSeqs(q.dir, q.first + 1, last - 2, {})
             ELSE LostSeqs(q.dir, last + 2, q.first - 1, {}), "end")

FillInterBlockGaps ==
  /\ q.pc = "between"
  /\ LET last == ends[q.dir] IN
       Fetch(IF last = 0 THEN {}
             ELSE IF q.dir = "forward" THEN LostSeqs(q.dir, q.first + 1, last - 1, {})
             ELSE LostSeqs(q.dir, last + 1, q.first - 1, {}), "end")

CanPullMin == IF convMin = 0 THEN 1 ELSE convMin      \* getConversationMinSeq
CurrentMax == IF convMax = 0 THEN log ELSE convMax    \* getConversationMaxSeq

(* Mutant: the end is reached one number before. *)
AtEnd_Early(list) ==
  IF q.dir = "forward" THEN MinSeqOf(list) <= CanPullMin + 1
  ELSE MaxSeqOf(list) + 1 >= CurrentMax

(* checkEndBlock of a short list: the end is reached. *)
AtEnd(list) ==
  IF q.dir = "forward" THEN MinSeqOf(list) <= CanPullMin
  ELSE \/ MaxSeqOf(list) >= CurrentMax
       \/ MaxSeqOf(list) = 0 /\ ends[q.dir] >= CurrentMax

FillEndBlock ==
  /\ q.pc = "end"
  /\ LET short == Cardinality(q.list) < q.need IN
       Fetch(IF ~short \/ AtEnd(q.list) THEN {}
             ELSE IF q.dir = "forward" THEN LostSeqs(q.dir, CanPullMin, MinSeqOf(q.list) - 1, {})
             ELSE LostSeqs(q.dir, MaxSeqOf(q.list) + 1, CurrentMax, {}), "collect")

(* Mutant: the next round starts where this one did. *)
Collect_SameStart ==
  /\ q.pc = "collect"
  /\ LET valid   == {p \in q.list : Valid(p)}
         missing == q.need - Cardinality(valid)
         end     == Cardinality(q.list) < q.need /\ AtEnd(q.list)
     IN q' = IF missing > 0 /\ ~end
             THEN [q EXCEPT !.pc = "query", !.valid = @ \cup valid, !.need = missing]
             ELSE [q EXCEPT !.pc = "returned", !.valid = @ \cup valid, !.end = end]
  /\ UNCHANGED <<dataVars, convMin, convMax, ends, netVars, uiVars>>

(* shouldFetchMoreMessagesNum, and the recursive call or the return. *)
Collect ==
  /\ q.pc = "collect"
  /\ LET valid   == {p \in q.list : Valid(p)}
         missing == q.need - Cardinality(valid)
         thisEnd == IF q.dir = "forward" THEN MinSeqOf(q.list) ELSE MaxSeqOf(q.list)
         end     == Cardinality(q.list) < q.need /\ AtEnd(q.list)
     IN
       /\ ends' = IF thisEnd # 0 /\ (ends[q.dir] = 0 \/ Before(q.dir, ends[q.dir], thisEnd))
                  THEN [ends EXCEPT ![q.dir] = thisEnd] ELSE ends
       /\ q' = IF missing > 0 /\ ~end
               THEN [q EXCEPT !.pc = "query", !.valid = @ \cup valid, !.need = missing,
                              !.start = LastOf(q.dir, q.list)]
               ELSE [q EXCEPT !.pc = "returned", !.valid = @ \cup valid, !.end = end]
  /\ UNCHANGED <<dataVars, convMin, convMax, netVars, uiVars>>
-----------------------------------------------------------------------------
Query ==
  GetMessageList \/ FillInternalGaps \/ FillInterBlockGaps \/ FillEndBlock \/ Collect

Application == Enter \/ (\E p \in rows : Jump(p)) \/ (\E dir \in Directions : Page(dir))
               \/ Take \/ Discard

Around == (\E s \in Seqs : Store(s)) \/ Publish \/ GoOffline \/ GoOnline

Next == Query \/ Application \/ Around

Spec == Init /\ [][Next]_vars

(* A call goes on by itself. *)
FairSpec == Spec /\ WF_vars(Query)
-----------------------------------------------------------------------------
Positions == 0..Unsent(MaxSeq)

TypeOK ==
  /\ log \in Seqs /\ srvMin \in 1..log /\ gone \subseteq 1..log
  /\ rows \subseteq Positions /\ pending \subseteq Seqs
  /\ convMin \in 0..MaxSeq /\ convMax \in 0..MaxSeq /\ ends \in [Directions -> 0..MaxSeq]
  /\ online \in BOOLEAN /\ faults \in 0..MaxFaults
  /\ shown \subseteq Positions /\ clean \in BOOLEAN
  /\ q \in [pc : {"idle", "query", "internal", "between", "end", "collect", "returned"},
            dir : Directions, from : Positions, start : Positions, need : 0..PageSize,
            list : SUBSET Positions, first : 0..MaxSeq, valid : SUBSET Positions,
            err : BOOLEAN, end : BOOLEAN, skipped : BOOLEAN]
  /\ q.pc \in {"internal", "between", "end", "collect"} => Cardinality(q.list) <= q.need

Returned == q.pc = "returned"
Good     == Returned /\ clean /\ ~q.err /\ ~q.skipped

(* The page, or what is shown with it, has message s. *)
Has(S, s) == s \in gone \/ Row(s) \in S \/ (s \in pending /\ Unsent(s) \in S)

(* Messages of the server between two of a set that are not deleted and not in it. *)
Holes(S) ==
  {s \in srvMin..log : ~Has(S, s) /\ (\E p \in S : SeqOf(p) \in 1..s) /\ (\E p \in S : SeqOf(p) > s)}

(***************************************************************************)
(* What is shown has no hole: pages that follow each other without an      *)
(* error give every message of the server between the oldest and the       *)
(* newest that is not deleted, although the table has gaps.                *)
(***************************************************************************)
NoHole == Good => Holes(shown \cup q.valid) = {}

(***************************************************************************)
(* A page with the end flag and without an error has reached it: nothing   *)
(* beyond its start is left on the server.                                 *)
(***************************************************************************)
EndIsTrue ==
  Good /\ q.end =>
    \A s \in srvMin..log : q.from = 0 \/ Before(q.dir, q.from, Row(s)) => Has(q.valid, s)

(***************************************************************************)
(* No message of the server is given twice, neither by two rounds of a     *)
(* query nor by two pages, and a round gives no more than it was asked     *)
(* for: unless a request of a page of newer messages has failed.  (One     *)
(* that failed to be sent is given twice when the gap is next to it.)      *)
(***************************************************************************)
NothingTwice ==
  q.pc = "collect" /\ clean /\ ~q.skipped /\ (q.dir = "forward" \/ ~q.err) =>
    LET valid == {p \in q.list : Valid(p)} IN
      /\ \A p \in valid \cap (q.valid \cup shown) : SeqOf(p) = 0
      /\ Cardinality(valid) <= q.need

(* Pages without an error give every message of what is shown, and give it once. *)
WholePages == NoHole /\ NothingTwice

(* Every query returns, whatever happens to the connection. *)
EveryQueryReturns == q.pc = "query" ~> Returned
=============================================================================
