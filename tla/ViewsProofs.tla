----------------------------- MODULE ViewsProofs -----------------------------
(***************************************************************************)
(* What the application is shown.                                          *)
(*                                                                         *)
(* The saved version of a list and the table it speaks of: type            *)
(* correctness, RowsFresh and NothingMissing of VersionSync, for every     *)
(* list, every kind of it and all the faults.                              *)
(*                                                                         *)
(* The claim of the saved version (SavedInv) is proved together with the   *)
(* claim its successor will make: while a response is applied, what is not *)
(* Taken from it yet is described by PendingInv, and for the rest RespInv  *)
(* says of the response's version what SavedInv says of the saved one.     *)
(* Save makes the one the other.  An item that the server changes again    *)
(* in the meantime is no longer covered by either.                         *)
(*                                                                         *)
(* Then two scenes of MCViews, for any platforms, calls, goroutines and    *)
(* bounds.  Typing: unless a message is swapped, the last one on its way   *)
(* and what is shown after it say what was said last (SaidInv).  Lookup:   *)
(* an entry is its row's unless the next write of the one writer is to     *)
(* make it so (EntryInv), there is one such writer, as far as no notice    *)
(* is missed (AloneInv), and a reader who met none knows the row           *)
(* (ReaderInv).                                                            *)
(***************************************************************************)
EXTENDS MCViews, FiniteSetTheorems, SequenceTheorems, TLAPS

(* A set of numbers has a least one. *)
LEMMA Least == ASSUME NEW S \in SUBSET Nat, S # {} PROVE \E m \in S : \A k \in S : m <= k
<1> DEFINE R == {ss \in Nat \X Nat : ss[1] < ss[2]}
<1>1. IsWellFoundedOn(R, Nat)
  BY NatLessThanWellFounded DEF OpToRel
<1> HIDE DEF R
<1>2. PICK m \in S : \A k \in S : ~(<<k, m>> \in R)
  BY <1>1, WFMin
<1>3. ASSUME NEW k \in S PROVE m <= k
  <2>1. <<k, m>> \in Nat \X Nat /\ <<k, m>> \notin R
    BY <1>2
  <2> QED BY <2>1 DEF R
<1> QED BY <1>3

-----------------------------------------------------------------------------
(* The items of a sequence *)

LEMMA NoneInEmpty == ToSet(<<>>) = {} /\ <<>> \in Seq(Ids)
  BY DEF ToSet

LEMMA OneInSingle == ASSUME NEW i \in Ids PROVE ToSet(<<i>>) = {i} /\ <<i>> \in Seq(Ids)
  BY DEF ToSet

LEMMA InSeq == ASSUME NEW q \in Seq(Ids) PROVE ToSet(q) \subseteq Ids
  BY DEF ToSet

LEMMA InAppend ==
  ASSUME NEW q \in Seq(Ids), NEW i \in Ids
  PROVE  Append(q, i) \in Seq(Ids) /\ ToSet(Append(q, i)) = ToSet(q) \cup {i}
<1>1. /\ Append(q, i) \in Seq(Ids) /\ Len(Append(q, i)) = Len(q) + 1 /\ Len(q) \in Nat
      /\ Append(q, i)[Len(q) + 1] = i
      /\ \A k \in 1..Len(q) : Append(q, i)[k] = q[k]
  OBVIOUS
<1>2. DOMAIN Append(q, i) = 1..Len(q) + 1 /\ DOMAIN q = 1..Len(q)
  BY <1>1
<1>3. 1..Len(q) + 1 = (1..Len(q)) \cup {Len(q) + 1}
  BY <1>1
<1> HIDE DEF ToSet
<1>4. ASSUME NEW j PROVE j \in ToSet(Append(q, i)) <=> j \in ToSet(q) \cup {i}
  BY <1>1, <1>2, <1>3 DEF ToSet
<1> QED BY <1>1, <1>4

LEMMA InConcat ==
  ASSUME NEW s \in Seq(Ids), NEW t \in Seq(Ids)
  PROVE  s \o t \in Seq(Ids) /\ ToSet(s \o t) = ToSet(s) \cup ToSet(t)
<1>1. /\ s \o t \in Seq(Ids) /\ Len(s \o t) = Len(s) + Len(t)
      /\ Len(s) \in Nat /\ Len(t) \in Nat
      /\ \A k \in 1..Len(s) + Len(t) : (s \o t)[k] = IF k <= Len(s) THEN s[k] ELSE t[k - Len(s)]
  BY ConcatProperties
<1>2. DOMAIN (s \o t) = 1..Len(s) + Len(t) /\ DOMAIN s = 1..Len(s) /\ DOMAIN t = 1..Len(t)
  BY <1>1
<1>3. ASSUME NEW j \in ToSet(s \o t) PROVE j \in ToSet(s) \cup ToSet(t)
  <2>1. PICK k \in 1..Len(s) + Len(t) : j = (s \o t)[k]
    BY <1>2 DEF ToSet
  <2>2. k <= Len(s) \/ k - Len(s) \in 1..Len(t)
    BY <1>1, <2>1
  <2>3. k <= Len(s) => k \in 1..Len(s)
    BY <2>1
  <2> QED BY <1>1, <1>2, <2>1, <2>2, <2>3 DEF ToSet
<1>4. ASSUME NEW j \in ToSet(s) PROVE j \in ToSet(s \o t)
  <2>1. PICK k \in 1..Len(s) : j = s[k]
    BY <1>2 DEF ToSet
  <2>2. k \in 1..Len(s) + Len(t) /\ (s \o t)[k] = j
    BY <1>1, <2>1
  <2> QED BY <1>2, <2>2 DEF ToSet
<1>5. ASSUME NEW j \in ToSet(t) PROVE j \in ToSet(s \o t)
  <2>1. PICK k \in 1..Len(t) : j = t[k]
    BY <1>2 DEF ToSet
  <2>2. k + Len(s) \in 1..Len(s) + Len(t) /\ ~(k + Len(s) <= Len(s)) /\ (k + Len(s)) - Len(s) = k
    BY <1>1, <2>1
  <2>3. (s \o t)[k + Len(s)] = j
    BY <1>1, <2>1, <2>2
  <2> QED BY <1>2, <2>2, <2>3 DEF ToSet
<1> QED BY <1>1, <1>3, <1>4, <1>5

(* SetToSeq lists the members of a set. *)
LEMMA InSetToSeq ==
  ASSUME NEW S \in SUBSET Ids
  PROVE  SetToSeq(S) \in Seq(Ids) /\ ToSet(SetToSeq(S)) = S
<1> DEFINE n == Cardinality(S)
           f == SetToSeq(S)
<1>1. IsFiniteSet(S) /\ n \in Nat /\ ExistsBijection(1..n, S)
  BY ListAssumption, FS_Subset, FS_CardinalityType
<1>2. \E g \in [1..n -> S] : IsInjective(g)
  BY <1>1 DEF ExistsBijection, Bijection, Injection
<1>3. f \in [1..n -> S] /\ IsInjective(f)
  BY <1>2 DEF SetToSeq
<1> HIDE DEF f
<1>4. f \in Injection(1..n, S)
  BY <1>3 DEF Injection
<1>5. IsFiniteSet(1..n) /\ Cardinality(1..n) = n
  BY <1>1, FS_Interval
<1>6. f \in Surjection(1..n, S)
  BY <1>1, <1>4, <1>5, FS_Injection
<1>7. f \in Seq(S) /\ Len(f) = n /\ DOMAIN f = 1..n
  BY <1>1, <1>3
<1>8. f \in Seq(Ids)
  BY <1>7, SeqMonotonic
<1>9. ToSet(f) = S
  BY <1>3, <1>6, <1>7 DEF ToSet, Surjection
<1> QED BY <1>8, <1>9 DEF f

(***************************************************************************)
(* Without takes out the members of S.  The function it defines exists: it *)
(* is built up to the length of q (the least length without it would have  *)
(* a predecessor with it).                                                 *)
(***************************************************************************)
Kept(g, q, S, n) ==
  /\ g \in [0..n -> Seq(Ids)] /\ g[0] = <<>>
  /\ \A k \in 1..n : g[k] = IF q[k] \in S THEN g[k - 1] ELSE Append(g[k - 1], q[k])

LEMMA KeptExists ==
  ASSUME NEW q \in Seq(Ids), NEW S, NEW n \in 0..Len(q)
  PROVE  \E g : Kept(g, q, S, n)
<1> DEFINE Bad == {m \in 0..Len(q) : ~\E g : Kept(g, q, S, m)}
<1>0. Len(q) \in Nat /\ \A k \in 1..Len(q) : q[k] \in Ids
  OBVIOUS
<1>1. SUFFICES ASSUME Bad # {} PROVE FALSE
  OBVIOUS
<1>2. PICK m \in Bad : \A k \in Bad : m <= k
  <2>1. Bad \in SUBSET Nat
    BY <1>0
  <2> HIDE DEF Bad
  <2> QED BY <1>1, <2>1, Least
<1>3. m # 0
  <2> DEFINE g == [k \in 0..0 |-> <<>>]
  <2>1. g \in [0..0 -> Seq(Ids)] /\ g[0] = <<>> /\ 1..0 = {}
    BY NoneInEmpty
  <2> HIDE DEF g
  <2>2. Kept(g, q, S, 0)
    BY <2>1 DEF Kept
  <2> QED BY <2>2
<1>4. m - 1 \in 0..Len(q) /\ m - 1 \notin Bad /\ m \in 1..Len(q)
  <2>1. m \in 0..Len(q)
    OBVIOUS
  <2>2. m \in 1..Len(q) /\ m - 1 \in 0..Len(q) /\ ~(m <= m - 1)
    BY <1>0, <1>3, <2>1
  <2> HIDE DEF Bad
  <2> QED BY <1>2, <2>2
<1>5. PICK g : Kept(g, q, S, m - 1)
  BY <1>4
<1> DEFINE last == IF q[m] \in S THEN g[m - 1] ELSE Append(g[m - 1], q[m])
           h == [k \in 0..m |-> IF k = m THEN last ELSE g[k]]
<1>6. g \in [0..m - 1 -> Seq(Ids)] /\ g[0] = <<>>
      /\ \A k \in 1..m - 1 : g[k] = IF q[k] \in S THEN g[k - 1] ELSE Append(g[k - 1], q[k])
  BY <1>5 DEF Kept
<1>7. last \in Seq(Ids)
  <2>1. g[m - 1] \in Seq(Ids) /\ q[m] \in Ids
    BY <1>0, <1>4, <1>6
  <2> QED BY <2>1, InAppend
<1>8. m \in Nat /\ \A k \in 0..m : k = m \/ k \in 0..m - 1
  BY <1>4
<1>9. h \in [0..m -> Seq(Ids)]
  <2> HIDE DEF last
  <2> QED BY <1>6, <1>7, <1>8
<1>10. h[0] = <<>>
  BY <1>4, <1>6
<1>11. ASSUME NEW k \in 1..m PROVE h[k] = IF q[k] \in S THEN h[k - 1] ELSE Append(h[k - 1], q[k])
  <2>1. k - 1 \in 0..m /\ k - 1 # m /\ k \in 0..m
    BY <1>8
  <2>2. h[k - 1] = g[k - 1]
    BY <2>1
  <2>3. CASE k = m
    <3>1. h[k] = last
      BY <2>1, <2>3
    <3> HIDE DEF h
    <3> QED BY <2>2, <2>3, <3>1
  <2>4. CASE k # m
    <3>1. k \in 1..m - 1 /\ h[k] = g[k]
      BY <1>8, <2>1, <2>4
    <3> HIDE DEF h
    <3> QED BY <1>6, <2>2, <3>1
  <2> QED BY <2>3, <2>4
<1>12. Kept(h, q, S, m)
  <2> HIDE DEF h
  <2> QED BY <1>9, <1>10, <1>11 DEF Kept
<1> QED BY <1>12

LEMMA KeptItems ==
  ASSUME NEW q \in Seq(Ids), NEW S, NEW g, Kept(g, q, S, Len(q))
  PROVE  g[Len(q)] \in Seq(Ids) /\ ToSet(g[Len(q)]) = ToSet(q) \ S
<1> DEFINE Upto(n) == {q[k] : k \in 1..n} \ S
           Bad == {n \in 0..Len(q) : ToSet(g[n]) # Upto(n)}
<1>0. /\ Len(q) \in Nat /\ \A k \in 1..Len(q) : q[k] \in Ids
      /\ g \in [0..Len(q) -> Seq(Ids)] /\ g[0] = <<>>
      /\ \A k \in 1..Len(q) : g[k] = IF q[k] \in S THEN g[k - 1] ELSE Append(g[k - 1], q[k])
  BY DEF Kept
<1>1. Bad = {}
  <2>1. SUFFICES ASSUME Bad # {} PROVE FALSE
    OBVIOUS
  <2>2. PICK m \in Bad : \A k \in Bad : m <= k
    <3>1. Bad \in SUBSET Nat
      BY <1>0
    <3> HIDE DEF Bad
    <3> QED BY <2>1, <3>1, Least
  <2>3. m # 0
    BY <1>0, NoneInEmpty
  <2>4. m - 1 \in 0..Len(q) /\ m - 1 \notin Bad /\ m \in 1..Len(q)
    <3>1. m \in 0..Len(q)
      OBVIOUS
    <3>2. m \in 1..Len(q) /\ m - 1 \in 0..Len(q) /\ ~(m <= m - 1)
      BY <1>0, <2>3, <3>1
    <3> HIDE DEF Bad
    <3> QED BY <2>2, <3>2
  <2>5. ToSet(g[m - 1]) = Upto(m - 1)
    BY <2>4
  <2>6. 1..m = (1..m - 1) \cup {m}
    BY <2>4
  <2>7. Upto(m) = Upto(m - 1) \cup ({q[m]} \ S)
    BY <2>6
  <2>8. g[m - 1] \in Seq(Ids) /\ q[m] \in Ids
    BY <1>0, <2>4
  <2>9. g[m] = IF q[m] \in S THEN g[m - 1] ELSE Append(g[m - 1], q[m])
    BY <1>0, <2>4
  <2> HIDE DEF Upto
  <2>10. ToSet(g[m]) = Upto(m)
    BY <2>5, <2>7, <2>8, <2>9, InAppend
  <2> QED BY <2>2, <2>10
<1>2. ToSet(g[Len(q)]) = Upto(Len(q))
  <2>1. Len(q) \in 0..Len(q)
    BY <1>0
  <2> HIDE DEF Upto
  <2> QED BY <1>1, <2>1
<1>3. ToSet(q) = {q[k] : k \in 1..Len(q)}
  BY <1>0 DEF ToSet
<1> QED BY <1>0, <1>2, <1>3

LEMMA InWithout ==
  ASSUME NEW q \in Seq(Ids), NEW S
  PROVE  Without(q, S) \in Seq(Ids) /\ ToSet(Without(q, S)) = ToSet(q) \ S
<1> DEFINE Body(g) == [n \in 0..Len(q) |-> IF n = 0 THEN <<>>
                                           ELSE IF q[n] \in S THEN g[n - 1]
                                           ELSE Append(g[n - 1], q[n])]
           f == CHOOSE g : g = Body(g)
<1>0. Len(q) \in Nat
  OBVIOUS
<1>1. PICK g : Kept(g, q, S, Len(q))
  <2>1. Len(q) \in 0..Len(q)
    BY <1>0
  <2> HIDE DEF Body
  <2> QED BY <2>1, KeptExists
<1>2. /\ g \in [0..Len(q) -> Seq(Ids)] /\ g[0] = <<>>
      /\ \A k \in 1..Len(q) : g[k] = IF q[k] \in S THEN g[k - 1] ELSE Append(g[k - 1], q[k])
  BY <1>1 DEF Kept
<1>3. g = Body(g)
  <2>1. \A n \in 0..Len(q) : g[n] = IF n = 0 THEN <<>>
                                    ELSE IF q[n] \in S THEN g[n - 1] ELSE Append(g[n - 1], q[n])
    <3>1. \A n \in 0..Len(q) : n = 0 \/ n \in 1..Len(q)
      BY <1>0
    <3> QED BY <1>2, <3>1
  <2> QED BY <1>2, <2>1
<1>4. f = Body(f)
  <2> HIDE DEF Body
  <2> QED BY <1>3
<1>5. Without(q, S) = f[Len(q)]
  BY DEF Without
<1> HIDE DEF f
<1>6. /\ DOMAIN f = 0..Len(q) /\ f[0] = <<>>
      /\ \A k \in 1..Len(q) : f[k] = IF q[k] \in S THEN f[k - 1] ELSE Append(f[k - 1], q[k])
  <2>1. \A k \in 0..Len(q) : f[k] = Body(f)[k]
    BY <1>4
  <2>2. 0 \in 0..Len(q) /\ \A k \in 1..Len(q) : k \in 0..Len(q) /\ k # 0
    BY <1>0
  <2>3. DOMAIN f = 0..Len(q)
    BY <1>4
  <2> QED BY <2>1, <2>2, <2>3
<1>7. ASSUME NEW n \in 0..Len(q), f[n] # g[n] PROVE FALSE
  <2> DEFINE Bad == {m \in 0..Len(q) : f[m] # g[m]}
  <2>1. PICK m \in Bad : \A k \in Bad : m <= k
    <3>1. Bad \in SUBSET Nat /\ Bad # {}
      BY <1>0, <1>7
    <3> HIDE DEF Bad
    <3> QED BY <3>1, Least
  <2>2. m # 0
    BY <1>2, <1>6
  <2>3. m - 1 \in 0..Len(q) /\ m - 1 \notin Bad /\ m \in 1..Len(q)
    BY <1>0, <2>1, <2>2
  <2>4. f[m - 1] = g[m - 1]
    BY <2>3
  <2>5. f[m] = g[m]
    BY <1>2, <1>6, <2>3, <2>4
  <2> QED BY <2>1, <2>5
<1>8. Len(q) \in 0..Len(q)
  BY <1>0
<1>9. f[Len(q)] = g[Len(q)]
  BY <1>7, <1>8
<1> QED BY <1>1, <1>5, <1>9, KeptItems

-----------------------------------------------------------------------------
(* Type correctness *)

(* A query that has read an item holds one of the list's. *)
FetchInv == fetched # NoFetch => fetched.id \in Ids /\ fetched.content \in Nat

(* A change of the list is one of an item. *)
Changes == [op : {"add", "set", "move", "del", "info"}, id : Ids \cup {"none"}, log : Nat]
ChangeInv == \A k \in 1..Version : hist[k].op # "info" => hist[k].id \in Ids

Typed == TypeOK /\ FetchInv /\ ChangeInv

LEMMA HistType ==
  ASSUME TypeServer
  PROVE  /\ hist \in Seq(Changes) /\ Version \in Nat
         /\ \A k \in 1..Version : hist[k] \in Changes
<1>1. hist \in Seq(Changes)
  BY DEF TypeServer, Changes
<1> QED BY <1>1 DEF Version

LEMMA NoPage == 0 \in 0..FullSyncLimit
<1>1. FullSyncLimit \in Nat
  BY BoundAssumption
<1> QED BY <1>1

LEMMA TypedInit == Init => Typed
<1> SUFFICES ASSUME Init PROVE Typed
  OBVIOUS
<1> USE DEF Init
<1>0. Len(InitList) \in Nat /\ \A k \in 1..Len(InitList) : InitList[k] \in Ids
  BY ListAssumption
<1>1. stamp \in [Ids -> Nat]
  <2>1. ASSUME NEW i \in ToSet(InitList)
        PROVE  (CHOOSE k \in 1..Len(InitList) : InitList[k] = i) \in Nat
    <3>1. \E k \in 1..Len(InitList) : InitList[k] = i
      BY ListAssumption DEF ToSet
    <3>2. (CHOOSE k \in 1..Len(InitList) : InitList[k] = i) \in 1..Len(InitList)
      BY <3>1
    <3> QED BY <1>0, <3>2
  <2> QED BY <2>1
<1>2. hist \in Seq([op : {"add", "set", "move", "del", "info"}, id : Ids \cup {"none"}, log : Nat])
  BY <1>0
<1>3. TypeServer
  BY <1>1, <1>2, ListAssumption, KindAssumption DEF TypeServer
<1>4. TypeDb
  BY NoneInEmpty DEF TypeDb, NoItems, Absent
<1>5. resp \in Responses
  BY DEF Responses, NoResponse, Response, NoItems, Absent
<1>6. newList \in [ids : Seq(Ids), fetched : BOOLEAN]
  BY NoneInEmpty
<1>7. TypeSync
  <2>1. /\ page \in 0..FullSyncLimit /\ failed \in BOOLEAN /\ local \subseteq Ids
        /\ pc \in {"idle", "full", "page", "fullid", "local", "apply", "save"}
    BY NoPage
  <2> QED BY <1>5, <1>6, <2>1 DEF TypeSync
<1>8. TypeQuery /\ FetchInv
  BY DEF TypeQuery, FetchInv, NoFetch, Absent
<1>9. ChangeInv
  <2>1. Version = Len(InitList)
    BY <1>0 DEF Version
  <2> QED BY <1>0, <2>1 DEF ChangeInv
<1> QED BY <1>3, <1>4, <1>7, <1>8, <1>9 DEF Typed, TypeOK

(* The operators keep to their types. *)
LEMMA NoResponseType ==
  /\ NoItems \in [Ids -> Int] /\ NoResponse \in Responses
  /\ NoResponse.items = NoItems /\ NoResponse.dels = {} /\ NoResponse.full = FALSE
  /\ NoResponse.id = 0 /\ NoResponse.version = 0
<1>1. NoItems \in [Ids -> Int]
  BY DEF NoItems, Absent
<1> QED BY <1>1 DEF NoResponse, Response, Responses

LEMMA AnswerType ==
  ASSUME TypeServer, TypeDb
  PROVE  /\ Answer \in Responses
         /\ Answer.id = versionID /\ Answer.version = Version
         /\ Answer.full <=> saved.id # versionID \/ saved.version < floor
         /\ Answer.full => Answer.items = NoItems /\ Answer.dels = {}
         /\ ~Answer.full => /\ Answer.items = Content({i \in Ids : stamp[i] > saved.version} \cap Listed)
                            /\ Answer.dels = {i \in Ids : stamp[i] > saved.version} \ Listed
<1> DEFINE changed == {i \in Ids : stamp[i] > saved.version}
           move == \E k \in saved.version + 1..Version : hist[k].op = "move"
           part == Response(FALSE, versionID, Version, Content(changed \cap Listed), changed \ Listed, move)
           all  == Response(TRUE, versionID, Version, NoItems, {}, FALSE)
<1>1. Version \in Nat /\ versionID \in Nat /\ move \in BOOLEAN
  BY DEF TypeServer, Version
<1>2. Content(changed \cap Listed) \in [Ids -> Int]
  BY DEF TypeServer, Content, Absent
<1>3. NoItems \in [Ids -> Int]
  BY NoResponseType
<1>4. Answer = IF saved.id # versionID \/ saved.version < floor THEN all ELSE part
  BY DEF Answer
<1>5. changed \ Listed \in SUBSET Ids
  OBVIOUS
<1> HIDE DEF move
<1>6. /\ part \in Responses /\ part.full = FALSE /\ part.id = versionID /\ part.version = Version
      /\ part.items = Content(changed \cap Listed) /\ part.dels = changed \ Listed
  <2> HIDE DEF changed
  <2> QED BY <1>1, <1>2, <1>5 DEF Response, Responses
<1>7. /\ all \in Responses /\ all.full = TRUE /\ all.id = versionID /\ all.version = Version
      /\ all.items = NoItems /\ all.dels = {}
  BY <1>1, <1>3 DEF Response, Responses
<1> HIDE DEF part, all
<1> QED BY <1>4, <1>6, <1>7

LEMMA PushedType ==
  ASSUME TypeServer, ChangeInv, NEW k \in 1..Version
  PROVE  /\ k \in Nat /\ hist[k] \in Changes
         /\ Pushed(k) \in Responses
         /\ Pushed(k).full = FALSE /\ Pushed(k).id = hist[k].log /\ Pushed(k).version = k
         /\ \A i \in Ids : Pushed(k).items[i] = IF i = hist[k].id /\ hist[k].op # "del" THEN k ELSE Absent
         /\ Pushed(k).dels = IF hist[k].op = "del" THEN {hist[k].id} ELSE {}
<1> DEFINE c == hist[k]
           items == [i \in Ids |-> IF i = c.id /\ c.op # "del" THEN k ELSE Absent]
           dels  == IF c.op = "del" THEN {c.id} ELSE {}
           r     == Response(FALSE, c.log, k, items, dels, c.op = "move")
<1>1. c \in Changes /\ k \in Nat
  BY HistType
<1>2. items \in [Ids -> Int] /\ dels \in SUBSET Ids /\ c.log \in Nat
  BY <1>1 DEF Absent, ChangeInv, Changes
<1>3. Pushed(k) = r
  BY DEF Pushed
<1>4. /\ r \in Responses /\ r.full = FALSE /\ r.id = c.log /\ r.version = k
      /\ r.items = items /\ r.dels = dels
  <2>1. (c.op = "move") \in BOOLEAN
    OBVIOUS
  <2> HIDE DEF items, dels
  <2> QED BY <1>1, <1>2, <2>1 DEF Response, Responses
<1> HIDE DEF r
<1>5. \A i \in Ids : items[i] = IF i = c.id /\ c.op # "del" THEN k ELSE Absent
  OBVIOUS
<1> HIDE DEF items
<1> QED BY <1>1, <1>3, <1>4, <1>5

LEMMA IncrementedType ==
  ASSUME TypeDb, NEW r \in Responses
  PROVE  /\ IncrementedIDs(r) \in Seq(Ids)
         /\ ToSet(IncrementedIDs(r)) = (ToSet(uidList) \ r.dels) \cup {i \in Ids : r.items[i] # Absent}
<1> DEFINE kept == Without(uidList, r.dels)
           more == {i \in Ids : r.items[i] # Absent} \ ToSet(kept)
<1>1. kept \in Seq(Ids) /\ ToSet(kept) = ToSet(uidList) \ r.dels
  BY InWithout DEF TypeDb
<1>2. SetToSeq(more) \in Seq(Ids) /\ ToSet(SetToSeq(more)) = more
  <2>1. more \in SUBSET Ids
    OBVIOUS
  <2> HIDE DEF more
  <2> QED BY <2>1, InSetToSeq
<1>3. IncrementedIDs(r) = kept \o SetToSeq(more)
  BY DEF IncrementedIDs
<1> HIDE DEF kept
<1>4. kept \o SetToSeq(more) \in Seq(Ids) /\ ToSet(kept \o SetToSeq(more)) = ToSet(kept) \cup more
  <2> HIDE DEF more
  <2> QED BY <1>1, <1>2, InConcat
<1> QED BY <1>1, <1>3, <1>4

LEMMA UnlockType == ASSUME Unlock PROVE TypeSync' /\ pc' = "idle" /\ resp' = NoResponse
<1>1. /\ newList' \in [ids : Seq(Ids), fetched : BOOLEAN]
      /\ page' \in 0..FullSyncLimit /\ failed' \in BOOLEAN /\ local' \subseteq Ids
      /\ pc' = "idle" /\ resp' = NoResponse
  BY NoneInEmpty, NoPage DEF Unlock
<1> QED BY <1>1, NoResponseType DEF TypeSync

(* What a change of the list leaves of it. *)
LEMMA ListAfter ==
  ASSUME Typed, NEW op, NEW i \in Ids, Change(op, i)
  PROVE  /\ list' \in Seq(Ids)
         /\ op \in {"add", "set", "move", "del"}
         /\ op = "add" => i \notin Listed
         /\ Listed' = IF op = "del" THEN Listed \ {i} ELSE Listed \cup {i}
<1>1. list \in Seq(Ids)
  BY DEF Typed, TypeOK, TypeServer
<1>2. CASE op = "add" /\ i \notin Listed /\ list' = Append(list, i)
  BY <1>1, <1>2, InAppend DEF Listed
<1>3. CASE op = "set" /\ i \in Listed /\ list' = list
  BY <1>1, <1>3 DEF Listed
<1>4. CASE op = "move" /\ i \in Listed /\ list' = <<i>> \o Without(list, {i})
  <2>1. Without(list, {i}) \in Seq(Ids) /\ ToSet(Without(list, {i})) = ToSet(list) \ {i}
    BY <1>1, InWithout
  <2>2. <<i>> \in Seq(Ids) /\ ToSet(<<i>>) = {i}
    BY OneInSingle
  <2>3. list' \in Seq(Ids) /\ ToSet(list') = {i} \cup (ToSet(list) \ {i})
    BY <1>4, <2>1, <2>2, InConcat
  <2> QED BY <1>4, <2>3 DEF Listed
<1>5. CASE op = "del" /\ i \in Listed /\ list' = Without(list, {i})
  <2>1. Without(list, {i}) \in Seq(Ids) /\ ToSet(Without(list, {i})) = ToSet(list) \ {i}
    BY <1>1, InWithout
  <2> QED BY <1>5, <2>1 DEF Listed
<1> QED BY <1>2, <1>3, <1>4, <1>5 DEF Change
-----------------------------------------------------------------------------
(* The inductive invariant *)

(***************************************************************************)
(* The server's history: the last change of an item is its stamp and says  *)
(* whether it is in the list; an item that was deleted and is in the list  *)
(* has been added since.                                                   *)
(***************************************************************************)
HistInv ==
  /\ \A k \in 1..Version : hist[k].log <= versionID
  /\ \A k \in 1..Version : hist[k].id \in Ids => k <= stamp[hist[k].id]
  /\ \A k \in 1..Version : hist[k].op = "del" /\ hist[k].id \in Listed =>
       \E m \in 1..Version : k < m /\ hist[m].id = hist[k].id /\ hist[m].op = "add"
  /\ \A i \in Ids :
       /\ stamp[i] <= Version
       /\ stamp[i] = 0 => i \notin Listed
       /\ stamp[i] # 0 => hist[stamp[i]].id = i /\ (i \in Listed <=> hist[stamp[i]].op # "del")

VersionInv ==
  /\ floor <= Version
  /\ saved.version <= Version /\ saved.id <= versionID
  /\ resp.version <= Version /\ resp.id <= versionID

(* The version of the response that is applied covers the last change of item i. *)
Counted(i) == resp.id = versionID /\ stamp[i] <= resp.version

Right(i) == i \in Listed \/ kind # "conversations" => i \in Listed /\ rows[i] = stamp[i]

(* Item i was not added to the list since. *)
AddsSaved(i) ==
  \A k \in 1..Version : hist[k].id = i /\ hist[k].op = "add" => k <= saved.version
AddsCounted(i) ==
  \A k \in 1..Version : hist[k].id = i /\ hist[k].op = "add" => k <= resp.version

(* What the saved version claims, *)
SavedInv ==
  /\ \A i \in Stored \ filled : Covered(i) => Right(i)
  /\ \A i \in Listed \ holes : Covered(i) => i \in Stored
  /\ \A i \in Listed : saved.id = versionID /\ AddsSaved(i) => i \in ToSet(uidList)

(* ... and what is left to apply of a response: the item as it is, or it has changed again; *)
Newer(i) == stamp[i] > resp.version /\ stamp[i] > saved.version
PendingInv ==
  /\ \A i \in Ids : resp.items[i] # Absent =>
       Newer(i) \/ (i \in Listed /\ resp.items[i] = stamp[i])
  /\ \A i \in resp.dels : (i \notin Listed \/ Newer(i)) /\ resp.items[i] = Absent
  /\ pc \in {"full", "page", "fullid", "save"} => resp.items = NoItems
  /\ pc \in {"page", "fullid", "save"} => resp.dels = {} \/ kind = "conversations"
  /\ pc = "full" => resp.dels = {} /\ resp.full
  /\ pc = "page" => holes = Ids
  /\ pc = "apply" => (Stored \ filled) \cap resp.dels \subseteq local

(* ... the rest is what the version of the response will claim. *)
Taken == {i \in Ids : resp.items[i] = Absent /\ (i \notin resp.dels \/ kind = "conversations")}
RespInv ==
  /\ pc \in {"page", "fullid", "local", "apply", "save"} =>
       \A i \in (Stored \ filled) \cap Taken : Counted(i) => Right(i)
  /\ pc \in {"fullid", "local", "apply", "save"} =>
       \A i \in (Listed \ holes) \cap Taken : Counted(i) => i \in Stored
  /\ pc = "save" \/ (pc \in {"local", "apply"} /\ ~resp.full) =>
       \A i \in Listed : resp.id = versionID /\ AddsCounted(i) => i \in ToSet(newList.ids)

IInv == HistInv /\ VersionInv /\ SavedInv /\ PendingInv /\ RespInv

LEMMA ListedIds == ASSUME TypeServer PROVE Listed \subseteq Ids /\ Stored \subseteq Ids
  BY InSeq DEF TypeServer, Listed, Stored

-----------------------------------------------------------------------------
(* The server's steps *)

(* A change is the newest version; it says all of its item and nothing of the others. *)
LEMMA ChangeFacts ==
  ASSUME Typed, HistInv, NEW op, NEW i \in Ids, Change(op, i)
  PROVE  /\ Version' = Version + 1 /\ Version \in Nat /\ UNCHANGED versionID
         /\ stamp' = [stamp EXCEPT ![i] = Version + 1]
         /\ Listed' = IF op = "del" THEN Listed \ {i} ELSE Listed \cup {i}
         /\ i \notin Listed => i \notin Listed' \/ op = "add"
         /\ \A k \in 1..Version : hist'[k] = hist[k]
         /\ hist'[Version + 1].id = i /\ hist'[Version + 1].op = op
         /\ hist'[Version + 1].log = versionID
         /\ TypeServer' /\ ChangeInv'
<1>1. Version \in Nat /\ hist \in Seq(Changes)
  BY HistType DEF Typed, TypeOK
<1> DEFINE c == [op |-> op, id |-> i, log |-> versionID]
<1>2. /\ hist' = Append(hist, c) /\ UNCHANGED <<kind, versionID, floor>>
      /\ stamp' = [stamp EXCEPT ![i] = Version + 1]
  BY DEF Change, NewVersion
<1>3. op \in {"add", "set", "move", "del"} /\ list' \in Seq(Ids) /\ (op = "add" => i \notin Listed)
      /\ Listed' = IF op = "del" THEN Listed \ {i} ELSE Listed \cup {i}
  BY ListAfter
<1>4. c \in Changes
  BY <1>3 DEF Changes, Typed, TypeOK, TypeServer
<1>5. /\ hist' \in Seq(Changes) /\ Version' = Version + 1
      /\ \A k \in 1..Version : hist'[k] = hist[k]
      /\ hist'[Version + 1] = c
  <2> HIDE DEF c
  <2> QED BY <1>1, <1>2, <1>4 DEF Version
<1>6. hist' \in Seq([op : {"add", "set", "move", "del", "info"}, id : Ids \cup {"none"}, log : Nat])
  BY <1>5 DEF Changes
<1>7. stamp' \in [Ids -> Nat] /\ versionID' \in Nat /\ floor' \in Nat
      /\ kind' \in {"members", "friends", "conversations"}
  BY <1>1, <1>2 DEF Typed, TypeOK, TypeServer
<1>8. TypeServer'
  BY <1>3, <1>6, <1>7 DEF TypeServer
<1>9. ChangeInv'
  <2> SUFFICES ASSUME NEW k \in 1..Version', hist'[k].op # "info" PROVE hist'[k].id \in Ids
    BY DEF ChangeInv
  <2>1. k \in 1..Version \/ k = Version + 1
    BY <1>1, <1>5
  <2> QED BY <1>5, <2>1 DEF Typed, ChangeInv
<1>10. i \notin Listed => i \notin Listed' \/ op = "add"
  BY ListAfter DEF Change
<1>11. c.id = i /\ c.op = op /\ c.log = versionID
  OBVIOUS
<1> HIDE DEF c
<1> QED BY <1>1, <1>2, <1>3, <1>5, <1>8, <1>9, <1>10, <1>11

LEMMA ChangeKeepsHist ==
  ASSUME Typed, HistInv, NEW op, NEW i \in Ids, Change(op, i)
  PROVE  HistInv'
<1> DEFINE new == Version + 1
<1>1. /\ Version' = new /\ Version \in Nat /\ UNCHANGED versionID
      /\ stamp' = [stamp EXCEPT ![i] = new]
      /\ Listed' = IF op = "del" THEN Listed \ {i} ELSE Listed \cup {i}
      /\ i \notin Listed => i \notin Listed' \/ op = "add"
      /\ \A k \in 1..Version : hist'[k] = hist[k]
      /\ hist'[new].id = i /\ hist'[new].op = op /\ hist'[new].log = versionID
  BY ChangeFacts
<1>2. \A k \in 1..Version' : k \in 1..Version \/ k = new
  BY <1>1
<1>3. \A k \in 1..Version : k \in 1..Version' /\ k < new /\ k \in Nat
  BY <1>1
<1>4. new \in 1..Version' /\ new # 0 /\ new \in Nat /\ Version <= new
  BY <1>1
<1>5. stamp \in [Ids -> Nat] /\ versionID \in Nat
  BY DEF Typed, TypeOK, TypeServer
<1> HIDE DEF new
<1>6. stamp'[i] = new /\ \A j \in Ids : j # i => stamp'[j] = stamp[j]
  BY <1>1, <1>5
<1>7. \A k \in 1..Version' : hist'[k].log <= versionID'
  BY <1>1, <1>2, <1>5 DEF HistInv
<1>8. ASSUME NEW k \in 1..Version', hist'[k].id \in Ids PROVE k <= stamp'[hist'[k].id]
  <2>1. CASE k = new
    BY <1>1, <1>4, <1>6, <2>1
  <2>2. CASE k \in 1..Version
    <3>1. k <= stamp[hist[k].id] /\ hist'[k] = hist[k]
      BY <1>1, <1>8, <2>2 DEF HistInv
    <3>2. CASE hist[k].id = i
      <4>1. k < new /\ stamp'[hist'[k].id] = new
        BY <1>3, <1>6, <2>2, <3>1, <3>2
      <4> QED BY <1>3, <1>4, <2>2, <4>1
    <3>3. CASE hist[k].id # i
      BY <1>6, <1>8, <3>1, <3>3
    <3> QED BY <3>2, <3>3
  <2> QED BY <1>2, <2>1, <2>2
<1>9. ASSUME NEW k \in 1..Version', hist'[k].op = "del", hist'[k].id \in Listed'
      PROVE  \E m \in 1..Version' : k < m /\ hist'[m].id = hist'[k].id /\ hist'[m].op = "add"
  <2>1. k \in 1..Version /\ hist'[k] = hist[k]
    BY <1>1, <1>2, <1>9
  <2>2. CASE hist[k].id \in Listed
    <3>1. PICK m \in 1..Version : k < m /\ hist[m].id = hist[k].id /\ hist[m].op = "add"
      BY <1>9, <2>1, <2>2 DEF HistInv
    <3>2. m \in 1..Version' /\ hist'[m] = hist[m]
      BY <1>1, <1>3
    <3> QED BY <2>1, <3>1, <3>2
  <2>3. CASE hist[k].id \notin Listed
    <3>1. hist[k].id = i /\ op = "add"
      BY <1>1, <1>9, <2>1, <2>3
    <3> QED BY <1>1, <1>3, <1>4, <2>1, <3>1
  <2> QED BY <2>2, <2>3
<1>10. ASSUME NEW j \in Ids
       PROVE  /\ stamp'[j] <= Version'
              /\ stamp'[j] = 0 => j \notin Listed'
              /\ stamp'[j] # 0 => hist'[stamp'[j]].id = j /\ (j \in Listed' <=> hist'[stamp'[j]].op # "del")
  <2>1. CASE j = i
    <3>1. stamp'[j] = new /\ stamp'[j] <= Version'
      BY <1>1, <1>4, <1>6, <2>1
    <3> QED BY <1>1, <1>4, <2>1, <3>1
  <2>2. CASE j # i
    <3>1. stamp'[j] = stamp[j] /\ (j \in Listed' <=> j \in Listed) /\ stamp[j] \in Nat
      BY <1>1, <1>5, <1>6, <2>2
    <3>2. /\ stamp[j] <= Version /\ (stamp[j] = 0 => j \notin Listed)
          /\ stamp[j] # 0 => hist[stamp[j]].id = j /\ (j \in Listed <=> hist[stamp[j]].op # "del")
      BY DEF HistInv
    <3>3. stamp[j] # 0 => stamp[j] \in 1..Version
      BY <1>1, <3>1, <3>2
    <3>4. stamp[j] <= Version'
      BY <1>1, <1>4, <3>1, <3>2
    <3> QED BY <1>1, <3>1, <3>2, <3>3, <3>4
  <2> QED BY <2>1, <2>2
<1> QED BY <1>7, <1>8, <1>9, <1>10 DEF HistInv

(* A change of the group's own data is the newest version, and one of no item. *)
LEMMA InfoKeepsHist ==
  ASSUME Typed, HistInv, ChangeInfo
  PROVE  /\ Version' = Version + 1 /\ Version \in Nat /\ UNCHANGED <<list, stamp, versionID>>
         /\ \A k \in 1..Version : hist'[k] = hist[k]
         /\ TypeServer' /\ ChangeInv' /\ HistInv'
<1>1. Version \in Nat /\ hist \in Seq(Changes)
  BY HistType DEF Typed, TypeOK
<1> DEFINE c == [op |-> "info", id |-> "none", log |-> versionID]
<1>2. hist' = Append(hist, c) /\ UNCHANGED <<kind, list, stamp, versionID, floor>>
  BY DEF ChangeInfo, NewVersion
<1>3. c \in Changes /\ c.op = "info" /\ c.id = "none" /\ c.log = versionID
  BY DEF Changes, Typed, TypeOK, TypeServer
<1> HIDE DEF c
<1>4. /\ hist' \in Seq(Changes) /\ Version' = Version + 1
      /\ \A k \in 1..Version : hist'[k] = hist[k]
      /\ hist'[Version + 1] = c
  BY <1>1, <1>2, <1>3 DEF Version
<1>5. TypeServer'
  <2>1. hist' \in Seq([op : {"add", "set", "move", "del", "info"}, id : Ids \cup {"none"}, log : Nat])
    BY <1>4 DEF Changes
  <2> QED BY <1>2, <2>1 DEF Typed, TypeOK, TypeServer
<1>6. \A k \in 1..Version' : k \in 1..Version \/ k = Version + 1
  BY <1>1, <1>4
<1>7. \A k \in 1..Version : k \in 1..Version'
  BY <1>1, <1>4
<1>8. ChangeInv'
  BY <1>3, <1>4, <1>6 DEF Typed, ChangeInv
<1>9. UNCHANGED Listed
  BY <1>2 DEF Listed
<1>10. "none" \notin Ids /\ versionID \in Nat /\ stamp \in [Ids -> Nat]
  BY ListAssumption DEF Typed, TypeOK, TypeServer
<1>11. ASSUME NEW k \in 1..Version'
       PROVE  hist'[k].log <= versionID' /\ (hist'[k].id \in Ids => k <= stamp'[hist'[k].id])
  <2>1. CASE k \in 1..Version
    <3>1. hist'[k] = hist[k] /\ UNCHANGED <<stamp, versionID>>
      BY <1>2, <1>4, <2>1
    <3>2. hist[k].log <= versionID /\ (hist[k].id \in Ids => k <= stamp[hist[k].id])
      BY <2>1 DEF HistInv
    <3> QED BY <3>1, <3>2
  <2>2. CASE k = Version + 1
    <3>1. hist'[k].log = versionID /\ hist'[k].id \notin Ids /\ versionID' = versionID
      BY <1>2, <1>3, <1>4, <1>10, <2>2
    <3> QED BY <1>10, <3>1
  <2> QED BY <1>6, <2>1, <2>2
<1>12. ASSUME NEW k \in 1..Version', hist'[k].op = "del", hist'[k].id \in Listed'
       PROVE  \E m \in 1..Version' : k < m /\ hist'[m].id = hist'[k].id /\ hist'[m].op = "add"
  <2>1. k \in 1..Version /\ hist'[k] = hist[k]
    BY <1>3, <1>4, <1>6, <1>12
  <2>2. PICK m \in 1..Version : k < m /\ hist[m].id = hist[k].id /\ hist[m].op = "add"
    BY <1>9, <1>12, <2>1 DEF HistInv
  <2> QED BY <1>4, <1>7, <2>1, <2>2
<1>13. ASSUME NEW j \in Ids
       PROVE  /\ stamp'[j] <= Version'
              /\ stamp'[j] = 0 => j \notin Listed'
              /\ stamp'[j] # 0 => hist'[stamp'[j]].id = j /\ (j \in Listed' <=> hist'[stamp'[j]].op # "del")
  <2>1. /\ stamp[j] <= Version /\ (stamp[j] = 0 => j \notin Listed)
        /\ stamp[j] # 0 => hist[stamp[j]].id = j /\ (j \in Listed <=> hist[stamp[j]].op # "del")
    BY DEF HistInv
  <2>2. stamp[j] # 0 => stamp[j] \in 1..Version
    BY <1>1, <1>10, <2>1
  <2>3. stamp[j] <= Version'
    BY <1>1, <1>4, <1>10, <2>1
  <2> QED BY <1>2, <1>4, <1>9, <2>1, <2>2, <2>3
<1> QED BY <1>1, <1>2, <1>4, <1>5, <1>8, <1>11, <1>12, <1>13 DEF HistInv

(***************************************************************************)
(* Whatever the server does: an item is as it was, or its stamp is a       *)
(* version that nobody has seen; what comes into the list was added then.  *)
(***************************************************************************)
LEMMA ServerFacts ==
  ASSUME Typed, HistInv, floor <= Version, Server
  PROVE  /\ UNCHANGED <<kind, dbVars, syncVars, fetched, histVars>>
         /\ Version \in Nat /\ Version' \in Nat /\ Version <= Version' /\ floor' <= Version'
         /\ versionID \in Nat /\ versionID' \in Nat /\ versionID <= versionID'
         /\ \A i \in Ids : \/ stamp'[i] = stamp[i] /\ (i \in Listed' <=> i \in Listed)
                           \/ Version < stamp'[i] /\ stamp'[i] \in Nat
         /\ \A i \in Listed' : \/ i \in Listed
                               \/ \E k \in 1..Version' : Version < k /\ hist'[k].id = i /\ hist'[k].op = "add"
         /\ \A k \in 1..Version : k \in 1..Version' /\ hist'[k] = hist[k]
         /\ TypeServer' /\ ChangeInv' /\ HistInv'
<1>1. Version \in Nat /\ versionID \in Nat /\ floor \in Nat /\ stamp \in [Ids -> Nat]
  BY HistType DEF Typed, TypeOK, TypeServer
<1>2. ASSUME NEW op, NEW i \in Ids, Change(op, i)
      PROVE  /\ UNCHANGED <<kind, versionID, floor, dbVars, syncVars, fetched, histVars>>
             /\ Version' = Version + 1
             /\ \A j \in Ids : \/ stamp'[j] = stamp[j] /\ (j \in Listed' <=> j \in Listed)
                               \/ Version < stamp'[j] /\ stamp'[j] \in Nat
             /\ \A j \in Listed' : \/ j \in Listed
                                   \/ \E k \in 1..Version' : Version < k /\ hist'[k].id = j /\ hist'[k].op = "add"
             /\ \A k \in 1..Version : hist'[k] = hist[k]
             /\ TypeServer' /\ ChangeInv' /\ HistInv'
  <2>1. UNCHANGED <<kind, versionID, floor, dbVars, syncVars, fetched, histVars>>
    BY <1>2 DEF Change, NewVersion
  <2>2. /\ Version' = Version + 1
        /\ stamp' = [stamp EXCEPT ![i] = Version + 1]
        /\ Listed' = IF op = "del" THEN Listed \ {i} ELSE Listed \cup {i}
        /\ i \notin Listed => i \notin Listed' \/ op = "add"
        /\ \A k \in 1..Version : hist'[k] = hist[k]
        /\ hist'[Version + 1].id = i /\ hist'[Version + 1].op = op
        /\ TypeServer' /\ ChangeInv'
    BY <1>2, ChangeFacts
  <2>3. HistInv'
    BY <1>2, ChangeKeepsHist
  <2>4. Version + 1 \in 1..Version' /\ Version < Version + 1 /\ Version + 1 \in Nat
    BY <1>1, <2>2
  <2>5. ASSUME NEW j \in Ids
        PROVE  \/ stamp'[j] = stamp[j] /\ (j \in Listed' <=> j \in Listed)
               \/ Version < stamp'[j] /\ stamp'[j] \in Nat
    BY <1>1, <2>2, <2>4
  <2>6. ASSUME NEW j \in Listed', j \notin Listed
        PROVE  \E k \in 1..Version' : Version < k /\ hist'[k].id = j /\ hist'[k].op = "add"
    <3>1. j = i /\ op = "add"
      BY <2>2, <2>6
    <3> QED BY <2>2, <2>4, <3>1
  <2> QED BY <2>1, <2>2, <2>3, <2>5, <2>6
<1>3. CASE \E op \in {"add", "set", "move", "del"}, i \in Ids : Change(op, i)
  <2>1. PICK op \in {"add", "set", "move", "del"}, i \in Ids : Change(op, i)
    BY <1>3
  <2>2. /\ UNCHANGED <<kind, versionID, floor, dbVars, syncVars, fetched, histVars>>
        /\ Version' = Version + 1
        /\ \A j \in Ids : \/ stamp'[j] = stamp[j] /\ (j \in Listed' <=> j \in Listed)
                          \/ Version < stamp'[j] /\ stamp'[j] \in Nat
        /\ \A j \in Listed' : \/ j \in Listed
                              \/ \E k \in 1..Version' : Version < k /\ hist'[k].id = j /\ hist'[k].op = "add"
        /\ \A k \in 1..Version : hist'[k] = hist[k]
        /\ TypeServer' /\ ChangeInv' /\ HistInv'
    BY <1>2, <2>1
  <2>3. \A k \in 1..Version : k \in 1..Version'
    BY <1>1, <2>2
  <2>4. Version' \in Nat /\ Version <= Version' /\ floor' <= Version' /\ versionID' \in Nat
        /\ versionID <= versionID'
    BY <1>1, <2>2
  <2> QED BY <1>1, <2>2, <2>3, <2>4
<1>4. CASE ChangeInfo
  <2>1. UNCHANGED <<kind, list, stamp, versionID, floor, dbVars, syncVars, fetched, histVars>>
    BY <1>4 DEF ChangeInfo, NewVersion
  <2>2. /\ Version' = Version + 1
        /\ \A k \in 1..Version : hist'[k] = hist[k]
        /\ TypeServer' /\ ChangeInv' /\ HistInv'
    BY <1>4, InfoKeepsHist
  <2>3. UNCHANGED Listed
    BY <2>1 DEF Listed
  <2>4. \A k \in 1..Version : k \in 1..Version'
    BY <1>1, <2>2
  <2>5. Version' \in Nat /\ Version <= Version' /\ floor' <= Version' /\ versionID' \in Nat
        /\ versionID <= versionID'
    BY <1>1, <2>1, <2>2
  <2> QED BY <1>1, <2>1, <2>2, <2>3, <2>4, <2>5
<1>5. CASE Compact \/ NewVersionLog
  <2>1. UNCHANGED <<kind, list, stamp, hist, dbVars, syncVars, fetched, histVars>>
    BY <1>5 DEF Compact, NewVersionLog
  <2>2. UNCHANGED <<Listed, Version>>
    BY <2>1 DEF Listed, Version
  <2>3. floor' \in Nat /\ versionID' \in Nat /\ floor' <= Version' /\ versionID <= versionID'
    BY <1>1, <1>5, <2>2 DEF Compact, NewVersionLog
  <2>4. TypeServer' /\ ChangeInv'
    BY <2>1, <2>2, <2>3 DEF Typed, TypeOK, TypeServer, ChangeInv
  <2>5. \A k \in 1..Version : hist[k].log \in Nat
    BY HistType DEF Typed, TypeOK, Changes
  <2>6. \A k \in 1..Version : hist[k].log <= versionID'
    BY <1>1, <2>3, <2>5 DEF HistInv
  <2>7. HistInv'
    BY <2>1, <2>2, <2>6 DEF HistInv
  <2> QED BY <1>1, <2>1, <2>2, <2>3, <2>4, <2>7
<1> QED BY <1>3, <1>4, <1>5 DEF Server

LEMMA SavedType ==
  ASSUME Typed
  PROVE  /\ saved \in [id : Nat, version : Nat] /\ saved.id \in Nat /\ saved.version \in Nat
         /\ resp \in Responses /\ resp.id \in Nat /\ resp.version \in Nat
         /\ resp.items \in [Ids -> Int] /\ resp.dels \in SUBSET Ids
         /\ rows \in [Ids -> Int] /\ stamp \in [Ids -> Nat] /\ versionID \in Nat /\ Version \in Nat
         /\ Listed \subseteq Ids /\ Stored \subseteq Ids
  BY HistType, ListedIds DEF Typed, TypeOK, TypeServer, TypeDb, TypeSync, Responses

(* The client's claims stand whatever the server does. *)
LEMMA ServerStep ==
  ASSUME Typed, IInv, Server
  PROVE  Typed' /\ IInv'
<1>1. /\ UNCHANGED <<kind, dbVars, syncVars, fetched, histVars>>
      /\ Version \in Nat /\ Version' \in Nat /\ Version <= Version' /\ floor' <= Version'
      /\ versionID \in Nat /\ versionID' \in Nat /\ versionID <= versionID'
      /\ \A i \in Ids : \/ stamp'[i] = stamp[i] /\ (i \in Listed' <=> i \in Listed)
                        \/ Version < stamp'[i] /\ stamp'[i] \in Nat
      /\ \A i \in Listed' : \/ i \in Listed
                            \/ \E k \in 1..Version' : Version < k /\ hist'[k].id = i /\ hist'[k].op = "add"
      /\ \A k \in 1..Version : k \in 1..Version' /\ hist'[k] = hist[k]
      /\ TypeServer' /\ ChangeInv' /\ HistInv'
  BY ServerFacts DEF IInv, VersionInv
<1>2. /\ UNCHANGED <<kind, rows, uidList, saved, pc, resp, newList, local, page, failed>>
      /\ UNCHANGED <<fetched, filled, holes>>
  BY <1>1 DEF dbVars, syncVars, histVars
<1>3. Typed'
  BY <1>1, <1>2 DEF Typed, TypeOK, TypeDb, TypeSync, TypeQuery, FetchInv
<1>4. /\ saved.id \in Nat /\ saved.version \in Nat /\ resp.id \in Nat /\ resp.version \in Nat
      /\ saved.version <= Version /\ saved.id <= versionID
      /\ resp.version <= Version /\ resp.id <= versionID
      /\ resp.dels \in SUBSET Ids /\ Listed \subseteq Ids /\ stamp \in [Ids -> Nat]
      /\ Listed' \subseteq Ids /\ Stored \subseteq Ids
  <2>1. /\ saved.version <= Version /\ saved.id <= versionID
        /\ resp.version <= Version /\ resp.id <= versionID
    BY DEF IInv, VersionInv
  <2>2. list' \in Seq(Ids)
    BY <1>1 DEF TypeServer
  <2>3. Listed' \subseteq Ids
    BY <2>2, InSeq DEF Listed
  <2> QED BY <2>1, <2>3, SavedType
<1>5. VersionInv'
  BY <1>1, <1>2, <1>4 DEF VersionInv
<1>6. UNCHANGED <<Stored, Taken>>
  BY <1>2 DEF Stored, Taken
<1>7. ASSUME NEW i \in Ids, Covered(i)' \/ Counted(i)'
      PROVE  stamp'[i] = stamp[i] /\ (i \in Listed' <=> i \in Listed)
  <2>1. ~(Version < stamp'[i] /\ stamp'[i] \in Nat)
    <3>1. stamp'[i] <= saved.version \/ stamp'[i] <= resp.version
      BY <1>2, <1>7 DEF Covered, Counted
    <3> QED BY <1>1, <1>4, <3>1
  <2> QED BY <1>1, <2>1
<1>8. ASSUME NEW i \in Ids, Covered(i)'
      PROVE  Covered(i) /\ (i \in Listed' <=> i \in Listed) /\ (Right(i) => Right(i)')
  <2>1. stamp'[i] = stamp[i] /\ (i \in Listed' <=> i \in Listed)
    BY <1>7, <1>8
  <2>2. saved.id = versionID
    BY <1>1, <1>2, <1>4, <1>8 DEF Covered
  <2> QED BY <1>2, <1>8, <2>1, <2>2 DEF Covered, Right
<1>9. ASSUME NEW i \in Ids, Counted(i)'
      PROVE  Counted(i) /\ (i \in Listed' <=> i \in Listed) /\ (Right(i) => Right(i)')
  <2>1. stamp'[i] = stamp[i] /\ (i \in Listed' <=> i \in Listed)
    BY <1>7, <1>9
  <2>2. resp.id = versionID
    BY <1>1, <1>2, <1>4, <1>9 DEF Counted
  <2> QED BY <1>2, <1>9, <2>1, <2>2 DEF Counted, Right
<1>10. ASSUME NEW i \in Listed', AddsSaved(i)' \/ AddsCounted(i)'
       PROVE  i \in Listed
  <2> SUFFICES ASSUME NEW k \in 1..Version', Version < k, hist'[k].id = i, hist'[k].op = "add"
               PROVE  FALSE
    BY <1>1
  <2>1. k <= saved.version \/ k <= resp.version
    BY <1>2, <1>10 DEF AddsSaved, AddsCounted
  <2>2. k \in Nat
    BY <1>1
  <2> QED BY <1>1, <1>4, <2>1, <2>2
<1>11. ASSUME NEW i PROVE (AddsSaved(i)' => AddsSaved(i)) /\ (AddsCounted(i)' => AddsCounted(i))
  BY <1>1, <1>2 DEF AddsSaved, AddsCounted
<1>12. SavedInv'
  <2>1. \A i \in Stored' \ filled' : Covered(i)' => Right(i)'
    BY <1>2, <1>4, <1>6, <1>8 DEF IInv, SavedInv
  <2>2. \A i \in Listed' \ holes' : Covered(i)' => i \in Stored'
    BY <1>2, <1>4, <1>6, <1>8 DEF IInv, SavedInv
  <2>3. ASSUME NEW i \in Listed', saved'.id = versionID', AddsSaved(i)' PROVE i \in ToSet(uidList')
    <3>1. saved.id = versionID
      BY <1>1, <1>2, <1>4, <2>3
    <3>2. i \in Listed /\ AddsSaved(i)
      BY <1>10, <1>11, <2>3
    <3> QED BY <1>2, <3>1, <3>2 DEF IInv, SavedInv
  <2> QED BY <2>1, <2>2, <2>3 DEF SavedInv
<1>13. ASSUME NEW i \in Ids
       PROVE  Newer(i)' \/ (stamp'[i] = stamp[i] /\ (i \in Listed' <=> i \in Listed))
  <2>1. Version < stamp'[i] /\ stamp'[i] \in Nat => stamp'[i] > saved.version /\ stamp'[i] > resp.version
    BY <1>1, <1>4
  <2> QED BY <1>1, <1>2, <2>1 DEF Newer
<1>14. ASSUME NEW i \in Ids, Newer(i) PROVE Newer(i)'
  BY <1>2, <1>13, <1>14 DEF Newer
<1>15. PendingInv'
  <2>1. ASSUME NEW i \in Ids, resp'.items[i] # Absent
        PROVE  Newer(i)' \/ (i \in Listed' /\ resp'.items[i] = stamp'[i])
    BY <1>2, <1>13, <1>14, <2>1 DEF IInv, PendingInv
  <2>2. ASSUME NEW i \in resp'.dels PROVE (i \notin Listed' \/ Newer(i)') /\ resp'.items[i] = Absent
    <3>1. i \in Ids
      BY <1>2, <1>4
    <3> QED BY <1>2, <1>13, <1>14, <3>1, <2>2 DEF IInv, PendingInv
  <2> QED BY <1>2, <1>6, <2>1, <2>2 DEF IInv, PendingInv
<1>16. RespInv'
  <2>1. pc' \in {"page", "fullid", "local", "apply", "save"} =>
          \A i \in (Stored' \ filled') \cap Taken' : Counted(i)' => Right(i)'
    BY <1>2, <1>4, <1>6, <1>9 DEF IInv, RespInv
  <2>2. pc' \in {"fullid", "local", "apply", "save"} =>
          \A i \in (Listed' \ holes') \cap Taken' : Counted(i)' => i \in Stored'
    BY <1>2, <1>4, <1>6, <1>9 DEF IInv, RespInv
  <2>3. ASSUME pc' = "save" \/ (pc' \in {"local", "apply"} /\ ~resp'.full),
               NEW i \in Listed', resp'.id = versionID', AddsCounted(i)'
        PROVE  i \in ToSet(newList'.ids)
    <3>1. resp.id = versionID
      BY <1>1, <1>2, <1>4, <2>3
    <3>2. i \in Listed /\ AddsCounted(i)
      BY <1>10, <1>11, <2>3
    <3> QED BY <1>2, <2>3, <3>1, <3>2 DEF IInv, RespInv
  <2> QED BY <2>1, <2>2, <2>3 DEF RespInv
<1> QED BY <1>1, <1>3, <1>5, <1>12, <1>15, <1>16 DEF IInv

-----------------------------------------------------------------------------
(* The synchronisation *)

(* Where a synchronisation ends, nothing is left to apply. *)
LEMMA UnlockStep ==
  ASSUME Typed, IInv, Unlock, UNCHANGED <<serverVars, saved>>, SavedInv'
  PROVE  IInv'
<1>1. /\ pc' = "idle" /\ resp' = NoResponse
      /\ UNCHANGED <<kind, list, hist, stamp, versionID, floor, saved>>
  BY DEF Unlock, serverVars
<1>2. UNCHANGED <<Listed, Version>>
  BY <1>1 DEF Listed, Version
<1>3. HistInv'
  BY <1>1, <1>2 DEF IInv, HistInv
<1>4. VersionInv'
  <2>1. resp'.version = 0 /\ resp'.id = 0 /\ Version \in Nat /\ versionID \in Nat
    BY <1>1, NoResponseType, SavedType
  <2> QED BY <1>1, <1>2, <2>1 DEF IInv, VersionInv
<1>5. PendingInv'
  <2>1. resp'.dels = {} /\ \A i \in Ids : resp'.items[i] = Absent
    BY <1>1, NoResponseType DEF NoItems
  <2> QED BY <1>1, <2>1 DEF PendingInv
<1>6. RespInv'
  BY <1>1 DEF RespInv
<1> QED BY <1>3, <1>4, <1>5, <1>6 DEF IInv

(* The database as it was. *)
LEMMA SavedFrame ==
  ASSUME Typed, IInv, UNCHANGED <<serverVars, dbVars, histVars>>
  PROVE  /\ HistInv' /\ SavedInv' /\ TypeServer' /\ TypeDb' /\ ChangeInv'
         /\ UNCHANGED <<kind, list, hist, stamp, versionID, floor, rows, uidList, saved, filled, holes>>
         /\ UNCHANGED <<Listed, Stored, Version>>
         /\ \A i : UNCHANGED <<Right(i), Covered(i)>>
<1>1. UNCHANGED <<kind, list, hist, stamp, versionID, floor, rows, uidList, saved, filled, holes>>
  BY DEF serverVars, dbVars, histVars
<1>2. UNCHANGED <<Listed, Stored, Version>>
  BY <1>1 DEF Listed, Stored, Version
<1>3. \A i : UNCHANGED <<Right(i), Covered(i), AddsSaved(i)>>
  BY <1>1, <1>2 DEF Right, Covered, AddsSaved
<1>4. HistInv' /\ SavedInv'
  BY <1>1, <1>2, <1>3 DEF IInv, HistInv, SavedInv
<1>5. TypeServer' /\ TypeDb' /\ ChangeInv'
  BY <1>1, <1>2 DEF Typed, TypeOK, TypeServer, TypeDb, ChangeInv
<1> QED BY <1>1, <1>2, <1>3, <1>4, <1>5

(* An item that was added since the saved version has changed since. *)
LEMMA AddsBefore ==
  ASSUME Typed, IInv, NEW i \in Ids, stamp[i] <= saved.version
  PROVE  AddsSaved(i)
<1> SUFFICES ASSUME NEW k \in 1..Version, hist[k].id = i PROVE k <= saved.version
  BY DEF AddsSaved
<1>1. k <= stamp[i]
  BY DEF IInv, HistInv
<1>2. k \in Nat /\ stamp[i] \in Nat /\ saved.version \in Nat
  BY SavedType
<1> QED BY <1>1, <1>2

(* The increments since the saved version, or the answer that there is too much. *)
LEMMA StartStep ==
  ASSUME Typed, IInv, IncrementalSync, UNCHANGED <<serverVars, dbVars, fetched, histVars>>
  PROVE  Typed' /\ IInv'
<1> DEFINE changed == {i \in Ids : stamp[i] > saved.version}
<1>0. TypeServer /\ TypeDb
  BY DEF Typed, TypeOK
<1>1. /\ pc' = (IF Answer.full THEN "full" ELSE "local") /\ resp' = Answer
      /\ newList' = [ids |-> IF Answer.full THEN uidList ELSE IncrementedIDs(Answer), fetched |-> FALSE]
      /\ UNCHANGED <<local, page, failed>>
  BY DEF IncrementalSync
<1>2. /\ Answer \in Responses /\ Answer.id = versionID /\ Answer.version = Version
      /\ Answer.full <=> saved.id # versionID \/ saved.version < floor
      /\ Answer.full => Answer.items = NoItems /\ Answer.dels = {}
      /\ ~Answer.full => Answer.items = Content(changed \cap Listed) /\ Answer.dels = changed \ Listed
  BY <1>0, AnswerType
<1>3. /\ HistInv' /\ SavedInv' /\ TypeServer' /\ TypeDb' /\ ChangeInv'
      /\ UNCHANGED <<kind, list, hist, stamp, versionID, floor, rows, uidList, saved, filled, holes>>
      /\ UNCHANGED <<Listed, Stored, Version>>
      /\ \A i : UNCHANGED <<Right(i), Covered(i)>>
  BY SavedFrame
<1>4. IncrementedIDs(Answer) \in Seq(Ids)
      /\ ToSet(IncrementedIDs(Answer)) = (ToSet(uidList) \ Answer.dels) \cup {i \in Ids : Answer.items[i] # Absent}
  BY <1>0, <1>2, IncrementedType
<1>5. Typed'
  <2>1. newList' \in [ids : Seq(Ids), fetched : BOOLEAN]
    BY <1>0, <1>1, <1>4 DEF TypeDb
  <2>2. TypeSync'
    BY <1>1, <1>2, <2>1 DEF Typed, TypeOK, TypeSync
  <2>3. TypeQuery' /\ FetchInv'
    BY <1>3 DEF Typed, TypeOK, TypeQuery, FetchInv
  <2> QED BY <1>3, <2>2, <2>3 DEF Typed, TypeOK
<1>6. /\ saved.version \in Nat /\ versionID \in Nat /\ Version \in Nat /\ stamp \in [Ids -> Nat]
      /\ Listed \subseteq Ids /\ Stored \subseteq Ids
  BY SavedType
<1>7. VersionInv'
  BY <1>1, <1>2, <1>3, <1>6 DEF IInv, VersionInv
<1>8. CASE Answer.full
  <2>1. \A i \in Ids : resp'.items[i] = Absent
    BY <1>1, <1>2, <1>8 DEF NoItems
  <2>2. PendingInv'
    BY <1>1, <1>2, <1>8, <2>1 DEF PendingInv
  <2>3. RespInv'
    BY <1>1, <1>8 DEF RespInv
  <2> QED BY <1>3, <1>5, <1>7, <2>2, <2>3 DEF IInv
<1>9. CASE ~Answer.full
  <2>1. /\ pc' = "local" /\ ~resp'.full /\ resp'.id = versionID /\ saved.id = versionID
        /\ resp'.items = Content(changed \cap Listed) /\ resp'.dels = changed \ Listed
        /\ newList'.ids = IncrementedIDs(Answer)
    BY <1>1, <1>2, <1>9
  <2>2. \A i \in Ids : resp'.items[i] = IF i \in changed \cap Listed THEN stamp[i] ELSE Absent
    BY <2>1 DEF Content
  <2>3. \A i \in Ids : stamp[i] # Absent
    BY <1>6 DEF Absent
  <2>4. PendingInv'
    <3>1. \A i \in Ids : resp'.items[i] # Absent => i \in Listed' /\ resp'.items[i] = stamp'[i]
      BY <1>3, <2>2
    <3>2. \A i \in resp'.dels : i \notin Listed' /\ resp'.items[i] = Absent
      BY <1>3, <2>1, <2>2
    <3> QED BY <2>1, <3>1, <3>2 DEF PendingInv
  <2>5. ASSUME NEW i \in Taken' PROVE Covered(i) \/ (i \notin Listed /\ kind = "conversations")
    <3>1. i \in Ids /\ resp'.items[i] = Absent /\ (i \notin resp'.dels \/ kind = "conversations")
      BY <1>3, <2>5 DEF Taken
    <3>2. i \notin changed \/ (i \notin Listed /\ kind = "conversations")
      BY <2>1, <2>2, <2>3, <3>1
    <3>3. i \notin changed => stamp[i] <= saved.version
      BY <1>6, <3>1
    <3> QED BY <2>1, <3>2, <3>3 DEF Covered
  <2>6. \A i \in (Stored' \ filled') \cap Taken' : Right(i)'
    <3>1. \A i \in Stored \ filled : Covered(i) => Right(i)
      BY DEF IInv, SavedInv
    <3>2. \A i : i \notin Listed /\ kind = "conversations" => Right(i)
      BY DEF Right
    <3> QED BY <1>3, <2>5, <3>1, <3>2
  <2>7. \A i \in (Listed' \ holes') \cap Taken' : i \in Stored'
    BY <1>3, <2>5 DEF IInv, SavedInv
  <2>8. ASSUME NEW i \in Listed' PROVE i \in ToSet(newList'.ids)
    <3>1. i \in Listed /\ i \in Ids
      BY <1>3, <1>6
    <3>2. CASE i \in changed
      BY <1>1, <1>4, <2>1, <2>2, <2>3, <3>1, <3>2
    <3>3. CASE i \notin changed
      <4>1. stamp[i] <= saved.version
        BY <1>6, <3>1, <3>3
      <4>2. i \in ToSet(uidList)
        BY <2>1, <3>1, <4>1, AddsBefore DEF IInv, SavedInv
      <4> QED BY <1>1, <1>4, <2>1, <3>3, <4>2
    <3> QED BY <3>2, <3>3
  <2>9. RespInv'
    BY <2>1, <2>6, <2>7, <2>8 DEF RespInv
  <2> QED BY <1>3, <1>5, <1>7, <2>4, <2>9 DEF IInv
<1> QED BY <1>8, <1>9

(* The next version, as its notification tells it. *)
LEMMA PushedStep ==
  ASSUME Typed, IInv, NEW k \in 1..Version, OnlineSync(k), Follows(k)
  PROVE  Typed' /\ IInv'
<1> DEFINE c == hist[k]
           tail == IF c.op = "add" THEN <<c.id>> ELSE <<>>
<1>0. TypeServer /\ TypeDb /\ ChangeInv
  BY DEF Typed, TypeOK
<1>1. /\ resp' = Pushed(k) /\ pc' = "local" /\ kind = "members"
      /\ newList' = [ids |-> Without(uidList, resp'.dels) \o tail, fetched |-> FALSE]
      /\ UNCHANGED <<local, page, failed, serverVars, dbVars, fetched, histVars>>
      /\ c.log = saved.id /\ k = saved.version + 1
  BY DEF OnlineSync, Follows
<1>2. /\ k \in Nat /\ c \in Changes
      /\ Pushed(k) \in Responses
      /\ Pushed(k).full = FALSE /\ Pushed(k).id = c.log /\ Pushed(k).version = k
      /\ \A i \in Ids : Pushed(k).items[i] = IF i = c.id /\ c.op # "del" THEN k ELSE Absent
      /\ Pushed(k).dels = IF c.op = "del" THEN {c.id} ELSE {}
  BY <1>0, PushedType
<1>3. /\ HistInv' /\ SavedInv' /\ TypeServer' /\ TypeDb' /\ ChangeInv'
      /\ UNCHANGED <<kind, list, hist, stamp, versionID, floor, rows, uidList, saved, filled, holes>>
      /\ UNCHANGED <<Listed, Stored, Version>>
      /\ \A i : UNCHANGED <<Right(i), Covered(i)>>
  BY <1>1, SavedFrame
<1>4. /\ saved.version \in Nat /\ versionID \in Nat /\ Version \in Nat /\ stamp \in [Ids -> Nat]
      /\ Listed \subseteq Ids /\ Stored \subseteq Ids /\ uidList \in Seq(Ids)
  BY <1>0, SavedType DEF TypeDb
<1>5. c.op # "info" => c.id \in Ids
  BY <1>0 DEF ChangeInv
<1> HIDE DEF c
<1>6. /\ newList'.ids \in Seq(Ids) /\ newList'.fetched = FALSE
      /\ ToSet(newList'.ids) = (ToSet(uidList) \ resp'.dels) \cup (IF c.op = "add" THEN {c.id} ELSE {})
  <2>1. Without(uidList, resp'.dels) \in Seq(Ids)
        /\ ToSet(Without(uidList, resp'.dels)) = ToSet(uidList) \ resp'.dels
    BY <1>4, InWithout
  <2>2. tail \in Seq(Ids) /\ ToSet(tail) = IF c.op = "add" THEN {c.id} ELSE {}
    <3>1. CASE c.op = "add"
      BY <1>5, <3>1, OneInSingle
    <3>2. CASE c.op # "add"
      BY <3>2, NoneInEmpty
    <3> QED BY <3>1, <3>2
  <2> HIDE DEF tail
  <2>3. /\ Without(uidList, resp'.dels) \o tail \in Seq(Ids)
        /\ ToSet(Without(uidList, resp'.dels) \o tail) = ToSet(Without(uidList, resp'.dels)) \cup ToSet(tail)
    BY <2>1, <2>2, InConcat
  <2> QED BY <1>1, <2>1, <2>2, <2>3
<1>7. Typed'
  <2>1. newList' \in [ids : Seq(Ids), fetched : BOOLEAN]
    BY <1>1, <1>6
  <2>2. TypeSync'
    BY <1>1, <1>2, <2>1 DEF Typed, TypeOK, TypeSync
  <2>3. TypeQuery' /\ FetchInv'
    BY <1>1, <1>3 DEF Typed, TypeOK, TypeQuery, FetchInv
  <2> QED BY <1>3, <2>2, <2>3 DEF Typed, TypeOK
<1>8. VersionInv'
  <2>1. resp'.version = k /\ k <= Version /\ resp'.id = saved.id
    BY <1>1, <1>2, <1>4
  <2> QED BY <1>3, <2>1 DEF IInv, VersionInv
(* The item of the change: it is as the change left it, or has changed again. *)
<1>9. ASSUME c.id \in Ids
      PROVE  \/ stamp[c.id] > k /\ stamp[c.id] > saved.version
             \/ stamp[c.id] = k /\ (c.id \in Listed <=> c.op # "del")
  <2>1. k <= stamp[c.id] /\ stamp[c.id] \in Nat
    BY <1>4, <1>9 DEF IInv, HistInv, c
  <2>2. stamp[c.id] = k => (c.id \in Listed <=> c.op # "del")
    BY <1>2, <1>9 DEF IInv, HistInv, c
  <2> QED BY <1>1, <1>2, <1>4, <2>1, <2>2
<1>10. PendingInv'
  <2>1. \A i \in Ids : Newer(i)' <=> stamp[i] > k /\ stamp[i] > saved.version
    BY <1>1, <1>2, <1>3 DEF Newer
  <2>2. ASSUME NEW i \in Ids, resp'.items[i] # Absent
        PROVE  Newer(i)' \/ (i \in Listed' /\ resp'.items[i] = stamp'[i])
    <3>1. i = c.id /\ c.op # "del" /\ resp'.items[i] = k
      BY <1>1, <1>2, <2>2
    <3> QED BY <1>3, <1>9, <2>1, <2>2, <3>1
  <2>3. ASSUME NEW i \in resp'.dels PROVE (i \notin Listed' \/ Newer(i)') /\ resp'.items[i] = Absent
    <3>1. i = c.id /\ c.op = "del"
      BY <1>1, <1>2, <2>3
    <3>2. i \in Ids /\ resp'.items[i] = Absent
      BY <1>1, <1>2, <1>5, <3>1
    <3> QED BY <1>3, <1>9, <2>1, <3>1, <3>2
  <2> QED BY <1>1, <2>2, <2>3 DEF PendingInv
(* The others are covered by the saved version already. *)
<1>11. ASSUME NEW i \in Taken', Counted(i)' PROVE Covered(i)
  <2>1. i \in Ids /\ resp'.items[i] = Absent /\ i \notin resp'.dels
    BY <1>1, <1>3, <1>11 DEF Taken
  <2>2. i # c.id
    <3>1. k # Absent
      BY <1>2 DEF Absent
    <3> QED BY <1>1, <1>2, <2>1, <3>1
  <2>3. stamp[i] <= k /\ saved.id = versionID /\ stamp[i] \in Nat
    BY <1>1, <1>2, <1>3, <1>4, <1>11, <2>1 DEF Counted
  <2>4. stamp[i] # k
    <3>1. k # 0
      BY <1>1, <1>4
    <3> QED BY <2>1, <2>2, <3>1 DEF IInv, HistInv, c
  <2>5. stamp[i] <= saved.version
    BY <1>1, <1>2, <1>4, <2>3, <2>4
  <2> QED BY <2>3, <2>5 DEF Covered
<1>12. ASSUME NEW i \in Listed', resp'.id = versionID', AddsCounted(i)'
       PROVE  i \in ToSet(newList'.ids)
  <2>1. i \in Listed /\ i \in Ids /\ saved.id = versionID
    BY <1>1, <1>2, <1>3, <1>4, <1>12
  <2>2. \A m \in 1..Version : hist[m].id = i /\ hist[m].op = "add" => m <= k
    BY <1>1, <1>2, <1>3, <1>12 DEF AddsCounted
  <2>3. CASE i = c.id /\ c.op = "add"
    BY <1>6, <2>3
  <2>4. CASE i = c.id /\ c.op = "del"
    <3>1. PICK m \in 1..Version : k < m /\ hist[m].id = i /\ hist[m].op = "add"
      BY <2>1, <2>4 DEF IInv, HistInv, c
    <3>2. m \in Nat /\ m <= k
      BY <1>4, <2>2, <3>1
    <3> QED BY <1>2, <3>1, <3>2
  <2>5. CASE ~(i = c.id /\ c.op \in {"add", "del"})
    <3>1. AddsSaved(i)
      <4> SUFFICES ASSUME NEW m \in 1..Version, hist[m].id = i, hist[m].op = "add"
                   PROVE  m <= saved.version
        BY DEF AddsSaved
      <4>1. m <= k /\ m # k /\ m \in Nat
        BY <1>4, <2>2, <2>5 DEF c
      <4> QED BY <1>1, <1>4, <4>1
    <3>2. i \in ToSet(uidList)
      BY <2>1, <3>1 DEF IInv, SavedInv
    <3>3. i \notin resp'.dels
      BY <1>1, <1>2, <2>5
    <3> QED BY <1>6, <3>2, <3>3
  <2> QED BY <2>3, <2>4, <2>5
<1>13. RespInv'
  <2>1. \A i \in (Stored' \ filled') \cap Taken' : Counted(i)' => Right(i)'
    BY <1>3, <1>11 DEF IInv, SavedInv
  <2>2. \A i \in (Listed' \ holes') \cap Taken' : Counted(i)' => i \in Stored'
    BY <1>3, <1>11 DEF IInv, SavedInv
  <2> QED BY <1>1, <1>12, <2>1, <2>2 DEF RespInv
<1> QED BY <1>3, <1>7, <1>8, <1>10, <1>13 DEF IInv

LEMMA OnlineStep ==
  ASSUME Typed, IInv, NEW k \in 1..MaxVersion, OnlineSync(k)
  PROVE  Typed' /\ IInv'
<1>1. k \in 1..Version
  BY DEF OnlineSync
<1>2. CASE Follows(k)
  BY <1>1, <1>2, PushedStep
<1>3. CASE ~Follows(k)
  <2>1. IncrementalSync /\ UNCHANGED <<serverVars, dbVars, fetched, histVars>>
    BY <1>3 DEF OnlineSync
  <2> QED BY <2>1, StartStep
<1> QED BY <1>2, <1>3

(* A step of the client leaves the server's history. *)
LEMMA ClientFrame ==
  ASSUME Typed, IInv, UNCHANGED serverVars
  PROVE  /\ HistInv' /\ TypeServer' /\ ChangeInv'
         /\ UNCHANGED <<kind, list, hist, stamp, versionID, floor, Listed, Version>>
<1>1. UNCHANGED <<kind, list, hist, stamp, versionID, floor>>
  BY DEF serverVars
<1>2. UNCHANGED <<Listed, Version>>
  BY <1>1 DEF Listed, Version
<1>3. HistInv'
  BY <1>1, <1>2 DEF IInv, HistInv
<1>4. TypeServer' /\ ChangeInv'
  BY <1>1, <1>2 DEF Typed, TypeOK, TypeServer, ChangeInv
<1> QED BY <1>1, <1>2, <1>3, <1>4

(* FullSync starts from an empty table. *)
LEMMA DeleteAllStep == ASSUME Typed, IInv, DeleteAll PROVE Typed' /\ IInv'
<1>1. /\ pc = "full" /\ rows' = NoItems /\ pc' = "page" /\ page' = 1 /\ filled' = {} /\ holes' = Ids
      /\ UNCHANGED <<serverVars, uidList, saved, resp, newList, local, failed, fetched>>
  BY DEF DeleteAll
<1>2. /\ HistInv' /\ TypeServer' /\ ChangeInv'
      /\ UNCHANGED <<kind, list, hist, stamp, versionID, floor, Listed, Version>>
  BY <1>1, ClientFrame
<1>3. Stored' = {}
  BY <1>1 DEF Stored, NoItems
<1>4. TypeDb' /\ TypeSync' /\ TypeQuery' /\ FetchInv'
  <2>1. rows' \in [Ids -> Int]
    BY <1>1, NoResponseType
  <2>2. page' \in 0..FullSyncLimit
    <3>1. FullSyncLimit \in Nat /\ FullSyncLimit # 0
      BY BoundAssumption
    <3> QED BY <1>1, <3>1
  <2> QED BY <1>1, <2>1, <2>2 DEF Typed, TypeOK, TypeDb, TypeSync, TypeQuery, FetchInv
<1>5. VersionInv'
  BY <1>1, <1>2 DEF IInv, VersionInv
<1>6. SavedInv'
  <2>1. Listed \subseteq Ids
    BY SavedType
  <2>2. \A i : AddsSaved(i)' <=> AddsSaved(i)
    BY <1>1, <1>2 DEF AddsSaved
  <2> QED BY <1>1, <1>2, <1>3, <2>1, <2>2 DEF IInv, SavedInv
<1>7. resp.items = NoItems /\ resp.dels = {}
  BY <1>1 DEF IInv, PendingInv
<1>8. PendingInv'
  <2>1. \A i \in Ids : resp'.items[i] = Absent
    BY <1>1, <1>7 DEF NoItems
  <2> QED BY <1>1, <1>7, <2>1 DEF PendingInv
<1>9. RespInv'
  BY <1>1, <1>3 DEF RespInv
<1> QED BY <1>2, <1>4, <1>5, <1>6, <1>8, <1>9 DEF IInv, Typed, TypeOK

(* All the conversations are to be applied. *)
LEMMA PullAllStep == ASSUME Typed, IInv, PullAll PROVE Typed' /\ IInv'
<1>1. /\ pc = "full" /\ kind = "conversations" /\ pc' = "local"
      /\ resp' = [resp EXCEPT !.items = Content(Listed)]
      /\ UNCHANGED <<serverVars, dbVars, newList, local, page, failed, fetched, histVars>>
  BY DEF PullAll
<1>2. /\ HistInv' /\ SavedInv' /\ TypeServer' /\ TypeDb' /\ ChangeInv'
      /\ UNCHANGED <<kind, list, hist, stamp, versionID, floor, rows, uidList, saved, filled, holes>>
      /\ UNCHANGED <<Listed, Stored, Version>>
      /\ \A i : UNCHANGED <<Right(i), Covered(i)>>
  BY <1>1, SavedFrame
<1>3. resp \in Responses /\ stamp \in [Ids -> Nat] /\ Listed \subseteq Ids
  BY SavedType
<1>4. Content(Listed) \in [Ids -> Int]
      /\ \A i \in Ids : Content(Listed)[i] = IF i \in Listed THEN stamp[i] ELSE Absent
  BY <1>3 DEF Content, Absent
<1>5. /\ resp' \in Responses /\ resp'.items = Content(Listed) /\ resp'.full = resp.full
      /\ resp'.id = resp.id /\ resp'.version = resp.version /\ resp'.dels = resp.dels
  BY <1>1, <1>3, <1>4 DEF Responses
<1>6. resp.dels = {} /\ resp.full
  BY <1>1 DEF IInv, PendingInv
<1>7. Typed'
  <2>1. TypeSync'
    BY <1>1, <1>5 DEF Typed, TypeOK, TypeSync
  <2>2. TypeQuery' /\ FetchInv'
    BY <1>1, <1>2 DEF Typed, TypeOK, TypeQuery, FetchInv
  <2> QED BY <1>2, <2>1, <2>2 DEF Typed, TypeOK
<1>8. VersionInv'
  BY <1>2, <1>5 DEF IInv, VersionInv
<1>9. PendingInv'
  <2>1. \A i \in Ids : resp'.items[i] # Absent => i \in Listed' /\ resp'.items[i] = stamp'[i]
    BY <1>2, <1>4, <1>5
  <2> QED BY <1>1, <1>5, <1>6, <2>1 DEF PendingInv
<1>10. RespInv'
  <2>1. ASSUME NEW i \in Taken' PROVE i \notin Listed
    <3>1. i \in Ids /\ Content(Listed)[i] = Absent
      BY <1>5, <2>1 DEF Taken
    <3>2. stamp[i] # Absent
      BY <1>3, <3>1 DEF Absent
    <3> QED BY <1>4, <3>1, <3>2
  <2>2. \A i : i \notin Listed => Right(i)'
    BY <1>1, <1>2 DEF Right
  <2> QED BY <1>1, <1>2, <1>5, <1>6, <2>1, <2>2 DEF RespInv
<1> QED BY <1>2, <1>7, <1>8, <1>9, <1>10 DEF IInv

(* A page of the list, as it is now. *)
LEMMA PageIsListed == ASSUME TypeServer PROVE PageOfList \subseteq Listed
<1>1. list \in Seq(Ids)
  BY DEF TypeServer
<1>2. DOMAIN list = 1..Len(list)
  BY <1>1
<1> QED BY <1>2 DEF PageOfList, Listed, ToSet

LEMMA NextPage ==
  ASSUME page \in Nat, page * PageSize < FullSyncLimit
  PROVE  page + 1 \in 0..FullSyncLimit
<1>1. PageSize \in Nat /\ PageSize >= 1 /\ FullSyncLimit \in Nat
  BY BoundAssumption
<1>2. page * PageSize = page + page * (PageSize - 1)
  BY <1>1
<1>3. page * (PageSize - 1) >= 0
  BY <1>1
<1>4. page * (PageSize - 1) \in Int /\ page * PageSize \in Int
  BY <1>1
<1> DEFINE a == page * (PageSize - 1)
           b == page * PageSize
<1> HIDE DEF a, b
<1>5. a \in Int /\ b \in Int /\ a >= 0 /\ b = page + a /\ b < FullSyncLimit
  BY <1>2, <1>3, <1>4 DEF a, b
<1> QED BY <1>1, <1>5

LEMMA FetchPageStep == ASSUME Typed, IInv, FetchPage PROVE Typed' /\ IInv'
<1>1. /\ pc = "page"
      /\ rows' = [i \in Ids |-> IF i \in PageOfList \ Stored THEN stamp[i] ELSE rows[i]]
      /\ UNCHANGED <<serverVars, uidList, saved, fetched, filled>>
  BY DEF FetchPage
<1>2. /\ HistInv' /\ TypeServer' /\ ChangeInv'
      /\ UNCHANGED <<kind, list, hist, stamp, versionID, floor, Listed, Version>>
  BY <1>1, ClientFrame
<1>3. /\ rows \in [Ids -> Int] /\ stamp \in [Ids -> Nat] /\ Listed \subseteq Ids /\ Stored \subseteq Ids
      /\ PageOfList \subseteq Listed
  BY SavedType, PageIsListed DEF Typed, TypeOK
<1>4. rows' \in [Ids -> Int]
      /\ \A i \in Ids : rows'[i] = IF i \in PageOfList \ Stored THEN stamp[i] ELSE rows[i]
  BY <1>1, <1>3
<1>5. Stored' \subseteq Ids /\ \A i \in Ids : i \in Stored' <=> i \in Stored \/ i \in PageOfList
  <2>1. \A i \in Ids : stamp[i] # Absent
    BY <1>3 DEF Absent
  <2> QED BY <1>4, <2>1 DEF Stored
<1>6. ASSUME NEW i \in Stored' \ filled', i \notin Stored \ filled PROVE Right(i)'
  <2>1. i \in PageOfList \ Stored /\ i \in Ids
    BY <1>1, <1>5, <1>6
  <2> QED BY <1>2, <1>3, <1>4, <2>1 DEF Right
<1>7. ASSUME NEW i \in Stored \ filled, Right(i) PROVE Right(i)'
  <2>1. rows'[i] = rows[i]
    BY <1>3, <1>4, <1>7
  <2> QED BY <1>2, <1>7, <2>1 DEF Right
<1>8. (holes' = holes \/ holes' = {i \in Ids : rows'[i] = Absent}) /\ holes = Ids
  BY <1>1 DEF FetchPage, IInv, PendingInv
<1>9. TypeDb' /\ TypeQuery' /\ FetchInv'
  BY <1>1, <1>4, <1>8 DEF Typed, TypeOK, TypeDb, TypeQuery, FetchInv
<1>10. Listed' \ holes' \subseteq Stored'
  BY <1>2, <1>3, <1>8 DEF Stored
<1>11. SavedInv'
  <2>1. \A i : (Covered(i)' <=> Covered(i)) /\ (AddsSaved(i)' <=> AddsSaved(i))
    BY <1>1, <1>2 DEF Covered, AddsSaved
  <2>2. \A i \in Stored' \ filled' : Covered(i)' => Right(i)'
    BY <1>6, <1>7, <2>1 DEF IInv, SavedInv
  <2> QED BY <1>1, <1>2, <1>10, <2>1, <2>2 DEF IInv, SavedInv
<1>12. CASE Unlock
  <2>1. TypeSync'
    BY <1>12, UnlockType
  <2>2. IInv'
    BY <1>1, <1>11, <1>12, UnlockStep
  <2> QED BY <1>2, <1>9, <2>1, <2>2 DEF Typed, TypeOK
<1>13. CASE ~Unlock
  <2>1. \/ /\ ~LastPage /\ page' = page + 1 /\ failed' = (failed \/ PageOfList \cap Stored # {})
           /\ UNCHANGED <<pc, resp, newList, local, holes>>
        \/ /\ pc' = "fullid" /\ UNCHANGED <<resp, newList, local, page, failed>>
    BY <1>13 DEF FetchPage
  <2>2. /\ UNCHANGED <<resp, newList, local>> /\ failed' \in BOOLEAN
        /\ (pc' = "page" /\ UNCHANGED holes) \/ pc' = "fullid"
    BY <1>1, <2>1 DEF Typed, TypeOK, TypeSync
  <2>3. page' \in 0..FullSyncLimit
    <3>1. page \in Nat /\ page \in 0..FullSyncLimit
      BY DEF Typed, TypeOK, TypeSync
    <3>2. CASE ~LastPage /\ page' = page + 1
      <4>1. PageSize \in Nat /\ FullSyncLimit \in Nat
        BY BoundAssumption
      <4>2. page * PageSize < FullSyncLimit
        <5>1. page * PageSize \in Int
          BY <3>1, <4>1
        <5> QED BY <3>2, <4>1, <5>1 DEF LastPage
      <4> QED BY <3>1, <3>2, <4>2, NextPage
    <3> QED BY <2>1, <3>1, <3>2
  <2>4. TypeSync'
    BY <2>2, <2>3 DEF Typed, TypeOK, TypeSync
  <2>5. VersionInv'
    BY <1>1, <1>2, <2>2 DEF IInv, VersionInv
  <2>6. resp.items = NoItems /\ (resp.dels = {} \/ kind = "conversations")
    BY <1>1 DEF IInv, PendingInv
  <2>7. \A i \in Ids : Newer(i)' <=> Newer(i)
    BY <1>1, <1>2, <2>2 DEF Newer
  <2>8. PendingInv'
    <3>1. \A i \in resp.dels : i \in Ids
      BY SavedType
    <3> QED BY <1>2, <1>8, <2>2, <2>6, <2>7, <3>1 DEF IInv, PendingInv
  <2>9. \A i : Counted(i)' <=> Counted(i)
    BY <1>2, <2>2 DEF Counted
  <2>10. \A i \in (Stored' \ filled') \cap Taken' : Counted(i)' => Right(i)'
    <3>1. UNCHANGED Taken
      BY <1>2, <2>2 DEF Taken
    <3> QED BY <1>1, <1>6, <1>7, <2>9, <3>1 DEF IInv, RespInv
  <2>11. RespInv'
    BY <1>10, <2>2, <2>10 DEF RespInv
  <2> QED BY <1>2, <1>9, <1>11, <2>4, <2>5, <2>8, <2>11 DEF IInv, Typed, TypeOK
<1> QED BY <1>12, <1>13

(* FullID, Local and the end of Sync change nothing but how far the synchronisation is. *)
LEMMA AdvanceFrame ==
  ASSUME Typed, IInv, UNCHANGED <<serverVars, dbVars, resp, page, failed, fetched, histVars>>
  PROVE  /\ HistInv' /\ VersionInv' /\ SavedInv'
         /\ TypeServer' /\ ChangeInv' /\ TypeDb' /\ TypeQuery' /\ FetchInv'
         /\ UNCHANGED <<kind, list, hist, stamp, versionID, rows, filled, holes>>
         /\ UNCHANGED <<Listed, Stored, Version, Taken>>
         /\ \A i : UNCHANGED <<Right(i), Counted(i), AddsCounted(i), Newer(i)>>
<1>1. /\ HistInv' /\ SavedInv' /\ TypeServer' /\ TypeDb' /\ ChangeInv'
      /\ UNCHANGED <<kind, list, hist, stamp, versionID, floor, rows, uidList, saved, filled, holes>>
      /\ UNCHANGED <<Listed, Stored, Version>>
      /\ \A i : UNCHANGED <<Right(i), Covered(i)>>
  BY SavedFrame
<1>2. VersionInv' /\ UNCHANGED Taken
  BY <1>1 DEF IInv, VersionInv, Taken
<1>3. TypeQuery' /\ FetchInv'
  BY <1>1 DEF Typed, TypeOK, TypeQuery, FetchInv
<1>4. \A i : UNCHANGED <<Counted(i), AddsCounted(i), Newer(i)>>
  BY <1>1 DEF Counted, AddsCounted, Newer
<1> QED BY <1>1, <1>2, <1>3, <1>4

LEMMA FullIDStep == ASSUME Typed, IInv, FullID PROVE Typed' /\ IInv'
<1>1. /\ pc = "fullid" /\ pc' = "save" /\ newList' = [ids |-> list, fetched |-> TRUE]
      /\ UNCHANGED <<serverVars, dbVars, resp, local, page, failed, fetched, histVars>>
  BY DEF FullID
<1>2. /\ HistInv' /\ VersionInv' /\ SavedInv'
      /\ TypeServer' /\ ChangeInv' /\ TypeDb' /\ TypeQuery' /\ FetchInv'
      /\ UNCHANGED <<kind, list, hist, stamp, versionID, rows, filled, holes>>
      /\ UNCHANGED <<Listed, Stored, Version, Taken>>
      /\ \A i : UNCHANGED <<Right(i), Counted(i), AddsCounted(i), Newer(i)>>
  BY <1>1, AdvanceFrame
<1>3. newList' \in [ids : Seq(Ids), fetched : BOOLEAN] /\ newList'.ids = list
  BY <1>1 DEF Typed, TypeOK, TypeServer
<1>4. TypeSync'
  BY <1>1, <1>3 DEF Typed, TypeOK, TypeSync
<1>5. PendingInv'
  BY <1>1, <1>2 DEF IInv, PendingInv
<1>6. RespInv'
  <2>1. \A i \in Listed' : i \in ToSet(newList'.ids)
    BY <1>2, <1>3 DEF Listed
  <2> QED BY <1>1, <1>2, <2>1 DEF IInv, RespInv
<1> QED BY <1>2, <1>4, <1>5, <1>6 DEF IInv, Typed, TypeOK

LEMMA ReadLocalStep == ASSUME Typed, IInv, ReadLocal PROVE Typed' /\ IInv'
<1>1. /\ pc = "local" /\ pc' = "apply" /\ local' = Stored
      /\ UNCHANGED <<serverVars, dbVars, resp, newList, page, failed, fetched, histVars>>
  BY DEF ReadLocal
<1>2. /\ HistInv' /\ VersionInv' /\ SavedInv'
      /\ TypeServer' /\ ChangeInv' /\ TypeDb' /\ TypeQuery' /\ FetchInv'
      /\ UNCHANGED <<kind, list, hist, stamp, versionID, rows, filled, holes>>
      /\ UNCHANGED <<Listed, Stored, Version, Taken>>
      /\ \A i : UNCHANGED <<Right(i), Counted(i), AddsCounted(i), Newer(i)>>
  BY <1>1, AdvanceFrame
<1>3. Stored \subseteq Ids
  BY DEF Stored
<1>4. TypeSync'
  BY <1>1, <1>3 DEF Typed, TypeOK, TypeSync
<1>5. PendingInv'
  BY <1>1, <1>2 DEF IInv, PendingInv
<1>6. RespInv'
  BY <1>1, <1>2 DEF IInv, RespInv
<1> QED BY <1>2, <1>4, <1>5, <1>6 DEF IInv, Typed, TypeOK

LEMMA AppliedStep == ASSUME Typed, IInv, Applied PROVE Typed' /\ IInv'
<1>1. /\ pc = "apply" /\ ItemsDone /\ (resp.dels = {} \/ kind = "conversations")
      /\ pc' = "fullid" \/ (pc' = "save" /\ ~resp.full)
      /\ UNCHANGED <<serverVars, dbVars, resp, newList, local, page, failed, fetched, histVars>>
  BY DEF Applied, Typed, TypeOK, TypeSync, Responses
<1>2. /\ HistInv' /\ VersionInv' /\ SavedInv'
      /\ TypeServer' /\ ChangeInv' /\ TypeDb' /\ TypeQuery' /\ FetchInv'
      /\ UNCHANGED <<kind, list, hist, stamp, versionID, rows, filled, holes>>
      /\ UNCHANGED <<Listed, Stored, Version, Taken>>
      /\ \A i : UNCHANGED <<Right(i), Counted(i), AddsCounted(i), Newer(i)>>
  BY <1>1, AdvanceFrame
<1>3. TypeSync'
  BY <1>1 DEF Typed, TypeOK, TypeSync
<1>4. PendingInv'
  BY <1>1, <1>2 DEF IInv, PendingInv, ItemsDone
<1>5. RespInv'
  BY <1>1, <1>2 DEF IInv, RespInv
<1> QED BY <1>2, <1>3, <1>4, <1>5 DEF IInv, Typed, TypeOK

(* One item of the response: the row is what the server had at that version. *)
LEMMA ItemStep ==
  ASSUME Typed, IInv, NEW i \in Ids, ApplyItem(i)
  PROVE  Typed' /\ IInv'
<1>1. /\ pc = "apply" /\ resp.items[i] # Absent /\ SyncItem(i)
      /\ UNCHANGED <<serverVars, uidList, saved, fetched>>
  BY DEF ApplyItem
<1>2. /\ HistInv' /\ TypeServer' /\ ChangeInv'
      /\ UNCHANGED <<kind, list, hist, stamp, versionID, floor, Listed, Version>>
  BY <1>1, ClientFrame
<1>3. /\ resp \in Responses /\ resp.items \in [Ids -> Int] /\ resp.dels \in SUBSET Ids
      /\ rows \in [Ids -> Int] /\ Listed \subseteq Ids /\ Stored \subseteq Ids
  BY SavedType
<1>4. \A j : AddsSaved(j)' <=> AddsSaved(j)
  BY <1>1, <1>2 DEF AddsSaved
<1>5. CASE Unlock /\ UNCHANGED <<rows, holes, filled>>
  <2>1. UNCHANGED dbVars /\ UNCHANGED histVars
    BY <1>1, <1>5 DEF dbVars, histVars
  <2>2. SavedInv' /\ TypeDb'
    BY <1>1, <2>1, SavedFrame
  <2>3. TypeSync'
    BY <1>5, UnlockType
  <2>4. TypeQuery' /\ FetchInv'
    BY <1>1, <1>5 DEF Typed, TypeOK, TypeQuery, FetchInv
  <2> QED BY <1>1, <1>2, <1>5, <2>2, <2>3, <2>4, UnlockStep DEF Typed, TypeOK
<1>6. CASE /\ rows' = [rows EXCEPT ![i] = resp.items[i]]
           /\ resp' = [resp EXCEPT !.items[i] = Absent]
           /\ holes' = holes \ {i} /\ filled' = filled \ {i}
           /\ UNCHANGED <<pc, newList, local, page, failed>>
  <2>1. /\ rows' \in [Ids -> Int] /\ rows'[i] = resp.items[i]
        /\ \A j \in Ids : j # i => rows'[j] = rows[j]
    BY <1>3, <1>6
  <2>2. /\ resp' \in Responses /\ resp'.id = resp.id /\ resp'.version = resp.version
        /\ resp'.dels = resp.dels /\ resp'.full = resp.full
        /\ resp'.items = [resp.items EXCEPT ![i] = Absent]
    BY <1>3, <1>6 DEF Responses, Absent
  <2>3. resp'.items[i] = Absent /\ \A j \in Ids : j # i => resp'.items[j] = resp.items[j]
    BY <1>3, <2>2
  <2>4. Stored' = Stored \cup {i}
    BY <1>1, <2>1 DEF Stored
  <2>5. i \notin resp.dels /\ (Newer(i) \/ (i \in Listed /\ resp.items[i] = stamp[i]))
    BY <1>1 DEF IInv, PendingInv
  <2>6. /\ \A j : (Covered(j)' <=> Covered(j)) /\ (Counted(j)' <=> Counted(j)) /\ (Newer(j)' <=> Newer(j))
        /\ \A j : AddsCounted(j)' <=> AddsCounted(j)
        /\ \A j \in Ids : j # i => (Right(j)' <=> Right(j))
    BY <1>1, <1>2, <2>1, <2>2 DEF Covered, Counted, Newer, AddsCounted, Right
  <2>7. Covered(i) \/ Counted(i) => Right(i)'
    <3>1. stamp[i] \in Nat /\ saved.version \in Nat /\ resp.version \in Nat
      BY SavedType
    <3>2. Newer(i) => ~Covered(i) /\ ~Counted(i)
      BY <3>1 DEF Newer, Covered, Counted
    <3> QED BY <1>2, <2>1, <2>5, <3>2 DEF Right
  <2>8. TypeDb' /\ TypeSync' /\ TypeQuery' /\ FetchInv'
    BY <1>1, <1>6, <2>1, <2>2 DEF Typed, TypeOK, TypeDb, TypeSync, TypeQuery, FetchInv
  <2>9. VersionInv'
    BY <1>1, <1>2, <2>2 DEF IInv, VersionInv
  <2>10. SavedInv'
    <3>1. \A j \in Stored' \ filled' : Covered(j)' => Right(j)'
      BY <1>3, <1>6, <2>4, <2>6, <2>7 DEF IInv, SavedInv
    <3>2. \A j \in Listed' \ holes' : Covered(j)' => j \in Stored'
      BY <1>2, <1>6, <2>4, <2>6 DEF IInv, SavedInv
    <3> QED BY <1>1, <1>2, <1>4, <3>1, <3>2 DEF IInv, SavedInv
  <2>11. PendingInv'
    <3>1. \A j \in Ids : resp'.items[j] # Absent =>
             Newer(j)' \/ (j \in Listed' /\ resp'.items[j] = stamp'[j])
      BY <1>2, <2>3, <2>6 DEF IInv, PendingInv
    <3>2. \A j \in resp'.dels : (j \notin Listed' \/ Newer(j)') /\ resp'.items[j] = Absent
      BY <1>2, <1>3, <2>2, <2>3, <2>6 DEF IInv, PendingInv
    <3>3. (Stored' \ filled') \cap resp'.dels \subseteq local'
      BY <1>1, <1>6, <2>2, <2>4, <2>5 DEF IInv, PendingInv
    <3> QED BY <1>1, <1>6, <3>1, <3>2, <3>3 DEF PendingInv
  <2>12. Taken' \subseteq Taken \cup {i}
    BY <1>2, <2>2, <2>3 DEF Taken
  <2>13. RespInv'
    <3>1. \A j \in (Stored' \ filled') \cap Taken' : Counted(j)' => Right(j)'
      BY <1>1, <1>3, <1>6, <2>4, <2>6, <2>7, <2>12 DEF IInv, RespInv
    <3>2. \A j \in (Listed' \ holes') \cap Taken' : Counted(j)' => j \in Stored'
      BY <1>1, <1>2, <1>6, <2>4, <2>6, <2>12 DEF IInv, RespInv
    <3>3. ~resp'.full => \A j \in Listed' : resp'.id = versionID' /\ AddsCounted(j)' => j \in ToSet(newList'.ids)
      BY <1>1, <1>2, <1>6, <2>2, <2>6 DEF IInv, RespInv
    <3> QED BY <1>1, <1>6, <3>1, <3>2, <3>3 DEF RespInv
  <2> QED BY <1>2, <2>8, <2>9, <2>10, <2>11, <2>13 DEF IInv, Typed, TypeOK
<1> QED BY <1>1, <1>5, <1>6 DEF SyncItem

(* One deletion: Local read every row that a synchronisation wrote. *)
LEMMA DeleteStep ==
  ASSUME Typed, IInv, NEW i \in Ids, ApplyDelete(i)
  PROVE  Typed' /\ IInv'
<1>1. /\ pc = "apply" /\ ItemsDone /\ i \in resp.dels /\ kind # "conversations"
      /\ rows' = IF i \in local THEN [rows EXCEPT ![i] = Absent] ELSE rows
      /\ resp' = [resp EXCEPT !.dels = @ \ {i}]
      /\ filled' = IF i \in local THEN filled \ {i} ELSE filled
      /\ UNCHANGED <<serverVars, uidList, saved, pc, newList, local, page, failed, fetched, holes>>
  BY DEF ApplyDelete
<1>2. /\ HistInv' /\ TypeServer' /\ ChangeInv'
      /\ UNCHANGED <<kind, list, hist, stamp, versionID, floor, Listed, Version>>
  BY <1>1, ClientFrame
<1>3. /\ resp \in Responses /\ resp.items \in [Ids -> Int] /\ resp.dels \in SUBSET Ids
      /\ rows \in [Ids -> Int] /\ Listed \subseteq Ids /\ Stored \subseteq Ids
  BY SavedType
<1>4. /\ rows' \in [Ids -> Int] /\ (i \in local => rows'[i] = Absent)
      /\ i \notin local => rows' = rows /\ filled' = filled
      /\ \A j \in Ids : j # i => rows'[j] = rows[j]
  BY <1>1, <1>3 DEF Absent
<1>5. /\ resp' \in Responses /\ resp'.id = resp.id /\ resp'.version = resp.version
      /\ resp'.items = resp.items /\ resp'.dels = resp.dels \ {i} /\ resp'.full = resp.full
  BY <1>1, <1>3 DEF Responses
<1>6. Stored' = IF i \in local THEN Stored \ {i} ELSE Stored
  BY <1>4 DEF Stored
<1>7. i \notin Listed \/ Newer(i)
  BY <1>1 DEF IInv, PendingInv
<1>8. i \notin local => i \notin Stored \ filled
  BY <1>1 DEF IInv, PendingInv
<1>9. Stored' \ filled' = (Stored \ filled) \ {i}
  BY <1>1, <1>4, <1>6, <1>8
<1>10. /\ \A j : (Covered(j)' <=> Covered(j)) /\ (Counted(j)' <=> Counted(j)) /\ (Newer(j)' <=> Newer(j))
       /\ \A j : (AddsSaved(j)' <=> AddsSaved(j)) /\ (AddsCounted(j)' <=> AddsCounted(j))
       /\ \A j \in Ids : j # i => (Right(j)' <=> Right(j))
  BY <1>1, <1>2, <1>4, <1>5 DEF Covered, Counted, Newer, AddsSaved, AddsCounted, Right
<1>11. Newer(i) => ~Covered(i) /\ ~Counted(i)
  <2>1. stamp[i] \in Nat /\ saved.version \in Nat /\ resp.version \in Nat
    BY SavedType
  <2> QED BY <2>1 DEF Newer, Covered, Counted
<1>12. TypeDb' /\ TypeSync' /\ TypeQuery' /\ FetchInv'
  BY <1>1, <1>4, <1>5 DEF Typed, TypeOK, TypeDb, TypeSync, TypeQuery, FetchInv
<1>13. VersionInv'
  BY <1>1, <1>2, <1>5 DEF IInv, VersionInv
<1>14. SavedInv'
  <2>1. \A j \in Stored' \ filled' : Covered(j)' => Right(j)'
    BY <1>3, <1>9, <1>10 DEF IInv, SavedInv
  <2>2. \A j \in Listed' \ holes' : Covered(j)' => j \in Stored'
    BY <1>1, <1>2, <1>6, <1>7, <1>10, <1>11 DEF IInv, SavedInv
  <2> QED BY <1>1, <1>2, <1>10, <2>1, <2>2 DEF IInv, SavedInv
<1>15. PendingInv'
  <2>1. \A j \in Ids : resp'.items[j] # Absent =>
           Newer(j)' \/ (j \in Listed' /\ resp'.items[j] = stamp'[j])
    BY <1>2, <1>5, <1>10 DEF IInv, PendingInv
  <2>2. \A j \in resp'.dels : (j \notin Listed' \/ Newer(j)') /\ resp'.items[j] = Absent
    BY <1>2, <1>3, <1>5, <1>10 DEF IInv, PendingInv
  <2>3. (Stored' \ filled') \cap resp'.dels \subseteq local'
    BY <1>1, <1>5, <1>9 DEF IInv, PendingInv
  <2> QED BY <1>1, <2>1, <2>2, <2>3 DEF PendingInv
<1>16. Taken' \subseteq Taken \cup {i}
  BY <1>2, <1>5 DEF Taken
<1>17. RespInv'
  <2>1. \A j \in (Stored' \ filled') \cap Taken' : Counted(j)' => Right(j)'
    BY <1>1, <1>3, <1>9, <1>10, <1>16 DEF IInv, RespInv
  <2>2. \A j \in (Listed' \ holes') \cap Taken' : Counted(j)' => j \in Stored'
    BY <1>1, <1>2, <1>6, <1>7, <1>10, <1>11, <1>16 DEF IInv, RespInv
  <2>3. ~resp'.full => \A j \in Listed' : resp'.id = versionID' /\ AddsCounted(j)' => j \in ToSet(newList'.ids)
    BY <1>1, <1>2, <1>5, <1>10 DEF IInv, RespInv
  <2> QED BY <1>1, <2>1, <2>2, <2>3 DEF RespInv
<1> QED BY <1>2, <1>12, <1>13, <1>14, <1>15, <1>17 DEF IInv, Typed, TypeOK

(* The version is saved: what was said of the response is now said of the saved version. *)
LEMMA SaveStep == ASSUME Typed, IInv, Save PROVE Typed' /\ IInv'
<1>1. /\ pc = "save" /\ Unlock
      /\ saved' = [id |-> resp.id, version |-> resp.version]
      /\ \/ uidList' = newList.ids
         \/ newList = [ids |-> <<>>, fetched |-> TRUE] /\ uidList' = uidList
      /\ UNCHANGED <<serverVars, rows, fetched, histVars>>
  BY DEF Save
<1>2. /\ HistInv' /\ TypeServer' /\ ChangeInv'
      /\ UNCHANGED <<kind, list, hist, stamp, versionID, floor, Listed, Version>>
  BY <1>1, ClientFrame
<1>3. /\ saved'.id = resp.id /\ saved'.version = resp.version
      /\ resp.id \in Nat /\ resp.version \in Nat /\ Stored \subseteq Ids /\ Listed \subseteq Ids
  BY <1>1, SavedType
<1>4. TypeSync' /\ pc' = "idle" /\ resp' = NoResponse
  BY <1>1, UnlockType
<1>5. TypeDb' /\ TypeQuery' /\ FetchInv'
  <2>1. uidList' \in Seq(Ids)
    BY <1>1 DEF Typed, TypeOK, TypeDb, TypeSync
  <2> QED BY <1>1, <1>3, <2>1 DEF histVars, Typed, TypeOK, TypeDb, TypeQuery, FetchInv
<1>6. Taken = Ids
  <2>1. resp.items = NoItems /\ (resp.dels = {} \/ kind = "conversations")
    BY <1>1 DEF IInv, PendingInv
  <2> QED BY <2>1 DEF Taken, NoItems
<1>7. UNCHANGED <<Stored, filled, holes, rows>>
  BY <1>1 DEF Stored, histVars
<1>8. \A i : (Covered(i)' <=> Counted(i)) /\ (AddsSaved(i)' <=> AddsCounted(i)) /\ (Right(i)' <=> Right(i))
  BY <1>2, <1>3, <1>7 DEF Covered, Counted, AddsSaved, AddsCounted, Right
<1>9. SavedInv'
  <2>1. \A i \in Stored' \ filled' : Covered(i)' => Right(i)'
    BY <1>1, <1>3, <1>6, <1>7, <1>8 DEF IInv, RespInv
  <2>2. \A i \in Listed' \ holes' : Covered(i)' => i \in Stored'
    BY <1>1, <1>2, <1>3, <1>6, <1>7, <1>8 DEF IInv, RespInv
  <2>3. ASSUME NEW i \in Listed', saved'.id = versionID', AddsSaved(i)' PROVE i \in ToSet(uidList')
    <3>1. i \in ToSet(newList.ids)
      BY <1>1, <1>2, <1>3, <1>8, <2>3 DEF IInv, RespInv
    <3>2. newList # [ids |-> <<>>, fetched |-> TRUE]
      BY <3>1, NoneInEmpty
    <3> QED BY <1>1, <3>1, <3>2
  <2> QED BY <2>1, <2>2, <2>3 DEF SavedInv
<1>10. VersionInv'
  <2>1. resp'.version = 0 /\ resp'.id = 0 /\ Version \in Nat /\ versionID \in Nat
    BY <1>4, NoResponseType, SavedType
  <2> QED BY <1>2, <1>3, <2>1 DEF IInv, VersionInv
<1>11. PendingInv'
  <2>1. resp'.dels = {} /\ \A i \in Ids : resp'.items[i] = Absent
    BY <1>4, NoResponseType DEF NoItems
  <2> QED BY <1>4, <2>1 DEF PendingInv
<1>12. RespInv'
  BY <1>4 DEF RespInv
<1> QED BY <1>2, <1>4, <1>5, <1>9, <1>10, <1>11, <1>12 DEF IInv, Typed, TypeOK

(* A failure or the end of the process drops the response. *)
LEMMA DropStep == ASSUME Typed, IInv, SyncFails \/ Crash PROVE Typed' /\ IInv'
<1>1. Unlock /\ UNCHANGED <<serverVars, dbVars, histVars>> /\ (fetched' = fetched \/ fetched' = NoFetch)
  BY DEF SyncFails, Crash
<1>2. /\ HistInv' /\ SavedInv' /\ TypeServer' /\ TypeDb' /\ ChangeInv'
      /\ UNCHANGED <<saved, filled, holes>>
  BY <1>1, SavedFrame
<1>3. TypeSync'
  BY <1>1, UnlockType
<1>4. TypeQuery' /\ FetchInv'
  BY <1>1, <1>2 DEF Typed, TypeOK, TypeQuery, FetchInv, NoFetch, Absent
<1>5. IInv'
  BY <1>1, <1>2, UnlockStep
<1> QED BY <1>2, <1>3, <1>4, <1>5 DEF Typed, TypeOK

LEMMA FetchStep ==
  ASSUME Typed, IInv, NEW i \in Ids, FetchFromServer(i)
  PROVE  Typed' /\ IInv'
<1>1. /\ fetched' = [id |-> i, content |-> stamp[i]]
      /\ UNCHANGED <<serverVars, dbVars, syncVars, histVars>>
  BY DEF FetchFromServer
<1>2. /\ UNCHANGED <<kind, list, hist, stamp, versionID, floor, rows, uidList, saved>>
      /\ UNCHANGED <<pc, resp, newList, local, page, failed, filled, holes>>
  BY <1>1 DEF serverVars, dbVars, syncVars, histVars
<1>3. UNCHANGED <<Listed, Stored, Version, Taken>>
  BY <1>2 DEF Listed, Stored, Version, Taken
<1>4. Typed'
  <2>1. stamp[i] \in Nat
    BY SavedType
  <2>2. TypeQuery' /\ FetchInv'
    BY <1>1, <1>2, <2>1 DEF Typed, TypeOK, TypeQuery, FetchInv
  <2> QED BY <1>2, <1>3, <2>2 DEF Typed, TypeOK, TypeServer, TypeDb, TypeSync, ChangeInv
<1>5. \A i1 : UNCHANGED <<Right(i1), Covered(i1), Counted(i1), Newer(i1), AddsSaved(i1), AddsCounted(i1)>>
  BY <1>2, <1>3 DEF Right, Covered, Counted, Newer, AddsSaved, AddsCounted
<1>6. HistInv' /\ VersionInv' /\ SavedInv'
  BY <1>2, <1>3, <1>5 DEF IInv, HistInv, VersionInv, SavedInv
<1>7. PendingInv' /\ RespInv'
  BY <1>2, <1>3, <1>5 DEF IInv, PendingInv, RespInv
<1> QED BY <1>4, <1>6, <1>7 DEF IInv

(* A query adds a row, if there is none; the claims are not about it. *)
LEMMA FillStep == ASSUME Typed, IInv, FillLocal PROVE Typed' /\ IInv'
<1> DEFINE f == fetched.id
<1>1. /\ fetched # NoFetch /\ fetched' = NoFetch
      /\ \/ UNCHANGED <<rows, filled>>
         \/ f \notin Stored /\ rows' = [rows EXCEPT ![f] = fetched.content] /\ filled' = filled \cup {f}
      /\ UNCHANGED <<serverVars, uidList, saved, syncVars, holes>>
  BY DEF FillLocal
<1>2. /\ HistInv' /\ TypeServer' /\ ChangeInv'
      /\ UNCHANGED <<kind, list, hist, stamp, versionID, floor, Listed, Version>>
  BY <1>1, ClientFrame
<1>3. UNCHANGED <<uidList, saved, pc, resp, newList, local, page, failed, holes, Taken>>
  BY <1>1, <1>2 DEF syncVars, Taken
<1>4. f \in Ids /\ fetched.content \in Nat
  BY <1>1 DEF Typed, FetchInv
<1>5. rows \in [Ids -> Int] /\ Stored \subseteq Ids /\ Listed \subseteq Ids
  BY SavedType
<1> HIDE DEF f
<1>6. /\ rows' \in [Ids -> Int] /\ Stored \subseteq Stored' /\ Stored' \subseteq Ids
      /\ Stored' \ filled' \subseteq Stored \ filled
      /\ \A i \in Stored : rows'[i] = rows[i]
  <2>1. CASE UNCHANGED <<rows, filled>>
    BY <1>5, <2>1 DEF Stored
  <2>2. CASE f \notin Stored /\ rows' = [rows EXCEPT ![f] = fetched.content] /\ filled' = filled \cup {f}
    <3>1. rows' \in [Ids -> Int] /\ rows'[f] = fetched.content /\ \A j \in Ids : j # f => rows'[j] = rows[j]
      BY <1>4, <1>5, <2>2
    <3>2. Stored' = Stored \cup {f}
      BY <1>4, <3>1 DEF Stored, Absent
    <3> QED BY <1>4, <1>5, <2>2, <3>1, <3>2
  <2> QED BY <1>1, <2>1, <2>2
<1>7. Typed'
  <2>1. filled' \subseteq Ids
    BY <1>1, <1>4 DEF Typed, TypeOK, TypeQuery
  <2>2. TypeQuery' /\ FetchInv'
    BY <1>1, <1>3, <2>1 DEF Typed, TypeOK, TypeQuery, FetchInv, NoFetch, Absent
  <2> QED BY <1>2, <1>3, <1>6, <2>2 DEF Typed, TypeOK, TypeDb, TypeSync
<1>8. \A i : UNCHANGED <<Covered(i), Counted(i), Newer(i), AddsSaved(i), AddsCounted(i)>>
  BY <1>2, <1>3 DEF Covered, Counted, Newer, AddsSaved, AddsCounted
<1>9. \A i \in Stored : Right(i) => Right(i)'
  BY <1>2, <1>6 DEF Right
<1>10. VersionInv'
  BY <1>2, <1>3 DEF IInv, VersionInv
<1>11. SavedInv'
  BY <1>2, <1>3, <1>6, <1>8, <1>9 DEF IInv, SavedInv
<1>12. PendingInv'
  BY <1>2, <1>3, <1>6, <1>8 DEF IInv, PendingInv
<1>13. RespInv'
  BY <1>2, <1>3, <1>6, <1>8, <1>9 DEF IInv, RespInv
<1> QED BY <1>2, <1>7, <1>10, <1>11, <1>12, <1>13 DEF IInv

-----------------------------------------------------------------------------
(* The theorems *)

LEMMA InvInit == Init => IInv
<1> SUFFICES ASSUME Init PROVE IInv
  OBVIOUS
<1> USE DEF Init
<1>0. Typed
  BY TypedInit
<1>1. /\ Len(InitList) \in Nat /\ \A k \in 1..Len(InitList) : InitList[k] \in Ids
      /\ DOMAIN InitList = 1..Len(InitList)
      /\ \A k, m \in 1..Len(InitList) : InitList[k] = InitList[m] => k = m
  BY ListAssumption DEF IsInjective
<1>2. Listed = {InitList[k] : k \in 1..Len(InitList)} /\ Listed \subseteq Ids /\ Version = Len(InitList)
  BY <1>1 DEF Listed, ToSet, Version
<1>3. ASSUME NEW i \in Listed
      PROVE  stamp[i] \in 1..Version /\ InitList[stamp[i]] = i
  <2>1. \E k \in 1..Len(InitList) : InitList[k] = i
    BY <1>2, <1>3
  <2>2. stamp[i] = CHOOSE k \in 1..Len(InitList) : InitList[k] = i
    BY <1>2, <1>3 DEF Listed
  <2> QED BY <1>2, <2>1, <2>2
<1>4. \A i \in Ids : i \notin Listed => stamp[i] = 0
  BY DEF Listed
<1>5. \A k \in 1..Version : hist[k].op = "add" /\ hist[k].id = InitList[k] /\ hist[k].log = 1
  BY <1>2
<1>6. HistInv
  <2>1. ASSUME NEW k \in 1..Version PROVE k <= stamp[hist[k].id]
    <3>1. InitList[k] \in Listed /\ hist[k].id = InitList[k]
      BY <1>2, <1>5
    <3>2. stamp[InitList[k]] \in 1..Version /\ InitList[stamp[InitList[k]]] = InitList[k]
      BY <1>3, <3>1
    <3>3. stamp[InitList[k]] = k
      BY <1>1, <1>2, <3>2
    <3> QED BY <1>1, <1>2, <3>1, <3>3
  <2>2. ASSUME NEW i \in Ids
        PROVE  /\ stamp[i] <= Version
               /\ stamp[i] = 0 => i \notin Listed
               /\ stamp[i] # 0 => hist[stamp[i]].id = i /\ (i \in Listed <=> hist[stamp[i]].op # "del")
    <3>1. CASE i \in Listed
      <4>1. stamp[i] \in 1..Version /\ InitList[stamp[i]] = i
        BY <1>3, <3>1
      <4>2. stamp[i] <= Version /\ stamp[i] # 0
        BY <1>1, <1>2, <4>1
      <4> QED BY <1>5, <3>1, <4>1, <4>2
    <3>2. CASE i \notin Listed
      <4>1. stamp[i] = 0 /\ 0 <= Version
        BY <1>1, <1>2, <1>4, <3>2
      <4> QED BY <3>2, <4>1
    <3> QED BY <3>1, <3>2
  <2>3. \A k \in 1..Version : hist[k].op # "del" /\ hist[k].log <= versionID
    BY <1>5
  <2> QED BY <2>1, <2>2, <2>3 DEF HistInv
<1>7. resp.items = NoItems /\ resp.dels = {} /\ resp.version = 0 /\ resp.id = 0
  BY NoResponseType
<1>8. Stored = {}
  BY DEF Stored, NoItems
<1>9. VersionInv
  BY <1>1, <1>2, <1>7 DEF VersionInv
<1>10. SavedInv
  BY <1>2, <1>8 DEF SavedInv
<1>11. PendingInv
  BY <1>7 DEF PendingInv, NoItems
<1>12. RespInv
  BY DEF RespInv
<1> QED BY <1>6, <1>9, <1>10, <1>11, <1>12 DEF IInv

LEMMA InvNext == Typed /\ IInv /\ [Next]_vars => Typed' /\ IInv'
<1> SUFFICES ASSUME Typed, IInv, [Next]_vars PROVE Typed' /\ IInv'
  OBVIOUS
<1>1. CASE Server
  BY <1>1, ServerStep
<1>2. CASE Sync
  <2>1. CASE StartSync
    BY <2>1, StartStep DEF StartSync
  <2>2. CASE \E k \in 1..MaxVersion : OnlineSync(k)
    BY <2>2, OnlineStep
  <2>3. CASE DeleteAll \/ PullAll \/ FetchPage \/ FullID
    BY <2>3, DeleteAllStep, PullAllStep, FetchPageStep, FullIDStep
  <2>4. CASE ReadLocal \/ Applied \/ Save \/ SyncFails
    BY <2>4, ReadLocalStep, AppliedStep, SaveStep, DropStep
  <2>5. CASE \E i \in Ids : ApplyItem(i) \/ ApplyDelete(i)
    BY <2>5, ItemStep, DeleteStep
  <2> QED BY <1>2, <2>1, <2>2, <2>3, <2>4, <2>5 DEF Sync
<1>3. CASE Query
  BY <1>3, FillStep, FetchStep DEF Query
<1>4. CASE Crash
  BY <1>4, DropStep
<1>5. CASE UNCHANGED vars
  <2>1. /\ UNCHANGED <<kind, list, hist, stamp, versionID, floor, rows, uidList, saved>>
        /\ UNCHANGED <<pc, resp, newList, local, page, failed, fetched, filled, holes>>
    BY <1>5 DEF vars, serverVars, dbVars, syncVars, histVars
  <2>2. UNCHANGED <<Listed, Stored, Version, Taken>>
    BY <2>1 DEF Listed, Stored, Version, Taken
  <2>3. Typed'
    BY <2>1, <2>2 DEF Typed, TypeOK, TypeServer, TypeDb, TypeSync, TypeQuery, FetchInv, ChangeInv
  <2>4. \A i : UNCHANGED <<Right(i), Covered(i), Counted(i), Newer(i), AddsSaved(i), AddsCounted(i)>>
    BY <2>1, <2>2 DEF Right, Covered, Counted, Newer, AddsSaved, AddsCounted
  <2>5. HistInv' /\ VersionInv' /\ SavedInv'
    BY <2>1, <2>2, <2>4 DEF IInv, HistInv, VersionInv, SavedInv
  <2>6. PendingInv' /\ RespInv'
    BY <2>1, <2>2, <2>4 DEF IInv, PendingInv, RespInv
  <2> QED BY <2>3, <2>5, <2>6 DEF IInv
<1>6. CASE Resting
  BY <1>5, <1>6 DEF Resting
<1> QED BY <1>1, <1>2, <1>3, <1>4, <1>5, <1>6 DEF Next

LEMMA Inductive == Spec => [](Typed /\ IInv)
  BY TypedInit, InvInit, InvNext, PTL DEF Spec

(* Every reachable state is well typed; a full sync asks for no page beyond its limit. *)
THEOREM TypeCorrect == Spec => []TypeOK
<1>1. Typed => TypeOK
  BY DEF Typed
<1> QED BY <1>1, Inductive, PTL

(***************************************************************************)
(* The saved version never claims more than the table holds (Save, after   *)
(* Sync and FullSync): for every list, every order of responses and        *)
(* notifications, and whatever fails or dies half-way.                     *)
(***************************************************************************)
THEOREM TableIsFresh == Spec => []RowsFresh
<1>1. IInv => RowsFresh
  BY DEF IInv, SavedInv, RowsFresh, Right
<1> QED BY <1>1, Inductive, PTL

(***************************************************************************)
(* Nothing that the saved version covers is missing from UIDList, nor, if  *)
(* the last full synchronisation got that far, from the table              *)
(* (IncrementalSync, CheckVersionSync, FullSync and SetVersionSync).       *)
(***************************************************************************)
THEOREM NothingIsMissing == Spec => []NothingMissing
<1>1. Typed /\ IInv => NothingMissing
  <2> SUFFICES ASSUME Typed, IInv PROVE NothingMissing
    OBVIOUS
  <2>1. ASSUME NEW i \in Listed, Covered(i) PROVE i \in ToSet(uidList)
    <3>1. i \in Ids /\ saved.id = versionID /\ stamp[i] <= saved.version
      BY <2>1, SavedType DEF Covered
    <3> QED BY <3>1, AddsBefore DEF IInv, SavedInv
  <2> QED BY <2>1 DEF IInv, SavedInv, NothingMissing
<1> QED BY <1>1, Inductive, PTL

-----------------------------------------------------------------------------
(* Typing: what is sent, what is on its way and what is told *)

(* The types that the proofs need; a message is one of a platform. *)
SayType ==
  /\ sendCode \in {"none", "success", "end"} /\ swapped \in BOOLEAN
  /\ changer \in [Changers -> [pc : {"idle", "send", "wait"}, focus : BOOLEAN]]
ShowType ==
  /\ shown \in [Platforms -> {"none", "live", "expired"}]
  /\ teller \in [{"worker", "janitor"} -> [pc : {"idle", "list", "tell"}, list : SUBSET Platforms]]
NoticeType == notices \in Seq(Platforms \X {"yes", "no"})
TypingType == SayType /\ ShowType /\ NoticeType

LEMMA TypingTypeInit == Input!Init => TypingType
<1> SUFFICES ASSUME Input!Init PROVE TypingType
  OBVIOUS
<1>1. SayType
  BY DEF Input!Init, SayType, Input!NoCall
<1>2. ShowType
  BY DEF Input!Init, ShowType, Input!NoTelling
<1>3. NoticeType
  BY DEF Input!Init, NoticeType
<1> QED BY <1>1, <1>2, <1>3 DEF TypingType

LEMMA TypingTypeNext == TypingType /\ [Input!Next]_Input!typingVars => TypingType'
<1> SUFFICES ASSUME TypingType, [Input!Next]_Input!typingVars PROVE TypingType'
  OBVIOUS
<1> USE HereAssumption DEF TypingType
<1>1. ASSUME NEW c \in Changers, Input!SendTyping(c) \/ Input!TypingSent(c) \/ Input!TypingFailed(c)
        PROVE TypingType'
  <2>1. SayType'
    <3>1. changer[c] \in [pc : {"idle", "send", "wait"}, focus : BOOLEAN]
      BY DEF SayType
    <3>2. /\ [changer[c] EXCEPT !.pc = "wait"] \in [pc : {"idle", "send", "wait"}, focus : BOOLEAN]
          /\ Input!NoCall \in [pc : {"idle", "send", "wait"}, focus : BOOLEAN]
      BY <3>1 DEF Input!NoCall
    <3>3. \E r \in [pc : {"idle", "send", "wait"}, focus : BOOLEAN] : changer' = [changer EXCEPT ![c] = r]
      BY <1>1, <3>2 DEF Input!SendTyping, Input!TypingSent, Input!TypingFailed
    <3> QED BY <1>1, <3>3 DEF Input!SendTyping, Input!TypingSent, Input!TypingFailed, SayType
  <2>2. NoticeType'
    <3> DEFINE n == <<Here, IF changer[c].focus THEN "yes" ELSE "no">>
    <3>1. n \in Platforms \X {"yes", "no"}
      OBVIOUS
    <3>2. notices' = Append(notices, n) \/ notices' = notices
      BY <1>1 DEF Input!SendTyping, Input!TypingSent, Input!TypingFailed
    <3> HIDE DEF n
    <3> QED BY <3>1, <3>2 DEF NoticeType
  <2> QED BY <1>1, <2>1, <2>2 DEF Input!SendTyping, Input!TypingSent, Input!TypingFailed, ShowType,
             Input!showVars
<1>2. ASSUME NEW c \in Changers, NEW focus \in BOOLEAN, Input!ChangeInputStates(c, focus) PROVE TypingType'
  BY <1>2 DEF Input!ChangeInputStates, SayType, ShowType, NoticeType, Input!showVars, Input!Others
<1>3. CASE Input!SendExpires
  BY <1>3 DEF Input!SendExpires, SayType, ShowType, NoticeType, Input!showVars
<1>4. ASSUME NEW p \in Platforms, NEW tips \in {"yes", "no"}, Input!Elsewhere(p, tips) PROVE TypingType'
  BY <1>4 DEF Input!Elsewhere, SayType, ShowType, NoticeType, Input!showVars, Input!sayVars
<1>5. CASE Input!OnTyping
  <2>1. NoticeType' /\ SayType'
    BY <1>5 DEF Input!OnTyping, SayType, NoticeType, Input!sayVars
  <2>2. Head(notices) \in Platforms \X {"yes", "no"}
    BY <1>5 DEF Input!OnTyping, NoticeType
  <2>3. ShowType'
    BY <1>5, <2>2 DEF Input!OnTyping, ShowType
  <2> QED BY <2>1, <2>3
<1>6. CASE Input!DeleteExpired
  BY <1>6 DEF Input!DeleteExpired, SayType, ShowType, NoticeType, Input!sayVars
<1>7. ASSUME NEW p \in Platforms, Input!Expires(p) PROVE TypingType'
  BY <1>7 DEF Input!Expires, SayType, ShowType, NoticeType, Input!sayVars
<1>8. ASSUME NEW t \in {"worker", "janitor"}, Input!ListStates(t) \/ Input!TellStates(t) PROVE TypingType'
  BY <1>8 DEF Input!ListStates, Input!TellStates, SayType, ShowType, NoticeType, Input!sayVars,
     Input!GetInputStates, Input!NoTelling
<1>9. CASE UNCHANGED Input!typingVars
  BY <1>9 DEF Input!typingVars, Input!sayVars, Input!showVars, SayType, ShowType, NoticeType
<1> QED BY <1>1, <1>2, <1>3, <1>4, <1>5, <1>6, <1>7, <1>8, <1>9 DEF Input!Next

(* Who has been told, and not since, knows. *)
LEMMA ToldNext == TypingType /\ Input!ToldIsShown /\ [Input!Next]_Input!typingVars => Input!ToldIsShown'
<1> SUFFICES ASSUME TypingType, Input!ToldIsShown, [Input!Next]_Input!typingVars PROVE Input!ToldIsShown'
  OBVIOUS
<1> USE DEF TypingType, ShowType, Input!ToldIsShown, Input!GetInputStates
<1>1. CASE UNCHANGED Input!showVars
  BY <1>1 DEF Input!showVars
<1>2. CASE Input!OnTyping
  BY <1>2 DEF Input!OnTyping
<1>3. CASE Input!DeleteExpired
  BY <1>3 DEF Input!DeleteExpired
<1>4. ASSUME NEW p \in Platforms, Input!Expires(p) PROVE Input!ToldIsShown'
  BY <1>4 DEF Input!Expires
<1>5. ASSUME NEW t \in {"worker", "janitor"}, Input!ListStates(t) PROVE Input!ToldIsShown'
  BY <1>5 DEF Input!ListStates
<1>6. ASSUME NEW t \in {"worker", "janitor"}, Input!TellStates(t) PROVE Input!ToldIsShown'
  BY <1>6 DEF Input!TellStates, Input!NoTelling
<1> QED
  BY <1>1, <1>2, <1>3, <1>4, <1>5, <1>6
  DEF Input!Next, Input!SendTyping, Input!TypingSent, Input!TypingFailed, Input!ChangeInputStates,
    Input!SendExpires, Input!Elsewhere, Input!typingVars

(***************************************************************************)
(* The last message on its way says no, or, without one, nobody is shown.  *)
(***************************************************************************)
LastSaid(k) == notices[k][1] = Here /\ \A j \in 1..Len(notices) : j > k => notices[j][1] # Here
SaidNo ==
  /\ \A k \in 1..Len(notices) : LastSaid(k) => notices[k][2] = "no"
  /\ (\A k \in 1..Len(notices) : notices[k][1] # Here) => shown[Here] # "live"

(* A call that is alone has begun with the code that is in send, and then says it. *)
SaidInv ==
  ~swapped =>
    /\ \A c, d \in Changers : changer[c].pc # "idle" /\ changer[d].pc # "idle" => c = d
    /\ \A c \in Changers : sendCode = "end" /\ changer[c].pc = "send" => ~changer[c].focus
    /\ sendCode = "end" /\ (\A c \in Changers : changer[c].pc # "send") => SaidNo

LEMMA SaidAppended ==
  ASSUME NoticeType, NEW p \in Platforms, NEW tips \in {"yes", "no"}, UNCHANGED shown,
         notices' = Append(notices, <<p, tips>>), p = Here => tips = "no", p # Here => SaidNo
  PROVE  SaidNo'
<1>1. /\ Len(notices') = Len(notices) + 1 /\ Len(notices) \in Nat
      /\ notices'[Len(notices) + 1] = <<p, tips>>
      /\ \A k \in 1..Len(notices) : notices'[k] = notices[k]
  BY DEF NoticeType
<1>2. CASE p = Here
  BY <1>1, <1>2 DEF SaidNo, LastSaid
<1>3. CASE p # Here
  BY <1>1, <1>3 DEF SaidNo, LastSaid
<1> QED BY <1>2, <1>3

LEMMA SaidTaken ==
  ASSUME TypingType, SaidNo, Input!OnTyping PROVE SaidNo'
<1> DEFINE p == Head(notices)[1]
           yes == Head(notices)[2] = "yes"
<1>1. /\ Len(notices) \in Nat /\ Len(notices) >= 1 /\ Len(notices') = Len(notices) - 1
      /\ Head(notices) = notices[1] /\ p \in Platforms /\ yes \in BOOLEAN
      /\ Head(notices)[2] \in {"yes", "no"}
      /\ \A k \in 1..Len(notices') : notices'[k] = notices[k + 1]
  BY DEF Input!OnTyping, TypingType, NoticeType
<1>2. IF yes = (shown[p] = "live") THEN UNCHANGED shown
      ELSE shown' = [shown EXCEPT ![p] = IF yes THEN "live" ELSE IF @ = "live" THEN "none" ELSE @]
  BY DEF Input!OnTyping
<1>3. shown \in [Platforms -> {"none", "live", "expired"}]
  BY DEF TypingType, ShowType
<1>4. ASSUME NEW k \in 1..Len(notices'), LastSaid(k)' PROVE notices'[k][2] = "no"
  <2>1. k + 1 \in 1..Len(notices) /\ notices[k + 1][1] = Here
    BY <1>1, <1>4 DEF LastSaid
  <2>2. ASSUME NEW j \in 1..Len(notices), j > k + 1 PROVE notices[j][1] # Here
    <3>1. j - 1 \in 1..Len(notices') /\ j - 1 > k /\ notices'[j - 1] = notices[j]
      BY <1>1, <2>2
    <3> QED BY <3>1, <1>4 DEF LastSaid
  <2> QED BY <1>1, <2>1, <2>2 DEF SaidNo, LastSaid
<1>5. ASSUME \A k \in 1..Len(notices') : notices'[k][1] # Here PROVE shown'[Here] # "live"
  <2>1. \A j \in 2..Len(notices) : notices[j][1] # Here
    <3> SUFFICES ASSUME NEW j \in 2..Len(notices) PROVE notices[j][1] # Here
      OBVIOUS
    <3>1. j - 1 \in 1..Len(notices') /\ notices'[j - 1] = notices[j]
      BY <1>1
    <3> QED BY <3>1, <1>5
  <2>2. CASE p = Here
    <3>1. 1 \in 1..Len(notices) /\ notices[1][2] = "no"
      BY <1>1, <2>1, <2>2 DEF SaidNo, LastSaid
    <3> QED BY <1>1, <1>2, <1>3, <2>2, <3>1, HereAssumption
  <2>3. CASE p # Here
    <3>1. \A k \in 1..Len(notices) : notices[k][1] # Here
      BY <1>1, <2>1, <2>3
    <3> QED BY <1>2, <1>3, <2>3, <3>1, HereAssumption DEF SaidNo
  <2> QED BY <2>2, <2>3
<1> QED BY <1>4, <1>5 DEF SaidNo

LEMMA SaidNext == TypingType /\ SaidInv /\ [Input!Next]_Input!typingVars => SaidInv'
<1> SUFFICES ASSUME TypingType, SaidInv, [Input!Next]_Input!typingVars PROVE SaidInv'
  OBVIOUS
<1>0. /\ sendCode \in {"none", "success", "end"} /\ swapped \in BOOLEAN
      /\ changer \in [Changers -> [pc : {"idle", "send", "wait"}, focus : BOOLEAN]]
  BY DEF TypingType, SayType
<1>1. ASSUME NEW c \in Changers, Input!SendTyping(c) PROVE SaidInv'
  <2>1. /\ UNCHANGED <<sendCode, swapped, shown>> /\ changer[c].pc = "send"
        /\ notices' = Append(notices, <<Here, IF changer[c].focus THEN "yes" ELSE "no">>)
        /\ changer' = [changer EXCEPT ![c].pc = "wait"]
    BY <1>1 DEF Input!SendTyping, Input!showVars
  <2>2. ~swapped /\ sendCode = "end" => SaidNo'
    <3> SUFFICES ASSUME ~swapped, sendCode = "end" PROVE SaidNo'
      OBVIOUS
    <3>1. notices' = Append(notices, <<Here, "no">>)
      BY <2>1 DEF SaidInv
    <3> QED BY <2>1, <3>1, SaidAppended, HereAssumption DEF TypingType
  <2> QED BY <1>0, <2>1, <2>2 DEF SaidInv
<1>2. ASSUME NEW c \in Changers, Input!TypingSent(c) PROVE SaidInv'
  <2>1. /\ UNCHANGED <<sendCode, swapped, shown, notices>> /\ changer[c].pc = "wait"
        /\ changer' = [changer EXCEPT ![c] = Input!NoCall]
    BY <1>2 DEF Input!TypingSent, Input!showVars
  <2>2. SaidNo' = SaidNo
    BY <2>1 DEF SaidNo, LastSaid
  <2> QED BY <1>0, <2>1, <2>2 DEF SaidInv, Input!NoCall
<1>3. ASSUME NEW c \in Changers, Input!TypingFailed(c) PROVE SaidInv'
  BY <1>0, <1>3 DEF Input!TypingFailed, SaidInv, Input!NoCall
<1>4. ASSUME NEW c \in Changers, NEW focus \in BOOLEAN, Input!ChangeInputStates(c, focus) PROVE SaidInv'
  <2>1. /\ sendCode' = IF focus THEN "success" ELSE "end"
        /\ changer' = [changer EXCEPT ![c] = [pc |-> "send", focus |-> focus]]
        /\ swapped' = (Input!Others(c) # {})
    BY <1>4 DEF Input!ChangeInputStates
  <2>2. ~swapped' => \A d \in Changers : d # c => changer[d].pc = "idle"
    BY <2>1 DEF Input!Others
  <2> QED BY <1>0, <2>1, <2>2 DEF SaidInv
<1>5. CASE Input!SendExpires
  BY <1>0, <1>5 DEF Input!SendExpires, SaidInv
<1>6. ASSUME NEW p \in Platforms, NEW tips \in {"yes", "no"}, Input!Elsewhere(p, tips) PROVE SaidInv'
  <2>1. /\ p # Here /\ notices' = Append(notices, <<p, tips>>)
        /\ UNCHANGED <<sendCode, changer, swapped, shown>>
    BY <1>6 DEF Input!Elsewhere, Input!sayVars, Input!showVars
  <2>2. SaidNo => SaidNo'
    BY <2>1, SaidAppended DEF TypingType
  <2> QED BY <2>1, <2>2 DEF SaidInv
<1>7. CASE Input!OnTyping
  <2>1. UNCHANGED <<sendCode, changer, swapped>> /\ (SaidNo => SaidNo')
    BY <1>7, SaidTaken DEF Input!OnTyping, Input!sayVars
  <2> QED BY <2>1 DEF SaidInv
<1>8. CASE Input!DeleteExpired \/ \E p \in Platforms : Input!Expires(p)
  <2>1. UNCHANGED <<sendCode, changer, swapped, notices>>
    BY <1>8 DEF Input!DeleteExpired, Input!Expires, Input!sayVars
  <2>2. shown'[Here] = "live" => shown[Here] = "live"
    BY <1>8, HereAssumption DEF Input!DeleteExpired, Input!Expires, TypingType, ShowType
  <2>3. SaidNo => SaidNo'
    BY <2>1, <2>2 DEF SaidNo, LastSaid
  <2> QED BY <2>1, <2>3 DEF SaidInv
<1>9. CASE UNCHANGED <<Input!sayVars, notices, shown>>
  BY <1>9 DEF Input!sayVars, SaidInv, SaidNo, LastSaid
<1> QED
  BY <1>1, <1>2, <1>3, <1>4, <1>5, <1>6, <1>7, <1>8, <1>9
  DEF Input!Next, Input!ListStates, Input!TellStates, Input!typingVars, Input!showVars

LEMMA SaidShown == SaidInv => Input!SaidIsShown
  BY DEF SaidInv, Input!SaidIsShown, SaidNo

-----------------------------------------------------------------------------
(* Lookup: the database and what memory keeps of it *)

(* The programs that a writer of value v may have left to do, by the kind of the item. *)
Programs(v) ==
  IF about = "group"
  THEN IF v = 0 THEN {<<Memory!Entry(0), Memory!Row(0)>>, <<Memory!Row(0)>>}
       ELSE {<<Memory!Row(v), Memory!Entry(v)>>, <<Memory!Entry(v)>>,
             <<Memory!Entry(0), Memory!Row(0), Memory!Row(v), Memory!Entry(v)>>,
               <<Memory!Row(0), Memory!Row(v), Memory!Entry(v)>>}
  ELSE IF v = 0 THEN {<<Memory!Row(0)>>}
       ELSE {<<Memory!Row(v)>>, <<Memory!Entry(0), Memory!Row(v)>>, <<Memory!Row(0), Memory!Row(v)>>}

Writing(w) == writer[w].pc = "write"
Step(w)    == Head(writer[w].prog)
Working    == {w \in Writers : writer[w].pc \in {"fetched", "write"}}

Steps      == {"row", "cache"} \X Nat
WriterRecs == [pc : {"idle", "sync", "fetched", "write"}, val : Nat, prog : Seq(Steps)]
ReaderRecs == [pc : {"idle", "row", "ask", "store"}, val : Nat, late : BOOLEAN]

ItemType ==
  /\ about \in {"group", "member", "self", "config"}
  /\ srv \in Nat /\ values \in Nat /\ values # 0 /\ noted \in {0, 1} /\ row \in Nat /\ cached \in Nat
  /\ spoiled \in BOOLEAN /\ missed \in BOOLEAN
BusyType == writer \in [Writers -> WriterRecs] /\ reader \in [Readers -> ReaderRecs]

LEMMA Tails ==
  ASSUME NEW a, NEW b, NEW c, NEW d
  PROVE  /\ Head(<<a>>) = a /\ Head(<<a, b>>) = a /\ Head(<<a, b, c>>) = a /\ Head(<<a, b, c, d>>) = a
         /\ Tail(<<a>>) = <<>> /\ Tail(<<a, b>>) = <<b>> 
         /\ Tail(<<a, b, c>>) = <<b, c>>
         /\ Tail(<<a, b, c, d>>) = <<b, c, d>>
<1>1. Tail(<<a>>) = <<>>
 OBVIOUS
<1>2. Tail(<<a, b>>) = <<b>>
 OBVIOUS
<1>3. Tail(<<a, b, c>>) = <<b, c>>
 OBVIOUS
<1>4. Tail(<<a, b, c, d>>) = <<b, c, d>>
 OBVIOUS
<1>5. Head(<<a>>) = a /\ Head(<<a, b>>) = a /\ Head(<<a, b, c>>) = a /\ Head(<<a, b, c, d>>) = a
 OBVIOUS
<1> QED BY <1>1, <1>2, <1>3, <1>4, <1>5

LEMMA ProgramShape ==
  ASSUME NEW v \in Nat, NEW p \in Programs(v)
  PROVE  /\ p # <<>>
         /\ \/ v # 0 /\ about = "group" /\ Head(p) = Memory!Row(v) /\ Tail(p) = <<Memory!Entry(v)>>
            \/ v # 0 /\ about = "group" /\ Head(p) = Memory!Entry(v) /\ Tail(p) = <<>>
            \/ about = "group" /\ Head(p) = Memory!Entry(0) /\ Tail(p) \in Programs(v)
                 /\ Head(Tail(p)) = Memory!Row(0)
            \/ v # 0 /\ Head(p) = Memory!Row(0) /\ Tail(p) \in Programs(v) /\ Head(Tail(p)) = Memory!Row(v)
            \/ v = 0 /\ Head(p) = Memory!Row(0) /\ Tail(p) = <<>>
            \/ v # 0 /\ about # "group" /\ Head(p) = Memory!Row(v) /\ Tail(p) = <<>>
            \/ v # 0 /\ about # "group" /\ Head(p) = Memory!Entry(0) /\ Tail(p) = <<Memory!Row(v)>>
<1>1. CASE about = "group" /\ v = 0
  <2>1. CASE p = <<Memory!Entry(0), Memory!Row(0)>>
    <3>1. Head(p) = Memory!Entry(0) /\ Tail(p) = <<Memory!Row(0)>> /\ Head(<<Memory!Row(0)>>) = Memory!Row(0)
      BY <2>1, Tails
    <3> QED BY <1>1, <2>1, <3>1 DEF Programs
  <2>2. CASE p = <<Memory!Row(0)>>
    <3>1. Head(p) = Memory!Row(0) /\ Tail(p) = <<>>
      BY <2>2, Tails
    <3> QED BY <1>1, <2>2, <3>1
  <2> QED BY <1>1, <2>1, <2>2 DEF Programs
<1>2. CASE about = "group" /\ v # 0
  <2>1. CASE p = <<Memory!Row(v), Memory!Entry(v)>>
    BY <1>2, <2>1, Tails
  <2>2. CASE p = <<Memory!Entry(v)>>
    BY <1>2, <2>2, Tails
  <2>3. CASE p = <<Memory!Entry(0), Memory!Row(0), Memory!Row(v), Memory!Entry(v)>>
    <3>1. Head(p) = Memory!Entry(0) /\ Tail(p) = <<Memory!Row(0), Memory!Row(v), Memory!Entry(v)>>
      BY <2>3, Tails
    <3>2. Head(<<Memory!Row(0), Memory!Row(v), Memory!Entry(v)>>) = Memory!Row(0)
      BY Tails
    <3>3. <<Memory!Row(0), Memory!Row(v), Memory!Entry(v)>> \in Programs(v)
      BY <1>2 DEF Programs
    <3> QED BY <1>2, <2>3, <3>1, <3>2, <3>3
  <2>4. CASE p = <<Memory!Row(0), Memory!Row(v), Memory!Entry(v)>>
    <3>1. Head(p) = Memory!Row(0) /\ Tail(p) = <<Memory!Row(v), Memory!Entry(v)>>
      BY <2>4, Tails
    <3>2. Head(<<Memory!Row(v), Memory!Entry(v)>>) = Memory!Row(v)
      BY Tails
    <3>3. <<Memory!Row(v), Memory!Entry(v)>> \in Programs(v)
      BY <1>2 DEF Programs
    <3> QED BY <1>2, <2>4, <3>1, <3>2, <3>3
  <2> QED BY <1>2, <2>1, <2>2, <2>3, <2>4 DEF Programs
<1>3. CASE about # "group" /\ v = 0
  <2>1. p = <<Memory!Row(0)>>
    BY <1>3 DEF Programs
  <2> QED BY <1>3, <2>1, Tails
<1>4. CASE about # "group" /\ v # 0
  <2>1. CASE p = <<Memory!Row(v)>>
    BY <1>4, <2>1, Tails
  <2>2. CASE p = <<Memory!Entry(0), Memory!Row(v)>>
    BY <1>4, <2>2, Tails
  <2>3. CASE p = <<Memory!Row(0), Memory!Row(v)>>
    <3>1. Head(p) = Memory!Row(0) /\ Tail(p) = <<Memory!Row(v)>>
      BY <2>3, Tails
    <3>2. Head(Tail(p)) = Memory!Row(v)
      BY <3>1, Tails
    <3> QED BY <1>4, <2>3, <3>1, <3>2 DEF Programs
  <2> QED BY <1>4, <2>1, <2>2, <2>3 DEF Programs
<1> QED BY <1>1, <1>2, <1>3, <1>4

LEMMA Joined ==
  ASSUME NEW a, NEW b, NEW c, NEW d
  PROVE  /\ <<a>> \o <<>> = <<a>> /\ <<a, b>> \o <<>> = <<a, b>>
         /\ <<a>> \o <<b>> = <<a, b>> /\ <<a, b>> \o <<c, d>> = <<a, b, c, d>>
<1>1. <<a>> \o <<>> = <<a>>
  OBVIOUS
<1>2. <<a, b>> \o <<>> = <<a, b>>
  OBVIOUS
<1>3. <<a>> \o <<b>> = <<a, b>>
  <2> DEFINE s == <<a>> \o <<b>>
             t == <<a, b>>
  <2>1. <<a>> \in Seq({a, b}) /\ <<b>> \in Seq({a, b}) /\ t \in Seq({a, b})
    OBVIOUS
  <2>2. s \in Seq({a, b}) /\ Len(s) = 2 /\ s[1] = a /\ s[2] = b
    BY <2>1
  <2>3. Len(t) = 2 /\ t[1] = a /\ t[2] = b
    OBVIOUS
  <2> HIDE DEF s, t
  <2>4. s = t
    BY <2>1, <2>2, <2>3, SeqEqual
  <2> QED BY <2>4 DEF s, t
<1>4. <<a, b>> \o <<c, d>> = <<a, b, c, d>>
  <2> DEFINE S == {a, b, c, d}
             s == <<a, b>> \o <<c, d>>
             t == <<a, b, c, d>>
  <2>1. <<a, b>> \in Seq(S) /\ <<c, d>> \in Seq(S) /\ t \in Seq(S)
    OBVIOUS
  <2>2. s \in Seq(S) /\ Len(s) = 4 /\ s[1] = a /\ s[2] = b /\ s[3] = c /\ s[4] = d
    BY <2>1
  <2>3. Len(t) = 4 /\ t[1] = a /\ t[2] = b /\ t[3] = c /\ t[4] = d
    OBVIOUS
  <2> HIDE DEF s, t, S
  <2>4. s = t
    BY <2>1, <2>2, <2>3, SeqEqual
  <2> QED BY <2>4 DEF s, t
<1> QED BY <1>1, <1>2, <1>3, <1>4

(* What Compare makes of a value is one of these programs. *)
LEMMA ComparedShape ==
  ASSUME NEW v \in Nat, about \in {"group", "member", "self"}, about = "self" => v # 0 /\ row # 0
  PROVE  /\ v # row => Memory!Difference(v) \in Programs(v) /\ Memory!Difference(v) # <<>>
         /\ v = row => Memory!Difference(v) = <<>>
         /\ v # row => \A x \in Nat : x # 0 /\ Head(Memory!Difference(v)) = Memory!Row(x) /\ about # "group" =>
              row = 0
         /\ v # row => \A x \in Nat : x # 0 => Head(Memory!Difference(v)) # Memory!Entry(x)
         /\ about = "self" /\ v # row => Memory!Difference(v) = <<Memory!Entry(0), Memory!Row(v)>>
         /\ about # "self" => /\ Memory!Refill(v) \in Programs(v) /\ Memory!Refill(v) # <<>>
                              /\ Head(Memory!Refill(v)) = Memory!Row(0)
                                   \/ Head(Memory!Refill(v)) = Memory!Entry(0)
<1>0. /\ \A x : Memory!Row(x)[1] = "row" /\ Memory!Row(x)[2] = x /\ Memory!Entry(x)[1] = "cache"
           /\ Memory!Entry(x)[2] = x
      /\ \A x, y : Memory!Row(x) # Memory!Entry(y)
  BY DEF Memory!Row, Memory!Entry
<1>1. CASE about = "group"
  <2>1. Memory!Difference(v) = IF v = row THEN <<>> ELSE IF v = 0 THEN <<Memory!Entry(0), Memory!Row(0)>>
          ELSE <<Memory!Row(v), Memory!Entry(v)>>
    BY <1>1 DEF Memory!Difference, Memory!Writes, Memory!GroupWrites
  <2>2. Memory!Refill(v) = IF v = 0 THEN <<Memory!Entry(0), Memory!Row(0)>>
          ELSE <<Memory!Entry(0), Memory!Row(0), Memory!Row(v), Memory!Entry(v)>>
    BY <1>1, Joined DEF Memory!Refill, Memory!Writes, Memory!GroupWrites
  <2>3. /\ v = 0 => <<Memory!Entry(0), Memory!Row(0)>> \in Programs(v)
        /\ v # 0 => <<Memory!Row(v), Memory!Entry(v)>> \in Programs(v)
             /\ <<Memory!Entry(0), Memory!Row(0), Memory!Row(v), Memory!Entry(v)>> \in Programs(v)
    BY <1>1 DEF Programs
  <2>4. /\ Head(<<Memory!Entry(0), Memory!Row(0)>>) = Memory!Entry(0)
             /\ Head(<<Memory!Row(v), Memory!Entry(v)>>) = Memory!Row(v)
        /\ Head(<<Memory!Entry(0), Memory!Row(0), Memory!Row(v), Memory!Entry(v)>>) = Memory!Entry(0)
    BY Tails
  <2>5. \A p \in Programs(v) : p # <<>>
    BY ProgramShape
  <2>6. v # row => Memory!Difference(v) \in Programs(v)
    BY <2>1, <2>3
  <2>7. v # row => \A x \in Nat : x # 0 => Head(Memory!Difference(v)) # Memory!Entry(x)
    BY <1>0, <2>1, <2>4
  <2>8. Memory!Refill(v) \in Programs(v) /\ Head(Memory!Refill(v)) = Memory!Entry(0)
    BY <2>2, <2>3, <2>4
  <2> QED BY <1>1, <2>1, <2>5, <2>6, <2>7, <2>8
<1>2. CASE about = "member"
  <2>1. Memory!Difference(v) = IF v = row THEN <<>> ELSE IF v = 0 THEN <<Memory!Row(0)>>
                        ELSE IF row = 0 THEN <<Memory!Row(v)>> ELSE <<Memory!Entry(0), Memory!Row(v)>>
    BY <1>2 DEF Memory!Difference, Memory!Writes, Memory!MemberWrites
  <2>2. Memory!Refill(v) = IF v = 0 THEN <<Memory!Row(0)>> ELSE <<Memory!Row(0), Memory!Row(v)>>
    BY <1>2, Joined DEF Memory!Refill, Memory!Writes, Memory!MemberWrites
  <2>3. /\ v = 0 => <<Memory!Row(0)>> \in Programs(v)
        /\ v # 0 => <<Memory!Row(v)>> \in Programs(v) /\ <<Memory!Entry(0), Memory!Row(v)>> \in Programs(v)
             /\ <<Memory!Row(0), Memory!Row(v)>> \in Programs(v)
    BY <1>2 DEF Programs
  <2>4. /\ Head(<<Memory!Entry(0), Memory!Row(v)>>) = Memory!Entry(0) /\ Head(<<Memory!Row(v)>>) = Memory!Row(v)
        /\ Head(<<Memory!Row(0)>>) = Memory!Row(0) /\ Head(<<Memory!Row(0), Memory!Row(v)>>) = Memory!Row(0)
    BY Tails
  <2>5. \A p \in Programs(v) : p # <<>>
    BY ProgramShape
  <2>6. v # row => Memory!Difference(v) \in Programs(v)
    BY <2>1, <2>3
  <2>7. v # row => \A x \in Nat : x # 0 => Head(Memory!Difference(v)) # Memory!Entry(x)
    BY <1>0, <2>1, <2>4
  <2>8. Memory!Refill(v) \in Programs(v) /\ Head(Memory!Refill(v)) = Memory!Row(0)
    BY <2>2, <2>3, <2>4
  <2>9. v # row => \A x \in Nat : x # 0 /\ Head(Memory!Difference(v)) = Memory!Row(x) => row = 0
    BY <1>0, <2>1, <2>4
  <2> QED BY <1>2, <2>1, <2>5, <2>6, <2>7, <2>8, <2>9
<1>3. CASE about = "self"
  <2>1. Memory!Difference(v) = IF v = row THEN <<>> ELSE <<Memory!Entry(0), Memory!Row(v)>>
    BY <1>3 DEF Memory!Difference, Memory!Writes, Memory!SelfWrites
  <2>3. <<Memory!Entry(0), Memory!Row(v)>> \in Programs(v)
    BY <1>3 DEF Programs
  <2>4. Head(<<Memory!Entry(0), Memory!Row(v)>>) = Memory!Entry(0)
    BY Tails
  <2>5. \A p \in Programs(v) : p # <<>>
    BY ProgramShape
  <2> QED BY <1>0, <1>3, <2>1, <2>3, <2>4, <2>5
<1> QED BY <1>1, <1>2, <1>3

(* A step of the rest of a program. *)
LEMMA ProgramTyped == ASSUME NEW v \in Nat, NEW p \in Programs(v) PROVE p \in Seq(Steps)
<1>1. Memory!Row(v) \in Steps /\ Memory!Row(0) \in Steps /\ Memory!Entry(v) \in Steps /\ Memory!Entry(0) \in Steps
  BY DEF Memory!Row, Memory!Entry, Steps
<1> HIDE DEF Steps
<1>2. \A a, b, c, d \in Steps : <<a>> \in Seq(Steps) /\ <<a, b>> \in Seq(Steps)
                               /\ <<a, b, c>> \in Seq(Steps) /\ <<a, b, c, d>> \in Seq(Steps)
  OBVIOUS
<1> QED BY <1>1, <1>2 DEF Programs

(***************************************************************************)
(* Only the user's own data are synchronised by two at a time, and then,   *)
(* unless the overlap is recorded, only one of them has the server's value. *)
(***************************************************************************)
AloneInv ==
  /\ about # "self" => \A w, x \in Memory!Busy : w = x
  /\ ~missed => \A w, x \in Working : w = x
  /\ about = "config" => Memory!Busy = {} /\ noted = 0 /\ ~missed
  /\ about # "self" => \A w \in Writers : writer[w].pc # "sync"

ProgInv ==
  /\ \A w \in Writers : Writing(w) => writer[w].prog \in Programs(writer[w].val)
  /\ about = "self" => /\ srv # 0 /\ row # 0
                       /\ \A w \in Writers : writer[w].pc \in {"fetched", "write"} => writer[w].val # 0
                       /\ \A w \in Writers : Writing(w) =>
                            writer[w].prog # <<Memory!Row(0), Memory!Row(writer[w].val)>>

(* The entry is the row's, unless the next write is to make it so. *)
IsOfRow == row # 0 /\ cached # 0 /\ ~spoiled => cached = row
EntryInv ==
  /\ (\A w \in Writers, v \in Nat : Writing(w) /\ v # 0 => Step(w) # Memory!Entry(v)) => IsOfRow
  /\ \A w \in Writers, v \in Nat : Writing(w) /\ v # 0 =>
       /\ Step(w) = Memory!Entry(v) => about = "group" /\ row = v
       /\ Step(w) = Memory!Row(v) /\ about # "group" /\ row # 0 /\ ~spoiled => cached = 0

RowInv ==
  noted = 0 /\ ~missed =>
    /\ Working = {} => row = srv
    /\ \A w \in Working : writer[w].val = srv

(* Whom no synchronisation has met knows the row. *)
ReaderInv ==
  \A r \in Readers : reader[r].pc # "idle" /\ ~reader[r].late =>
     /\ Memory!Busy = {}
     /\ reader[r].pc = "store" /\ reader[r].val # 0 /\ row # 0 => reader[r].val = row

LookType == ItemType /\ BusyType
LookInv  == AloneInv /\ ProgInv /\ EntryInv /\ RowInv /\ ReaderInv

LEMMA LookInit == Memory!Init => LookType /\ LookInv
<1> SUFFICES ASSUME Memory!Init PROVE LookType /\ LookInv
  OBVIOUS
<1>1. Memory!NoWriter \in WriterRecs /\ Memory!NoReader \in ReaderRecs
  BY DEF Memory!NoWriter, Memory!NoReader, WriterRecs, ReaderRecs
<1>2. LookType
  <2>1. ItemType
    <3>1. spoiled \in BOOLEAN /\ missed \in BOOLEAN
      BY DEF Memory!Init
    <3>2. noted \in {0, 1} /\ srv \in Nat /\ values \in Nat /\ values # 0 /\ row \in Nat /\ cached \in Nat
      BY DEF Memory!Init
    <3> QED BY <3>1, <3>2 DEF Memory!Init, ItemType
  <2>2. BusyType
    BY <1>1 DEF Memory!Init, BusyType
  <2> QED BY <2>1, <2>2 DEF LookType
<1>3. (\A w \in Writers : writer[w].pc = "idle") /\ (\A r \in Readers : reader[r].pc = "idle")
  BY DEF Memory!Init, Memory!NoWriter, Memory!NoReader
<1>4. Memory!Busy = {} /\ Working = {} /\ \A w \in Writers : ~Writing(w)
  BY <1>3 DEF Memory!Busy, Working, Writing
<1> QED
  BY <1>2, <1>3, <1>4 DEF Memory!Init, LookInv, AloneInv, ProgInv, EntryInv, IsOfRow, RowInv,
     ReaderInv

(* A change at the server. *)
LEMMA LookChange ==
  ASSUME LookType, LookInv, NEW to \in Nat, Memory!Change(to) PROVE LookType' /\ LookInv'
<1>1. /\ about # "config" /\ srv' = to /\ values' = values + 1 /\ noted' = 1
      /\ to = values + 1 \/ (to = 0 /\ about # "self")
      /\ UNCHANGED <<about, row, cached, writer, reader, spoiled, missed>>
  BY DEF Memory!Change, Memory!busyVars
<1>2. LookType'
  BY <1>1 DEF LookType, ItemType, BusyType
<1>3. values \in Nat
  BY DEF LookType, ItemType
<1>4. Memory!Busy' = Memory!Busy /\ Working' = Working /\ \A w : Writing(w)' = Writing(w) /\ Step(w)' = Step(w)
  BY <1>1 DEF Memory!Busy, Working, Writing, Step
<1> QED
  BY <1>1, <1>2, <1>3, <1>4 DEF LookInv, AloneInv, ProgInv, EntryInv, IsOfRow, RowInv, ReaderInv,
     Programs

(* A synchronisation begins. *)
LEMMA LookFetch ==
  ASSUME LookType, LookInv, NEW w \in Writers, Memory!SyncItem(w) \/ Memory!SyncLoginUserInfo(w)
  PROVE  LookType' /\ LookInv'
<1> DEFINE W == [Memory!NoWriter EXCEPT !.pc = "fetched", !.val = srv]
<1>1. /\ writer' = [writer EXCEPT ![w] = W]
      /\ reader' = [r \in Readers |-> [reader[r] EXCEPT !.late = TRUE]]
      /\ noted' = 0 /\ missed' = (Memory!Busy \ {w} # {})
      /\ UNCHANGED <<about, srv, values, row, cached, spoiled>>
      /\ about # "config" /\ (about # "self" => Memory!Busy = {}) /\ writer[w].pc \in {"idle", "sync"}
  BY DEF Memory!SyncItem, Memory!SyncLoginUserInfo, Memory!FetchItem, Memory!Busy
<1>2. /\ W \in WriterRecs /\ W.pc = "fetched" /\ W.val = srv
  <2>1. Memory!NoWriter \in WriterRecs
    BY DEF Memory!NoWriter, WriterRecs
  <2>2. srv \in Nat
    BY DEF LookType, ItemType
  <2> QED BY <2>1, <2>2 DEF WriterRecs
<1>3. ASSUME NEW r \in Readers PROVE reader'[r] \in ReaderRecs /\ reader'[r].late
  <2>1. reader[r] \in ReaderRecs
    BY DEF LookType, BusyType
  <2> QED BY <1>1, <2>1 DEF ReaderRecs
<1> HIDE DEF W
<1>4. BusyType'
  <2>1. reader' \in [Readers -> ReaderRecs]
    BY <1>1, <1>3
  <2> QED BY <1>1, <1>2, <2>1 DEF LookType, BusyType
<1>5. LookType'
  BY <1>1, <1>4 DEF LookType, ItemType
<1>6. /\ writer'[w] = W /\ \A x \in Writers : x # w => writer'[x] = writer[x]
  BY <1>1 DEF LookType, BusyType
<1>7. /\ Memory!Busy' = Memory!Busy \cup {w} /\ Working' = Working \cup {w} /\ Working \subseteq Memory!Busy
      /\ \A x \in Writers : Writing(x)' => Writing(x) /\ x # w /\ Step(x)' = Step(x)
      /\ \A x \in Writers : Writing(x) => Writing(x)'
  BY <1>1, <1>2, <1>6 DEF Memory!Busy, Working, Writing, Step
<1>8. AloneInv'
  BY <1>1, <1>2, <1>6, <1>7 DEF LookInv, AloneInv
<1>9. ProgInv'
  BY <1>1, <1>2, <1>6, <1>7 DEF LookInv, ProgInv, Programs, Writing
<1>10. EntryInv'
  BY <1>1, <1>7 DEF LookInv, EntryInv, IsOfRow
<1>11. RowInv'
  BY <1>1, <1>2, <1>6, <1>7 DEF RowInv
<1>12. ReaderInv'
  BY <1>3 DEF ReaderInv
<1> QED BY <1>5, <1>8, <1>9, <1>10, <1>11, <1>12 DEF LookInv

(* The application changes its user's data. *)
LEMMA LookSetSelf ==
  ASSUME LookType, LookInv, NEW w \in Writers, Memory!SetSelfInfo(w) PROVE LookType' /\ LookInv'
<1> DEFINE W == [writer[w] EXCEPT !.pc = "sync"]
<1>1. /\ writer' = [writer EXCEPT ![w] = W]
      /\ reader' = [r \in Readers |-> [reader[r] EXCEPT !.late = TRUE]]
      /\ srv' = values + 1 /\ values' = values + 1 /\ noted' = 1
      /\ UNCHANGED <<about, row, cached, spoiled, missed>>
      /\ about = "self" /\ writer[w].pc = "idle"
  BY DEF Memory!SetSelfInfo
<1>2. W \in WriterRecs /\ W.pc = "sync"
  <2>1. writer[w] \in WriterRecs
    BY DEF LookType, BusyType
  <2> QED BY <2>1 DEF WriterRecs
<1>3. ASSUME NEW r \in Readers PROVE reader'[r] \in ReaderRecs /\ reader'[r].late
  <2>1. reader[r] \in ReaderRecs
    BY DEF LookType, BusyType
  <2> QED BY <1>1, <2>1 DEF ReaderRecs
<1> HIDE DEF W
<1>4. BusyType'
  <2>1. reader' \in [Readers -> ReaderRecs]
    BY <1>1, <1>3
  <2> QED BY <1>1, <1>2, <2>1 DEF LookType, BusyType
<1>5. LookType' /\ values \in Nat
  BY <1>1, <1>4 DEF LookType, ItemType
<1>6. /\ writer'[w] = W /\ \A x \in Writers : x # w => writer'[x] = writer[x]
  BY <1>1 DEF LookType, BusyType
<1>7. /\ Working' = Working
      /\ \A x \in Writers : Writing(x)' => Writing(x) /\ x # w /\ Step(x)' = Step(x)
      /\ \A x \in Writers : Writing(x) => Writing(x)'
  BY <1>1, <1>2, <1>6 DEF Working, Writing, Step
<1>8. AloneInv'
  BY <1>1, <1>7 DEF LookInv, AloneInv
<1>9. ProgInv'
  <2>1. \A v : Programs(v)' = Programs(v)
    BY <1>1 DEF Programs
  <2>2. \A x \in Writers : x # w => writer'[x].prog = writer[x].prog /\ writer'[x].val = writer[x].val
    BY <1>6
  <2>3. \A x \in Writers : Writing(x)' => writer'[x].prog \in Programs(writer'[x].val)
    BY <1>7, <2>2 DEF LookInv, ProgInv
  <2>4. srv' # 0 /\ row' # 0
    BY <1>1, <1>5 DEF LookInv, ProgInv
  <2>5. \A x \in Writers : writer'[x].pc \in {"fetched", "write"} => writer'[x].val # 0
    BY <1>1, <1>2, <1>6 DEF LookInv, ProgInv
  <2>6. \A x \in Writers : Writing(x)' => writer'[x].prog # <<Memory!Row(0), Memory!Row(writer'[x].val)>>
    BY <1>1, <1>7, <2>2 DEF LookInv, ProgInv
  <2> QED BY <1>1, <2>1, <2>3, <2>4, <2>5, <2>6 DEF ProgInv, Memory!Row
<1>10. EntryInv'
  BY <1>1, <1>7 DEF LookInv, EntryInv, IsOfRow
<1>11. RowInv'
  BY <1>1 DEF RowInv
<1>12. ReaderInv'
  BY <1>3 DEF ReaderInv
<1> QED BY <1>5, <1>8, <1>9, <1>10, <1>11, <1>12 DEF LookInv

LEMMA StepFacts ==
  /\ \A x : Memory!Row(x)[1] = "row" /\ Memory!Row(x)[2] = x /\ Memory!Entry(x)[1] = "cache"
       /\ Memory!Entry(x)[2] = x
  /\ \A x, y : Memory!Row(x) # Memory!Entry(y) /\ (Memory!Row(x) = Memory!Row(y) => x = y)
       /\ (Memory!Entry(x) = Memory!Entry(y) => x = y)
<1>1. \A x : Memory!Row(x)[1] = "row" /\ Memory!Row(x)[2] = x /\ Memory!Entry(x)[1] = "cache"
        /\ Memory!Entry(x)[2] = x
  BY DEF Memory!Row, Memory!Entry
<1> QED BY <1>1

LEMMA LookCompare ==
  ASSUME LookType, LookInv, NEW w \in Writers, Memory!Compare(w) PROVE LookType' /\ LookInv'
<1> DEFINE v == writer[w].val
<1>1. /\ writer[w].pc = "fetched"
      /\ UNCHANGED <<about, srv, values, noted, row, cached, reader, spoiled, missed>>
  BY DEF Memory!Compare, Memory!itemVars
<1>2. PICK prog \in {Memory!Difference(v)} \cup (IF about = "self" THEN {} ELSE {Memory!Refill(v)}) :
        writer' = [writer EXCEPT ![w] = IF prog = <<>> THEN Memory!NoWriter ELSE [@ EXCEPT !.pc = "write", !.prog = prog]]
  BY DEF Memory!Compare
<1>3. writer[w] \in WriterRecs /\ v \in Nat /\ row \in Nat
  BY DEF LookType, ItemType, BusyType, WriterRecs
<1>4. w \in Memory!Busy /\ w \in Working
  BY <1>1 DEF Memory!Busy, Working
<1>5. about \in {"group", "member", "self"} /\ (about = "self" => v # 0 /\ row # 0)
  BY <1>1, <1>4 DEF LookType, ItemType, LookInv, AloneInv, ProgInv
<1> HIDE DEF v
<1>6. /\ prog = <<>> => v = row
      /\ prog # <<>> => /\ prog \in Programs(v)
                        /\ \A x \in Nat : x # 0 => Head(prog) # Memory!Entry(x)
                        /\ \A x \in Nat : x # 0 /\ Head(prog) = Memory!Row(x) /\ about # "group" => row = 0
                        /\ about = "self" => prog = <<Memory!Entry(0), Memory!Row(v)>>
  BY <1>2, <1>3, <1>5, ComparedShape, StepFacts
<1>7. prog # <<>> => prog \in Seq(Steps)
  BY <1>3, <1>6, ProgramTyped
<1>8. /\ \A x \in Writers : x # w => writer'[x] = writer[x]
      /\ prog = <<>> => writer'[w] = Memory!NoWriter
      /\ prog # <<>> => /\ writer'[w] \in WriterRecs /\ writer'[w].pc = "write" /\ writer'[w].val = v
                        /\ writer'[w].prog = prog
  BY <1>2, <1>3, <1>7 DEF LookType, BusyType, WriterRecs, v
<1>9. Memory!NoWriter \in WriterRecs /\ Memory!NoWriter.pc = "idle"
  BY DEF Memory!NoWriter, WriterRecs
<1>10. LookType'
  <2>1. writer' \in [Writers -> WriterRecs]
    BY <1>2, <1>8, <1>9 DEF LookType, BusyType
  <2> QED BY <1>1, <2>1 DEF LookType, ItemType, BusyType
<1>11. /\ Memory!Busy' \subseteq Memory!Busy /\ Working' \subseteq Working
       /\ Working' = IF prog = <<>> THEN Working \ {w} ELSE Working
  BY <1>4, <1>8, <1>9 DEF Memory!Busy, Working
<1>12. /\ \A x \in Writers : x # w => (Writing(x)' <=> Writing(x)) /\ Step(x)' = Step(x)
       /\ ~Writing(w) /\ (Writing(w)' => prog # <<>> /\ Step(w)' = Head(prog))
  BY <1>1, <1>8, <1>9 DEF Writing, Step
<1>13. AloneInv'
  BY <1>1, <1>8, <1>9, <1>11 DEF LookInv, AloneInv
<1>14. ProgInv'
  <2>1. \A y : Programs(y)' = Programs(y)
    BY <1>1 DEF Programs
  <2>2. \A x \in Writers : Writing(x)' => writer'[x].prog \in Programs(writer'[x].val)
    BY <1>6, <1>8, <1>12 DEF LookInv, ProgInv
  <2>3. \A x \in Writers : about = "self" /\ writer'[x].pc \in {"fetched", "write"} => writer'[x].val # 0
    BY <1>5, <1>8, <1>9 DEF LookInv, ProgInv
  <2>4. <<Memory!Entry(0), Memory!Row(v)>> # <<Memory!Row(0), Memory!Row(v)>>
    <3>1. Head(<<Memory!Entry(0), Memory!Row(v)>>) = Memory!Entry(0)
            /\ Head(<<Memory!Row(0), Memory!Row(v)>>) = Memory!Row(0)
      BY Tails
    <3> QED BY <3>1, StepFacts
  <2>5. \A x \in Writers : about = "self" /\ Writing(x)' =>
          writer'[x].prog # <<Memory!Row(0), Memory!Row(writer'[x].val)>>
    BY <1>6, <1>8, <1>12, <2>4 DEF LookInv, ProgInv
  <2> QED BY <1>1, <2>1, <2>2, <2>3, <2>5 DEF LookInv, ProgInv, Memory!Row
<1>15. EntryInv'
  <2>1. IsOfRow' = IsOfRow
    BY <1>1 DEF IsOfRow
  <2>2. (\A x \in Writers, y \in Nat : Writing(x)' /\ y # 0 => Step(x)' # Memory!Entry(y)) => IsOfRow
    BY <1>12 DEF LookInv, EntryInv
  <2>3. ASSUME NEW x \in Writers, NEW y \in Nat, Writing(x)', y # 0
        PROVE  /\ Step(x)' = Memory!Entry(y) => about = "group" /\ row = y
               /\ Step(x)' = Memory!Row(y) /\ about # "group" /\ row # 0 /\ ~spoiled => cached = 0
    BY <1>6, <1>12, <2>3 DEF LookInv, EntryInv
  <2>4. \A y : Memory!Entry(y)' = Memory!Entry(y) /\ Memory!Row(y)' = Memory!Row(y)
    BY DEF Memory!Entry, Memory!Row
  <2> QED BY <1>1, <2>1, <2>2, <2>3, <2>4 DEF EntryInv
<1>16. RowInv'
  <2> SUFFICES ASSUME noted = 0, ~missed
        PROVE (Working' = {} => row = srv) /\ \A x \in Working' : writer'[x].val = srv
    BY <1>1 DEF RowInv
  <2>1. v = srv /\ \A x \in Working : writer[x].val = srv
    BY <1>4 DEF LookInv, RowInv, v
  <2>2. Working' = {} => prog = <<>>
    BY <1>4, <1>11
  <2>3. Working \subseteq Writers
    BY DEF Working
  <2> QED BY <1>6, <1>8, <1>11, <2>1, <2>2, <2>3
<1>17. ReaderInv'
  BY <1>1, <1>4 DEF LookInv, ReaderInv
<1> QED BY <1>10, <1>13, <1>14, <1>15, <1>16, <1>17 DEF LookInv

(* What a write makes of row and entry, and what is left of its program. *)
LEMMA LookWrite ==
  ASSUME LookType, LookInv, NEW w \in Writers, Memory!Write(w) PROVE LookType' /\ LookInv'
<1> DEFINE v == writer[w].val
           p == writer[w].prog
           rest == Tail(p)
<1>1. /\ writer[w].pc = "write"
      /\ \/ /\ Head(p)[1] = "row" /\ row' = Head(p)[2] /\ UNCHANGED cached
            /\ spoiled' = (spoiled \/ (about # "group" /\ row = 0 /\ Head(p)[2] # cached /\ cached # 0))
         \/ Head(p)[1] = "cache" /\ cached' = Head(p)[2] /\ UNCHANGED row /\ spoiled' = FALSE
      /\ writer' = [writer EXCEPT ![w] = IF rest = <<>> THEN Memory!NoWriter ELSE [@ EXCEPT !.prog = rest]]
      /\ UNCHANGED <<about, srv, values, noted, reader, missed>>
  BY DEF Memory!Write
<1>2. /\ writer[w] \in WriterRecs /\ v \in Nat /\ row \in Nat /\ cached \in Nat
      /\ about \in {"group", "member", "self", "config"}
  BY DEF LookType, ItemType, BusyType, WriterRecs
<1>3. w \in Memory!Busy /\ w \in Working /\ Writing(w) /\ Step(w) = Head(p)
  BY <1>1 DEF Memory!Busy, Working, Writing, Step
<1>4. p \in Programs(v) /\ (about = "self" => v # 0 /\ row # 0 /\ p # <<Memory!Row(0), Memory!Row(v)>>)
  BY <1>1, <1>3 DEF LookInv, ProgInv
<1>5. ASSUME NEW x \in Writers, Writing(x), about # "self" PROVE x = w
  <2>1. x \in Memory!Busy
    BY <1>5 DEF Memory!Busy, Writing
  <2> QED BY <1>3, <1>5, <2>1 DEF LookInv, AloneInv
<1> HIDE DEF v, p, rest
<1>6. \/ v # 0 /\ about = "group" /\ Head(p) = Memory!Row(v) /\ rest = <<Memory!Entry(v)>>
      \/ v # 0 /\ about = "group" /\ Head(p) = Memory!Entry(v) /\ rest = <<>>
      \/ about = "group" /\ Head(p) = Memory!Entry(0) /\ rest \in Programs(v) /\ Head(rest) = Memory!Row(0)
      \/ v # 0 /\ Head(p) = Memory!Row(0) /\ rest \in Programs(v) /\ Head(rest) = Memory!Row(v) /\ about # "self"
      \/ v = 0 /\ Head(p) = Memory!Row(0) /\ rest = <<>> /\ about # "self"
      \/ v # 0 /\ about # "group" /\ Head(p) = Memory!Row(v) /\ rest = <<>>
      \/ v # 0 /\ about # "group" /\ Head(p) = Memory!Entry(0) /\ rest = <<Memory!Row(v)>>
  <2>1. about = "self" /\ v # 0 => p = <<Memory!Row(v)>> \/ p = <<Memory!Entry(0), Memory!Row(v)>>
    BY <1>4 DEF Programs
  <2>2. Head(<<Memory!Row(v)>>) = Memory!Row(v) /\ Head(<<Memory!Entry(0), Memory!Row(v)>>) = Memory!Entry(0)
    BY Tails
  <2>3. about = "self" /\ v # 0 => Head(p) # Memory!Row(0)
    BY <1>2, <2>1, <2>2, StepFacts
  <2> QED BY <1>2, <1>4, <2>3, ProgramShape DEF rest
<1>7. rest = <<>> \/ rest \in Programs(v)
  <2>1. about = "group" /\ v # 0 => <<Memory!Entry(v)>> \in Programs(v)
    BY DEF Programs
  <2>2. about # "group" /\ v # 0 => <<Memory!Row(v)>> \in Programs(v)
    BY DEF Programs
  <2> QED BY <1>6, <2>1, <2>2
<1>8. rest # <<>> => rest \in Seq(Steps)
  BY <1>2, <1>7, ProgramTyped
<1>9. Memory!NoWriter \in WriterRecs /\ Memory!NoWriter.pc = "idle"
  BY DEF Memory!NoWriter, WriterRecs
<1>10. /\ \A x \in Writers : x # w => writer'[x] = writer[x]
       /\ rest = <<>> => writer'[w] = Memory!NoWriter
       /\ rest # <<>> => /\ writer'[w] \in WriterRecs /\ writer'[w].pc = "write" /\ writer'[w].val = v
                         /\ writer'[w].prog = rest
  BY <1>1, <1>2, <1>8 DEF LookType, BusyType, WriterRecs, v
<1>11. LookType'
  <2>1. writer' \in [Writers -> WriterRecs]
    BY <1>1, <1>9, <1>10 DEF LookType, BusyType
  <2>2. row' \in Nat /\ cached' \in Nat
    BY <1>1, <1>2, <1>6, StepFacts
  <2>3. spoiled' \in BOOLEAN
    BY <1>1
  <2> QED BY <1>1, <2>1, <2>2, <2>3 DEF LookType, ItemType, BusyType
<1>12. /\ Memory!Busy' \subseteq Memory!Busy
       /\ Working' = IF rest = <<>> THEN Working \ {w} ELSE Working
  BY <1>3, <1>9, <1>10 DEF Memory!Busy, Working
<1>13. /\ \A x \in Writers : x # w => (Writing(x)' <=> Writing(x)) /\ Step(x)' = Step(x)
       /\ Writing(w)' => rest # <<>> /\ Step(w)' = Head(rest)
       /\ rest # <<>> => Writing(w)'
  BY <1>9, <1>10 DEF Writing, Step
<1>14. AloneInv'
  BY <1>1, <1>9, <1>10, <1>12 DEF LookInv, AloneInv
<1>15. ProgInv'
  <2>1. \A y : Programs(y)' = Programs(y)
    BY <1>1 DEF Programs
  <2>2. \A x \in Writers : Writing(x)' => writer'[x].prog \in Programs(writer'[x].val)
    BY <1>7, <1>10, <1>13 DEF LookInv, ProgInv
  <2>3. \A x \in Writers : about = "self" /\ writer'[x].pc \in {"fetched", "write"} => writer'[x].val # 0
    BY <1>4, <1>9, <1>10 DEF LookInv, ProgInv
  <2>4. <<Memory!Row(v)>> # <<Memory!Row(0), Memory!Row(v)>>
    <3>1. Len(<<Memory!Row(v)>>) = 1 /\ Len(<<Memory!Row(0), Memory!Row(v)>>) = 2
      OBVIOUS
    <3> QED BY <3>1
  <2>5. about = "self" => rest = <<>> \/ rest = <<Memory!Row(v)>>
    BY <1>6
  <2>6. \A x \in Writers : about = "self" /\ Writing(x)' =>
          writer'[x].prog # <<Memory!Row(0), Memory!Row(writer'[x].val)>>
    BY <1>10, <1>13, <2>4, <2>5 DEF LookInv, ProgInv
  <2>7. about = "self" => row' # 0
    BY <1>1, <1>4, <1>6, StepFacts
  <2> QED BY <1>1, <2>1, <2>2, <2>3, <2>6, <2>7 DEF LookInv, ProgInv, Memory!Row
<1>16. EntryInv'
  <2>0. /\ rest = <<Memory!Entry(v)>> => Head(rest) = Memory!Entry(v)
        /\ rest = <<Memory!Row(v)>> => Head(rest) = Memory!Row(v)
    BY Tails
  <2>1. (\A x \in Writers, y \in Nat : Writing(x)' /\ y # 0 => Step(x)' # Memory!Entry(y)) => IsOfRow'
    <3> SUFFICES ASSUME \A x \in Writers, y \in Nat : Writing(x)' /\ y # 0 => Step(x)' # Memory!Entry(y)
                 PROVE  IsOfRow'
      OBVIOUS
    <3>1. CASE v # 0 /\ about = "group" /\ Head(p) = Memory!Row(v) /\ rest = <<Memory!Entry(v)>>
      BY <1>2, <1>13, <2>0, <3>1
    <3>2. CASE v # 0 /\ about = "group" /\ Head(p) = Memory!Entry(v) /\ rest = <<>>
      <4>1. row = v
        BY <1>2, <1>3, <3>2 DEF LookInv, EntryInv
      <4> QED BY <1>1, <3>2, <4>1, StepFacts DEF IsOfRow
    <3>3. CASE Head(p) = Memory!Entry(0) \/ Head(p) = Memory!Row(0)
      BY <1>1, <3>3, StepFacts DEF IsOfRow
    <3>4. CASE v # 0 /\ about # "group" /\ Head(p) = Memory!Row(v) /\ rest = <<>>
      <4>1. row # 0 /\ ~spoiled => cached = 0
        BY <1>2, <1>3, <3>4 DEF LookInv, EntryInv
      <4>2. /\ row' = v /\ cached' = cached
            /\ spoiled' = (spoiled \/ (row = 0 /\ v # cached /\ cached # 0))
        BY <1>1, <3>4, StepFacts
      <4> QED BY <4>1, <4>2 DEF IsOfRow
    <3> QED BY <1>6, <3>1, <3>2, <3>3, <3>4
  <2>2. ASSUME NEW x \in Writers, NEW y \in Nat, Writing(x)', y # 0
        PROVE  /\ Step(x)' = Memory!Entry(y) => about = "group" /\ row' = y
               /\ Step(x)' = Memory!Row(y) /\ about # "group" /\ row' # 0 /\ ~spoiled' => cached' = 0
    <3>1. CASE x = w
      <4>1. CASE v # 0 /\ about = "group" /\ Head(p) = Memory!Row(v) /\ rest = <<Memory!Entry(v)>>
        BY <1>1, <1>13, <2>0, <2>2, <3>1, <4>1, StepFacts
      <4>2. CASE about = "group" /\ Head(p) = Memory!Entry(0) /\ rest \in Programs(v)
              /\ Head(rest) = Memory!Row(0)
        BY <1>1, <1>13, <2>2, <3>1, <4>2, StepFacts
      <4>3. CASE v # 0 /\ Head(p) = Memory!Row(0) /\ rest \in Programs(v) /\ Head(rest) = Memory!Row(v)
              /\ about # "self"
        BY <1>1, <1>13, <2>2, <3>1, <4>3, StepFacts
      <4>4. CASE v # 0 /\ about # "group" /\ Head(p) = Memory!Entry(0) /\ rest = <<Memory!Row(v)>>
        BY <1>1, <1>13, <2>0, <2>2, <3>1, <4>4, StepFacts
      <4> QED BY <1>6, <1>13, <2>2, <3>1, <4>1, <4>2, <4>3, <4>4
    <3>2. CASE x # w
      <4>1. Writing(x) /\ Step(x)' = Step(x) /\ about = "self"
        BY <1>5, <1>13, <2>2, <3>2
      <4>2. /\ Step(x) = Memory!Entry(y) => about = "group"
            /\ Step(x) = Memory!Row(y) /\ ~spoiled => cached = 0
        BY <1>4, <2>2, <4>1 DEF LookInv, EntryInv
      <4>3. ~spoiled' /\ cached' # 0 => ~spoiled /\ cached' = cached
        BY <1>1, <1>6, <4>1, StepFacts
      <4> QED BY <4>1, <4>2, <4>3
    <3> QED BY <3>1, <3>2
  <2>3. \A y : Memory!Entry(y)' = Memory!Entry(y) /\ Memory!Row(y)' = Memory!Row(y)
    BY DEF Memory!Entry, Memory!Row
  <2> QED BY <1>1, <2>1, <2>2, <2>3 DEF EntryInv
<1>17. RowInv'
  <2> SUFFICES ASSUME noted = 0, ~missed
        PROVE (Working' = {} => row' = srv) /\ \A x \in Working' : writer'[x].val = srv
    BY <1>1 DEF RowInv
  <2>1. v = srv /\ \A x \in Working : writer[x].val = srv
    BY <1>3 DEF LookInv, RowInv, v
  <2>2. Working' = {} => rest = <<>>
    BY <1>3, <1>12
  <2>3. rest = <<>> => row' = v
    <3>1. Len(<<Memory!Entry(v)>>) = 1 /\ Len(<<Memory!Row(v)>>) = 1
      OBVIOUS
    <3>2. \A q \in Programs(v) : q # <<>>
      BY <1>2, ProgramShape
    <3>3. Step(w) = Memory!Entry(v) /\ v # 0 => row = v
      BY <1>2, <1>3 DEF LookInv, EntryInv
    <3> QED BY <1>1, <1>3, <1>6, <3>1, <3>2, <3>3, StepFacts
  <2>4. Working \subseteq Writers
    BY DEF Working
  <2> QED BY <1>10, <1>12, <2>1, <2>2, <2>3, <2>4
<1>18. ReaderInv'
  BY <1>1, <1>3 DEF LookInv, ReaderInv
<1> QED BY <1>11, <1>14, <1>15, <1>16, <1>17, <1>18 DEF LookInv

LEMMA LookFails ==
  ASSUME LookType, LookInv, NEW w \in Writers, Memory!SyncItemFails(w) PROVE LookType' /\ LookInv'
<1>1. /\ writer' = [writer EXCEPT ![w] = Memory!NoWriter] /\ missed' = TRUE
      /\ UNCHANGED <<about, srv, values, noted, row, cached, reader, spoiled>>
      /\ writer[w].pc # "idle" /\ (Writing(w) => Step(w)[1] = "row")
  BY DEF Memory!SyncItemFails, Memory!itemVars, Writing, Step
<1>2. Memory!NoWriter \in WriterRecs /\ Memory!NoWriter.pc = "idle"
  BY DEF Memory!NoWriter, WriterRecs
<1>3. writer'[w] = Memory!NoWriter /\ \A x \in Writers : x # w => writer'[x] = writer[x]
  BY <1>1 DEF LookType, BusyType
<1>4. LookType'
  BY <1>1, <1>2 DEF LookType, ItemType, BusyType
<1>5. w \in Memory!Busy /\ Memory!Busy' \subseteq Memory!Busy
  BY <1>1, <1>2, <1>3 DEF Memory!Busy
<1>6. \A x \in Writers : /\ Writing(x)' => Writing(x) /\ x # w /\ Step(x)' = Step(x)
                         /\ x # w => (Writing(x)' <=> Writing(x))
  BY <1>2, <1>3 DEF Writing, Step
<1>7. AloneInv'
  BY <1>1, <1>2, <1>3, <1>5 DEF LookInv, AloneInv
<1>8. ProgInv'
  <2>1. \A y : Programs(y)' = Programs(y)
    BY <1>1 DEF Programs
  <2>2. \A x \in Writers : Writing(x)' => writer'[x].prog \in Programs(writer'[x].val)
    BY <1>3, <1>6 DEF LookInv, ProgInv
  <2>3. \A x \in Writers : about = "self" /\ writer'[x].pc \in {"fetched", "write"} => writer'[x].val # 0
    BY <1>2, <1>3 DEF LookInv, ProgInv
  <2>4. \A x \in Writers : about = "self" /\ Writing(x)' =>
          writer'[x].prog # <<Memory!Row(0), Memory!Row(writer'[x].val)>>
    BY <1>3, <1>6 DEF LookInv, ProgInv
  <2> QED BY <1>1, <2>1, <2>2, <2>3, <2>4 DEF LookInv, ProgInv, Memory!Row
<1>9. EntryInv'
  <2>1. IsOfRow' = IsOfRow
    BY <1>1 DEF IsOfRow
  <2>2. (\A x \in Writers, y \in Nat : Writing(x)' /\ y # 0 => Step(x)' # Memory!Entry(y))
        => \A x \in Writers, y \in Nat : Writing(x) /\ y # 0 => Step(x) # Memory!Entry(y)
    BY <1>1, <1>6, StepFacts
  <2>3. \A y : Memory!Entry(y)' = Memory!Entry(y) /\ Memory!Row(y)' = Memory!Row(y)
    BY DEF Memory!Entry, Memory!Row
  <2> QED BY <1>1, <1>6, <2>1, <2>2, <2>3 DEF LookInv, EntryInv
<1>10. RowInv'
  BY <1>1 DEF RowInv
<1>11. ReaderInv'
  BY <1>1, <1>5 DEF LookInv, ReaderInv
<1> QED BY <1>4, <1>7, <1>8, <1>9, <1>10, <1>11 DEF LookInv

(* A query that begins, goes on or ends, and leaves row and entry alone. *)
LEMMA LookReads ==
  ASSUME LookType, LookInv, NEW r \in Readers, NEW R \in ReaderRecs,
         UNCHANGED <<about, Memory!itemVars, writer, syncs, spoiled, missed>>,
         reader' = [reader EXCEPT ![r] = R],
         R.pc # "idle" /\ ~R.late => /\ Memory!Busy = {}
                                     /\ R.pc = "store" /\ R.val # 0 /\ row # 0 => R.val = row
  PROVE  LookType' /\ LookInv'
<1>1. UNCHANGED <<about, srv, values, noted, row, cached, writer, spoiled, missed>>
  BY DEF Memory!itemVars
<1>2. LookType'
  BY <1>1 DEF LookType, ItemType, BusyType
<1>3. reader'[r] = R /\ \A q \in Readers : q # r => reader'[q] = reader[q]
  BY DEF LookType, BusyType
<1>4. Memory!Busy' = Memory!Busy /\ Working' = Working /\ \A x : Writing(x)' = Writing(x) /\ Step(x)' = Step(x)
  BY <1>1 DEF Memory!Busy, Working, Writing, Step
<1>5. AloneInv' /\ RowInv'
  BY <1>1, <1>4 DEF LookInv, AloneInv, RowInv
<1>6. ProgInv' /\ EntryInv'
  <2>1. ProgInv'
    BY <1>1, <1>4 DEF LookInv, ProgInv, Programs
  <2>2. EntryInv'
    BY <1>1, <1>4 DEF LookInv, EntryInv, IsOfRow
  <2> QED BY <2>1, <2>2
<1>7. ReaderInv'
  BY <1>1, <1>3, <1>4 DEF LookInv, ReaderInv
<1> QED BY <1>2, <1>5, <1>6, <1>7 DEF LookInv

LEMMA LookQuery ==
  ASSUME LookType, LookInv, NEW r \in Readers,
         \/ Memory!GetSpecifiedGroupsInfoSafe(r) \/ Memory!GetGroupMembersInfo(r) \/ Memory!Fetch(r)
              \/ Memory!BatchFetch(r)
         \/ Memory!FetchFromLocal(r) \/ Memory!FetchUser(r) \/ Memory!FetchFromServer(r)
  PROVE  LookType' /\ LookInv'
<1>1. reader[r] \in ReaderRecs /\ row \in Nat /\ srv \in Nat
  BY DEF LookType, ItemType, BusyType
<1>2. reader[r].pc # "idle" /\ ~reader[r].late => Memory!Busy = {}
  BY DEF LookInv, ReaderInv
<1>3. Memory!NoReader \in ReaderRecs /\ Memory!NoReader.pc = "idle"
  BY DEF Memory!NoReader, ReaderRecs
<1>4. ASSUME NEW step \in {"row", "ask"}, Memory!Miss(r, step) PROVE LookType' /\ LookInv'
  <2> DEFINE R == [pc |-> step, val |-> 0, late |-> Memory!Busy # {}]
  <2>1. R \in ReaderRecs /\ R.pc = step /\ (~R.late => Memory!Busy = {})
    BY DEF ReaderRecs
  <2>2. reader' = [reader EXCEPT ![r] = R] /\ UNCHANGED <<about, Memory!itemVars, writer, syncs, spoiled, missed>>
    BY <1>4 DEF Memory!Miss
  <2> HIDE DEF R
  <2> QED BY <1>4, <2>1, <2>2, LookReads
<1>5. ASSUME NEW v \in {row, 0}, Memory!Found(r, v), reader[r].pc # "idle",
             UNCHANGED <<about, Memory!itemVars, writer, syncs, spoiled, missed>>
      PROVE  LookType' /\ LookInv'
  <2> DEFINE R == IF v = 0 THEN [reader[r] EXCEPT !.pc = "ask"] ELSE [reader[r] EXCEPT !.pc = "store", !.val = v]
  <2>1. R \in ReaderRecs /\ R.late = reader[r].late /\ (R.pc = "store" => R.val = v)
    BY <1>1 DEF ReaderRecs
  <2>2. reader' = [reader EXCEPT ![r] = R]
    BY <1>5 DEF Memory!Found
  <2>3. v # 0 => v = row
    BY <1>5
  <2>4. R.pc = "store" => v # 0
    BY <1>1 DEF ReaderRecs
  <2> HIDE DEF R
  <2> QED BY <1>2, <1>5, <2>1, <2>2, <2>3, <2>4, LookReads
<1>6. ASSUME reader' = [reader EXCEPT ![r] = Memory!NoReader],
             UNCHANGED <<about, Memory!itemVars, writer, syncs, spoiled, missed>>
      PROVE  LookType' /\ LookInv'
  BY <1>3, <1>6, LookReads
<1>7. ASSUME Memory!FetchFromServer(r), reader' # [reader EXCEPT ![r] = Memory!NoReader]
        PROVE LookType' /\ LookInv'
  <2> DEFINE R == [pc |-> "store", val |-> srv, late |-> reader[r].late \/ noted # 0 \/ missed]
  <2>1. R \in ReaderRecs
    BY <1>1 DEF ReaderRecs
  <2>2. R.val = srv /\ (~R.late => ~reader[r].late /\ noted = 0 /\ ~missed)
    BY <1>1 DEF ReaderRecs
  <2>3. /\ reader' = [reader EXCEPT ![r] = R] /\ reader[r].pc = "ask"
        /\ UNCHANGED <<about, Memory!itemVars, writer, syncs, spoiled, missed>>
    BY <1>7 DEF Memory!FetchFromServer
  <2>4. ~R.late => Memory!Busy = {}
    BY <1>2, <2>2, <2>3
  <2>5. Memory!Busy = {} => Working = {}
    BY DEF Memory!Busy, Working
  <2>6. ~R.late => row = srv
    BY <2>2, <2>4, <2>5 DEF LookInv, RowInv
  <2> HIDE DEF R
  <2> QED BY <2>1, <2>2, <2>3, <2>4, <2>6, LookReads
<1> QED
  BY <1>4, <1>5, <1>6, <1>7
  DEF Memory!GetSpecifiedGroupsInfoSafe, Memory!GetGroupMembersInfo, Memory!Fetch, Memory!BatchFetch,
    Memory!FetchFromLocal, Memory!FetchUser, Memory!FetchFromServer

LEMMA LookStore ==
  ASSUME LookType, LookInv, NEW r \in Readers, Memory!StoreEntry(r) PROVE LookType' /\ LookInv'
<1>1. /\ reader[r].pc = "store" /\ reader' = [reader EXCEPT ![r] = Memory!NoReader]
      /\ IF reader[r].val = 0 THEN UNCHANGED <<cached, spoiled>>
         ELSE cached' = reader[r].val /\ spoiled' = reader[r].late
      /\ UNCHANGED <<about, srv, values, noted, row, writer, missed>>
  BY DEF Memory!StoreEntry
<1>2. reader[r] \in ReaderRecs /\ reader[r].val \in Nat /\ reader[r].late \in BOOLEAN
  BY DEF LookType, BusyType, ReaderRecs
<1>3. Memory!NoReader \in ReaderRecs /\ Memory!NoReader.pc = "idle"
  BY DEF Memory!NoReader, ReaderRecs
<1>4. LookType'
  <2>1. cached' \in Nat
    BY <1>1, <1>2 DEF LookType, ItemType
  <2>2. spoiled' \in BOOLEAN
    BY <1>1, <1>2 DEF LookType, ItemType
  <2> QED BY <1>1, <1>3, <2>1, <2>2 DEF LookType, ItemType, BusyType
<1>5. reader'[r] = Memory!NoReader /\ \A q \in Readers : q # r => reader'[q] = reader[q]
  BY <1>1 DEF LookType, BusyType
<1>6. Memory!Busy' = Memory!Busy /\ Working' = Working /\ \A x : Writing(x)' = Writing(x) /\ Step(x)' = Step(x)
  BY <1>1 DEF Memory!Busy, Working, Writing, Step
<1>7. AloneInv' /\ RowInv'
  BY <1>1, <1>6 DEF LookInv, AloneInv, RowInv
<1>8. ProgInv'
  BY <1>1, <1>6 DEF LookInv, ProgInv, Programs
<1>9. ReaderInv'
  BY <1>1, <1>3, <1>5, <1>6 DEF LookInv, ReaderInv
<1>10. EntryInv'
  <2>1. CASE reader[r].val = 0
    BY <1>1, <1>6, <2>1 DEF LookInv, EntryInv, IsOfRow
  <2>2. CASE reader[r].val # 0
    <3>1. ~reader[r].late => Memory!Busy = {} /\ (row # 0 => reader[r].val = row)
      BY <1>1, <2>2 DEF LookInv, ReaderInv
    <3>2. IsOfRow'
      BY <1>1, <2>2, <3>1 DEF IsOfRow
    <3>3. \A x \in Writers : Writing(x) => spoiled'
      BY <1>1, <2>2, <3>1 DEF Memory!Busy, Writing
    <3> QED BY <1>1, <1>6, <3>2, <3>3 DEF LookInv, EntryInv
  <2> QED BY <2>1, <2>2
<1> QED BY <1>4, <1>7, <1>8, <1>9, <1>10 DEF LookInv
-----------------------------------------------------------------------------
(***************************************************************************)
(* The current fetch has asked after the last clear.                       *)
(***************************************************************************)
FetchRecs == [pc : {"ask", "end", "ok", "err"}, asked : Nat]
ConfType ==
  /\ fetches \in Seq(FetchRecs) /\ clears \in Nat /\ conf \in 0..Len(fetches)
  /\ getter \in [Readers -> [on : 0..Len(fetches), began : Nat]]
ConfInv ==
  /\ conf # 0 => fetches[conf].asked = clears
  /\ \A f \in 1..Len(fetches) : fetches[f].asked <= clears
  /\ \A r \in Readers : /\ getter[r].began <= clears
                        /\ getter[r].on # 0 => fetches[getter[r].on].asked >= getter[r].began

LEMMA ConfInit == Memory!Init => ConfType /\ ConfInv
  BY DEF Memory!Init, ConfType, ConfInv, Memory!NoGetter

LEMMA ConfGet ==
  ASSUME ConfType, ConfInv, NEW r \in Readers, Memory!GetConfig(r) PROVE ConfType' /\ ConfInv'
<1>1. CASE conf # 0
  <2>1. /\ getter' = [getter EXCEPT ![r] = [on |-> conf, began |-> clears]]
        /\ UNCHANGED <<conf, fetches, clears>>
    BY <1>1 DEF Memory!GetConfig
  <2>2. ConfType'
    BY <2>1 DEF ConfType
  <2>3. ConfInv'
    BY <1>1, <2>1 DEF ConfType, ConfInv
  <2> QED BY <2>2, <2>3
<1>2. CASE conf = 0
  <2> DEFINE n == Len(fetches) + 1
             F == [pc |-> "ask", asked |-> clears]
  <2>1. /\ conf' = n /\ fetches' = Append(fetches, F) /\ clears' = clears
        /\ getter' = [getter EXCEPT ![r] = [on |-> n, began |-> clears]]
    BY <1>2 DEF Memory!GetConfig
  <2>2. F \in FetchRecs /\ F.asked = clears
    BY DEF ConfType, FetchRecs
  <2>3. fetches \in Seq(FetchRecs) /\ Len(fetches) \in Nat /\ clears \in Nat
    BY DEF ConfType
  <2> HIDE DEF F
  <2>4. /\ fetches' \in Seq(FetchRecs) /\ Len(fetches') = n /\ fetches'[n] = F
        /\ \A f \in 1..Len(fetches) : fetches'[f] = fetches[f]
    BY <2>1, <2>2, <2>3
  <2>5. ConfType'
    BY <2>1, <2>3, <2>4 DEF ConfType
  <2>6. getter'[r] = [on |-> n, began |-> clears] /\ \A q \in Readers : q # r => getter'[q] = getter[q]
    BY <2>1 DEF ConfType
  <2>7. \A q \in Readers : getter[q].on \in 0..Len(fetches) /\ getter[q].began \in Nat
    BY DEF ConfType
  <2>8. \A q \in Readers :
          getter'[q].began <= clears /\ (getter'[q].on # 0 => fetches'[getter'[q].on].asked >= getter'[q].began)
    BY <2>2, <2>3, <2>4, <2>6, <2>7 DEF ConfInv
  <2>9. \A f \in 1..n : fetches'[f].asked <= clears
    BY <2>2, <2>3, <2>4 DEF ConfInv
  <2> QED BY <2>1, <2>2, <2>4, <2>5, <2>8, <2>9 DEF ConfInv
<1> QED BY <1>1, <1>2

LEMMA ConfFetch ==
  ASSUME ConfType, ConfInv, NEW f \in DOMAIN fetches, Memory!ConfigAnswered(f) \/ Memory!EndConfig(f)
  PROVE  ConfType' /\ ConfInv'
<1>1. fetches \in Seq(FetchRecs) /\ Len(fetches) \in Nat /\ clears \in Nat /\ f \in 1..Len(fetches)
  BY DEF ConfType
<1>2. fetches[f] \in FetchRecs /\ UNCHANGED <<conf, clears, getter>>
  BY <1>1 DEF Memory!ConfigAnswered, Memory!EndConfig
<1>3. PICK F \in FetchRecs : /\ fetches' = [fetches EXCEPT ![f] = F]
                             /\ F.asked = fetches[f].asked \/ (F.asked = clears /\ conf # f)
  <2>1. ASSUME NEW step \in {"ask", "end", "ok", "err"}
        PROVE  [fetches[f] EXCEPT !.pc = step] \in FetchRecs
          /\ [fetches[f] EXCEPT !.pc = step].asked = fetches[f].asked
    BY <1>2 DEF FetchRecs
  <2>2. [fetches[f] EXCEPT !.asked = clears] \in FetchRecs /\ [fetches[f] EXCEPT !.asked = clears].asked = clears
    BY <1>1, <1>2 DEF FetchRecs
  <2>3. \/ \E step \in {"end", "ok", "err"} : fetches' = [fetches EXCEPT ![f] = [fetches[f] EXCEPT !.pc = step]]
        \/ conf # f /\ fetches' = [fetches EXCEPT ![f] = [fetches[f] EXCEPT !.asked = clears]]
    BY <1>1 DEF Memory!ConfigAnswered, Memory!EndConfig
  <2> QED BY <2>1, <2>2, <2>3
<1>4. /\ fetches' \in Seq(FetchRecs) /\ Len(fetches') = Len(fetches) /\ fetches'[f] = F
      /\ \A g \in 1..Len(fetches) : g # f => fetches'[g] = fetches[g]
  BY <1>1, <1>3
<1>5. ConfType'
  BY <1>2, <1>4 DEF ConfType
<1>6. fetches[f].asked <= F.asked /\ F.asked <= clears /\ F.asked \in Nat /\ fetches[f].asked \in Nat
  BY <1>1, <1>2, <1>3 DEF ConfInv, FetchRecs
<1>7. conf # 0 => fetches'[conf].asked = clears
  BY <1>3, <1>4, <1>6 DEF ConfType, ConfInv
<1>8. \A g \in 1..Len(fetches') : fetches'[g].asked <= clears
  BY <1>4, <1>6 DEF ConfInv
<1>9. \A r \in Readers : getter[r].on # 0 => fetches'[getter[r].on].asked >= getter[r].began
  <2> SUFFICES ASSUME NEW r \in Readers, getter[r].on # 0 PROVE fetches'[getter[r].on].asked >= getter[r].began
    OBVIOUS
  <2>1. getter[r].on \in 1..Len(fetches) /\ getter[r].began \in Nat
    BY DEF ConfType
  <2>2. fetches[getter[r].on].asked >= getter[r].began
    BY DEF ConfInv
  <2> QED BY <1>4, <1>6, <2>1, <2>2
<1> QED BY <1>2, <1>5, <1>7, <1>8, <1>9 DEF ConfInv

LEMMA ConfOther ==
  ASSUME ConfType, ConfInv,
         Memory!ClearConfig \/ (\E r \in Readers : Memory!ConfigReturns(r)) \/ UNCHANGED Memory!confVars
  PROVE  ConfType' /\ ConfInv'
<1>1. CASE Memory!ClearConfig
  <2>1. clears' = clears + 1 /\ conf' = 0 /\ UNCHANGED <<fetches, getter>>
    BY <1>1 DEF Memory!ClearConfig
  <2>2. ConfType'
    BY <2>1 DEF ConfType
  <2>3. \A f \in 1..Len(fetches) : fetches[f].asked \in Nat
    <3>1. \A f \in 1..Len(fetches) : fetches[f] \in FetchRecs
      BY DEF ConfType
    <3> QED BY <3>1 DEF FetchRecs
  <2>4. \A r \in Readers : getter[r].began \in Nat
    BY DEF ConfType
  <2>5. clears \in Nat
    BY DEF ConfType
  <2> QED BY <2>1, <2>2, <2>3, <2>4, <2>5 DEF ConfInv
<1>2. ASSUME NEW r \in Readers, Memory!ConfigReturns(r) PROVE ConfType' /\ ConfInv'
  <2>1. getter' = [getter EXCEPT ![r] = Memory!NoGetter] /\ UNCHANGED <<conf, fetches, clears>>
    BY <1>2 DEF Memory!ConfigReturns
  <2>2. ConfType'
    BY <2>1 DEF ConfType, Memory!NoGetter
  <2>3. ConfInv'
    BY <2>1 DEF ConfType, ConfInv, Memory!NoGetter
  <2> QED BY <2>2, <2>3
<1>3. CASE UNCHANGED Memory!confVars
  BY <1>3 DEF Memory!confVars, ConfType, ConfInv
<1> QED BY <1>1, <1>2, <1>3
-----------------------------------------------------------------------------
LEMMA LookNext ==
  LookType /\ LookInv /\ ConfType /\ ConfInv /\ [Memory!Next]_Memory!lookupVars
    => LookType' /\ LookInv' /\ ConfType' /\ ConfInv'
<1> SUFFICES ASSUME LookType, LookInv, ConfType, ConfInv, [Memory!Next]_Memory!lookupVars
             PROVE  LookType' /\ LookInv' /\ ConfType' /\ ConfInv'
  OBVIOUS
<1>1. ASSUME UNCHANGED <<about, Memory!itemVars, Memory!busyVars>> PROVE LookType' /\ LookInv'
  <2>1. UNCHANGED <<about, srv, values, noted, row, cached, writer, reader, spoiled, missed>>
    BY <1>1 DEF Memory!itemVars, Memory!busyVars
  <2>2. LookType'
    BY <2>1 DEF LookType, ItemType, BusyType
  <2>3. Memory!Busy' = Memory!Busy /\ Working' = Working /\ \A x : Writing(x)' = Writing(x) /\ Step(x)' = Step(x)
    BY <2>1 DEF Memory!Busy, Working, Writing, Step
  <2>4. AloneInv' /\ RowInv' /\ ReaderInv'
    BY <2>1, <2>3 DEF LookInv, AloneInv, RowInv, ReaderInv
  <2>5. ProgInv' /\ EntryInv'
    BY <2>1, <2>3 DEF LookInv, ProgInv, EntryInv, IsOfRow, Programs
  <2> QED BY <2>2, <2>4, <2>5 DEF LookInv
<1>2. ASSUME UNCHANGED Memory!confVars PROVE ConfType' /\ ConfInv'
  BY <1>2, ConfOther
<1>3. ASSUME NEW to \in 0..ItemChanges + 1, Memory!Change(to)
        PROVE LookType' /\ LookInv' /\ UNCHANGED Memory!confVars
  <2>1. to \in Nat
    OBVIOUS
  <2> QED BY <1>3, <2>1, LookChange DEF Memory!Change
<1>4. ASSUME NEW w \in Writers,
             Memory!SyncItem(w) \/ Memory!SyncLoginUserInfo(w) \/ Memory!SetSelfInfo(w) \/ Memory!Compare(w)
               \/ Memory!Write(w) \/ Memory!SyncItemFails(w)
      PROVE  LookType' /\ LookInv' /\ UNCHANGED Memory!confVars
  <2>1. UNCHANGED Memory!confVars
    BY <1>4 DEF Memory!SyncItem, Memory!SyncLoginUserInfo, Memory!FetchItem, Memory!SetSelfInfo,
       Memory!Compare, Memory!Write, Memory!SyncItemFails
  <2> QED BY <1>4, <2>1, LookFetch, LookSetSelf, LookCompare, LookWrite, LookFails
<1>5. ASSUME NEW r \in Readers,
             \/ Memory!GetSpecifiedGroupsInfoSafe(r) \/ Memory!GetGroupMembersInfo(r) \/ Memory!Fetch(r)
                  \/ Memory!BatchFetch(r)
             \/ Memory!FetchFromLocal(r) \/ Memory!FetchUser(r) \/ Memory!FetchFromServer(r)
                  \/ Memory!StoreEntry(r)
      PROVE  LookType' /\ LookInv' /\ UNCHANGED Memory!confVars
  <2>1. UNCHANGED Memory!confVars
    BY <1>5 DEF Memory!GetSpecifiedGroupsInfoSafe, Memory!GetGroupMembersInfo, Memory!Fetch,
       Memory!BatchFetch, Memory!Miss, Memory!FetchFromLocal,
                Memory!FetchUser, Memory!FetchFromServer, Memory!StoreEntry
  <2> QED BY <1>5, <2>1, LookQuery, LookStore
<1>6. ASSUME NEW r \in Readers, Memory!GetConfig(r) \/ Memory!ConfigReturns(r)
      PROVE  ConfType' /\ ConfInv' /\ UNCHANGED <<about, Memory!itemVars, Memory!busyVars>>
  BY <1>6, ConfGet, ConfOther DEF Memory!GetConfig, Memory!ConfigReturns
<1>7. ASSUME NEW f \in DOMAIN fetches, Memory!ConfigAnswered(f) \/ Memory!EndConfig(f)
      PROVE  ConfType' /\ ConfInv' /\ UNCHANGED <<about, Memory!itemVars, Memory!busyVars>>
  BY <1>7, ConfFetch DEF Memory!ConfigAnswered, Memory!EndConfig
<1>8. CASE Memory!ClearConfig
  BY <1>1, <1>8, ConfOther DEF Memory!ClearConfig
<1>9. CASE Memory!Hit \/ UNCHANGED Memory!lookupVars
  BY <1>1, <1>2, <1>9 DEF Memory!Hit, Memory!lookupVars
<1>10. \/ LookType' /\ LookInv' /\ UNCHANGED Memory!confVars
       \/ ConfType' /\ ConfInv' /\ UNCHANGED <<about, Memory!itemVars, Memory!busyVars>>
       \/ LookType' /\ LookInv' /\ ConfType' /\ ConfInv'
  BY <1>3, <1>4, <1>5, <1>6, <1>7, <1>8, <1>9 DEF Memory!Next
<1> QED BY <1>1, <1>2, <1>10

LEMMA LookFollows == LookType /\ LookInv /\ ConfInv => Memory!CachesFollow /\ Memory!NoOldConfig
<1> SUFFICES ASSUME LookType, LookInv, ConfInv PROVE Memory!CachesFollow /\ Memory!NoOldConfig
  OBVIOUS
<1>1. Memory!Busy = {} => Working = {} /\ \A w \in Writers : ~Writing(w)
  BY DEF Memory!Busy, Working, Writing
<1>2. Memory!CachesFollow
  BY <1>1 DEF LookInv, EntryInv, RowInv, IsOfRow, Memory!CachesFollow
<1> QED BY <1>2 DEF ConfInv, Memory!NoOldConfig

-----------------------------------------------------------------------------
(* The scenes together *)

SceneInv == TypingType /\ Input!ToldIsShown /\ SaidInv /\ LookType /\ LookInv /\ ConfType /\ ConfInv

LEMMA ViewVars ==
  /\ UNCHANGED typing => UNCHANGED Input!typingVars
  /\ UNCHANGED lookup => UNCHANGED Memory!lookupVars
<1>1. UNCHANGED typing => UNCHANGED Input!typingVars
  BY DEF typing, Input!typingVars, Input!sayVars, Input!showVars
<1>2. UNCHANGED lookup => UNCHANGED Memory!lookupVars
  BY DEF lookup, Memory!lookupVars, Memory!itemVars, Memory!busyVars, Memory!confVars
<1> QED BY <1>1, <1>2

LEMMA SceneCorrect == JointSpec => []SceneInv
<1>1. JointInit => SceneInv
  <2>1. Input!Init => Input!ToldIsShown /\ SaidInv
    BY DEF Input!Init, Input!ToldIsShown, SaidInv, Input!GetInputStates, Input!NoTelling, Input!NoCall
  <2> QED BY <2>1, TypingTypeInit, LookInit, ConfInit DEF JointInit, SceneInv
<1>2. SceneInv /\ [JointNext]_<<scene, vars, lookup, pages, typing>> => SceneInv'
  <2> SUFFICES ASSUME SceneInv, [JointNext]_<<scene, vars, lookup, pages, typing>> PROVE SceneInv'
    OBVIOUS
  <2>1. [Input!Next]_Input!typingVars /\ [Memory!Next]_Memory!lookupVars
    BY ViewVars DEF JointNext
  <2> QED BY <2>1, TypingTypeNext, ToldNext, SaidNext, LookNext DEF SceneInv
<1> QED BY <1>1, <1>2, PTL DEF JointSpec

(* The application was told of who types (Entering.onNewMsg, the cache's janitor), and the  *)
(* other side is shown what was said last on this device (ChangeInputStates, sendMsg), for  *)
(* any platforms, calls and messages on their way.                                           *)
THEOREM TypingTold == JointSpec => []TypingIsTold
<1>1. SceneInv => TypingIsTold
  BY SaidShown DEF SceneInv, TypingIsTold
<1> QED BY <1>1, SceneCorrect, PTL

(* Between synchronisations what is in memory is what is in the database                    *)
(* (GetSpecifiedGroupsInfoSafe, the cache's Fetch and BatchFetch, the syncers' writes), and *)
(* no call is given a configuration asked for before a clear it came after (GetConfig).     *)
THEOREM MemoryFollows == JointSpec => []MemoryIsCurrent
<1>1. SceneInv => MemoryIsCurrent
  BY LookFollows DEF SceneInv, MemoryIsCurrent
<1> QED BY <1>1, SceneCorrect, PTL
=============================================================================
