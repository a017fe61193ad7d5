------------------------------ MODULE Browser ------------------------------
(***************************************************************************)
(* The WebAssembly build (wasm/event_listener, wasm/exec, wasm/indexdb,    *)
(* internal/third/file/file_js.go).  The page calls the SDK and gets a     *)
(* promise; a goroutine does the call and settles it.  The database and    *)
(* the file that is uploaded are JavaScript's: each statement is an        *)
(* asynchronous function of the page, whose answer Exec awaits for five    *)
(* seconds.  The page does what it was asked even when nobody waits for    *)
(* the answer any more, in an order of its own, and may answer anything.   *)
(*                                                                         *)
(* One row stands for the tables, and its content is the write that made   *)
(* it.  A request is known by its call and its number.                     *)
(***************************************************************************)
EXTENDS Naturals, Sequences, FiniteSets, SequencesExt

CONSTANTS
  Calls,      \* what the page calls
  Uploader,   \* the call that reads a file, if it is one of them
  Statements, \* bound: [Calls -> how many statements it has]
  Size,       \* length of the file
  Buffer      \* readBufferSize

VARIABLES
  promise,    \* [Calls -> "none", "pending", "resolved", "rejected"]
  handlers,   \* [Calls -> resolve and reject are not released]
  at,         \* [Calls -> "none", "run", "wait", "over"]
  number,     \* [Calls -> how many statements it has asked for]
  posted,     \* [Requests -> request]
  answer,     \* [Calls -> what Exec returned last]
  row,        \* the request that wrote it, or None
  file        \* the reader of the file

callVars == <<promise, handlers, at, number>>
browserVars == <<callVars, posted, answer, row, file>>

None == <<"none", 0>>
Requests == UNION {{c} \X (1..Statements[c]) : c \in Calls}

NoRequest == [pc |-> "none", what |-> "row", from |-> 0, length |-> 0, done |-> FALSE, ok |-> FALSE,
              saw |-> None, alone |-> FALSE]
Forgotten == [NoRequest EXCEPT !.pc = "over"]
NoAnswer == [of |-> None, ok |-> FALSE, saw |-> None]

Init ==
  /\ promise = [c \in Calls |-> "none"] /\ handlers = [c \in Calls |-> FALSE]
  /\ at = [c \in Calls |-> "none"] /\ number = [c \in Calls |-> 0]
  /\ posted = [r \in Requests |-> NoRequest] /\ answer = [c \in Calls |-> NoAnswer]
  /\ row = None
  /\ file = [whence |-> 0, buf |-> <<>>, out |-> <<>>, pass |-> 0]

Current(c) == <<c, number[c]>>
-----------------------------------------------------------------------------
(* SendMessage settles the promise and releases its functions. *)
SendMessage(c, how) ==
  /\ promise' = [promise EXCEPT ![c] = how]
  /\ handlers' = [handlers EXCEPT ![c] = FALSE]
  /\ at' = [at EXCEPT ![c] = "over"]

(* HandlerFunc: the promise, and the conversion of the arguments.  What does not convert *)
(* panics and is rejected at once (ErrHandle); else a goroutine does the call.            *)
HandlerFunc(c) ==
  /\ at[c] = "none"
  /\ \/ /\ promise' = [promise EXCEPT ![c] = "pending"] /\ handlers' = [handlers EXCEPT ![c] = TRUE]
        /\ at' = [at EXCEPT ![c] = "run"]
     \/ SendMessage(c, "rejected")
  /\ UNCHANGED <<number, posted, answer, row, file>>

(* The end of the call: its callback, or what its function returned (AsyncCallWithCallback, *)
(* asyncCallWithOutCallback); an upload that succeeds has read the file to its end.         *)
OnSuccess(c) ==
  /\ at[c] = "run" /\ handlers[c]
  /\ c = Uploader => file.pass = 3
  /\ SendMessage(c, "resolved") /\ UNCHANGED <<number, posted, answer, row, file>>

OnError(c) ==
  /\ at[c] = "run" /\ handlers[c]
  /\ SendMessage(c, "rejected") /\ UNCHANGED <<number, posted, answer, row, file>>
-----------------------------------------------------------------------------
Writes == {"write", "mark"}
Outstanding == {r \in Requests : posted[r].pc = "sent" /\ posted[r].what \in Writes}

(* Exec calls the function of the page and waits. *)
Exec(c, request) ==
  /\ at[c] = "run" /\ number[c] < Statements[c]
  /\ number' = [number EXCEPT ![c] = @ + 1] /\ at' = [at EXCEPT ![c] = "wait"]
  /\ posted' = [r \in Requests |->
       IF r = <<c, number[c] + 1>> THEN [request EXCEPT !.pc = "sent", !.alone = request.what \in Writes /\ Outstanding = {}]
       ELSE IF r[1] = c /\ posted[r].pc = "over" THEN Forgotten
       ELSE IF request.what \in Writes THEN [posted[r] EXCEPT !.alone = FALSE] ELSE posted[r]]
  /\ answer' = [answer EXCEPT ![c] = NoAnswer]
  /\ UNCHANGED <<promise, handlers, row>>

(***************************************************************************)
(* What the functions of indexdb ask of each table: a row, a list or a     *)
(* number, the latest message, that something is written, or that rows are *)
(* marked and counted.                                                     *)
(***************************************************************************)
ChatLogs        == {"row", "list", "latest", "write", "mark"}
Conversations   == {"row", "list", "write"}
Groups          == {"row", "list", "write"}
GroupMembers    == {"row", "list", "write"}
Friends         == {"row", "list", "write"}
Blacks          == {"row", "list", "write"}
Users           == {"row", "write"}
Notifications   == {"list", "write"}
SendingMessages == {"list", "write"}
Uploads         == {"row", "write"}
Versions        == {"row", "write"}

Tables == {ChatLogs, Conversations, Groups, GroupMembers, Friends, Blacks, Users, Notifications,
           SendingMessages, Uploads, Versions}

(* A function of a table (the statements of an upload are in Upload). *)
Statement(c, what) ==
  /\ c # Uploader /\ \E table \in Tables : what \in table
  /\ Exec(c, [NoRequest EXCEPT !.what = what]) /\ UNCHANGED file

GetMessage(c) == Statement(c, "row")
GetMessageList(c) == Statement(c, "list")
GetLatestValidServerMessage(c) == Statement(c, "latest")
UpdateMessage(c) == Statement(c, "write")
MarkConversationMessageAsRead(c) == Statement(c, "mark")

(* The page does it, and says that it did, or that there is no row; or something went wrong, *)
(* before or after; a text that is no answer and an object are not what Exec expects of all. *)
Replies(r) ==
  {"data", "text", "object", "error"} \cup
    IF posted[r].what \in {"row", "latest"} /\ row = None THEN {"notFound"} ELSE {}

(* What the functions of indexdb make of what Exec returns: a write looks at the error only, *)
(* and a text that is no answer wraps no error; a count must be a number.                    *)
Accepts(what) ==
  CASE what \in {"write", "close"} -> {"data", "text", "object"}
    [] what \in {"row", "list", "mark", "open"} -> {"data"}
    [] what = "latest" -> {"data", "notFound"}
    [] what = "file"   -> {"object"}

Page(r, reply) ==
  /\ posted[r].pc = "sent"
  /\ posted[r].what \in {"row", "latest"} /\ row = None => reply \in {"notFound", "error"}
  /\ \E done \in {TRUE} \cup (IF reply = "error" THEN {FALSE} ELSE {}) :
       LET ok == reply \in Accepts(posted[r].what) IN
       /\ posted' = [posted EXCEPT ![r] = [@ EXCEPT !.pc = "replied", !.done = done, !.ok = ok,
                                                 !.saw = IF ok /\ posted[r].what \notin Writes THEN row ELSE None]]
       /\ row' = IF posted[r].what \in Writes /\ done THEN r ELSE row
  /\ UNCHANGED <<callVars, answer, file>>

(* Mutant: one channel for all calls of a function. *)
Waits_Shared(c, r) == at[c] = "wait" /\ r[1] = c /\ posted[r].what = posted[Current(c)].what

(* Each Exec has channels of its own. *)
Waits(c, r) == at[c] = "wait" /\ r = Current(c)

(* The answer comes: to the Exec that waits, or to a function that was released. *)
Then(r) ==
  /\ posted[r].pc = "replied"
  /\ IF Waits(r[1], r)
     THEN /\ posted' = [posted EXCEPT ![r].pc = "over"]
          /\ at' = [at EXCEPT ![r[1]] = "run"]
          /\ answer' = [answer EXCEPT ![r[1]] =
               [of |-> Current(r[1]), ok |-> posted[r].ok, saw |-> posted[r].saw]]
     ELSE posted' = [posted EXCEPT ![r] = Forgotten] /\ UNCHANGED <<at, answer>>
  /\ UNCHANGED <<promise, handlers, number, row, file>>

(* Five seconds: Exec panics, recovers and returns an error. *)
Timeout(c) ==
  /\ at[c] = "wait"
  /\ at' = [at EXCEPT ![c] = "run"]
  /\ answer' = [answer EXCEPT ![c] = [NoAnswer EXCEPT !.of = Current(c)]]
  /\ UNCHANGED <<promise, handlers, number, posted, row, file>>
-----------------------------------------------------------------------------
(* The file is read from its begin to its end twice: for the hashes (pass 1), and to send it *)
(* (pass 2).                                                                                 *)
WasmOpen ==
  /\ file.pass = 0 /\ number[Uploader] = 0
  /\ Exec(Uploader, [NoRequest EXCEPT !.what = "open"]) /\ UNCHANGED file

Opened ==
  /\ file.pass = 0 /\ at[Uploader] = "run" /\ answer[Uploader].ok
  /\ file' = [file EXCEPT !.pass = 1] /\ answer' = [answer EXCEPT ![Uploader] = NoAnswer]
  /\ UNCHANGED <<callVars, posted, row>>

Reading == file.pass \in {1, 2} /\ file.buf = <<>> /\ at[Uploader] = "run"

(* read: what is left of the file, at most a buffer. *)
WasmRead ==
  /\ Reading /\ file.whence < Size /\ answer[Uploader] = NoAnswer
  /\ Exec(Uploader, [NoRequest EXCEPT !.what = "file", !.from = file.whence,
            !.length = IF file.whence + Buffer > Size THEN Size - file.whence ELSE Buffer])
  /\ UNCHANGED file

(* The page may give less than it was asked for. *)
Fill ==
  /\ Reading /\ answer[Uploader].ok
  /\ LET req == posted[answer[Uploader].of] IN
       \E n \in 1..req.length :
         file' = [file EXCEPT !.whence = @ + n, !.buf = [i \in 1..n |-> req.from + i]]
  /\ answer' = [answer EXCEPT ![Uploader] = NoAnswer]
  /\ UNCHANGED <<callVars, posted, row>>

(* Read: the hash or the request takes what the buffer has, or less. *)
Read ==
  /\ file.pass \in {1, 2} /\ at[Uploader] = "run"
  /\ \E n \in 1..Len(file.buf) :
       file' = [file EXCEPT !.out = @ \o SubSeq(file.buf, 1, n), !.buf = SubSeq(@, n + 1, Len(@))]
  /\ UNCHANGED <<callVars, posted, answer, row>>

(* StartSeek: from the beginning again, with an empty buffer. *)
StartSeek ==
  /\ Reading /\ file.pass = 1 /\ file.whence = Size
  /\ file' = [whence |-> 0, buf |-> <<>>, out |-> <<>>, pass |-> 2]
  /\ UNCHANGED <<callVars, posted, answer, row>>

(* Close, whatever its answer is. *)
WasmClose ==
  /\ Reading /\ file.pass = 2 /\ file.whence = Size
  /\ Exec(Uploader, [NoRequest EXCEPT !.what = "close"])
  /\ file' = [file EXCEPT !.pass = 3]

Next ==
  \/ \E c \in Calls : \/ HandlerFunc(c) \/ OnSuccess(c) \/ OnError(c) \/ Timeout(c)
                      \/ GetMessage(c) \/ GetMessageList(c) \/ GetLatestValidServerMessage(c)
                      \/ UpdateMessage(c) \/ MarkConversationMessageAsRead(c)
  \/ \E r \in Requests : Then(r) \/ \E reply \in Replies(r) : Page(r, reply)
  \/ Uploader \in Calls /\ (WasmOpen \/ Opened \/ WasmRead \/ Fill \/ Read \/ StartSeek \/ WasmClose)

Spec == Init /\ [][Next]_browserVars

TypeOK ==
  /\ promise \in [Calls -> {"none", "pending", "resolved", "rejected"}] /\ handlers \in [Calls -> BOOLEAN]
  /\ at \in [Calls -> {"none", "run", "wait", "over"}]
  /\ \A c \in Calls : number[c] \in 0..Statements[c]
  /\ DOMAIN posted = Requests /\ row \in Requests \cup {None}
  /\ file.whence \in 0..Size /\ file.buf \in Seq(1..Size) /\ file.out \in Seq(1..Size) /\ file.pass \in 0..3
-----------------------------------------------------------------------------
(* A promise is pending exactly while a goroutine does its call, which can settle it. *)
PromisesAreKept ==
  \A c \in Calls : /\ (promise[c] = "pending") <=> (at[c] \in {"run", "wait"})
                   /\ (promise[c] = "pending") <=> handlers[c]

(***************************************************************************)
(* What a call is told is the answer to what it posted, not one that comes  *)
(* late to an earlier statement of its own: a statement that succeeded was *)
(* done by the page, and the row was as it was told.                       *)
(***************************************************************************)
AnswersAreOwn ==
  \A c \in Calls : LET a == answer[c] IN
     a.ok => posted[a.of].done /\ a.saw = posted[a.of].saw

(* A write that succeeded while no other was under way or left behind by a timeout is what *)
(* the row has.                                                                             *)
LastWriteStays ==
  \A c \in Calls : LET a == answer[c] IN
     a.ok /\ posted[a.of].what \in Writes /\ posted[a.of].alone => row = a.of

(* Hash and request read the same bytes: each of the file once and in order. *)
FileIsWhole ==
  /\ \A i \in 1..Len(file.out) : file.out[i] = i
  /\ file.pass = 3 => Len(file.out) = Size
=============================================================================
