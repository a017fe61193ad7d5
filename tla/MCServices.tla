----------------------------- MODULE MCServices -----------------------------
(***************************************************************************)
(* Four parts that share no state, explored by one run: a behaviour is     *)
(* about one of them (scene), and the others stay as they begin.  The      *)
(* browser is seen twice, with calls that use the database (page) and with *)
(* an upload that reads its file (file).                                   *)
(***************************************************************************)
EXTENDS Conversation

CONSTANTS
  People, Queries, Way,                          \* of Presence
  Apps, Callers, ErrorKinds, Epochs, Attempts,   \* of Session
  PageCalls, Upload, StatementsOf, FileSize, BufferSize    \* of Browser

(* The number of an epoch also names its logoutListener, and so no call of the application. *)
ASSUME EpochAssumption == Epochs \in Nat \ {0} /\ Attempts \in Nat /\ Apps \cap (1..Epochs) = {}

ASSUME BrowserAssumption ==
  /\ Upload \notin PageCalls /\ StatementsOf \in [PageCalls \cup {Upload} -> Nat]
  /\ FileSize \in Nat /\ BufferSize \in Nat \ {0}

(* Two calls, of two statements and of one, and an upload: open, three reads at most in each *)
(* pass, close.                                                                              *)
FewStatements == [c \in {"p", "q", "u"} |-> IF c = "p" THEN 2 ELSE IF c = "q" THEN 1 ELSE 8]

VARIABLES
  scene,
  state, subs, toServer, toClient, link, load, unsub, query, lost,
  inited, status, epoch, attempt, db, opened, comp, live, runs, asked, errorsTold,
  proc, apiCall, torn,
  promise, handlers, at, number, posted, answer, row, file

Online == INSTANCE Presence WITH Users <- People

Login == INSTANCE Session WITH Calls <- Callers, Kinds <- ErrorKinds

Js == INSTANCE Browser WITH
  Calls <- PageCalls \cup {Upload}, Uploader <- Upload, Statements <- StatementsOf,
  Size <- FileSize, Buffer <- BufferSize

presence == <<state, subs, toServer, toClient, link, load, unsub, query, lost>>
session == <<inited, status, epoch, attempt, db, opened, comp, live, runs, asked, errorsTold,
             proc, apiCall, torn>>
browser == <<promise, handlers, at, number, posted, answer, row, file>>

JointInit ==
  /\ scene \in {"conversation", "presence", "session", "page", "file"}
  /\ Init /\ Online!Init /\ Login!Init /\ Js!Init
  /\ scene # "conversation" => single /\ serial

JointNext ==
  /\ UNCHANGED scene
  /\ \/ scene = "conversation" /\ Next /\ UNCHANGED <<presence, session, browser>>
     \/ scene = "presence" /\ Online!Next /\ UNCHANGED <<vars, session, browser>>
     \/ scene = "session" /\ Login!Next /\ UNCHANGED <<vars, presence, browser>>
     \/ scene = "page" /\ Js!Next /\ at'[Upload] = "none" /\ UNCHANGED <<vars, presence, session>>
     \/ /\ scene = "file" /\ Js!Next /\ \A c \in PageCalls : at'[c] = "none"
        /\ UNCHANGED <<vars, presence, session>>

JointSpec == JointInit /\ [][JointNext]_<<scene, vars, presence, session, browser>>

(* Bounds: the worker's queue gets shorter with every operation; while two queries are under *)
(* way the connection has nothing else on it; two statements are with the page at a time.    *)
Few ==
  /\ scene = "conversation" => ops + Len(queue) <= MaxOps + 1
  /\ scene = "presence" /\ (\A q \in Queries : query[q].pc # "idle") => toServer = <<>> /\ toClient = <<>>
  /\ scene = "page" => Cardinality({r \in Js!Requests : posted[r].pc \in {"sent", "replied"}}) <= 2

(* Presence: no subscription is forgotten while its entry is there. *)
EntriesLive == Online!EntriesLive

(* Session: who is logged in has one whole session, and what has ended is over. *)
OneSession == Login!OneSession

(* Browser: a promise is pending exactly while a goroutine can settle it, what a call is told *)
(* is the answer to what it asked, a write that was alone stays, and the file is read whole.  *)
PageIsAnswered == Js!PromisesAreKept /\ Js!AnswersAreOwn /\ Js!LastWriteStays /\ Js!FileIsWhole
=============================================================================
