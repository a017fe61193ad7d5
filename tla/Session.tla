------------------------------ MODULE Session ------------------------------
(***************************************************************************)
(* Logging in and out (open_im_sdk/userRelated.go, init_login.go, apicb.go,*)
(* caller.go, pkg/db/db_init.go).  There is one UserContext; its fields    *)
(* are replaced, without a lock, by each initResources: an epoch has a     *)
(* context, components and a channel of requests to log out.  A login      *)
(* opens a database, gives it to the components and starts their           *)
(* goroutines; a logout cancels the context, closes the database and       *)
(* begins the next epoch.  Every call of the application runs in a         *)
(* goroutine of its own, on the component that it found when it was made.  *)
(*                                                                         *)
(* A login and its user are known by the number of the attempt.  The steps *)
(* of a login and a logout read the fields as they are when they run; what *)
(* they do to the fields of an epoch they did not begin in is recorded     *)
(* (torn), because nothing in the code prevents it.                        *)
(***************************************************************************)
EXTENDS Naturals, FiniteSets

CONSTANTS
  Apps,        \* the application's calls of Login and Logout at the same time
  Calls,       \* its other calls
  Kinds,       \* the errors of the API that end a session, each told once in an epoch
  Epochs,      \* bound: how often initResources runs
  Attempts     \* bound: logins

VARIABLES
  inited,      \* info.IMConfig # nil
  status,      \* loginStatus: "none", "logout", "logging", "logged"
  epoch,       \* the current fields: u.ctx, the components, u.loginMgrCh
  attempt,     \* info.UserID, info.Token
  db,          \* u.db: the attempt it was opened for, 0: nil
  opened,      \* attempts whose database is open
  comp,        \* [1..Epochs -> the database and user of the epoch's components, 0: none]
  live,        \* [1..Epochs -> the context is not cancelled]
  runs,        \* [1..Epochs -> how many sets of goroutines were started on the context]
  asked,       \* [1..Epochs -> a request is in loginMgrCh]
  errorsTold,  \* [1..Epochs -> subset of Kinds]
  proc,        \* [Apps \cup 1..Epochs -> what a login, logout or logoutListener is about to do]
  apiCall,     \* [Calls -> call]
  torn         \* history: an operation's step met an epoch that it had not begun in,
               \* or two logins overlapped

fields == <<inited, status, epoch, attempt, db, opened, comp, live, runs>>
errors == <<asked, errorsTold>>
sessionVars == <<fields, errors, proc, apiCall, torn>>

Idle == [pc |-> "idle", in |-> 0, no |-> 0]
NoApiCall == [pc |-> "idle", on |-> 0, kind |-> "call"]

Init ==
  /\ inited = FALSE /\ status = "logout" /\ epoch = 1 /\ attempt = 0
  /\ db = 0 /\ opened = {} /\ comp = [e \in 1..Epochs |-> 0]
  /\ live = [e \in 1..Epochs |-> TRUE] /\ runs = [e \in 1..Epochs |-> 0]
  /\ asked = [e \in 1..Epochs |-> FALSE] /\ errorsTold = [e \in 1..Epochs |-> {}]
  /\ proc = [t \in Apps \cup 1..Epochs |-> Idle]
  /\ apiCall = [c \in Calls |-> NoApiCall] /\ torn = FALSE
-----------------------------------------------------------------------------
InitSDK ==
  /\ ~inited /\ inited' = TRUE
  /\ UNCHANGED <<status, epoch, attempt, db, opened, comp, live, runs, errors, proc, apiCall, torn>>

UnInitSDK ==
  /\ inited /\ status # "logged"
  /\ inited' = FALSE /\ status' = "none"
  /\ UNCHANGED <<epoch, attempt, db, opened, comp, live, runs, errors, proc, apiCall, torn>>

LoginSteps == {"open", "set", "run", "logged"}
LogoutSteps == {"exit", "close", "reset"}
Met(t) == torn' = (torn \/ proc[t].in # epoch)
Goto(t, pc) == proc' = [proc EXCEPT ![t].pc = pc]
End(t) == proc' = [proc EXCEPT ![t] = Idle]

(* login: not when someone is logged in; after a failed or during another login. *)
Login(t) ==
  /\ proc[t].pc = "idle" /\ inited /\ status # "logged"
  /\ attempt < Attempts
  /\ status' = "logging" /\ attempt' = attempt + 1
  /\ proc' = [proc EXCEPT ![t] = [pc |-> "open", in |-> epoch, no |-> attempt + 1]]
  /\ torn' = (torn \/ \E p \in Apps : proc[p].pc \in LoginSteps)
  /\ UNCHANGED <<inited, epoch, db, opened, comp, live, runs, errors, apiCall>>

(* NewDataBase returns an object that u.db takes even when it cannot be opened; without a *)
(* configuration the login panics before.                                                *)
OpenDatabase(t) ==
  /\ proc[t].pc = "open" /\ db' = IF inited THEN proc[t].no ELSE db
  /\ \/ inited /\ opened' = opened \cup {proc[t].no} /\ Goto(t, "set")
     \/ opened' = opened /\ End(t)
  /\ Met(t)
  /\ UNCHANGED <<inited, status, epoch, attempt, comp, live, runs, errors, apiCall>>

(* Mutant: the components are given their database only once. *)
Initialize_Once(t) ==
  /\ proc[t].pc = "set"
  /\ comp' = [comp EXCEPT ![epoch] = IF @ = 0 THEN db ELSE @]
  /\ (inited /\ Goto(t, "run")) \/ End(t)
  /\ Met(t)
  /\ UNCHANGED <<inited, status, epoch, attempt, db, opened, live, runs, errors, apiCall>>

(* The rest of initialize: the components get database and user; LoadSeq may fail. *)
Initialize(t) ==
  /\ proc[t].pc = "set"
  /\ comp' = [comp EXCEPT ![epoch] = db]
  /\ (inited /\ Goto(t, "run")) \/ End(t)
  /\ Met(t)
  /\ UNCHANGED <<inited, status, epoch, attempt, db, opened, live, runs, errors, apiCall>>

(* run: the goroutines, with the one that waits for requests to log out. *)
Run(t) ==
  /\ proc[t].pc = "run"
  /\ runs' = [runs EXCEPT ![epoch] = @ + 1]
  /\ proc' = [proc EXCEPT ![t].pc = "logged", ![epoch] = [Idle EXCEPT !.pc = "wait", !.in = epoch]]
  /\ Met(t)
  /\ UNCHANGED <<inited, status, epoch, attempt, db, opened, comp, live, errors, apiCall>>

SetLogged(t) ==
  /\ proc[t].pc = "logged" /\ status' = "logged" /\ End(t) /\ Met(t)
  /\ UNCHANGED <<inited, epoch, attempt, db, opened, comp, live, runs, errors, apiCall>>
-----------------------------------------------------------------------------
(* Logout: first up to twenty seconds for the server's answer. *)
Logout(t) ==
  /\ proc[t].pc = "idle" /\ inited /\ status = "logged"
  /\ proc' = [proc EXCEPT ![t] = [pc |-> "exit", in |-> epoch, no |-> 0]]
  /\ UNCHANGED <<fields, errors, apiCall, torn>>

(* The context is cancelled; a listener that waits in its select wakes up to that at once. *)
Exit(t) ==
  /\ proc[t].pc = "exit" /\ live' = [live EXCEPT ![epoch] = FALSE]
  /\ proc' = [[proc EXCEPT ![epoch] = IF @.pc = "wait" THEN Idle ELSE @] EXCEPT ![t].pc = "close"]
  /\ Met(t)
  /\ UNCHANGED <<inited, status, epoch, attempt, db, opened, comp, runs, errors, apiCall>>

CloseDatabase(t) ==
  /\ proc[t].pc = "close" /\ opened' = opened \ {db}
  /\ Goto(t, "reset") /\ Met(t)
  /\ UNCHANGED <<inited, status, epoch, attempt, db, comp, live, runs, errors, apiCall>>

(* initResources *)
InitResources(t) ==
  /\ proc[t].pc = "reset" /\ epoch < Epochs
  /\ epoch' = epoch + 1 /\ status' = "logout"
  /\ proc' = [proc EXCEPT ![t] = IF t \in Apps THEN Idle
                                 ELSE [Idle EXCEPT !.pc = "again"]]
  /\ Met(t)
  /\ UNCHANGED <<inited, attempt, db, opened, comp, live, runs, errors, apiCall>>

(* An error of the API, told once: the context that the request was made with knows its epoch. *)
OnError(e, kind) ==
  /\ runs[e] > 0 /\ kind \notin errorsTold[e]
  /\ errorsTold' = [errorsTold EXCEPT ![e] = @ \cup {kind}]
  /\ asked' = [asked EXCEPT ![e] = TRUE]
  /\ UNCHANGED <<fields, proc, apiCall, torn>>

(* logoutListener: a request in the channel that was the current one when it began to wait. *)
LogoutListener(e) ==
  /\ proc[e].pc = "wait" /\ asked[proc[e].in]
  /\ asked' = [asked EXCEPT ![proc[e].in] = FALSE]
  /\ proc' = [proc EXCEPT ![e] = [pc |-> "exit", in |-> epoch, no |-> 0]]
  /\ UNCHANGED <<fields, errorsTold, apiCall, torn>>

(* After its own logout its context has ended, but the select may as well take a request *)
(* of the new epoch.                                                                    *)
ListenAgain(e) ==
  /\ proc[e].pc = "again" /\ asked[epoch]
  /\ asked' = [asked EXCEPT ![epoch] = FALSE]
  /\ proc' = [proc EXCEPT ![e] = [pc |-> "exit", in |-> epoch, no |-> 0]]
  /\ UNCHANGED <<fields, errorsTold, apiCall, torn>>

ListenerEnds(e) ==
  /\ proc[e].pc = "again" /\ End(e)
  /\ UNCHANGED <<fields, errors, apiCall, torn>>
-----------------------------------------------------------------------------
(* call, syncCall, messageCall: the component is taken from the context first ... *)
Bind(c, kind) ==
  /\ apiCall[c].pc = "idle"
  /\ apiCall' = [apiCall EXCEPT ![c] = [pc |-> "check", on |-> epoch, kind |-> kind]]
  /\ UNCHANGED <<fields, errors, proc, torn>>

Call(c)        == Bind(c, "call")
SyncCall(c)    == Bind(c, "sync")
MessageCall(c) == Bind(c, "message")

(* ... then the state is looked at; messageCall_ names no function, and asks less. *)
CheckResourceLoad(kind) == inited /\ (kind = "message" \/ status = "logged")

CallIn(c) ==
  /\ apiCall[c].pc = "check"
  /\ apiCall' = [apiCall EXCEPT ![c] = IF CheckResourceLoad(@.kind) THEN [@ EXCEPT !.pc = "run"]
                                       ELSE NoApiCall]
  /\ UNCHANGED <<fields, errors, proc, torn>>

(* The callback: a result, an error, or a recovered panic. *)
CallOut(c) ==
  /\ apiCall[c].pc = "run" /\ apiCall' = [apiCall EXCEPT ![c] = NoApiCall]
  /\ UNCHANGED <<fields, errors, proc, torn>>

(* What follows a torn step is not explored: the properties say nothing of it. *)
Next == ~torn /\
  \/ InitSDK \/ UnInitSDK
  \/ \E t \in Apps : Login(t) \/ OpenDatabase(t) \/ Initialize(t) \/ Run(t) \/ SetLogged(t) \/ Logout(t)
  \/ \E t \in DOMAIN proc : Exit(t) \/ CloseDatabase(t) \/ InitResources(t)
  \/ \E e \in 1..Epochs : \/ LogoutListener(e) \/ ListenAgain(e) \/ ListenerEnds(e)
                           \/ \E k \in Kinds : OnError(e, k)
  \/ \E c \in Calls : CallIn(c) \/ CallOut(c) \/ Call(c) \/ SyncCall(c) \/ MessageCall(c)

Spec == Init /\ [][Next]_sessionVars

TypeOK ==
  /\ inited \in BOOLEAN /\ status \in {"none", "logout", "logging", "logged"}
  /\ epoch \in 1..Epochs /\ attempt \in 0..Attempts /\ db \in 0..Attempts
  /\ opened \subseteq 1..Attempts /\ comp \in [1..Epochs -> 0..Attempts]
  /\ live \in [1..Epochs -> BOOLEAN] /\ runs \in [1..Epochs -> Nat]
  /\ asked \in [1..Epochs -> BOOLEAN] /\ errorsTold \in [1..Epochs -> SUBSET Kinds]
  /\ proc \in [Apps \cup 1..Epochs ->
       [pc : {"idle", "wait", "again"} \cup LoginSteps \cup LogoutSteps, in : 0..Epochs, no : 0..Attempts]]
  /\ apiCall \in [Calls -> [pc : {"idle", "check", "run"}, on : 0..Epochs, kind : {"call", "sync", "message"}]]
  /\ torn \in BOOLEAN

LoggingOut == \E t \in DOMAIN proc : proc[t].pc \in {"close", "reset"}

(* Who is logged in has one set of goroutines that may run, and components with its open database. *)
SessionIsWhole ==
  status = "logged" /\ ~LoggingOut =>
    /\ comp[epoch] = attempt /\ db = attempt /\ attempt \in opened
    /\ live[epoch] /\ runs[epoch] = 1

(* Of the epochs before, no goroutine goes on and no database is open. *)
EndedIsOver == \A e \in 1..epoch - 1 : ~live[e] /\ comp[e] \notin opened

(* A call that was let in finds a component that has a database, its epoch's or an ended one's. *)
CallsFindDatabase ==
  \A c \in Calls : apiCall[c].pc = "run" /\ apiCall[c].kind # "message" => comp[apiCall[c].on] # 0

(***************************************************************************)
(* The three, as long as no two logins overlap, and no login or logout     *)
(* acts on an epoch other than the one that it began in: failed and        *)
(* repeated logins, a kick and a logout of one session, errors that arrive *)
(* after their session, and calls across a logout do no harm.              *)
(***************************************************************************)
OneSession == ~torn => SessionIsWhole /\ EndedIsOver /\ CallsFindDatabase
=============================================================================
