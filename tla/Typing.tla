------------------------------- MODULE Typing -------------------------------
(***************************************************************************)
(* Who is typing (internal/conversation_msg/entering.go), for one          *)
(* conversation: a device of its user says so with messages that nobody    *)
(* stores, and another user's device keeps, for each platform, an entry    *)
(* that ends with a message or by its age, and tells its application.      *)
(*                                                                         *)
(* Calls of ChangeInputStates run in goroutines of their own; on the other *)
(* device the messages' goroutine and the cache's janitor both end entries *)
(* and then tell: the list is made and told in two steps, without a lock.  *)
(***************************************************************************)
EXTENDS Naturals, Sequences, FiniteSets

CONSTANTS
  Platforms,   \* platforms of the user who types; Here is the one whose calls are modelled
  Here,
  Changers,    \* calls at the same time
  Notices      \* bound: typing messages on their way

VARIABLES
  \* the device that types
  sendCode,    \* the entry of the cache send: "none", "success", "end"
  changer,     \* [Changers -> what a call is about to do]
  notices,     \* messages on their way: <<platform, "yes" | "no">>
  swapped,     \* history: calls overlapped, so the last message is not the last code
  \* the device that shows it
  shown,       \* [Platforms -> "none", "live", "expired" (in the cache until the janitor comes)]
  teller,      \* [{"worker", "janitor"} -> what it is about to do]
  told,        \* the platforms the application was told of last
  outdated     \* history: that list was no longer true when it was told

sayVars == <<sendCode, changer, swapped>>
showVars == <<shown, teller, told, outdated>>
typingVars == <<sayVars, notices, showVars>>

NoCall == [pc |-> "idle", focus |-> FALSE]
NoTelling == [pc |-> "idle", list |-> {}]

Init ==
  /\ sendCode = "none" /\ changer = [c \in Changers |-> NoCall] /\ notices = <<>>
  /\ swapped = FALSE
  /\ shown = [p \in Platforms |-> "none"]
  /\ teller = [t \in {"worker", "janitor"} |-> NoTelling]
  /\ told = {} /\ outdated = FALSE
-----------------------------------------------------------------------------
Others(c) == {d \in Changers \ {c} : changer[d].pc # "idle"}

(* ChangeInputStates: nothing to say when it was said less than ten seconds ago, or never begun. *)
ChangeInputStates(c, focus) ==
  /\ changer[c].pc = "idle"
  /\ sendCode # (IF focus THEN "success" ELSE "end") /\ (focus \/ sendCode # "none")
  /\ sendCode' = IF focus THEN "success" ELSE "end"
  /\ changer' = [changer EXCEPT ![c] = [pc |-> "send", focus |-> focus]]
  /\ swapped' = (Others(c) # {})
  /\ UNCHANGED <<notices, showVars>>

(* sendMsg: the message goes out ... *)
SendTyping(c) ==
  /\ changer[c].pc = "send" /\ Len(notices) < Notices
  /\ notices' = Append(notices, <<Here, IF changer[c].focus THEN "yes" ELSE "no">>)
  /\ changer' = [changer EXCEPT ![c].pc = "wait"]
  /\ UNCHANGED <<sendCode, swapped, showVars>>

(* ... and is answered, *)
TypingSent(c) ==
  /\ changer[c].pc = "wait"
  /\ changer' = [changer EXCEPT ![c] = NoCall]
  /\ UNCHANGED <<sendCode, swapped, notices, showVars>>

(* or not: not sent, or not answered within five seconds. *)
TypingFailed(c) ==
  /\ changer[c].pc \in {"send", "wait"}
  /\ sendCode' = "none"
  /\ changer' = [changer EXCEPT ![c] = NoCall]
  /\ UNCHANGED <<swapped, notices, showVars>>

(* The entry of send is ten seconds old (its calls have ended: they take five at most). *)
SendExpires ==
  /\ sendCode # "none" /\ \A c \in Changers : changer[c].pc = "idle"
  /\ sendCode' = "none"
  /\ UNCHANGED <<changer, swapped, notices, showVars>>

(* Another platform of the user. *)
Elsewhere(p, tips) ==
  /\ p # Here /\ Len(notices) < Notices
  /\ notices' = Append(notices, <<p, tips>>)
  /\ UNCHANGED <<sayVars, showVars>>
-----------------------------------------------------------------------------
(* GetInputStates: an entry that has expired is not found. *)
GetInputStates == {p \in Platforms : shown[p] = "live"}

(* onNewMsg: a new entry is told, one that is there lasts longer, an ended one is evicted. *)
OnTyping ==
  /\ notices # <<>> /\ teller["worker"].pc = "idle"
  /\ notices' = Tail(notices)
  /\ LET p == Head(notices)[1]
         yes == Head(notices)[2] = "yes"
     IN IF yes = (shown[p] = "live") THEN UNCHANGED <<shown, teller>>
        ELSE /\ shown' = [shown EXCEPT ![p] = IF yes THEN "live" ELSE
                                             IF @ = "live" THEN "none" ELSE @]
             /\ teller' = [teller EXCEPT !["worker"].pc = "list"]
  /\ UNCHANGED <<sayVars, told, outdated>>

Expires(p) ==
  /\ shown[p] = "live" /\ shown' = [shown EXCEPT ![p] = "expired"]
  /\ UNCHANGED <<sayVars, notices, teller, told, outdated>>

(* Mutant: the application is not told of what the janitor evicts. *)
DeleteExpired_Silent ==
  /\ teller["janitor"].pc = "idle" /\ \E p \in Platforms : shown[p] = "expired"
  /\ shown' = [p \in Platforms |-> IF shown[p] = "expired" THEN "none" ELSE shown[p]]
  /\ UNCHANGED <<sayVars, notices, teller, told, outdated>>

(* The janitor's round; OnEvicted is called for each entry, with the same outcome. *)
DeleteExpired ==
  /\ teller["janitor"].pc = "idle" /\ \E p \in Platforms : shown[p] = "expired"
  /\ shown' = [p \in Platforms |-> IF shown[p] = "expired" THEN "none" ELSE shown[p]]
  /\ teller' = [teller EXCEPT !["janitor"].pc = "list"]
  /\ UNCHANGED <<sayVars, notices, told, outdated>>

(* changes: the list is made ... *)
ListStates(t) ==
  /\ teller[t].pc = "list"
  /\ teller' = [teller EXCEPT ![t] = [pc |-> "tell", list |-> GetInputStates]]
  /\ UNCHANGED <<sayVars, notices, shown, told, outdated>>

(* ... and told. *)
TellStates(t) ==
  /\ teller[t].pc = "tell"
  /\ told' = teller[t].list /\ outdated' = (teller[t].list # GetInputStates)
  /\ teller' = [teller EXCEPT ![t] = NoTelling]
  /\ UNCHANGED <<sayVars, notices, shown>>

Next ==
  \/ \E c \in Changers : SendTyping(c) \/ TypingSent(c) \/ TypingFailed(c)
  \/ \E c \in Changers, focus \in BOOLEAN : ChangeInputStates(c, focus)
  \/ SendExpires \/ \E p \in Platforms, tips \in {"yes", "no"} : Elsewhere(p, tips)
  \/ OnTyping \/ DeleteExpired \/ \E p \in Platforms : Expires(p)
  \/ \E t \in {"worker", "janitor"} : ListStates(t) \/ TellStates(t)

Spec == Init /\ [][Next]_typingVars

TypeOK ==
  /\ sendCode \in {"none", "success", "end"} /\ swapped \in BOOLEAN
  /\ changer \in [Changers -> [pc : {"idle", "send", "wait"}, focus : BOOLEAN]]
  /\ \A i \in DOMAIN notices : notices[i] \in Platforms \X {"yes", "no"}
  /\ shown \in [Platforms -> {"none", "live", "expired"}]
  /\ teller \in [{"worker", "janitor"} -> [pc : {"idle", "list", "tell"}, list : SUBSET Platforms]]
  /\ told \subseteq Platforms /\ outdated \in BOOLEAN

(***************************************************************************)
(* Between two tellings the application knows who types: it has been told  *)
(* of every live entry, and what it was told of is either still there or   *)
(* in the cache for the janitor to end; so nobody is left typing for ever. *)
(* Except where janitor and worker told in the wrong order (outdated).     *)
(***************************************************************************)
ToldIsShown ==
  (\A t \in {"worker", "janitor"} : teller[t].pc = "idle") /\ ~outdated =>
    GetInputStates \subseteq told /\ \A p \in told : shown[p] # "none"

(***************************************************************************)
(* When the calls have ended, the entry of send that stops the next call   *)
(* from saying it again says what was really said last, unless calls for   *)
(* both overlapped: otherwise the other side sees the opposite until the   *)
(* entry expires.                                                          *)
(***************************************************************************)
SaidIsShown ==
  /\ \A c \in Changers : changer[c].pc = "idle"
  /\ \A i \in DOMAIN notices : notices[i][1] # Here
  /\ ~swapped
  => (sendCode = "end" => shown[Here] # "live")
=============================================================================
