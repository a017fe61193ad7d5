------------------------------- MODULE Requests -------------------------------
(***************************************************************************)
(* What LongConnMgr.SendReqWaitResp promises its callers: a request ends,  *)
(* with an error or with the server's response to this very request.  The  *)
(* server may execute a request whose caller was told of an error, even    *)
(* afterwards.                                                             *)
(***************************************************************************)
CONSTANTS Reqs    \* the requests

VARIABLES
  outcome,        \* [Reqs -> Outcomes]; a response is named by the request it answers
  executed        \* requests the server has executed

Marks    == {"idle", "pending", "error"}
Outcomes == Marks \cup Reqs

Init == outcome = [r \in Reqs |-> "idle"] /\ executed = {}

Call(r) ==
  /\ outcome[r] = "idle" /\ outcome' = [outcome EXCEPT ![r] = "pending"]
  /\ UNCHANGED executed

Execute(r) ==
  /\ outcome[r] # "idle" /\ executed' = executed \cup {r}
  /\ UNCHANGED outcome

Answer(r) ==
  /\ outcome[r] = "pending" /\ r \in executed
  /\ outcome' = [outcome EXCEPT ![r] = r]
  /\ UNCHANGED executed

Fail(r) ==
  /\ outcome[r] = "pending" /\ outcome' = [outcome EXCEPT ![r] = "error"]
  /\ UNCHANGED executed

Next == \E r \in Reqs : Call(r) \/ Execute(r) \/ Answer(r) \/ Fail(r)

SafeSpec == Init /\ [][Next]_<<outcome, executed>>

(* Every call ends. *)
Spec == SafeSpec /\ \A r \in Reqs : WF_<<outcome, executed>>(Answer(r) \/ Fail(r))
=============================================================================
