----------------------------- MODULE MCSending -----------------------------
(***************************************************************************)
(* A message that is sent, beside the upload of its file.  The two share   *)
(* no state; a behaviour of MessageSpec is about the message, and the      *)
(* upload, of which Upload's own specification is, stays as it begins.     *)
(***************************************************************************)
EXTENDS Upload

CONSTANTS
  m1,                                                 \* model value
  Messages, Sends, Restarts, Batches, CallFaults     \* of Sending

VARIABLES
  session, todo, restarts, status, number, entries, media, callPc, msg, write, stranded,
  overwritten, net, log, copies, batch

Message == INSTANCE Sending WITH
  Msgs <- Messages, MaxCalls <- Sends, MaxRestarts <- Restarts, BatchSize <- Batches,
  Faults <- CallFaults, pc <- callPc, stored <- copies

ASSUME SendsAssumption == Sends \in Nat /\ Restarts \in Nat /\ Batches \in Nat \ {0}
ASSUME CallFaultsAssumption == CallFaults \subseteq Message!FaultKinds

messageVars == <<session, todo, restarts, status, number, entries, media, callPc, msg, write,
                 stranded, overwritten, net, log, copies, batch>>

MessageNext == Message!Next /\ UNCHANGED vars

MessageSpec ==
  Init /\ Message!Init /\ [][MessageNext]_<<vars, messageVars>> /\ Message!Fairness

(* What is stored as sent is on the server. *)
SuccessOnServer == Message!SuccessOnServer

(* While logged in, an entry of LocalSendingMessages has one call. *)
EntryHasOneCall == Message!EntryHasOneCall

(* A message with its number keeps it, and its status. *)
NumberedIsFinal == Message!NumberedIsFinal

(* No message stays "sending" but one left behind. *)
SendingSettles == Message!SendingSettles

(* What the server has is stored as sent in the end, with its number. *)
ReceivedIsStored == Message!ReceivedIsStored
=============================================================================
