----------------------------- MODULE MCMsgSync -----------------------------
(* Constants of MsgSync for TLC: model values for the conversations. *)
EXTENDS MsgSync

CONSTANTS chat, note     \* a chat conversation and a notification conversation
=============================================================================
