---------------------------- MODULE MCSendQueue ----------------------------
(* Constants of SendQueue for TLC: model values for the messages. *)
EXTENDS SendQueue

CONSTANTS t1, t2, a1      \* text and media messages
=============================================================================
