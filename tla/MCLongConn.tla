------------------------------ MODULE MCLongConn ------------------------------
(* Constants of LongConn for TLC: model values for the requests. *)
EXTENDS LongConn

CONSTANTS r1, r2, bye     \* a request, a GetNewestSeq, logout's request
=============================================================================
