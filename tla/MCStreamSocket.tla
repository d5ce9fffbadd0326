---------------------------- MODULE MCStreamSocket ----------------------------
(* Model values for StreamSocket: one handle read by a socket's loop, one by     *)
(* two readers of its own.                                                       *)
EXTENDS StreamSocket, TLC

CONSTANTS s1, s2, r1, r2, r3

MCHandleOf == (r1 :> s1) @@ (r2 :> s2) @@ (r3 :> s2)
MCPumpOf == s1 :> r1
=============================================================================
