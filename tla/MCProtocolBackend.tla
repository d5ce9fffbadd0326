--------------------------- MODULE MCProtocolBackend ---------------------------
(* Instances of ProtocolBackend for TLC. *)
EXTENDS ProtocolBackend

CONSTANTS c1, c2, h1
=============================================================================
