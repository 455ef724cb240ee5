--------------------------- MODULE MCMessageSender ---------------------------
(* MessageSender with two calls and a few streams.                 *)
EXTENDS MessageSender, TLC

CONSTANTS c1, c2
=============================================================================
