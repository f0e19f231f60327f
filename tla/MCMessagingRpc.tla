---------------------------- MODULE MCMessagingRpc ----------------------------
(* Small instances of MessagingRpc for TLC; the cfg file chooses the bounds. *)
EXTENDS MessagingRpc, TLC
=============================================================================
