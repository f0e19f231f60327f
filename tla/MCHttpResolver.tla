---------------------------- MODULE MCHttpResolver ----------------------------
(* Small instances of HttpResolver for TLC; the cfg files choose the bounds. *)
EXTENDS HttpResolver, TLC
=============================================================================
