------------------------------ MODULE MCContext ------------------------------
(* Small instances of Context for TLC; the cfg files choose the bounds.      *)
EXTENDS Context, TLC
=============================================================================
