------------------------------ MODULE MCAckMode ------------------------------
(* Small instances of AckMode for TLC; the cfg files choose the bounds.      *)
EXTENDS AckMode, TLC
=============================================================================
