----------------------------- MODULE MCLoraRelay -----------------------------
EXTENDS LoraRelay, TLC

CONSTANTS b1, b2

\* A block of one fragment and one of two.
MCFragCount == (b1 :> 1) @@ (b2 :> 2)
===============================================================================
