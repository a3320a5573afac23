----------------------------- MODULE MCRadioRelay -----------------------------
(* Two blocks of two and three fragments, two damaged fragments, one restart *)
EXTENDS RadioRelay, TLC

CONSTANTS b1, b2

MCFragCount == (b1 :> 2) @@ (b2 :> 3)
MCOrder == <<b1, b2>>
===============================================================================
