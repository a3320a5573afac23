----------------------------- MODULE MCFpgaMining -----------------------------
(* Headers without a hit, with a false one beside a solution, and with one *)
(* solution, the last nonce.                                               *)
EXTENDS FpgaMining

MCOutcomes ==
    {[hits |-> {}, valid |-> {}], [hits |-> {1, 2}, valid |-> {2}], [hits |-> {4}, valid |-> {4}]}
===============================================================================
