---------------------------- MODULE MCSettlement ----------------------------
(* Two invoices of 2; p1 pays 1 on each, p2 pays i1 in full.               *)
EXTENDS Settlement, TLC

CONSTANTS i1, i2, p1, p2

MCTotal == [i \in Invoice |-> 2]
MCPays  == (p1 :> [i \in Invoice |-> 1]) @@ (p2 :> [i \in Invoice |-> IF i = i1 THEN 2 ELSE 0])
=============================================================================
