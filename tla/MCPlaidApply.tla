---------------------------- MODULE MCPlaidApply ----------------------------
(***************************************************************************)
(* Instances of PlaidApply for TLC.  For the workers: b1 carries a pending *)
(* row, b2 retracts it and brings its posted successor.  For the user:     *)
(* b1 has a row in another currency and a posted row on two accounts, so   *)
(* that landing it takes two statements, and a row on the sub-account a3   *)
(* that is not mapped.                                                     *)
(***************************************************************************)
EXTENDS PlaidApply, TLC, Functions

CONSTANTS b1, b2, t1, t2, t3, t4, a1, a2, a3

NoRows == [t \in Tx |-> "none"]

MCAcctOf == Restrict((t1 :> a1) @@ (t2 :> a2) @@ (t3 :> a1) @@ (t4 :> a3), Tx)

MCAdds == (b1 :> [NoRows EXCEPT ![t1] = "pending"]) @@
          (b2 :> [NoRows EXCEPT ![t3] = "posted"])

MCAddsReview == b1 :> [NoRows EXCEPT ![t1] = "foreign", ![t2] = "posted", ![t4] = "posted"]

MCRemoves == Restrict((b1 :> {}) @@ (b2 :> {t1}), Batch)
=============================================================================
