-------------------------- MODULE MCBooksOpening --------------------------
(* One patch before the migration, two after it, one of them fragile; the  *)
(* rewrite to UUIDs comes with version 2, as do the first two.             *)
EXTENDS BooksOpening, TLC

CONSTANTS series, methods, widen

MCAdded == (uuid :> 2) @@ [p \in Patches |-> IF p = widen THEN 3 ELSE 2]
=============================================================================
