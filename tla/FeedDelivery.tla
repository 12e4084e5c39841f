---------------------------- MODULE FeedDelivery ----------------------------
(***************************************************************************)
(* What applying the bank feed promises, without journal, transaction,     *)
(* workers or crashes: the rows of a batch reach the book together and     *)
(* once, and the server is told so only after they are there.              *)
(***************************************************************************)
CONSTANTS
  Batch,  \* import batches
  Rows    \* Rows[b]: the lines batch b owes the book

VARIABLES
  offer,  \* what the server knows of each batch
  book    \* book[b]: the lines of b in the committed book

vars == <<offer, book>>

Init ==
  /\ offer = [b \in Batch |-> "unpublished"]
  /\ book = [b \in Batch |-> {}]

Publish(b) ==
  /\ offer[b] = "unpublished"
  /\ offer' = [offer EXCEPT ![b] = "pending"]
  /\ UNCHANGED book

\* All the rows of the batch or none: the whole batch is one transaction.
Land(b) ==
  /\ offer[b] # "unpublished"
  /\ book' = [book EXCEPT ![b] = Rows[b]]
  /\ UNCHANGED offer

Acknowledge(b) ==
  /\ offer[b] = "pending"
  /\ book[b] = Rows[b]
  /\ offer' = [offer EXCEPT ![b] = "acked"]
  /\ UNCHANGED book

Purge(b) ==
  /\ offer[b] \in {"pending", "acked"}
  /\ offer' = [offer EXCEPT ![b] = "purged"]
  /\ UNCHANGED book

Next == \E b \in Batch : Publish(b) \/ Land(b) \/ Acknowledge(b) \/ Purge(b)

Spec == Init /\ [][Next]_vars
=============================================================================
