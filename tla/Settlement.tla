----------------------------- MODULE Settlement -----------------------------
(***************************************************************************)
(* Invoices, the payments that settle them and the ledger entries of both: *)
(* fyo/model/doc.ts (submit, cancel, delete, sync), models/Transactional,  *)
(* models/baseModels/Invoice, Payment, Party and AccountingLedgerEntry.    *)
(*                                                                         *)
(* None of these operations runs in a database transaction: each is a      *)
(* chain of awaited writes.  An operation the user starts becomes an       *)
(* agenda, the writes it will make in the code's order; Perform makes the  *)
(* next one, Fail throws out of it, Restart kills the process between two  *)
(* of them.  One operation is in progress at a time.                       *)
(***************************************************************************)
EXTENDS Integers, Sequences, FiniteSets, SequencesExt, FiniteSetsExt

CONSTANTS
  Invoice,     \* invoices of one party
  Payment,     \* payments of that party
  Party,       \* the party
  Total,       \* Total[i]: baseGrandTotal
  Pays,        \* Pays[p][i]: amount of p's row for i in Payment.for, 0 if none
  MaxFaults,   \* bound on reads, validations and writes that throw
  MaxRestarts  \* bound on restarts

Document == Invoice \cup Payment

ASSUME DocumentAssumption == Invoice \cap Payment = {} /\ Party \notin Document
ASSUME AmountAssumption ==
  /\ Total \in [Invoice -> Nat \ {0}]
  /\ Pays \in [Payment -> [Invoice -> Nat]]
  /\ \A p \in Payment : \E i \in Invoice : Pays[p][i] > 0
\* A database holds finitely many documents.
ASSUME FiniteAssumption == IsFiniteSet(Invoice) /\ IsFiniteSet(Payment)
ASSUME BoundAssumption == MaxFaults \in Nat /\ MaxRestarts \in Nat

VARIABLES
  status,   \* the row of each document: submitted and cancelled flags
  seen,     \* the same flags on the cached document
  owed,     \* outstandingAmount in the row of each invoice
  held,     \* outstandingAmount on the cached invoice
  balance,  \* outstandingAmount in the party's row
  entries,  \* the ledger entries of each document
  stale,    \* cached documents whose `modified` is not their row's
  unsaved,  \* cached documents set by a sync that threw before it bumped `modified`
  agenda,   \* writes the operation in progress has still to make
  torn,     \* documents an interrupted operation left half done (history)
  faults,   \* errors thrown so far
  restarts  \* restarts so far

vars == <<status, seen, owed, held, balance, entries, stale, unsaved, agenda, torn, faults, restarts>>

Status == {"none", "draft", "submitted", "cancelled", "deleted"}
Leg    == {"debit", "credit"}

\* A ledger entry: posted, flagged reverted, and with its mirror entry too.
Entry == {"none", "posted", "flagged", "mirrored"}

Rows(p)      == {i \in Invoice : Pays[p][i] > 0}
PaymentsOf(i) == {p \in Payment : Pays[p][i] > 0 /\ status[p] \in {"draft", "submitted", "cancelled"}}
Owing        == {i \in Invoice : status[i] = "submitted"}

-----------------------------------------------------------------------------
(* Agendas.                                                                *)

Step(what, d, at) == [do |-> what, doc |-> d, at |-> at]

\* LedgerPosting.post: one insert after another.
PostAll(d) == <<Step("post", d, "debit"), Step("post", d, "credit")>>

\* LedgerPosting.postReverse: each entry found not reverted is flagged, then mirrored.
ReverseEntry(d, l) ==
  IF entries[d][l] = "posted" THEN <<Step("flag", d, l), Step("mirror", d, l)>> ELSE <<>>

ReverseAll(d) == ReverseEntry(d, "debit") \o ReverseEntry(d, "credit")

\* Payment.updateReferenceDocOutstanding and _revertReferenceOutstanding.
EachRow(what, p) ==
  LET rows == SetToSeq(Rows(p)) IN [k \in DOMAIN rows |-> Step(what, p, rows[k])]

UpdateParty == Step("party", Party, Party)

SubmitPayment(p) ==
  <<Step("mark", p, "submitted")>> \o PostAll(p) \o EachRow("pay", p) \o <<UpdateParty>>

SubmitInvoice(i) ==
  <<Step("mark", i, "submitted")>> \o PostAll(i) \o <<Step("settle", i, i), UpdateParty>>

\* Mutant: the cancelled payment does not give the amount back.
BrokenCancelPayment(p) ==
  <<Step("mark", p, "cancelled")>> \o ReverseAll(p) \o <<UpdateParty>>

CancelPayment(p) ==
  <<Step("mark", p, "cancelled")>> \o ReverseAll(p) \o EachRow("unpay", p) \o <<UpdateParty>>

\* Mutant: the party is brought up to date before the payments are cancelled.
BrokenCancelInvoice(i) ==
  <<Step("mark", i, "cancelled")>> \o ReverseAll(i) \o <<UpdateParty>>
  \o FlattenSeq([k \in DOMAIN SetToSeq(PaymentsOf(i)) |->
       LET p == SetToSeq(PaymentsOf(i))[k]
       IN  IF seen[p] = "submitted"
             THEN <<Step("mark", p, "cancelled")>> \o ReverseAll(p) \o EachRow("unpay", p)
             ELSE <<>>])

\* _cancelPayments cancels the submitted payments, whatever else they pay.
CancelInvoice(i) ==
  LET paid == SetToSeq({p \in PaymentsOf(i) : seen[p] = "submitted"})
  IN  <<Step("mark", i, "cancelled")>> \o ReverseAll(i)
      \o FlattenSeq([k \in DOMAIN paid |-> CancelPayment(paid[k])]) \o <<UpdateParty>>

\* Doc.delete and Transactional.afterDelete.
DeleteEntry(d, l) == IF entries[d][l] # "none" THEN <<Step("unpost", d, l)>> ELSE <<>>

DeleteOne(d) == <<Step("erase", d, "deleted")>> \o DeleteEntry(d, "debit") \o DeleteEntry(d, "credit")

CanDelete(d) == seen[d] \in {"draft", "cancelled"}

\* Invoice.afterDelete: payments that may not be deleted stay.
DeleteInvoice(i) ==
  LET gone == SetToSeq({p \in PaymentsOf(i) : CanDelete(p)})
  IN  DeleteOne(i) \o FlattenSeq([k \in DOMAIN gone |-> DeleteOne(gone[k])])

-----------------------------------------------------------------------------
Init ==
  /\ status = [d \in Document |-> "none"]
  /\ seen = [d \in Document |-> "none"]
  /\ owed = [i \in Invoice |-> 0]
  /\ held = [i \in Invoice |-> 0]
  /\ balance = 0
  /\ entries = [d \in Document |-> [l \in Leg |-> "none"]]
  /\ stale = {}
  /\ unsaved = {}
  /\ agenda = <<>>
  /\ torn = {}
  /\ faults = 0
  /\ restarts = 0

-----------------------------------------------------------------------------
(* What the user starts.                                                   *)

Save(d) ==
  /\ agenda = <<>>
  /\ status[d] = "none"
  /\ status' = [status EXCEPT ![d] = "draft"]
  /\ seen' = [seen EXCEPT ![d] = "draft"]
  /\ UNCHANGED <<balance, entries, stale, unsaved, agenda, torn, faults, restarts>>

\* The outstandingAmount formula of an invoice that is not submitted.
SaveInvoice(i) ==
  /\ Save(i)
  /\ owed' = [owed EXCEPT ![i] = Total[i]]
  /\ held' = [held EXCEPT ![i] = Total[i]]

\* PaymentFor.filters offers the rows, validateReferenceOutstanding sums them.
SavePayment(p) ==
  /\ \A i \in Rows(p) : status[i] = "submitted" /\ owed[i] # 0
  /\ MapThenSumSet(LAMBDA i : Pays[p][i], Rows(p))
       <= MapThenSumSet(LAMBDA i : IF held[i] < 0 THEN -held[i] ELSE held[i], Rows(p))
  /\ Save(p)
  /\ UNCHANGED <<owed, held>>

Begin(steps) ==
  /\ agenda = <<>>
  /\ agenda' = steps
  /\ UNCHANGED <<status, seen, owed, held, balance, entries, stale, unsaved, torn, faults, restarts>>

Submit(d) ==
  /\ seen[d] = "draft"
  /\ Begin(IF d \in Invoice THEN SubmitInvoice(d) ELSE SubmitPayment(d))

Cancel(d) ==
  /\ seen[d] = "submitted"
  /\ Begin(IF d \in Invoice THEN CancelInvoice(d) ELSE CancelPayment(d))

Delete(d) ==
  /\ CanDelete(d)
  /\ Begin(IF d \in Invoice THEN DeleteInvoice(d) ELSE DeleteOne(d))

\* Doc.load, when a form with a dirty document is left.
Reload(d) ==
  /\ agenda = <<>>
  /\ d \in stale \cup unsaved
  /\ stale' = stale \ {d}
  /\ unsaved' = unsaved \ {d}
  /\ seen' = [e \in Document |-> IF e = d THEN status[e] ELSE seen[e]]
  /\ held' = [i \in Invoice |-> IF i = d THEN owed[i] ELSE held[i]]
  /\ UNCHANGED <<status, owed, balance, entries, agenda, torn, faults, restarts>>

-----------------------------------------------------------------------------
(* The writes.  mark, pay, unpay and party are syncs of a cached document: *)
(* set in memory, compare `modified` with the row, bump it, write.         *)

\* Mutant: the bumped timestamp is kept under the value instead of the document.
BrokenSynced(s) == IF s.do \in {"mark", "party", "settle", "pay", "unpay"} THEN {s.at} ELSE {}

Synced(s) ==
  CASE s.do \in {"mark", "party", "settle"} -> {s.doc}
    [] s.do \in {"pay", "unpay"}            -> {s.at}
    [] OTHER                                -> {}

\* A sync writes the whole row (getValidDict); Invoice.afterSubmit writes the
\* outstanding amount alone, past the version check.
Written(s) == IF s.do = "settle" THEN {} ELSE Synced(s)

Conflict(s) == Written(s) \cap stale # {}
NotFound(s) == s.do \in {"pay", "unpay"} /\ status[s.at] = "deleted"

\* What the step sets on cached documents, written or not.
InMemory(s) ==
  /\ seen' = IF s.do \in {"mark", "erase"} THEN [seen EXCEPT ![s.doc] = s.at] ELSE seen
  /\ held' = CASE s.do = "pay"   -> [held EXCEPT ![s.at] = @ - Pays[s.doc][s.at]]
               [] s.do = "unpay" -> [held EXCEPT ![s.at] = @ + Pays[s.doc][s.at]]
               [] OTHER          -> held

\* Mutant: the mirror entry is written, the original stays unreverted.
BrokenEntryAfter(s) == CASE s.do = "post"   -> "posted"
                         [] s.do = "flag"   -> "flagged"
                         [] s.do = "mirror" -> "posted"
                         [] s.do = "unpost" -> "none"

EntryAfter(s) == CASE s.do = "post"   -> "posted"
                   [] s.do = "flag"   -> "flagged"
                   [] s.do = "mirror" -> "mirrored"
                   [] s.do = "unpost" -> "none"

Perform ==
  /\ agenda # <<>>
  /\ LET s    == Head(agenda)
         gone == IF s.do = "erase" THEN {s.doc} ELSE {}
     IN
       /\ ~Conflict(s) /\ ~NotFound(s)
       /\ InMemory(s)
       /\ status' = [d \in Document |-> IF d \in gone \cup Written(s) THEN seen'[d] ELSE status[d]]
       /\ owed' = IF s.do = "settle"
                    THEN [owed EXCEPT ![s.doc] = Total[s.doc]]
                    ELSE [i \in Invoice |-> IF i \in Written(s) THEN held'[i] ELSE owed[i]]
       /\ balance' = IF s.do = "party" THEN MapThenSumSet(LAMBDA i : owed[i], Owing) ELSE balance
       /\ entries' = IF s.do \in {"post", "flag", "mirror", "unpost"}
                       THEN [entries EXCEPT ![s.doc][s.at] = EntryAfter(s)]
                       ELSE entries
       /\ stale' = stale \ gone
       /\ unsaved' = unsaved \ (gone \cup Written(s))
       /\ torn' = IF s.do = "party" THEN torn \ {Party} ELSE torn
  /\ agenda' = Tail(agenda)
  /\ UNCHANGED <<faults, restarts>>

\* Documents with writes still to make and the first of them made.
Begun ==
  LET rest == Range(agenda)
  IN  {s.doc : s \in rest} \ {s.doc : s \in {r \in rest : r.do \in {"mark", "erase"}}}

\* Mutant: a sync that throws after the bump puts `modified` back.
BrokenThrows(s) ==
  /\ faults < MaxFaults
  /\ faults' = faults + 1
  /\ UNCHANGED stale
  /\ \/ UNCHANGED <<seen, held, unsaved>>
     \/ Written(s) # {} /\ ~NotFound(s) /\ InMemory(s) /\ unsaved' = unsaved \cup Written(s)
     \/ s.do # "erase" /\ ~NotFound(s) /\ ~Conflict(s) /\ InMemory(s) /\ UNCHANGED unsaved

\* A read, a validator or the write throws: before the value is set in memory,
\* between that and the bump of `modified` (beforeSync, the version check's own
\* read), or after the bump.
Throws(s) ==
  /\ faults < MaxFaults
  /\ faults' = faults + 1
  /\ \/ UNCHANGED <<seen, held, stale, unsaved>>
     \/ /\ Written(s) # {} /\ ~NotFound(s)
        /\ InMemory(s)
        /\ unsaved' = unsaved \cup Written(s)
        /\ UNCHANGED stale
     \/ /\ s.do # "erase" /\ ~NotFound(s) /\ ~Conflict(s)
        /\ InMemory(s)
        /\ stale' = stale \cup Synced(s)
        /\ UNCHANGED unsaved

\* NotFoundError, ConflictError or any other error: the operation throws.
Fail ==
  /\ agenda # <<>>
  /\ LET s == Head(agenda) IN
       \/ NotFound(s) /\ UNCHANGED <<seen, held, stale, unsaved, faults>>
       \/ Conflict(s) /\ ~NotFound(s) /\ InMemory(s) /\ UNCHANGED <<stale, unsaved, faults>>
       \/ Throws(s)
  /\ torn' = torn \cup Begun \cup {d \in Document : seen'[d] # seen[d]}
  /\ agenda' = <<>>
  /\ UNCHANGED <<status, owed, balance, entries, restarts>>

Restart ==
  /\ restarts < MaxRestarts
  /\ restarts' = restarts + 1
  /\ seen' = status
  /\ held' = owed
  /\ stale' = {}
  /\ unsaved' = {}
  /\ torn' = torn \cup Begun
  /\ agenda' = <<>>
  /\ UNCHANGED <<status, owed, balance, entries, faults>>

-----------------------------------------------------------------------------
Next ==
  \/ \E i \in Invoice : SaveInvoice(i)
  \/ \E p \in Payment : SavePayment(p)
  \/ \E d \in Document : Submit(d) \/ Cancel(d) \/ Delete(d)
  \/ \E d \in Document \cup {Party} : Reload(d)
  \/ Perform
  \/ Fail
  \/ Restart

Spec == Init /\ [][Next]_vars

-----------------------------------------------------------------------------
(* Correctness.                                                            *)

TypeOK ==
  /\ status \in [Document -> Status]
  /\ seen \in [Document -> Status]
  /\ owed \in [Invoice -> Int]
  /\ held \in [Invoice -> Int]
  /\ balance \in Int
  /\ entries \in [Document -> [Leg -> Entry]]
  /\ stale \cup unsaved \subseteq Document \cup {Party}
  /\ \A k \in DOMAIN agenda : agenda[k].doc \in Document \cup {Party}
  /\ torn \subseteq Document \cup {Party}
  /\ faults \in 0 .. MaxFaults
  /\ restarts \in 0 .. MaxRestarts

Resting == agenda = <<>>

EntryOf(st) == CASE st = "submitted" -> "posted"
                 [] st = "cancelled" -> "mirrored"
                 [] OTHER            -> "none"

\* An interrupted operation unbalances the books of the documents it was
\* writing and of no other: every other document has all its entries when
\* submitted, all mirrored when cancelled, none otherwise, though cancelling an
\* invoice cancels payments and deleting one deletes them
\* (LedgerPosting.ts:189-216, Invoice.ts:360-387).
LedgerFollowsStatus ==
  Resting => \A d \in Document \ torn, l \in Leg : entries[d][l] = EntryOf(status[d])

Paid(i) == MapThenSumSet(LAMBDA p : Pays[p][i], {p \in Payment : status[p] = "submitted"})

\* A submitted invoice owes its total less the submitted payments on it, unless
\* an operation on it or on one of its payments was interrupted: the increments
\* and decrements of Payment.ts:584-653 add up along every path.
OutstandingFollowsPayments ==
  Resting => \A i \in Owing \ torn :
               (\A p \in Payment : Pays[p][i] > 0 => p \notin torn) => owed[i] = Total[i] - Paid(i)

\* The party's balance is the sum of what its invoices owe whenever the last
\* operation to touch either ran to its end, and no invoice left half done was
\* deleted: one complete operation heals what an interrupted one left
\* (Party.ts:100-138).
PartyFollowsInvoices ==
  /\ Resting
  /\ Party \notin torn
  /\ \A i \in torn \cap Invoice : status[i] # "deleted"
  => balance = MapThenSumSet(LAMBDA i : owed[i], Owing)

Payers(i) == {p \in Payment : Pays[p][i] > 0}

\* A cached document that differs from its row is one the version check refuses
\* to write (_validateDbNotModified, doc.ts:801-818 and 1030-1045), unless a sync
\* of it threw before `modified` was bumped: then the next operation that syncs
\* it writes the copy, and it is one an interrupted operation left half done.
StaleIsRefused ==
  /\ \A d \in Document : seen[d] # status[d] => d \in stale \/ d \in unsaved \cap torn
  /\ \A i \in Invoice : status[i] # "deleted" /\ held[i] # owed[i] =>
       i \in stale \/ (i \in unsaved /\ ({i} \cup Payers(i)) \cap torn # {})

\* "Payment amount ... should be less than Outstanding amount"
\* (validateReferenceOutstanding, Payment.ts:563-573): no invoice is overpaid.
NeverOverpaid == \A i \in Owing : owed[i] >= 0

\* "This action is permanent and will cancel the following payments", the
\* payments listed being all those not cancelled yet (src/utils/ui.ts:216-247):
\* a cancelled invoice has no submitted payment.
CancelledIsUnpaid ==
  Resting => \A p \in Payment, i \in Invoice :
               status[i] = "cancelled" /\ Pays[p][i] > 0 => status[p] # "submitted"
=============================================================================
