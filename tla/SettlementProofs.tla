-------------------------- MODULE SettlementProofs --------------------------
(***************************************************************************)
(* Settlement for any finite sets of invoices and payments: the types, the *)
(* ledger of every document no interrupted operation left half done, what  *)
(* an invoice owes, the party's balance and the version check.             *)
(***************************************************************************)
EXTENDS Settlement, FoldLemmas

-----------------------------------------------------------------------------
(* The inductive invariant.                                                *)

Turns  == {"mark", "erase"}
Writes == {"post", "flag", "mirror", "unpost"}

TurnStep   == [do : {"mark"}, doc : Document, at : {"submitted", "cancelled"}]
              \cup [do : {"erase"}, doc : Document, at : {"deleted"}]
LedgerStep == [do : Writes, doc : Document, at : Leg]
PayStep    == {s \in [do : {"pay", "unpay"}, doc : Payment, at : Invoice] : Pays[s.doc][s.at] > 0}
SettleStep == {Step("settle", i, i) : i \in Invoice}
StepSet    == TurnStep \cup LedgerStep \cup PayStep \cup SettleStep \cup {UpdateParty}

Has(a, s)        == \E k \in DOMAIN a : a[k] = s
Turning(a, d)    == \E k \in DOMAIN a : a[k].do \in Turns /\ a[k].doc = d
Writing(a, d, l) == \E k \in DOMAIN a : a[k].do \in Writes /\ a[k].doc = d /\ a[k].at = l

\* The status a document must have when a step of its operation is made.
TurnTo(s) == CASE s.do \in {"post", "pay", "settle"}   -> "submitted"
               [] s.do \in {"flag", "mirror", "unpay"} -> "cancelled"
               [] s.do = "unpost"                      -> "deleted"
               [] OTHER                                -> s.at

\* The step that gives it that status.
TurnOf(s) == Step(IF TurnTo(s) = "deleted" THEN "erase" ELSE "mark", s.doc, TurnTo(s))

\* A document changes status before any other step of its operation, and once.
MarksFirst(a) == \A j, k \in DOMAIN a :
  a[j].do \in Turns /\ a[k].doc = a[j].doc /\ j # k => j < k

NoRepeats(a) == \A j, k \in DOMAIN a : a[j] = a[k] /\ a[j].do # "party" => j = k

FlagsMirrored(a) == \A k \in DOMAIN a :
  a[k].do = "flag" => \E j \in DOMAIN a : k < j /\ a[j] = Step("mirror", a[k].doc, a[k].at)

\* Whatever changes what an invoice owes is followed by an update of the party.
PartyLast(a) == \A k \in DOMAIN a :
  a[k].do \in {"mark", "pay", "unpay", "settle"} => \E j \in DOMAIN a : k < j /\ a[j] = UpdateParty

RowStep(s, i) == Step(IF s.at = "submitted" THEN "pay" ELSE "unpay", s.doc, i)

\* A payment whose status is to change has every row still to be paid or given back.
RowsFollow(a) == \A k \in DOMAIN a :
  a[k].do = "mark" /\ a[k].doc \in Payment => \A i \in Rows(a[k].doc) : Has(a, RowStep(a[k], i))

Follows == \A k \in DOMAIN agenda :
  agenda[k].do \notin Turns \cup {"party"} =>
    \/ Has(agenda, TurnOf(agenda[k]))
    \/ /\ status[agenda[k].doc] = TurnTo(agenda[k])
       /\ seen[agenda[k].doc] = TurnTo(agenda[k])
       /\ ~Turning(agenda, agenda[k].doc)

Ready(s) ==
  /\ s.do = "mark" /\ s.at = "submitted" => seen[s.doc] = "draft"
  /\ s.do = "mark" /\ s.at = "cancelled" => seen[s.doc] = "submitted"
  /\ s.do = "erase" => CanDelete(s.doc)
  /\ s.do = "settle" => /\ held[s.doc] = Total[s.doc]
                        /\ \A p \in Payment : Pays[p][s.doc] > 0 => status[p] = "none"

AllReady == \A k \in DOMAIN agenda : Ready(agenda[k])

AgendaInv ==
  /\ agenda \in Seq(StepSet)
  /\ MarksFirst(agenda)
  /\ NoRepeats(agenda)
  /\ FlagsMirrored(agenda)
  /\ PartyLast(agenda)
  /\ RowsFollow(agenda)
  /\ Follows
  /\ AllReady

Untorn(i) == i \notin torn /\ \A p \in Payment : Pays[p][i] > 0 => p \notin torn

\* The cached copy of a document and its row differ only after a sync of it threw,
\* and then one operation at least was interrupted at it.
SeenInv == \A d \in Document : seen[d] # status[d] =>
  /\ seen[d] \in {"submitted", "cancelled"}
  /\ status[d] \in {"draft", "submitted"}
  /\ d \in stale \cup unsaved
  /\ d \in torn

HeldInv == \A i \in Invoice :
  /\ status[i] = "draft" => owed[i] = Total[i] /\ held[i] = Total[i]
  /\ status[i] # "deleted" /\ held[i] # owed[i] => i \in stale \/ (i \in unsaved /\ ~Untorn(i))

\* A payment is saved for submitted invoices only, which never are drafts again.
RowInv == \A p \in Payment, i \in Invoice :
  Pays[p][i] > 0 /\ status[p] # "none" => status[i] \notin {"none", "draft"}

LedgerInv == \A d \in Document \ torn, l \in Leg :
  /\ ~Turning(agenda, d) => entries[d][l] = EntryOf(status[d]) \/ Writing(agenda, d, l)
  /\ \A k \in DOMAIN agenda : agenda[k].do \in Turns /\ agenda[k].doc = d =>
       /\ entries[d][l] = EntryOf(status[d])
       /\ Writing(agenda, d, l) \/ EntryOf(agenda[k].at) = EntryOf(status[d])

\* The payments whose amount has been taken off invoice i.
Applied(i) ==
  {p \in Payment :
     /\ Pays[p][i] > 0
     /\ \/ status[p] = "submitted" /\ ~Has(agenda, Step("pay", p, i))
        \/ status[p] = "cancelled" /\ Has(agenda, Step("unpay", p, i))}

PaysOn(i) == [p \in Payment |-> Pays[p][i]]

OutInv == \A i \in Owing : Untorn(i) => owed[i] = Total[i] - Sum(PaysOn(i), Applied(i))

PartyInv ==
  \/ Has(agenda, UpdateParty)
  \/ Party \in torn
  \/ \E i \in torn \cap Invoice : status[i] = "deleted"
  \/ balance = Sum(owed, Owing)

IInv == TypeOK /\ AgendaInv /\ SeenInv /\ HeldInv /\ RowInv /\ LedgerInv /\ OutInv /\ PartyInv

-----------------------------------------------------------------------------
(* Steps.                                                                  *)

LEMMA StepTypes ==
  /\ \A s \in StepSet : s.do \in Turns \cup Writes \cup {"pay", "unpay", "settle", "party"}
  /\ \A s \in StepSet : s.do # "party" => s.doc \in Document
  /\ \A s \in StepSet : s.do \in Turns => s \in TurnStep
  /\ \A s \in StepSet : s.do \in Writes => s \in LedgerStep
  /\ \A s \in StepSet : s.do \in {"pay", "unpay"} => s \in PayStep
  /\ \A s \in StepSet : s.do = "settle" => s.doc \in Invoice /\ s = Step("settle", s.doc, s.doc)
  /\ \A s \in StepSet : s.do = "party" => s = UpdateParty
BY DEF StepSet, TurnStep, LedgerStep, PayStep, SettleStep, UpdateParty, Step, Turns, Writes, Document

LEMMA TurnTypes ==
  \A s \in TurnStep : /\ s.do \in Turns /\ s.doc \in Document
                      /\ s.do = "mark" => s.at \in {"submitted", "cancelled"}
                      /\ s.do = "erase" => s.at = "deleted"
                      /\ s = Step(s.do, s.doc, s.at)
                      /\ s \in StepSet
BY DEF TurnStep, Turns, Step, StepSet

LEMMA PayTypes ==
  \A s \in PayStep : /\ s.do \in {"pay", "unpay"} /\ s.doc \in Payment /\ s.at \in Invoice
                     /\ Pays[s.doc][s.at] > 0
                     /\ s = Step(s.do, s.doc, s.at)
BY DEF PayStep, Step

LEMMA LedgerTypes ==
  \A s \in LedgerStep : s.do \in Writes /\ s.doc \in Document /\ s.at \in Leg
                        /\ s = Step(s.do, s.doc, s.at)
BY DEF LedgerStep, Step

LEMMA StepFields ==
  \A x, d, y : Step(x, d, y).do = x /\ Step(x, d, y).doc = d /\ Step(x, d, y).at = y
BY DEF Step

LEMMA PartyStep ==
  /\ UpdateParty.do = "party" /\ UpdateParty.doc = Party
  /\ UpdateParty \in StepSet
BY DEF UpdateParty, Step, StepSet

LEMMA TurnOfFields ==
  ASSUME NEW s
  PROVE  /\ TurnOf(s).doc = s.doc
         /\ TurnOf(s).at = TurnTo(s)
         /\ TurnOf(s).do \in Turns
         /\ TurnOf(s).do = IF TurnTo(s) = "deleted" THEN "erase" ELSE "mark"
BY DEF TurnOf, Step, Turns

-----------------------------------------------------------------------------
(* Agendas: one after another, and without their first step.               *)

LEMMA Joined ==
  ASSUME NEW X, NEW Y, NEW a \in Seq(X), NEW b \in Seq(Y)
  PROVE  /\ a \o b \in Seq(X \cup Y)
         /\ Len(a) \in Nat /\ Len(b) \in Nat
         /\ DOMAIN a = 1 .. Len(a) /\ DOMAIN b = 1 .. Len(b)
         /\ DOMAIN (a \o b) = 1 .. Len(a) + Len(b)
         /\ \A k \in DOMAIN a : k \in DOMAIN (a \o b) /\ (a \o b)[k] = a[k]
         /\ \A k \in DOMAIN b : Len(a) + k \in DOMAIN (a \o b) /\ (a \o b)[Len(a) + k] = b[k]
         /\ \A k \in DOMAIN (a \o b) :
              k \in DOMAIN a \/ \E j \in DOMAIN b : k = Len(a) + j
<1>1. a \in Seq(X \cup Y) /\ b \in Seq(X \cup Y)
  BY SeqMonotonic
<1>2. /\ a \o b \in Seq(X \cup Y)
      /\ Len(a \o b) = Len(a) + Len(b)
      /\ \A i \in 1 .. Len(a) + Len(b) :
           (a \o b)[i] = IF i <= Len(a) THEN a[i] ELSE b[i - Len(a)]
  BY <1>1, ConcatProperties
<1>3. /\ Len(a) \in Nat /\ Len(b) \in Nat
      /\ DOMAIN a = 1 .. Len(a) /\ DOMAIN b = 1 .. Len(b)
      /\ DOMAIN (a \o b) = 1 .. Len(a \o b)
  BY <1>1, <1>2, LenProperties
<1> DEFINE c == a \o b
<1> HIDE DEF c
<1>4. DOMAIN c = 1 .. Len(a) + Len(b)
  BY <1>2, <1>3 DEF c
<1>5. ASSUME NEW k \in DOMAIN a PROVE k \in DOMAIN c /\ c[k] = a[k]
  <2>1. k \in 1 .. Len(a) + Len(b) /\ k <= Len(a)
    BY <1>3
  <2> QED
    BY <2>1, <1>2, <1>4 DEF c
<1>6. ASSUME NEW k \in DOMAIN b PROVE Len(a) + k \in DOMAIN c /\ c[Len(a) + k] = b[k]
  <2>1. Len(a) + k \in 1 .. Len(a) + Len(b) /\ ~(Len(a) + k <= Len(a)) /\ Len(a) + k - Len(a) = k
    BY <1>3
  <2> QED
    BY <2>1, <1>2, <1>4 DEF c
<1>7. ASSUME NEW k \in DOMAIN c PROVE k \in DOMAIN a \/ \E j \in DOMAIN b : k = Len(a) + j
  <2>1. k \in 1 .. Len(a) \/ (k - Len(a) \in 1 .. Len(b) /\ k = Len(a) + (k - Len(a)))
    BY <1>3, <1>4
  <2> QED
    BY <2>1, <1>3
<1> QED
  BY <1>2, <1>3, <1>4, <1>5, <1>6, <1>7 DEF c

LEMMA JoinHas ==
  ASSUME NEW X, NEW Y, NEW a \in Seq(X), NEW b \in Seq(Y)
  PROVE  /\ \A s : Has(a, s) \/ Has(b, s) <=> Has(a \o b, s)
         /\ \A k \in DOMAIN (a \o b) : Has(a, (a \o b)[k]) \/ Has(b, (a \o b)[k])
         /\ \A d, l : Writing(a, d, l) \/ Writing(b, d, l) => Writing(a \o b, d, l)
<1> DEFINE c == a \o b
           n == Len(a)
<1> HIDE DEF c, n
<1>1. \A k \in DOMAIN a : k \in DOMAIN c /\ c[k] = a[k]
  BY Joined DEF c
<1>2. \A k \in DOMAIN b : n + k \in DOMAIN c /\ c[n + k] = b[k]
  BY Joined DEF c, n
<1>3. \A k \in DOMAIN c : k \in DOMAIN a \/ \E j \in DOMAIN b : k = n + j
  BY Joined DEF c, n
<1>4. ASSUME NEW s PROVE Has(a, s) \/ Has(b, s) => Has(c, s)
  BY <1>1, <1>2 DEF Has
<1>5. ASSUME NEW s, Has(c, s) PROVE Has(a, s) \/ Has(b, s)
  <2>1. PICK k \in DOMAIN c : c[k] = s
    BY <1>5 DEF Has
  <2>2. CASE k \in DOMAIN a
    BY <2>1, <2>2, <1>1 DEF Has
  <2>3. CASE \E j \in DOMAIN b : k = n + j
    BY <2>1, <2>3, <1>2 DEF Has
  <2> QED
    BY <2>2, <2>3, <1>3
<1>6. \A k \in DOMAIN c : Has(c, c[k])
  BY DEF Has
<1>7. \A d, l : Writing(a, d, l) \/ Writing(b, d, l) => Writing(c, d, l)
  BY <1>1, <1>2 DEF Writing
<1> QED
  BY <1>4, <1>5, <1>6, <1>7 DEF c

LEMMA JoinMirrored ==
  ASSUME NEW X, NEW Y, NEW a \in Seq(X), NEW b \in Seq(Y), FlagsMirrored(a), FlagsMirrored(b)
  PROVE  FlagsMirrored(a \o b)
<1> DEFINE c == a \o b
           n == Len(a)
<1> HIDE DEF c, n
<1>1. \A k \in DOMAIN a : k \in DOMAIN c /\ c[k] = a[k]
  BY Joined DEF c
<1>2. \A k \in DOMAIN b : n + k \in DOMAIN c /\ c[n + k] = b[k]
  BY Joined DEF c, n
<1>3. \A k \in DOMAIN c : k \in DOMAIN a \/ \E j \in DOMAIN b : k = n + j
  BY Joined DEF c, n
<1>4. n \in Nat /\ \A j, k \in DOMAIN b : j < k => n + j < n + k
  BY Joined DEF n
<1> SUFFICES ASSUME NEW k \in DOMAIN c, c[k].do = "flag"
             PROVE  \E j \in DOMAIN c : k < j /\ c[j] = Step("mirror", c[k].doc, c[k].at)
  BY DEF FlagsMirrored, c
<1>5. CASE k \in DOMAIN a
  <2>1. PICK j \in DOMAIN a : k < j /\ a[j] = Step("mirror", a[k].doc, a[k].at)
    BY <1>5, <1>1 DEF FlagsMirrored
  <2> QED
    BY <2>1, <1>1, <1>5
<1>6. ASSUME NEW i \in DOMAIN b, k = n + i
      PROVE  \E j \in DOMAIN c : k < j /\ c[j] = Step("mirror", c[k].doc, c[k].at)
  <2>1. PICK j \in DOMAIN b : i < j /\ b[j] = Step("mirror", b[i].doc, b[i].at)
    BY <1>6, <1>2 DEF FlagsMirrored
  <2>2. n + j \in DOMAIN c /\ k < n + j /\ c[n + j] = b[j] /\ c[k] = b[i]
    BY <2>1, <1>2, <1>4, <1>6
  <2> QED
    BY <2>1, <2>2
<1> QED
  BY <1>3, <1>5, <1>6

LEMMA JoinParty ==
  ASSUME NEW X, NEW Y, NEW a \in Seq(X), NEW b \in Seq(Y), PartyLast(a), PartyLast(b)
  PROVE  PartyLast(a \o b)
<1> DEFINE c == a \o b
           n == Len(a)
           Changes == {"mark", "pay", "unpay", "settle"}
<1> HIDE DEF c, n, Changes
<1>1. \A k \in DOMAIN a : k \in DOMAIN c /\ c[k] = a[k]
  BY Joined DEF c
<1>2. \A k \in DOMAIN b : n + k \in DOMAIN c /\ c[n + k] = b[k]
  BY Joined DEF c, n
<1>3. \A k \in DOMAIN c : k \in DOMAIN a \/ \E j \in DOMAIN b : k = n + j
  BY Joined DEF c, n
<1>4. n \in Nat /\ \A j, k \in DOMAIN b : j < k => n + j < n + k
  BY Joined DEF n
<1> SUFFICES ASSUME NEW k \in DOMAIN c, c[k].do \in Changes
             PROVE  \E j \in DOMAIN c : k < j /\ c[j] = UpdateParty
  BY DEF PartyLast, c, Changes
<1>5. CASE k \in DOMAIN a
  <2>1. PICK j \in DOMAIN a : k < j /\ a[j] = UpdateParty
    BY <1>5, <1>1 DEF PartyLast, Changes
  <2> QED
    BY <2>1, <1>1, <1>5
<1>6. ASSUME NEW i \in DOMAIN b, k = n + i
      PROVE  \E j \in DOMAIN c : k < j /\ c[j] = UpdateParty
  <2>1. PICK j \in DOMAIN b : i < j /\ b[j] = UpdateParty
    BY <1>6, <1>2 DEF PartyLast, Changes
  <2>2. n + j \in DOMAIN c /\ k < n + j /\ c[n + j] = b[j]
    BY <2>1, <1>2, <1>4, <1>6
  <2> QED
    BY <2>1, <2>2
<1> QED
  BY <1>3, <1>5, <1>6

\* An agenda that ends with the update of the party.
LEMMA EndsWithParty ==
  ASSUME NEW a \in Seq(StepSet)
  PROVE  PartyLast(a \o <<UpdateParty>>)
<1> DEFINE b == <<UpdateParty>>
           c == a \o b
           n == Len(a)
<1>1. b \in Seq({UpdateParty}) /\ DOMAIN b = {1} /\ b[1] = UpdateParty
  OBVIOUS
<1> HIDE DEF c, n, b
<1>2. \A k \in DOMAIN a : k \in DOMAIN c /\ c[k] = a[k]
  BY <1>1, Joined DEF c
<1>3. n + 1 \in DOMAIN c /\ c[n + 1] = UpdateParty
  BY <1>1, Joined DEF c, n
<1>4. \A k \in DOMAIN c : k \in DOMAIN a \/ k = n + 1
  <2>1. \A k \in DOMAIN c : k \in DOMAIN a \/ \E j \in DOMAIN b : k = n + j
    BY <1>1, Joined DEF c, n
  <2> QED
    BY <2>1, <1>1
<1>5. n \in Nat /\ \A k \in DOMAIN a : k < n + 1
  BY <1>1, Joined DEF n
<1> SUFFICES ASSUME NEW k \in DOMAIN c, c[k].do \in {"mark", "pay", "unpay", "settle"}
             PROVE  \E j \in DOMAIN c : k < j /\ c[j] = UpdateParty
  BY DEF PartyLast, c, b
<1>6. k # n + 1
  BY <1>3, PartyStep
<1> QED
  BY <1>3, <1>4, <1>5, <1>6

LEMMA JoinUnique ==
  ASSUME NEW X, NEW Y, NEW a \in Seq(X), NEW b \in Seq(Y), NoRepeats(a), NoRepeats(b),
         \A s \in X \cap Y : s.do = "party"
  PROVE  NoRepeats(a \o b)
<1> DEFINE c == a \o b
           n == Len(a)
<1> HIDE DEF c, n
<1>1. \A k \in DOMAIN a : k \in DOMAIN c /\ c[k] = a[k] /\ a[k] \in X
  BY Joined DEF c
<1>2. \A k \in DOMAIN b : n + k \in DOMAIN c /\ c[n + k] = b[k] /\ b[k] \in Y
  BY Joined DEF c, n
<1>3. \A k \in DOMAIN c : k \in DOMAIN a \/ \E j \in DOMAIN b : k = n + j
  BY Joined DEF c, n
<1> SUFFICES ASSUME NEW j \in DOMAIN c, NEW k \in DOMAIN c, c[j] = c[k], c[j].do # "party"
             PROVE  j = k
  BY DEF NoRepeats, c
<1>4. CASE j \in DOMAIN a /\ k \in DOMAIN a
  BY <1>4, <1>1 DEF NoRepeats
<1>5. CASE j \in DOMAIN a /\ \E y \in DOMAIN b : k = n + y
  BY <1>5, <1>1, <1>2
<1>6. CASE (\E x \in DOMAIN b : j = n + x) /\ k \in DOMAIN a
  BY <1>6, <1>1, <1>2
<1>7. ASSUME NEW x \in DOMAIN b, NEW y \in DOMAIN b, j = n + x, k = n + y
      PROVE  j = k
  BY <1>7, <1>2 DEF NoRepeats
<1> QED
  BY <1>3, <1>4, <1>5, <1>6, <1>7

LEMMA Tailed ==
  ASSUME NEW X, NEW a \in Seq(X), a # <<>>
  PROVE  /\ Tail(a) \in Seq(X)
         /\ 1 \in DOMAIN a /\ Head(a) = a[1] /\ Head(a) \in X
         /\ DOMAIN a \subseteq Nat
         /\ \A k \in DOMAIN a : a[k] \in X /\ (k = 1 \/ (k - 1 \in DOMAIN Tail(a) /\ 1 < k))
         /\ \A k \in DOMAIN Tail(a) : k + 1 \in DOMAIN a /\ Tail(a)[k] = a[k + 1] /\ k \in Nat /\ 0 < k
         /\ \A k \in DOMAIN a : k # 1 => Tail(a)[k - 1] = a[k]
<1>1. /\ Len(a) \in Nat /\ DOMAIN a = 1 .. Len(a)
      /\ \A k \in DOMAIN a : a[k] \in X
  BY LenProperties
<1>2. Len(a) # 0
  BY EmptySeq
<1>3. /\ Head(a) \in X /\ Tail(a) \in Seq(X) /\ Len(Tail(a)) = Len(a) - 1
      /\ \A i \in 1 .. Len(Tail(a)) : Tail(a)[i] = a[i + 1]
  BY HeadTailProperties
<1>4. DOMAIN Tail(a) = 1 .. Len(a) - 1
  BY <1>3, LenProperties
<1>5. Head(a) = a[1]
  BY <1>1, <1>2
<1> DEFINE t == Tail(a)
<1> HIDE DEF t
<1>6. ASSUME NEW k \in DOMAIN a, k # 1
      PROVE  k - 1 \in DOMAIN t /\ 1 < k /\ t[k - 1] = a[k]
  <2>1. k - 1 \in 1 .. Len(a) - 1 /\ 1 < k /\ (k - 1) + 1 = k
    BY <1>1, <1>6
  <2> QED
    BY <2>1, <1>3, <1>4 DEF t
<1>7. ASSUME NEW k \in DOMAIN t
      PROVE  k + 1 \in DOMAIN a /\ t[k] = a[k + 1] /\ k \in Nat /\ 0 < k
  <2>1. k \in 1 .. Len(a) - 1 /\ k + 1 \in 1 .. Len(a)
    BY <1>1, <1>4 DEF t
  <2> QED
    BY <2>1, <1>1, <1>3 DEF t
<1>8. 1 \in DOMAIN a
  BY <1>1, <1>2
<1> QED
  BY <1>1, <1>3, <1>5, <1>6, <1>7, <1>8 DEF t

LEMMA TailHas ==
  ASSUME NEW a \in Seq(StepSet), a # <<>>
  PROVE  /\ \A s : Has(a, s) <=> s = Head(a) \/ Has(Tail(a), s)
         /\ \A d : Turning(Tail(a), d) => Turning(a, d)
         /\ \A d, l : Writing(a, d, l) =>
              \/ Writing(Tail(a), d, l)
              \/ Head(a).do \in Writes /\ Head(a).doc = d /\ Head(a).at = l
         /\ \A d, l : Writing(Tail(a), d, l) => Writing(a, d, l)
<1> DEFINE t == Tail(a)
           h == Head(a)
<1>1. /\ 1 \in DOMAIN a /\ h = a[1]
      /\ \A k \in DOMAIN a : k = 1 \/ (k - 1 \in DOMAIN t /\ t[k - 1] = a[k])
      /\ \A k \in DOMAIN t : k + 1 \in DOMAIN a /\ t[k] = a[k + 1]
  BY Tailed
<1> HIDE DEF t, h
<1>2. \A k \in DOMAIN a : a[k] = h \/ \E j \in DOMAIN t : t[j] = a[k]
  BY <1>1
<1>3. \A k \in DOMAIN t : \E j \in DOMAIN a : a[j] = t[k]
  BY <1>1
<1>4. ASSUME NEW s PROVE Has(a, s) <=> s = h \/ Has(t, s)
  BY <1>1, <1>2, <1>3 DEF Has
<1>5. ASSUME NEW d, Turning(t, d) PROVE Turning(a, d)
  BY <1>3, <1>5 DEF Turning
<1>6. ASSUME NEW d, NEW l, Writing(a, d, l)
      PROVE  Writing(t, d, l) \/ (h.do \in Writes /\ h.doc = d /\ h.at = l)
  <2>1. PICK k \in DOMAIN a : a[k].do \in Writes /\ a[k].doc = d /\ a[k].at = l
    BY <1>6 DEF Writing
  <2> QED
    BY <2>1, <1>2 DEF Writing
<1>7. ASSUME NEW d, NEW l, Writing(t, d, l) PROVE Writing(a, d, l)
  BY <1>3, <1>7 DEF Writing
<1> QED
  BY <1>4, <1>5, <1>6, <1>7 DEF t, h

LEMMA TailUnique ==
  ASSUME NEW a \in Seq(StepSet), a # <<>>, NoRepeats(a)
  PROVE  /\ NoRepeats(Tail(a))
         /\ Head(a).do # "party" => ~Has(Tail(a), Head(a))
<1> DEFINE t == Tail(a)
           h == Head(a)
<1>1. /\ 1 \in DOMAIN a /\ h = a[1]
      /\ \A k \in DOMAIN t : k + 1 \in DOMAIN a /\ t[k] = a[k + 1] /\ k \in Nat /\ 0 < k
  BY Tailed
<1> HIDE DEF t, h
<1>2. NoRepeats(t)
  <2> SUFFICES ASSUME NEW j \in DOMAIN t, NEW k \in DOMAIN t, t[j] = t[k], t[j].do # "party"
               PROVE  j = k
    BY DEF NoRepeats
  <2>1. j + 1 = k + 1
    BY <1>1 DEF NoRepeats
  <2> QED
    BY <2>1, <1>1
<1>3. ASSUME h.do # "party", Has(t, h) PROVE FALSE
  <2>1. PICK k \in DOMAIN t : t[k] = h
    BY <1>3 DEF Has
  <2>2. k + 1 = 1
    BY <2>1, <1>1, <1>3 DEF NoRepeats
  <2> QED
    BY <2>2, <1>1
<1> QED
  BY <1>2, <1>3 DEF t, h

LEMMA TailMirrored ==
  ASSUME NEW a \in Seq(StepSet), a # <<>>, FlagsMirrored(a)
  PROVE  /\ FlagsMirrored(Tail(a))
         /\ Head(a).do = "flag" => Has(Tail(a), Step("mirror", Head(a).doc, Head(a).at))
<1> DEFINE t == Tail(a)
           h == Head(a)
<1>1. /\ 1 \in DOMAIN a /\ h = a[1] /\ DOMAIN a \subseteq Nat
      /\ \A k \in DOMAIN a : k # 1 => k - 1 \in DOMAIN t /\ t[k - 1] = a[k]
      /\ \A k \in DOMAIN t : k + 1 \in DOMAIN a /\ t[k] = a[k + 1] /\ k \in Nat /\ 0 < k
  BY Tailed
<1> HIDE DEF t, h
<1>2. FlagsMirrored(t)
  <2> SUFFICES ASSUME NEW k \in DOMAIN t, t[k].do = "flag"
               PROVE  \E j \in DOMAIN t : k < j /\ t[j] = Step("mirror", t[k].doc, t[k].at)
    BY DEF FlagsMirrored
  <2>1. PICK j \in DOMAIN a : k + 1 < j /\ a[j] = Step("mirror", t[k].doc, t[k].at)
    BY <1>1 DEF FlagsMirrored
  <2>2. j - 1 \in DOMAIN t /\ k < j - 1 /\ t[j - 1] = a[j]
    BY <2>1, <1>1
  <2> QED
    BY <2>1, <2>2
<1>3. ASSUME h.do = "flag" PROVE Has(t, Step("mirror", h.doc, h.at))
  <2>1. PICK j \in DOMAIN a : 1 < j /\ a[j] = Step("mirror", h.doc, h.at)
    BY <1>1, <1>3 DEF FlagsMirrored
  <2>2. j - 1 \in DOMAIN t /\ t[j - 1] = a[j]
    BY <2>1, <1>1
  <2> QED
    BY <2>1, <2>2 DEF Has
<1> QED
  BY <1>2, <1>3 DEF t, h

LEMMA TailParty ==
  ASSUME NEW a \in Seq(StepSet), a # <<>>, PartyLast(a)
  PROVE  /\ PartyLast(Tail(a))
         /\ Head(a).do \in {"mark", "pay", "unpay", "settle"} => Has(Tail(a), UpdateParty)
<1> DEFINE t == Tail(a)
           h == Head(a)
           Changes == {"mark", "pay", "unpay", "settle"}
<1>1. /\ 1 \in DOMAIN a /\ h = a[1] /\ DOMAIN a \subseteq Nat
      /\ \A k \in DOMAIN a : k # 1 => k - 1 \in DOMAIN t /\ t[k - 1] = a[k]
      /\ \A k \in DOMAIN t : k + 1 \in DOMAIN a /\ t[k] = a[k + 1] /\ k \in Nat /\ 0 < k
  BY Tailed
<1> HIDE DEF t, h, Changes
<1>2. PartyLast(t)
  <2> SUFFICES ASSUME NEW k \in DOMAIN t, t[k].do \in Changes
               PROVE  \E j \in DOMAIN t : k < j /\ t[j] = UpdateParty
    BY DEF PartyLast, Changes
  <2>1. PICK j \in DOMAIN a : k + 1 < j /\ a[j] = UpdateParty
    BY <1>1 DEF PartyLast, Changes
  <2>2. j - 1 \in DOMAIN t /\ k < j - 1 /\ t[j - 1] = a[j]
    BY <2>1, <1>1
  <2> QED
    BY <2>1, <2>2
<1>3. ASSUME h.do \in Changes PROVE Has(t, UpdateParty)
  <2>1. PICK j \in DOMAIN a : 1 < j /\ a[j] = UpdateParty
    BY <1>1, <1>3 DEF PartyLast, Changes
  <2>2. j - 1 \in DOMAIN t /\ t[j - 1] = a[j]
    BY <2>1, <1>1
  <2> QED
    BY <2>1, <2>2 DEF Has
<1> QED
  BY <1>2, <1>3 DEF t, h, Changes

LEMMA TailMarks ==
  ASSUME NEW a \in Seq(StepSet), a # <<>>, MarksFirst(a)
  PROVE  /\ MarksFirst(Tail(a))
         /\ ~Turning(Tail(a), Head(a).doc)
         /\ Head(a).do \notin Turns => ~Turning(a, Head(a).doc)
<1> DEFINE t == Tail(a)
           h == Head(a)
<1>1. /\ 1 \in DOMAIN a /\ h = a[1] /\ DOMAIN a \subseteq Nat
      /\ \A k \in DOMAIN a : k # 1 => k - 1 \in DOMAIN t /\ t[k - 1] = a[k] /\ 1 < k
      /\ \A k \in DOMAIN t : k + 1 \in DOMAIN a /\ t[k] = a[k + 1] /\ k \in Nat /\ 0 < k
  BY Tailed
<1> HIDE DEF t, h
<1>2. MarksFirst(t)
  <2> SUFFICES ASSUME NEW j \in DOMAIN t, NEW k \in DOMAIN t,
                      t[j].do \in Turns, t[k].doc = t[j].doc, j # k
               PROVE  j < k
    BY DEF MarksFirst
  <2>1. j + 1 # k + 1
    BY <1>1
  <2>2. j + 1 < k + 1
    BY <2>1, <1>1 DEF MarksFirst
  <2> QED
    BY <2>2, <1>1
<1>3. ASSUME NEW j \in DOMAIN a, j # 1, a[j].do \in Turns, a[j].doc = h.doc PROVE FALSE
  <2>1. j < 1
    BY <1>1, <1>3 DEF MarksFirst
  <2> QED
    BY <2>1, <1>1, <1>3
<1>4. ASSUME Turning(t, h.doc) PROVE FALSE
  <2>1. PICK k \in DOMAIN t : t[k].do \in Turns /\ t[k].doc = h.doc
    BY <1>4 DEF Turning
  <2> QED
    BY <2>1, <1>1, <1>3
<1>5. ASSUME h.do \notin Turns, Turning(a, h.doc) PROVE FALSE
  <2>1. PICK j \in DOMAIN a : a[j].do \in Turns /\ a[j].doc = h.doc
    BY <1>5 DEF Turning
  <2> QED
    BY <2>1, <1>1, <1>3, <1>5
<1> QED
  BY <1>2, <1>4, <1>5 DEF t, h

LEMMA TailRows ==
  ASSUME NEW a \in Seq(StepSet), a # <<>>, MarksFirst(a), RowsFollow(a)
  PROVE  /\ RowsFollow(Tail(a))
         /\ Head(a).do = "mark" /\ Head(a).doc \in Payment =>
              \A i \in Rows(Head(a).doc) : Has(Tail(a), RowStep(Head(a), i))
<1> DEFINE t == Tail(a)
           h == Head(a)
<1>1. /\ 1 \in DOMAIN a /\ h = a[1] /\ DOMAIN a \subseteq Nat
      /\ \A k \in DOMAIN t : k + 1 \in DOMAIN a /\ t[k] = a[k + 1] /\ k \in Nat /\ 0 < k
  BY Tailed
<1>2. \A s : Has(a, s) <=> s = h \/ Has(t, s)
  BY TailHas
<1>3. ~Turning(t, h.doc)
  BY TailMarks
<1> HIDE DEF t, h
<1>4. ASSUME NEW s, NEW i PROVE RowStep(s, i).doc = s.doc /\ RowStep(s, i).do \in {"pay", "unpay"}
  BY StepFields DEF RowStep
<1>5. RowsFollow(t)
  <2> SUFFICES ASSUME NEW k \in DOMAIN t, t[k].do = "mark", t[k].doc \in Payment,
                      NEW i \in Rows(t[k].doc)
               PROVE  Has(t, RowStep(t[k], i))
    BY DEF RowsFollow
  <2>1. Has(a, RowStep(t[k], i))
    BY <1>1 DEF RowsFollow
  <2>2. RowStep(t[k], i) # h
    BY <1>3, <1>4 DEF Turning, Turns
  <2> QED
    BY <2>1, <2>2, <1>2
<1>6. ASSUME h.do = "mark", h.doc \in Payment, NEW i \in Rows(h.doc)
      PROVE  Has(t, RowStep(h, i))
  <2>1. Has(a, RowStep(h, i))
    BY <1>1, <1>6 DEF RowsFollow
  <2>2. RowStep(h, i) # h
    BY <1>4, <1>6
  <2> QED
    BY <2>1, <2>2, <1>2
<1> QED
  BY <1>5, <1>6 DEF t, h

-----------------------------------------------------------------------------
(* The agenda of one document: its change of status, then the steps that   *)
(* follow from it.                                                         *)

After(t) == {s \in StepSet : s.do \notin Turns /\ (s.do # "party" => TurnOf(s) = t)}

Part(b, L) == b \in Seq(L) /\ NoRepeats(b) /\ FlagsMirrored(b)

Chunk(a, t, K) ==
  /\ a \in Seq(K \cup {t})
  /\ a # <<>>
  /\ a[1] = t
  /\ \A k \in DOMAIN a : k # 1 => a[k] \in K
  /\ NoRepeats(a)
  /\ FlagsMirrored(a)

\* An agenda that touches the documents D and no other, and may be begun.
Owned(a, D)  == \A k \in DOMAIN a : a[k].do # "party" => a[k].doc \in D
Backed(a)    == \A k \in DOMAIN a : a[k].do \notin Turns \cup {"party"} => Has(a, TurnOf(a[k]))
Readied(a)   == \A k \in DOMAIN a : Ready(a[k])
Entered(a)   == \A k \in DOMAIN a : a[k].do \in Turns /\ a[k].doc \notin torn =>
  \A l \in Leg : Writing(a, a[k].doc, l) \/ EntryOf(a[k].at) = EntryOf(status[a[k].doc])

Plan(a, D) ==
  /\ a \in Seq(StepSet)
  /\ Owned(a, D)
  /\ MarksFirst(a)
  /\ NoRepeats(a)
  /\ FlagsMirrored(a)
  /\ RowsFollow(a)
  /\ Backed(a)
  /\ Readied(a)
  /\ Entered(a)

LEMMA ChunkStart ==
  ASSUME NEW t \in TurnStep
  PROVE  Chunk(<<t>>, t, {})
<1>1. t.do # "flag"
  BY TurnTypes DEF Turns
<1>2. /\ <<t>> \in Seq({} \cup {t}) /\ <<t>> # <<>> /\ <<t>>[1] = t
      /\ \A k \in DOMAIN <<t>> : k = 1
  OBVIOUS
<1>3. NoRepeats(<<t>>)
  BY <1>2 DEF NoRepeats
<1>4. FlagsMirrored(<<t>>)
  BY <1>1, <1>2 DEF FlagsMirrored
<1> QED
  BY <1>2, <1>3, <1>4 DEF Chunk

LEMMA ChunkAdd ==
  ASSUME NEW t \in TurnStep, NEW K \in SUBSET After(t), NEW L \in SUBSET After(t),
         \A s \in K \cap L : s.do = "party",
         NEW a, NEW b, Chunk(a, t, K), Part(b, L)
  PROVE  Chunk(a \o b, t, K \cup L)
<1>1. a \in Seq(K \cup {t}) /\ b \in Seq(L)
  BY DEF Chunk, Part
<1>2. t \notin L
  BY TurnTypes DEF After
<1>3. NoRepeats(a \o b)
  BY <1>1, <1>2, JoinUnique DEF Chunk, Part
<1>4. FlagsMirrored(a \o b)
  BY <1>1, JoinMirrored DEF Chunk, Part
<1>5. a \o b \in Seq((K \cup {t}) \cup L)
  BY <1>1, Joined
<1>6. (K \cup {t}) \cup L = (K \cup L) \cup {t}
  OBVIOUS
<1>7. 1 \in DOMAIN a
  BY <1>1, Tailed DEF Chunk
<1> DEFINE c == a \o b
           n == Len(a)
<1> HIDE DEF c, n
<1>8. \A k \in DOMAIN a : k \in DOMAIN c /\ c[k] = a[k]
  BY <1>1, Joined DEF c
<1>9. \A k \in DOMAIN b : c[n + k] = b[k] /\ b[k] \in L
  BY <1>1, Joined, ElementOfSeq DEF c, n
<1>10. \A k \in DOMAIN c : k \in DOMAIN a \/ \E j \in DOMAIN b : k = n + j
  BY <1>1, Joined DEF c, n
<1>11. c[1] = t
  BY <1>7, <1>8 DEF Chunk
<1>12. \A k \in DOMAIN c : k # 1 => c[k] \in K \cup L
  BY <1>8, <1>9, <1>10 DEF Chunk
<1>13. c # <<>>
  BY <1>7, <1>8
<1> QED
  BY <1>3, <1>4, <1>5, <1>6, <1>11, <1>12, <1>13 DEF Chunk, c

LEMMA ChunkPlan ==
  ASSUME NEW t \in TurnStep, NEW K \in SUBSET After(t), NEW a, Chunk(a, t, K),
         Ready(t), \A s \in K : Ready(s),
         t.do = "mark" /\ t.doc \in Payment => \A i \in Rows(t.doc) : Has(a, RowStep(t, i)),
         t.doc \notin torn =>
           \A l \in Leg : Writing(a, t.doc, l) \/ EntryOf(t.at) = EntryOf(status[t.doc])
  PROVE  Plan(a, {t.doc})
<1>1. a \in Seq(StepSet)
  <2>1. K \cup {t} \subseteq StepSet
    BY TurnTypes DEF After
  <2> QED
    BY <2>1, SeqMonotonic DEF Chunk
<1>2. 1 \in DOMAIN a /\ a[1] = t /\ DOMAIN a \subseteq Nat /\ \A k \in DOMAIN a : k # 1 => 1 < k
  BY <1>1, Tailed DEF Chunk
<1>3. \A k \in DOMAIN a : k # 1 => a[k] \in K
  BY DEF Chunk
<1>4. \A s \in K : s.do \notin Turns /\ (s.do # "party" => TurnOf(s) = t /\ s.doc = t.doc)
  BY TurnOfFields DEF After
<1>5. Owned(a, {t.doc})
  BY <1>2, <1>3, <1>4 DEF Owned
<1>6. MarksFirst(a)
  BY <1>2, <1>3, <1>4 DEF MarksFirst
<1>7. RowsFollow(a)
  BY <1>2, <1>3, <1>4 DEF RowsFollow, Turns
<1>8. Backed(a)
  <2>1. t.do \in Turns
    BY TurnTypes
  <2>2. Has(a, t)
    BY <1>2 DEF Has
  <2> QED
    BY <1>2, <1>3, <1>4, <2>1, <2>2 DEF Backed
<1>9. Readied(a)
  BY <1>2, <1>3 DEF Readied
<1>10. Entered(a)
  BY <1>2, <1>3, <1>4 DEF Entered
<1> QED
  BY <1>1, <1>5, <1>6, <1>7, <1>8, <1>9, <1>10 DEF Plan, Chunk

-----------------------------------------------------------------------------
(* The agenda of several documents.                                        *)

LEMMA PlanJoin ==
  ASSUME NEW D, NEW E, D \cap E = {}, NEW a, NEW b, Plan(a, D), Plan(b, E)
  PROVE  Plan(a \o b, D \cup E)
<1> DEFINE X == {s \in StepSet : s.do # "party" => s.doc \in D}
           Y == {s \in StepSet : s.do # "party" => s.doc \in E}
           c == a \o b
           n == Len(a)
<1>1. a \in Seq(StepSet) /\ b \in Seq(StepSet)
  BY DEF Plan
<1>2. /\ Len(a) \in Nat /\ a \in [1 .. Len(a) -> StepSet] /\ DOMAIN a = 1 .. Len(a)
      /\ Len(b) \in Nat /\ b \in [1 .. Len(b) -> StepSet] /\ DOMAIN b = 1 .. Len(b)
  BY <1>1, LenProperties
<1>3. a \in Seq(X) /\ b \in Seq(Y)
  <2>1. \A k \in 1 .. Len(a) : a[k] \in X
    BY <1>2 DEF Plan, Owned
  <2>2. \A k \in 1 .. Len(b) : b[k] \in Y
    BY <1>2 DEF Plan, Owned
  <2> HIDE DEF X, Y
  <2>3. a \in [1 .. Len(a) -> X] /\ b \in [1 .. Len(b) -> Y]
    BY <2>1, <2>2, <1>2
  <2> QED
    BY <1>2, <2>3, SeqDef
<1>4. \A s \in X \cap Y : s.do = "party"
  OBVIOUS
<1> HIDE DEF X, Y
<1>5. NoRepeats(a \o b)
  BY <1>3, <1>4, JoinUnique DEF Plan
<1>6. FlagsMirrored(a \o b)
  BY <1>1, JoinMirrored DEF Plan
<1>7. \A s : Has(a, s) \/ Has(b, s) => Has(a \o b, s)
  BY <1>1, JoinHas
<1>8. \A d, l : Writing(a, d, l) \/ Writing(b, d, l) => Writing(a \o b, d, l)
  BY <1>1, JoinHas
<1>9. a \o b \in Seq(StepSet)
  BY <1>1, ConcatProperties
<1> HIDE DEF c, n
<1>10. n \in Nat /\ DOMAIN a \subseteq 1 .. n /\ DOMAIN b \subseteq Nat \ {0}
  BY <1>2 DEF n
<1>11. \A k \in DOMAIN a : k \in DOMAIN c /\ c[k] = a[k]
  BY <1>1, Joined DEF c
<1>12. \A k \in DOMAIN b : n + k \in DOMAIN c /\ c[n + k] = b[k]
  BY <1>1, Joined DEF c, n
<1>13. \A k \in DOMAIN c : k \in DOMAIN a \/ \E j \in DOMAIN b : k = n + j
  BY <1>1, Joined DEF c, n
<1>14. \A k \in DOMAIN c : (\E j \in DOMAIN a : c[k] = a[j]) \/ (\E j \in DOMAIN b : c[k] = b[j])
  BY <1>11, <1>12, <1>13
<1>15. Owned(c, D \cup E)
  BY <1>14 DEF Owned, Plan
<1>16. MarksFirst(c)
  <2> SUFFICES ASSUME NEW j \in DOMAIN c, NEW k \in DOMAIN c,
                      c[j].do \in Turns, c[k].doc = c[j].doc, j # k
               PROVE  j < k
    BY DEF MarksFirst
  <2>1. \A x \in DOMAIN a : a[x].do # "party" => a[x].doc \in D
    BY DEF Plan, Owned
  <2>2. \A x \in DOMAIN b : b[x].do # "party" => b[x].doc \in E
    BY DEF Plan, Owned
  <2>3. c[j].do # "party" /\ c[k].do # "party"
    <3>1. c \in Seq(StepSet)
      BY <1>9 DEF c
    <3>2. c[j] \in StepSet /\ c[k] \in StepSet
      BY <3>1
    <3>3. c[j].do # "party"
      BY DEF Turns
    <3>4. c[j].doc \in Document
      BY <3>2, <3>3, StepTypes
    <3> QED
      BY <3>2, <3>3, <3>4, StepTypes, PartyStep, DocumentAssumption
  <2>4. CASE j \in DOMAIN a /\ k \in DOMAIN a
    BY <2>4, <1>11 DEF Plan, MarksFirst
  <2>5. CASE j \in DOMAIN a /\ \E y \in DOMAIN b : k = n + y
    BY <2>1, <2>2, <2>3, <2>5, <1>11, <1>12
  <2>6. CASE (\E x \in DOMAIN b : j = n + x) /\ k \in DOMAIN a
    BY <2>1, <2>2, <2>3, <2>6, <1>11, <1>12
  <2>7. ASSUME NEW x \in DOMAIN b, NEW y \in DOMAIN b, j = n + x, k = n + y
        PROVE  j < k
    <3>1. x # y /\ b[x].do \in Turns /\ b[y].doc = b[x].doc
      BY <2>7, <1>12
    <3>2. x < y
      BY <3>1 DEF Plan, MarksFirst
    <3> QED
      BY <3>2, <2>7, <1>10
  <2> QED
    BY <2>4, <2>5, <2>6, <2>7, <1>13
<1>17. RowsFollow(c)
  BY <1>7, <1>14 DEF RowsFollow, Plan, c
<1>18. Backed(c)
  BY <1>7, <1>14 DEF Backed, Plan, c
<1>19. Readied(c)
  BY <1>14 DEF Readied, Plan
<1>20. Entered(c)
  BY <1>8, <1>14 DEF Entered, Plan, c
<1> QED
  BY <1>5, <1>6, <1>9, <1>15, <1>16, <1>17, <1>18, <1>19, <1>20 DEF Plan, c

LEMMA PlanParty ==
  ASSUME NEW D, NEW a, Plan(a, D)
  PROVE  Plan(a \o <<UpdateParty>>, D) /\ PartyLast(a \o <<UpdateParty>>)
<1> DEFINE b == <<UpdateParty>>
<1>1. b \in Seq(StepSet) /\ DOMAIN b = {1} /\ b[1] = UpdateParty
  BY PartyStep
<1> HIDE DEF b
<1>2. b[1].do = "party"
  BY <1>1, PartyStep
<1>3. Owned(b, {}) /\ Backed(b) /\ NoRepeats(b) /\ RowsFollow(b) /\ FlagsMirrored(b)
  BY <1>1, <1>2 DEF Owned, Backed, NoRepeats, RowsFollow, FlagsMirrored
<1>4. MarksFirst(b) /\ Entered(b)
  BY <1>1, <1>2 DEF MarksFirst, Entered, Turns
<1>5. Readied(b)
  BY <1>1, <1>2 DEF Readied, Ready
<1>6. Plan(b, {})
  BY <1>1, <1>3, <1>4, <1>5 DEF Plan
<1>7. Plan(a \o b, D \cup {})
  BY <1>6, PlanJoin
<1>8. D \cup {} = D
  OBVIOUS
<1> QED
  BY <1>7, <1>8, EndsWithParty DEF Plan, b

LEMMA PlanNothing == Plan(<<>>, {}) /\ PartyLast(<<>>)
<1>1. <<>> \in Seq(StepSet) /\ DOMAIN <<>> = {}
  OBVIOUS
<1> QED
  BY <1>1 DEF Plan, Owned, Backed, NoRepeats, RowsFollow, FlagsMirrored, MarksFirst, Entered,
              Readied, PartyLast

\* The agendas of the documents of T, one after another in the order of SetToSeq.
LEMMA PlanEach ==
  ASSUME NEW T, IsFiniteSet(T), NEW ss, ss = [k \in DOMAIN SetToSeq(T) |-> ss[k]],
         \A k \in DOMAIN SetToSeq(T) : Plan(ss[k], {SetToSeq(T)[k]}) /\ PartyLast(ss[k])
  PROVE  Plan(FlattenSeq(ss), T) /\ PartyLast(FlattenSeq(ss))
<1> DEFINE n == Cardinality(T)
           q == SetToSeq(T)
<1>1. /\ n \in Nat
      /\ q \in [1 .. n -> T]
      /\ \A i, j \in 1 .. n : q[i] = q[j] => i = j
      /\ \A x \in T : \E i \in 1 .. n : q[i] = x
  BY SetToSeqLists
<1>2. DOMAIN q = 1 .. n
  BY <1>1
<1>3. /\ ss = [k \in 1 .. n |-> ss[k]]
      /\ \A k \in 1 .. n : Plan(ss[k], {q[k]}) /\ PartyLast(ss[k])
  BY <1>2
<1> HIDE DEF n, q
<1>4. CASE n = 0
  <2>1. T = {} /\ 1 .. n = {}
    BY <1>1, <1>4
  <2>2. FlattenSeq(ss) = <<>>
    BY <1>3, <2>1, FlattenNone
  <2> QED
    BY <2>1, <2>2, PlanNothing
<1>5. CASE n # 0
  <2>1. n \in Nat \ {0}
    BY <1>1, <1>5
  <2>2. ss \in [1 .. n -> Seq(StepSet)]
    BY <1>3 DEF Plan
  <2>3. PICK f \in [1 .. n -> Seq(StepSet)] :
          /\ f[1] = ss[1]
          /\ \A i \in 2 .. n : f[i] = f[i - 1] \o ss[i]
          /\ FlattenSeq(ss) = f[n]
    <3>1. \E f \in [1 .. n -> Seq(StepSet)] : Flattens(f, ss, n)
      BY ONLY <2>1, <2>2, FlattenRecursion
    <3> QED
      BY <3>1 DEF Flattens
  <2> DEFINE Of(m) == {q[k] : k \in 1 .. m}
             N == {m \in Nat : m \in 1 .. n => Plan(f[m], Of(m)) /\ PartyLast(f[m])}
  <2>4. 0 \in N
    OBVIOUS
  <2>5. \A m \in Nat : m \in N => m + 1 \in N
    <3> SUFFICES ASSUME NEW m \in Nat, m \in N PROVE m + 1 \in N
      OBVIOUS
    <3>1. m \in 1 .. n => Plan(f[m], Of(m)) /\ PartyLast(f[m])
      OBVIOUS
    <3> SUFFICES ASSUME m + 1 \in 1 .. n
                 PROVE  Plan(f[m + 1], Of(m + 1)) /\ PartyLast(f[m + 1])
      OBVIOUS
    <3> HIDE DEF N
    <3>2. CASE m = 0
      <4>1. f[m + 1] = ss[1] /\ 1 \in 1 .. n
        BY <2>1, <2>3, <3>2
      <4>2. 1 .. m + 1 = {1}
        BY <3>2
      <4>3. Of(m + 1) = {q[1]}
        BY <4>2
      <4> HIDE DEF Of
      <4> QED
        BY <4>1, <4>3, <1>3
    <3>3. CASE m # 0
      <4>1. m \in 1 .. n /\ m + 1 \in 2 .. n /\ (m + 1) - 1 = m /\ m + 1 \in 1 .. n
        BY <3>3, <2>1
      <4>2. f[m + 1] = f[m] \o ss[m + 1]
        BY <4>1, <2>3
      <4>3. Of(m) \cap {q[m + 1]} = {}
        <5>1. \A k \in 1 .. m : k \in 1 .. n /\ k # m + 1
          BY <4>1, <2>1
        <5> QED
          BY <5>1, <4>1, <1>1
      <4>4. Of(m) \cup {q[m + 1]} = Of(m + 1)
        <5>1. \A k : k \in 1 .. m + 1 <=> k \in 1 .. m \/ k = m + 1
          OBVIOUS
        <5> QED
          BY <5>1
      <4> HIDE DEF Of
      <4>5. Plan(f[m], Of(m)) /\ PartyLast(f[m]) /\ Plan(ss[m + 1], {q[m + 1]}) /\ PartyLast(ss[m + 1])
        BY <3>1, <4>1, <1>3
      <4>6. Plan(f[m] \o ss[m + 1], Of(m) \cup {q[m + 1]})
        BY <4>3, <4>5, PlanJoin
      <4>7. PartyLast(f[m] \o ss[m + 1])
        BY <4>5, JoinParty DEF Plan
      <4> QED
        BY <4>2, <4>4, <4>6, <4>7
    <3> QED
      BY <3>2, <3>3
  <2>6. \A m \in Nat : m \in N
    <3> HIDE DEF N
    <3> QED
      BY <2>4, <2>5, SetInduction
  <2>7. n \in 1 .. n
    BY <2>1
  <2>8. Of(n) = T
    BY <1>1
  <2>9. Plan(f[n], Of(n)) /\ PartyLast(f[n])
    <3>1. n \in N /\ n \in Nat
      BY <2>1, <2>6
    <3> HIDE DEF Of
    <3> QED
      BY <3>1, <2>7
  <2> HIDE DEF Of, N
  <2> QED
    BY <2>3, <2>8, <2>9
<1> QED
  BY <1>4, <1>5

-----------------------------------------------------------------------------
(* The parts of an operation.                                              *)

PostSteps(d)    == {Step("post", d, l) : l \in Leg}
ReverseSteps(d) == {Step(w, d, l) : w \in {"flag", "mirror"}, l \in Leg}
UnpostSteps(d)  == {Step("unpost", d, l) : l \in Leg}
RowSteps(w, p)  == {Step(w, p, i) : i \in Rows(p)}

Mark(d, st) == Step("mark", d, st)
Erase(d)    == Step("erase", d, "deleted")

LEMMA TurnsAreSteps ==
  ASSUME NEW d \in Document
  PROVE  /\ Mark(d, "submitted") \in TurnStep
         /\ Mark(d, "cancelled") \in TurnStep
         /\ Erase(d) \in TurnStep
BY DEF Mark, Erase, Step, TurnStep

LEMMA PartsFollow ==
  /\ \A d \in Document : PostSteps(d) \subseteq After(Mark(d, "submitted"))
  /\ \A d \in Document : ReverseSteps(d) \subseteq After(Mark(d, "cancelled"))
  /\ \A d \in Document : UnpostSteps(d) \subseteq After(Erase(d))
  /\ \A p \in Payment : RowSteps("pay", p) \subseteq After(Mark(p, "submitted"))
  /\ \A p \in Payment : RowSteps("unpay", p) \subseteq After(Mark(p, "cancelled"))
  /\ \A i \in Invoice : Step("settle", i, i) \in After(Mark(i, "submitted"))
<1>1. ASSUME NEW d \in Document, NEW s \in PostSteps(d) PROVE s \in After(Mark(d, "submitted"))
  <2>1. s \in LedgerStep /\ s.do = "post" /\ s.doc = d
    BY <1>1 DEF PostSteps, LedgerStep, Step, Writes
  <2>2. TurnTo(s) = "submitted"
    BY <2>1 DEF TurnTo
  <2> QED
    BY <2>1, <2>2 DEF After, TurnOf, Mark, StepSet, Turns
<1>2. ASSUME NEW d \in Document, NEW s \in ReverseSteps(d) PROVE s \in After(Mark(d, "cancelled"))
  <2>1. s \in LedgerStep /\ s.do \in {"flag", "mirror"} /\ s.doc = d
    BY <1>2 DEF ReverseSteps, LedgerStep, Step, Writes
  <2>2. TurnTo(s) = "cancelled"
    BY <2>1 DEF TurnTo
  <2> QED
    BY <2>1, <2>2 DEF After, TurnOf, Mark, StepSet, Turns
<1>3. ASSUME NEW d \in Document, NEW s \in UnpostSteps(d) PROVE s \in After(Erase(d))
  <2>1. s \in LedgerStep /\ s.do = "unpost" /\ s.doc = d
    BY <1>3 DEF UnpostSteps, LedgerStep, Step, Writes
  <2>2. TurnTo(s) = "deleted"
    BY <2>1 DEF TurnTo
  <2> QED
    BY <2>1, <2>2 DEF After, TurnOf, Erase, StepSet, Turns
<1>4. ASSUME NEW p \in Payment, NEW s \in RowSteps("pay", p) PROVE s \in After(Mark(p, "submitted"))
  <2>1. s \in PayStep /\ s.do = "pay" /\ s.doc = p
    BY <1>4 DEF RowSteps, PayStep, Step, Rows
  <2>2. TurnTo(s) = "submitted"
    BY <2>1 DEF TurnTo
  <2> QED
    BY <2>1, <2>2 DEF After, TurnOf, Mark, StepSet, Turns
<1>5. ASSUME NEW p \in Payment, NEW s \in RowSteps("unpay", p) PROVE s \in After(Mark(p, "cancelled"))
  <2>1. s \in PayStep /\ s.do = "unpay" /\ s.doc = p
    BY <1>5 DEF RowSteps, PayStep, Step, Rows
  <2>2. TurnTo(s) = "cancelled"
    BY <2>1 DEF TurnTo
  <2> QED
    BY <2>1, <2>2 DEF After, TurnOf, Mark, StepSet, Turns
<1>6. ASSUME NEW i \in Invoice PROVE Step("settle", i, i) \in After(Mark(i, "submitted"))
  <2> DEFINE s == Step("settle", i, i)
  <2>1. s \in SettleStep /\ s.do = "settle" /\ s.doc = i
    BY <1>6 DEF SettleStep, Step
  <2>2. TurnTo(s) = "submitted"
    BY <2>1 DEF TurnTo
  <2> QED
    BY <2>1, <2>2 DEF After, TurnOf, Mark, StepSet, Turns
<1> QED
  BY <1>1, <1>2, <1>3, <1>4, <1>5, <1>6

LEMMA PartEmpty == ASSUME NEW L PROVE Part(<<>>, L)
<1>1. <<>> \in Seq(L) /\ DOMAIN <<>> = {}
  OBVIOUS
<1> QED
  BY <1>1 DEF Part, NoRepeats, FlagsMirrored

LEMMA PartOne ==
  ASSUME NEW L, NEW s \in L, s.do # "flag"
  PROVE  Part(<<s>>, L) /\ Has(<<s>>, s)
<1>1. <<s>> \in Seq(L) /\ DOMAIN <<s>> = {1} /\ <<s>>[1] = s
  OBVIOUS
<1> QED
  BY <1>1 DEF Part, NoRepeats, FlagsMirrored, Has

\* Parts without a step in common.
LEMMA PartJoin ==
  ASSUME NEW K, NEW L, K \cap L = {}, NEW a, NEW b, Part(a, K), Part(b, L)
  PROVE  Part(a \o b, K \cup L)
<1>1. a \in Seq(K) /\ b \in Seq(L)
  BY DEF Part
<1>2. a \o b \in Seq(K \cup L)
  BY <1>1, Joined
<1>3. NoRepeats(a \o b)
  BY <1>1, JoinUnique DEF Part
<1>4. FlagsMirrored(a \o b)
  BY <1>1, JoinMirrored DEF Part
<1> QED
  BY <1>2, <1>3, <1>4 DEF Part

LEMMA PartTwo ==
  ASSUME NEW s, NEW r, s # r, s.do # "flag", r.do # "flag"
  PROVE  Part(<<s, r>>, {s, r}) /\ Has(<<s, r>>, s) /\ Has(<<s, r>>, r)
<1>1. <<s, r>> \in Seq({s, r}) /\ DOMAIN <<s, r>> = 1 .. 2 /\ <<s, r>>[1] = s /\ <<s, r>>[2] = r
  OBVIOUS
<1> QED
  BY <1>1 DEF Part, NoRepeats, FlagsMirrored, Has

\* PostAll(d) posts both legs.
LEMMA PostPart ==
  ASSUME NEW d
  PROVE  /\ Part(PostAll(d), PostSteps(d))
         /\ \A l \in Leg : Writing(PostAll(d), d, l)
<1> DEFINE s == Step("post", d, "debit")
           r == Step("post", d, "credit")
<1>1. s # r /\ s.do = "post" /\ r.do = "post" /\ s.doc = d /\ r.doc = d /\ s.at = "debit" /\ r.at = "credit"
  BY DEF Step
<1>2. PostSteps(d) = {s, r}
  BY DEF PostSteps, Leg
<1> HIDE DEF s, r
<1>3. Part(<<s, r>>, {s, r}) /\ Has(<<s, r>>, s) /\ Has(<<s, r>>, r)
  BY <1>1, PartTwo
<1>4. \A l \in Leg : Writing(<<s, r>>, d, l)
  BY <1>1, <1>3 DEF Has, Writing, Writes, Leg
<1>5. PostAll(d) = <<s, r>>
  BY DEF PostAll, s, r
<1> QED
  BY <1>2, <1>3, <1>4, <1>5

\* ReverseAll(d) flags and mirrors every posted leg.
LEMMA ReversePart ==
  ASSUME NEW d
  PROVE  /\ Part(ReverseAll(d), ReverseSteps(d))
         /\ \A l \in Leg : entries[d][l] = "posted" => Writing(ReverseAll(d), d, l)
<1> DEFINE Of(l) == {Step("flag", d, l), Step("mirror", d, l)}
<1>1. ASSUME NEW l \in Leg
      PROVE  /\ Part(ReverseEntry(d, l), Of(l))
             /\ entries[d][l] = "posted" => Writing(ReverseEntry(d, l), d, l)
  <2>1. CASE entries[d][l] = "posted"
    <3> DEFINE f == Step("flag", d, l)
               m == Step("mirror", d, l)
    <3>1. /\ f # m /\ f.do = "flag" /\ m.do = "mirror"
          /\ f.doc = d /\ f.at = l /\ Step("mirror", f.doc, f.at) = m
      BY DEF Step
    <3>2. ReverseEntry(d, l) = <<f, m>>
      BY <2>1 DEF ReverseEntry
    <3>3. Of(l) = {f, m}
      OBVIOUS
    <3> HIDE DEF f, m, Of
    <3>4. <<f, m>> \in Seq({f, m}) /\ DOMAIN <<f, m>> = 1 .. 2 /\ <<f, m>>[1] = f /\ <<f, m>>[2] = m
      OBVIOUS
    <3>5. NoRepeats(<<f, m>>)
      BY <3>1, <3>4 DEF NoRepeats
    <3>6. FlagsMirrored(<<f, m>>)
      BY <3>1, <3>4 DEF FlagsMirrored
    <3>7. Writing(<<f, m>>, d, l)
      BY <3>1, <3>4 DEF Writing, Writes
    <3> QED
      BY <3>2, <3>3, <3>4, <3>5, <3>6, <3>7 DEF Part
  <2>2. CASE entries[d][l] # "posted"
    BY <2>2, PartEmpty DEF ReverseEntry
  <2> QED
    BY <2>1, <2>2
<1>2. Of("debit") \cap Of("credit") = {}
  BY DEF Step
<1>3. ReverseSteps(d) = Of("debit") \cup Of("credit")
  BY DEF ReverseSteps, Leg
<1> HIDE DEF Of
<1>4. /\ Part(ReverseEntry(d, "debit"), Of("debit"))
      /\ Part(ReverseEntry(d, "credit"), Of("credit"))
  BY <1>1 DEF Leg
<1>5. Part(ReverseAll(d), ReverseSteps(d))
  BY <1>2, <1>3, <1>4, PartJoin DEF ReverseAll
<1>6. \A l \in Leg : Writing(ReverseEntry(d, "debit"), d, l) \/ Writing(ReverseEntry(d, "credit"), d, l)
                     => Writing(ReverseAll(d), d, l)
  BY <1>4, JoinHas DEF ReverseAll, Part
<1> QED
  BY <1>1, <1>5, <1>6 DEF Leg

\* EachRow(w, p) has one step for each row of p.
LEMMA RowPart ==
  ASSUME NEW p \in Payment, NEW w \in {"pay", "unpay"}
  PROVE  /\ Part(EachRow(w, p), RowSteps(w, p))
         /\ \A i \in Rows(p) : Has(EachRow(w, p), Step(w, p, i))
<1> DEFINE q == SetToSeq(Rows(p))
           n == Cardinality(Rows(p))
           e == [k \in 1 .. n |-> Step(w, p, q[k])]
<1>1. IsFiniteSet(Rows(p))
  BY FiniteAssumption, FS_Subset DEF Rows
<1>2. /\ n \in Nat
      /\ q \in [1 .. n -> Rows(p)]
      /\ \A i, j \in 1 .. n : q[i] = q[j] => i = j
      /\ \A x \in Rows(p) : \E i \in 1 .. n : q[i] = x
  BY <1>1, SetToSeqLists
<1>3. EachRow(w, p) = e
  BY <1>2 DEF EachRow
<1> HIDE DEF q, n
<1>4. \A k \in 1 .. n : e[k] \in RowSteps(w, p)
  BY <1>2 DEF RowSteps
<1>5. /\ DOMAIN e = 1 .. n
      /\ \A k \in 1 .. n : e[k] = Step(w, p, q[k])
      /\ \A k \in 1 .. n : e[k].do = w /\ e[k].at = q[k]
  BY StepFields
<1>6. e \in Seq(RowSteps(w, p))
  BY <1>2, <1>4
<1> HIDE DEF e
<1>7. NoRepeats(e)
  BY <1>2, <1>5 DEF NoRepeats
<1>8. FlagsMirrored(e)
  BY <1>5 DEF FlagsMirrored
<1>9. \A i \in Rows(p) : Has(e, Step(w, p, i))
  BY <1>2, <1>5 DEF Has
<1> QED
  BY <1>3, <1>6, <1>7, <1>8, <1>9 DEF Part

-----------------------------------------------------------------------------
(* Every operation the user starts is a plan.                              *)

Rest == TypeOK /\ agenda = <<>> /\ SeenInv /\ HeldInv /\ RowInv /\ LedgerInv

LEMMA EntryOfStatus ==
  /\ EntryOf("submitted") = "posted"
  /\ EntryOf("cancelled") = "mirrored"
  /\ EntryOf("draft") = "none" /\ EntryOf("deleted") = "none" /\ EntryOf("none") = "none"
BY DEF EntryOf

LEMMA RestLedger ==
  ASSUME Rest, NEW d \in Document, d \notin torn
  PROVE  /\ \A l \in Leg : entries[d][l] = EntryOf(status[d])
         /\ seen[d] = status[d]
<1>1. DOMAIN agenda = {}
  BY DEF Rest
<1>2. ~Turning(agenda, d) /\ \A l \in Leg : ~Writing(agenda, d, l)
  BY <1>1 DEF Turning, Writing
<1> QED
  BY <1>2 DEF Rest, LedgerInv, SeenInv

LEMMA NotReady ==
  \A s : s.do \notin {"mark", "erase", "settle"} => Ready(s)
BY DEF Ready

LEMMA TurnDiffers ==
  \A s \in StepSet : s.do \in Turns => s \notin After(s)
BY DEF After

LEMMA SubmitPaymentPlan ==
  ASSUME Rest, NEW p \in Payment, seen[p] = "draft"
  PROVE  Plan(SubmitPayment(p), {p}) /\ PartyLast(SubmitPayment(p))
<1> DEFINE t == Mark(p, "submitted")
           a == <<t>> \o PostAll(p)
           b == a \o EachRow("pay", p)
           K == PostSteps(p)
           L == RowSteps("pay", p)
<1>1. p \in Document /\ t \in TurnStep /\ t.doc = p /\ t.do = "mark" /\ t.at = "submitted"
  BY TurnsAreSteps, StepFields DEF Document, Mark
<1>2. K \in SUBSET After(t) /\ L \in SUBSET After(t)
  BY <1>1, PartsFollow
<1>3. \A s \in K : s.do = "post"
  BY StepFields DEF PostSteps
<1>4. \A s \in L : s.do = "pay"
  BY StepFields DEF RowSteps
<1>5. Part(PostAll(p), K) /\ \A l \in Leg : Writing(PostAll(p), p, l)
  BY PostPart
<1>6. Part(EachRow("pay", p), L) /\ \A i \in Rows(p) : Has(EachRow("pay", p), Step("pay", p, i))
  BY RowPart
<1>7. SubmitPayment(p) = b \o <<UpdateParty>>
  BY DEF SubmitPayment, Mark
<1> HIDE DEF t, K, L
<1>8. Chunk(a, t, {} \cup K)
  BY <1>1, <1>2, <1>5, ChunkStart, ChunkAdd
<1>9. {} \cup K = K
  OBVIOUS
<1>10. Chunk(b, t, K \cup L)
  <2>1. \A s \in K \cap L : s.do = "party"
    BY <1>3, <1>4
  <2>2. Chunk(a, t, K)
    BY <1>8, <1>9
  <2> HIDE DEF a
  <2> QED
    BY <1>1, <1>2, <1>6, <2>1, <2>2, ChunkAdd
<1>11. /\ a \in Seq(K \cup {t}) /\ EachRow("pay", p) \in Seq(L)
       /\ <<t>> \in Seq({t}) /\ PostAll(p) \in Seq(K)
  BY <1>5, <1>6, <1>8, <1>9 DEF Chunk, Part
<1>12. \A i \in Rows(p) : Has(b, Step("pay", p, i))
  BY <1>6, <1>11, JoinHas
<1>13. \A l \in Leg : Writing(b, p, l)
  BY <1>5, <1>11, JoinHas
<1> HIDE DEF a, b
<1>14. \A i \in Rows(p) : Has(b, RowStep(t, i))
  BY <1>1, <1>12 DEF RowStep
<1>15. Ready(t) /\ \A s \in K \cup L : Ready(s)
  BY <1>1, <1>3, <1>4 DEF Ready
<1>16. Plan(b, {p})
  BY <1>1, <1>2, <1>10, <1>13, <1>14, <1>15, ChunkPlan
<1> QED
  BY <1>7, <1>16, PlanParty

LEMMA SubmitInvoicePlan ==
  ASSUME Rest, NEW i \in Invoice, seen[i] = "draft"
  PROVE  Plan(SubmitInvoice(i), {i}) /\ PartyLast(SubmitInvoice(i))
<1> DEFINE t == Mark(i, "submitted")
           s == Step("settle", i, i)
           a == <<t>> \o PostAll(i)
           b == a \o <<s>>
           K == PostSteps(i)
<1>1. i \in Document /\ t \in TurnStep /\ t.doc = i /\ t.do = "mark" /\ t.at = "submitted"
  BY TurnsAreSteps, StepFields DEF Document, Mark
<1>2. K \in SUBSET After(t) /\ {s} \in SUBSET After(t)
  BY <1>1, PartsFollow
<1>3. \A r \in K : r.do = "post"
  BY StepFields DEF PostSteps
<1>4. s.do = "settle" /\ s.doc = i
  BY StepFields
<1>5. Part(PostAll(i), K) /\ \A l \in Leg : Writing(PostAll(i), i, l)
  BY PostPart
<1>6. /\ <<t>> \in Seq({t}) /\ <<s>> \in Seq({s})
      /\ a \in Seq(K \cup {t})
  <2>1. <<t>> \in Seq({t}) /\ <<s>> \in Seq({s}) /\ PostAll(i) \in Seq(K)
    BY <1>5 DEF Part
  <2> HIDE DEF t, s, K
  <2>2. {t} \cup K = K \cup {t}
    OBVIOUS
  <2> QED
    BY <2>1, <2>2, Joined
<1>7. SubmitInvoice(i) = b \o <<UpdateParty>>
  <2>1. SubmitInvoice(i) = a \o <<s, UpdateParty>>
    BY DEF SubmitInvoice, Mark
  <2>2. <<s>> \o <<UpdateParty>> = <<s, UpdateParty>>
    <3> DEFINE u == UpdateParty
    <3> HIDE DEF s, u
    <3>1. <<s>> \in Seq({s, u}) /\ <<u>> \in Seq({s, u}) /\ <<s, u>> \in Seq({s, u})
      OBVIOUS
    <3>2. Len(<<s>>) = 1 /\ Len(<<u>>) = 1 /\ Len(<<s, u>>) = 2
      OBVIOUS
    <3>3. <<s>> \o <<u>> \in Seq({s, u}) /\ Len(<<s>> \o <<u>>) = 2
      BY <3>1, <3>2, ConcatProperties
    <3>4. (<<s>> \o <<u>>)[1] = s /\ (<<s>> \o <<u>>)[2] = u
      BY <3>1, <3>2, ConcatProperties
    <3>5. \A k \in 1 .. 2 : (<<s>> \o <<u>>)[k] = <<s, u>>[k]
      BY <3>4
    <3>6. <<s>> \o <<u>> = <<s, u>>
      BY <3>1, <3>2, <3>3, <3>5, SeqEqual
    <3> QED
      BY <3>6 DEF u
  <2>3. a \in Seq(StepSet) /\ <<s>> \in Seq(StepSet) /\ <<UpdateParty>> \in Seq(StepSet)
    <3>1. K \cup {t} \subseteq StepSet /\ s \in StepSet
      BY <1>1, <1>2, TurnTypes DEF After
    <3>2. a \in Seq(StepSet)
      <4> HIDE DEF a, t, K
      <4> QED
        BY <3>1, <1>6, SeqMonotonic
    <3> HIDE DEF s
    <3> QED
      BY <3>1, <3>2, PartyStep
  <2> HIDE DEF a, s
  <2> QED
    BY <2>1, <2>2, <2>3, ConcatAssociative
<1>8. Part(<<s>>, {s})
  <2> HIDE DEF s
  <2> QED
    BY <1>4, PartOne
<1> HIDE DEF t, K, s
<1>9. Chunk(a, t, {} \cup K)
  BY <1>1, <1>2, <1>5, ChunkStart, ChunkAdd
<1>10. {} \cup K = K
  OBVIOUS
<1>11. Chunk(b, t, K \cup {s})
  <2>1. \A r \in K \cap {s} : r.do = "party"
    BY <1>3, <1>4
  <2>2. Chunk(a, t, K)
    BY <1>9, <1>10
  <2> HIDE DEF a
  <2> QED
    BY <1>1, <1>2, <1>8, <2>1, <2>2, ChunkAdd
<1>12. \A l \in Leg : Writing(b, i, l)
  <2>1. \A l \in Leg : Writing(a, i, l)
    BY <1>5, <1>6, JoinHas DEF Part
  <2> HIDE DEF a
  <2> QED
    BY <2>1, <1>6, JoinHas
<1> HIDE DEF a, b
<1>13. i \notin Payment
  BY DocumentAssumption
<1>14. Ready(t) /\ \A r \in K : Ready(r)
  BY <1>1, <1>3 DEF Ready
<1>15. Ready(s)
  <2>1. status[i] = "draft"
    BY <1>1 DEF Rest, SeenInv
  <2>2. held[i] = Total[i]
    BY <2>1 DEF Rest, HeldInv
  <2>3. \A p \in Payment : Pays[p][i] > 0 => status[p] = "none"
    BY <2>1 DEF Rest, RowInv
  <2> QED
    BY <1>4, <2>2, <2>3 DEF Ready
<1>16. K \cup {s} \in SUBSET After(t)
  BY <1>2
<1>17. Plan(b, {i})
  BY <1>1, <1>11, <1>12, <1>13, <1>14, <1>15, <1>16, ChunkPlan
<1> QED
  BY <1>7, <1>17, PlanParty

LEMMA ReverseChunk ==
  ASSUME NEW d \in Document
  PROVE  Chunk(<<Mark(d, "cancelled")>> \o ReverseAll(d), Mark(d, "cancelled"), ReverseSteps(d))
<1> DEFINE t == Mark(d, "cancelled")
           K == ReverseSteps(d)
<1>1. t \in TurnStep /\ K \in SUBSET After(t)
  BY TurnsAreSteps, PartsFollow
<1>2. Part(ReverseAll(d), K)
  BY ReversePart
<1> HIDE DEF t, K
<1>3. Chunk(<<t>> \o ReverseAll(d), t, {} \cup K)
  BY <1>1, <1>2, ChunkStart, ChunkAdd
<1>4. {} \cup K = K
  OBVIOUS
<1>5. Chunk(<<t>> \o ReverseAll(d), t, K)
  BY <1>3, <1>4
<1> QED
  BY <1>5 DEF t, K

\* What cancelling d still has to write when d is whole.
LEMMA ReverseEntered ==
  ASSUME Rest, NEW d \in Document, seen[d] = "submitted", d \notin torn, NEW l \in Leg
  PROVE  Writing(<<Mark(d, "cancelled")>> \o ReverseAll(d), d, l)
<1>1. entries[d][l] = "posted"
  BY RestLedger, EntryOfStatus
<1>2. Writing(ReverseAll(d), d, l) /\ ReverseAll(d) \in Seq(ReverseSteps(d))
  BY <1>1, ReversePart DEF Part
<1>3. <<Mark(d, "cancelled")>> \in Seq({Mark(d, "cancelled")})
  OBVIOUS
<1> QED
  BY <1>2, <1>3, JoinHas

LEMMA CancelPaymentPlan ==
  ASSUME Rest, NEW p \in Payment, seen[p] = "submitted"
  PROVE  Plan(CancelPayment(p), {p}) /\ PartyLast(CancelPayment(p))
<1> DEFINE t == Mark(p, "cancelled")
           a == <<t>> \o ReverseAll(p)
           b == a \o EachRow("unpay", p)
           K == ReverseSteps(p)
           L == RowSteps("unpay", p)
<1>1. p \in Document /\ t \in TurnStep /\ t.doc = p /\ t.do = "mark" /\ t.at = "cancelled"
  BY TurnsAreSteps, StepFields DEF Document, Mark
<1>2. K \in SUBSET After(t) /\ L \in SUBSET After(t)
  BY <1>1, PartsFollow
<1>3. \A s \in K : s.do \in {"flag", "mirror"}
  BY StepFields DEF ReverseSteps
<1>4. \A s \in L : s.do = "unpay"
  BY StepFields DEF RowSteps
<1>5. Chunk(a, t, K)
  BY <1>1, ReverseChunk
<1>6. p \notin torn => \A l \in Leg : Writing(a, p, l)
  BY <1>1, ReverseEntered
<1>7. Part(EachRow("unpay", p), L) /\ \A i \in Rows(p) : Has(EachRow("unpay", p), Step("unpay", p, i))
  BY RowPart
<1>8. CancelPayment(p) = b \o <<UpdateParty>>
  BY DEF CancelPayment, Mark
<1> HIDE DEF t, K, L, a
<1>9. Chunk(b, t, K \cup L)
  <2>1. \A s \in K \cap L : s.do = "party"
    BY <1>3, <1>4
  <2> QED
    BY <1>1, <1>2, <1>5, <1>7, <2>1, ChunkAdd
<1>10. a \in Seq(K \cup {t}) /\ EachRow("unpay", p) \in Seq(L)
  BY <1>5, <1>7 DEF Chunk, Part
<1>11. \A i \in Rows(p) : Has(b, Step("unpay", p, i))
  BY <1>7, <1>10, JoinHas
<1>12. p \notin torn => \A l \in Leg : Writing(b, p, l)
  BY <1>6, <1>10, JoinHas
<1> HIDE DEF b
<1>13. \A i \in Rows(p) : Has(b, RowStep(t, i))
  BY <1>1, <1>11 DEF RowStep
<1>14. Ready(t) /\ \A s \in K \cup L : Ready(s)
  BY <1>1, <1>3, <1>4 DEF Ready
<1>15. Plan(b, {p})
  BY <1>1, <1>2, <1>9, <1>12, <1>13, <1>14, ChunkPlan
<1> QED
  BY <1>8, <1>15, PlanParty

LEMMA CancelInvoicePlan ==
  ASSUME Rest, NEW i \in Invoice, seen[i] = "submitted"
  PROVE  Plan(CancelInvoice(i), Document) /\ PartyLast(CancelInvoice(i))
<1> DEFINE t == Mark(i, "cancelled")
           a == <<t>> \o ReverseAll(i)
           K == ReverseSteps(i)
           T == {p \in PaymentsOf(i) : seen[p] = "submitted"}
           ss == [k \in DOMAIN SetToSeq(T) |-> CancelPayment(SetToSeq(T)[k])]
<1>1. i \in Document /\ t \in TurnStep /\ t.doc = i /\ t.do = "mark" /\ t.at = "cancelled"
  BY TurnsAreSteps, StepFields DEF Document, Mark
<1>2. K \in SUBSET After(t)
  BY <1>1, PartsFollow
<1>3. \A s \in K : s.do \in {"flag", "mirror"}
  BY StepFields DEF ReverseSteps
<1>4. Plan(a, {i})
  <2>1. Chunk(a, t, K)
    BY <1>1, ReverseChunk
  <2>2. i \notin torn => \A l \in Leg : Writing(a, i, l)
    BY <1>1, ReverseEntered
  <2> HIDE DEF t, a, K
  <2>3. Ready(t) /\ \A s \in K : Ready(s)
    BY <1>1, <1>3 DEF Ready
  <2>4. i \notin Payment
    BY DocumentAssumption
  <2> QED
    BY <1>1, <1>2, <2>1, <2>2, <2>3, <2>4, ChunkPlan
<1>5. T \subseteq Payment /\ IsFiniteSet(T) /\ \A p \in T : seen[p] = "submitted"
  BY FiniteAssumption, FS_Subset DEF PaymentsOf
<1>6. CancelInvoice(i) = (a \o FlattenSeq(ss)) \o <<UpdateParty>>
  BY DEF CancelInvoice, Mark
<1> HIDE DEF a, t, K, T
<1>7. Plan(FlattenSeq(ss), T)
  <2>1. \A k \in DOMAIN SetToSeq(T) : SetToSeq(T)[k] \in T
    BY <1>5, SetToSeqLists
  <2>2. \A k \in DOMAIN SetToSeq(T) : Plan(ss[k], {SetToSeq(T)[k]}) /\ PartyLast(ss[k])
    BY <1>5, <2>1, CancelPaymentPlan
  <2>3. ss = [k \in DOMAIN SetToSeq(T) |-> ss[k]]
    OBVIOUS
  <2> HIDE DEF ss
  <2> QED
    BY <1>5, <2>2, <2>3, PlanEach
<1>8. {i} \cap T = {}
  BY <1>5, DocumentAssumption
<1> HIDE DEF ss
<1>9. Plan(a \o FlattenSeq(ss), {i} \cup T)
  BY <1>4, <1>7, <1>8, PlanJoin
<1>10. Plan(a \o FlattenSeq(ss), Document)
  <2>1. {i} \cup T \subseteq Document
    BY <1>5 DEF Document
  <2> QED
    BY <1>9, <2>1 DEF Plan, Owned
<1> QED
  BY <1>6, <1>10, PlanParty

LEMMA DeleteOnePlan ==
  ASSUME Rest, NEW d \in Document, CanDelete(d)
  PROVE  Plan(DeleteOne(d), {d}) /\ PartyLast(DeleteOne(d))
<1> DEFINE t == Erase(d)
           Of(l) == {Step("unpost", d, l)}
           a == <<t>> \o DeleteEntry(d, "debit")
           b == a \o DeleteEntry(d, "credit")
<1>1. t \in TurnStep /\ t.doc = d /\ t.do = "erase" /\ t.at = "deleted"
  BY TurnsAreSteps, StepFields DEF Erase
<1>2. \A l \in Leg : Of(l) \in SUBSET After(t)
  BY PartsFollow DEF UnpostSteps
<1>3. \A l \in Leg : \A s \in Of(l) : s.do = "unpost" /\ s.doc = d /\ s.at = l
  BY StepFields
<1>4. ASSUME NEW l \in Leg
      PROVE  /\ Part(DeleteEntry(d, l), Of(l))
             /\ entries[d][l] # "none" => Writing(DeleteEntry(d, l), d, l)
  <2>1. CASE entries[d][l] # "none"
    <3> DEFINE s == Step("unpost", d, l)
    <3>1. DeleteEntry(d, l) = <<s>>
      BY <2>1 DEF DeleteEntry
    <3>2. s \in Of(l) /\ s.do = "unpost" /\ s.doc = d /\ s.at = l
      BY StepFields
    <3> HIDE DEF s, Of
    <3>3. Part(<<s>>, Of(l)) /\ Has(<<s>>, s)
      BY <3>2, PartOne
    <3>4. Writing(<<s>>, d, l)
      BY <3>2, <3>3 DEF Has, Writing, Writes
    <3> QED
      BY <3>1, <3>3, <3>4
  <2>2. CASE ~(entries[d][l] # "none")
    BY <2>2, PartEmpty DEF DeleteEntry
  <2> QED
    BY <2>1, <2>2
<1>5. DeleteOne(d) = b
  BY DEF DeleteOne, Erase
<1>6. "debit" \in Leg /\ "credit" \in Leg /\ \A l \in Leg : l = "debit" \/ l = "credit"
  BY DEF Leg
<1>7. Of("debit") \cap Of("credit") = {}
  BY DEF Step
<1> HIDE DEF t, Of
<1>8. Chunk(a, t, {} \cup Of("debit"))
  BY <1>1, <1>2, <1>4, <1>6, ChunkStart, ChunkAdd
<1>9. {} \cup Of("debit") = Of("debit")
  OBVIOUS
<1>10. Chunk(a, t, Of("debit"))
  BY <1>8, <1>9
<1>11. a \in Seq(Of("debit") \cup {t}) /\ DeleteEntry(d, "credit") \in Seq(Of("credit"))
       /\ <<t>> \in Seq({t}) /\ DeleteEntry(d, "debit") \in Seq(Of("debit"))
  BY <1>4, <1>6, <1>10 DEF Chunk, Part
<1>12. \A l \in Leg : entries[d][l] # "none" => Writing(b, d, l)
  <2>1. Writing(DeleteEntry(d, "debit"), d, "debit") => Writing(a, d, "debit")
    BY <1>11, JoinHas
  <2> HIDE DEF a
  <2>2. Writing(a, d, "debit") => Writing(b, d, "debit")
    BY <1>11, JoinHas
  <2>3. Writing(DeleteEntry(d, "credit"), d, "credit") => Writing(b, d, "credit")
    BY <1>11, JoinHas
  <2> QED
    BY <2>1, <2>2, <2>3, <1>4, <1>6
<1> HIDE DEF a
<1>13. Chunk(b, t, Of("debit") \cup Of("credit"))
  BY <1>1, <1>2, <1>4, <1>6, <1>7, <1>10, ChunkAdd
<1>14. Ready(t) /\ \A s \in Of("debit") \cup Of("credit") : Ready(s)
  BY <1>1, <1>3, <1>6 DEF Ready
<1>15. d \notin torn => \A l \in Leg : Writing(b, d, l) \/ EntryOf(t.at) = EntryOf(status[d])
  BY <1>1, <1>12, RestLedger, EntryOfStatus
<1>16. Of("debit") \cup Of("credit") \in SUBSET After(t)
  BY <1>2, <1>6
<1> HIDE DEF b
<1>17. Plan(b, {d})
  BY <1>1, <1>13, <1>14, <1>15, <1>16, ChunkPlan
<1>18. PartyLast(b)
  <2>1. \A k \in DOMAIN b : b[k] = t \/ b[k] \in Of("debit") \/ b[k] \in Of("credit")
    BY <1>13 DEF Chunk
  <2> QED
    BY <2>1, <1>1, <1>3, <1>6 DEF PartyLast
<1> QED
  BY <1>5, <1>17, <1>18

LEMMA DeleteInvoicePlan ==
  ASSUME Rest, NEW i \in Invoice, CanDelete(i)
  PROVE  Plan(DeleteInvoice(i), Document) /\ PartyLast(DeleteInvoice(i))
<1> DEFINE T == {p \in PaymentsOf(i) : CanDelete(p)}
           ss == [k \in DOMAIN SetToSeq(T) |-> DeleteOne(SetToSeq(T)[k])]
<1>1. i \in Document /\ Plan(DeleteOne(i), {i}) /\ PartyLast(DeleteOne(i))
  BY DeleteOnePlan DEF Document
<1>2. T \subseteq Payment /\ IsFiniteSet(T) /\ \A p \in T : CanDelete(p)
  BY FiniteAssumption, FS_Subset DEF PaymentsOf
<1>3. DeleteInvoice(i) = DeleteOne(i) \o FlattenSeq(ss)
  BY DEF DeleteInvoice
<1> HIDE DEF T
<1>4. Plan(FlattenSeq(ss), T) /\ PartyLast(FlattenSeq(ss))
  <2>1. \A k \in DOMAIN SetToSeq(T) : SetToSeq(T)[k] \in T
    BY <1>2, SetToSeqLists
  <2>2. \A k \in DOMAIN SetToSeq(T) : Plan(ss[k], {SetToSeq(T)[k]}) /\ PartyLast(ss[k])
    BY <1>2, <2>1, DeleteOnePlan DEF Document
  <2>3. ss = [k \in DOMAIN SetToSeq(T) |-> ss[k]]
    OBVIOUS
  <2> HIDE DEF ss
  <2> QED
    BY <1>2, <2>2, <2>3, PlanEach
<1>5. {i} \cap T = {}
  BY <1>2, DocumentAssumption
<1> HIDE DEF ss
<1>6. Plan(DeleteOne(i) \o FlattenSeq(ss), {i} \cup T)
  BY <1>1, <1>4, <1>5, PlanJoin
<1>7. PartyLast(DeleteOne(i) \o FlattenSeq(ss))
  BY <1>1, <1>4, JoinParty DEF Plan
<1>8. {i} \cup T \subseteq Document
  BY <1>2 DEF Document
<1> QED
  BY <1>3, <1>6, <1>7, <1>8 DEF Plan, Owned

-----------------------------------------------------------------------------
(* The initial state, and what the user starts.                            *)

LEMMA NothingPending ==
  /\ \A s : ~Has(<<>>, s)
  /\ \A d : ~Turning(<<>>, d)
  /\ \A d, l : ~Writing(<<>>, d, l)
  /\ <<>> \in Seq(StepSet) /\ DOMAIN <<>> = {}
  /\ MarksFirst(<<>>) /\ NoRepeats(<<>>) /\ FlagsMirrored(<<>>) /\ PartyLast(<<>>) /\ RowsFollow(<<>>)
<1>1. <<>> \in Seq(StepSet) /\ DOMAIN <<>> = {}
  OBVIOUS
<1> QED
  BY <1>1 DEF Has, Turning, Writing, MarksFirst, NoRepeats, FlagsMirrored, PartyLast, RowsFollow

LEMMA RestingAgenda ==
  ASSUME agenda = <<>>
  PROVE  AgendaInv
BY NothingPending DEF AgendaInv, Follows, AllReady

LEMMA EmptiedAgenda ==
  ASSUME agenda' = <<>>
  PROVE  AgendaInv'
BY NothingPending DEF AgendaInv, Follows, AllReady

LEMMA OwingFinite == IsFiniteSet(Owing) /\ Owing \in SUBSET Invoice
<1>1. Owing \in SUBSET Invoice
  BY DEF Owing
<1> QED
  BY <1>1, FiniteAssumption, FS_Subset

LEMMA InitInv == Init => IInv
<1> SUFFICES ASSUME Init PROVE IInv
  OBVIOUS
<1> USE DEF Init
<1>1. TypeOK
  BY BoundAssumption DEF TypeOK, Status, Entry, Leg
<1>2. AgendaInv
  BY RestingAgenda
<1>3. SeenInv /\ RowInv
  BY DEF SeenInv, RowInv, Document
<1>4. HeldInv
  BY DEF HeldInv, Document
<1>5. LedgerInv
  BY NothingPending, EntryOfStatus DEF LedgerInv
<1>6. Owing = {}
  BY DEF Owing, Document
<1>7. OutInv
  BY <1>6 DEF OutInv
<1>8. PartyInv
  BY <1>6, SumOfNone DEF PartyInv
<1> QED
  BY <1>1, <1>2, <1>3, <1>4, <1>5, <1>7, <1>8 DEF IInv

\* What a save leaves as it was.
LEMMA SaveKeeps ==
  ASSUME IInv, NEW d \in Document, Save(d)
  PROVE  /\ AgendaInv' /\ SeenInv' /\ LedgerInv'
         /\ Owing' = Owing
         /\ \A i \in Invoice : Applied(i)' = Applied(i)
         /\ status' \in [Document -> Status] /\ seen' \in [Document -> Status]
<1> USE DEF Save
<1>1. agenda' = <<>>
  OBVIOUS
<1>2. /\ status \in [Document -> Status] /\ seen \in [Document -> Status]
      /\ entries \in [Document -> [Leg -> Entry]]
  BY DEF IInv, TypeOK
<1>3. SeenInv'
  BY <1>2 DEF IInv, SeenInv
<1>4. LedgerInv'
  <2>1. \A e \in Document \ torn, l \in Leg : entries[e][l] = EntryOf(status[e])
    BY NothingPending DEF IInv, LedgerInv
  <2>2. \A e \in Document : EntryOf(status'[e]) = EntryOf(status[e])
    BY <1>2, EntryOfStatus
  <2> QED
    BY <1>1, <2>1, <2>2, NothingPending DEF LedgerInv
<1>5. Owing' = Owing
  BY <1>2 DEF Owing, Document
<1>6. \A i \in Invoice : Applied(i)' = Applied(i)
  BY <1>2 DEF Applied, Document
<1>7. status' \in [Document -> Status] /\ seen' \in [Document -> Status]
  BY <1>2 DEF Status
<1> QED
  BY <1>1, <1>3, <1>4, <1>5, <1>6, <1>7, EmptiedAgenda

LEMMA SaveInvoiceInv ==
  ASSUME IInv, NEW i \in Invoice, SaveInvoice(i)
  PROVE  IInv'
<1>1. i \in Document /\ Save(i)
  BY DEF SaveInvoice, Document
<1>2. /\ AgendaInv' /\ SeenInv' /\ LedgerInv'
      /\ Owing' = Owing
      /\ \A j \in Invoice : Applied(j)' = Applied(j)
      /\ status' \in [Document -> Status] /\ seen' \in [Document -> Status]
  BY <1>1, SaveKeeps
<1>3. /\ TypeOK /\ agenda = <<>> /\ agenda' = <<>> /\ status[i] = "none"
      /\ UNCHANGED <<balance, entries, stale, unsaved, torn, faults, restarts>>
      /\ status' = [status EXCEPT ![i] = "draft"]
  BY <1>1 DEF IInv, Save
<1>4. owed' = [owed EXCEPT ![i] = Total[i]] /\ held' = [held EXCEPT ![i] = Total[i]]
  BY DEF SaveInvoice
<1>5. TypeOK'
  <2>1. Total[i] \in Int
    BY AmountAssumption
  <2>2. owed' \in [Invoice -> Int] /\ held' \in [Invoice -> Int]
    BY <2>1, <1>3, <1>4 DEF TypeOK
  <2>3. \A k \in DOMAIN agenda' : agenda'[k].doc \in Document \cup {Party}
    BY <1>3
  <2> QED
    BY <2>2, <2>3, <1>2, <1>3 DEF TypeOK
<1>6. HeldInv'
  <2>1. HeldInv /\ owed \in [Invoice -> Int] /\ held \in [Invoice -> Int] /\ status \in [Document -> Status]
    BY DEF IInv, TypeOK
  <2> SUFFICES ASSUME NEW j \in Invoice
               PROVE  /\ status'[j] = "draft" => owed'[j] = Total[j] /\ held'[j] = Total[j]
                      /\ status'[j] # "deleted" /\ held'[j] # owed'[j] =>
                           j \in stale' \/ (j \in unsaved' /\ ~Untorn(j)')
    BY DEF HeldInv
  <2>2. CASE j = i
    BY <2>1, <2>2, <1>3, <1>4, <1>1
  <2>3. CASE j # i
    BY <2>1, <2>3, <1>3, <1>4, <1>1 DEF HeldInv, Untorn
  <2> QED
    BY <2>2, <2>3
<1>7. RowInv'
  <2> SUFFICES ASSUME NEW p \in Payment, NEW j \in Invoice, Pays[p][j] > 0, status'[p] # "none"
               PROVE  status'[j] \notin {"none", "draft"}
    BY DEF RowInv
  <2>1. p # i /\ p \in Document /\ status \in [Document -> Status]
    BY DocumentAssumption, <1>3 DEF Document, TypeOK
  <2>2. status[j] \notin {"none", "draft"}
    BY <2>1, <1>3 DEF IInv, RowInv
  <2> QED
    BY <2>1, <2>2, <1>3
<1>8. \A j \in Owing : owed'[j] = owed[j] /\ owed[j] \in Int
  BY <1>3, <1>4 DEF TypeOK, Owing
<1>9. OutInv'
  BY <1>2, <1>3, <1>8, OwingFinite DEF IInv, OutInv, Untorn
<1>10. PartyInv'
  <2>1. Sum(owed', Owing) = Sum(owed, Owing)
    BY <1>8, OwingFinite, SumExtensional
  <2>2. ~Has(agenda, UpdateParty)
    BY <1>3, NothingPending
  <2>3. ASSUME NEW j \in torn \cap Invoice, status[j] = "deleted" PROVE status'[j] = "deleted"
    BY <2>3, <1>3 DEF TypeOK, Document
  <2> QED
    BY <2>1, <2>2, <2>3, <1>2, <1>3 DEF IInv, PartyInv
<1> QED
  BY <1>2, <1>5, <1>6, <1>7, <1>9, <1>10 DEF IInv

LEMMA SavePaymentInv ==
  ASSUME IInv, NEW p \in Payment, SavePayment(p)
  PROVE  IInv'
<1>1. p \in Document /\ Save(p)
  BY DEF SavePayment, Document
<1>2. /\ AgendaInv' /\ SeenInv' /\ LedgerInv'
      /\ Owing' = Owing
      /\ \A j \in Invoice : Applied(j)' = Applied(j)
      /\ status' \in [Document -> Status] /\ seen' \in [Document -> Status]
  BY <1>1, SaveKeeps
<1>3. /\ TypeOK /\ agenda = <<>> /\ agenda' = <<>>
      /\ UNCHANGED <<owed, held, balance, entries, stale, unsaved, torn, faults, restarts>>
      /\ status' = [status EXCEPT ![p] = "draft"]
      /\ \A i \in Rows(p) : status[i] = "submitted"
  BY <1>1 DEF IInv, Save, SavePayment
<1>4. \A i \in Invoice : i # p /\ i \in Document /\ status'[i] = status[i]
  BY <1>3, DocumentAssumption DEF TypeOK, Document
<1>5. TypeOK'
  BY <1>2, <1>3 DEF TypeOK
<1>6. HeldInv'
  BY <1>3, <1>4 DEF IInv, HeldInv, Untorn
<1>7. RowInv'
  <2> SUFFICES ASSUME NEW q \in Payment, NEW j \in Invoice, Pays[q][j] > 0, status'[q] # "none"
               PROVE  status[j] \notin {"none", "draft"}
    BY <1>4 DEF RowInv
  <2>1. CASE q = p
    BY <2>1, <1>3 DEF Rows
  <2>2. CASE q # p
    BY <2>2, <1>3 DEF IInv, RowInv, TypeOK, Document
  <2> QED
    BY <2>1, <2>2
<1>8. OutInv'
  BY <1>2, <1>3, OwingFinite DEF IInv, OutInv, Untorn
<1>9. PartyInv'
  BY <1>2, <1>3, <1>4 DEF IInv, PartyInv
<1> QED
  BY <1>2, <1>5, <1>6, <1>7, <1>8, <1>9 DEF IInv

\* An operation begins with a plan.
LEMMA BeginInv ==
  ASSUME IInv, NEW steps, Begin(steps), Plan(steps, Document), PartyLast(steps)
  PROVE  IInv'
<1>1. /\ TypeOK /\ agenda = <<>> /\ agenda' = steps
      /\ UNCHANGED <<status, seen, owed, held, balance, entries, stale, unsaved, torn, faults, restarts>>
  BY DEF IInv, Begin
<1>2. /\ steps \in Seq(StepSet) /\ MarksFirst(steps) /\ NoRepeats(steps) /\ FlagsMirrored(steps)
      /\ RowsFollow(steps) /\ Backed(steps) /\ Readied(steps) /\ Entered(steps)
  BY DEF Plan
<1>3. \A k \in DOMAIN steps : steps[k] \in StepSet
  BY <1>2
<1>4. TypeOK'
  <2>1. \A k \in DOMAIN steps : steps[k].doc \in Document \cup {Party}
    BY <1>3, StepTypes, PartyStep
  <2> QED
    BY <1>1, <2>1 DEF TypeOK
<1>5. AgendaInv'
  <2>1. Follows'
    BY <1>1, <1>2 DEF Follows, Backed
  <2>2. AllReady'
    BY <1>1, <1>2 DEF AllReady, Readied, Ready, CanDelete
  <2> QED
    BY <1>1, <1>2, <2>1, <2>2 DEF AgendaInv
<1>6. SeenInv' /\ HeldInv' /\ RowInv'
  BY <1>1 DEF IInv, SeenInv, HeldInv, RowInv, Untorn
<1>7. LedgerInv'
  <2>1. \A e \in Document \ torn, l \in Leg : entries[e][l] = EntryOf(status[e])
    BY <1>1, NothingPending DEF IInv, LedgerInv
  <2> QED
    BY <1>1, <1>2, <2>1 DEF LedgerInv, Entered
<1>8. \A i \in Invoice : Applied(i)' = Applied(i)
  <2> SUFFICES ASSUME NEW i \in Invoice, NEW p \in Payment
               PROVE  /\ status[p] = "submitted" => ~Has(steps, Step("pay", p, i))
                      /\ status[p] = "cancelled" => ~Has(steps, Step("unpay", p, i))
    BY <1>1, NothingPending DEF Applied
  <2>1. p \in Document
    BY DEF Document
  <2>2. ASSUME Has(steps, Step("pay", p, i)) PROVE status[p] # "submitted"
    <3>1. PICK k \in DOMAIN steps : steps[k] = Step("pay", p, i)
      BY <2>2 DEF Has
    <3>2. steps[k].do = "pay" /\ steps[k].doc = p
      BY <3>1, StepFields
    <3>3. TurnTo(steps[k]) = "submitted"
      BY <3>2 DEF TurnTo
    <3>4. Has(steps, TurnOf(steps[k]))
      BY <1>2, <3>2 DEF Backed, Turns
    <3>5. PICK j \in DOMAIN steps : steps[j] = TurnOf(steps[k])
      BY <3>4 DEF Has
    <3>6. steps[j].do = "mark" /\ steps[j].doc = p /\ steps[j].at = "submitted"
      BY <3>2, <3>3, <3>5, TurnOfFields
    <3>7. seen[p] = "draft"
      BY <3>6, <1>2 DEF Readied, Ready
    <3> QED
      BY <3>7, <2>1 DEF IInv, SeenInv
  <2>3. ASSUME Has(steps, Step("unpay", p, i)) PROVE status[p] # "cancelled"
    <3>1. PICK k \in DOMAIN steps : steps[k] = Step("unpay", p, i)
      BY <2>3 DEF Has
    <3>2. steps[k].do = "unpay" /\ steps[k].doc = p
      BY <3>1, StepFields
    <3>3. TurnTo(steps[k]) = "cancelled"
      BY <3>2 DEF TurnTo
    <3>4. Has(steps, TurnOf(steps[k]))
      BY <1>2, <3>2 DEF Backed, Turns
    <3>5. PICK j \in DOMAIN steps : steps[j] = TurnOf(steps[k])
      BY <3>4 DEF Has
    <3>6. steps[j].do = "mark" /\ steps[j].doc = p /\ steps[j].at = "cancelled"
      BY <3>2, <3>3, <3>5, TurnOfFields
    <3>7. seen[p] = "submitted"
      BY <3>6, <1>2 DEF Readied, Ready
    <3> QED
      BY <3>7, <2>1 DEF IInv, SeenInv
  <2> QED
    BY <2>2, <2>3
<1>9. OutInv'
  BY <1>1, <1>8 DEF IInv, OutInv, Untorn, Owing
<1>10. PartyInv'
  <2>1. ~Has(agenda, UpdateParty)
    BY <1>1, NothingPending
  <2> QED
    BY <1>1, <2>1 DEF IInv, PartyInv, Owing
<1> QED
  BY <1>4, <1>5, <1>6, <1>7, <1>9, <1>10 DEF IInv

LEMMA PlanWhole ==
  ASSUME NEW D \in SUBSET Document, NEW a, Plan(a, D)
  PROVE  Plan(a, Document)
BY DEF Plan, Owned

LEMMA SubmitInv ==
  ASSUME IInv, NEW d \in Document, Submit(d)
  PROVE  IInv'
<1>1. Rest /\ seen[d] = "draft"
  BY DEF IInv, Rest, Submit, Begin
<1>2. CASE d \in Invoice
  <2>1. Begin(SubmitInvoice(d))
    BY <1>2 DEF Submit
  <2>2. Plan(SubmitInvoice(d), {d}) /\ PartyLast(SubmitInvoice(d))
    BY <1>1, <1>2, SubmitInvoicePlan
  <2> QED
    BY <2>1, <2>2, PlanWhole, BeginInv
<1>3. CASE d \notin Invoice
  <2>1. d \in Payment
    BY <1>3 DEF Document
  <2>2. Begin(SubmitPayment(d))
    BY <1>3 DEF Submit
  <2>3. Plan(SubmitPayment(d), {d}) /\ PartyLast(SubmitPayment(d))
    BY <1>1, <2>1, SubmitPaymentPlan
  <2> QED
    BY <2>2, <2>3, PlanWhole, BeginInv
<1> QED
  BY <1>2, <1>3

LEMMA CancelInv ==
  ASSUME IInv, NEW d \in Document, Cancel(d)
  PROVE  IInv'
<1>1. Rest /\ seen[d] = "submitted"
  BY DEF IInv, Rest, Cancel, Begin
<1>2. CASE d \in Invoice
  <2>1. Begin(CancelInvoice(d))
    BY <1>2 DEF Cancel
  <2> QED
    BY <1>1, <1>2, <2>1, CancelInvoicePlan, BeginInv
<1>3. CASE d \notin Invoice
  <2>1. d \in Payment
    BY <1>3 DEF Document
  <2>2. Begin(CancelPayment(d))
    BY <1>3 DEF Cancel
  <2>3. Plan(CancelPayment(d), {d}) /\ PartyLast(CancelPayment(d))
    BY <1>1, <2>1, CancelPaymentPlan
  <2> QED
    BY <2>2, <2>3, PlanWhole, BeginInv
<1> QED
  BY <1>2, <1>3

LEMMA DeleteInv ==
  ASSUME IInv, NEW d \in Document, Delete(d)
  PROVE  IInv'
<1>1. Rest /\ CanDelete(d)
  BY DEF IInv, Rest, Delete, Begin
<1>2. CASE d \in Invoice
  <2>1. Begin(DeleteInvoice(d))
    BY <1>2 DEF Delete
  <2> QED
    BY <1>1, <1>2, <2>1, DeleteInvoicePlan, BeginInv
<1>3. CASE d \notin Invoice
  <2>1. Begin(DeleteOne(d))
    BY <1>3 DEF Delete
  <2>2. Plan(DeleteOne(d), {d}) /\ PartyLast(DeleteOne(d))
    BY <1>1, DeleteOnePlan
  <2> QED
    BY <2>1, <2>2, PlanWhole, BeginInv
<1> QED
  BY <1>2, <1>3

\* A reloaded document has the flags and the amount of its row.
LEMMA ReloadInv ==
  ASSUME IInv, NEW d \in Document \cup {Party}, Reload(d)
  PROVE  IInv'
<1>1. /\ agenda = <<>> /\ stale' = stale \ {d} /\ unsaved' = unsaved \ {d}
      /\ seen' = [e \in Document |-> IF e = d THEN status[e] ELSE seen[e]]
      /\ held' = [i \in Invoice |-> IF i = d THEN owed[i] ELSE held[i]]
      /\ UNCHANGED <<status, owed, balance, entries, agenda, torn, faults, restarts>>
  BY DEF Reload
<1>2. TypeOK'
  BY <1>1 DEF IInv, TypeOK
<1>3. AgendaInv'
  BY <1>1, EmptiedAgenda
<1>4. SeenInv'
  BY <1>1 DEF IInv, SeenInv
<1>5. HeldInv' /\ RowInv'
  BY <1>1 DEF IInv, HeldInv, RowInv, Untorn
<1>6. LedgerInv'
  BY <1>1 DEF IInv, LedgerInv
<1>7. Owing' = Owing /\ \A i \in Invoice : Applied(i)' = Applied(i)
  BY <1>1 DEF Owing, Applied
<1>8. OutInv' /\ PartyInv'
  BY <1>1, <1>7 DEF IInv, OutInv, PartyInv, Untorn, Owing
<1> QED
  BY <1>2, <1>3, <1>4, <1>5, <1>6, <1>8 DEF IInv

-----------------------------------------------------------------------------
(* An operation is interrupted.                                            *)

LEMMA AgendaSteps ==
  ASSUME IInv
  PROVE  /\ agenda \in Seq(StepSet)
         /\ \A k \in DOMAIN agenda : agenda[k] \in StepSet
         /\ \A k \in DOMAIN agenda : agenda[k].do \in Turns => agenda[k].doc \in Document
         /\ \A k \in DOMAIN agenda : agenda[k].doc \in Document \cup {Party}
<1>1. agenda \in Seq(StepSet) /\ \A k \in DOMAIN agenda : agenda[k] \in StepSet
  BY DEF IInv, AgendaInv
<1> QED
  BY <1>1, StepTypes, TurnTypes, PartyStep

LEMMA BegunSteps ==
  ASSUME IInv
  PROVE  /\ Begun \subseteq Document \cup {Party}
         /\ \A d, k : d \notin Begun /\ k \in DOMAIN agenda /\ agenda[k].doc = d => Turning(agenda, d)
         /\ Has(agenda, UpdateParty) => Party \in Begun
<1>1. Begun \subseteq Document \cup {Party}
  BY AgendaSteps DEF Begun, Range
<1>2. ASSUME NEW d, NEW k \in DOMAIN agenda, d \notin Begun, agenda[k].doc = d
      PROVE  Turning(agenda, d)
  BY <1>2 DEF Begun, Range, Turning, Turns
<1>3. ASSUME Has(agenda, UpdateParty) PROVE Party \in Begun
  <2>1. PICK k \in DOMAIN agenda : agenda[k] = UpdateParty
    BY <1>3 DEF Has
  <2>2. agenda[k].doc = Party
    BY <2>1, PartyStep
  <2>3. ~Turning(agenda, Party)
    BY AgendaSteps, DocumentAssumption DEF Turning
  <2> QED
    BY <1>2, <2>2, <2>3
<1> QED
  BY <1>1, <1>2, <1>3

\* A payment whose own steps are pending has been marked, unless it was interrupted
\* before: no row of it counts twice.
LEMMA PendingRows ==
  ASSUME IInv, NEW p \in Payment, NEW i \in Invoice, Turning(agenda, p)
  PROVE  /\ Has(agenda, Step("pay", p, i)) => status[p] # "submitted"
         /\ Has(agenda, Step("unpay", p, i)) => status[p] # "cancelled"
<1>1. p \in Document /\ SeenInv /\ Follows /\ AllReady
  BY DEF IInv, AgendaInv, Document
<1>2. ASSUME Has(agenda, Step("pay", p, i)) PROVE status[p] # "submitted"
  <2>1. PICK k \in DOMAIN agenda : agenda[k] = Step("pay", p, i)
    BY <1>2 DEF Has
  <2>2. agenda[k].do = "pay" /\ agenda[k].doc = p
    BY <2>1, StepFields
  <2>3. TurnTo(agenda[k]) = "submitted"
    BY <2>2 DEF TurnTo
  <2>4. Has(agenda, TurnOf(agenda[k]))
    BY <1>1, <2>2 DEF Follows, Turns
  <2>5. PICK j \in DOMAIN agenda : agenda[j] = TurnOf(agenda[k])
    BY <2>4 DEF Has
  <2>6. agenda[j].do = "mark" /\ agenda[j].doc = p /\ agenda[j].at = "submitted"
    BY <2>2, <2>3, <2>5, TurnOfFields
  <2>7. seen[p] = "draft"
    BY <2>6, <1>1 DEF AllReady, Ready
  <2> QED
    BY <2>7, <1>1 DEF SeenInv
<1>3. ASSUME Has(agenda, Step("unpay", p, i)) PROVE status[p] # "cancelled"
  <2>1. PICK k \in DOMAIN agenda : agenda[k] = Step("unpay", p, i)
    BY <1>3 DEF Has
  <2>2. agenda[k].do = "unpay" /\ agenda[k].doc = p
    BY <2>1, StepFields
  <2>3. TurnTo(agenda[k]) = "cancelled"
    BY <2>2 DEF TurnTo
  <2>4. Has(agenda, TurnOf(agenda[k]))
    BY <1>1, <2>2 DEF Follows, Turns
  <2>5. PICK j \in DOMAIN agenda : agenda[j] = TurnOf(agenda[k])
    BY <2>4 DEF Has
  <2>6. agenda[j].do = "mark" /\ agenda[j].doc = p /\ agenda[j].at = "cancelled"
    BY <2>2, <2>3, <2>5, TurnOfFields
  <2>7. seen[p] = "submitted"
    BY <2>6, <1>1 DEF AllReady, Ready
  <2> QED
    BY <2>7, <1>1 DEF SeenInv
<1> QED
  BY <1>2, <1>3

\* Rows and entries are as they were; what was half done is torn.
LEMMA Interrupted ==
  ASSUME IInv, agenda' = <<>>, UNCHANGED <<status, owed, balance, entries>>,
         torn \cup Begun \subseteq torn'
  PROVE  AgendaInv' /\ RowInv' /\ LedgerInv' /\ OutInv' /\ PartyInv'
<1>1. AgendaInv' /\ RowInv'
  BY EmptiedAgenda DEF IInv, RowInv
<1>2. LedgerInv'
  <2> SUFFICES ASSUME NEW d \in Document \ torn', NEW l \in Leg
               PROVE  entries[d][l] = EntryOf(status[d])
    BY NothingPending DEF LedgerInv
  <2>1. d \in Document \ torn /\ d \notin Begun
    OBVIOUS
  <2>2. CASE Turning(agenda, d)
    BY <2>1, <2>2 DEF IInv, LedgerInv, Turning
  <2>3. CASE ~Turning(agenda, d)
    <3>1. ~Writing(agenda, d, l)
      BY <2>1, <2>3, BegunSteps DEF Writing
    <3> QED
      BY <2>1, <2>3, <3>1 DEF IInv, LedgerInv
  <2> QED
    BY <2>2, <2>3
<1>3. Owing' = Owing
  BY DEF Owing
<1>4. ASSUME NEW i \in Owing, Untorn(i)'
      PROVE  Untorn(i) /\ Applied(i)' = Applied(i)
  <2>1. Untorn(i) /\ i \in Invoice
    BY <1>4 DEF Untorn, Owing
  <2>2. ASSUME NEW p \in Payment, Pays[p][i] > 0
        PROVE  /\ status[p] = "submitted" => ~Has(agenda, Step("pay", p, i))
               /\ status[p] = "cancelled" => ~Has(agenda, Step("unpay", p, i))
    <3>1. p \notin Begun
      BY <1>4, <2>2 DEF Untorn
    <3>2. \A w : Has(agenda, Step(w, p, i)) => Turning(agenda, p)
      BY <3>1, BegunSteps, StepFields DEF Has
    <3> QED
      BY <2>1, <3>2, PendingRows
  <2> QED
    BY <2>1, <2>2, NothingPending DEF Applied
<1>5. OutInv'
  BY <1>3, <1>4 DEF IInv, OutInv
<1>6. PartyInv'
  BY <1>3, BegunSteps DEF IInv, PartyInv
<1> QED
  BY <1>1, <1>2, <1>5, <1>6

LEMMA RestartInv ==
  ASSUME IInv, Restart
  PROVE  IInv'
<1> USE DEF Restart
<1>1. AgendaInv' /\ RowInv' /\ LedgerInv' /\ OutInv' /\ PartyInv'
  <2>1. torn \cup Begun \subseteq torn'
    OBVIOUS
  <2> QED
    BY <2>1, Interrupted
<1>2. TypeOK'
  <2>1. restarts' \in 0 .. MaxRestarts
    BY BoundAssumption DEF IInv, TypeOK
  <2>2. torn' \subseteq Document \cup {Party}
    BY BegunSteps DEF IInv, TypeOK
  <2> QED
    BY <2>1, <2>2 DEF IInv, TypeOK
<1>3. SeenInv' /\ HeldInv'
  BY DEF IInv, SeenInv, HeldInv
<1> QED
  BY <1>1, <1>2, <1>3 DEF IInv

-----------------------------------------------------------------------------
(* The first step of the agenda.                                           *)

LEMMA FirstStep ==
  ASSUME IInv, agenda # <<>>, NEW s, s = Head(agenda)
  PROVE  /\ s \in StepSet /\ Ready(s) /\ Has(agenda, s)
         /\ ~Turning(Tail(agenda), s.doc)
         /\ s.do \notin Turns => ~Turning(agenda, s.doc)
         /\ s.do \in Turns => Turning(agenda, s.doc)
         /\ s.do \notin Turns \cup {"party"} => status[s.doc] = TurnTo(s)
<1>1. /\ agenda \in Seq(StepSet) /\ MarksFirst(agenda) /\ Follows /\ AllReady
  BY DEF IInv, AgendaInv
<1>2. 1 \in DOMAIN agenda /\ s = agenda[1] /\ s \in StepSet
  BY <1>1, Tailed
<1>3. ~Turning(Tail(agenda), s.doc) /\ (s.do \notin Turns => ~Turning(agenda, s.doc))
  BY <1>1, TailMarks
<1>4. ASSUME s.do \notin Turns \cup {"party"} PROVE status[s.doc] = TurnTo(s)
  <2>1. ~Turning(agenda, s.doc)
    BY <1>3, <1>4
  <2>2. ~Has(agenda, TurnOf(s))
    BY <2>1, TurnOfFields DEF Has, Turning
  <2> QED
    BY <1>1, <1>2, <1>4, <2>2 DEF Follows
<1>5. Ready(s) /\ Has(agenda, s) /\ (s.do \in Turns => Turning(agenda, s.doc))
  BY <1>1, <1>2 DEF AllReady, Has, Turning
<1> QED
  BY <1>2, <1>3, <1>4, <1>5

LEMMA FirstPay ==
  ASSUME IInv, agenda # <<>>, NEW s, s = Head(agenda), s.do \in {"pay", "unpay"}
  PROVE  /\ s \in PayStep /\ s.doc \in Payment /\ s.doc \in Document
         /\ s.at \in Invoice /\ s.at \in Document /\ s.at # s.doc
         /\ Pays[s.doc][s.at] \in Nat /\ Pays[s.doc][s.at] > 0
         /\ s = Step(s.do, s.doc, s.at)
         /\ s.do = "pay" => status[s.doc] = "submitted"
         /\ s.do = "unpay" => status[s.doc] = "cancelled"
         /\ status[s.at] \notin {"none", "draft"}
<1>1. s \in StepSet /\ (s.do \notin Turns \cup {"party"} => status[s.doc] = TurnTo(s))
  BY FirstStep
<1>2. s \in PayStep
  BY <1>1, StepTypes
<1>3. s.doc \in Payment /\ s.at \in Invoice /\ Pays[s.doc][s.at] > 0 /\ s = Step(s.do, s.doc, s.at)
  BY <1>2, PayTypes
<1>4. s.doc \in Document /\ s.at \in Document /\ s.at # s.doc
  BY <1>3, DocumentAssumption DEF Document
<1>5. Pays[s.doc][s.at] \in Nat
  BY <1>3, AmountAssumption
<1>6. /\ s.do = "pay" => status[s.doc] = "submitted"
      /\ s.do = "unpay" => status[s.doc] = "cancelled"
  BY <1>1 DEF TurnTo, Turns
<1>7. status[s.at] \notin {"none", "draft"}
  BY <1>3, <1>6 DEF IInv, RowInv
<1> QED
  BY <1>2, <1>3, <1>4, <1>5, <1>6, <1>7

\* What a step sets in memory, and the conflict it would be refused for.
LEMMA MemoryTypes ==
  ASSUME IInv, agenda # <<>>, NEW s, s = Head(agenda), InMemory(s)
  PROVE  /\ seen' \in [Document -> Status] /\ held' \in [Invoice -> Int]
         /\ Synced(s) \subseteq Document \cup {Party} /\ Written(s) \subseteq Synced(s)
         /\ \A d \in Document : seen'[d] = IF s.do \in Turns /\ s.doc = d THEN s.at ELSE seen[d]
         /\ s.do \in Turns => s.doc \in Document /\ s.at \in {"submitted", "cancelled", "deleted"}
         /\ s.do \notin {"pay", "unpay"} => held' = held
         /\ s.do \in {"pay", "unpay"} =>
              \A i \in Invoice : held'[i] = IF i # s.at THEN held[i] ELSE
                IF s.do = "pay" THEN held[i] - Pays[s.doc][i] ELSE held[i] + Pays[s.doc][i]
<1>1. s \in StepSet
  BY FirstStep
<1>2. s.do \in Turns => s.doc \in Document /\ s.at \in {"submitted", "cancelled", "deleted"}
  BY <1>1, StepTypes, TurnTypes DEF Turns
<1>3. seen \in [Document -> Status] /\ held \in [Invoice -> Int]
  BY DEF IInv, TypeOK
<1>4. seen' = IF s.do \in Turns THEN [seen EXCEPT ![s.doc] = s.at] ELSE seen
  BY DEF InMemory, Turns
<1>5. \A d \in Document : seen'[d] = IF s.do \in Turns /\ s.doc = d THEN s.at ELSE seen[d]
  BY <1>2, <1>3, <1>4
<1>6. seen' \in [Document -> Status]
  BY <1>2, <1>3, <1>4 DEF Status
<1>7. s.do \notin {"pay", "unpay"} => held' = held
  BY DEF InMemory
<1>8. ASSUME s.do \in {"pay", "unpay"}
      PROVE  /\ held' \in [Invoice -> Int]
             /\ \A i \in Invoice : held'[i] = IF i # s.at THEN held[i] ELSE
                  IF s.do = "pay" THEN held[i] - Pays[s.doc][i] ELSE held[i] + Pays[s.doc][i]
  <2>1. s.at \in Invoice /\ Pays[s.doc][s.at] \in Nat
    BY <1>8, FirstPay
  <2>2. held[s.at] - Pays[s.doc][s.at] \in Int /\ held[s.at] + Pays[s.doc][s.at] \in Int
    BY <2>1, <1>3
  <2>3. CASE s.do = "pay"
    <3>1. held' = [held EXCEPT ![s.at] = @ - Pays[s.doc][s.at]]
      BY <2>3 DEF InMemory
    <3> QED
      BY <3>1, <2>1, <2>2, <2>3, <1>3
  <2>4. CASE s.do = "unpay"
    <3>1. held' = [held EXCEPT ![s.at] = @ + Pays[s.doc][s.at]]
      BY <2>4 DEF InMemory
    <3> QED
      BY <3>1, <2>1, <2>2, <2>4, <1>3
  <2> QED
    BY <1>8, <2>3, <2>4
<1>9. Synced(s) \subseteq Document \cup {Party}
  <2>1. CASE s.do \in {"mark", "party", "settle"}
    <3>1. s.doc \in Document \cup {Party}
      BY <1>1, StepTypes, PartyStep
    <3> QED
      BY <2>1, <3>1 DEF Synced
  <2>2. CASE s.do \in {"pay", "unpay"}
    BY <2>2, FirstPay DEF Synced
  <2>3. CASE s.do \notin {"mark", "party", "settle", "pay", "unpay"}
    BY <2>3 DEF Synced
  <2> QED
    BY <2>1, <2>2, <2>3
<1>10. Written(s) \subseteq Synced(s)
  BY DEF Written
<1> QED
  BY <1>2, <1>3, <1>5, <1>6, <1>7, <1>8, <1>9, <1>10

\* What an error leaves of the documents in memory, whatever threw it.
LEMMA FailOutcome ==
  ASSUME Fail, NEW s, s = Head(agenda)
  PROVE  /\ agenda # <<>> /\ agenda' = <<>>
         /\ faults' = faults \/ (faults < MaxFaults /\ faults' = faults + 1)
         /\ torn' = torn \cup Begun \cup {d \in Document : seen'[d] # seen[d]}
         /\ UNCHANGED <<status, owed, balance, entries, restarts>>
         /\ \/ UNCHANGED <<seen, held, stale, unsaved>>
            \/ /\ InMemory(s) /\ s.do # "erase"
               /\ \/ Conflict(s) /\ UNCHANGED <<stale, unsaved>>
                  \/ unsaved' = unsaved \cup Written(s) /\ UNCHANGED stale
                  \/ stale' = stale \cup Synced(s) /\ UNCHANGED unsaved
<1>1. s.do = "erase" => Written(s) = {}
  BY DEF Written, Synced
<1>2. s.do = "erase" => ~Conflict(s)
  BY <1>1 DEF Conflict
<1> QED
  BY <1>1, <1>2 DEF Fail, Throws

\* The document whose value was set is refused from then on, or set and torn.
LEMMA FailInv ==
  ASSUME IInv, Fail
  PROVE  IInv'
<1>1. PICK r : r = Head(agenda)
  OBVIOUS
<1>2. /\ agenda # <<>> /\ agenda' = <<>>
      /\ faults' = faults \/ (faults < MaxFaults /\ faults' = faults + 1)
      /\ torn' = torn \cup Begun \cup {d \in Document : seen'[d] # seen[d]}
      /\ UNCHANGED <<status, owed, balance, entries, restarts>>
  BY <1>1, FailOutcome
<1>3. AgendaInv' /\ RowInv' /\ LedgerInv' /\ OutInv' /\ PartyInv'
  <2>1. torn \cup Begun \subseteq torn'
    BY <1>2
  <2> QED
    BY <1>2, <2>1, Interrupted
<1>4. r \in StepSet /\ Ready(r)
  BY <1>1, <1>2, FirstStep
<1>5. torn' \subseteq Document \cup {Party} /\ torn \subseteq torn' /\ Begun \subseteq torn'
  BY <1>2, BegunSteps DEF IInv, TypeOK
<1>6. \A i \in Invoice : ~Untorn(i) => ~Untorn(i)'
  BY <1>5 DEF Untorn
<1>7. faults' \in 0 .. MaxFaults
  BY <1>2, BoundAssumption DEF IInv, TypeOK
<1>8. CASE UNCHANGED <<seen, held, stale, unsaved>>
  <2>1. TypeOK'
    BY <1>2, <1>5, <1>7, <1>8 DEF IInv, TypeOK
  <2>2. SeenInv' /\ HeldInv'
    BY <1>2, <1>5, <1>6, <1>8 DEF IInv, SeenInv, HeldInv
  <2> QED
    BY <1>3, <2>1, <2>2 DEF IInv
<1>9. CASE /\ InMemory(r) /\ r.do # "erase"
           /\ \/ Conflict(r) /\ UNCHANGED <<stale, unsaved>>
              \/ unsaved' = unsaved \cup Written(r) /\ UNCHANGED stale
              \/ stale' = stale \cup Synced(r) /\ UNCHANGED unsaved
  <2>1. /\ seen' \in [Document -> Status] /\ held' \in [Invoice -> Int]
        /\ Synced(r) \subseteq Document \cup {Party} /\ Written(r) \subseteq Synced(r)
        /\ \A d \in Document : seen'[d] = IF r.do \in Turns /\ r.doc = d THEN r.at ELSE seen[d]
        /\ r.do \in Turns => r.doc \in Document /\ r.at \in {"submitted", "cancelled", "deleted"}
        /\ r.do \notin {"pay", "unpay"} => held' = held
        /\ r.do \in {"pay", "unpay"} =>
             \A i \in Invoice : held'[i] = IF i # r.at THEN held[i] ELSE
               IF r.do = "pay" THEN held[i] - Pays[r.doc][i] ELSE held[i] + Pays[r.doc][i]
    BY <1>1, <1>2, <1>9, MemoryTypes
  <2>2. stale \subseteq stale' /\ unsaved \subseteq unsaved'
    BY <1>9
  <2>3. TypeOK'
    <3>1. stale' \cup unsaved' \subseteq Document \cup {Party}
      BY <1>9, <2>1 DEF IInv, TypeOK
    <3> QED
      BY <1>2, <1>5, <1>7, <2>1, <3>1 DEF IInv, TypeOK
  <2>4. ASSUME NEW d, Written(r) = {d} PROVE d \in stale' \cup unsaved'
    <3>1. CASE Conflict(r)
      BY <2>2, <2>4, <3>1 DEF Conflict
    <3>2. CASE ~Conflict(r)
      BY <1>9, <2>1, <2>4, <3>2
    <3> QED
      BY <3>1, <3>2
  <2>5. SeenInv'
    <3> SUFFICES ASSUME NEW d \in Document, seen'[d] # status[d]
                 PROVE  /\ seen'[d] \in {"submitted", "cancelled"}
                        /\ status[d] \in {"draft", "submitted"}
                        /\ d \in stale' \cup unsaved' /\ d \in torn'
      BY <1>2 DEF SeenInv
    <3>1. CASE r.do \in Turns /\ r.doc = d
      <4>1. r.do = "mark" /\ r.at \in {"submitted", "cancelled"} /\ seen'[d] = r.at
        BY <1>4, <1>9, <2>1, <3>1, StepTypes, TurnTypes DEF Turns
      <4>2. Written(r) = {d}
        BY <3>1, <4>1 DEF Written, Synced
      <4>3. seen[d] \in {"draft", "submitted"} /\ seen[d] # seen'[d]
        BY <4>1, <1>4, <3>1 DEF Ready
      <4>4. status[d] \in {"draft", "submitted"}
        BY <4>3 DEF IInv, SeenInv
      <4> QED
        BY <4>1, <4>2, <4>3, <4>4, <2>4, <1>2
    <3>2. CASE ~(r.do \in Turns /\ r.doc = d)
      <4>1. seen'[d] = seen[d]
        BY <2>1, <3>2
      <4> QED
        BY <4>1, <1>5, <2>2 DEF IInv, SeenInv
    <3> QED
      BY <3>1, <3>2
  <2>6. HeldInv'
    <3> SUFFICES ASSUME NEW i \in Invoice
                 PROVE  /\ status[i] = "draft" => owed[i] = Total[i] /\ held'[i] = Total[i]
                        /\ status[i] # "deleted" /\ held'[i] # owed[i] =>
                             i \in stale' \/ (i \in unsaved' /\ ~Untorn(i)')
      BY <1>2 DEF HeldInv
    <3>1. CASE r.do \in {"pay", "unpay"} /\ i = r.at
      <4>1. status[i] # "draft" /\ r.doc \in Payment /\ Pays[r.doc][i] > 0
        BY <3>1, <1>1, <1>2, FirstPay
      <4>2. Written(r) = {i}
        BY <3>1 DEF Written, Synced
      <4>3. r.doc \in Begun
        <5>1. r.do \notin Turns
          BY <3>1 DEF Turns
        <5>2. ~Turning(agenda, r.doc) /\ Has(agenda, r)
          BY <5>1, <1>1, <1>2, FirstStep
        <5> QED
          BY <5>2, BegunSteps DEF Has
      <4>4. ~Untorn(i)'
        BY <4>1, <4>3, <1>5 DEF Untorn
      <4> QED
        BY <4>1, <4>2, <4>4, <2>4
    <3>2. CASE ~(r.do \in {"pay", "unpay"} /\ i = r.at)
      <4>1. held'[i] = held[i]
        BY <3>2, <2>1
      <4> QED
        BY <4>1, <1>6, <2>2 DEF IInv, HeldInv
    <3> QED
      BY <3>1, <3>2
  <2> QED
    BY <1>3, <2>3, <2>5, <2>6 DEF IInv
<1> QED
  BY <1>1, <1>8, <1>9, FailOutcome

-----------------------------------------------------------------------------
(* The first step of the agenda is made.                                   *)

Gone(s) == IF s.do = "erase" THEN {s.doc} ELSE {}

Performed(s) ==
  /\ s = Head(agenda) /\ agenda # <<>> /\ agenda' = Tail(agenda)
  /\ ~Conflict(s) /\ ~NotFound(s)
  /\ InMemory(s)
  /\ status' = [d \in Document |-> IF d \in Gone(s) \cup Written(s) THEN seen'[d] ELSE status[d]]
  /\ owed' = IF s.do = "settle"
               THEN [owed EXCEPT ![s.doc] = Total[s.doc]]
               ELSE [i \in Invoice |-> IF i \in Written(s) THEN held'[i] ELSE owed[i]]
  /\ balance' = IF s.do = "party" THEN Sum(owed, Owing) ELSE balance
  /\ entries' = IF s.do \in Writes
                  THEN [entries EXCEPT ![s.doc][s.at] = EntryAfter(s)]
                  ELSE entries
  /\ stale' = stale \ Gone(s)
  /\ unsaved' = unsaved \ (Gone(s) \cup Written(s))
  /\ torn' = IF s.do = "party" THEN torn \ {Party} ELSE torn
  /\ UNCHANGED <<faults, restarts>>

LEMMA PerformsOne == Perform => \E s : Performed(s)
<1> SUFFICES ASSUME Perform PROVE Performed(Head(agenda))
  OBVIOUS
<1> QED
  BY DEF Perform, Performed, Gone, Writes, Sum

\* The rows a step replaces.
LEMMA WrittenRows ==
  ASSUME IInv, NEW s, Performed(s)
  PROVE  /\ \A d \in Document :
              d \in Gone(s) \cup Written(s) <=>
                \/ s.do \in Turns /\ d = s.doc
                \/ s.do \in {"pay", "unpay"} /\ d = s.at
         /\ \A i \in Invoice :
              i \in Written(s) <=>
                \/ s.do = "mark" /\ i = s.doc
                \/ s.do \in {"pay", "unpay"} /\ i = s.at
         /\ Gone(s) = IF s.do = "erase" THEN {s.doc} ELSE {}
<1>1. s \in StepSet
  BY FirstStep DEF Performed
<1>2. s.do \in Turns \cup Writes \cup {"pay", "unpay", "settle", "party"}
  BY <1>1, StepTypes
<1>3. s.do = "party" => \A d \in Document : d # s.doc
  BY <1>1, StepTypes, PartyStep, DocumentAssumption
<1>4. Written(s) = IF s.do \in {"mark", "party"} THEN {s.doc}
                   ELSE IF s.do \in {"pay", "unpay"} THEN {s.at} ELSE {}
  BY <1>2 DEF Written, Synced, Turns, Writes
<1>5. Gone(s) = IF s.do = "erase" THEN {s.doc} ELSE {}
  BY DEF Gone
<1>6. \A i \in Invoice : i \in Document
  BY DEF Document
<1> QED
  BY <1>2, <1>3, <1>4, <1>5, <1>6 DEF Turns, Writes

\* A payment written on a cancelled copy: its row is cancelled with it.
Carried(s, d) ==
  /\ s.do \in {"pay", "unpay"} /\ d = s.at /\ d \in Invoice /\ d \in torn
  /\ seen[d] = "cancelled" /\ status[d] = "submitted"

\* A document is turned once, and to a status it may have; else its status
\* changes only with a write of a copy that a sync had left unsaved.
LEMMA StatusAfter ==
  ASSUME IInv, NEW s, Performed(s)
  PROVE  /\ status' \in [Document -> Status]
         /\ \A d \in Document :
              ~Carried(s, d) => status'[d] = IF s.do \in Turns /\ s.doc = d THEN s.at ELSE status[d]
         /\ \A d \in Document : Carried(s, d) => status'[d] = "cancelled"
         /\ s.do = "mark" => s.at \in {"submitted", "cancelled"}
         /\ s.do = "erase" => s.at = "deleted"
         /\ s.do = "mark" => status[s.doc] \in {"draft", "submitted"}
         /\ s.do = "erase" => status[s.doc] \in {"draft", "submitted", "cancelled"}
         /\ s.do \in Turns => s.doc \in Document
<1>1. s \in StepSet /\ Ready(s) /\ agenda # <<>> /\ s = Head(agenda) /\ InMemory(s)
  BY FirstStep DEF Performed
<1>2. s.do \in Turns => s.doc \in Document /\ s \in TurnStep
  BY <1>1, StepTypes, TurnTypes
<1>3. /\ s.do = "mark" => s.at \in {"submitted", "cancelled"}
      /\ s.do = "erase" => s.at = "deleted"
  BY <1>2, TurnTypes DEF Turns
<1>4. status \in [Document -> Status] /\ seen \in [Document -> Status] /\ SeenInv
  BY DEF IInv, TypeOK
<1>5. /\ seen' \in [Document -> Status]
      /\ \A d \in Document : seen'[d] = IF s.do \in Turns /\ s.doc = d THEN s.at ELSE seen[d]
  BY <1>1, MemoryTypes
<1>6. \A d \in Document : status'[d] = IF d \in Gone(s) \cup Written(s) THEN seen'[d] ELSE status[d]
  BY DEF Performed
<1>7. status' \in [Document -> Status]
  BY <1>4, <1>5 DEF Performed
<1>8. \A d \in Document :
        d \in Gone(s) \cup Written(s) <=>
          \/ s.do \in Turns /\ d = s.doc
          \/ s.do \in {"pay", "unpay"} /\ d = s.at
  BY WrittenRows
<1>9. ASSUME s.do \in {"pay", "unpay"}, seen[s.at] # status[s.at]
      PROVE  Carried(s, s.at)
  <2>1. s.at \in Invoice /\ s.at \in Document /\ status[s.at] \notin {"none", "draft"}
    BY <1>1, <1>9, FirstPay
  <2>2. s.at \in torn /\ seen[s.at] = "cancelled" /\ status[s.at] = "submitted"
    BY <2>1, <1>4, <1>9 DEF SeenInv
  <2> QED
    BY <2>1, <2>2, <1>9 DEF Carried
<1>10. ASSUME NEW d \in Document, ~Carried(s, d)
       PROVE  status'[d] = IF s.do \in Turns /\ s.doc = d THEN s.at ELSE status[d]
  <2>1. CASE s.do \in Turns /\ d = s.doc
    BY <2>1, <1>5, <1>6, <1>8
  <2>2. CASE s.do \in {"pay", "unpay"} /\ d = s.at
    <3>1. seen'[d] = seen[d] /\ s.do \notin Turns /\ seen[d] = status[d]
      BY <2>2, <1>5, <1>9, <1>10 DEF Turns
    <3> QED
      BY <3>1, <1>6
  <2>3. CASE d \notin Gone(s) \cup Written(s)
    BY <2>3, <1>6, <1>8
  <2> QED
    BY <2>1, <2>2, <2>3, <1>8
<1>11. ASSUME NEW d \in Document, Carried(s, d) PROVE status'[d] = "cancelled"
  <2>1. s.do \in {"pay", "unpay"} /\ d = s.at /\ seen[d] = "cancelled" /\ s.do \notin Turns
    BY <1>11 DEF Carried, Turns
  <2> QED
    BY <2>1, <1>5, <1>6, <1>8
<1>12. s.do = "mark" => status[s.doc] \in {"draft", "submitted"}
  BY <1>1, <1>2, <1>3, <1>4 DEF Ready, SeenInv, Turns
<1>13. s.do = "erase" => status[s.doc] \in {"draft", "submitted", "cancelled"}
  BY <1>1, <1>2, <1>4 DEF Ready, SeenInv, CanDelete, Turns
<1> QED
  BY <1>2, <1>3, <1>7, <1>10, <1>11, <1>12, <1>13

\* What is written of an invoice's amount is what the cached invoice has.
LEMMA OwedAfter ==
  ASSUME IInv, NEW s, Performed(s)
  PROVE  /\ owed' \in [Invoice -> Int]
         /\ s.do = "settle" => \A i \in Invoice :
              owed'[i] = IF i = s.doc THEN Total[i] ELSE owed[i]
         /\ s.do # "settle" => \A i \in Invoice :
              owed'[i] = IF \/ s.do = "mark" /\ i = s.doc
                            \/ s.do \in {"pay", "unpay"} /\ i = s.at
                           THEN held'[i] ELSE owed[i]
         /\ s.do \in Writes \cup {"erase", "party"} => owed' = owed
<1>1. s \in StepSet /\ agenda # <<>> /\ s = Head(agenda) /\ InMemory(s)
  BY FirstStep DEF Performed
<1>2. owed \in [Invoice -> Int] /\ held' \in [Invoice -> Int]
  BY <1>1, MemoryTypes DEF IInv, TypeOK
<1>3. \A i \in Invoice :
        i \in Written(s) <=>
          \/ s.do = "mark" /\ i = s.doc
          \/ s.do \in {"pay", "unpay"} /\ i = s.at
  BY WrittenRows
<1>4. CASE s.do = "settle"
  <2>1. s.doc \in Invoice /\ Total[s.doc] \in Int
    BY <1>1, <1>4, StepTypes, AmountAssumption
  <2>2. owed' = [owed EXCEPT ![s.doc] = Total[s.doc]]
    BY <1>4 DEF Performed
  <2> QED
    BY <2>1, <2>2, <1>2, <1>4 DEF Writes
<1>5. CASE s.do # "settle"
  <2>1. owed' = [i \in Invoice |-> IF i \in Written(s) THEN held'[i] ELSE owed[i]]
    BY <1>5 DEF Performed
  <2>2. owed' \in [Invoice -> Int]
    BY <2>1, <1>2
  <2>3. s.do \in Writes \cup {"erase", "party"} => owed' = owed
    BY <2>1, <1>2, <1>3 DEF Writes
  <2> QED
    BY <2>1, <2>2, <2>3, <1>3, <1>5
<1> QED
  BY <1>4, <1>5

LEMMA PerformTypes ==
  ASSUME IInv, NEW s, Performed(s)
  PROVE  TypeOK'
<1> USE DEF Performed
<1>1. TypeOK /\ s \in StepSet /\ agenda # <<>> /\ s = Head(agenda)
  BY FirstStep DEF IInv
<1>2. status' \in [Document -> Status]
  BY StatusAfter
<1>3. seen' \in [Document -> Status] /\ held' \in [Invoice -> Int]
  BY MemoryTypes
<1>4. owed' \in [Invoice -> Int]
  BY OwedAfter
<1>5. balance' \in Int
  <2>1. owed \in [Invoice -> Int]
    BY <1>1 DEF TypeOK
  <2>2. Sum(owed, Owing) \in Int
    BY <2>1, OwingFinite, FiniteAssumption, SumRecursion
  <2> QED
    BY <2>2, <1>1 DEF TypeOK
<1>6. entries' \in [Document -> [Leg -> Entry]]
  <2>1. CASE s.do \in Writes
    <3>1. s.doc \in Document /\ s.at \in Leg
      BY <2>1, <1>1, StepTypes, LedgerTypes
    <3>2. EntryAfter(s) \in Entry
      BY <2>1 DEF EntryAfter, Entry, Writes
    <3> QED
      BY <3>1, <3>2, <2>1, <1>1 DEF TypeOK
  <2>2. CASE s.do \notin Writes
    BY <2>2, <1>1 DEF TypeOK
  <2> QED
    BY <2>1, <2>2
<1>7. \A k \in DOMAIN agenda' : agenda'[k].doc \in Document \cup {Party}
  BY AgendaSteps, Tailed
<1>8. stale' \cup unsaved' \subseteq Document \cup {Party} /\ torn' \subseteq Document \cup {Party}
  BY <1>1 DEF TypeOK
<1> QED
  BY <1>1, <1>2, <1>3, <1>4, <1>5, <1>6, <1>7, <1>8 DEF TypeOK

LEMMA PerformAgenda ==
  ASSUME IInv, NEW s, Performed(s)
  PROVE  AgendaInv'
<1> DEFINE t == Tail(agenda)
<1>1. /\ agenda # <<>> /\ s = Head(agenda) /\ agenda' = t
      /\ agenda \in Seq(StepSet) /\ MarksFirst(agenda) /\ NoRepeats(agenda)
      /\ FlagsMirrored(agenda) /\ PartyLast(agenda) /\ RowsFollow(agenda) /\ Follows /\ AllReady
  BY DEF Performed, IInv, AgendaInv
<1>2. t \in Seq(StepSet) /\ MarksFirst(t) /\ NoRepeats(t)
  BY <1>1, Tailed, TailMarks, TailUnique
<1>3. FlagsMirrored(t) /\ PartyLast(t) /\ RowsFollow(t)
  BY <1>1, TailMirrored, TailParty, TailRows
<1>4. \A k \in DOMAIN t : k + 1 \in DOMAIN agenda /\ t[k] = agenda[k + 1] /\ t[k] \in StepSet
  BY <1>1, <1>2, Tailed
<1>5. ~Turning(t, s.doc) /\ (s.do \in Turns => Turning(agenda, s.doc))
  BY <1>1, FirstStep
<1>6. \A d \in Document :
        /\ seen'[d] = IF s.do \in Turns /\ s.doc = d THEN s.at ELSE seen[d]
        /\ ~Carried(s, d) => status'[d] = IF s.do \in Turns /\ s.doc = d THEN s.at ELSE status[d]
  <2>1. \A d \in Document : seen'[d] = IF s.do \in Turns /\ s.doc = d THEN s.at ELSE seen[d]
    BY MemoryTypes DEF Performed
  <2> QED
    BY <2>1, StatusAfter
<1>7. ASSUME NEW k \in DOMAIN t, t[k].do \notin Turns \cup {"party"}
      PROVE  \/ Has(t, TurnOf(t[k]))
             \/ /\ status'[t[k].doc] = TurnTo(t[k]) /\ seen'[t[k].doc] = TurnTo(t[k])
                /\ ~Turning(t, t[k].doc)
  <2>1. PICK x : x = t[k]
    OBVIOUS
  <2>2. x \in StepSet /\ x.do \notin Turns \cup {"party"}
    BY <1>4, <1>7, <2>1
  <2>3. x.doc \in Document
    BY <2>2, StepTypes
  <2>4. \/ Has(agenda, TurnOf(x))
        \/ status[x.doc] = TurnTo(x) /\ seen[x.doc] = TurnTo(x) /\ ~Turning(agenda, x.doc)
    BY <1>1, <1>4, <1>7, <2>1 DEF Follows
  <2>5. CASE TurnOf(x) = s
    <3>1. s.do \in Turns /\ s.doc = x.doc /\ s.at = TurnTo(x) /\ ~Carried(s, x.doc)
      BY <2>5, TurnOfFields DEF Carried, Turns
    <3> QED
      BY <3>1, <2>1, <2>3, <1>5, <1>6
  <2>6. CASE Has(agenda, TurnOf(x)) /\ TurnOf(x) # s
    BY <2>6, <2>1, <1>1, TailHas
  <2>7. CASE status[x.doc] = TurnTo(x) /\ seen[x.doc] = TurnTo(x) /\ ~Turning(agenda, x.doc)
    <3>1. ~(s.do \in Turns /\ s.doc = x.doc) /\ ~Carried(s, x.doc)
      BY <1>5, <2>7 DEF Carried
    <3>2. ~Turning(t, x.doc)
      BY <2>7, <1>1, TailHas
    <3> QED
      BY <3>1, <3>2, <2>1, <2>3, <2>7, <1>6
  <2> QED
    BY <2>4, <2>5, <2>6, <2>7
<1>8. ASSUME NEW x, Has(t, x) PROVE Ready(x)'
  <2>2. x \in StepSet /\ Ready(x)
    BY <1>1, <1>4, <1>8 DEF AllReady, Has
  <2>3. x.do \in Turns => seen'[x.doc] = seen[x.doc]
    <3>1. x.do \in Turns => x.doc \in Document /\ Turning(t, x.doc)
      BY <1>8, <2>2, StepTypes, TurnTypes DEF Has, Turning
    <3>2. \A d \in Document : seen'[d] = IF s.do \in Turns /\ s.doc = d THEN s.at ELSE seen[d]
      BY MemoryTypes DEF Performed
    <3> QED
      BY <3>1, <3>2, <1>5
  <2>4. ASSUME x.do = "settle"
        PROVE  /\ held'[x.doc] = Total[x.doc]
               /\ \A p \in Payment : Pays[p][x.doc] > 0 => status'[p] = "none"
    <3>1. x.doc \in Invoice
      BY <2>2, <2>4, StepTypes
    <3>2. held[x.doc] = Total[x.doc] /\ \A p \in Payment : Pays[p][x.doc] > 0 => status[p] = "none"
      BY <2>2, <2>4 DEF Ready
    <3>3. s.do \in {"pay", "unpay"} => s.at # x.doc
      <4>1. s.do \in {"pay", "unpay"} =>
              s.doc \in Payment /\ Pays[s.doc][s.at] > 0 /\ status[s.doc] # "none"
        BY <1>1, FirstPay
      <4> QED
        BY <4>1, <3>2
    <3>4. held'[x.doc] = held[x.doc]
      BY <3>1, <3>3, <1>1, MemoryTypes DEF Performed
    <3>5. \A p \in Payment : status[p] = "none" => status'[p] = "none"
      <4>1. s.do \in Turns => status[s.doc] # "none"
        BY StatusAfter DEF Turns
      <4>2. \A p \in Payment : ~Carried(s, p) /\ p \in Document
        BY DocumentAssumption DEF Carried, Document
      <4> QED
        BY <4>1, <4>2, <1>6
    <3> QED
      BY <3>2, <3>4, <3>5
  <2>5. /\ x.do = "mark" /\ x.at = "submitted" => seen'[x.doc] = "draft"
        /\ x.do = "mark" /\ x.at = "cancelled" => seen'[x.doc] = "submitted"
        /\ x.do = "erase" => seen'[x.doc] \in {"draft", "cancelled"}
    BY <2>2, <2>3 DEF Ready, CanDelete, Turns
  <2> QED
    BY <2>4, <2>5 DEF Ready, CanDelete
<1>9. Follows'
  BY <1>1, <1>7 DEF Follows
<1>10. AllReady'
  <2> SUFFICES ASSUME NEW k \in DOMAIN agenda' PROVE Ready(agenda[k])'
    BY DEF AllReady
  <2>1. PICK x : x = agenda'[k]
    OBVIOUS
  <2>2. Ready(x)'
    BY <2>1, <1>1, <1>8 DEF Has
  <2> QED
    BY <2>1, <2>2 DEF Ready, CanDelete
<1> QED
  BY <1>1, <1>2, <1>3, <1>9, <1>10 DEF AgendaInv

LEMMA PerformSeen ==
  ASSUME IInv, NEW s, Performed(s)
  PROVE  SeenInv'
<1>1. \A d \in Document :
        /\ seen'[d] = IF s.do \in Turns /\ s.doc = d THEN s.at ELSE seen[d]
        /\ status'[d] = IF d \in Gone(s) \cup Written(s) THEN seen'[d] ELSE status[d]
  BY MemoryTypes DEF Performed
<1>2. \A d \in Document :
        d \in Gone(s) \cup Written(s) <=>
          \/ s.do \in Turns /\ d = s.doc
          \/ s.do \in {"pay", "unpay"} /\ d = s.at
  BY WrittenRows
<1>3. \A d \in Document : d # Party
  BY DocumentAssumption
<1> SUFFICES ASSUME NEW d \in Document, seen'[d] # status'[d]
             PROVE  /\ seen'[d] \in {"submitted", "cancelled"}
                    /\ status'[d] \in {"draft", "submitted"}
                    /\ d \in stale' \cup unsaved' /\ d \in torn'
  BY DEF SeenInv
<1>4. d \notin Gone(s) \cup Written(s) /\ status'[d] = status[d]
  BY <1>1
<1>5. seen'[d] = seen[d]
  BY <1>1, <1>2, <1>4
<1>6. /\ seen[d] \in {"submitted", "cancelled"} /\ status[d] \in {"draft", "submitted"}
      /\ d \in stale \cup unsaved /\ d \in torn
  BY <1>4, <1>5 DEF IInv, SeenInv
<1> QED
  BY <1>3, <1>4, <1>5, <1>6 DEF Performed

\* What the step writes of an invoice is what the cached invoice has.
LEMMA PerformHeld ==
  ASSUME IInv, NEW s, Performed(s)
  PROVE  HeldInv'
<1>1. agenda # <<>> /\ s = Head(agenda) /\ InMemory(s) /\ s \in StepSet /\ Ready(s)
  BY FirstStep DEF Performed
<1>2. /\ status' \in [Document -> Status]
      /\ \A d \in Document :
           ~Carried(s, d) => status'[d] = IF s.do \in Turns /\ s.doc = d THEN s.at ELSE status[d]
      /\ \A d \in Document : Carried(s, d) => status'[d] = "cancelled"
      /\ s.do = "mark" => s.at \in {"submitted", "cancelled"}
      /\ s.do = "erase" => s.at = "deleted"
  BY StatusAfter
<1>3. \A j \in Invoice : ~Untorn(j) => ~Untorn(j)'
  <2>1. \A d \in Document : d \in torn => d \in torn'
    BY DocumentAssumption DEF Performed
  <2> QED
    BY <2>1 DEF Untorn, Document
<1> SUFFICES ASSUME NEW i \in Invoice
             PROVE  /\ status'[i] = "draft" => owed'[i] = Total[i] /\ held'[i] = Total[i]
                    /\ status'[i] # "deleted" /\ held'[i] # owed'[i] =>
                         i \in stale' \/ (i \in unsaved' /\ ~Untorn(i)')
  BY DEF HeldInv
<1>4. i \in Document
  BY DEF Document
<1>5. /\ status[i] = "draft" => owed[i] = Total[i] /\ held[i] = Total[i]
      /\ status[i] # "deleted" /\ held[i] # owed[i] => i \in stale \/ (i \in unsaved /\ ~Untorn(i))
  BY DEF IInv, HeldInv
<1>6. status'[i] = "draft" => status[i] = "draft" /\ ~(s.do \in Turns /\ s.doc = i)
  BY <1>2, <1>4 DEF Turns
<1>7. CASE s.do = "settle"
  <2>1. s.doc \in Invoice /\ held[s.doc] = Total[s.doc]
    BY <1>1, <1>7, StepTypes DEF Ready
  <2>2. owed'[i] = IF i = s.doc THEN Total[i] ELSE owed[i]
    BY <1>7, OwedAfter
  <2>3. held' = held /\ stale' = stale /\ unsaved' = unsaved
    BY <1>1, <1>7, MemoryTypes DEF Performed, Gone, Written
  <2>4. status'[i] = status[i]
    BY <1>2, <1>4, <1>7 DEF Turns, Carried
  <2> QED
    BY <2>1, <2>2, <2>3, <2>4, <1>3, <1>5
<1>8. CASE s.do # "settle"
  <2>1. /\ i \in Written(s) <=>
             \/ s.do = "mark" /\ i = s.doc
             \/ s.do \in {"pay", "unpay"} /\ i = s.at
        /\ owed'[i] = IF i \in Written(s) THEN held'[i] ELSE owed[i]
    BY <1>8, WrittenRows, OwedAfter
  <2>2. CASE i \in Written(s)
    <3>1. status'[i] # "draft"
      <4>1. s.do \in {"pay", "unpay"} /\ i = s.at => status[i] # "draft"
        BY <1>1, FirstPay
      <4> QED
        BY <4>1, <2>1, <2>2, <1>6 DEF Turns
    <3> QED
      BY <3>1, <2>1, <2>2
  <2>3. CASE i \notin Written(s)
    <3>1. owed'[i] = owed[i] /\ held'[i] = held[i]
      BY <2>1, <2>3, <1>1, MemoryTypes
    <3>2. status'[i] # "deleted" => status[i] # "deleted" /\ i \notin Gone(s)
      <4>1. i \in Gone(s) => status'[i] = "deleted"
        BY <1>2, <1>4, WrittenRows DEF Turns, Carried
      <4>2. status[i] = "deleted" /\ ~(s.do \in Turns /\ s.doc = i) => status'[i] = "deleted"
        BY <1>2, <1>4 DEF Carried
      <4>3. s.do = "erase" /\ s.doc = i => status'[i] = "deleted"
        BY <1>2, <1>4 DEF Turns, Carried
      <4> QED
        BY <4>1, <4>2, <4>3, <2>1, <2>3 DEF Turns
    <3> QED
      BY <3>1, <3>2, <2>3, <1>3, <1>5, <1>6 DEF Performed
  <2> QED
    BY <2>2, <2>3
<1> QED
  BY <1>7, <1>8

LEMMA PerformRow ==
  ASSUME IInv, NEW s, Performed(s)
  PROVE  RowInv'
<1>1. /\ \A d \in Document :
           ~Carried(s, d) => status'[d] = IF s.do \in Turns /\ s.doc = d THEN s.at ELSE status[d]
      /\ \A d \in Document : Carried(s, d) => status'[d] = "cancelled"
  BY StatusAfter
<1>2. s.do \in Turns =>
        s.at \in {"submitted", "cancelled", "deleted"} /\ status[s.doc] # "none"
  BY StatusAfter DEF Turns
<1> SUFFICES ASSUME NEW p \in Payment, NEW i \in Invoice, Pays[p][i] > 0, status'[p] # "none"
             PROVE  status'[i] \notin {"none", "draft"}
  BY DEF RowInv
<1>3. p \in Document /\ i \in Document /\ ~Carried(s, p)
  BY DocumentAssumption DEF Document, Carried
<1>4. status[p] # "none"
  BY <1>1, <1>2, <1>3
<1>5. status[i] \notin {"none", "draft"}
  BY <1>4 DEF IInv, RowInv
<1> QED
  BY <1>1, <1>2, <1>3, <1>5

\* Each entry follows its document, or a write of it is still to be made.
LEMMA PerformLedger ==
  ASSUME IInv, NEW s, Performed(s)
  PROVE  LedgerInv'
<1> DEFINE t == Tail(agenda)
<1>1. /\ agenda # <<>> /\ s = Head(agenda) /\ agenda' = t
      /\ agenda \in Seq(StepSet) /\ FlagsMirrored(agenda) /\ s \in StepSet
      /\ ~Turning(t, s.doc)
      /\ s.do \notin Turns => ~Turning(agenda, s.doc)
      /\ s.do \notin Turns \cup {"party"} => status[s.doc] = TurnTo(s)
  BY FirstStep DEF Performed, IInv, AgendaInv
<1>2. \A d \in Document \ torn : status'[d] = IF s.do \in Turns /\ s.doc = d THEN s.at ELSE status[d]
  BY StatusAfter DEF Carried
<1>3. entries \in [Document -> [Leg -> Entry]]
  BY DEF IInv, TypeOK
<1>4. /\ 1 \in DOMAIN agenda /\ s = agenda[1]
      /\ \A k \in DOMAIN agenda : k = 1 \/ (k - 1 \in DOMAIN t /\ t[k - 1] = agenda[k])
      /\ \A k \in DOMAIN t : k + 1 \in DOMAIN agenda /\ t[k] = agenda[k + 1]
  BY <1>1, Tailed
<1>5. \A d, l : Writing(agenda, d, l) => Writing(t, d, l) \/ (s.do \in Writes /\ s.doc = d /\ s.at = l)
  BY <1>1, TailHas
<1> HIDE DEF t
<1> SUFFICES ASSUME NEW d \in Document \ torn', NEW l \in Leg
             PROVE  /\ ~Turning(t, d) => entries'[d][l] = EntryOf(status'[d]) \/ Writing(t, d, l)
                    /\ \A k \in DOMAIN t : t[k].do \in Turns /\ t[k].doc = d =>
                         /\ entries'[d][l] = EntryOf(status'[d])
                         /\ Writing(t, d, l) \/ EntryOf(t[k].at) = EntryOf(status'[d])
  BY <1>1 DEF LedgerInv
<1>6. d \in Document \ torn
  BY DocumentAssumption DEF Performed
<1>7. /\ ~Turning(agenda, d) => entries[d][l] = EntryOf(status[d]) \/ Writing(agenda, d, l)
      /\ \A k \in DOMAIN agenda : agenda[k].do \in Turns /\ agenda[k].doc = d =>
           /\ entries[d][l] = EntryOf(status[d])
           /\ Writing(agenda, d, l) \/ EntryOf(agenda[k].at) = EntryOf(status[d])
  BY <1>6 DEF IInv, LedgerInv
<1>8. CASE s.doc # d
  <2>1. entries'[d] = entries[d] /\ status'[d] = status[d]
    BY <1>2, <1>3, <1>6, <1>8 DEF Performed
  <2>2. Writing(agenda, d, l) => Writing(t, d, l)
    BY <1>5, <1>8
  <2>3. Turning(agenda, d) => Turning(t, d)
    BY <1>4, <1>8 DEF Turning
  <2>4. ~Turning(t, d) => entries'[d][l] = EntryOf(status'[d]) \/ Writing(t, d, l)
    BY <1>7, <2>1, <2>2, <2>3
  <2>5. ASSUME NEW k \in DOMAIN t, t[k].do \in Turns, t[k].doc = d
        PROVE  /\ entries'[d][l] = EntryOf(status'[d])
               /\ Writing(t, d, l) \/ EntryOf(t[k].at) = EntryOf(status'[d])
    BY <1>4, <1>7, <2>1, <2>2, <2>5
  <2> QED
    BY <2>4, <2>5
<1>9. CASE s.doc = d
  <2>1. ~Turning(t, d) /\ \A k \in DOMAIN t : ~(t[k].do \in Turns /\ t[k].doc = d)
    BY <1>1, <1>9 DEF Turning
  <2> SUFFICES entries'[d][l] = EntryOf(status'[d]) \/ Writing(t, d, l)
    BY <2>1
  <2>2. CASE s.do \in Turns
    <3>1. /\ entries[d][l] = EntryOf(status[d])
          /\ Writing(agenda, d, l) \/ EntryOf(s.at) = EntryOf(status[d])
      BY <1>4, <1>7, <1>9, <2>2
    <3>2. s.do \notin Writes
      BY <2>2 DEF Turns, Writes
    <3>3. entries' = entries /\ status'[d] = s.at
      BY <3>2, <2>2, <1>2, <1>6, <1>9 DEF Performed
    <3> QED
      BY <3>1, <3>2, <3>3, <1>5
  <2>3. CASE s.do \in Writes
    <3>1. s.do \notin Turns \cup {"party"} /\ s.at \in Leg
      BY <2>3, <1>1, StepTypes, LedgerTypes DEF Turns, Writes
    <3>2. status[d] = TurnTo(s) /\ status'[d] = status[d] /\ ~Turning(agenda, d)
      BY <3>1, <1>1, <1>2, <1>6, <1>9
    <3>3. entries' = [entries EXCEPT ![d][s.at] = EntryAfter(s)]
      BY <2>3, <1>9 DEF Performed
    <3>4. CASE l # s.at
      <4>1. entries'[d][l] = entries[d][l]
        BY <3>3, <3>4, <1>3, <1>6
      <4> QED
        BY <4>1, <3>2, <3>4, <1>5, <1>7
    <3>5. CASE l = s.at
      <4>1. entries'[d][l] = EntryAfter(s)
        BY <3>3, <3>5, <1>3, <1>6
      <4>2. CASE s.do = "post"
        BY <4>1, <4>2, <3>2 DEF EntryAfter, TurnTo, EntryOf
      <4>3. CASE s.do = "flag"
        <5>1. Has(t, Step("mirror", d, l))
          BY <4>3, <3>5, <1>1, <1>9, TailMirrored DEF t
        <5> QED
          BY <5>1, StepFields DEF Has, Writing, Writes
      <4>4. CASE s.do = "mirror"
        BY <4>1, <4>4, <3>2 DEF EntryAfter, TurnTo, EntryOf
      <4>5. CASE s.do = "unpost"
        BY <4>1, <4>5, <3>2 DEF EntryAfter, TurnTo, EntryOf
      <4> QED
        BY <2>3, <4>2, <4>3, <4>4, <4>5 DEF Writes
    <3> QED
      BY <3>4, <3>5
  <2>4. CASE s.do \notin Turns \cup Writes
    <3>1. entries' = entries /\ status'[d] = status[d] /\ ~Turning(agenda, d)
      BY <2>4, <1>1, <1>2, <1>6, <1>9 DEF Performed
    <3> QED
      BY <3>1, <2>4, <1>5, <1>7
  <2> QED
    BY <2>2, <2>3, <2>4
<1> QED
  BY <1>8, <1>9

-----------------------------------------------------------------------------
(* What an invoice owes.                                                   *)

LEMMA PaysTypes ==
  ASSUME NEW i \in Invoice
  PROVE  /\ PaysOn(i) \in [Payment -> Int]
         /\ \A p \in Payment : PaysOn(i)[p] = Pays[p][i]
         /\ Applied(i) \in SUBSET Payment /\ Applied(i)' \in SUBSET Payment
BY AmountAssumption DEF PaysOn, Applied

\* A payment none of whose steps on invoice i is made counts as it did.
LEMMA SameApplied ==
  ASSUME IInv, NEW s, Performed(s), NEW i \in Invoice, NEW p \in Payment,
         ~(s.do \in Turns /\ s.doc = p),
         ~(s.do \in {"pay", "unpay"} /\ s.doc = p /\ s.at = i)
  PROVE  p \in Applied(i)' <=> p \in Applied(i)
<1>1. p \in Document /\ ~Carried(s, p)
  BY DocumentAssumption DEF Document, Carried
<1>2. status'[p] = status[p]
  BY <1>1, StatusAfter
<1>3. \A w \in {"pay", "unpay"} : s # Step(w, p, i)
  BY StepFields
<1>4. agenda \in Seq(StepSet) /\ agenda # <<>> /\ s = Head(agenda) /\ agenda' = Tail(agenda)
  BY DEF IInv, AgendaInv, Performed
<1>5. \A w \in {"pay", "unpay"} : Has(agenda', Step(w, p, i)) <=> Has(agenda, Step(w, p, i))
  BY <1>3, <1>4, TailHas
<1> QED
  BY <1>2, <1>5 DEF Applied

\* A payment that changes status counts as it did until its rows are done.
LEMMA TurnApplied ==
  ASSUME IInv, NEW s, Performed(s), NEW i \in Invoice, NEW p \in Payment,
         s.do \in Turns, s.doc = p, p \notin torn
  PROVE  p \in Applied(i)' <=> p \in Applied(i)
<1>1. /\ agenda \in Seq(StepSet) /\ MarksFirst(agenda) /\ RowsFollow(agenda)
      /\ agenda # <<>> /\ s = Head(agenda) /\ agenda' = Tail(agenda)
  BY DEF IInv, AgendaInv, Performed
<1>2. p \in Document /\ seen[p] = status[p] /\ ~Carried(s, p)
  BY DEF IInv, SeenInv, Document, Carried
<1>3. status'[p] = s.at /\ Turning(agenda, p) /\ Ready(s)
  BY <1>1, <1>2, StatusAfter, FirstStep
<1>4. /\ Has(agenda, Step("pay", p, i)) => status[p] # "submitted"
      /\ Has(agenda, Step("unpay", p, i)) => status[p] # "cancelled"
  BY <1>3, PendingRows
<1>5. p \in Applied(i) <=> Pays[p][i] > 0 /\ status[p] = "submitted"
  BY <1>4 DEF Applied
<1>6. CASE s.do = "erase"
  BY <1>2, <1>3, <1>5, <1>6, StatusAfter DEF Applied, Ready, CanDelete
<1>7. CASE s.do = "mark"
  <2>1. s.at \in {"submitted", "cancelled"}
    BY <1>7, StatusAfter
  <2>2. Pays[p][i] > 0 => Has(agenda', RowStep(s, i))
    BY <1>1, <1>7, TailRows DEF Rows
  <2>3. CASE s.at = "submitted"
    <3>1. status[p] = "draft" /\ RowStep(s, i) = Step("pay", p, i)
      BY <1>2, <1>3, <1>7, <2>3 DEF Ready, RowStep
    <3> QED
      BY <3>1, <2>2, <2>3, <1>3, <1>5 DEF Applied
  <2>4. CASE s.at = "cancelled"
    <3>1. status[p] = "submitted" /\ RowStep(s, i) = Step("unpay", p, i)
      BY <1>2, <1>3, <1>7, <2>4 DEF Ready, RowStep
    <3> QED
      BY <3>1, <2>2, <2>4, <1>3, <1>5 DEF Applied
  <2> QED
    BY <2>1, <2>3, <2>4
<1> QED
  BY <1>6, <1>7 DEF Turns

\* An invoice without payments: what is applied is nothing.
LEMMA NoPayments ==
  ASSUME NEW i \in Invoice, \A p \in Payment : Pays[p][i] > 0 => status'[p] = "none"
  PROVE  Applied(i)' = {} /\ Sum(PaysOn(i), Applied(i)') = 0
<1>1. Applied(i)' = {}
  BY DEF Applied
<1> QED
  BY <1>1, SumOfNone

LEMMA PerformOut ==
  ASSUME IInv, NEW s, Performed(s)
  PROVE  OutInv'
<1>1. agenda # <<>> /\ s = Head(agenda) /\ InMemory(s) /\ s \in StepSet /\ Ready(s)
  BY FirstStep DEF Performed
<1>2. \A d \in Document \ torn : status'[d] = IF s.do \in Turns /\ s.doc = d THEN s.at ELSE status[d]
  BY StatusAfter DEF Carried
<1>3. owed \in [Invoice -> Int] /\ held \in [Invoice -> Int] /\ held' \in [Invoice -> Int]
  BY <1>1, MemoryTypes DEF IInv, TypeOK
<1>4. /\ agenda \in Seq(StepSet) /\ NoRepeats(agenda) /\ agenda' = Tail(agenda)
      /\ Has(agenda, s)
  BY FirstStep DEF IInv, AgendaInv, Performed
<1> SUFFICES ASSUME NEW i \in Invoice, i \in Owing', Untorn(i)'
             PROVE  owed'[i] = Total[i] - Sum(PaysOn(i), Applied(i)')
  BY DEF OutInv, Owing
<1>5. i \in Document /\ status'[i] = "submitted"
  BY DEF Owing, Document
<1>6. Untorn(i) /\ i \in Document \ torn
  <2>1. \A d \in Document : d \notin torn' => d \notin torn
    BY DocumentAssumption DEF Performed
  <2> QED
    BY <2>1, <1>5 DEF Untorn, Document
<1>7. /\ PaysOn(i) \in [Payment -> Int] /\ \A p \in Payment : PaysOn(i)[p] = Pays[p][i]
      /\ Applied(i) \in SUBSET Payment /\ Applied(i)' \in SUBSET Payment
  BY PaysTypes
<1>8. i \in Owing => owed[i] = Total[i] - Sum(PaysOn(i), Applied(i))
  BY <1>6 DEF IInv, OutInv
<1>9. CASE s.do \in Turns /\ s.doc = i
  <2>1. s.do = "mark" /\ s.at = "submitted"
    BY <1>2, <1>5, <1>6, <1>9, StatusAfter DEF Turns
  <2>2. status[i] = "draft"
    <3>1. seen[i] = "draft"
      BY <1>1, <1>9, <2>1 DEF Ready
    <3> QED
      BY <3>1, <1>5, <1>6 DEF IInv, SeenInv, Untorn
  <2>3. owed'[i] = Total[i]
    <3>1. owed'[i] = held'[i] /\ held' = held
      BY <2>1, <1>1, <1>9, OwedAfter, MemoryTypes
    <3> QED
      BY <3>1, <2>2 DEF IInv, HeldInv
  <2>4. ASSUME NEW p \in Payment, Pays[p][i] > 0 PROVE status'[p] = "none"
    <3>1. status[p] = "none"
      BY <2>2, <2>4 DEF IInv, RowInv
    <3>2. p \in Document /\ p # i /\ ~Carried(s, p)
      BY DocumentAssumption DEF Document, Carried
    <3> QED
      BY <3>1, <3>2, <1>9, StatusAfter
  <2>5. Sum(PaysOn(i), Applied(i)') = 0
    BY <2>4, NoPayments
  <2>6. Total[i] \in Int
    BY AmountAssumption
  <2> QED
    BY <2>3, <2>5, <2>6
<1>10. CASE s.do = "settle" /\ s.doc = i
  <2>1. owed'[i] = Total[i]
    BY <1>10, OwedAfter
  <2>2. \A p \in Payment : Pays[p][i] > 0 => status[p] = "none"
    BY <1>1, <1>10 DEF Ready
  <2>3. \A p \in Payment : status'[p] = status[p]
    BY <1>10, StatusAfter DEF Turns, Carried, Document
  <2>4. Sum(PaysOn(i), Applied(i)') = 0
    BY <2>2, <2>3, NoPayments
  <2>5. Total[i] \in Int
    BY AmountAssumption
  <2> QED
    BY <2>1, <2>4, <2>5
<1>11. CASE s.do \in {"pay", "unpay"} /\ s.at = i
  <2>1. PICK p : p = s.doc
    OBVIOUS
  <2>2. /\ p \in Payment /\ Pays[p][i] \in Nat /\ Pays[p][i] > 0 /\ s = Step(s.do, p, i)
        /\ s.do = "pay" => status[p] = "submitted"
        /\ s.do = "unpay" => status[p] = "cancelled"
    BY <1>1, <1>11, <2>1, FirstPay
  <2>3. status'[p] = status[p] /\ i \in Owing
    <3>1. p \in Document /\ ~Carried(s, p) /\ s.do \notin Turns
      BY <2>2, <1>11, DocumentAssumption DEF Document, Carried, Turns
    <3> QED
      BY <3>1, <1>2, <1>5, <1>6, StatusAfter DEF Owing
  <2>4. held[i] = owed[i]
    <3>1. i \notin stale
      <4>1. i \in Written(s) /\ ~Conflict(s)
        BY <1>11, WrittenRows DEF Performed
      <4> QED
        BY <4>1 DEF Conflict
    <3> QED
      BY <3>1, <2>3, <1>6 DEF IInv, HeldInv, Owing
  <2>5. owed'[i] = IF s.do = "pay" THEN owed[i] - Pays[p][i] ELSE owed[i] + Pays[p][i]
    <3>1. owed'[i] = held'[i]
      BY <1>11, OwedAfter
    <3>2. held'[i] = IF s.do = "pay" THEN held[i] - Pays[p][i] ELSE held[i] + Pays[p][i]
      BY <1>1, <1>11, <2>1, MemoryTypes
    <3> QED
      BY <3>1, <3>2, <2>4, <1>3
  <2>6. ASSUME NEW q \in Payment, q # p PROVE q \in Applied(i)' <=> q \in Applied(i)
    <3>1. ~(s.do \in Turns /\ s.doc = q)
      BY <1>11 DEF Turns
    <3>2. ~(s.do \in {"pay", "unpay"} /\ s.doc = q /\ s.at = i)
      BY <2>1, <2>6
    <3> QED
      BY <3>1, <3>2, SameApplied
  <2>7. ~Has(agenda', s)
    BY <1>1, <1>4, <1>11, TailUnique
  <2>8. Sum(PaysOn(i), Applied(i)) \in Int /\ Sum(PaysOn(i), Applied(i)') \in Int
    BY <1>7, FiniteAssumption, SumRecursion
  <2>9. owed[i] = Total[i] - Sum(PaysOn(i), Applied(i)) /\ Total[i] \in Int
    BY <1>8, <2>3, AmountAssumption
  <2>10. CASE s.do = "pay"
    <3>1. p \notin Applied(i) /\ p \in Applied(i)'
      BY <2>2, <2>3, <2>7, <2>10, <1>4 DEF Applied
    <3>2. Applied(i)' = Applied(i) \cup {p}
      BY <3>1, <2>6, <1>7
    <3>3. Sum(PaysOn(i), Applied(i) \cup {p}) = Sum(PaysOn(i), Applied(i)) + PaysOn(i)[p]
      BY <3>1, <2>2, <1>7, FiniteAssumption, SumAdd
    <3>4. owed'[i] = owed[i] - Pays[p][i]
      BY <2>5, <2>10
    <3>5. Sum(PaysOn(i), Applied(i)') = Sum(PaysOn(i), Applied(i)) + Pays[p][i]
      BY <3>2, <3>3, <2>2, <1>7
    <3> QED
      BY <3>4, <3>5, <2>2, <2>8, <2>9
  <2>11. CASE s.do = "unpay"
    <3>1. p \in Applied(i) /\ p \notin Applied(i)'
      BY <2>2, <2>3, <2>7, <2>11, <1>4 DEF Applied
    <3>2. Applied(i)' = Applied(i) \ {p}
      BY <3>1, <2>6, <1>7
    <3>3. Sum(PaysOn(i), Applied(i)) = PaysOn(i)[p] + Sum(PaysOn(i), Applied(i) \ {p})
      BY <3>1, <1>7, FiniteAssumption, SumRemove
    <3>4. owed'[i] = owed[i] + Pays[p][i]
      BY <2>5, <2>11
    <3>5. Sum(PaysOn(i), Applied(i)) = Pays[p][i] + Sum(PaysOn(i), Applied(i)')
      BY <3>2, <3>3, <2>2, <1>7
    <3> QED
      BY <3>4, <3>5, <2>2, <2>8, <2>9
  <2> QED
    BY <1>11, <2>10, <2>11
<1>12. CASE /\ ~(s.do \in Turns /\ s.doc = i)
            /\ ~(s.do = "settle" /\ s.doc = i)
            /\ ~(s.do \in {"pay", "unpay"} /\ s.at = i)
  <2>1. i \in Owing
    BY <1>2, <1>5, <1>6, <1>12 DEF Owing
  <2>2. owed'[i] = owed[i]
    BY <1>12, OwedAfter DEF Turns
  <2>3. ASSUME NEW p \in Payment PROVE p \in Applied(i)' <=> p \in Applied(i)
    <3>1. CASE s.do \in Turns /\ s.doc = p /\ Pays[p][i] > 0
      <4>1. p \notin torn
        BY <3>1, <1>6 DEF Untorn
      <4> QED
        BY <3>1, <4>1, TurnApplied
    <3>2. CASE ~(Pays[p][i] > 0)
      BY <3>2 DEF Applied
    <3>3. CASE ~(s.do \in Turns /\ s.doc = p)
      BY <3>3, <1>12, SameApplied
    <3> QED
      BY <3>1, <3>2, <3>3
  <2>4. Applied(i)' = Applied(i)
    BY <2>3, <1>7
  <2> QED
    BY <2>1, <2>2, <2>4, <1>8
<1> QED
  BY <1>9, <1>10, <1>11, <1>12

-----------------------------------------------------------------------------
(* The party.                                                              *)

LEMMA PerformParty ==
  ASSUME IInv, NEW s, Performed(s)
  PROVE  PartyInv'
<1>1. /\ agenda # <<>> /\ s = Head(agenda) /\ agenda' = Tail(agenda) /\ s \in StepSet /\ Ready(s)
      /\ agenda \in Seq(StepSet) /\ PartyLast(agenda)
  BY FirstStep DEF Performed, IInv, AgendaInv
<1>2. s.do \in {"mark", "erase"} \cup Writes \cup {"pay", "unpay", "settle", "party"}
  BY <1>1, StepTypes DEF Turns
<1>3. Has(agenda, UpdateParty) => s = UpdateParty \/ Has(agenda', UpdateParty)
  BY <1>1, TailHas
<1>4. CASE s.do = "party"
  <2>1. owed' = owed /\ balance' = Sum(owed, Owing)
    BY <1>4, OwedAfter DEF Performed
  <2>2. Owing' = Owing
    BY <1>4, StatusAfter DEF Owing, Document, Carried, Turns
  <2> QED
    BY <2>1, <2>2 DEF PartyInv
<1>5. CASE s.do \in {"mark", "pay", "unpay", "settle"}
  BY <1>1, <1>5, TailParty DEF PartyInv
<1>6. CASE s.do \in Writes
  <2>1. UNCHANGED <<owed, balance, torn>> /\ s # UpdateParty
    BY <1>6, OwedAfter, PartyStep DEF Performed, Writes
  <2>2. \A d \in Document : status'[d] = status[d]
    BY <1>6, StatusAfter DEF Carried, Turns, Writes
  <2>3. Owing' = Owing
    BY <2>2 DEF Owing, Document
  <2> QED
    BY <2>1, <2>2, <2>3, <1>3 DEF IInv, PartyInv, Document
<1>7. CASE s.do = "erase"
  <2>1. UNCHANGED <<owed, balance, torn>> /\ s # UpdateParty
    BY <1>7, OwedAfter, PartyStep DEF Performed, Writes
  <2>2. /\ s.doc \in Document /\ s.at = "deleted" /\ s.do \in Turns
        /\ \A d \in Document : status'[d] = IF s.do \in Turns /\ s.doc = d THEN s.at ELSE status[d]
    BY <1>7, StatusAfter DEF Turns, Carried
  <2>3. \A d \in Document : status'[d] = IF s.doc = d THEN "deleted" ELSE status[d]
    BY <2>2
  <2>4. (\E i \in torn \cap Invoice : status[i] = "deleted")
          => \E i \in torn \cap Invoice : status'[i] = "deleted"
    BY <2>3 DEF Document
  <2>5. CASE s.doc \in Owing
    <3>1. s.doc \in torn
      <4>1. seen[s.doc] \in {"draft", "cancelled"} /\ status[s.doc] = "submitted"
        BY <2>5, <1>1, <1>7 DEF Ready, CanDelete, Owing
      <4> QED
        BY <4>1, <2>2 DEF IInv, SeenInv
    <3>2. s.doc \in Invoice /\ status'[s.doc] = "deleted"
      BY <2>3, <2>5 DEF Owing, Document
    <3> QED
      BY <3>1, <3>2, <2>1 DEF PartyInv
  <2>6. CASE s.doc \notin Owing
    <3>1. Owing' = Owing
      BY <2>3, <2>6 DEF Owing, Document
    <3> QED
      BY <3>1, <2>1, <2>4, <1>3 DEF IInv, PartyInv
  <2> QED
    BY <2>5, <2>6
<1> QED
  BY <1>2, <1>4, <1>5, <1>6, <1>7

-----------------------------------------------------------------------------
(* The theorems.                                                           *)

LEMMA PerformInv ==
  ASSUME IInv, Perform
  PROVE  IInv'
<1>1. PICK s : Performed(s)
  BY PerformsOne
<1>2. TypeOK' /\ AgendaInv' /\ SeenInv' /\ HeldInv'
  BY <1>1, PerformTypes, PerformAgenda, PerformSeen, PerformHeld
<1>3. RowInv' /\ LedgerInv' /\ OutInv' /\ PartyInv'
  BY <1>1, PerformRow, PerformLedger, PerformOut, PerformParty
<1> QED
  BY <1>2, <1>3 DEF IInv

LEMMA StutterInv ==
  ASSUME IInv, UNCHANGED vars
  PROVE  IInv'
<1> USE DEF vars
<1>1. TypeOK' /\ SeenInv' /\ HeldInv' /\ RowInv'
  BY DEF IInv, TypeOK, SeenInv, HeldInv, RowInv, Untorn
<1>2. AgendaInv'
  BY DEF IInv, AgendaInv, Follows, AllReady, Ready, CanDelete
<1>3. LedgerInv'
  BY DEF IInv, LedgerInv
<1>4. Owing' = Owing /\ \A i \in Invoice : Applied(i)' = Applied(i)
  BY DEF Owing, Applied
<1>5. OutInv' /\ PartyInv'
  BY <1>4 DEF IInv, OutInv, PartyInv, Untorn, Owing
<1> QED
  BY <1>1, <1>2, <1>3, <1>5 DEF IInv

\* The inductive invariant holds in every reachable state: what each pending
\* write of an operation relies on (doc.ts, Transactional.ts, Invoice.ts and
\* Payment.ts) is still so when it is made, though a copy left unsaved by an
\* error before the bump (doc.ts:1032) may be written with it.
THEOREM SpecSettles == Spec => []IInv
<1>1. Init => IInv
  BY InitInv
<1>2. IInv /\ [Next]_vars => IInv'
  <2> SUFFICES ASSUME IInv, [Next]_vars PROVE IInv'
    OBVIOUS
  <2>1. ASSUME NEW i \in Invoice, SaveInvoice(i) PROVE IInv'
    BY <2>1, SaveInvoiceInv
  <2>2. ASSUME NEW p \in Payment, SavePayment(p) PROVE IInv'
    BY <2>2, SavePaymentInv
  <2>3. ASSUME NEW d \in Document, Submit(d) PROVE IInv'
    BY <2>3, SubmitInv
  <2>4. ASSUME NEW d \in Document, Cancel(d) PROVE IInv'
    BY <2>4, CancelInv
  <2>5. ASSUME NEW d \in Document, Delete(d) PROVE IInv'
    BY <2>5, DeleteInv
  <2>6. ASSUME NEW d \in Document \cup {Party}, Reload(d) PROVE IInv'
    BY <2>6, ReloadInv
  <2>7. CASE Perform
    BY <2>7, PerformInv
  <2>8. CASE Fail
    BY <2>8, FailInv
  <2>9. CASE Restart
    BY <2>9, RestartInv
  <2>10. CASE UNCHANGED vars
    BY <2>10, StutterInv
  <2> QED
    BY <2>1, <2>2, <2>3, <2>4, <2>5, <2>6, <2>7, <2>8, <2>9, <2>10 DEF Next
<1> QED
  BY <1>1, <1>2, PTL DEF Spec

\* Type correctness of the rows, the cached documents and the ledger.
THEOREM SettlementTypes == Spec => []TypeOK
<1>1. IInv => TypeOK
  BY DEF IInv
<1> QED
  BY <1>1, SpecSettles, PTL

\* A cached document that differs from its row is one the version check refuses
\* to write (doc.ts:801-818), or one left unsaved by a sync that threw before it
\* bumped `modified` and that belongs to an interrupted operation.
THEOREM StaleCopiesAreRefused == Spec => []StaleIsRefused
<1>1. IInv => StaleIsRefused
  BY DEF IInv, SeenInv, HeldInv, Untorn, StaleIsRefused, Payers
<1> QED
  BY <1>1, SpecSettles, PTL

\* At rest a document no interrupted operation left half done has the ledger
\* entries of its status (LedgerPosting.ts:189-216, Invoice.ts:360-387).
THEOREM LedgersFollow == Spec => []LedgerFollowsStatus
<1>1. IInv => LedgerFollowsStatus
  <2> SUFFICES ASSUME IInv, agenda = <<>>, NEW d \in Document \ torn, NEW l \in Leg
               PROVE  entries[d][l] = EntryOf(status[d])
    BY DEF LedgerFollowsStatus, Resting
  <2> QED
    BY NothingPending DEF IInv, LedgerInv
<1> QED
  BY <1>1, SpecSettles, PTL

\* What is paid on an invoice, summed over its payments or over all of them.
LEMMA PaidIsApplied ==
  ASSUME IInv, agenda = <<>>, NEW i \in Invoice
  PROVE  Paid(i) = Sum(PaysOn(i), Applied(i))
<1> DEFINE S == {p \in Payment : status[p] = "submitted"}
           All == [p \in Payment |-> Pays[p][i]]
<1>1. Applied(i) = {p \in S : Pays[p][i] > 0}
  BY NothingPending DEF Applied
<1>2. /\ PaysOn(i) \in [Payment -> Int] /\ Applied(i) \in SUBSET Payment
      /\ \A p \in Payment : PaysOn(i)[p] = Pays[p][i]
  BY PaysTypes
<1>3. \A p \in S \ Applied(i) : PaysOn(i)[p] = 0
  <2>1. \A p \in Payment : Pays[p][i] \in Nat
    BY AmountAssumption
  <2> QED
    BY <1>1, <1>2, <2>1
<1>4. S \in SUBSET Payment /\ Applied(i) \in SUBSET S
  BY <1>1
<1> HIDE DEF S
<1>5. Sum(PaysOn(i), S) = Sum(PaysOn(i), Applied(i))
  BY <1>2, <1>3, <1>4, FiniteAssumption, SumNonzero
<1>6. Paid(i) = MapThenSumSet(LAMBDA p : Pays[p][i], S)
  BY DEF Paid, S
<1>7. MapThenSumSet(LAMBDA p : Pays[p][i], S) = Sum(PaysOn(i), S)
  BY <1>4 DEF Sum, PaysOn, MapThenSumSet, MapThenFoldSet
<1> QED
  BY <1>5, <1>6, <1>7

\* At rest a submitted invoice owes its total less the submitted payments on it,
\* unless an operation on it or on one of its payments was interrupted: the
\* increments and decrements of Payment.ts:584-653 add up along every path.
THEOREM InvoicesAreSettled == Spec => []OutstandingFollowsPayments
<1>1. IInv => OutstandingFollowsPayments
  <2> SUFFICES ASSUME IInv, agenda = <<>>, NEW i \in Owing \ torn,
                      \A p \in Payment : Pays[p][i] > 0 => p \notin torn
               PROVE  owed[i] = Total[i] - Paid(i)
    BY DEF OutstandingFollowsPayments, Resting
  <2>1. Untorn(i) /\ i \in Invoice
    BY DEF Untorn, Owing
  <2> QED
    BY <2>1, PaidIsApplied DEF IInv, OutInv
<1> QED
  BY <1>1, SpecSettles, PTL

\* At rest the party's balance is the sum of what its invoices owe, unless the
\* last operation to touch either was interrupted or an invoice left half done
\* was deleted (Party.ts:100-138).
THEOREM PartyIsSettled == Spec => []PartyFollowsInvoices
<1>1. IInv => PartyFollowsInvoices
  BY NothingPending DEF IInv, PartyInv, PartyFollowsInvoices, Resting, Sum
<1> QED
  BY <1>1, SpecSettles, PTL
=============================================================================
