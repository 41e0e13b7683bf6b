---------------------------- MODULE Pages_proofs ----------------------------
(***************************************************************************)
(* What is proved of the pages: an inductive invariant of each, which then *)
(* holds whichever page is open, for one that is closed has no state and   *)
(* no step of another gives it one.                                        *)
(***************************************************************************)
EXTENDS Pages, SequenceLemmas, TLAPS

-----------------------------------------------------------------------------
(***************************************************************************)
(* The list and the form of the transactions page, for any number of rows, *)
(* any size of a page and any number of loads in flight.  The invariant    *)
(* has two halves that no step ties together.  Of the list: a load no      *)
(* other overtook is the only one in flight and is for the filter drawn.   *)
(* Of the form: as long as nobody set the type, it is the type of what is  *)
(* edited, in the form and in the save it started.                         *)
(***************************************************************************)

Row == [id : Ids, type : Types]
Load == [filter : Filters, page : Nat, append : BOOLEAN, alone : BOOLEAN]
Save == [editing : Row \cup {None}, type : Types, filter : Filters, asked : BOOLEAN]
Deletion == [id : Ids, type : Types, filter : Filters]

Page ==
  [rows : [Ids -> Types \cup {"none"}], filter : Filters, items : SUBSET Row, page : Nat,
   hasMore : BOOLEAN, loadingMore : BOOLEAN, error : BOOLEAN, loads : Seq(Load),
   mixed : BOOLEAN, open : BOOLEAN, editing : Row \cup {None}, formType : Types,
   type : Types, saving : BOOLEAN, lookups : {0, 1}, asked : BOOLEAN,
   save : Save \cup {None}, doomed : Row \cup {None}, deleting : BOOLEAN,
   undo : Deletion \cup {None}, retyped : SUBSET Ids]

AloneInFlight(s) ==
  \A i \in DOMAIN s.loads : s.loads[i].alone => Len(s.loads) = 1 /\ s.loads[i].filter = s.filter

Fits(s) == \A row \in s.items : Matches(s.filter, row.type)

(* What is drawn fits when no load runs, and when the one that runs will   *)
(* add to it.                                                              *)
DrawnFits(s) ==
  ~s.mixed /\ (s.loads = <<>> \/ \E i \in DOMAIN s.loads : s.loads[i].alone /\ s.loads[i].append)
    => Fits(s)

ListInv(s) == AloneInFlight(s) /\ DrawnFits(s)

FormInv(s) ==
  /\ s.open /\ s.editing # None /\ ~s.asked /\ s.formType # "income" => s.type = s.editing.type
  /\ s.save # None /\ s.save.editing # None /\ ~s.save.asked => s.save.type = s.save.editing.type
  /\ s.retyped = {}

DeletesSomething(s) == s.deleting => s.doomed # None

PageInv(s) == s \in Page /\ ListInv(s) /\ FormInv(s) /\ DeletesSomething(s)

SameList(s, t) ==
  t.filter = s.filter /\ t.items = s.items /\ t.loads = s.loads /\ t.mixed = s.mixed

SameForm(s, t) ==
  /\ t.open = s.open /\ t.editing = s.editing /\ t.formType = s.formType /\ t.type = s.type
  /\ t.asked = s.asked /\ t.save = s.save /\ t.retyped = s.retyped

SameDeletion(s, t) == t.deleting = s.deleting /\ t.doomed = s.doomed

LEMMA ListUndisturbed ==
  ASSUME NEW s, NEW t, SameList(s, t), ListInv(s)
  PROVE  ListInv(t)
BY DEF SameList, ListInv, AloneInFlight, DrawnFits, Fits

LEMMA FormUndisturbed ==
  ASSUME NEW s, NEW t, SameForm(s, t), FormInv(s)
  PROVE  FormInv(t)
BY DEF SameForm, FormInv

(* The page opens with its first load alone.                               *)
LEMMA InitPageInv == TransactionsInit => PageInv(txs)
<1> SUFFICES ASSUME NEW rows \in [Ids -> Types \cup {"none"}], txs = FreshTransactions(rows)
             PROVE  PageInv(txs)
  BY DEF TransactionsInit
<1> DEFINE ld == [filter |-> "all", page |-> 0, append |-> FALSE, alone |-> TRUE]
<1>1. ld \in Load /\ txs.loads = <<ld>>
  BY DEF FreshTransactions, Load, Filters
<1>2. txs \in Page
  <2>1. "expense" \in Types /\ "all" \in Filters
    BY DEF Types, Filters
  <2>2. <<ld>> \in Seq(Load)
    BY <1>1
  <2> QED
    BY <2>1, <2>2 DEF FreshTransactions, Page
<1>3. ListInv(txs)
  BY <1>1 DEF FreshTransactions, ListInv, AloneInFlight, DrawnFits, Fits
<1>4. FormInv(txs) /\ DeletesSomething(txs)
  BY DEF FreshTransactions, FormInv, DeletesSomething
<1> QED
  BY <1>2, <1>3, <1>4 DEF PageInv

(* A load is started: the others are no longer alone.  One that adds to    *)
(* what is drawn needs what is drawn to fit.                               *)
LEMMA Loading ==
  ASSUME NEW s \in Page, NEW filter \in Filters, NEW page \in Nat, NEW append \in BOOLEAN,
         append => ListInv(s)
  PROVE  LET t == load(s, filter, page, append)
         IN t \in Page /\ ListInv(t) /\ SameForm(s, t) /\ SameDeletion(s, t)
<1> DEFINE t == load(s, filter, page, append)
           before == [i \in DOMAIN s.loads |-> [s.loads[i] EXCEPT !.alone = FALSE]]
           ld == [filter |-> filter, page |-> page, append |-> append,
                  alone |-> s.loads = <<>> /\ filter = s.filter]
<1>1. s.loads \in Seq(Load)
  BY DEF Page
<1>2. before \in Seq(Load) /\ Len(before) = Len(s.loads)
  <2>1. \A i \in DOMAIN s.loads : [s.loads[i] EXCEPT !.alone = FALSE] \in Load
    <3> SUFFICES ASSUME NEW i \in DOMAIN s.loads
                 PROVE  [s.loads[i] EXCEPT !.alone = FALSE] \in Load
      OBVIOUS
    <3>1. s.loads[i] \in Load
      BY <1>1
    <3> QED
      BY <3>1 DEF Load
  <2>2. DOMAIN s.loads = 1..Len(s.loads) /\ Len(s.loads) \in Nat
    BY <1>1
  <2>3. before \in [1..Len(s.loads) -> Load]
    BY <2>1, <2>2
  <2> HIDE DEF before
  <2> QED
    BY <2>2, <2>3, SeqDef
<1>3. \A i \in DOMAIN before : ~before[i].alone
  <2> SUFFICES ASSUME NEW i \in DOMAIN s.loads PROVE ~[s.loads[i] EXCEPT !.alone = FALSE].alone
    OBVIOUS
  <2>1. s.loads[i] \in Load
    BY <1>1
  <2> QED
    BY <2>1 DEF Load
<1>4. ld \in Load
  BY DEF Load
<1> HIDE DEF before, ld
<1>5. t.loads = Append(before, ld)
  BY DEF load, Page, before, ld
<1>6. t.loads \in Seq(Load) /\ Len(t.loads) = Len(s.loads) + 1
  BY <1>2, <1>4, <1>5, Appended
<1>7. t \in Page
  <2>1. PICK more \in BOOLEAN : more = (page # 0)
    OBVIOUS
  <2>2. t = [s EXCEPT !.loads = t.loads, !.loadingMore = more, !.error = FALSE]
    BY <1>5, <2>1 DEF load, Page, before, ld
  <2> HIDE DEF t
  <2> QED
    BY <1>6, <2>2 DEF Page
<1>8. SameForm(s, t) /\ SameDeletion(s, t)
  BY DEF load, Page, SameForm, SameDeletion
<1>9. t.filter = s.filter /\ t.items = s.items /\ t.mixed = s.mixed
  BY DEF load, Page
<1>10. ASSUME NEW i \in DOMAIN t.loads, t.loads[i].alone
       PROVE  /\ t.loads[i] = ld /\ s.loads = <<>> /\ filter = s.filter
              /\ Len(t.loads) = 1 /\ t.loads[i].filter = t.filter
              /\ t.loads[i].append = append
  <2>1. t.loads[i] = ld
    BY <1>2, <1>3, <1>4, <1>5, <1>10, Appended
  <2>2. s.loads = <<>> /\ filter = s.filter
    <3>1. ld.alone
      BY <1>10, <2>1
    <3>2. ld.alone <=> s.loads = <<>> /\ filter = s.filter
      BY DEF ld
    <3> QED
      BY <3>1, <3>2
  <2>3. Len(t.loads) = 1
    BY <1>6, <2>2
  <2> QED
    BY <1>9, <2>1, <2>2, <2>3 DEF ld
<1>11. AloneInFlight(t)
  BY <1>10 DEF AloneInFlight
<1>12. DrawnFits(t)
  <2> SUFFICES ASSUME ~t.mixed,
                      t.loads = <<>> \/ \E i \in DOMAIN t.loads :
                                          t.loads[i].alone /\ t.loads[i].append
               PROVE  Fits(t)
    BY DEF DrawnFits
  <2>1. t.loads # <<>>
    BY <1>1, <1>6
  <2>2. append /\ s.loads = <<>>
    BY <1>10, <2>1
  <2>3. Fits(s)
    BY <1>9, <2>2 DEF ListInv, DrawnFits
  <2> QED
    BY <1>9, <2>3 DEF Fits
<1> HIDE DEF t
<1> QED
  BY <1>7, <1>8, <1>11, <1>12 DEF ListInv, t

(* What a load answers are rows, of its filter when the server answers.    *)
LEMMA Answer ==
  ASSUME txs \in Page, NEW ld \in Load, NEW online \in BOOLEAN
  PROVE  LET res == fetchTransactions(ld, online)
         IN /\ res.items \in SUBSET Row /\ res.hasMore \in BOOLEAN
            /\ online => \A row \in res.items : Matches(ld.filter, row.type)
<1> DEFINE found == {i \in Ids : /\ txs.rows[i] # "none"
                                 /\ online => Matches(ld.filter, txs.rows[i])}
           from == ld.page * PAGE_SIZE
           until == from + PAGE_SIZE
           Newer(i) == Cardinality({j \in found : j > i})
           shown == {j \in found : from <= Newer(j) /\ Newer(j) < until}
           res == fetchTransactions(ld, online)
<1>1. /\ res.items = {[id |-> i, type |-> txs.rows[i]] : i \in shown}
      /\ res.hasMore = (until < Cardinality(found))
  BY DEF fetchTransactions
<1>2. \A i \in shown : i \in found
  OBVIOUS
<1>3. \A i \in found : i \in Ids /\ txs.rows[i] \in Types
  BY DEF Page
<1>4. online => \A i \in found : Matches(ld.filter, txs.rows[i])
  OBVIOUS
<1> HIDE DEF found, shown, res
<1> QED
  BY <1>1, <1>2, <1>3, <1>4 DEF Row, res

(* A load is done with: those that remain are not alone.                   *)
LEMMA Done ==
  ASSUME NEW s \in Page, AloneInFlight(s), NEW i \in DOMAIN s.loads,
         NEW t, t.loads = RemoveAt(s.loads, i)
  PROVE  /\ t.loads \in Seq(Load) /\ AloneInFlight(t)
         /\ \A k \in DOMAIN t.loads : ~t.loads[k].alone
<1>1. s.loads \in Seq(Load)
  BY DEF Page
<1>2. /\ t.loads \in Seq(Load) /\ Len(t.loads) = Len(s.loads) - 1
      /\ \A k \in DOMAIN t.loads : t.loads[k] = s.loads[IF k < i THEN k ELSE k + 1]
  BY <1>1, Removed
<1>3. ASSUME NEW k \in DOMAIN t.loads, t.loads[k].alone
      PROVE  FALSE
  <2>1. PICK j : j = IF k < i THEN k ELSE k + 1
    OBVIOUS
  <2>2. j \in DOMAIN s.loads /\ Len(t.loads) >= 1
    BY <1>1, <1>2, <2>1
  <2>3. s.loads[j].alone
    BY <1>2, <1>3, <2>1
  <2>4. Len(s.loads) = 1
    BY <2>2, <2>3 DEF AloneInFlight
  <2> QED
    BY <1>1, <1>2, <2>2, <2>4
<1> QED
  BY <1>2, <1>3 DEF AloneInFlight

(* The form is drawn anew: it is reset, or it is the one that was drawn.   *)
LEMMA Drawing ==
  ASSUME NEW s \in Page, FormInv(txs), s.save = txs.save, s.retyped = txs.retyped,
         s.type = txs.type, s.asked = txs.asked
  PROVE  LET t == Drawn(s) IN t \in Page /\ SameList(s, t) /\ SameDeletion(s, t) /\ FormInv(t)
<1> DEFINE t == Drawn(s)
           same == <<s.open, s.editing, s.formType>> = <<txs.open, txs.editing, txs.formType>>
<1>1. CASE s.open /\ ~same
  <2>1. PICK type : type = IF s.editing # None /\ s.editing.type = "income" THEN "income"
                                                                        ELSE s.formType
    OBVIOUS
  <2>2. t = [s EXCEPT !.type = type, !.saving = FALSE, !.asked = FALSE]
    BY <1>1, <2>1 DEF Drawn, Reset
  <2>3. type \in Types
    BY <2>1 DEF Page, Types
  <2>4. t \in Page
    BY <2>2, <2>3 DEF Page
  <2>5. SameList(s, t) /\ SameDeletion(s, t)
    BY <2>2 DEF Page, SameList, SameDeletion
  <2>6. /\ t.type = type /\ t.editing = s.editing /\ t.formType = s.formType
        /\ t.save = txs.save /\ t.retyped = txs.retyped
    BY <2>2 DEF Page
  <2>7. ASSUME t.editing # None, t.formType # "income"
        PROVE  t.type = t.editing.type
    <3>1. s.editing \in Row /\ s.formType \in Types
      BY <2>6, <2>7 DEF Page
    <3> QED
      BY <2>1, <2>6, <2>7, <3>1 DEF Row, Types
  <2> HIDE DEF t
  <2>8. FormInv(t)
    BY <2>6, <2>7 DEF FormInv
  <2> QED
    BY <2>4, <2>5, <2>8 DEF t
<1>2. CASE ~(s.open /\ ~same)
  <2>1. t = s
    BY <1>2 DEF Drawn
  <2>2. FormInv(s)
    BY <1>2 DEF FormInv
  <2> QED
    BY <2>1, <2>2 DEF SameList, SameDeletion
<1> QED
  BY <1>1, <1>2

(* A step that leaves the lists, the form or the deletion alone.           *)
LEMMA Elsewhere ==
  ASSUME NEW s, PageInv(s), NEW t \in Page,
         SameList(s, t) \/ ListInv(t), SameForm(s, t) \/ FormInv(t),
         SameDeletion(s, t) \/ DeletesSomething(t)
  PROVE  PageInv(t)
BY ListUndisturbed, FormUndisturbed DEF PageInv, SameDeletion, DeletesSomething

(* The list's own steps.                                                   *)
LEMMA ListStep ==
  ASSUME PageInv(txs),
         \/ \E f \in Filters : ChangeFilter(f)
         \/ LoadMore
         \/ \E i \in DOMAIN txs.loads : Deliver(i, TRUE) \/ Deliver(i, FALSE) \/ LoadFails(i)
  PROVE  PageInv(txs')
<1> txs \in Page /\ ListInv(txs) /\ FormInv(txs) /\ DeletesSomething(txs)
  BY DEF PageInv
<1>1. ASSUME NEW f \in Filters, ChangeFilter(f) PROVE PageInv(txs')
  <2> DEFINE s == [txs EXCEPT !.filter = f]
  <2>1. s \in Page /\ SameForm(txs, s) /\ SameDeletion(txs, s)
    BY DEF Page, SameForm, SameDeletion
  <2>2. txs' = load(s, f, 0, FALSE)
    BY <1>1 DEF ChangeFilter
  <2> HIDE DEF s
  <2>3. txs' \in Page /\ ListInv(txs') /\ SameForm(s, txs') /\ SameDeletion(s, txs')
    BY <2>1, <2>2, Loading
  <2>4. SameForm(txs, txs') /\ SameDeletion(txs, txs')
    BY <2>1, <2>3 DEF SameForm, SameDeletion
  <2> QED
    BY <2>3, <2>4, Elsewhere
<1>2. ASSUME LoadMore PROVE PageInv(txs')
  <2>1. txs.filter \in Filters /\ txs.page + 1 \in Nat
    BY DEF Page
  <2>2. txs' = load(txs, txs.filter, txs.page + 1, TRUE)
    BY <1>2 DEF LoadMore
  <2> QED
    BY <2>1, <2>2, Loading, Elsewhere
<1>3. ASSUME NEW i \in DOMAIN txs.loads, NEW online \in BOOLEAN, Deliver(i, online)
      PROVE  PageInv(txs')
  <2> DEFINE ld == txs.loads[i]
             res == fetchTransactions(ld, online)
  <2>1. ld \in Load
    BY DEF Page
  <2>2. /\ res.items \in SUBSET Row /\ res.hasMore \in BOOLEAN
        /\ online => \A row \in res.items : Matches(ld.filter, row.type)
    BY <2>1, Answer
  <2>3. PICK items, mixed :
          /\ items = IF ld.append THEN txs.items \cup res.items ELSE res.items
          /\ mixed = IF ld.alone /\ online THEN ld.append /\ txs.mixed ELSE TRUE
    OBVIOUS
  <2>4. txs' = [txs EXCEPT !.items = items, !.page = ld.page, !.hasMore = res.hasMore,
                           !.loadingMore = FALSE, !.loads = RemoveAt(txs.loads, i),
                           !.mixed = mixed]
    BY <1>3, <2>3 DEF Deliver
  <2> HIDE DEF res, ld
  <2>5. items \in SUBSET Row
    BY <2>2, <2>3 DEF Page
  <2>6. mixed \in BOOLEAN
    BY <2>1, <2>3 DEF Page, Load
  <2>7. txs'.loads = RemoveAt(txs.loads, i)
    BY <2>4 DEF Page
  <2>8. /\ txs'.loads \in Seq(Load) /\ AloneInFlight(txs')
        /\ \A k \in DOMAIN txs'.loads : ~txs'.loads[k].alone
    BY <2>7, Done DEF ListInv
  <2>9. txs' \in Page
    <3>1. ld.page \in Nat
      BY <2>1 DEF Load
    <3> QED
      BY <2>2, <2>4, <2>5, <2>6, <2>7, <2>8, <3>1 DEF Page
  <2>10. txs'.items = items /\ txs'.mixed = mixed /\ txs'.filter = txs.filter
    BY <2>4 DEF Page
  <2>11. SameForm(txs, txs') /\ SameDeletion(txs, txs')
    BY <2>4 DEF Page, SameForm, SameDeletion
  <2>12. DrawnFits(txs')
    <3> SUFFICES ASSUME ~mixed PROVE Fits(txs')
      BY <2>10 DEF DrawnFits
    <3>1. ld.alone /\ online /\ (ld.append => ~txs.mixed)
      BY <2>3
    <3>2. ld.filter = txs.filter
      BY <3>1 DEF ListInv, AloneInFlight, ld
    <3>3. ld.append => Fits(txs)
      BY <3>1 DEF ListInv, DrawnFits, ld
    <3>4. \A row \in res.items : Matches(txs.filter, row.type)
      BY <2>2, <3>1, <3>2
    <3>5. CASE ld.append
      BY <2>3, <2>10, <3>3, <3>4, <3>5 DEF Fits
    <3>6. CASE ~ld.append
      BY <2>3, <2>10, <3>4, <3>6 DEF Fits
    <3> QED
      BY <3>5, <3>6
  <2> QED
    BY <2>8, <2>9, <2>11, <2>12, Elsewhere DEF ListInv
<1>4. ASSUME NEW i \in DOMAIN txs.loads, LoadFails(i) PROVE PageInv(txs')
  <2>1. txs'.loads = RemoveAt(txs.loads, i) /\ txs'.mixed = TRUE
    BY <1>4 DEF LoadFails, Page
  <2>2. txs'.loads \in Seq(Load) /\ AloneInFlight(txs')
    BY <2>1, Done DEF ListInv
  <2>3. txs' \in Page
    BY <1>4, <2>1, <2>2 DEF LoadFails, Page
  <2>4. SameForm(txs, txs') /\ SameDeletion(txs, txs')
    BY <1>4 DEF LoadFails, Page, SameForm, SameDeletion
  <2>5. DrawnFits(txs')
    BY <2>1 DEF DrawnFits
  <2> QED
    BY <2>2, <2>3, <2>4, <2>5, Elsewhere DEF ListInv
<1> QED
  BY <1>1, <1>2, <1>3, <1>4

(* The form is opened: for a new transaction, or for one of the list.      *)
LEMMA OpenStep ==
  ASSUME PageInv(txs),
         \/ \E t \in Types : QuickAdd(t)
         \/ OpenCreate
         \/ \E row \in txs.items : OpenEdit(row)
  PROVE  PageInv(txs')
<1> txs \in Page /\ ListInv(txs) /\ FormInv(txs) /\ DeletesSomething(txs)
  BY DEF PageInv
<1>1. ASSUME NEW type \in Types,
             txs' = Drawn([txs EXCEPT !.editing = None, !.formType = type, !.open = TRUE])
      PROVE  PageInv(txs')
  <2> DEFINE s == [txs EXCEPT !.editing = None, !.formType = type, !.open = TRUE]
  <2>1. s \in Page
    BY DEF Page
  <2>2. /\ SameList(txs, s) /\ SameDeletion(txs, s) /\ s.save = txs.save
        /\ s.retyped = txs.retyped /\ s.type = txs.type /\ s.asked = txs.asked
    BY DEF Page, SameList, SameDeletion
  <2> HIDE DEF s
  <2>3. txs' \in Page /\ SameList(s, txs') /\ SameDeletion(s, txs') /\ FormInv(txs')
    BY <1>1, <2>1, <2>2, Drawing DEF s
  <2>4. SameList(txs, txs') /\ SameDeletion(txs, txs')
    BY <2>2, <2>3 DEF SameList, SameDeletion
  <2> QED
    BY <2>3, <2>4, Elsewhere
<1>2. ASSUME NEW row \in txs.items, txs' = Drawn([txs EXCEPT !.editing = row, !.open = TRUE])
      PROVE  PageInv(txs')
  <2> DEFINE s == [txs EXCEPT !.editing = row, !.open = TRUE]
  <2>1. s \in Page
    BY DEF Page
  <2>2. /\ SameList(txs, s) /\ SameDeletion(txs, s) /\ s.save = txs.save
        /\ s.retyped = txs.retyped /\ s.type = txs.type /\ s.asked = txs.asked
    BY DEF Page, SameList, SameDeletion
  <2> HIDE DEF s
  <2>3. txs' \in Page /\ SameList(s, txs') /\ SameDeletion(s, txs') /\ FormInv(txs')
    BY <1>2, <2>1, <2>2, Drawing DEF s
  <2>4. SameList(txs, txs') /\ SameDeletion(txs, txs')
    BY <2>2, <2>3 DEF SameList, SameDeletion
  <2> QED
    BY <2>3, <2>4, Elsewhere
<1>3. "expense" \in Types
  BY DEF Types
<1> QED
  BY <1>1, <1>2, <1>3 DEF QuickAdd, OpenCreate, OpenEdit

(* The form is closed, filled in, and its save started and refused.        *)
LEMMA FormStep ==
  ASSUME PageInv(txs),
         \/ CloseForm \/ Lookup \/ Submit \/ SaveFails
         \/ \E t \in Types : Toggle(t)
         \/ \E t \in Types \cup {"none"} : findPreviousTransaction(t)
  PROVE  PageInv(txs')
<1> txs \in Page /\ ListInv(txs) /\ FormInv(txs) /\ DeletesSomething(txs)
  BY DEF PageInv
<1>1. ASSUME CloseForm PROVE PageInv(txs')
  <2>1. txs' \in Page
    <3>1. txs' = [txs EXCEPT !.open = FALSE, !.editing = None, !.type = "expense",
                             !.asked = FALSE]
      BY <1>1 DEF CloseForm, Closed
    <3>2. "expense" \in Types
      BY DEF Types
    <3> QED
      BY <3>1, <3>2 DEF Page
  <2>2. SameList(txs, txs') /\ SameDeletion(txs, txs')
    BY <1>1 DEF CloseForm, Closed, Page, SameList, SameDeletion
  <2>3. FormInv(txs')
    BY <1>1 DEF CloseForm, Closed, Page, FormInv
  <2> QED
    BY <2>1, <2>2, <2>3, Elsewhere
<1>2. ASSUME Lookup PROVE PageInv(txs')
  <2>1. txs' = [txs EXCEPT !.lookups = 1]
    BY <1>2 DEF Lookup
  <2> QED
    BY <2>1, Elsewhere DEF Page, SameList, SameForm, SameDeletion
<1>3. ASSUME NEW type \in Types, Toggle(type) PROVE PageInv(txs')
  <2>1. txs' = [txs EXCEPT !.type = type, !.asked = TRUE]
    BY <1>3 DEF Toggle
  <2>2. txs' \in Page
    BY <2>1 DEF Page
  <2>3. SameList(txs, txs') /\ SameDeletion(txs, txs')
    BY <2>1 DEF Page, SameList, SameDeletion
  <2>4. FormInv(txs')
    BY <2>1 DEF Page, FormInv
  <2> QED
    BY <2>2, <2>3, <2>4, Elsewhere
<1>4. ASSUME NEW found \in Types \cup {"none"}, findPreviousTransaction(found)
      PROVE  PageInv(txs')
  <2>1. PICK type, asked :
          /\ type = IF found = "none" \/ ~txs.open THEN txs.type ELSE found
          /\ asked = (txs.asked \/ (txs.open /\ found # "none"))
    OBVIOUS
  <2>2. txs' = [txs EXCEPT !.lookups = 0, !.type = type, !.asked = asked]
    BY <1>4, <2>1 DEF findPreviousTransaction
  <2>3. type \in Types
    BY <2>1 DEF Page
  <2>4. asked \in BOOLEAN
    BY <2>1
  <2>5. txs' \in Page
    BY <2>2, <2>3, <2>4 DEF Page
  <2>6. SameList(txs, txs') /\ SameDeletion(txs, txs')
    BY <2>2 DEF Page, SameList, SameDeletion
  <2>7. FormInv(txs')
    <3>1. /\ txs'.open = txs.open /\ txs'.editing = txs.editing /\ txs'.save = txs.save
          /\ txs'.formType = txs.formType /\ txs'.retyped = txs.retyped
          /\ txs'.type = type /\ txs'.asked = asked
      BY <2>2 DEF Page
    <3>2. txs.open /\ ~asked => type = txs.type /\ ~txs.asked
      BY <2>1
    <3> QED
      BY <3>1, <3>2 DEF FormInv
  <2> QED
    BY <2>5, <2>6, <2>7, Elsewhere
<1>5. ASSUME Submit PROVE PageInv(txs')
  <2>1. PICK asked \in BOOLEAN : asked = (txs.asked \/ txs.formType = "income")
    BY DEF Page
  <2> DEFINE save == [editing |-> txs.editing, type |-> txs.type, filter |-> txs.filter,
                      asked |-> asked]
  <2>2. txs' = [txs EXCEPT !.saving = TRUE, !.save = save]
    BY <1>5, <2>1 DEF Submit
  <2>3. save \in Save
    BY <2>1 DEF Page, Save
  <2>4. /\ save.editing = txs.editing /\ save.type = txs.type /\ save.asked = asked
    OBVIOUS
  <2> HIDE DEF save
  <2>5. txs' \in Page
    BY <2>2, <2>3 DEF Page
  <2>6. SameList(txs, txs') /\ SameDeletion(txs, txs')
    BY <2>2 DEF Page, SameList, SameDeletion
  <2>7. FormInv(txs')
    <3>1. /\ txs'.open = txs.open /\ txs'.editing = txs.editing /\ txs'.save = save
          /\ txs'.formType = txs.formType /\ txs'.retyped = txs.retyped
          /\ txs'.type = txs.type /\ txs'.asked = txs.asked
      BY <2>2 DEF Page
    <3>2. txs.open
      BY <1>5 DEF Submit
    <3> QED
      BY <2>1, <2>4, <3>1, <3>2 DEF FormInv
  <2> QED
    BY <2>5, <2>6, <2>7, Elsewhere
<1>6. ASSUME SaveFails PROVE PageInv(txs')
  <2>1. txs' = [txs EXCEPT !.save = None, !.saving = FALSE]
    BY <1>6 DEF SaveFails
  <2>2. txs' \in Page
    BY <2>1 DEF Page
  <2>3. SameList(txs, txs') /\ SameDeletion(txs, txs')
    BY <2>1 DEF Page, SameList, SameDeletion
  <2>4. FormInv(txs')
    BY <2>1 DEF Page, FormInv
  <2> QED
    BY <2>2, <2>3, <2>4, Elsewhere
<1> QED
  BY <1>1, <1>2, <1>3, <1>4, <1>5, <1>6

(* What a save sets before it loads the list again.                        *)
LEMMA SaveSets ==
  ASSUME PageInv(txs), txs.save # None, NEW id \in Ids
  PROVE  LET s == Saved(txs, id) IN s \in Page /\ SameDeletion(txs, s) /\ FormInv(s)
<1> txs \in Page /\ FormInv(txs)
  BY DEF PageInv
<1> DEFINE s == Saved(txs, id)
<1>1. PICK rows : rows = [txs.rows EXCEPT ![id] = txs.save.type]
  OBVIOUS
<1>2. s = [txs EXCEPT !.rows = rows, !.save = None, !.saving = FALSE, !.open = FALSE,
                      !.editing = None, !.type = "expense", !.asked = FALSE]
  BY <1>1 DEF Saved, Closed, Page
<1>3. rows \in [Ids -> Types \cup {"none"}] /\ "expense" \in Types
  BY <1>1 DEF Page, Save, Types
<1>4. s \in Page
  BY <1>2, <1>3 DEF Page
<1>5. SameDeletion(txs, s) /\ FormInv(s)
  BY <1>2 DEF Page, SameDeletion, FormInv
<1> QED
  BY <1>4, <1>5

(* A save ends.  An edit saved by a form nobody asked for another type     *)
(* finds its transaction with the type it had, or with that of a later one.*)
LEMMA SaveStep ==
  ASSUME PageInv(txs), SaveEnds
  PROVE  PageInv(txs')
<1> txs \in Page /\ ListInv(txs) /\ FormInv(txs) /\ DeletesSomething(txs)
  BY DEF PageInv
<1>1. txs.save # None /\ txs.save \in Save
  BY DEF SaveEnds, Page
<1>2. ASSUME NEW id \in Ids, NEW t, t = refreshAll(Saved(txs, id), txs.save.filter)
      PROVE  t \in Page /\ PageInv(t)
  <2>1. Saved(txs, id) \in Page /\ SameDeletion(txs, Saved(txs, id)) /\ FormInv(Saved(txs, id))
    BY <1>1, SaveSets
  <2>2. txs.save.filter \in Filters
    BY <1>1 DEF Save
  <2>3. /\ t \in Page /\ ListInv(t) /\ SameForm(Saved(txs, id), t)
        /\ SameDeletion(Saved(txs, id), t)
    BY <1>2, <2>1, <2>2, Loading DEF refreshAll
  <2>4. FormInv(t)
    BY <2>1, <2>3, FormUndisturbed
  <2>5. DeletesSomething(t)
    BY <2>1, <2>3 DEF SameDeletion, DeletesSomething
  <2> QED
    BY <2>3, <2>4, <2>5 DEF PageInv
<1>3. CASE \E id \in Unused : txs' = refreshAll(Saved(txs, id), txs.save.filter)
  BY <1>2, <1>3 DEF Unused
<1>4. CASE txs.save.editing # None
  <2> DEFINE id == txs.save.editing.id
             t == refreshAll(Saved(txs, id), txs.save.filter)
  <2>1. id \in Ids /\ txs.save.editing \in Row
    BY <1>1, <1>4 DEF Save, Row
  <2>2. t \in Page /\ PageInv(t)
    BY <1>2, <2>1
  <2>3. ~(/\ txs.rows[id] = txs.save.editing.type
          /\ txs.save.type # txs.rows[id] /\ ~txs.save.asked)
    BY <1>1, <1>4 DEF FormInv
  <2>4. txs' = [t EXCEPT !.retyped = t.retyped]
    BY <1>4, <2>3 DEF SaveEnds
  <2> HIDE DEF t
  <2>5. txs' = t
    BY <2>2, <2>4 DEF Page
  <2> QED
    BY <2>2, <2>5
<1> QED
  BY <1>3, <1>4 DEF SaveEnds

(* A deletion is asked for, given up or ends; it is undone, or not.        *)
LEMMA DeletionStep ==
  ASSUME PageInv(txs),
         \/ \E row \in txs.items : AskDelete(row)
         \/ CancelDelete \/ ConfirmDelete \/ DeleteEnds \/ DeleteFails \/ ToastGone
         \/ \E id \in Ids : Undo(id)
  PROVE  PageInv(txs')
<1> txs \in Page /\ ListInv(txs) /\ FormInv(txs) /\ DeletesSomething(txs)
  BY DEF PageInv
<1>1. ASSUME NEW row \in txs.items, AskDelete(row) PROVE PageInv(txs')
  <2>1. txs' = [txs EXCEPT !.doomed = row]
    BY <1>1 DEF AskDelete
  <2>2. txs' \in Page
    BY <2>1 DEF Page
  <2>3. SameList(txs, txs') /\ SameForm(txs, txs')
    BY <2>1 DEF Page, SameList, SameForm
  <2>4. DeletesSomething(txs')
    <3>1. txs.doomed = None /\ txs'.deleting = txs.deleting
      BY <1>1 DEF AskDelete, Modal, Page
    <3> QED
      BY <3>1 DEF DeletesSomething
  <2> QED
    BY <2>2, <2>3, <2>4, Elsewhere
<1>2. ASSUME CancelDelete PROVE PageInv(txs')
  <2>1. txs' = [txs EXCEPT !.doomed = None] /\ ~txs.deleting
    BY <1>2 DEF CancelDelete
  <2>2. txs' \in Page
    BY <2>1 DEF Page
  <2>3. SameList(txs, txs') /\ SameForm(txs, txs')
    BY <2>1 DEF Page, SameList, SameForm
  <2>4. DeletesSomething(txs')
    BY <2>1 DEF Page, DeletesSomething
  <2> QED
    BY <2>2, <2>3, <2>4, Elsewhere
<1>3. ASSUME ConfirmDelete PROVE PageInv(txs')
  <2>1. txs' = [txs EXCEPT !.deleting = TRUE] /\ txs.doomed # None
    BY <1>3 DEF ConfirmDelete
  <2>2. txs' \in Page
    BY <2>1 DEF Page
  <2>3. SameList(txs, txs') /\ SameForm(txs, txs')
    BY <2>1 DEF Page, SameList, SameForm
  <2>4. DeletesSomething(txs')
    BY <2>1 DEF Page, DeletesSomething
  <2> QED
    BY <2>2, <2>3, <2>4, Elsewhere
<1>4. ASSUME DeleteEnds PROVE PageInv(txs')
  <2>1. txs.doomed \in Row
    BY <1>4 DEF DeleteEnds, DeletesSomething, Page
  <2> DEFINE undo == [id |-> txs.doomed.id, type |-> txs.doomed.type, filter |-> txs.filter]
             rows == [txs.rows EXCEPT ![txs.doomed.id] = "none"]
             s == [txs EXCEPT !.rows = rows, !.deleting = FALSE, !.doomed = None, !.undo = undo]
  <2>2. undo \in Deletion /\ rows \in [Ids -> Types \cup {"none"}]
    BY <2>1 DEF Deletion, Row, Page
  <2>3. txs' = load(s, txs.filter, 0, FALSE)
    BY <1>4 DEF DeleteEnds, refreshAll, Page
  <2> HIDE DEF undo, rows
  <2>4. s \in Page
    BY <2>2 DEF Page
  <2>5. SameForm(txs, s) /\ DeletesSomething(s)
    BY DEF Page, SameForm, DeletesSomething
  <2>6. txs.filter \in Filters
    BY DEF Page
  <2> HIDE DEF s
  <2>7. txs' \in Page /\ ListInv(txs') /\ SameForm(s, txs') /\ SameDeletion(s, txs')
    BY <2>3, <2>4, <2>6, Loading
  <2>8. SameForm(txs, txs') /\ DeletesSomething(txs')
    BY <2>5, <2>7 DEF SameForm, SameDeletion, DeletesSomething
  <2> QED
    BY <2>7, <2>8, Elsewhere
<1>5. ASSUME DeleteFails PROVE PageInv(txs')
  <2>1. txs' = [txs EXCEPT !.deleting = FALSE, !.doomed = None]
    BY <1>5 DEF DeleteFails
  <2>2. txs' \in Page
    BY <2>1 DEF Page
  <2>3. SameList(txs, txs') /\ SameForm(txs, txs')
    BY <2>1 DEF Page, SameList, SameForm
  <2>4. DeletesSomething(txs')
    BY <2>1 DEF Page, DeletesSomething
  <2> QED
    BY <2>2, <2>3, <2>4, Elsewhere
<1>6. ASSUME ToastGone PROVE PageInv(txs')
  <2>1. txs' = [txs EXCEPT !.undo = None]
    BY <1>6 DEF ToastGone
  <2> QED
    BY <2>1, Elsewhere DEF Page, SameList, SameForm, SameDeletion
<1>7. ASSUME NEW id \in Ids, Undo(id) PROVE PageInv(txs')
  <2>1. txs.undo \in Deletion
    BY <1>7 DEF Undo, Page
  <2> DEFINE rows == [txs.rows EXCEPT ![id] = txs.undo.type]
             s == [txs EXCEPT !.rows = rows, !.undo = None]
  <2>2. rows \in [Ids -> Types \cup {"none"}]
    BY <2>1 DEF Deletion, Page
  <2>3. txs' = load(s, txs.undo.filter, 0, FALSE)
    BY <1>7 DEF Undo, refreshAll, Page
  <2> HIDE DEF rows
  <2>4. s \in Page
    BY <2>2 DEF Page
  <2>5. SameForm(txs, s) /\ SameDeletion(txs, s)
    BY DEF Page, SameForm, SameDeletion
  <2>6. txs.undo.filter \in Filters
    BY <2>1 DEF Deletion
  <2> HIDE DEF s
  <2>7. txs' \in Page /\ ListInv(txs') /\ SameForm(s, txs') /\ SameDeletion(s, txs')
    BY <2>3, <2>4, <2>6, Loading
  <2>8. SameForm(txs, txs') /\ SameDeletion(txs, txs')
    BY <2>5, <2>7 DEF SameForm, SameDeletion
  <2> QED
    BY <2>7, <2>8, Elsewhere
<1> QED
  BY <1>1, <1>2, <1>3, <1>4, <1>5, <1>6, <1>7

(* Every step keeps the invariant.                                         *)
LEMMA NextPageInv == PageInv(txs) /\ TransactionsNext => PageInv(txs')
BY ListStep, OpenStep, FormStep, SaveStep, DeletionStep DEF TransactionsNext

(* What the two properties ask of the page follows from its invariant.     *)
LEMMA PageInvShows == PageInv(txs) => ListMatchesFilter /\ EditKeepsType
BY DEF PageInv, ListInv, DrawnFits, Fits, FormInv, ListMatchesFilter, EditKeepsType
-----------------------------------------------------------------------------
(***************************************************************************)
(* The bills drawn beside a card are its own and hold its changes, for any *)
(* cards, any number of changes and of loads.  What no other load overtook *)
(* started after the last change the page was told of, or a handler is yet *)
(* to start the load that will replace it; and a handler's load is the one *)
(* load it waits for, so none is taken for done by the answer to another.  *)
(***************************************************************************)

CardBill == [bill : {"none", "open", "paid"}, changes : Nat]
BillLoad == [card : Cards, since : Nat, by : Dialogs \cup {None}, alone : BOOLEAN]
Handler == [card : Cards, at : {"save", "list", "bills"}, ids : SUBSET Cards]
Seen == [card : Cards, changes : Nat]

CardsState ==
  [server : [Cards -> CardBill], listed : [Cards -> CardBill] \cup {None},
   sel : Cards \cup {None}, bills : Seen \cup {None}, billsLoading : BOOLEAN,
   loads : Seq(BillLoad), dialog : Dialogs \cup {None},
   tasks : [Dialogs -> Handler \cup {None}], items : Cards \cup {None},
   checked : SUBSET Cards, lookups : SUBSET Cards, acked : [Cards -> Nat], mixed : BOOLEAN]

(* A dialog is of the selected card, the page was told of no more changes  *)
(* than there are, and no load knows of later ones.                        *)
Told(s) ==
  /\ s.dialog # None => s.sel # None
  /\ \A c \in Cards : s.acked[c] <= s.server[c].changes
  /\ \A i \in DOMAIN s.loads : s.loads[i].since <= s.server[s.loads[i].card].changes

(* Each load a handler waits for is its only one.                          *)
Waiting(s) ==
  /\ \A i \in DOMAIN s.loads : s.loads[i].by # None =>
       s.tasks[s.loads[i].by] # None /\ s.tasks[s.loads[i].by].at = "bills"
  /\ \A i, j \in DOMAIN s.loads : s.loads[i].by # None /\ s.loads[i].by = s.loads[j].by => i = j

(* A handler is about to load the bills again.                             *)
WillLoad(s) == \E d \in Dialogs : s.tasks[d] # None /\ s.tasks[d].at = "list"

NotLate(s, n) == n >= s.acked[s.sel] \/ WillLoad(s)

LoadsAlone(s) ==
  \A i \in DOMAIN s.loads : s.loads[i].alone =>
    /\ Len(s.loads) = 1 /\ s.sel \in Cards /\ s.loads[i].card = s.sel
    /\ NotLate(s, s.loads[i].since)

DrawnBills(s) ==
  ~s.billsLoading /\ s.bills # None /\ ~s.mixed =>
    s.sel \in Cards /\ s.bills.card = s.sel /\ NotLate(s, s.bills.changes)

CardsInv(s) == s \in CardsState /\ Told(s) /\ Waiting(s) /\ LoadsAlone(s) /\ DrawnBills(s)

(* The page opens with nothing loaded.                                     *)
LEMMA InitCardsInv == CardsInit => CardsInv(cp)
<1> SUFFICES ASSUME NEW b \in [Cards -> {"none", "open", "paid"}],
                    cp = FreshCards([c \in Cards |-> [bill |-> b[c], changes |-> 0]])
             PROVE  CardsInv(cp)
  BY DEF CardsInit, CardsFresh
<1> DEFINE server == [c \in Cards |-> [bill |-> b[c], changes |-> 0]]
<1>1. server \in [Cards -> CardBill] /\ \A c \in Cards : server[c].changes = 0
  BY DEF CardBill
<1> HIDE DEF server
<1>2. cp = FreshCards(server)
  BY DEF server
<1>3. cp \in CardsState
  BY <1>1, <1>2 DEF FreshCards, CardsState
<1>4. /\ cp.loads = <<>> /\ cp.bills = None /\ cp.dialog = None /\ cp.server = server
      /\ \A c \in Cards : cp.acked[c] = 0
  BY <1>2 DEF FreshCards
<1>5. Told(cp) /\ Waiting(cp) /\ LoadsAlone(cp) /\ DrawnBills(cp)
  BY <1>1, <1>4 DEF Told, Waiting, LoadsAlone, DrawnBills
<1> QED
  BY <1>3, <1>5 DEF CardsInv

(* A load is started, of a handler that waits for no other: from here on   *)
(* it alone may be taken for the bills of the selected card.               *)
LEMMA LoadingBills ==
  ASSUME NEW s \in CardsState, Told(s), Waiting(s), NEW card \in Cards,
         NEW by \in Dialogs \cup {None},
         by # None => /\ s.tasks[by] # None /\ s.tasks[by].at = "bills"
                      /\ \A i \in DOMAIN s.loads : s.loads[i].by # by
  PROVE  CardsInv(loadBills(s, card, by))
<1> DEFINE t == loadBills(s, card, by)
           before == [i \in DOMAIN s.loads |-> [s.loads[i] EXCEPT !.alone = FALSE]]
           ld == [card |-> card, since |-> s.server[card].changes, by |-> by,
                  alone |-> s.loads = <<>> /\ card = s.sel]
<1>1. s.loads \in Seq(BillLoad)
  BY DEF CardsState
<1>2. \A i \in DOMAIN s.loads :
        /\ [s.loads[i] EXCEPT !.alone = FALSE] \in BillLoad
        /\ [s.loads[i] EXCEPT !.alone = FALSE].alone = FALSE
        /\ [s.loads[i] EXCEPT !.alone = FALSE].by = s.loads[i].by
        /\ [s.loads[i] EXCEPT !.alone = FALSE].card = s.loads[i].card
        /\ [s.loads[i] EXCEPT !.alone = FALSE].since = s.loads[i].since
  <2> TAKE i \in DOMAIN s.loads
  <2>1. s.loads[i] \in BillLoad
    BY <1>1
  <2> QED
    BY <2>1 DEF BillLoad
<1>3. before \in Seq(BillLoad) /\ Len(before) = Len(s.loads)
  <2>1. DOMAIN s.loads = 1..Len(s.loads) /\ Len(s.loads) \in Nat
    BY <1>1
  <2>2. before \in [1..Len(s.loads) -> BillLoad]
    BY <1>2, <2>1
  <2> HIDE DEF before
  <2> QED
    BY <2>1, <2>2, SeqDef
<1>4. \A i \in DOMAIN before :
        /\ i \in DOMAIN s.loads /\ ~before[i].alone
        /\ before[i].by = s.loads[i].by /\ before[i].card = s.loads[i].card
        /\ before[i].since = s.loads[i].since
  BY <1>2
<1>5. s.server[card].changes \in Nat
  BY DEF CardsState, CardBill
<1>6. ld \in BillLoad
  BY <1>5 DEF BillLoad
<1>7. /\ ld.card = card /\ ld.since = s.server[card].changes /\ ld.by = by
      /\ ld.alone <=> s.loads = <<>> /\ card = s.sel
  OBVIOUS
<1> HIDE DEF before, ld
<1>8. t = [s EXCEPT !.billsLoading = TRUE, !.loads = Append(before, ld)]
  BY DEF loadBills, before, ld
<1>9. Append(before, ld) \in Seq(BillLoad) /\ Len(Append(before, ld)) = Len(s.loads) + 1
  BY <1>3, <1>6, Appended
<1> HIDE DEF t
<1>10. t \in CardsState
  BY <1>8, <1>9 DEF CardsState
<1>11. /\ t.server = s.server /\ t.sel = s.sel /\ t.dialog = s.dialog /\ t.tasks = s.tasks
       /\ t.acked = s.acked /\ t.billsLoading = TRUE /\ t.loads = Append(before, ld)
  BY <1>8 DEF CardsState
<1>12. \A k \in DOMAIN t.loads :
         \/ k \in DOMAIN before /\ t.loads[k] = before[k]
         \/ k = Len(before) + 1 /\ t.loads[k] = ld
  BY <1>3, <1>6, <1>11, Appended
<1>13. Told(t)
  <2>1. ASSUME NEW k \in DOMAIN t.loads
        PROVE  t.loads[k].since <= t.server[t.loads[k].card].changes
    <3>1. CASE k \in DOMAIN before /\ t.loads[k] = before[k]
      BY <1>4, <1>11, <3>1 DEF Told
    <3>2. CASE t.loads[k] = ld
      BY <1>5, <1>7, <1>11, <3>2
    <3> QED
      BY <1>12, <3>1, <3>2
  <2> QED
    BY <1>11, <2>1 DEF Told
<1>14. Waiting(t)
  <2>1. ASSUME NEW k \in DOMAIN t.loads, t.loads[k].by # None
        PROVE  t.tasks[t.loads[k].by] # None /\ t.tasks[t.loads[k].by].at = "bills"
    <3>1. CASE k \in DOMAIN before /\ t.loads[k] = before[k]
      BY <1>4, <1>11, <2>1, <3>1 DEF Waiting
    <3>2. CASE t.loads[k] = ld
      BY <1>7, <1>11, <2>1, <3>2
    <3> QED
      BY <1>12, <3>1, <3>2
  <2>2. ASSUME NEW k \in DOMAIN t.loads, NEW j \in DOMAIN t.loads,
               t.loads[k].by # None, t.loads[k].by = t.loads[j].by
        PROVE  k = j
    <3>1. CASE k \in DOMAIN before /\ t.loads[k] = before[k]
               /\ j \in DOMAIN before /\ t.loads[j] = before[j]
      BY <1>4, <2>2, <3>1 DEF Waiting
    <3>2. CASE k = Len(before) + 1 /\ j = Len(before) + 1
      BY <3>2
    <3>3. CASE k \in DOMAIN before /\ t.loads[k] = before[k] /\ t.loads[j] = ld
      BY <1>4, <1>7, <2>2, <3>3
    <3>4. CASE j \in DOMAIN before /\ t.loads[j] = before[j] /\ t.loads[k] = ld
      BY <1>4, <1>7, <2>2, <3>4
    <3> QED
      BY <1>12, <3>1, <3>2, <3>3, <3>4
  <2> QED
    BY <2>1, <2>2 DEF Waiting
<1>15. LoadsAlone(t)
  <2> SUFFICES ASSUME NEW k \in DOMAIN t.loads, t.loads[k].alone
               PROVE  /\ Len(t.loads) = 1 /\ t.sel \in Cards /\ t.loads[k].card = t.sel
                      /\ NotLate(t, t.loads[k].since)
    BY DEF LoadsAlone
  <2>1. t.loads[k] = ld
    BY <1>4, <1>12
  <2>2. s.loads = <<>> /\ card = s.sel
    BY <1>7, <2>1
  <2>3. Len(t.loads) = 1
    BY <1>9, <1>11, <2>2
  <2>4. s.acked[card] <= s.server[card].changes
    BY DEF Told
  <2>5. s.acked[card] \in Nat
    BY DEF CardsState
  <2>6. t.acked[t.sel] <= ld.since
    BY <1>7, <1>11, <2>2, <2>4
  <2>7. ld.since >= t.acked[t.sel]
    BY <1>5, <1>7, <1>11, <2>2, <2>5, <2>6
  <2> QED
    BY <1>7, <1>11, <2>1, <2>2, <2>3, <2>7 DEF NotLate
<1>16. DrawnBills(t)
  BY <1>11 DEF DrawnBills
<1> QED
  BY <1>10, <1>13, <1>14, <1>15, <1>16 DEF CardsInv, t

(* A load ends: the others remain, none alone, each still its handler's.   *)
LEMMA LoadOver ==
  ASSUME CardsInv(cp), NEW i \in DOMAIN cp.loads, BillsEnd(i)
  PROVE  CardsInv(cp')
<1> cp \in CardsState /\ Told(cp) /\ Waiting(cp) /\ LoadsAlone(cp) /\ DrawnBills(cp)
  BY DEF CardsInv
<1> DEFINE ld == cp.loads[i]
           left == RemoveAt(cp.loads, i)
           tasks == [d \in Dialogs |-> IF d = ld.by THEN None ELSE cp.tasks[d]]
           Over(bills, mixed) == [cp EXCEPT !.bills = bills, !.billsLoading = FALSE,
                                            !.loads = left, !.mixed = mixed, !.tasks = tasks]
<1>1. cp.loads \in Seq(BillLoad) /\ ld \in BillLoad
  BY DEF CardsState
<1>2. PICK mixed \in BOOLEAN : mixed = ~ld.alone
  OBVIOUS
<1>3. PICK bills : /\ cp' = Over(bills, mixed)
                   /\ \/ bills = None
                      \/ \E n \in ld.since .. cp.server[ld.card].changes :
                           bills = [card |-> ld.card, changes |-> n]
  <2>1. \/ cp' = Over(None, ~ld.alone)
        \/ \E n \in ld.since .. cp.server[ld.card].changes :
             cp' = Over([card |-> ld.card, changes |-> n], ~ld.alone)
    BY DEF BillsEnd, CardsState
  <2> HIDE DEF Over, ld
  <2> QED
    BY <1>2, <2>1
<1>4. bills # None => bills \in Seen /\ bills.card = ld.card /\ bills.changes >= ld.since
  <2> SUFFICES ASSUME NEW n \in ld.since .. cp.server[ld.card].changes,
                      bills = [card |-> ld.card, changes |-> n]
               PROVE  bills \in Seen /\ bills.card = ld.card /\ bills.changes >= ld.since
    BY <1>3
  <2>1. ld.since \in Nat /\ ld.card \in Cards
    BY <1>1 DEF BillLoad
  <2>2. cp.server[ld.card].changes \in Nat
    BY <2>1 DEF CardsState, CardBill
  <2>3. n \in Nat /\ n >= ld.since
    BY <2>1, <2>2
  <2> QED
    BY <2>1, <2>3 DEF Seen
<1>5. tasks \in [Dialogs -> Handler \cup {None}]
  BY DEF CardsState
<1>6. /\ left \in Seq(BillLoad) /\ Len(left) = Len(cp.loads) - 1
      /\ \A k \in DOMAIN left : left[k] = cp.loads[IF k < i THEN k ELSE k + 1]
  BY <1>1, Removed
<1>7. \A d \in Dialogs : d # ld.by => tasks[d] = cp.tasks[d]
  OBVIOUS
<1> HIDE DEF ld, left, tasks
<1>8. cp' \in CardsState
  BY <1>3, <1>4, <1>5, <1>6 DEF CardsState
<1>9. /\ cp'.server = cp.server /\ cp'.sel = cp.sel /\ cp'.dialog = cp.dialog
      /\ cp'.acked = cp.acked /\ cp'.bills = bills /\ cp'.mixed = mixed
      /\ cp'.loads = left /\ cp'.tasks = tasks
  BY <1>3 DEF CardsState
<1>10. \A k \in DOMAIN left : \E j \in DOMAIN cp.loads :
        j # i /\ left[k] = cp.loads[j] /\ j = IF k < i THEN k ELSE k + 1
  <2> TAKE k \in DOMAIN left
  <2>1. PICK j : j = IF k < i THEN k ELSE k + 1
    OBVIOUS
  <2>2. j \in DOMAIN cp.loads /\ j # i
    BY <1>1, <1>6, <2>1
  <2> QED
    BY <1>6, <2>1, <2>2
<1>11. Told(cp')
  <2>1. ASSUME NEW k \in DOMAIN left PROVE left[k].since <= cp.server[left[k].card].changes
    BY <1>10 DEF Told
  <2> QED
    BY <1>9, <2>1 DEF Told
<1>12. Waiting(cp')
  <2>1. ASSUME NEW k \in DOMAIN left, left[k].by # None
        PROVE  tasks[left[k].by] # None /\ tasks[left[k].by].at = "bills"
    <3>1. PICK j \in DOMAIN cp.loads : j # i /\ left[k] = cp.loads[j]
      BY <1>10
    <3>2. cp.loads[j].by # ld.by
      BY <2>1, <3>1 DEF Waiting, ld
    <3>3. cp.loads[j].by \in Dialogs
      <4>1. cp.loads[j] \in BillLoad
        BY <1>1
      <4> QED
        BY <2>1, <3>1, <4>1 DEF BillLoad
    <3>4. tasks[left[k].by] = cp.tasks[cp.loads[j].by]
      BY <1>7, <3>1, <3>2, <3>3
    <3> QED
      BY <2>1, <3>1, <3>4 DEF Waiting
  <2>2. ASSUME NEW k \in DOMAIN left, NEW m \in DOMAIN left,
               left[k].by # None, left[k].by = left[m].by
        PROVE  k = m
    <3>1. PICK j \in DOMAIN cp.loads : left[k] = cp.loads[j] /\ j = IF k < i THEN k ELSE k + 1
      BY <1>10
    <3>2. PICK l \in DOMAIN cp.loads : left[m] = cp.loads[l] /\ l = IF m < i THEN m ELSE m + 1
      BY <1>10
    <3>3. j = l
      BY <2>2, <3>1, <3>2 DEF Waiting
    <3>4. k \in Nat /\ m \in Nat /\ i \in Nat
      BY <1>1, <1>6
    <3> QED
      BY <3>1, <3>2, <3>3, <3>4
  <2> QED
    BY <1>9, <2>1, <2>2 DEF Waiting
<1>13. ASSUME NEW n, NotLate(cp, n) PROVE NotLate(cp', n)
  <2>1. CASE n >= cp.acked[cp.sel]
    BY <1>9, <2>1 DEF NotLate
  <2>2. CASE WillLoad(cp)
    <3>1. PICK d \in Dialogs : cp.tasks[d] # None /\ cp.tasks[d].at = "list"
      BY <2>2 DEF WillLoad
    <3>2. d # ld.by
      BY <3>1, CardsAssumption DEF Waiting, ld
    <3>3. tasks[d] = cp.tasks[d]
      BY <1>7, <3>2
    <3> QED
      BY <1>9, <3>1, <3>3 DEF NotLate, WillLoad
  <2> QED
    BY <1>13, <2>1, <2>2 DEF NotLate
<1>14. LoadsAlone(cp')
  <2> SUFFICES ASSUME NEW k \in DOMAIN left, left[k].alone PROVE FALSE
    BY <1>9 DEF LoadsAlone
  <2>1. PICK j \in DOMAIN cp.loads : left[k] = cp.loads[j]
    BY <1>10
  <2>2. Len(cp.loads) = 1
    BY <2>1 DEF LoadsAlone
  <2> QED
    BY <1>6, <2>2
<1>15. DrawnBills(cp')
  <2> SUFFICES ASSUME bills # None, ~mixed
               PROVE  cp'.sel \in Cards /\ bills.card = cp'.sel /\ NotLate(cp', bills.changes)
    BY <1>9 DEF DrawnBills
  <2>1. cp.sel \in Cards /\ ld.card = cp.sel /\ NotLate(cp, ld.since)
    <3>1. ld.alone
      BY <1>2
    <3> QED
      BY <3>1 DEF LoadsAlone, ld
  <2>2. NotLate(cp, bills.changes)
    <3>1. CASE ld.since >= cp.acked[cp.sel]
      <4>1. ld.since \in Nat /\ bills.changes \in Nat /\ cp.acked[cp.sel] \in Nat
        BY <1>1, <1>4, <2>1 DEF BillLoad, Seen, CardsState
      <4> QED
        BY <1>4, <3>1, <4>1 DEF NotLate
    <3>2. CASE WillLoad(cp)
      BY <3>2 DEF NotLate
    <3> QED
      BY <2>1, <3>1, <3>2 DEF NotLate
  <2> QED
    BY <1>4, <1>9, <1>13, <2>1, <2>2
<1> QED
  BY <1>8, <1>11, <1>12, <1>14, <1>15 DEF CardsInv

(* Another card is drawn, and its bills are loaded.                        *)
LEMMA SelectStep ==
  ASSUME CardsInv(cp), NEW c \in Cards, ListAnswered(c) \/ Select(c)
  PROVE  CardsInv(cp')
<1> cp \in CardsState /\ Told(cp) /\ Waiting(cp)
  BY DEF CardsInv
<1>1. PICK listed \in {cp.listed, cp.server} :
        cp' = loadBills([cp EXCEPT !.listed = listed, !.sel = c], c, None)
  <2>1. CASE ListAnswered(c)
    BY <2>1 DEF ListAnswered
  <2>2. CASE Select(c)
    <3>1. [cp EXCEPT !.sel = c] = [cp EXCEPT !.listed = cp.listed, !.sel = c]
      BY DEF CardsState
    <3> QED
      BY <2>2, <3>1 DEF Select
  <2> QED
    BY <2>1, <2>2
<1> DEFINE s == [cp EXCEPT !.listed = listed, !.sel = c]
<1>2. s \in CardsState
  BY <1>1 DEF CardsState
<1>3. /\ s.server = cp.server /\ s.acked = cp.acked /\ s.loads = cp.loads
      /\ s.tasks = cp.tasks /\ s.sel = c
  BY DEF CardsState
<1> HIDE DEF s
<1>4. Told(s) /\ Waiting(s)
  BY <1>3, CardsAssumption DEF Told, Waiting
<1> QED
  BY <1>1, <1>2, <1>4, LoadingBills DEF s

(* The dialogs, as far as they leave the bills alone.                      *)
LEMMA DialogStep ==
  ASSUME CardsInv(cp),
         \/ OpenPurchase \/ OpenPay \/ OpenAnticipate \/ ToggleInstallment \/ CloseCardDialog
         \/ \E c \in Cards : LookupEnds(c)
  PROVE  CardsInv(cp')
<1> cp \in CardsState /\ Told(cp) /\ Waiting(cp) /\ LoadsAlone(cp) /\ DrawnBills(cp)
  BY DEF CardsInv
<1> DEFINE Redrawn(dialog, items, checked, lookups) ==
             [cp EXCEPT !.dialog = dialog, !.items = items, !.checked = checked,
                        !.lookups = lookups]
<1>1. ASSUME NEW dialog \in Dialogs \cup {None}, NEW items \in Cards \cup {None},
             NEW checked \in SUBSET Cards, NEW lookups \in SUBSET Cards,
             dialog # None => cp.sel # None,
             cp' = Redrawn(dialog, items, checked, lookups)
      PROVE  CardsInv(cp')
  <2>1. cp' \in CardsState
    BY <1>1 DEF CardsState
  <2>2. /\ cp'.server = cp.server /\ cp'.sel = cp.sel /\ cp'.bills = cp.bills
        /\ cp'.billsLoading = cp.billsLoading /\ cp'.loads = cp.loads /\ cp'.tasks = cp.tasks
        /\ cp'.acked = cp.acked /\ cp'.mixed = cp.mixed /\ cp'.dialog = dialog
    BY <1>1 DEF CardsState
  <2>3. Told(cp') /\ Waiting(cp')
    BY <1>1, <2>2 DEF Told, Waiting
  <2>4. LoadsAlone(cp') /\ DrawnBills(cp')
    BY <2>2 DEF LoadsAlone, DrawnBills, NotLate, WillLoad
  <2> QED
    BY <2>1, <2>3, <2>4 DEF CardsInv
<1>2. CASE OpenPurchase \/ OpenPay
  <2>1. PICK dialog \in Dialogs : cp.sel # None /\ cp' = [cp EXCEPT !.dialog = dialog]
    BY <1>2 DEF OpenPurchase, OpenPay, Dialogs
  <2>2. cp' = Redrawn(dialog, cp.items, cp.checked, cp.lookups)
    BY <2>1 DEF CardsState
  <2>3. /\ cp.items \in Cards \cup {None} /\ cp.checked \in SUBSET Cards
        /\ cp.lookups \in SUBSET Cards
    BY DEF CardsState
  <2> HIDE DEF Redrawn
  <2> QED
    BY <1>1, <2>1, <2>2, <2>3
<1>3. CASE OpenAnticipate
  <2>1. /\ cp.sel \in Cards /\ "anticipate" \in Dialogs
        /\ cp' = Redrawn("anticipate", None, {}, cp.lookups \cup {cp.sel})
    BY <1>3 DEF OpenAnticipate, CardsState, Dialogs
  <2>2. cp.lookups \cup {cp.sel} \in SUBSET Cards
    BY <2>1 DEF CardsState
  <2> HIDE DEF Redrawn
  <2> QED
    BY <1>1, <2>1, <2>2, CardsAssumption
<1>4. CASE ToggleInstallment
  <2>1. PICK checked \in SUBSET Cards : cp' = [cp EXCEPT !.checked = checked]
    <3>1. cp.items \in Cards /\ cp.checked \in SUBSET Cards
      BY <1>4 DEF ToggleInstallment, CardsState
    <3>2. cp.checked \ {cp.items} \in SUBSET Cards /\ cp.checked \cup {cp.items} \in SUBSET Cards
      BY <3>1
    <3> QED
      BY <1>4, <3>2 DEF ToggleInstallment
  <2>2. cp' = Redrawn(cp.dialog, cp.items, checked, cp.lookups)
    BY <2>1 DEF CardsState
  <2>3. /\ cp.dialog \in Dialogs \cup {None} /\ (cp.dialog # None => cp.sel # None)
        /\ cp.items \in Cards \cup {None} /\ cp.lookups \in SUBSET Cards
    BY DEF CardsState, Told
  <2> HIDE DEF Redrawn
  <2> QED
    BY <1>1, <2>1, <2>2, <2>3
<1>5. CASE CloseCardDialog
  <2>1. cp' = Redrawn(None, None, {}, cp.lookups)
    BY <1>5 DEF CloseCardDialog, DialogClosed, CardsState
  <2>2. cp.lookups \in SUBSET Cards
    BY DEF CardsState
  <2> HIDE DEF Redrawn
  <2> QED
    BY <1>1, <2>1, <2>2
<1>6. ASSUME NEW c \in Cards, LookupEnds(c) PROVE CardsInv(cp')
  <2>1. PICK items \in Cards \cup {None} :
          cp' = [cp EXCEPT !.lookups = cp.lookups \ {c}, !.items = items]
    <3>1. ShownItems(c) \in Cards \cup {None} /\ cp.items \in Cards \cup {None}
      BY DEF ShownItems, CardsState
    <3>2. [cp EXCEPT !.lookups = cp.lookups \ {c}]
            = [cp EXCEPT !.lookups = cp.lookups \ {c}, !.items = cp.items]
      BY DEF CardsState
    <3> QED
      BY <1>6, <3>1, <3>2 DEF LookupEnds
  <2>2. cp' = Redrawn(cp.dialog, items, cp.checked, cp.lookups \ {c})
    BY <2>1 DEF CardsState
  <2>3. /\ cp.dialog \in Dialogs \cup {None} /\ (cp.dialog # None => cp.sel # None)
        /\ cp.checked \in SUBSET Cards /\ cp.lookups \ {c} \in SUBSET Cards
    BY DEF CardsState, Told
  <2> HIDE DEF Redrawn
  <2> QED
    BY <1>1, <2>1, <2>2, <2>3
<1> QED
  BY <1>2, <1>3, <1>4, <1>5, <1>6

(* A handler of d takes another step, the bills and their loads as before. *)
LEMMA HandlerStep ==
  ASSUME CardsInv(cp), NEW d \in Dialogs, NEW t \in CardsState,
         t.sel = cp.sel, t.bills = cp.bills, t.billsLoading = cp.billsLoading,
         t.loads = cp.loads, t.mixed = cp.mixed,
         \A e \in Dialogs \ {d} : t.tasks[e] = cp.tasks[e],
         cp.tasks[d] = None \/ cp.tasks[d].at = "save",
         Told(t),
         WillLoad(t) \/ t.acked = cp.acked
  PROVE  CardsInv(t)
<1> cp \in CardsState /\ Waiting(cp) /\ LoadsAlone(cp) /\ DrawnBills(cp)
  BY DEF CardsInv
<1>1. Waiting(t)
  <2>1. ASSUME NEW i \in DOMAIN cp.loads, cp.loads[i].by # None
        PROVE  cp.loads[i].by \in Dialogs \ {d}
    <3>1. cp.loads[i] \in BillLoad
      BY DEF CardsState
    <3>2. cp.loads[i].by # d
      BY <2>1 DEF Waiting
    <3> QED
      BY <2>1, <3>1, <3>2 DEF BillLoad
  <2> QED
    BY <2>1 DEF Waiting
<1>2. WillLoad(cp) => WillLoad(t)
  BY DEF WillLoad
<1>3. \A n : NotLate(cp, n) => NotLate(t, n)
  BY <1>2 DEF NotLate
<1>4. LoadsAlone(t) /\ DrawnBills(t)
  BY <1>3 DEF LoadsAlone, DrawnBills
<1> QED
  BY <1>1, <1>4 DEF CardsInv

(* A dialog is submitted.                                                  *)
LEMMA SubmitStep ==
  ASSUME CardsInv(cp), NEW d \in Dialogs, SubmitDialog(d)
  PROVE  CardsInv(cp')
<1> cp \in CardsState /\ Told(cp)
  BY DEF CardsInv
<1> DEFINE task == [card |-> cp.sel, at |-> "save", ids |-> cp.checked]
           tasks == [cp.tasks EXCEPT ![d] = task]
<1>1. cp.sel \in Cards /\ cp.tasks[d] = None
  BY CardsAssumption DEF SubmitDialog, Told, CardsState
<1>2. task \in Handler
  BY <1>1 DEF Handler, CardsState
<1>3. cp' = [cp EXCEPT !.tasks = tasks]
  BY DEF SubmitDialog, CardsState
<1>4. tasks \in [Dialogs -> Handler \cup {None}] /\ \A e \in Dialogs \ {d} : tasks[e] = cp.tasks[e]
  BY <1>2 DEF CardsState
<1> HIDE DEF tasks
<1>5. cp' \in CardsState
  BY <1>3, <1>4 DEF CardsState
<1>6. /\ cp'.server = cp.server /\ cp'.sel = cp.sel /\ cp'.bills = cp.bills
      /\ cp'.billsLoading = cp.billsLoading /\ cp'.loads = cp.loads /\ cp'.tasks = tasks
      /\ cp'.acked = cp.acked /\ cp'.mixed = cp.mixed /\ cp'.dialog = cp.dialog
  BY <1>3 DEF CardsState
<1>7. Told(cp')
  BY <1>6 DEF Told
<1> QED
  BY <1>1, <1>4, <1>5, <1>6, <1>7, HandlerStep

(* The server makes a change, and what is known of it stays true.          *)
LEMMA Committed ==
  ASSUME cp \in CardsState, Told(cp), NEW card \in Cards, NEW bill \in {"none", "open", "paid"}
  PROVE  LET n == cp.server[card].changes + 1
             server == [cp.server EXCEPT ![card] = [bill |-> bill, changes |-> n]]
         IN /\ n \in Nat /\ server \in [Cards -> CardBill] /\ server[card].changes = n
            /\ \A c \in Cards : cp.acked[c] <= server[c].changes
            /\ \A i \in DOMAIN cp.loads : cp.loads[i].since <= server[cp.loads[i].card].changes
<1> DEFINE n == cp.server[card].changes + 1
           server == [cp.server EXCEPT ![card] = [bill |-> bill, changes |-> n]]
<1>1. cp.server[card].changes \in Nat /\ n \in Nat
  BY DEF CardsState, CardBill
<1>2. server \in [Cards -> CardBill] /\ server[card].changes = n
  BY <1>1 DEF CardsState, CardBill
<1>3. ASSUME NEW c \in Cards
      PROVE  cp.server[c].changes <= server[c].changes /\ cp.server[c].changes \in Nat
  <2>1. cp.server[c].changes \in Nat
    BY DEF CardsState, CardBill
  <2>2. CASE c = card
    BY <1>1, <1>2, <2>2
  <2>3. CASE c # card
    <3>1. server[c] = cp.server[c]
      BY <2>3 DEF CardsState
    <3> QED
      BY <2>1, <3>1
  <2> QED
    BY <2>1, <2>2, <2>3
<1>4. ASSUME NEW c \in Cards PROVE cp.acked[c] <= server[c].changes
  <2>1. cp.acked[c] \in Nat /\ server[c].changes \in Nat
    BY <1>2 DEF CardsState, CardBill
  <2>2. cp.acked[c] <= cp.server[c].changes
    BY DEF Told
  <2> QED
    BY <1>3, <2>1, <2>2
<1>5. ASSUME NEW i \in DOMAIN cp.loads
      PROVE  cp.loads[i].since <= server[cp.loads[i].card].changes
  <2>1. cp.loads[i] \in BillLoad
    BY DEF CardsState
  <2>2. cp.loads[i].card \in Cards /\ cp.loads[i].since \in Nat
    BY <2>1 DEF BillLoad
  <2>3. server[cp.loads[i].card].changes \in Nat
    BY <1>2, <2>2 DEF CardBill
  <2>4. cp.loads[i].since <= cp.server[cp.loads[i].card].changes
    BY DEF Told
  <2> QED
    BY <1>3, <2>2, <2>3, <2>4
<1> QED
  BY <1>1, <1>2, <1>4, <1>5

(* The save of a handler ends, one way or another.                         *)
LEMMA SavedStep ==
  ASSUME CardsInv(cp), NEW d \in Dialogs, cp.tasks[d] # None, cp.tasks[d].at = "save",
         ChangeSaved(d) \/ ChangeFails(d)
  PROVE  CardsInv(cp')
<1> cp \in CardsState /\ Told(cp)
  BY DEF CardsInv
<1> DEFINE card == cp.tasks[d].card
           n == cp.server[card].changes + 1
           server(bill) == [cp.server EXCEPT ![card] = [bill |-> bill, changes |-> n]]
           tasks(task) == [cp.tasks EXCEPT ![d] = task]
<1>1. cp.tasks[d] \in Handler /\ card \in Cards
  BY DEF CardsState, Handler
<1>2. \A bill : Bill(d, bill) \subseteq {"open", "paid", bill}
  BY DEF Bill, Dialogs
<1>3. cp.server[card].bill \in {"none", "open", "paid"}
  BY <1>1 DEF CardsState, CardBill
<1>4. \A bill \in Bill(d, cp.server[card].bill) : bill \in {"none", "open", "paid"}
  BY <1>2, <1>3
<1>5. ASSUME NEW task \in Handler \cup {None}
      PROVE  /\ tasks(task) \in [Dialogs -> Handler \cup {None}] /\ tasks(task)[d] = task
             /\ \A e \in Dialogs \ {d} : tasks(task)[e] = cp.tasks[e]
  BY DEF CardsState
<1>6. CASE cp' = [cp EXCEPT !.tasks[d] = None]
  <2>1. cp' = [cp EXCEPT !.tasks = tasks(None)]
    BY <1>6 DEF CardsState
  <2>2. /\ cp'.server = cp.server /\ cp'.sel = cp.sel /\ cp'.bills = cp.bills
        /\ cp'.billsLoading = cp.billsLoading /\ cp'.loads = cp.loads
        /\ cp'.tasks = tasks(None) /\ cp'.acked = cp.acked /\ cp'.mixed = cp.mixed
        /\ cp'.dialog = cp.dialog
    BY <2>1 DEF CardsState
  <2> HIDE DEF tasks
  <2>3. cp' \in CardsState
    BY <1>5, <2>1 DEF CardsState
  <2>4. Told(cp')
    BY <2>2 DEF Told
  <2> QED
    BY <1>5, <2>2, <2>3, <2>4, HandlerStep
<1>7. CASE \E bill \in Bill(d, cp.server[card].bill) :
             cp' = [Commit(d, cp, bill) EXCEPT !.tasks[d] = None]
  <2>1. PICK bill \in {"none", "open", "paid"} :
          cp' = [Commit(d, cp, bill) EXCEPT !.tasks[d] = None]
    BY <1>4, <1>7
  <2>2. cp' = [cp EXCEPT !.server = server(bill), !.tasks = tasks(None)]
    BY <1>1, <2>1 DEF Commit, CardsState
  <2>3. /\ server(bill) \in [Cards -> CardBill]
        /\ \A c \in Cards : cp.acked[c] <= server(bill)[c].changes
        /\ \A i \in DOMAIN cp.loads :
             cp.loads[i].since <= server(bill)[cp.loads[i].card].changes
    BY <1>1, Committed
  <2> HIDE DEF tasks, server
  <2>4. /\ cp'.server = server(bill) /\ cp'.sel = cp.sel /\ cp'.bills = cp.bills
        /\ cp'.billsLoading = cp.billsLoading /\ cp'.loads = cp.loads
        /\ cp'.tasks = tasks(None) /\ cp'.acked = cp.acked /\ cp'.mixed = cp.mixed
        /\ cp'.dialog = cp.dialog
    BY <2>2 DEF CardsState
  <2>5. cp' \in CardsState
    BY <1>5, <2>2, <2>3 DEF CardsState
  <2>6. Told(cp')
    BY <2>3, <2>4 DEF Told
  <2> QED
    BY <1>5, <2>4, <2>5, <2>6, HandlerStep
<1>8. CASE ChangeSaved(d)
  <2> DEFINE task == [cp.tasks[d] EXCEPT !.at = "list"]
             acked == [cp.acked EXCEPT ![card] = n]
  <2>1. PICK bill \in {"none", "open", "paid"} :
          cp' = [DialogClosed(Commit(d, cp, bill)) EXCEPT !.tasks[d].at = "list",
                                                          !.acked[card] = n]
    BY <1>4, <1>8 DEF ChangeSaved
  <2>2. cp' = [cp EXCEPT !.server = server(bill), !.tasks = tasks(task), !.acked = acked,
                         !.dialog = None, !.items = None, !.checked = {}]
    BY <1>1, <2>1 DEF Commit, DialogClosed, CardsState
  <2>3. /\ n \in Nat /\ server(bill) \in [Cards -> CardBill] /\ server(bill)[card].changes = n
        /\ \A c \in Cards : cp.acked[c] <= server(bill)[c].changes
        /\ \A i \in DOMAIN cp.loads :
             cp.loads[i].since <= server(bill)[cp.loads[i].card].changes
    BY <1>1, Committed
  <2>4. task \in Handler /\ task.at = "list"
    BY <1>1 DEF Handler
  <2>5. /\ acked \in [Cards -> Nat]
        /\ \A c \in Cards : acked[c] = IF c = card THEN n ELSE cp.acked[c]
    BY <1>1, <2>3 DEF CardsState
  <2> HIDE DEF tasks, server, task, acked
  <2>6. /\ cp'.server = server(bill) /\ cp'.sel = cp.sel /\ cp'.bills = cp.bills
        /\ cp'.billsLoading = cp.billsLoading /\ cp'.loads = cp.loads
        /\ cp'.tasks = tasks(task) /\ cp'.acked = acked /\ cp'.mixed = cp.mixed
        /\ cp'.dialog = None
    BY <2>2 DEF CardsState
  <2>7. cp' \in CardsState
    BY <1>5, <2>2, <2>3, <2>4, <2>5 DEF CardsState
  <2>8. ASSUME NEW c \in Cards PROVE acked[c] <= server(bill)[c].changes
    <3>1. CASE c = card
      BY <2>3, <2>5, <3>1
    <3>2. CASE c # card
      BY <2>3, <2>5, <3>2
    <3> QED
      BY <3>1, <3>2
  <2>9. Told(cp')
    BY <2>3, <2>6, <2>8 DEF Told
  <2>10. WillLoad(cp')
    BY <1>5, <2>4, <2>6, CardsAssumption DEF WillLoad, Handler
  <2> QED
    BY <1>5, <2>4, <2>6, <2>7, <2>9, <2>10, HandlerStep
<1> QED
  BY <1>6, <1>7, <1>8 DEF ChangeFails

(* A handler loads the bills again.                                        *)
LEMMA RefreshStep ==
  ASSUME CardsInv(cp), NEW d \in Dialogs, cp.tasks[d] # None, cp.tasks[d].at = "list",
         RefreshCards(d)
  PROVE  CardsInv(cp')
<1> cp \in CardsState /\ Told(cp) /\ Waiting(cp)
  BY DEF CardsInv
<1> DEFINE task == [cp.tasks[d] EXCEPT !.at = "bills"]
           tasks == [cp.tasks EXCEPT ![d] = task]
<1>1. cp.tasks[d] \in Handler
  BY DEF CardsState
<1>2. task \in Handler /\ task # None /\ task.at = "bills" /\ cp.tasks[d].card \in Cards
  BY <1>1, CardsAssumption DEF Handler
<1>3. /\ tasks \in [Dialogs -> Handler \cup {None}] /\ tasks[d] = task
      /\ \A e \in Dialogs \ {d} : tasks[e] = cp.tasks[e]
  BY <1>2 DEF CardsState
<1>4. PICK listed \in {cp.listed, cp.server} :
        cp' = loadBills([cp EXCEPT !.listed = listed, !.tasks[d].at = "bills"],
                        cp.tasks[d].card, d)
  BY DEF RefreshCards
<1> DEFINE s == [cp EXCEPT !.listed = listed, !.tasks = tasks]
<1>5. [cp EXCEPT !.listed = listed, !.tasks[d].at = "bills"] = s
  BY <1>1 DEF CardsState
<1>6. cp' = loadBills(s, cp.tasks[d].card, d)
  BY <1>4, <1>5
<1> HIDE DEF tasks, task
<1>7. s \in CardsState
  BY <1>3, <1>4 DEF CardsState
<1>8. /\ s.server = cp.server /\ s.acked = cp.acked /\ s.loads = cp.loads
      /\ s.tasks = tasks /\ s.sel = cp.sel /\ s.dialog = cp.dialog
  BY DEF CardsState
<1> HIDE DEF s
<1>9. \A i \in DOMAIN cp.loads : cp.loads[i].by # d
  BY CardsAssumption DEF Waiting
<1>10. Told(s)
  BY <1>8 DEF Told
<1>11. Waiting(s)
  <2>1. ASSUME NEW i \in DOMAIN cp.loads, cp.loads[i].by # None
        PROVE  cp.loads[i].by \in Dialogs \ {d}
    <3>1. cp.loads[i] \in BillLoad
      BY DEF CardsState
    <3> QED
      BY <1>9, <2>1, <3>1 DEF BillLoad
  <2> QED
    BY <1>3, <1>8, <2>1 DEF Waiting
<1> QED
  BY <1>2, <1>3, <1>6, <1>7, <1>8, <1>9, <1>10, <1>11, LoadingBills

(* Every step keeps the invariant.                                         *)
LEMMA NextCardsInv == CardsInv(cp) /\ CardsNext => CardsInv(cp')
BY SelectStep, LoadOver, DialogStep, SubmitStep, SavedStep, RefreshStep DEF CardsNext, Task

(* What the property asks of the page follows from its invariant.          *)
LEMMA CardsInvShows == CardsInv(cp) => BillsOfSelectedCard
<1> SUFFICES ASSUME CardsInv(cp), BillsDrawn # None, ~cp.mixed
             PROVE  /\ BillsDrawn.card = cp.sel
                    /\ (\A d \in Dialogs : cp.tasks[d] = None)
                         => BillsDrawn.changes >= cp.acked[cp.sel]
  BY DEF BillsOfSelectedCard
<1>1. BillsDrawn = cp.bills /\ ~cp.billsLoading
  BY DEF BillsDrawn
<1> QED
  BY <1>1 DEF CardsInv, DrawnBills, NotLate, WillLoad
-----------------------------------------------------------------------------
(***************************************************************************)
(* No correction is lost on the receipts page, for any products and any    *)
(* number of corrections.  The invariant says what the answer awaited will *)
(* do to the review: a reading gives up what was drawn when it was asked   *)
(* for, a save stores it but for what it has left out, and the corrections *)
(* made in between are not among those the property speaks of.             *)
(***************************************************************************)

Receipt ==
  [server : SUBSET Products, products : SUBSET Products, loads : BOOLEAN,
   qr : BOOLEAN, image : BOOLEAN, busy : {None, "scan", "save", "gallery"},
   ocr : BOOLEAN, parsed : BOOLEAN,
   review : SUBSET Edits, blank : SUBSET Edits, payload : SUBSET Edits,
   left : SUBSET Edits, stored : SUBSET Edits, dropped : SUBSET Edits,
   qrOver : SUBSET Edits, ocrOver : SUBSET Edits, calm : SUBSET Edits,
   givenUp : SUBSET Edits,
   label : Products \cup {None}, points : Products \cup {None}, lookups : SUBSET Products,
   target : Products \cup {None}, source : Products \cup {None},
   merging : {None, "merge", "gallery"}, gone : Products \cup {None}]

Awaited(s) ==
  /\ s.busy = "scan" => s.calm \cap s.review \subseteq s.qrOver
  /\ s.ocr => s.calm \cap s.review \subseteq s.ocrOver
  /\ s.busy = "save" => s.calm \cap s.review \subseteq s.payload \cup s.left

Kept(s) == s.calm \subseteq s.review \cup s.stored \cup s.givenUp \cup s.dropped

ReviewInv == rp \in Receipt /\ Awaited(rp) /\ Kept(rp)

(* The page opens with nothing to keep.                                    *)
LEMMA InitReviewInv == ReceiptsInit => ReviewInv
<1> SUFFICES ASSUME NEW server \in SUBSET Products, rp = FreshReceipts(server) PROVE ReviewInv
  BY DEF ReceiptsInit, ReceiptsFresh
<1>1. rp \in Receipt
  BY DEF FreshReceipts, Receipt
<1>2. Awaited(rp) /\ Kept(rp)
  BY ReceiptsAssumption DEF FreshReceipts, Awaited, Kept
<1> QED
  BY <1>1, <1>2 DEF ReviewInv

(* A reading that ends gives up what it was asked for over.                *)
LEMMA Applied ==
  ASSUME NEW s \in Receipt, NEW over \in SUBSET Edits, Kept(s),
         s.calm \cap s.review \subseteq over
  PROVE  LET t == applyParsedReceipt(s, over)
         IN t \in Receipt /\ Awaited(t) /\ Kept(t)
<1> DEFINE t == applyParsedReceipt(s, over)
<1>1. t \in Receipt
  BY DEF applyParsedReceipt, Receipt
<1>2. /\ t.review = {} /\ t.givenUp = s.givenUp \cup (s.review \cap over)
      /\ t.calm = s.calm /\ t.stored = s.stored /\ t.dropped = s.dropped
  BY DEF applyParsedReceipt, Receipt
<1>3. Awaited(t)
  BY <1>2 DEF Awaited
<1>4. Kept(t)
  BY <1>2 DEF Kept
<1> QED
  BY <1>1, <1>3, <1>4

(* What a step leaves of the fields the invariant speaks of, it keeps.     *)
Same(s, t) ==
  /\ t.review = s.review /\ t.payload = s.payload /\ t.stored = s.stored
  /\ t.qrOver = s.qrOver /\ t.ocrOver = s.ocrOver /\ t.calm = s.calm
  /\ t.givenUp = s.givenUp /\ t.ocr = s.ocr
  /\ t.left = s.left /\ t.dropped = s.dropped

LEMMA Undisturbed ==
  ASSUME NEW s, NEW t, Same(s, t), t.busy = s.busy \/ t.busy \notin {"scan", "save"},
         Awaited(s), Kept(s)
  PROVE  Awaited(t) /\ Kept(t)
BY DEF Same, Awaited, Kept

(* Every step keeps the invariant.                                         *)
LEMMA NextReviewInv == ReviewInv /\ [ReceiptsNext]_rp => ReviewInv'
<1> SUFFICES ASSUME ReviewInv, [ReceiptsNext]_rp PROVE ReviewInv'
  OBVIOUS
<1> USE DEF ReviewInv
<1>1. CASE TypeQr \/ ChooseImage
  <2>1. PICK b \in BOOLEAN : \/ rp' = [rp EXCEPT !.qr = b]
                             \/ rp' = [rp EXCEPT !.image = b]
    BY <1>1 DEF TypeQr, ChooseImage
  <2>3. rp' \in Receipt
    <3>1. CASE rp' = [rp EXCEPT !.qr = b]
      BY <3>1 DEF Receipt
    <3>2. CASE rp' = [rp EXCEPT !.image = b]
      BY <3>2 DEF Receipt
    <3> QED
      BY <2>1, <3>1, <3>2
  <2>2. Same(rp, rp') /\ rp'.busy = rp.busy
    BY <2>1 DEF Receipt, Same
  <2> QED
    BY <2>2, <2>3, Undisturbed
<1>2. CASE ScanQr
  <2>1. rp' \in Receipt
    <3>1. rp' = [rp EXCEPT !.busy = "scan", !.qrOver = rp.review]
      BY <1>2 DEF ScanQr
    <3> QED
      BY <3>1 DEF Receipt
  <2>2. /\ rp'.review = rp.review /\ rp'.calm = rp.calm /\ rp'.stored = rp.stored
        /\ rp'.givenUp = rp.givenUp /\ rp'.ocr = rp.ocr /\ rp'.ocrOver = rp.ocrOver
        /\ rp'.busy = "scan" /\ rp'.qrOver = rp.review /\ rp'.dropped = rp.dropped
    BY <1>2 DEF ScanQr, Receipt
  <2> QED
    BY <2>1, <2>2 DEF Awaited, Kept
<1>3. CASE ScanEnds
  <2>1. rp.busy = "scan"
    BY <1>3 DEF ScanEnds
  <2>2. PICK s \in {rp, applyParsedReceipt(rp, rp.qrOver)} :
          rp' = [s EXCEPT !.busy = None, !.qrOver = {}]
    BY <1>3 DEF ScanEnds
  <2>3. s \in Receipt /\ Awaited(s) /\ Kept(s)
    <3>1. rp.qrOver \in SUBSET Edits /\ rp.calm \cap rp.review \subseteq rp.qrOver
      BY <2>1 DEF Receipt, Awaited
    <3> QED
      BY <2>2, <3>1, Applied
  <2>4. rp' \in Receipt
    BY <2>2, <2>3 DEF Receipt
  <2>5. /\ rp'.review = s.review /\ rp'.calm = s.calm /\ rp'.stored = s.stored
        /\ rp'.givenUp = s.givenUp /\ rp'.ocr = s.ocr /\ rp'.ocrOver = s.ocrOver
        /\ rp'.busy = None /\ rp'.dropped = s.dropped
    BY <2>2, <2>3 DEF Receipt
  <2> QED
    BY <2>3, <2>4, <2>5, ReceiptsAssumption DEF Awaited, Kept
<1>4. CASE Ocr
  <2>1. rp' \in Receipt
    BY <1>4 DEF Ocr, Receipt
  <2>2. /\ rp'.review = rp.review /\ rp'.calm = rp.calm /\ rp'.stored = rp.stored
        /\ rp'.givenUp = rp.givenUp /\ rp'.payload = rp.payload
        /\ rp'.qrOver = rp.qrOver /\ rp'.busy = rp.busy /\ rp'.ocrOver = rp.review
        /\ rp'.left = rp.left /\ rp'.dropped = rp.dropped
    BY <1>4 DEF Ocr, Receipt
  <2> QED
    BY <2>1, <2>2 DEF Awaited, Kept
<1>5. CASE OcrEnds
  <2>1. rp.ocr
    BY <1>5 DEF OcrEnds
  <2>2. PICK s \in {rp, applyParsedReceipt(rp, rp.ocrOver)} :
          rp' = [s EXCEPT !.ocr = FALSE, !.ocrOver = {}]
    BY <1>5 DEF OcrEnds
  <2>3. s \in Receipt /\ Awaited(s) /\ Kept(s)
    <3>1. rp.ocrOver \in SUBSET Edits /\ rp.calm \cap rp.review \subseteq rp.ocrOver
      BY <2>1 DEF Receipt, Awaited
    <3> QED
      BY <2>2, <3>1, Applied
  <2>4. rp' \in Receipt
    BY <2>2, <2>3 DEF Receipt
  <2>5. /\ rp'.review = s.review /\ rp'.calm = s.calm /\ rp'.stored = s.stored
        /\ rp'.givenUp = s.givenUp /\ rp'.busy = s.busy /\ rp'.payload = s.payload
        /\ rp'.qrOver = s.qrOver /\ rp'.ocr = FALSE
        /\ rp'.left = s.left /\ rp'.dropped = s.dropped
    BY <2>2, <2>3 DEF Receipt
  <2> QED
    BY <2>3, <2>4, <2>5 DEF Awaited, Kept
<1>6. CASE \E e \in Edits : EditReview(e)
  <2>1. PICK e \in Edits : EditReview(e)
    BY <1>6
  <2>2. PICK blank \in SUBSET {e} :
          rp' = [rp EXCEPT !.review = @ \cup {e}, !.blank = @ \cup blank,
                           !.calm = IF rp.busy = None /\ ~rp.ocr THEN @ \cup {e} ELSE @]
    BY <2>1 DEF EditReview
  <2>3. /\ rp'.review = rp.review \cup {e} /\ rp'.stored = rp.stored
        /\ rp'.givenUp = rp.givenUp /\ rp'.payload = rp.payload
        /\ rp'.qrOver = rp.qrOver /\ rp'.ocrOver = rp.ocrOver
        /\ rp'.busy = rp.busy /\ rp'.ocr = rp.ocr
        /\ rp'.left = rp.left /\ rp'.dropped = rp.dropped
    BY <2>2 DEF Receipt
  <2>4. /\ rp'.calm \in {rp.calm, rp.calm \cup {e}}
        /\ rp.busy # None \/ rp.ocr => rp'.calm = rp.calm
        /\ e \notin rp.calm
    BY <2>1, <2>2 DEF EditReview, Receipt
  <2>7. rp' \in Receipt
    BY <2>2 DEF Receipt
  <2>5. Kept(rp')
    BY <2>3, <2>4 DEF Kept
  <2>6. Awaited(rp')
    BY <2>3, <2>4, ReceiptsAssumption DEF Awaited
  <2> QED
    BY <2>7, <2>5, <2>6
<1>15. CASE \E e \in Edits : Reword(e)
  <2>1. PICK blank \in SUBSET Edits : rp' = [rp EXCEPT !.blank = blank]
    BY <1>15 DEF Reword, Receipt
  <2>2. rp' \in Receipt
    BY <2>1 DEF Receipt
  <2>3. Same(rp, rp') /\ rp'.busy = rp.busy
    BY <2>1 DEF Receipt, Same
  <2> QED
    BY <2>2, <2>3, Undisturbed
<1>7. CASE SaveReceipt
  <2>1. rp' \in Receipt
    <3>1. rp' = [rp EXCEPT !.busy = "save", !.payload = rp.review \ rp.blank,
                           !.left = rp.review \cap rp.blank]
      BY <1>7 DEF SaveReceipt
    <3> QED
      BY <3>1 DEF Receipt
  <2>2. /\ rp'.review = rp.review /\ rp'.calm = rp.calm /\ rp'.stored = rp.stored
        /\ rp'.givenUp = rp.givenUp /\ rp'.ocr = rp.ocr /\ rp'.ocrOver = rp.ocrOver
        /\ rp'.busy = "save" /\ rp'.dropped = rp.dropped
        /\ rp'.payload = rp.review \ rp.blank /\ rp'.left = rp.review \cap rp.blank
    BY <1>7 DEF SaveReceipt, Receipt
  <2> QED
    BY <2>1, <2>2 DEF Awaited, Kept
<1>8. CASE ReceiptSaved
  <2>1. PICK found \in SUBSET Products :
          rp' = [Cleared(rp) EXCEPT !.busy = "gallery", !.server = @ \cup found,
                                    !.stored = @ \cup rp.payload, !.payload = {},
                                    !.dropped = @ \cup rp.left, !.left = {}]
    BY <1>8 DEF ReceiptSaved
  <2>2. Cleared(rp) \in Receipt
    BY DEF Cleared, Receipt
  <2>3. rp' \in Receipt
    BY <2>1, <2>2 DEF Receipt
  <2>4. /\ rp'.review = {} /\ rp'.calm = rp.calm /\ rp'.givenUp = rp.givenUp
        /\ rp'.stored = rp.stored \cup rp.payload /\ rp'.busy = "gallery"
        /\ rp'.dropped = rp.dropped \cup rp.left
    BY <2>1 DEF Cleared, Receipt
  <2>5. rp.calm \cap rp.review \subseteq rp.payload \cup rp.left
    BY <1>8 DEF ReceiptSaved, Awaited
  <2>6. Awaited(rp')
    BY <2>4 DEF Awaited
  <2>7. Kept(rp')
    BY <2>4, <2>5 DEF Kept
  <2> QED
    BY <2>3, <2>6, <2>7
<1>9. CASE ReceiptFails
  <2>1. rp' \in Receipt
    BY <1>9 DEF ReceiptFails, Receipt
  <2>2. /\ rp'.review = rp.review /\ rp'.calm = rp.calm /\ rp'.stored = rp.stored
        /\ rp'.givenUp = rp.givenUp /\ rp'.ocr = rp.ocr /\ rp'.ocrOver = rp.ocrOver
        /\ rp'.busy = None /\ rp'.dropped = rp.dropped
    BY <1>9 DEF ReceiptFails, Receipt
  <2> QED
    BY <2>1, <2>2, ReceiptsAssumption DEF Awaited, Kept
<1>10. CASE GalleryLoaded
  <2>1. PICK s \in Loaded(rp) :
          \/ rp' = [s EXCEPT !.loads = FALSE]
          \/ rp.busy = "gallery" /\ rp' = [s EXCEPT !.busy = None]
          \/ rp' = [s EXCEPT !.merging = None]
    BY <1>10 DEF GalleryLoaded
  <2>2. s \in Receipt /\ Same(rp, s) /\ s.busy = rp.busy
    BY <2>1 DEF Loaded, Receipt, Same
  <2>3. rp' \in Receipt
    <3>1. CASE rp' = [s EXCEPT !.loads = FALSE]
      BY <2>2, <3>1 DEF Receipt
    <3>2. CASE rp' = [s EXCEPT !.busy = None]
      BY <2>2, <3>2 DEF Receipt
    <3>3. CASE rp' = [s EXCEPT !.merging = None]
      BY <2>2, <3>3 DEF Receipt
    <3> QED
      BY <2>1, <3>1, <3>2, <3>3
  <2>4. Same(rp, rp') /\ rp'.busy \in {rp.busy, None}
    BY <2>1, <2>2 DEF Receipt, Same
  <2> QED
    BY <2>3, <2>4, Undisturbed, ReceiptsAssumption
<1>11. CASE \E p \in Products : ShowPriceHistory(p) \/ PriceHistoryEnds(p)
  <2>1. PICK p \in Products : ShowPriceHistory(p) \/ PriceHistoryEnds(p)
    BY <1>11
  <2>2. rp' \in Receipt
    <3>1. CASE ShowPriceHistory(p)
      BY <3>1 DEF ShowPriceHistory, Receipt
    <3>2. CASE PriceHistoryEnds(p)
      <4>1. PICK points \in {p, rp.points} :
              rp' = [rp EXCEPT !.lookups = @ \ {p}, !.points = points]
        BY <3>2 DEF PriceHistoryEnds
      <4>2. points \in Products \cup {None}
        BY <4>1 DEF Receipt
      <4> QED
        BY <4>1, <4>2 DEF Receipt
    <3> QED
      BY <2>1, <3>1, <3>2
  <2>3. Same(rp, rp') /\ rp'.busy = rp.busy
    BY <2>1 DEF ShowPriceHistory, PriceHistoryEnds, Receipt, Same
  <2> QED
    BY <2>2, <2>3, Undisturbed
<1>12. CASE \E p \in Products \cup {None} : PickTarget(p) \/ PickSource(p)
  <2>1. PICK p \in Products \cup {None} : PickTarget(p) \/ PickSource(p)
    BY <1>12
  <2>2. rp' \in Receipt
    BY <2>1 DEF PickTarget, PickSource, Receipt
  <2>3. Same(rp, rp') /\ rp'.busy = rp.busy
    BY <2>1 DEF PickTarget, PickSource, Receipt, Same
  <2> QED
    BY <2>2, <2>3, Undisturbed
<1>13. CASE Merge \/ MergeEnds
  <2>1. rp' \in Receipt
    <3>1. CASE rp' = [rp EXCEPT !.merging = "merge", !.gone = rp.source]
      BY <3>1 DEF Receipt
    <3>2. CASE rp' = [rp EXCEPT !.server = @ \ {rp.gone}, !.merging = "gallery",
                                !.gone = None, !.target = None, !.source = None]
      BY <3>2 DEF Receipt
    <3>3. CASE rp' = [rp EXCEPT !.merging = None, !.gone = None]
      BY <3>3 DEF Receipt
    <3> QED
      BY <1>13, <3>1, <3>2, <3>3 DEF Merge, MergeEnds
  <2>2. Same(rp, rp') /\ rp'.busy = rp.busy
    BY <1>13 DEF Merge, MergeEnds, Receipt, Same
  <2> QED
    BY <2>1, <2>2, Undisturbed
<1>14. CASE UNCHANGED rp
  BY <1>14
<1> QED
  BY <1>1, <1>2, <1>3, <1>4, <1>5, <1>6, <1>7, <1>8, <1>9, <1>10, <1>11, <1>12,
     <1>13, <1>14, <1>15 DEF ReceiptsNext

(* What the property asks of the page follows from its invariant.          *)
LEMMA ReviewInvShows == ReviewInv => ReviewKept
BY DEF ReviewInv, Kept, ReviewKept
-----------------------------------------------------------------------------
(***************************************************************************)
(* The query cache, for any number of changes and of handlers at once.     *)
(* What is drawn says nothing of a fetch in flight or of a mark; the       *)
(* invariant is about what will be drawn: from the moment a handler has    *)
(* its refresh under way, its change is in the data, or its source had it  *)
(* not, or it will be in those of the fetch in flight, or the next page to *)
(* open will fetch them.  That needs what the sources have: a change is at *)
(* the server or in the queue, and in the mirror if that is written with   *)
(* it and no pass took it out.                                             *)
(***************************************************************************)

ChangeOps ==
  {"accountSave", "accountDelete", "categorySave", "categoryDelete", "budgetSave",
   "budgetDelete", "alertAck", "ledgerCreate", "ledgerMigrate", "txSave", "txDelete"}

Fetch == [since : Nat, server : SUBSET Nat]

Entry == [has : BOOLEAN, seen : SUBSET Nat, lacks : SUBSET Nat, fresh : BOOLEAN,
          invalid : BOOLEAN, fetch : {None} \cup Fetch, failed : BOOLEAN]

Running == [op : ChangeOps, at : {"save", "load", "refresh"}, id : Nat, here : BOOLEAN]

Cache == [key : Keys, home : BOOLEAN, page : CachedPages, shown : BOOLEAN,
          dialog : ChangeOps \cup {None}, entry : Entry, tasks : SUBSET Running,
          changes : Seq(ChangeOps), server : SUBSET Nat, mirror : SUBSET Nat,
          local : SUBSET Nat, over : SUBSET Nat, done : SUBSET Nat, missed : SUBSET Nat]

(* The entry has change id, or its source did not have it, or it will be   *)
(* fetched before a page draws it again, unless a fetch fails.             *)
Brings(e, id) ==
  IF e.fetch # None THEN id <= e.fetch.since
  ELSE e.has => id \in e.seen \cup e.lacks \/ e.invalid \/ e.failed

(* What the handler of a change is to show.                                *)
Shows(op) == Concerns(op) \ Overlooked(op)

Refreshing(s) == {t.id : t \in {u \in s.tasks : u.at = "refresh"}}

(* A handler that has saved knows which change it made.                    *)
Knows(s, t) ==
  /\ t.at # "save" => t.id \in 1..Len(s.changes) /\ s.changes[t.id] = t.op
  /\ t.at = "load" => t.op \in {"txSave", "txDelete"}

Numbered(s) == s.done \subseteq 1..Len(s.changes) /\ \A t \in s.tasks : Knows(s, t)

Brought(s) ==
  \A id \in (s.done \cup Refreshing(s)) \ s.missed :
    s.key \in Shows(s.changes[id]) => Brings(s.entry, id)

(* What server, queue and mirror have, and what the server had when the    *)
(* fetch in flight began.                                                  *)
Heard(s) == s.done \cup {t.id : t \in {u \in s.tasks : u.at # "save"}}

Sources(s) ==
  /\ \A id \in 1..Len(s.changes) : id \in s.server \cup s.local
  /\ \A id \in Heard(s) : s.key \in Mirrored(s.changes[id]) => id \in s.mirror \cup s.over
  /\ s.entry.fetch # None =>
       \A id \in 1..s.entry.fetch.since : id \in s.entry.fetch.server \cup s.local

(* An entry that is in use and marked is being fetched, or could not be.   *)
Rests(e) == e.fetch # None \/ ~e.invalid \/ e.failed

UsedBy(s) == s.key \in Queries[s.page] /\ (s.key \in PerMonth => s.shown)

CacheInv(s) ==
  /\ s \in Cache /\ Numbered(s) /\ Brought(s) /\ Sources(s)
  /\ UsedBy(s) => Rests(s.entry)

(* What is done to an entry, and what it brings then.                      *)
LEMMA EntryOps ==
  ASSUME NEW e \in Entry, NEW n \in Fetch
  PROVE  /\ Fetched(e, n) \in Entry /\ Mounted(e, n) \in Entry /\ Refetched(e, n) \in Entry
         /\ \A b \in BOOLEAN : Invalidated(e, b, n) \in Entry
         /\ \A seen, lacks \in SUBSET Nat : Answered(e, seen, lacks) \in Entry
         /\ Failed(e) \in Entry
         /\ [e EXCEPT !.fresh = FALSE] \in Entry
         /\ NoEntry \in Entry
<1>1. Fetched(e, n) \in Entry
  BY DEF Entry, Fetched
<1>2. [e EXCEPT !.invalid = TRUE] \in Entry
  BY DEF Entry
<1>3. Fetched([e EXCEPT !.invalid = TRUE], n) \in Entry
  BY <1>2 DEF Entry, Fetched
<1>4. \A b \in BOOLEAN : Invalidated(e, b, n) \in Entry
  BY <1>2, <1>3 DEF Invalidated, Refetched
<1>5. (\A seen, lacks \in SUBSET Nat : Answered(e, seen, lacks) \in Entry) /\ Failed(e) \in Entry
  BY DEF Entry, Answered, Failed
<1>6. [e EXCEPT !.fresh = FALSE] \in Entry /\ NoEntry \in Entry
  BY DEF Entry, NoEntry
<1> QED
  BY <1>1, <1>4, <1>5, <1>6 DEF Mounted, Refetched

LEMMA Fetching ==
  ASSUME NEW e \in Entry, NEW n \in Fetch
  PROVE  /\ Fetched(e, n).fetch = n /\ Fetched(e, n).fetch # None
         /\ \A id : id <= n.since => Brings(Fetched(e, n), id)
         /\ Rests(Fetched(e, n))
<1>1. Fetched(e, n).fetch = n
  BY DEF Entry, Fetched
<1>2. n # None
  BY QueryAssumption DEF Fetch
<1> QED
  BY <1>1, <1>2 DEF Brings, Rests

(* A mount, a refetch or an invalidation loses nothing; the latter two     *)
(* bring what was changed, if they are not overtaken.                      *)
LEMMA EntryBrings ==
  ASSUME NEW e \in Entry, NEW n \in Fetch, NEW id \in Nat, id <= n.since
  PROVE  /\ Brings(e, id) => Brings(Mounted(e, n), id)
         /\ Brings(e, id) => Brings(Refetched(e, n), id)
         /\ \A b \in BOOLEAN : Brings(e, id) => Brings(Invalidated(e, b, n), id)
         /\ ~isLoading(e) => Brings(Refetched(e, n), id)
         /\ \A b \in BOOLEAN : ~Overtakes(e, b) => Brings(Invalidated(e, b, n), id)
<1> DEFINE m == [e EXCEPT !.invalid = TRUE]
<1>1. m \in Entry
  BY DEF Entry
<1>2. /\ m.fetch = e.fetch /\ m.has = e.has /\ m.seen = e.seen /\ m.lacks = e.lacks
      /\ m.failed = e.failed /\ m.invalid
  BY DEF Entry
<1>3. \A b \in BOOLEAN : Invalidated(e, b, n) = IF b THEN Refetched(m, n) ELSE m
  BY DEF Invalidated
<1> HIDE DEF m
<1>4. isLoading(m) <=> isLoading(e)
  BY <1>2 DEF isLoading
<1>5. Brings(e, id) => Brings(m, id)
  BY <1>2 DEF Brings
<1>6. Brings(Fetched(e, n), id) /\ Brings(Fetched(m, n), id)
  BY <1>1, Fetching
<1>7. ASSUME NEW b \in BOOLEAN, ~Overtakes(e, b)
      PROVE  Brings(Invalidated(e, b, n), id)
  <2>1. CASE b
    BY <1>3, <1>4, <1>6, <1>7, <2>1 DEF Overtakes, Refetched, isLoading
  <2>2. CASE ~b
    BY <1>2, <1>3, <1>7, <2>2 DEF Overtakes, Brings
  <2> QED
    BY <2>1, <2>2
<1> QED
  BY <1>3, <1>4, <1>5, <1>6, <1>7 DEF Mounted, Refetched

(* They leave the fetch in flight, or begin one.                           *)
LEMMA EntryFetch ==
  ASSUME NEW e \in Entry, NEW n \in Fetch
  PROVE  /\ Mounted(e, n).fetch \in {e.fetch, n} /\ Refetched(e, n).fetch \in {e.fetch, n}
         /\ \A b \in BOOLEAN : Invalidated(e, b, n).fetch \in {e.fetch, n}
<1>1. [e EXCEPT !.invalid = TRUE] \in Entry /\ [e EXCEPT !.invalid = TRUE].fetch = e.fetch
  BY DEF Entry
<1>2. Fetched(e, n).fetch = n /\ Fetched([e EXCEPT !.invalid = TRUE], n).fetch = n
  BY <1>1, Fetching
<1> QED
  BY <1>1, <1>2 DEF Mounted, Refetched, Invalidated

LEMMA EntryRests ==
  ASSUME NEW e \in Entry, NEW n \in Fetch
  PROVE  /\ Rests(Mounted(e, n))
         /\ Rests(e) => Rests(Refetched(e, n))
         /\ Rests(Invalidated(e, TRUE, n))
         /\ \A seen, lacks : Rests(Answered(e, seen, lacks))
         /\ Rests(Failed(e))
<1>1. Rests(Fetched(e, n)) /\ Rests(Fetched([e EXCEPT !.invalid = TRUE], n))
  <2>1. [e EXCEPT !.invalid = TRUE] \in Entry
    BY DEF Entry
  <2> QED
    BY <2>1, Fetching
<1>2. Rests(Mounted(e, n))
  BY <1>1 DEF Mounted, Rests
<1>3. Rests(Invalidated(e, TRUE, n))
  <2>1. isLoading([e EXCEPT !.invalid = TRUE]) => [e EXCEPT !.invalid = TRUE].fetch # None
    BY DEF isLoading
  <2> QED
    BY <1>1, <2>1 DEF Invalidated, Refetched, Rests
<1>4. (\A seen, lacks : Rests(Answered(e, seen, lacks))) /\ Rests(Failed(e))
  BY DEF Entry, Rests, Answered, Failed
<1> QED
  BY <1>1, <1>2, <1>3, <1>4 DEF Refetched

(* A step that keeps the changes, ends no refresh unseen and loses nothing *)
(* the entry brings.                                                       *)
LEMMA CacheKept ==
  ASSUME CacheInv(qc), NEW s \in Cache, s.key = qc.key,
         Len(qc.changes) <= Len(s.changes),
         \A i \in 1..Len(qc.changes) : s.changes[i] = qc.changes[i],
         s.done \cup Refreshing(s) \subseteq qc.done \cup Refreshing(qc),
         qc.missed \subseteq s.missed,
         \A t \in s.tasks : Knows(s, t), Sources(s),
         \A id \in qc.done \cup Refreshing(qc) : Brings(qc.entry, id) => Brings(s.entry, id),
         UsedBy(s) => Rests(s.entry)
  PROVE  CacheInv(s)
<1>1. Len(qc.changes) \in Nat /\ Len(s.changes) \in Nat
  BY DEF CacheInv, Cache
<1>2. qc.done \cup Refreshing(qc) \subseteq 1..Len(qc.changes)
  BY DEF CacheInv, Numbered, Knows, Refreshing
<1>3. Numbered(s)
  <2>1. s.done \subseteq 1..Len(qc.changes)
    BY <1>2
  <2> QED
    BY <1>1, <2>1 DEF Numbered
<1>4. Brought(s)
  <2> SUFFICES ASSUME NEW id \in (s.done \cup Refreshing(s)) \ s.missed,
                      s.key \in Shows(s.changes[id])
               PROVE  Brings(s.entry, id)
    BY DEF Brought
  <2>1. id \in (qc.done \cup Refreshing(qc)) \ qc.missed /\ id \in 1..Len(qc.changes)
    BY <1>2
  <2>2. Brings(qc.entry, id)
    BY <2>1 DEF CacheInv, Brought
  <2> QED
    BY <2>1, <2>2
<1> QED
  BY <1>3, <1>4 DEF CacheInv

(* A step that takes nothing from a source, and asks the server for what   *)
(* it has if it asks at all.                                               *)
LEMMA SourcesKept ==
  ASSUME NEW w \in Cache, NEW s \in Cache, Sources(w),
         s.key = w.key, s.changes = w.changes, s.local = w.local,
         w.server \subseteq s.server, w.mirror \cup w.over \subseteq s.mirror \cup s.over,
         Heard(s) \subseteq Heard(w),
         s.entry.fetch \in {w.entry.fetch, None, Asked(w)}
  PROVE  Sources(s)
<1>1. \A id \in 1..Len(s.changes) : id \in s.server \cup s.local
  BY DEF Sources
<1>2. \A id \in Heard(s) : s.key \in Mirrored(s.changes[id]) => id \in s.mirror \cup s.over
  BY DEF Sources
<1>3. ASSUME s.entry.fetch # None, NEW id \in 1..s.entry.fetch.since
      PROVE  id \in s.entry.fetch.server \cup s.local
  <2>1. CASE s.entry.fetch = w.entry.fetch
    BY <1>3, <2>1 DEF Sources
  <2>2. CASE s.entry.fetch = Asked(w)
    <3>1. s.entry.fetch.since = Len(w.changes) /\ s.entry.fetch.server = w.server
      BY <2>2 DEF Asked
    <3> QED
      BY <1>3, <3>1 DEF Sources
  <2> QED
    BY <1>3, <2>1, <2>2
<1> QED
  BY <1>1, <1>2, <1>3 DEF Sources

LEMMA AskedIs ==
  ASSUME NEW s \in Cache
  PROVE  Asked(s) \in Fetch /\ Asked(s).since = Len(s.changes)
BY DEF Asked, Fetch, Cache

LEMMA InitCacheInv == CacheInit => CacheInv(qc)
<1> SUFFICES ASSUME CacheInit PROVE CacheInv(qc)
  OBVIOUS
<1>1. PICK k \in Keys, h \in BOOLEAN, p \in CachedPages : qc = FreshCache(k, h, p)
  <2>1. PerMonth \subseteq Keys
    BY DEF PerMonth, Keys, CachedPages, Queries, DashboardQueries, BudgetsQueries, ReportsQueries
  <2>2. \/ \E k \in Keys, p \in CachedPages : qc = FreshCache(k, TRUE, p)
        \/ \E k \in PerMonth, h \in BOOLEAN, p \in CachedPages : qc = FreshCache(k, h, p)
    BY DEF CacheInit, CacheFresh, FreshCache
  <2>3. CASE \E k \in Keys, p \in CachedPages : qc = FreshCache(k, TRUE, p)
    <3>1. PICK k \in Keys, p \in CachedPages : qc = FreshCache(k, TRUE, p)
      BY <2>3
    <3> WITNESS k \in Keys, TRUE \in BOOLEAN, p \in CachedPages
    <3> QED
      BY <3>1
  <2> QED
    BY <2>1, <2>2, <2>3
<1> DEFINE first == [since |-> 0, server |-> {}]
<1>2. first \in Fetch /\ NoEntry \in Entry /\ Fetched(NoEntry, first) \in Entry
  <2>1. NoEntry \in Entry /\ first \in Fetch
    BY DEF NoEntry, Entry, Fetch
  <2> QED
    BY <2>1, EntryOps
<1>3. qc.entry \in {NoEntry, Fetched(NoEntry, first)}
  BY <1>1 DEF FreshCache
<1>4. qc \in Cache
  <2>1. <<>> \in Seq(ChangeOps)
    OBVIOUS
  <2> QED
    BY <1>1, <1>2, <2>1 DEF FreshCache, Cache
<1>5. qc.done = {} /\ qc.tasks = {} /\ qc.changes = <<>>
  BY <1>1 DEF FreshCache
<1>6. Rests(qc.entry)
  <2>1. Rests(NoEntry)
    BY DEF Rests, NoEntry
  <2>2. Rests(Fetched(NoEntry, first))
    BY EntryOps, <1>2, Fetching
  <2> QED
    BY <1>3, <2>1, <2>2
<1>7. Sources(qc)
  <2>1. qc.entry.fetch # None => qc.entry.fetch = first
    <3>1. NoEntry.fetch = None
      BY DEF NoEntry
    <3>2. Fetched(NoEntry, first).fetch = first
      BY <1>2, Fetching
    <3> QED
      BY <1>3, <3>1, <3>2
  <2>2. Heard(qc) = {} /\ Len(qc.changes) = 0
    BY <1>5 DEF Heard
  <2> QED
    BY <2>1, <2>2 DEF Sources
<1> QED
  BY <1>4, <1>5, <1>6, <1>7 DEF CacheInv, Numbered, Brought, Refreshing

(* The fields of the cache, and what is known of the changes.              *)
LEMMA CacheFields ==
  ASSUME CacheInv(qc)
  PROVE  /\ qc \in Cache /\ qc.key \in Keys /\ qc.home \in BOOLEAN /\ qc.page \in CachedPages
         /\ qc.shown \in BOOLEAN /\ qc.dialog \in ChangeOps \cup {None}
         /\ qc.entry \in Entry /\ qc.tasks \subseteq Running
         /\ qc.changes \in Seq(ChangeOps) /\ qc.done \subseteq Nat /\ qc.missed \subseteq Nat
         /\ qc.server \subseteq Nat /\ qc.mirror \subseteq Nat
         /\ qc.local \subseteq Nat /\ qc.over \subseteq Nat
         /\ Asked(qc) \in Fetch /\ Asked(qc).since = Now
         /\ Now \in Nat /\ Now = Len(qc.changes) /\ (Used <=> UsedBy(qc))
         /\ \A t \in qc.tasks : Knows(qc, t)
         /\ \A id \in 1..Len(qc.changes) : id \in Nat /\ id <= Now
         /\ qc.done \cup Refreshing(qc) \subseteq Heard(qc)
         /\ Heard(qc) \subseteq 1..Len(qc.changes)
<1>1. Asked(qc) \in Fetch /\ Asked(qc).since = Now
  BY AskedIs DEF CacheInv, Now
<1>2. qc.done \cup Refreshing(qc) \subseteq Heard(qc)
  BY DEF Heard, Refreshing
<1>3. Heard(qc) \subseteq 1..Len(qc.changes)
  BY DEF Heard, CacheInv, Numbered, Knows
<1> QED
  BY <1>1, <1>2, <1>3 DEF CacheInv, Cache, Now, Used, UsedBy, InUse, Numbered

(* A step that changes neither the changes nor the history.                *)
LEMMA Browsed ==
  ASSUME CacheInv(qc), NEW page \in CachedPages, NEW shown \in BOOLEAN,
         NEW dialog \in ChangeOps \cup {None}, NEW entry \in Entry,
         NEW tasks \in SUBSET Running,
         qc' = [qc EXCEPT !.page = page, !.shown = shown, !.dialog = dialog,
                          !.entry = entry, !.tasks = tasks],
         \A t \in tasks :
           \/ t.at = "save"
           \/ \E u \in qc.tasks : u.at = t.at /\ u.id = t.id /\ u.op = t.op,
         \A id \in qc.done \cup Refreshing(qc) : Brings(qc.entry, id) => Brings(entry, id),
         entry.fetch \in {qc.entry.fetch, None, Asked(qc)},
         InUse(page, shown) => Rests(entry)
  PROVE  CacheInv(qc')
<1> USE CacheFields
<1>1. qc' \in Cache
  BY DEF Cache
<1>2. /\ qc'.key = qc.key /\ qc'.changes = qc.changes /\ qc'.done = qc.done
      /\ qc'.missed = qc.missed /\ qc'.tasks = tasks /\ qc'.entry = entry
      /\ qc'.page = page /\ qc'.shown = shown
      /\ qc'.server = qc.server /\ qc'.local = qc.local
      /\ qc'.mirror = qc.mirror /\ qc'.over = qc.over
  BY DEF Cache
<1>3. Refreshing(qc') \subseteq Refreshing(qc)
  BY <1>2 DEF Refreshing
<1>4. \A t \in qc'.tasks : Knows(qc', t)
  BY <1>2 DEF Knows
<1>5. UsedBy(qc') => Rests(qc'.entry)
  BY <1>2 DEF UsedBy, InUse
<1>6. Len(qc.changes) <= Len(qc'.changes)
  BY <1>2
<1>7. \A id \in qc.done \cup Refreshing(qc) : Brings(qc.entry, id) => Brings(qc'.entry, id)
  BY <1>2
<1>8. /\ qc'.done \cup Refreshing(qc') \subseteq qc.done \cup Refreshing(qc)
      /\ qc.missed \subseteq qc'.missed
      /\ \A i \in 1..Len(qc.changes) : qc'.changes[i] = qc.changes[i]
  BY <1>2, <1>3
<1>9. Sources(qc')
  <2>1. Heard(qc') \subseteq Heard(qc)
    BY <1>2 DEF Heard
  <2>2. Sources(qc) /\ qc \in Cache
    BY DEF CacheInv
  <2>3. qc'.entry.fetch \in {qc.entry.fetch, None, Asked(qc)}
    BY <1>2
  <2>4. /\ qc'.key = qc.key /\ qc'.changes = qc.changes /\ qc'.local = qc.local
        /\ qc.server \subseteq qc'.server
        /\ qc.mirror \cup qc.over \subseteq qc'.mirror \cup qc'.over
    BY <1>2
  <2> HIDE CacheFields
  <2> QED
    BY ONLY <1>1, <2>1, <2>2, <2>3, <2>4, SourcesKept
<1> HIDE CacheFields
<1> QED
  BY <1>1, <1>2, <1>4, <1>5, <1>6, <1>7, <1>8, <1>9, CacheKept

(* Pages are opened, months turned, fetches end, time passes.              *)
LEMMA BrowseStep ==
  ASSUME CacheInv(qc),
         \/ \E p \in CachedPages : OpenPage(p)
         \/ DashboardMonth \/ BudgetsMonth \/ ReportsRange
         \/ QueryEnds \/ HalfMinute \/ Collect \/ Reconnected
  PROVE  CacheInv(qc')
<1> USE CacheFields
<1> DEFINE mounted == Mounted(qc.entry, Asked(qc))
<1>1. mounted \in Entry /\ Rests(mounted) /\ mounted.fetch \in {qc.entry.fetch, Asked(qc)}
  BY EntryOps, EntryRests, EntryFetch
<1>2. \A id \in 1..Len(qc.changes) : Brings(qc.entry, id) => Brings(mounted, id)
  BY EntryBrings
<1> HIDE DEF mounted
<1>3. CASE \E p \in CachedPages : OpenPage(p)
  <2>1. PICK p \in CachedPages : OpenPage(p)
    BY <1>3
  <2> DEFINE tasks == {[t EXCEPT !.here = FALSE] : t \in qc.tasks}
             entry == IF InUse(p, qc.home) THEN mounted ELSE qc.entry
  <2>2. tasks \subseteq Running
    BY DEF Running
  <2>3. \A t \in tasks : \E u \in qc.tasks : u.at = t.at /\ u.id = t.id /\ u.op = t.op
    BY DEF Running
  <2>4. qc' = [qc EXCEPT !.page = p, !.shown = qc.home, !.dialog = None,
                         !.entry = entry, !.tasks = tasks]
    BY <2>1 DEF OpenPage, Cache, mounted
  <2>5. /\ entry \in Entry /\ entry.fetch \in {qc.entry.fetch, None, Asked(qc)}
        /\ \A id \in qc.done \cup Refreshing(qc) : Brings(qc.entry, id) => Brings(entry, id)
        /\ InUse(p, qc.home) => Rests(entry)
    BY <1>1, <1>2
  <2>6. tasks \in SUBSET Running /\ None \in ChangeOps \cup {None} /\ qc.home \in BOOLEAN
    BY <2>2
  <2> HIDE CacheFields DEF tasks, entry
  <2> QED
    BY <2>3, <2>4, <2>5, <2>6, Browsed
<1>4. CASE DashboardMonth \/ BudgetsMonth \/ ReportsRange
  <2> DEFINE entry == IF InUse(qc.page, ~qc.shown) THEN mounted ELSE qc.entry
  <2>1. qc' = [qc EXCEPT !.page = qc.page, !.shown = ~qc.shown, !.dialog = qc.dialog,
                         !.entry = entry, !.tasks = qc.tasks]
    BY <1>4 DEF DashboardMonth, BudgetsMonth, ReportsRange, Turned, Cache, mounted
  <2>2. /\ entry \in Entry /\ entry.fetch \in {qc.entry.fetch, None, Asked(qc)}
        /\ \A id \in qc.done \cup Refreshing(qc) : Brings(qc.entry, id) => Brings(entry, id)
        /\ InUse(qc.page, ~qc.shown) => Rests(entry)
    BY <1>1, <1>2
  <2>3. (~qc.shown) \in BOOLEAN
    OBVIOUS
  <2> HIDE DEF entry
  <2> QED
    BY <2>1, <2>2, <2>3, Browsed
<1>5. ASSUME NEW entry \in Entry, qc' = [qc EXCEPT !.entry = entry],
             \A id \in qc.done \cup Refreshing(qc) : Brings(qc.entry, id) => Brings(entry, id),
             entry.fetch \in {qc.entry.fetch, None, Asked(qc)},
             Used => Rests(entry)
      PROVE  CacheInv(qc')
  <2>1. qc' = [qc EXCEPT !.page = qc.page, !.shown = qc.shown, !.dialog = qc.dialog,
                         !.entry = entry, !.tasks = qc.tasks]
    BY <1>5 DEF Cache
  <2>2. /\ qc.tasks \in SUBSET Running /\ (InUse(qc.page, qc.shown) => Rests(entry))
        /\ qc.page \in CachedPages /\ qc.shown \in BOOLEAN
        /\ qc.dialog \in ChangeOps \cup {None}
    BY <1>5 DEF Used
  <2>3. \A t \in qc.tasks : \E u \in qc.tasks : u.at = t.at /\ u.id = t.id /\ u.op = t.op
    OBVIOUS
  <2> DEFINE page == qc.page
             shown == qc.shown
             dialog == qc.dialog
             tasks == qc.tasks
  <2>4. /\ page \in CachedPages /\ shown \in BOOLEAN /\ dialog \in ChangeOps \cup {None}
        /\ tasks \in SUBSET Running
        /\ qc' = [qc EXCEPT !.page = page, !.shown = shown, !.dialog = dialog,
                            !.entry = entry, !.tasks = tasks]
        /\ \A t \in tasks : \E u \in qc.tasks : u.at = t.at /\ u.id = t.id /\ u.op = t.op
        /\ InUse(page, shown) => Rests(entry)
    BY <2>1, <2>2, <2>3
  <2>5. /\ \A id \in qc.done \cup Refreshing(qc) : Brings(qc.entry, id) => Brings(entry, id)
        /\ entry.fetch \in {qc.entry.fetch, None, Asked(qc)}
    BY <1>5
  <2> HIDE CacheFields DEF page, shown, dialog, tasks
  <2> QED
    BY <2>4, <2>5, Browsed
<1>6. CASE QueryEnds
  <2>3. ASSUME NEW seen \in SUBSET Nat, NEW lacks \in SUBSET Nat,
               qc' = [qc EXCEPT !.entry = Answered(qc.entry, seen, lacks)],
               \A id \in qc.done \cup Refreshing(qc) :
                 id <= qc.entry.fetch.since => id \in seen \cup lacks
        PROVE  CacheInv(qc')
    <3> DEFINE e == Answered(qc.entry, seen, lacks)
    <3>1. /\ e.fetch = None /\ e.seen = seen /\ e.lacks = lacks /\ e.invalid = FALSE
          /\ e \in Entry /\ Rests(e)
      BY EntryOps, EntryRests DEF Answered, Entry
    <3>2. qc.entry.fetch # None
      BY <1>6 DEF QueryEnds
    <3> HIDE DEF e
    <3>3. \A id \in qc.done \cup Refreshing(qc) : Brings(qc.entry, id) => Brings(e, id)
      BY <2>3, <3>1, <3>2 DEF Brings
    <3> QED
      BY <1>5, <2>3, <3>1, <3>3 DEF e
  <2>4. qc.entry.fetch # None /\ qc.entry.fetch \in Fetch /\ qc.entry.fetch.since \in Nat
    BY <1>6 DEF QueryEnds, Entry, Fetch
  <2>5. Unsent \in SUBSET Nat /\ Unmirrored \in SUBSET Nat
    BY <2>4 DEF Unsent, Unmirrored
  <2>1. CASE \E got \in SUBSET (qc.server \ qc.entry.fetch.server) :
               qc' = [qc EXCEPT !.entry = Answered(@, @.fetch.server \cup got, Unsent)]
    <3>1. PICK got \in SUBSET (qc.server \ qc.entry.fetch.server) :
            qc' = [qc EXCEPT !.entry = Answered(qc.entry, qc.entry.fetch.server \cup got, Unsent)]
      BY <2>1
    <3>2. qc.entry.fetch.server \cup got \in SUBSET Nat
      BY <2>4 DEF Fetch
    <3>3. ASSUME NEW id \in qc.done \cup Refreshing(qc), id <= qc.entry.fetch.since
          PROVE  id \in qc.entry.fetch.server \cup got \cup Unsent
      <4>1. id \in 1..qc.entry.fetch.since
        BY <2>4, <3>3
      <4>2. id \in qc.entry.fetch.server \cup qc.local
        BY <2>4, <4>1 DEF CacheInv, Sources
      <4> QED
        BY <3>3, <4>2 DEF Unsent
    <3> HIDE CacheFields
    <3> QED
      BY <2>3, <2>5, <3>1, <3>2, <3>3
  <2>6. CASE qc' = [qc EXCEPT !.entry = Answered(@, qc.mirror, Unmirrored)]
    <3>1. ASSUME NEW id \in qc.done \cup Refreshing(qc), id <= qc.entry.fetch.since
          PROVE  id \in qc.mirror \cup Unmirrored
      <4>1. id \in 1..qc.entry.fetch.since
        BY <2>4, <3>1
      <4>2. qc.key \in Mirrored(qc.changes[id]) => id \in qc.mirror \cup qc.over
        BY DEF CacheInv, Sources
      <4> QED
        BY <4>1, <4>2 DEF Unmirrored
    <3>2. qc' = [qc EXCEPT !.entry = Answered(qc.entry, qc.mirror, Unmirrored)]
      BY <2>6
    <3>3. qc.mirror \in SUBSET Nat
      OBVIOUS
    <3> HIDE CacheFields
    <3> QED
      BY <2>3, <2>5, <3>1, <3>2, <3>3
  <2>2. CASE qc' = [qc EXCEPT !.entry = Failed(@)]
    <3>1. /\ Failed(qc.entry).fetch = None /\ Failed(qc.entry).failed = TRUE
          /\ Failed(qc.entry) \in Entry
      BY DEF Failed, Entry
    <3>2. \A id \in 1..Len(qc.changes) : Brings(Failed(qc.entry), id)
      BY <3>1 DEF Brings
    <3> QED
      BY <1>5, <2>2, <3>1, <3>2 DEF Rests
  <2> QED
    BY <1>6, <2>1, <2>2, <2>6 DEF QueryEnds
<1>7. CASE HalfMinute
  <2> DEFINE e == [qc.entry EXCEPT !.fresh = FALSE]
  <2>1. qc' = [qc EXCEPT !.entry = e]
    BY <1>7 DEF HalfMinute
  <2>2. e \in Entry
    BY EntryOps
  <2>3. /\ e.fetch = qc.entry.fetch /\ e.has = qc.entry.has /\ e.seen = qc.entry.seen
        /\ e.lacks = qc.entry.lacks /\ e.failed = qc.entry.failed /\ e.invalid = qc.entry.invalid
    BY DEF Entry
  <2>4. Used => Rests(qc.entry)
    BY DEF CacheInv
  <2> HIDE DEF e
  <2> QED
    BY <1>5, <2>1, <2>2, <2>3, <2>4 DEF Brings, Rests
<1>8. CASE Collect
  <2>1. NoEntry \in Entry /\ qc' = [qc EXCEPT !.entry = NoEntry] /\ ~Used
    BY <1>8, EntryOps DEF Collect
  <2>2. (\A id : Brings(NoEntry, id)) /\ NoEntry.fetch = None
    BY DEF Brings, NoEntry
  <2> QED
    BY <1>5, <2>1, <2>2
<1>9. CASE Reconnected
  <2>1. qc' = [qc EXCEPT !.entry = mounted]
    BY <1>9 DEF Reconnected, mounted
  <2> QED
    BY <1>1, <1>2, <1>5, <2>1
<1> QED
  BY <1>3, <1>4, <1>6, <1>7, <1>8, <1>9

(* A pass of the sync moves changes to the server, and in and out of the   *)
(* mirror.                                                                 *)
LEMMA SyncStep ==
  ASSUME CacheInv(qc), SyncPushes \/ SyncPulls
  PROVE  CacheInv(qc')
<1> USE CacheFields
<1>1. PICK server \in SUBSET Nat, mirror \in SUBSET Nat, over \in SUBSET Nat :
        /\ qc' = [qc EXCEPT !.server = server, !.mirror = mirror, !.over = over]
        /\ qc.server \subseteq server /\ qc.mirror \cup qc.over \subseteq mirror \cup over
  <2>1. CASE SyncPushes
    <3>1. PICK id \in qc.local \ qc.server : qc' = [qc EXCEPT !.server = @ \cup {id}]
      BY <2>1 DEF SyncPushes
    <3> DEFINE server == qc.server \cup {id}
    <3>2. server \in SUBSET Nat /\ qc.server \subseteq server
      OBVIOUS
    <3>3. qc' = [qc EXCEPT !.server = server, !.mirror = qc.mirror, !.over = qc.over]
      BY <3>1 DEF Cache
    <3> HIDE DEF server
    <3> QED
      BY <3>2, <3>3
  <2>2. CASE SyncPulls
    <3>4. PICK got \in SUBSET (qc.server \cup qc.over) : \E lost \in SUBSET (qc.mirror \ got) :
            qc' = [qc EXCEPT !.mirror = (@ \cup got) \ lost, !.over = (@ \ got) \cup lost]
      BY <2>2 DEF SyncPulls
    <3>1. PICK lost \in SUBSET (qc.mirror \ got) :
            qc' = [qc EXCEPT !.mirror = (@ \cup got) \ lost, !.over = (@ \ got) \cup lost]
      BY <3>4
    <3> DEFINE mirror == (qc.mirror \cup got) \ lost
               over == (qc.over \ got) \cup lost
    <3>2. /\ mirror \in SUBSET Nat /\ over \in SUBSET Nat
          /\ qc.mirror \cup qc.over \subseteq mirror \cup over
      OBVIOUS
    <3>3. qc' = [qc EXCEPT !.server = qc.server, !.mirror = mirror, !.over = over]
      BY <3>1 DEF Cache
    <3> HIDE DEF mirror, over
    <3> QED
      BY <3>2, <3>3
  <2> QED
    BY <2>1, <2>2
<1>2. qc' \in Cache
  BY <1>1 DEF Cache
<1>3. /\ qc'.key = qc.key /\ qc'.changes = qc.changes /\ qc'.done = qc.done
      /\ qc'.missed = qc.missed /\ qc'.tasks = qc.tasks /\ qc'.entry = qc.entry
      /\ qc'.page = qc.page /\ qc'.shown = qc.shown /\ qc'.local = qc.local
      /\ qc'.server = server /\ qc'.mirror = mirror /\ qc'.over = over
  BY <1>1 DEF Cache
<1>4. Sources(qc')
  <2>1. Heard(qc') = Heard(qc) /\ Sources(qc) /\ qc \in Cache
    BY <1>3 DEF Heard, CacheInv
  <2>2. qc'.entry.fetch \in {qc.entry.fetch, None, Asked(qc)}
    BY <1>3
  <2>3. qc.server \subseteq qc'.server /\ qc.mirror \cup qc.over \subseteq qc'.mirror \cup qc'.over
    BY <1>1, <1>3
  <2> HIDE CacheFields
  <2> QED
    BY <1>2, <1>3, <2>1, <2>2, <2>3, SourcesKept
<1>5. \A t \in qc'.tasks : Knows(qc', t)
  BY <1>3 DEF Knows
<1>6. UsedBy(qc') => Rests(qc'.entry)
  BY <1>3 DEF UsedBy, CacheInv
<1>7. Refreshing(qc') = Refreshing(qc)
  BY <1>3 DEF Refreshing
<1>8. /\ qc'.done \cup Refreshing(qc') \subseteq qc.done \cup Refreshing(qc)
      /\ qc.missed \subseteq qc'.missed /\ Len(qc.changes) <= Len(qc'.changes)
      /\ \A i \in 1..Len(qc.changes) : qc'.changes[i] = qc.changes[i]
      /\ \A id \in qc.done \cup Refreshing(qc) : Brings(qc.entry, id) => Brings(qc'.entry, id)
  BY <1>3, <1>7
<1> HIDE CacheFields
<1> QED
  BY <1>2, <1>3, <1>4, <1>5, <1>6, <1>8, CacheKept

(* Dialogs open and close, handlers start.                                 *)
LEMMA OpensStep ==
  ASSUME CacheInv(qc), NEW page, NEW op \in ChangeOps, NEW whole,
         Opens(page, op) \/ CloseDialog(op, whole) \/ Starts(op)
  PROVE  CacheInv(qc')
<1> USE CacheFields
<1>1. ASSUME NEW dialog \in ChangeOps \cup {None}, NEW tasks \in SUBSET Running,
             qc' = [qc EXCEPT !.dialog = dialog, !.tasks = tasks],
             \A t \in tasks : t.at = "save" \/ t \in qc.tasks
      PROVE  CacheInv(qc')
  <2>1. qc' \in Cache
    BY <1>1 DEF Cache
  <2>2. /\ qc'.key = qc.key /\ qc'.changes = qc.changes /\ qc'.done = qc.done
        /\ qc'.missed = qc.missed /\ qc'.tasks = tasks /\ qc'.entry = qc.entry
        /\ qc'.page = qc.page /\ qc'.shown = qc.shown
        /\ qc'.server = qc.server /\ qc'.local = qc.local
        /\ qc'.mirror = qc.mirror /\ qc'.over = qc.over
    BY <1>1 DEF Cache
  <2>8. Sources(qc')
    <3>1. Heard(qc') \subseteq Heard(qc)
      BY <1>1, <2>2 DEF Heard
    <3>2. Sources(qc)
      BY DEF CacheInv
    <3> QED
      BY <2>1, <2>2, <3>1, <3>2, SourcesKept
  <2>3. Refreshing(qc') \subseteq Refreshing(qc)
    BY <1>1, <2>2 DEF Refreshing
  <2>4. \A t \in qc'.tasks : Knows(qc', t)
    BY <1>1, <2>2 DEF Knows
  <2>5. UsedBy(qc') => Rests(qc'.entry)
    BY <2>2 DEF UsedBy, CacheInv
  <2>6. Len(qc.changes) <= Len(qc'.changes)
    BY <2>2
  <2>7. /\ qc'.done \cup Refreshing(qc') \subseteq qc.done \cup Refreshing(qc)
        /\ qc.missed \subseteq qc'.missed
        /\ \A i \in 1..Len(qc.changes) : qc'.changes[i] = qc.changes[i]
        /\ \A id \in qc.done \cup Refreshing(qc) : Brings(qc.entry, id) => Brings(qc'.entry, id)
    BY <2>2, <2>3
  <2> HIDE CacheFields
  <2> QED
    BY <2>1, <2>2, <2>4, <2>5, <2>6, <2>7, <2>8, CacheKept
<1>2. CASE Opens(page, op)
  <2>1. qc' = [qc EXCEPT !.dialog = op, !.tasks = qc.tasks]
    BY <1>2 DEF Opens, Cache
  <2> QED
    BY <1>1, <2>1
<1>3. CASE CloseDialog(op, whole)
  <2>1. qc' = [qc EXCEPT !.dialog = None, !.tasks = qc.tasks]
    BY <1>3 DEF CloseDialog, Cache
  <2> QED
    BY <1>1, <2>1
<1>4. CASE Starts(op)
  <2> DEFINE t == [op |-> op, at |-> "save", id |-> 0, here |-> TRUE]
  <2>1. t \in Running /\ t.at = "save"
    BY DEF Running
  <2>2. qc' = [qc EXCEPT !.dialog = qc.dialog, !.tasks = qc.tasks \cup {t}]
    BY <1>4 DEF Starts, Cache
  <2>3. qc.tasks \cup {t} \in SUBSET Running /\ qc.dialog \in ChangeOps \cup {None}
    BY <2>1
  <2>4. \A u \in qc.tasks \cup {t} : u.at = "save" \/ u \in qc.tasks
    BY <2>1
  <2> DEFINE tasks == qc.tasks \cup {t}
  <2> HIDE CacheFields DEF tasks, t
  <2> QED
    BY <1>1, <2>2, <2>3, <2>4 DEF tasks
<1> QED
  BY <1>2, <1>3, <1>4

(* A change is made somewhere.                                             *)
LEMMA MadeIs ==
  ASSUME CacheInv(qc), NEW s \in Cache, s.changes = qc.changes, NEW op \in ChangeOps,
         s.server = qc.server, s.local = qc.local,
         NEW places \in Places(op)
  PROVE  LET w == Made(s, op, places)
         IN  /\ w \in Cache
             /\ w.key = s.key /\ w.page = s.page /\ w.shown = s.shown /\ w.entry = s.entry
             /\ w.done = s.done /\ w.missed = s.missed /\ w.tasks = s.tasks
             /\ w.mirror = s.mirror /\ w.over = s.over /\ w.dialog = s.dialog
             /\ w.changes = Append(qc.changes, op)
             /\ qc.server \subseteq w.server /\ qc.local \subseteq w.local
             /\ Now + 1 \in w.server \cup w.local
<1> USE CacheFields
<1> DEFINE changes == Append(qc.changes, op)
           server == IF "server" \in places THEN qc.server \cup {Now + 1} ELSE qc.server
           local == IF "queue" \in places THEN qc.local \cup {Now + 1} ELSE qc.local
           w == [s EXCEPT !.changes = changes, !.server = server, !.local = local]
<1>1. changes \in Seq(ChangeOps) /\ server \in SUBSET Nat /\ local \in SUBSET Nat
  <2>1. Now + 1 \in Nat
    OBVIOUS
  <2> QED
    BY <2>1
<1>2. Made(s, op, places) = w
  BY DEF Made
<1>3. Now + 1 \in server \cup local
  BY DEF Places
<1>4. qc.server \subseteq server /\ qc.local \subseteq local
  OBVIOUS
<1> HIDE DEF changes, server, local
<1>5. /\ w \in Cache
      /\ w.key = s.key /\ w.page = s.page /\ w.shown = s.shown /\ w.entry = s.entry
      /\ w.done = s.done /\ w.missed = s.missed /\ w.tasks = s.tasks
      /\ w.mirror = s.mirror /\ w.over = s.over /\ w.dialog = s.dialog
      /\ w.changes = changes /\ w.server = server /\ w.local = local
  BY <1>1 DEF Cache
<1> QED
  BY <1>2, <1>3, <1>4, <1>5 DEF changes

(* Then it is in a source, and nothing has left one.                       *)
LEMMA SourcesGrow ==
  ASSUME CacheInv(qc), NEW op \in ChangeOps, NEW w \in Cache,
         w.key = qc.key, w.entry = qc.entry, w.changes = Append(qc.changes, op),
         qc.server \subseteq w.server, qc.local \subseteq w.local,
         Now + 1 \in w.server \cup w.local,
         qc.mirror \cup qc.over \subseteq w.mirror \cup w.over,
         Heard(w) \subseteq Heard(qc) \cup {Now + 1},
         Now + 1 \in Heard(w) /\ qc.key \in Mirrored(op) => Now + 1 \in w.mirror \cup w.over
  PROVE  Sources(w)
<1> USE CacheFields
<1>1. Sources(qc)
  BY DEF CacheInv
<1>2. /\ Len(w.changes) = Now + 1 /\ w.changes[Now + 1] = op
      /\ \A i \in 1..Now : w.changes[i] = qc.changes[i]
  OBVIOUS
<1>3. \A id \in 1..Len(w.changes) : id \in w.server \cup w.local
  <2> SUFFICES ASSUME NEW id \in 1..Len(w.changes) PROVE id \in w.server \cup w.local
    OBVIOUS
  <2>1. id \in 1..Now \/ id = Now + 1
    BY <1>2
  <2>2. ASSUME id \in 1..Now PROVE id \in w.server \cup w.local
    BY <1>1, <2>2 DEF Sources
  <2> QED
    BY <2>1, <2>2
<1>4. \A id \in Heard(w) : w.key \in Mirrored(w.changes[id]) => id \in w.mirror \cup w.over
  <2> SUFFICES ASSUME NEW id \in Heard(w), w.key \in Mirrored(w.changes[id])
               PROVE  id \in w.mirror \cup w.over
    OBVIOUS
  <2>1. CASE id = Now + 1
    BY <1>2, <2>1
  <2>2. CASE id \in Heard(qc)
    <3>1. w.changes[id] = qc.changes[id]
      BY <1>2, <2>2
    <3> QED
      BY <1>1, <2>2, <3>1 DEF Sources
  <2> QED
    BY <2>1, <2>2
<1>5. w.entry.fetch # None =>
        \A id \in 1..w.entry.fetch.since : id \in w.entry.fetch.server \cup w.local
  BY <1>1 DEF Sources
<1> QED
  BY <1>3, <1>4, <1>5 DEF Sources

(* A handler whose change failed, or was made without an answer, is gone.  *)
LEMMA FailsStep ==
  ASSUME CacheInv(qc), NEW t \in qc.tasks, NEW closes, Fails(t, closes)
  PROVE  CacheInv(qc')
<1> USE CacheFields
<1> DEFINE dialog == IF t.here /\ closes /\ qc.dialog = t.op THEN None ELSE qc.dialog
           s == [qc EXCEPT !.tasks = qc.tasks \ {t}, !.dialog = dialog]
<1>1. qc' = s \/ \E places \in Places(t.op) : qc' = Made(s, t.op, places)
  BY DEF Fails
<1>2. dialog \in ChangeOps \cup {None} /\ t.op \in ChangeOps
  BY DEF Running
<1> HIDE DEF dialog
<1>3. /\ s \in Cache
      /\ s.key = qc.key /\ s.changes = qc.changes /\ s.done = qc.done
      /\ s.missed = qc.missed /\ s.tasks = qc.tasks \ {t} /\ s.entry = qc.entry
      /\ s.page = qc.page /\ s.shown = qc.shown
      /\ s.server = qc.server /\ s.local = qc.local
      /\ s.mirror = qc.mirror /\ s.over = qc.over
  BY <1>2 DEF Cache
<1> HIDE DEF s
<1>4. Heard(s) \subseteq Heard(qc)
  BY <1>3 DEF Heard
<1> DEFINE Left(x) ==
             /\ x \in Cache
             /\ x.key = qc.key /\ x.done = qc.done /\ x.missed = qc.missed
             /\ x.tasks = qc.tasks \ {t} /\ x.entry = qc.entry
             /\ x.page = qc.page /\ x.shown = qc.shown
             /\ x.changes \in {qc.changes, Append(qc.changes, t.op)}
             /\ Sources(x)
<1>5a. Left(qc')
  <2>1. CASE qc' = s
    <3>1. Sources(s)
      BY <1>3, <1>4, SourcesKept DEF CacheInv
    <3> QED
      BY <1>3, <2>1, <3>1
  <2>2. ASSUME NEW places \in Places(t.op), qc' = Made(s, t.op, places)
        PROVE  Left(qc')
    <3> DEFINE w == Made(s, t.op, places)
    <3>1. /\ w \in Cache
          /\ w.key = s.key /\ w.page = s.page /\ w.shown = s.shown /\ w.entry = s.entry
          /\ w.done = s.done /\ w.missed = s.missed /\ w.tasks = s.tasks
          /\ w.mirror = s.mirror /\ w.over = s.over
          /\ w.changes = Append(qc.changes, t.op)
          /\ qc.server \subseteq w.server /\ qc.local \subseteq w.local
          /\ Now + 1 \in w.server \cup w.local
      BY <1>2, <1>3, MadeIs
    <3> HIDE DEF w
    <3>2. Heard(w) = Heard(s) /\ Now + 1 \notin Heard(s)
      <4>1. Heard(w) = Heard(s)
        BY <3>1 DEF Heard
      <4>2. Now + 1 \notin 1..Len(qc.changes)
        OBVIOUS
      <4> QED
        BY <1>4, <4>1, <4>2
    <3>3. Sources(w)
      BY <1>2, <1>3, <1>4, <3>1, <3>2, SourcesGrow
    <3> QED
      BY <1>3, <2>2, <3>1, <3>3 DEF w
  <2> QED
    BY <1>1, <2>1, <2>2
<1>5. /\ qc' \in Cache
      /\ qc'.key = qc.key /\ qc'.done = qc.done /\ qc'.missed = qc.missed
      /\ qc'.tasks = qc.tasks \ {t} /\ qc'.entry = qc.entry
      /\ qc'.page = qc.page /\ qc'.shown = qc.shown
      /\ qc'.changes \in {qc.changes, Append(qc.changes, t.op)}
      /\ Sources(qc')
  BY <1>5a
<1> HIDE DEF Left
<1>6. /\ Len(qc.changes) <= Len(qc'.changes)
      /\ \A i \in 1..Len(qc.changes) : qc'.changes[i] = qc.changes[i]
  BY <1>2, <1>5
<1>7. Refreshing(qc') \subseteq Refreshing(qc)
  BY <1>5 DEF Refreshing
<1>8. \A u \in qc'.tasks : Knows(qc', u)
  <2> SUFFICES ASSUME NEW u \in qc.tasks PROVE Knows(qc', u)
    BY <1>5
  <2>1. Knows(qc, u) /\ u.id \in Nat
    BY DEF Running
  <2> QED
    BY <1>6, <2>1 DEF Knows
<1>9. UsedBy(qc') => Rests(qc'.entry)
  BY <1>5 DEF UsedBy, CacheInv
<1>10. /\ qc'.done \cup Refreshing(qc') \subseteq qc.done \cup Refreshing(qc)
       /\ qc.missed \subseteq qc'.missed
       /\ \A id \in qc.done \cup Refreshing(qc) : Brings(qc.entry, id) => Brings(qc'.entry, id)
  BY <1>5, <1>7
<1> HIDE CacheFields
<1> QED
  BY <1>5, <1>6, <1>8, <1>9, <1>10, CacheKept

(* A handler ends.                                                         *)
LEMMA EndsStep ==
  ASSUME CacheInv(qc), NEW t \in qc.tasks, RefreshEnds(t)
  PROVE  CacheInv(qc')
<1> USE CacheFields
<1>1. qc' = [qc EXCEPT !.tasks = qc.tasks \ {t}, !.done = qc.done \cup {t.id}] /\ t.at = "refresh"
  BY DEF RefreshEnds
<1>2. t.id \in Nat
  BY DEF Running
<1>3. qc' \in Cache
  BY <1>1, <1>2 DEF Cache
<1>4. /\ qc'.key = qc.key /\ qc'.changes = qc.changes /\ qc'.done = qc.done \cup {t.id}
      /\ qc'.missed = qc.missed /\ qc'.tasks = qc.tasks \ {t} /\ qc'.entry = qc.entry
      /\ qc'.page = qc.page /\ qc'.shown = qc.shown
      /\ qc'.server = qc.server /\ qc'.local = qc.local
      /\ qc'.mirror = qc.mirror /\ qc'.over = qc.over
  BY <1>1 DEF Cache
<1>9. Sources(qc')
  <2>1. Heard(qc') \subseteq Heard(qc)
    BY <1>1, <1>4 DEF Heard
  <2>2. Sources(qc)
    BY DEF CacheInv
  <2> QED
    BY <1>3, <1>4, <2>1, <2>2, SourcesKept
<1>5. t.id \in Refreshing(qc) /\ Refreshing(qc') \subseteq Refreshing(qc)
  BY <1>1, <1>4 DEF Refreshing
<1>6. \A u \in qc'.tasks : Knows(qc', u)
  BY <1>4 DEF Knows
<1>7. UsedBy(qc') => Rests(qc'.entry)
  BY <1>4 DEF UsedBy, CacheInv
<1>8. /\ qc'.done \cup Refreshing(qc') \subseteq qc.done \cup Refreshing(qc)
      /\ qc.missed \subseteq qc'.missed
      /\ \A i \in 1..Len(qc.changes) : qc'.changes[i] = qc.changes[i]
      /\ \A id \in qc.done \cup Refreshing(qc) : Brings(qc.entry, id) => Brings(qc'.entry, id)
      /\ Len(qc.changes) <= Len(qc'.changes)
  BY <1>4, <1>5
<1> HIDE CacheFields
<1> QED
  BY <1>3, <1>4, <1>6, <1>7, <1>8, <1>9, CacheKept

(* A change is made; the handler goes on to load a list, or to a refresh.  *)
LEMMA WrittenIs ==
  ASSUME CacheInv(qc), NEW t \in qc.tasks, NEW at \in {"load", "refresh"},
         NEW places \in Places(t.op)
  PROVE  LET s == Written(t, at, places)
             u == [t EXCEPT !.at = at, !.id = Now + 1]
         IN  /\ s \in Cache
             /\ s.key = qc.key /\ s.page = qc.page /\ s.shown = qc.shown /\ s.entry = qc.entry
             /\ s.done = qc.done /\ s.missed = qc.missed
             /\ s.tasks = (qc.tasks \ {t}) \cup {u}
             /\ s.changes = Append(qc.changes, t.op)
             /\ u \in Running /\ u.at = at /\ u.id = Now + 1 /\ u.op = t.op
             /\ Sources(s)
<1> USE CacheFields
<1> DEFINE u == [t EXCEPT !.at = at, !.id = Now + 1]
           dialog == IF t.here /\ qc.dialog = t.op THEN None ELSE qc.dialog
           mirror == IF qc.key \in Mirrored(t.op) THEN qc.mirror \cup {Now + 1} ELSE qc.mirror
           tasks == (qc.tasks \ {t}) \cup {u}
           w == Made(qc, t.op, places)
           s == [w EXCEPT !.mirror = mirror, !.dialog = dialog, !.tasks = tasks]
<1>1. u \in Running /\ u.at = at /\ u.id = Now + 1 /\ u.op = t.op
  <2>1. Now + 1 \in Nat /\ t \in Running
    BY CacheFields
  <2> QED
    BY <2>1 DEF Running
<1>2. t.op \in ChangeOps
  BY DEF Running
<1>3. /\ dialog \in ChangeOps \cup {None} /\ tasks \in SUBSET Running
      /\ mirror \in SUBSET Nat /\ qc.mirror \subseteq mirror
      /\ qc.key \in Mirrored(t.op) => Now + 1 \in mirror
  <2>1. dialog \in ChangeOps \cup {None}
    OBVIOUS
  <2>2. tasks \in SUBSET Running
    BY <1>1
  <2>3. Now + 1 \in Nat
    OBVIOUS
  <2> QED
    BY <2>1, <2>2, <2>3
<1>4. /\ w \in Cache
      /\ w.key = qc.key /\ w.page = qc.page /\ w.shown = qc.shown /\ w.entry = qc.entry
      /\ w.done = qc.done /\ w.missed = qc.missed /\ w.tasks = qc.tasks
      /\ w.mirror = qc.mirror /\ w.over = qc.over /\ w.dialog = qc.dialog
      /\ w.changes = Append(qc.changes, t.op)
      /\ qc.server \subseteq w.server /\ qc.local \subseteq w.local
      /\ Now + 1 \in w.server \cup w.local
  BY <1>2, MadeIs
<1> HIDE DEF w
<1>5. Written(t, at, places) = s
  <2>1. Written(t, at, places) =
          [w EXCEPT !.mirror = IF qc.key \in Mirrored(t.op) THEN w.mirror \cup {Now + 1} ELSE w.mirror,
                    !.dialog = IF t.here /\ w.dialog = t.op THEN None ELSE w.dialog,
                    !.tasks = (w.tasks \ {t}) \cup {u}]
    BY DEF Written, w
  <2> QED
    BY <1>4, <2>1
<1> HIDE DEF dialog, mirror, tasks
<1>6. /\ s \in Cache
      /\ s.key = w.key /\ s.page = w.page /\ s.shown = w.shown /\ s.entry = w.entry
      /\ s.done = w.done /\ s.missed = w.missed
      /\ s.tasks = tasks /\ s.changes = w.changes
      /\ s.server = w.server /\ s.local = w.local /\ s.mirror = mirror /\ s.over = w.over
  BY <1>3, <1>4 DEF Cache
<1> HIDE DEF s, u
<1>7. Heard(s) \subseteq Heard(qc) \cup {Now + 1}
  BY <1>1, <1>4, <1>6 DEF Heard, tasks
<1>8. Sources(s)
  <2>1. qc.mirror \cup qc.over \subseteq s.mirror \cup s.over
    BY <1>3, <1>4, <1>6
  <2>2. qc.key \in Mirrored(t.op) => Now + 1 \in s.mirror \cup s.over
    BY <1>3, <1>6
  <2>3. /\ s.key = qc.key /\ s.entry = qc.entry /\ s.changes = Append(qc.changes, t.op)
        /\ qc.server \subseteq s.server /\ qc.local \subseteq s.local
        /\ Now + 1 \in s.server \cup s.local
    BY <1>4, <1>6
  <2> HIDE CacheFields
  <2> QED
    BY <1>2, <1>6, <1>7, <2>1, <2>2, <2>3, SourcesGrow
<1> QED
  BY <1>1, <1>4, <1>5, <1>6, <1>8 DEF tasks, u

(* A refresh brings the change it is for, or is recorded as overtaken.     *)
Follows(w, s, keys, id) ==
  /\ s \in Cache
  /\ s.key = w.key /\ s.page = w.page /\ s.shown = w.shown /\ s.done = w.done
  /\ s.tasks = w.tasks /\ s.changes = w.changes /\ w.missed \subseteq s.missed
  /\ s.server = w.server /\ s.local = w.local /\ s.mirror = w.mirror /\ s.over = w.over
  /\ s.entry.fetch \in {w.entry.fetch, Asked(w)}
  /\ \A i \in 1..Len(w.changes) : Brings(w.entry, i) => Brings(s.entry, i)
  /\ w.key \in keys => id \in s.missed \/ Brings(s.entry, id)
  /\ (Used => Rests(w.entry)) => (Used => Rests(s.entry))

LEMMA Refreshed ==
  ASSUME NEW w \in Cache, NEW keys, NEW id \in 1..Len(w.changes)
  PROVE  Follows(w, Invalidate(w, keys, id), keys, id) /\ Follows(w, Refetch(w, keys, id), keys, id)
<1> DEFINE n == Len(w.changes)
           f == Asked(w)
<1>1. /\ w.entry \in Entry /\ n \in Nat /\ id \in Nat /\ id <= n
      /\ w.missed \subseteq Nat /\ Used \in BOOLEAN /\ f \in Fetch /\ f.since = n
      /\ \A i \in 1..n : i \in Nat /\ i <= n
  BY AskedIs DEF Cache, Used, InUse
<1> HIDE DEF f
<1>2. ASSUME NEW e \in Entry, NEW missed \in {w.missed, w.missed \cup {id}},
             \A i \in 1..n : Brings(w.entry, i) => Brings(e, i),
             e.fetch \in {w.entry.fetch, f},
             missed = w.missed => Brings(e, id),
             Used /\ Rests(w.entry) => Rests(e)
      PROVE  Follows(w, [w EXCEPT !.entry = e, !.missed = missed], keys, id)
  <2> DEFINE s == [w EXCEPT !.entry = e, !.missed = missed]
  <2>1. missed \subseteq Nat
    BY <1>1
  <2>2. /\ s \in Cache
        /\ s.key = w.key /\ s.page = w.page /\ s.shown = w.shown /\ s.done = w.done
        /\ s.tasks = w.tasks /\ s.changes = w.changes /\ s.entry = e /\ s.missed = missed
        /\ s.server = w.server /\ s.local = w.local
        /\ s.mirror = w.mirror /\ s.over = w.over
    BY <2>1 DEF Cache
  <2>3. w.missed \subseteq missed /\ (missed = w.missed \/ id \in missed)
    OBVIOUS
  <2> HIDE DEF s
  <2> QED
    BY <1>2, <2>2, <2>3 DEF Follows, s, f
<1>3. CASE w.key \notin keys
  <2>1. Invalidate(w, keys, id) = w /\ Refetch(w, keys, id) = w
    BY <1>3 DEF Invalidate, Refetch
  <2> QED
    BY <1>3, <2>1 DEF Follows
<1>4. CASE w.key \in keys
  <2> DEFINE e1 == Invalidated(w.entry, Used, f)
             m1 == IF Overtakes(w.entry, Used) THEN w.missed \cup {id} ELSE w.missed
             e2 == Refetched(w.entry, f)
             m2 == IF isLoading(w.entry) THEN w.missed \cup {id} ELSE w.missed
  <2>1. /\ Invalidate(w, keys, id) = [w EXCEPT !.entry = e1, !.missed = m1]
        /\ Refetch(w, keys, id) = [w EXCEPT !.entry = e2, !.missed = m2]
    BY <1>4 DEF Invalidate, Refetch, f
  <2>10. e1.fetch \in {w.entry.fetch, f} /\ e2.fetch \in {w.entry.fetch, f}
    BY <1>1, EntryFetch
  <2>2. /\ e1 \in Entry /\ e2 \in Entry
        /\ m1 \in {w.missed, w.missed \cup {id}} /\ m2 \in {w.missed, w.missed \cup {id}}
    BY <1>1, EntryOps
  <2>3. \A i \in 1..n : /\ Brings(w.entry, i) => Brings(e1, i)
                        /\ Brings(w.entry, i) => Brings(e2, i)
    BY <1>1, EntryBrings
  <2>4. Used => Rests(e1)
    BY <1>1, EntryRests
  <2>5. Rests(w.entry) => Rests(e2)
    BY <1>1, EntryRests
  <2>6. ~Overtakes(w.entry, Used) => Brings(e1, id)
    BY <1>1, EntryBrings
  <2>7. ~isLoading(w.entry) => Brings(e2, id)
    BY <1>1, EntryBrings
  <2>8. CASE id \in w.missed
    <3>1. ASSUME NEW e \in Entry, \A i \in 1..n : Brings(w.entry, i) => Brings(e, i),
                 e.fetch \in {w.entry.fetch, f},
                 Used /\ Rests(w.entry) => Rests(e)
          PROVE  Follows(w, [w EXCEPT !.entry = e, !.missed = w.missed], keys, id)
      <4> DEFINE s == [w EXCEPT !.entry = e, !.missed = w.missed]
      <4>1. /\ s \in Cache
            /\ s.key = w.key /\ s.page = w.page /\ s.shown = w.shown /\ s.done = w.done
            /\ s.tasks = w.tasks /\ s.changes = w.changes /\ s.entry = e /\ s.missed = w.missed
            /\ s.server = w.server /\ s.local = w.local
            /\ s.mirror = w.mirror /\ s.over = w.over
        BY DEF Cache
      <4> HIDE DEF s
      <4> QED
        BY <2>8, <3>1, <4>1 DEF Follows, s, f
    <3>2. m1 = w.missed /\ m2 = w.missed
      BY <2>8
    <3> HIDE DEF e1, e2, m1, m2, n
    <3> QED
      BY <2>1, <2>2, <2>3, <2>4, <2>5, <2>10, <3>1, <3>2
  <2>9. CASE id \notin w.missed
    <3>1. (m1 = w.missed => Brings(e1, id)) /\ (m2 = w.missed => Brings(e2, id))
      BY <2>6, <2>7, <2>9
    <3> HIDE DEF e1, e2, m1, m2, n
    <3> QED
      BY <1>2, <2>1, <2>2, <2>3, <2>4, <2>5, <2>10, <3>1
  <2> QED
    BY <2>8, <2>9
<1> QED
  BY <1>3, <1>4

(* What is under way when a handler refreshes stays under way, and its own *)
(* change joins it.                                                        *)
LEMMA Joined ==
  ASSUME CacheInv(qc), NEW w \in Cache, NEW s, NEW keys, NEW id \in 1..Len(w.changes),
         Follows(w, s, keys, id),
         w.key = qc.key, w.page = qc.page, w.shown = qc.shown, w.done = qc.done,
         w.missed = qc.missed, w.entry = qc.entry,
         Len(qc.changes) <= Len(w.changes),
         \A i \in 1..Len(qc.changes) : w.changes[i] = qc.changes[i],
         Refreshing(s) \subseteq Refreshing(qc) \cup {id},
         \A t \in s.tasks : Knows(s, t), Sources(w),
         qc.key \in Shows(w.changes[id]) => qc.key \in keys
  PROVE  CacheInv(s)
<1> USE CacheFields
<1>1. qc.done \cup Refreshing(qc) \subseteq 1..Len(qc.changes)
  BY DEF CacheInv, Numbered, Knows, Refreshing
<1>2. Len(w.changes) \in Nat
  BY DEF Cache
<1>3. Numbered(s)
  BY <1>1, <1>2 DEF Numbered, Follows
<1>4. Brought(s)
  <2> SUFFICES ASSUME NEW i \in (s.done \cup Refreshing(s)) \ s.missed,
                      s.key \in Shows(s.changes[i])
               PROVE  Brings(s.entry, i)
    BY DEF Brought
  <2>1. CASE i = id
    BY <2>1 DEF Follows
  <2>2. CASE i # id
    <3>1. i \in (qc.done \cup Refreshing(qc)) \ qc.missed /\ i \in 1..Len(qc.changes)
      BY <1>1, <2>2 DEF Follows
    <3>2. Brings(qc.entry, i) /\ i \in 1..Len(w.changes)
      BY <1>2, <3>1 DEF CacheInv, Brought, Follows
    <3> QED
      BY <3>2 DEF Follows
  <2> QED
    BY <2>1, <2>2
<1>5. UsedBy(s) => Rests(s.entry)
  BY DEF Follows, UsedBy, CacheInv
<1>6. Sources(s)
  <2>1. Heard(s) = Heard(w)
    BY DEF Follows, Heard
  <2> QED
    BY <2>1, SourcesKept DEF Follows
<1> QED
  BY <1>3, <1>4, <1>5, <1>6 DEF CacheInv, Follows

(* A change is made and what shows it is refreshed.                        *)
LEMMA SavedChange ==
  ASSUME CacheInv(qc), NEW t \in qc.tasks, NEW keys, NEW s,
         NEW places \in Places(t.op),
         \/ s = Invalidate(Written(t, "refresh", places), keys,
                           Len(Written(t, "refresh", places).changes))
         \/ s = Refetch(Written(t, "refresh", places), keys, Now + 1),
         qc.key \in Shows(t.op) => qc.key \in keys
  PROVE  CacheInv(s)
<1> USE CacheFields
<1> DEFINE w == Written(t, "refresh", places)
           u == [t EXCEPT !.at = "refresh", !.id = Now + 1]
           id == Now + 1
<1>1. /\ w \in Cache
      /\ w.key = qc.key /\ w.page = qc.page /\ w.shown = qc.shown /\ w.entry = qc.entry
      /\ w.done = qc.done /\ w.missed = qc.missed
      /\ w.tasks = (qc.tasks \ {t}) \cup {u}
      /\ w.changes = Append(qc.changes, t.op)
      /\ u \in Running /\ u.at = "refresh" /\ u.id = id /\ u.op = t.op
      /\ Sources(w)
  BY WrittenIs
<1>2. t.op \in ChangeOps
  BY DEF Running
<1>3. /\ Len(w.changes) = id /\ id \in 1..Len(w.changes) /\ w.changes[id] = t.op
      /\ Len(qc.changes) <= Len(w.changes)
      /\ \A i \in 1..Len(qc.changes) : w.changes[i] = qc.changes[i]
  BY <1>1, <1>2
<1> HIDE DEF w, u, id
<1>4. Follows(w, s, keys, id)
  BY <1>1, <1>3, Refreshed DEF w, id
<1>5. Refreshing(s) \subseteq Refreshing(qc) \cup {id}
  BY <1>1, <1>4 DEF Follows, Refreshing
<1>6. \A v \in s.tasks : Knows(s, v)
  <2> SUFFICES ASSUME NEW v \in s.tasks PROVE Knows(s, v)
    OBVIOUS
  <2>1. s.changes = w.changes /\ s.tasks = w.tasks
    BY <1>4 DEF Follows
  <2>2. CASE v = u
    BY <1>1, <1>3, <2>1, <2>2 DEF Knows
  <2>3. CASE v # u
    <3>1. Knows(qc, v) /\ v.id \in Nat
      BY <1>1, <2>1, <2>3 DEF Running
    <3> QED
      BY <1>3, <2>1, <3>1 DEF Knows
  <2> QED
    BY <2>2, <2>3
<1> HIDE CacheFields
<1>7. qc.key \in Shows(w.changes[id]) => qc.key \in keys
  BY <1>3
<1> QED
  BY <1>1, <1>3, <1>4, <1>5, <1>6, <1>7, Joined

(* What each handler shows is among what it refreshes.                     *)
LEMMA ShownBy ==
  /\ \A op \in {"accountSave", "accountDelete"} : Shows(op) \subseteq {"accounts"}
  /\ \A op \in {"categorySave", "categoryDelete"} : Shows(op) \subseteq {"categories"}
  /\ Shows("budgetSave") \subseteq {"budget-summary", "budget-alerts", "categories"}
  /\ Shows("budgetDelete") \subseteq {"budget-summary"}
  /\ Shows("alertAck") \subseteq {"budget-alerts"}
  /\ \A op \in {"ledgerCreate", "ledgerMigrate"} : Shows(op) \subseteq {"ledger"}
  /\ \A op \in {"txSave", "txDelete"} : Shows(op) \subseteq {"summary", "accounts"}
<1>1. Keys \subseteq {"summary", "categories", "accounts", "recent", "ledger"}
                     \cup BudgetsQueries \cup ReportsQueries
  BY DEF Keys, CachedPages, Queries, DashboardQueries, AccountsQueries, CategoriesQueries,
         LedgerQueries, TransactionsQueries
<1>2. \A op \in {"txSave", "txDelete"} : Shows(op) \subseteq {"summary", "accounts"}
  BY <1>1 DEF Shows, Concerns, Overlooked
<1>3. /\ \A op \in {"accountSave", "accountDelete"} : Shows(op) \subseteq {"accounts"}
      /\ \A op \in {"categorySave", "categoryDelete"} : Shows(op) \subseteq {"categories"}
  BY DEF Shows, Concerns, Overlooked
<1>4. /\ Shows("budgetSave") \subseteq {"budget-summary", "budget-alerts", "categories"}
      /\ Shows("budgetDelete") \subseteq {"budget-summary"}
      /\ Shows("alertAck") \subseteq {"budget-alerts"}
  BY DEF Shows, Concerns, Overlooked
<1>5. \A op \in {"ledgerCreate", "ledgerMigrate"} : Shows(op) \subseteq {"ledger"}
  BY DEF Shows, Concerns, Overlooked
<1> QED
  BY <1>2, <1>3, <1>4, <1>5

LEMMA SavedSteps ==
  ASSUME CacheInv(qc),
         \/ AccountSaved \/ AccountDeleted \/ CategorySaved \/ CategoryDeleted
         \/ BudgetSaved \/ BudgetDeleted \/ Acknowledged \/ LedgerCreated \/ Migrated
  PROVE  CacheInv(qc')
<1> DEFINE By(t, op, keys, s) ==
             /\ t \in qc.tasks /\ t.op = op
             /\ \/ Fails(t, TRUE) \/ Fails(t, FALSE)
                \/ \E places \in Places(op) :
                     /\ qc' = s
                     /\ \/ s = Invalidate(Written(t, "refresh", places), keys,
                                          Len(Written(t, "refresh", places).changes))
                        \/ s = Refetch(Written(t, "refresh", places), keys, Now + 1)
<1>1. ASSUME NEW t, NEW op, NEW keys, NEW s, By(t, op, keys, s), Shows(op) \subseteq keys
      PROVE  CacheInv(qc')
  <2>1. CASE Fails(t, TRUE) \/ Fails(t, FALSE)
    BY <1>1, <2>1, FailsStep
  <2>2. CASE ~(Fails(t, TRUE) \/ Fails(t, FALSE))
    BY <1>1, <2>2, SavedChange
  <2> QED
    BY <2>1, <2>2
<1>2. CASE AccountSaved
  <2>1. PICK t \in Saving("accountSave") : By(t, "accountSave", {"accounts"}, qc')
    BY <1>2 DEF AccountSaved, Saving, refreshAccounts
  <2> QED
    BY <1>1, <2>1, ShownBy
<1>3. CASE AccountDeleted
  <2>1. PICK t \in Saving("accountDelete") : By(t, "accountDelete", {"accounts"}, qc')
    BY <1>3 DEF AccountDeleted, Saving, refreshAccounts
  <2> QED
    BY <1>1, <2>1, ShownBy
<1>4. CASE CategorySaved
  <2>1. PICK t \in Saving("categorySave") : By(t, "categorySave", {"categories"}, qc')
    BY <1>4 DEF CategorySaved, Saving, refreshCategories
  <2> QED
    BY <1>1, <2>1, ShownBy
<1>5. CASE CategoryDeleted
  <2>1. PICK t \in Saving("categoryDelete") : By(t, "categoryDelete", {"categories"}, qc')
    BY <1>5 DEF CategoryDeleted, Saving, refreshCategories
  <2> QED
    BY <1>1, <2>1, ShownBy
<1>6. CASE BudgetSaved
  <2> DEFINE keys == {"budget-summary", "budget-alerts", "categories"}
  <2>1. PICK t \in Saving("budgetSave") : By(t, "budgetSave", keys, qc')
    BY <1>6 DEF BudgetSaved, Saving, Places, Queueable, Mirrored
  <2> QED
    BY <1>1, <2>1, ShownBy
<1>7. CASE BudgetDeleted
  <2>1. PICK t \in Saving("budgetDelete") : By(t, "budgetDelete", {"budget-summary"}, qc')
    BY <1>7 DEF BudgetDeleted, Saving, Places, Queueable, Mirrored
  <2> QED
    BY <1>1, <2>1, ShownBy
<1>8. CASE Acknowledged
  <2>1. PICK t \in Saving("alertAck") : By(t, "alertAck", {"budget-alerts"}, qc')
    BY <1>8 DEF Acknowledged, Saving, Places, Queueable, Mirrored
  <2> QED
    BY <1>1, <2>1, ShownBy
<1>9. CASE LedgerCreated
  <2>1. PICK t \in Saving("ledgerCreate") : By(t, "ledgerCreate", {"ledger"}, qc')
    BY <1>9 DEF LedgerCreated, Saving, Places, Queueable, Mirrored
  <2> QED
    BY <1>1, <2>1, ShownBy
<1>10. CASE Migrated
  <2>1. PICK t \in Saving("ledgerMigrate") : By(t, "ledgerMigrate", {"ledger"}, qc')
    BY <1>10 DEF Migrated, Saving, Places, Queueable, Mirrored
  <2> QED
    BY <1>1, <2>1, ShownBy
<1> QED
  BY <1>2, <1>3, <1>4, <1>5, <1>6, <1>7, <1>8, <1>9, <1>10

(* The transactions page loads its list between change and refresh.        *)
LEMMA TransactionSteps ==
  ASSUME CacheInv(qc), TransactionWritten \/ ListLoaded
  PROVE  CacheInv(qc')
<1> USE CacheFields
<1>1. CASE TransactionWritten
  <2>1. PICK t \in Saving("txSave") \cup Saving("txDelete") :
          \/ Fails(t, t.op = "txDelete")
          \/ \E places \in Places(t.op) : qc' = Written(t, "load", places)
    BY <1>1 DEF TransactionWritten
  <2>2. t \in qc.tasks /\ t.op \in {"txSave", "txDelete"}
    BY DEF Saving
  <2>3. ASSUME NEW places \in Places(t.op), qc' = Written(t, "load", places)
        PROVE  CacheInv(qc')
    <3> DEFINE w == Written(t, "load", places)
               u == [t EXCEPT !.at = "load", !.id = Now + 1]
               id == Now + 1
    <3>1. /\ w \in Cache
          /\ w.key = qc.key /\ w.page = qc.page /\ w.shown = qc.shown /\ w.entry = qc.entry
          /\ w.done = qc.done /\ w.missed = qc.missed
          /\ w.tasks = (qc.tasks \ {t}) \cup {u}
          /\ w.changes = Append(qc.changes, t.op)
          /\ u \in Running /\ u.at = "load" /\ u.id = id /\ u.op = t.op
          /\ Sources(w)
      BY <2>2, WrittenIs
    <3>2. t.op \in ChangeOps
      BY <2>2 DEF Running
    <3>3. /\ Len(w.changes) = id /\ id \in 1..Len(w.changes) /\ w.changes[id] = t.op
          /\ Len(qc.changes) <= Len(w.changes)
          /\ \A i \in 1..Len(qc.changes) : w.changes[i] = qc.changes[i]
      BY <3>1, <3>2
    <3> HIDE DEF w, u, id
    <3>4. Refreshing(w) \subseteq Refreshing(qc)
      BY <3>1 DEF Refreshing
    <3>5. \A v \in w.tasks : Knows(w, v)
      <4> SUFFICES ASSUME NEW v \in w.tasks PROVE Knows(w, v)
        OBVIOUS
      <4>1. CASE v = u
        BY <2>2, <3>1, <3>3, <4>1 DEF Knows
      <4>2. CASE v # u
        <5>1. Knows(qc, v) /\ v.id \in Nat
          BY <3>1, <4>2 DEF Running
        <5> QED
          BY <3>3, <5>1 DEF Knows
      <4> QED
        BY <4>1, <4>2
    <3>6. UsedBy(w) => Rests(w.entry)
      BY <3>1 DEF UsedBy, CacheInv
    <3>7. /\ w.done \cup Refreshing(w) \subseteq qc.done \cup Refreshing(qc)
          /\ qc.missed \subseteq w.missed
          /\ \A i \in qc.done \cup Refreshing(qc) : Brings(qc.entry, i) => Brings(w.entry, i)
      BY <3>1, <3>4
    <3> HIDE CacheFields
    <3>8. CacheInv(w)
      BY <3>1, <3>3, <3>5, <3>6, <3>7, CacheKept
    <3> QED
      BY <2>3, <3>8 DEF w
  <2>4. CASE Fails(t, t.op = "txDelete")
    BY <2>2, <2>4, FailsStep
  <2> QED
    BY <2>1, <2>3, <2>4
<1>2. CASE ListLoaded
  <2> DEFINE keys == {"summary", "accounts"}
             x(t) == Invalidate(qc, keys, t.id)
             u(t) == [t EXCEPT !.at = "refresh"]
  <2>1. PICK t \in qc.tasks :
          t.at = "load" /\ qc' = [x(t) EXCEPT !.tasks = (x(t).tasks \ {t}) \cup {u(t)}]
    BY <1>2 DEF ListLoaded
  <2> DEFINE y == x(t)
             v == u(t)
             tasks == (qc.tasks \ {t}) \cup {v}
             w == [qc EXCEPT !.tasks = tasks]
  <2>2. /\ v \in Running /\ v.at = "refresh" /\ v.id = t.id /\ v.op = t.op
        /\ t.id \in 1..Len(qc.changes) /\ qc.changes[t.id] = t.op
        /\ t.op \in {"txSave", "txDelete"}
    BY <2>1 DEF Running, Knows
  <2>3. Follows(qc, y, keys, t.id)
    BY <2>2, Refreshed
  <2>4. qc' = [y EXCEPT !.tasks = tasks] /\ y \in Cache /\ y.tasks = qc.tasks
    BY <2>1, <2>3 DEF Follows
  <2> HIDE DEF y, v
  <2>5. tasks \in SUBSET Running
    BY <2>2
  <2> HIDE DEF tasks
  <2>6. /\ w \in Cache /\ w.tasks = tasks
        /\ w.key = qc.key /\ w.page = qc.page /\ w.shown = qc.shown /\ w.entry = qc.entry
        /\ w.done = qc.done /\ w.missed = qc.missed /\ w.changes = qc.changes
        /\ w.server = qc.server /\ w.local = qc.local
        /\ w.mirror = qc.mirror /\ w.over = qc.over
    BY <2>5 DEF Cache
  <2>7. /\ qc' \in Cache /\ qc'.tasks = tasks
        /\ qc'.key = y.key /\ qc'.page = y.page /\ qc'.shown = y.shown /\ qc'.entry = y.entry
        /\ qc'.done = y.done /\ qc'.missed = y.missed /\ qc'.changes = y.changes
        /\ qc'.server = y.server /\ qc'.local = y.local
        /\ qc'.mirror = y.mirror /\ qc'.over = y.over
    BY <2>4, <2>5 DEF Cache
  <2> HIDE DEF w, keys
  <2>8. Follows(w, qc', keys, t.id)
    <3>1. Asked(w) = Asked(qc)
      BY <2>6 DEF Asked
    <3> QED
      BY <2>3, <2>6, <2>7, <3>1 DEF Follows
  <2>13. Sources(w)
    <3>1. Heard(w) \subseteq Heard(qc)
      BY <2>1, <2>2, <2>6 DEF Heard, tasks
    <3> QED
      BY <2>6, <3>1, SourcesKept DEF CacheInv
  <2>9. Refreshing(qc') \subseteq Refreshing(qc) \cup {t.id}
    BY <2>2, <2>7 DEF Refreshing, tasks
  <2>10. \A z \in qc'.tasks : Knows(qc', z)
    <3> SUFFICES ASSUME NEW z \in tasks PROVE Knows(qc', z)
      BY <2>7
    <3>1. qc'.changes = qc.changes
      BY <2>3, <2>7 DEF Follows
    <3>2. CASE z = v
      BY <2>2, <3>1, <3>2 DEF Knows
    <3>3. CASE z # v
      <4>1. Knows(qc, z)
        BY <3>3 DEF tasks
      <4> QED
        BY <3>1, <4>1 DEF Knows
    <3> QED
      BY <3>2, <3>3
  <2>11. qc.key \in Shows(w.changes[t.id]) => qc.key \in keys
    BY <2>2, <2>6, ShownBy DEF keys
  <2>12. /\ t.id \in 1..Len(w.changes) /\ Len(qc.changes) <= Len(w.changes)
         /\ \A i \in 1..Len(qc.changes) : w.changes[i] = qc.changes[i]
    BY <2>2, <2>6
  <2> HIDE CacheFields
  <2> QED
    BY <2>6, <2>8, <2>9, <2>10, <2>11, <2>12, <2>13, Joined
<1> QED
  BY <1>1, <1>2

LEMMA NextCacheInv == CacheInv(qc) /\ CacheNext => CacheInv(qc')
<1> SUFFICES ASSUME CacheInv(qc), CacheNext PROVE CacheInv(qc')
  OBVIOUS
<1>1. \A page : \A op \in ChangeOps : Opens(page, op) => CacheInv(qc')
  BY OpensStep
<1>2. \A op \in ChangeOps, whole \in BOOLEAN : CloseDialog(op, whole) => CacheInv(qc')
  BY OpensStep
<1>3. \A op \in ChangeOps : Starts(op) => CacheInv(qc')
  BY OpensStep
<1>4. CASE AccountsOpen \/ CategoriesOpen \/ BudgetsOpen \/ LedgerOpen \/ TransactionsOpen
  BY <1>1, <1>4 DEF AccountsOpen, CategoriesOpen, BudgetsOpen, LedgerOpen, TransactionsOpen,
     ChangeOps
<1>5. CASE \/ CloseDialog("accountSave", FALSE) \/ CloseDialog("accountDelete", TRUE)
           \/ CloseDialog("categorySave", FALSE) \/ CloseDialog("categoryDelete", TRUE)
           \/ CloseDialog("budgetSave", TRUE) \/ CloseDialog("budgetDelete", TRUE)
           \/ CloseDialog("ledgerCreate", TRUE)
           \/ CloseDialog("txSave", FALSE) \/ CloseDialog("txDelete", TRUE)
  BY <1>5, OpensStep DEF ChangeOps
<1>6. CASE \/ SubmitAccount \/ ConfirmAccountDelete \/ SubmitCategory \/ ConfirmCategoryDelete
           \/ SubmitBudget \/ ConfirmBudgetDelete \/ Acknowledge \/ SubmitLedger \/ Migrate
           \/ SubmitTransaction \/ ConfirmTransactionDelete
  BY <1>3, <1>6 DEF Submits, SubmitAccount, ConfirmAccountDelete, SubmitCategory,
     ConfirmCategoryDelete, SubmitBudget, ConfirmBudgetDelete, Acknowledge, SubmitLedger,
     Migrate, SubmitTransaction, ConfirmTransactionDelete, ChangeOps
<1> QED
  BY <1>4, <1>5, <1>6, BrowseStep, SyncStep, EndsStep, SavedSteps, TransactionSteps
     DEF CacheNext

(* What a page draws has what its entry brings.                            *)
LEMMA CacheInvShows == CacheInv(qc) => OwnChangeShown
<1> SUFFICES ASSUME CacheInv(qc), Used, Draws = "data", qc.entry.fetch = None, ~qc.entry.failed,
                    NEW id \in qc.done \ qc.missed,
                    qc.key \in Shows(qc.changes[id])
             PROVE  id \in qc.entry.seen \cup qc.entry.lacks
  BY DEF OwnChangeShown, Shows
<1>1. qc.entry.has
  BY DEF Draws, DashboardDraws, AccountsDraws, CategoriesDraws, BudgetsDraws, LedgerDraws,
         ReportsDraws, Outlined, Filled
<1>2. Brings(qc.entry, id)
  BY DEF CacheInv, Brought
<1>3. ~qc.entry.invalid
  BY CacheFields DEF CacheInv, Rests
<1> QED
  BY <1>1, <1>2, <1>3 DEF Brings

-----------------------------------------------------------------------------
(***************************************************************************)
(* What is proved of each page holds whichever is open: one that is closed *)
(* has no state, and no step of another gives it one.                      *)
(***************************************************************************)

OpenPagesInv ==
  /\ txs # None => PageInv(txs)
  /\ cp # None => CardsInv(cp)
  /\ rp # None => ReviewInv
  /\ qc # None => CacheInv(qc)

LEMMA InitOpenPages == PagesInit => OpenPagesInv
BY InitPageInv, InitCardsInv, InitReviewInv, InitCacheInv DEF PagesInit, OpenPagesInv

LEMMA NextOpenPages == OpenPagesInv /\ [PagesNext]_pages => OpenPagesInv'
<1> SUFFICES ASSUME OpenPagesInv, [PagesNext]_pages PROVE OpenPagesInv'
  OBVIOUS
<1>1. (txs # None => PageInv(txs))'
  <2>1. CASE txs # None /\ TransactionsNext
    BY <2>1, NextPageInv DEF OpenPagesInv
  <2>2. CASE UNCHANGED txs
    BY <2>2 DEF OpenPagesInv
  <2> QED
    BY <2>1, <2>2 DEF PagesNext, pages
<1>2. (cp # None => CardsInv(cp))'
  <2>1. CASE cp # None /\ CardsNext
    BY <2>1, NextCardsInv DEF OpenPagesInv
  <2>2. CASE UNCHANGED cp
    BY <2>2 DEF OpenPagesInv
  <2> QED
    BY <2>1, <2>2 DEF PagesNext, pages
<1>3. (rp # None => ReviewInv)'
  <2>1. CASE rp # None /\ ReceiptsNext
    BY <2>1, NextReviewInv DEF OpenPagesInv
  <2>2. CASE UNCHANGED rp
    BY <2>2, NextReviewInv DEF OpenPagesInv
  <2> QED
    BY <2>1, <2>2 DEF PagesNext, pages
<1>4. (qc # None => CacheInv(qc))'
  <2>1. CASE qc # None /\ CacheNext
    BY <2>1, NextCacheInv DEF OpenPagesInv
  <2>2. CASE UNCHANGED qc
    BY <2>2 DEF OpenPagesInv
  <2> QED
    BY <2>1, <2>2 DEF PagesNext, pages
<1> QED
  BY <1>1, <1>2, <1>3, <1>4 DEF OpenPagesInv

LEMMA OpenPages == PagesSpec => []OpenPagesInv
BY InitOpenPages, NextOpenPages, PTL DEF PagesSpec

(* The rows drawn are of the filter drawn above them, however changes of   *)
(* the filter, pages, saves, deletions and undos follow one another        *)
(* (TransactionsPage.tsx), as long as no load overlaps, fails, or is of    *)
(* another filter.                                                         *)
THEOREM ListIsOfFilter == PagesSpec => []ListMatchesFilter
<1>1. OpenPagesInv => ListMatchesFilter
  BY PageInvShows DEF OpenPagesInv, ListMatchesFilter
<1> QED
  BY <1>1, OpenPages, PTL

(* An edit keeps the type of its transaction unless it was asked for       *)
(* another, or the form was (TransactionForm.tsx).                         *)
THEOREM EditsKeepType == PagesSpec => []EditKeepsType
<1>1. OpenPagesInv => EditKeepsType
  BY PageInvShows DEF OpenPagesInv, EditKeepsType
<1> QED
  BY <1>1, OpenPages, PTL

(* The bills drawn are those of the selected card, with every change the   *)
(* page was told of (CreditCardsPage.tsx), unless their load was overtaken *)
(* or of another card.                                                     *)
THEOREM BillsAreOfCard == PagesSpec => []BillsOfSelectedCard
<1>1. OpenPagesInv => BillsOfSelectedCard
  BY CardsInvShows DEF OpenPagesInv, BillsOfSelectedCard
<1> QED
  BY <1>1, OpenPages, PTL

(* What the user corrected in a review while no request ran is in the      *)
(* review, or saved, or given up for a reading asked for later; or its     *)
(* item had no description, or its field was empty, when a save that       *)
(* succeeded was begun (ReceiptsPage.tsx).                                 *)
THEOREM ReviewIsKept == PagesSpec => []ReviewKept
<1>1. OpenPagesInv => ReviewKept
  BY ReviewInvShows DEF OpenPagesInv, ReviewKept
<1> QED
  BY <1>1, OpenPages, PTL

(* A page that draws a query draws the user's own changes in it once their *)
(* handlers have ended (providers.tsx, and the pages' invalidateQueries    *)
(* and refetch calls), however pages, months, fetches, handlers and passes *)
(* of the sync overlap, but for what a handler overlooks, what a refresh   *)
(* met being fetched, and what server or mirror, whichever answered        *)
(* (api.ts), did not have when it was asked.                               *)
THEOREM OwnChangesShown == PagesSpec => []OwnChangeShown
<1>1. OpenPagesInv => OwnChangeShown
  BY CacheInvShows DEF OpenPagesInv, OwnChangeShown
<1> QED
  BY <1>1, OpenPages, PTL
=============================================================================
