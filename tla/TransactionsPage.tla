------------------------- MODULE TransactionsPage -------------------------
(***************************************************************************)
(* The transactions page (TransactionsPage.tsx) and its form               *)
(* (TransactionForm.tsx): a list loaded page by page under a filter,       *)
(* reloaded after every save, deletion and undo; and one form for new and  *)
(* old transactions, which a lookup of earlier ones fills in.              *)
(*                                                                         *)
(* Nothing cancels a load or a lookup that was overtaken: each is a        *)
(* closure over the filter or the form it was started from.  A row is its  *)
(* id and its type, a filter is on the type, larger ids are newer; what is *)
(* drawn of the list is the set of its rows.                               *)
(***************************************************************************)
EXTENDS Unset, Naturals, Sequences, FiniteSets, SequencesExt

CONSTANTS Ids,
          PAGE_SIZE,
          MaxLoads       \* bound: loads in flight at once

ASSUME TransactionsAssumption ==
  /\ Ids \subseteq Nat /\ PAGE_SIZE \in Nat \ {0} /\ MaxLoads \in Nat \ {0}

Types == {"income", "expense"}
Filters == Types \cup {"all"}

VARIABLE txs    \* the page's state while it is open, and the rows at the server

(* rows: the server; filter, items, page, hasMore, loadingMore, error: the *)
(* list; loads: in flight; mixed: history, the list may hold what another  *)
(* load left; open, editing, formType, type, saving: the form; lookups in  *)
(* flight; asked: history, the user or a lookup set the type;              *)
(* save, doomed, undo: what is being saved, deleted, may be undone;        *)
(* retyped: history, rows whose type an edit changed unasked.              *)
FreshTransactions(rows) ==
  [rows |-> rows, filter |-> "all", items |-> {}, page |-> 0, hasMore |-> FALSE,
   loadingMore |-> FALSE, error |-> FALSE,
   loads |-> <<[filter |-> "all", page |-> 0, append |-> FALSE, alone |-> TRUE]>>,
   mixed |-> FALSE, open |-> FALSE, editing |-> None, formType |-> "expense",
   type |-> "expense", saving |-> FALSE, lookups |-> 0, asked |-> FALSE,
   save |-> None, doomed |-> None, deleting |-> FALSE, undo |-> None, retyped |-> {}]

TransactionsInit == txs \in {FreshTransactions(rows) : rows \in [Ids -> Types \cup {"none"}]}

-----------------------------------------------------------------------------
(* The list.                                                               *)

Matches(filter, type) == filter = "all" \/ type = filter

(* load: the page the server has, or the mirror, which is not filtered.    *)
fetchTransactions(ld, online) ==
  LET found == {i \in Ids : /\ txs.rows[i] # "none"
                            /\ online => Matches(ld.filter, txs.rows[i])}
      from == ld.page * PAGE_SIZE
      until == from + PAGE_SIZE
      Newer(i) == Cardinality({j \in found : j > i})
  IN [items |-> {[id |-> i, type |-> txs.rows[i]] :
                   i \in {j \in found : from <= Newer(j) /\ Newer(j) < until}},
      hasMore |-> until < Cardinality(found)]

load(s, filter, page, append) ==
  [s EXCEPT !.loads = Append([i \in DOMAIN s.loads |-> [s.loads[i] EXCEPT !.alone = FALSE]],
                             [filter |-> filter, page |-> page, append |-> append,
                              alone |-> s.loads = <<>> /\ filter = s.filter]),
            !.loadingMore = (page # 0), !.error = FALSE]

(* refreshAll, of the closure that saw this filter.                        *)
refreshAll(s, filter) == load(s, filter, 0, FALSE)

MayLoad == Len(txs.loads) < MaxLoads

Modal == txs.open \/ txs.doomed # None

(* Mutant.                                                                 *)
ChangeFilterOnly(f) ==   \* the effect depends on the mount alone
  /\ ~Modal /\ f # txs.filter
  /\ txs' = [txs EXCEPT !.filter = f]

(* The effect on load, which every filter makes anew.                      *)
ChangeFilter(f) ==
  /\ ~Modal /\ MayLoad /\ f # txs.filter
  /\ txs' = load([txs EXCEPT !.filter = f], f, 0, FALSE)

LoadMore ==
  /\ ~Modal /\ MayLoad /\ txs.hasMore /\ ~txs.loadingMore /\ txs.items # {}
  /\ txs' = load(txs, txs.filter, txs.page + 1, TRUE)

(* Answered and drawn in one step; loads are answered in any order.        *)
Deliver(i, online) ==
  /\ i \in DOMAIN txs.loads
  /\ LET ld == txs.loads[i]
         res == fetchTransactions(ld, online)
     IN txs' = [txs EXCEPT !.items = IF ld.append THEN @ \cup res.items ELSE res.items,
                           !.page = ld.page, !.hasMore = res.hasMore,
                           !.loadingMore = FALSE, !.loads = RemoveAt(@, i),
                           !.mixed = IF ld.alone /\ online THEN ld.append /\ @ ELSE TRUE]

LoadFails(i) ==
  /\ i \in DOMAIN txs.loads
  /\ txs' = [txs EXCEPT !.error = TRUE, !.loadingMore = FALSE, !.loads = RemoveAt(@, i),
                        !.mixed = TRUE]

-----------------------------------------------------------------------------
(* Mutant.                                                                 *)
ResetToFormType(s) ==   \* the type it was asked for, whatever it edits
  [s EXCEPT !.type = s.formType, !.saving = FALSE, !.asked = FALSE]

(* The form.  It is reset when it opens, or when what it edits or the type *)
(* it was asked for changes while it is open.                              *)
Reset(s) ==
  [s EXCEPT !.type = IF s.editing # None /\ s.editing.type = "income" THEN "income"
                                                                     ELSE s.formType,
            !.saving = FALSE, !.asked = FALSE]

Drawn(s) ==
  IF s.open /\ <<s.open, s.editing, s.formType>> # <<txs.open, txs.editing, txs.formType>>
  THEN Reset(s) ELSE s

(* What a closed form holds is not looked at again.                        *)
Closed(s) == [s EXCEPT !.open = FALSE, !.editing = None, !.type = "expense",
                       !.asked = FALSE]

(* The ?add=1 link, whatever is open.                                      *)
QuickAdd(type) ==
  txs' = Drawn([txs EXCEPT !.editing = None, !.formType = type, !.open = TRUE])

OpenCreate ==
  /\ ~Modal
  /\ txs' = Drawn([txs EXCEPT !.editing = None, !.formType = "expense", !.open = TRUE])

OpenEdit(row) ==
  /\ ~Modal /\ row \in txs.items
  /\ txs' = Drawn([txs EXCEPT !.editing = row, !.open = TRUE])

CloseForm ==
  /\ txs.open /\ ~txs.saving
  /\ txs' = Closed(txs)

Toggle(type) ==
  /\ txs.open
  /\ txs' = [txs EXCEPT !.type = type, !.asked = TRUE]

(* handleDescriptionChange: the lookup is started for a new one only, and  *)
(* fills in whatever the form holds when it ends.                          *)
Lookup ==
  /\ txs.open /\ txs.editing = None /\ txs.lookups = 0
  /\ txs' = [txs EXCEPT !.lookups = 1]

findPreviousTransaction(found) ==
  /\ txs.lookups = 1
  /\ txs' = [txs EXCEPT !.lookups = 0,
                        !.type = IF found = "none" \/ ~txs.open THEN @ ELSE found,
                        !.asked = @ \/ (txs.open /\ found # "none")]

(* handleSubmit; the fields filled in.  onSaved is the closure of now.     *)
Submit ==
  /\ txs.open /\ ~txs.saving /\ txs.save = None
  /\ txs' = [txs EXCEPT !.saving = TRUE,
                        !.save = [editing |-> txs.editing, type |-> txs.type,
                                  filter |-> txs.filter,
                                  asked |-> txs.asked \/ txs.formType = "income"]]

Unused == {i \in Ids : txs.rows[i] = "none"}

Saved(s, id) ==
  Closed([s EXCEPT !.rows[id] = txs.save.type, !.save = None, !.saving = FALSE])

SaveEnds ==
  /\ txs.save # None /\ MayLoad
  /\ \/ /\ txs.save.editing = None
        /\ \E id \in Unused : txs' = refreshAll(Saved(txs, id), txs.save.filter)
     \/ /\ txs.save.editing # None
        /\ LET id == txs.save.editing.id IN
           /\ txs.rows[id] # "none"
           /\ txs' = [refreshAll(Saved(txs, id), txs.save.filter) EXCEPT !.retyped =
                        IF /\ txs.rows[id] = txs.save.editing.type
                           /\ txs.save.type # txs.rows[id] /\ ~txs.save.asked
                        THEN @ \cup {id} ELSE @]

SaveFails ==
  /\ txs.save # None
  /\ txs' = [txs EXCEPT !.save = None, !.saving = FALSE]

-----------------------------------------------------------------------------
(* Deletion and its undo.                                                  *)

AskDelete(row) ==
  /\ ~Modal /\ row \in txs.items
  /\ txs' = [txs EXCEPT !.doomed = row]

CancelDelete ==
  /\ txs.doomed # None /\ ~txs.deleting
  /\ txs' = [txs EXCEPT !.doomed = None]

ConfirmDelete ==
  /\ txs.doomed # None /\ ~txs.deleting
  /\ txs' = [txs EXCEPT !.deleting = TRUE]

(* handleDelete ends; the toast keeps the row and the closure (of the      *)
(* toasts drawn, the last is followed).                                    *)
DeleteEnds ==
  /\ txs.deleting /\ MayLoad
  /\ txs' = refreshAll([txs EXCEPT !.rows[txs.doomed.id] = "none", !.deleting = FALSE,
                                   !.doomed = None,
                                   !.undo = [id |-> txs.doomed.id, type |-> txs.doomed.type,
                                             filter |-> txs.filter]],
                       txs.filter)

DeleteFails ==
  /\ txs.deleting
  /\ txs' = [txs EXCEPT !.deleting = FALSE, !.doomed = None]

(* The row comes back as it was drawn, under an id of its own.             *)
Undo(id) ==
  /\ txs.undo # None /\ MayLoad /\ id \in Unused
  /\ txs' = refreshAll([txs EXCEPT !.rows[id] = txs.undo.type, !.undo = None], txs.undo.filter)

ToastGone ==
  /\ txs.undo # None
  /\ txs' = [txs EXCEPT !.undo = None]

-----------------------------------------------------------------------------
TransactionsNext ==
  \/ \E f \in Filters : ChangeFilter(f)
  \/ LoadMore
  \/ \E i \in DOMAIN txs.loads : Deliver(i, TRUE) \/ Deliver(i, FALSE) \/ LoadFails(i)
  \/ \E t \in Types : QuickAdd(t) \/ Toggle(t)
  \/ \E row \in txs.items : OpenEdit(row) \/ AskDelete(row)
  \/ OpenCreate \/ CloseForm \/ Lookup \/ Submit \/ SaveEnds \/ SaveFails
  \/ \E t \in Types \cup {"none"} : findPreviousTransaction(t)
  \/ CancelDelete \/ ConfirmDelete \/ DeleteEnds \/ DeleteFails \/ ToastGone
  \/ \E id \in Ids : Undo(id)

TransactionsSpec == TransactionsInit /\ [][TransactionsNext]_txs

-----------------------------------------------------------------------------
(* The rows drawn are of the filter drawn above them, however changes of   *)
(* the filter, pages, saves, deletions and undos follow one another, as    *)
(* long as each load is answered by the server before the next is started. *)
(* (Loads that overlap, fail, are answered by the mirror, or are started   *)
(* by a closure of an earlier filter may leave others: `mixed`.)           *)
ListMatchesFilter ==
  txs # None /\ txs.loads = <<>> /\ ~txs.mixed =>
    \A row \in txs.items : Matches(txs.filter, row.type)

(* An edit keeps the type of its transaction unless the user chose one, a  *)
(* lookup came late, or the form was last asked for an income              *)
(* (TransactionForm.tsx:33 says that is looked at for new ones only).      *)
EditKeepsType == txs # None => txs.retyped = {}
=============================================================================
