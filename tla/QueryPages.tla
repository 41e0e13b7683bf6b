----------------------------- MODULE QueryPages -----------------------------
(***************************************************************************)
(* The pages that draw what the query cache holds and change it: dashboard,*)
(* accounts, categories, budgets, ledger and reports, and what the         *)
(* transactions page does to the cache.  Each handler saves, is answered   *)
(* and then has some queries fetched again; the others keep what they had  *)
(* until a page opens after their 30 seconds.                              *)
(*                                                                         *)
(* While the server cannot be reached, accounts, categories and            *)
(* transactions are saved in the queue and the mirror of the device, and   *)
(* fetched from the mirror (api.ts); the rest fails.  Passes of the sync   *)
(* go on beneath the pages, which are not told of them.                    *)
(*                                                                         *)
(* Queries do not depend on one another, so one is watched, any of them;   *)
(* of a query per month (or range), that of one month.                     *)
(***************************************************************************)
EXTENDS QueryCache, Sequences, FiniteSets

CONSTANTS MaxChanges,   \* bound: changes made
          MaxTasks      \* bound: handlers running at once

ASSUME QueryAssumption ==
  /\ None \notin [since : Nat, server : SUBSET Nat]
  /\ MaxChanges \in Nat /\ MaxTasks \in Nat

VARIABLE qc    \* the query watched, the page that is open, and its handlers

DashboardQueries == {"summary", "categories", "accounts", "recent"}
AccountsQueries == {"accounts", "categories"}
CategoriesQueries == {"categories"}
BudgetsQueries == {"budget-summary", "budget-alerts", "categories"}
LedgerQueries == {"ledger", "accounts"}
ReportsQueries == {"report-overview", "report-breakdown", "report-trends"}
TransactionsQueries == {"categories", "accounts"}

Queries ==
  [dashboard |-> DashboardQueries, accounts |-> AccountsQueries,
   categories |-> CategoriesQueries, budgets |-> BudgetsQueries,
   ledger |-> LedgerQueries, reports |-> ReportsQueries,
   transactions |-> TransactionsQueries]

CachedPages == DOMAIN Queries

Keys == UNION {Queries[p] : p \in CachedPages}

(* One query for each month, or for each number of months.                 *)
PerMonth == {"summary", "recent", "budget-summary", "report-trends"}

(* What the mirror holds, and the changes it is written with.              *)
MirrorKeys == {"accounts", "categories", "recent"}

Mirrored(op) ==
  CASE op \in {"accountSave", "accountDelete"} -> {"accounts"}
    [] op \in {"categorySave", "categoryDelete"} -> {"categories"}
    [] op \in {"txSave", "txDelete"} -> {"recent"}
    [] OTHER -> {}

(* home: the month watched is the one pages open on; shown: it is the one  *)
(* the page is on; dialog: what it is for; tasks: handlers, each with what *)
(* it waits for, the change it made and whether the page it was started on *)
(* is still there; changes: the changes made; server, mirror: those the    *)
(* server has, and those the mirror has of the query; local: those put in  *)
(* the queue; over: history, those a pass took from the mirror; done:      *)
(* history, changes whose handler ended; missed: history, those whose      *)
(* refresh met a fetch it could not start over.                            *)
FreshCache(key, home, page) ==
  [key |-> key, home |-> home, page |-> page, shown |-> home, dialog |-> None,
   entry |-> IF key \in Queries[page] /\ (key \in PerMonth => home)
             THEN Fetched(NoEntry, [since |-> 0, server |-> {}]) ELSE NoEntry,
   tasks |-> {}, changes |-> <<>>, server |-> {}, mirror |-> {}, local |-> {}, over |-> {},
   done |-> {}, missed |-> {}]

CacheFresh ==
  {FreshCache(k, TRUE, p) : k \in Keys \ PerMonth, p \in CachedPages}
    \cup {FreshCache(k, h, p) : k \in PerMonth, h \in BOOLEAN, p \in CachedPages}

CacheInit == qc \in CacheFresh

-----------------------------------------------------------------------------
Now == Len(qc.changes)

Asked(s) == [since |-> Len(s.changes), server |-> s.server]

InUse(page, shown) == qc.key \in Queries[page] /\ (qc.key \in PerMonth => shown)

Used == InUse(qc.page, qc.shown)

OpenPage(page) ==
  /\ page # qc.page
  /\ qc' = [qc EXCEPT !.page = page, !.shown = qc.home, !.dialog = None,
                      !.tasks = {[t EXCEPT !.here = FALSE] : t \in @},
                      !.entry = IF InUse(page, qc.home) THEN Mounted(@, Asked(qc)) ELSE @]

(* Budgets of other months than the one watched are changed as well, and   *)
(* are no concern of it.                                                   *)
Watched == qc.key \in PerMonth => qc.shown

(* The page turns to another month, or range, and back.                    *)
Turned ==
  [qc EXCEPT !.shown = ~@,
             !.entry = IF InUse(qc.page, ~qc.shown) THEN Mounted(@, Asked(qc)) ELSE @]

DashboardMonth == qc.page = "dashboard" /\ qc.key \in PerMonth /\ qc' = Turned
BudgetsMonth == qc.page = "budgets" /\ qc.dialog = None /\ qc.key \in PerMonth /\ qc' = Turned
ReportsRange == qc.page = "reports" /\ qc.key \in PerMonth /\ qc' = Turned

(* Made before the fetch, and still in the queue when it began.            *)
Unsent == {id \in qc.local : id <= qc.entry.fetch.since /\ id \notin qc.entry.fetch.server}

(* Made before the fetch, and not what the mirror is written with (the     *)
(* balances of a transaction), or taken from it.                           *)
Unmirrored ==
  {id \in 1..qc.entry.fetch.since : qc.key \notin Mirrored(qc.changes[id]) \/ id \in qc.over}

(* The server answers with what it had when it was asked and some of what  *)
(* it got since, the mirror with what it has when it is read.              *)
QueryEnds ==
  /\ qc.entry.fetch # None
  /\ \/ \E got \in SUBSET (qc.server \ qc.entry.fetch.server) :
          qc' = [qc EXCEPT !.entry = Answered(@, @.fetch.server \cup got, Unsent)]
     \/ /\ qc.key \in MirrorKeys
        /\ qc' = [qc EXCEPT !.entry = Answered(@, qc.mirror, Unmirrored)]
     \/ qc' = [qc EXCEPT !.entry = Failed(@)]

(* The network is back.                                                    *)
Reconnected ==
  /\ Used
  /\ qc' = [qc EXCEPT !.entry = Mounted(@, Asked(qc))]

HalfMinute ==
  /\ qc.entry.fresh
  /\ qc' = [qc EXCEPT !.entry.fresh = FALSE]

(* Data no page has used for five minutes are dropped.                     *)
Collect ==
  /\ ~Used /\ qc.entry.fetch = None /\ qc.entry # NoEntry
  /\ qc' = [qc EXCEPT !.entry = NoEntry]

-----------------------------------------------------------------------------
(* A pass of the sync, as far as the query goes (OfflineSync has the rest):*)
(* a queued change gets to the server, unless it is refused; the mirror is *)
(* cleared and filled with rows pulled and rows kept, of which those the   *)
(* server has otherwise are lost.                                          *)
SyncPushes ==
  \E id \in qc.local \ qc.server : qc' = [qc EXCEPT !.server = @ \cup {id}]

SyncPulls ==
  /\ qc.key \in MirrorKeys
  /\ \E got \in SUBSET (qc.server \cup qc.over) : \E lost \in SUBSET (qc.mirror \ got) :
       qc' = [qc EXCEPT !.mirror = (@ \cup got) \ lost, !.over = (@ \ got) \cup lost]

-----------------------------------------------------------------------------
(* Handlers.                                                               *)

Invalidate(s, keys, id) ==
  IF s.key \notin keys THEN s
  ELSE [s EXCEPT !.entry = Invalidated(@, Used, Asked(s)),
                 !.missed = IF Overtakes(s.entry, Used) THEN @ \cup {id} ELSE @]

Refetch(s, keys, id) ==
  IF s.key \notin keys THEN s
  ELSE [s EXCEPT !.entry = Refetched(@, Asked(s)),
                 !.missed = IF isLoading(s.entry) THEN @ \cup {id} ELSE @]

(* A handler is started once the fields are filled in.  Some buttons stay  *)
(* disabled until the refresh ended too.                                   *)
Busy(op, whole) == \E t \in qc.tasks : t.here /\ t.op = op /\ (whole \/ t.at = "save")

Starts(op) ==
  /\ Cardinality(qc.tasks) < MaxTasks
  /\ qc' = [qc EXCEPT !.tasks = @ \cup {[op |-> op, at |-> "save", id |-> 0, here |-> TRUE]}]

Opens(page, op) ==
  /\ qc.page = page /\ qc.dialog = None
  /\ qc' = [qc EXCEPT !.dialog = op]

(* What is listed under a key can be acted on once there is any.           *)
Listed(key) == qc.key = key => qc.entry.has

CloseDialog(op, whole) ==
  /\ qc.dialog = op /\ ~Busy(op, whole)
  /\ qc' = [qc EXCEPT !.dialog = None]

Submits(op, whole) ==
  /\ qc.dialog = op /\ ~Busy(op, whole) /\ Starts(op)

(* Where a change is made: at the server; in the queue, when the server    *)
(* cannot be reached; or in both, when only its reply did not get back.    *)
Queueable(op) == Mirrored(op) # {}

Places(op) == IF Queueable(op) THEN {{"server"}, {"queue"}, {"server", "queue"}} ELSE {{"server"}}

Made(s, op, places) ==
  [s EXCEPT !.changes = Append(@, op),
            !.server = IF "server" \in places THEN @ \cup {Now + 1} ELSE @,
            !.local = IF "queue" \in places THEN @ \cup {Now + 1} ELSE @]

(* It is made, and its handler goes on to `at'.                            *)
Written(t, at, places) ==
  [Made(qc, t.op, places) EXCEPT
     !.mirror = IF qc.key \in Mirrored(t.op) THEN @ \cup {Now + 1} ELSE @,
     !.dialog = IF t.here /\ @ = t.op THEN None ELSE @,
     !.tasks = (@ \ {t}) \cup {[t EXCEPT !.at = at, !.id = Now + 1]}]

(* It is not, or it is and nobody hears of it: the reply was an error, or  *)
(* what was queued is not in the mirror.  A confirmation closes anyway.    *)
Fails(t, closes) ==
  LET s == [qc EXCEPT !.tasks = @ \ {t},
                      !.dialog = IF t.here /\ closes /\ @ = t.op THEN None ELSE @]
  IN \/ qc' = s
     \/ Now < MaxChanges /\ \E places \in Places(t.op) : qc' = Made(s, t.op, places)

Saving(op) == {t \in qc.tasks : t.op = op /\ t.at = "save"}

(* The handler ends when what it refreshed was answered.                   *)
RefreshEnds(t) ==
  /\ t.at = "refresh" /\ qc.entry.fetch = None
  /\ qc' = [qc EXCEPT !.tasks = @ \ {t}, !.done = @ \cup {t.id}]

(* The buttons of the pages.                                               *)
AccountsOpen ==
  \/ Opens("accounts", "accountSave")
  \/ Listed("accounts") /\ Opens("accounts", "accountDelete")

CategoriesOpen ==
  \/ Opens("categories", "categorySave")
  \/ Listed("categories") /\ Opens("categories", "categoryDelete")

BudgetsOpen ==
  \/ Watched /\ Listed("categories") /\ Opens("budgets", "budgetSave")
  \/ Watched /\ Listed("budget-summary") /\ Opens("budgets", "budgetDelete")

LedgerOpen == Opens("ledger", "ledgerCreate")

TransactionsOpen == Opens("transactions", "txSave") \/ Opens("transactions", "txDelete")

-----------------------------------------------------------------------------
(* Accounts and categories.                                                *)

refreshAccounts(s) == Invalidate(s, {"accounts"}, Len(s.changes))

SubmitAccount == Submits("accountSave", FALSE)

(* Mutant.                                                                 *)
AccountSavedOnly ==   \* the list is left as it is
  \E t \in Saving("accountSave") :
    \/ Fails(t, FALSE)
    \/ Now < MaxChanges /\ \E places \in Places(t.op) : qc' = Written(t, "refresh", places)

AccountSaved ==
  \E t \in Saving("accountSave") :
    \/ Fails(t, FALSE)
    \/ Now < MaxChanges /\ \E places \in Places(t.op) :
         qc' = refreshAccounts(Written(t, "refresh", places))

ConfirmAccountDelete == Submits("accountDelete", TRUE)

AccountDeleted ==
  \E t \in Saving("accountDelete") :
    \/ Fails(t, TRUE)
    \/ Now < MaxChanges /\ \E places \in Places(t.op) :
         qc' = refreshAccounts(Written(t, "refresh", places))

refreshCategories(s) == Invalidate(s, {"categories"}, Len(s.changes))

SubmitCategory == Submits("categorySave", FALSE)

CategorySaved ==
  \E t \in Saving("categorySave") :
    \/ Fails(t, FALSE)
    \/ Now < MaxChanges /\ \E places \in Places(t.op) :
         qc' = refreshCategories(Written(t, "refresh", places))

ConfirmCategoryDelete == Submits("categoryDelete", TRUE)

CategoryDeleted ==
  \E t \in Saving("categoryDelete") :
    \/ Fails(t, TRUE)
    \/ Now < MaxChanges /\ \E places \in Places(t.op) :
         qc' = refreshCategories(Written(t, "refresh", places))

-----------------------------------------------------------------------------
(* Budgets and the ledger.                                                 *)

SubmitBudget == Listed("categories") /\ Submits("budgetSave", TRUE)

BudgetSaved ==
  \E t \in Saving("budgetSave") :
    \/ Fails(t, FALSE)
    \/ Now < MaxChanges
       /\ qc' = Refetch(Written(t, "refresh", {"server"}),
                       {"budget-summary", "budget-alerts", "categories"}, Now + 1)

ConfirmBudgetDelete == Submits("budgetDelete", TRUE)

BudgetDeleted ==
  \E t \in Saving("budgetDelete") :
    \/ Fails(t, TRUE)
    \/ Now < MaxChanges /\ qc' = Refetch(Written(t, "refresh", {"server"}), {"budget-summary"}, Now + 1)

(* One alert, or all of them; no button waits for it.                      *)
Acknowledge ==
  /\ qc.page = "budgets" /\ qc.dialog = None /\ Listed("budget-alerts")
  /\ Starts("alertAck")

Acknowledged ==
  \E t \in Saving("alertAck") :
    \/ Fails(t, TRUE)
    \/ Now < MaxChanges /\ qc' = Refetch(Written(t, "refresh", {"server"}), {"budget-alerts"}, Now + 1)

SubmitLedger == Submits("ledgerCreate", TRUE)

LedgerCreated ==
  \E t \in Saving("ledgerCreate") :
    \/ Fails(t, FALSE)
    \/ Now < MaxChanges /\ qc' = Refetch(Written(t, "refresh", {"server"}), {"ledger"}, Now + 1)

Migrate ==
  /\ qc.page = "ledger" /\ qc.dialog = None
  /\ Starts("ledgerMigrate")

Migrated ==
  \E t \in Saving("ledgerMigrate") :
    \/ Fails(t, TRUE)
    \/ Now < MaxChanges /\ qc' = Refetch(Written(t, "refresh", {"server"}), {"ledger"}, Now + 1)

-----------------------------------------------------------------------------
(* The transactions page loads its list before it invalidates any query.   *)

SubmitTransaction == Submits("txSave", FALSE)

ConfirmTransactionDelete == Submits("txDelete", TRUE)

TransactionWritten ==
  \E t \in Saving("txSave") \cup Saving("txDelete") :
    \/ Fails(t, t.op = "txDelete")
    \/ Now < MaxChanges /\ \E places \in Places(t.op) : qc' = Written(t, "load", places)

ListLoaded ==
  \E t \in {u \in qc.tasks : u.at = "load"} :
    qc' = [Invalidate(qc, {"summary", "accounts"}, t.id) EXCEPT
             !.tasks = (@ \ {t}) \cup {[t EXCEPT !.at = "refresh"]}]

-----------------------------------------------------------------------------
(* What the open page makes of the query: an outline while it is loaded    *)
(* for the first time, or nothing, as if there was nothing to draw; nothing *)
(* as well after a first load that failed.                                 *)
Filled == IF qc.entry.has THEN "data" ELSE "nothing"

Outlined(keys) == IF qc.key \in keys /\ isLoading(qc.entry) THEN "outline" ELSE Filled

DashboardDraws == Outlined({"summary", "categories", "recent"})
AccountsDraws == Filled
CategoriesDraws == Filled
BudgetsDraws == Outlined({"budget-summary"})
LedgerDraws == Outlined({"ledger"})
ReportsDraws == Outlined(ReportsQueries)

Draws ==
  CASE qc.page = "dashboard" -> DashboardDraws
    [] qc.page = "accounts" -> AccountsDraws
    [] qc.page = "categories" -> CategoriesDraws
    [] qc.page = "budgets" -> BudgetsDraws
    [] qc.page = "ledger" -> LedgerDraws
    [] qc.page = "reports" -> ReportsDraws
    [] OTHER -> Filled

-----------------------------------------------------------------------------
CacheNext ==
  \/ \E p \in CachedPages : OpenPage(p)
  \/ DashboardMonth \/ BudgetsMonth \/ ReportsRange \/ QueryEnds \/ HalfMinute \/ Collect
  \/ Reconnected \/ SyncPushes \/ SyncPulls
  \/ AccountsOpen \/ CategoriesOpen \/ BudgetsOpen \/ LedgerOpen \/ TransactionsOpen
  \/ CloseDialog("accountSave", FALSE) \/ CloseDialog("accountDelete", TRUE)
  \/ CloseDialog("categorySave", FALSE) \/ CloseDialog("categoryDelete", TRUE)
  \/ CloseDialog("budgetSave", TRUE) \/ CloseDialog("budgetDelete", TRUE)
  \/ CloseDialog("ledgerCreate", TRUE)
  \/ CloseDialog("txSave", FALSE) \/ CloseDialog("txDelete", TRUE)
  \/ SubmitAccount \/ AccountSaved \/ ConfirmAccountDelete \/ AccountDeleted
  \/ SubmitCategory \/ CategorySaved \/ ConfirmCategoryDelete \/ CategoryDeleted
  \/ SubmitBudget \/ BudgetSaved \/ ConfirmBudgetDelete \/ BudgetDeleted
  \/ Acknowledge \/ Acknowledged
  \/ SubmitLedger \/ LedgerCreated \/ Migrate \/ Migrated
  \/ SubmitTransaction \/ ConfirmTransactionDelete \/ TransactionWritten \/ ListLoaded
  \/ \E t \in qc.tasks : RefreshEnds(t)

CacheSpec == CacheInit /\ [][CacheNext]_qc

-----------------------------------------------------------------------------
(* What a change changes, of the queries.                                  *)
Concerns(op) ==
  CASE op \in {"txSave", "txDelete"} -> Keys \ {"categories"}
    [] op \in {"accountSave", "accountDelete"} -> {"accounts", "ledger"}
    [] op \in {"categorySave", "categoryDelete"} ->
         {"categories", "summary", "budget-summary", "budget-alerts", "report-breakdown"}
    [] op \in {"budgetSave", "budgetDelete"} -> {"budget-summary", "budget-alerts"}
    [] op = "alertAck" -> {"budget-alerts"}
    [] OTHER -> {"ledger", "accounts"}

(* And what its handler leaves as it was.                                  *)
Overlooked(op) ==
  CASE op \in {"txSave", "txDelete"} -> {"recent", "ledger"} \cup BudgetsQueries \cup ReportsQueries
    [] op \in {"accountSave", "accountDelete"} -> {"ledger"}
    [] op \in {"categorySave", "categoryDelete"} ->
         {"summary", "budget-summary", "budget-alerts", "report-breakdown"}
    [] op = "budgetDelete" -> {"budget-alerts"}
    [] op \in {"ledgerCreate", "ledgerMigrate"} -> {"accounts"}
    [] OTHER -> {}

(* A page that draws a query draws the user's own changes in it, on every  *)
(* path through pages, months, fetches that end late and handlers left     *)
(* running, once the handler of the change has ended and nothing is being  *)
(* fetched; except what the handler overlooks, what its refresh met being  *)
(* fetched already, what could not be fetched, and what the source of the  *)
(* data did not have when it was asked: the server what is still in the    *)
(* queue, the mirror the balances that a transaction changed and what a    *)
(* pass of the sync overwrote.                                             *)
OwnChangeShown ==
  qc # None =>
    (Used /\ Draws = "data" /\ qc.entry.fetch = None /\ ~qc.entry.failed =>
       \A id \in qc.done \ qc.missed :
         qc.key \in Concerns(qc.changes[id]) \ Overlooked(qc.changes[id])
           => id \in qc.entry.seen \cup qc.entry.lacks)
=============================================================================
