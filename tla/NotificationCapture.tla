------------------------ MODULE NotificationCapture ------------------------
(***************************************************************************)
(* Notifications of banks turned into transactions, on Android: the        *)
(* listener service and its durable queue (Kotlin), the provider that      *)
(* drains the queue and listens (NotificationCaptureProvider.tsx), the     *)
(* inbox in localStorage (capture.ts) and the page that reviews it         *)
(* (PendingCapturesPage.tsx).                                              *)
(*                                                                         *)
(* A notification passes from one to the next without being acknowledged,  *)
(* and a transaction is created before its item is taken out of the inbox: *)
(* a process that dies in between loses the one and repeats the other.     *)
(* Every notification here is one the parser takes for a payment.          *)
(***************************************************************************)
EXTENDS Naturals, Sequences, SequencesExt

CONSTANTS Post,          \* the notifications posted, each once
          Same,          \* those that parse to the same key as another
          Twin,          \* those with the app, title and time of another
          None,
          Hand, Dialog,  \* approvals in flight at once, by button and by dialog
          Settings,      \* the settings chosen from
          MaxPending,    \* MAX_PENDING
          MaxQueue,      \* MAX_ITEMS
          MaxKills       \* bound: how often the process is killed

ASSUME CaptureAssumption ==
  /\ None \notin Post /\ "all" \notin Hand \cup Dialog /\ "key" \notin Post
  /\ Settings \subseteq [enabled : BOOLEAN, auto : BOOLEAN, narrow : BOOLEAN]
  /\ Same \subseteq Post /\ Twin \subseteq Post
  /\ MaxPending \in Nat \ {0} /\ MaxQueue \in Nat \ {0} /\ MaxKills \in Nat

(* dedupKeyOf: what was paid, for what and when, not which notification.   *)
dedupKeyOf(p) == IF p \in Same THEN "key" ELSE p

Worker == Hand \cup Dialog \cup {"all"}

Running == {"draining", "subscribing", "live"}

VARIABLES life,            \* dead, loading, draining, subscribing, live
          kills,           \* bound
          unposted,
          queue, disk,     \* NotificationCaptureQueue, and what of it is on disk
          enqueuing, found, \* what enqueue is adding, and the queue it has read
          bridge,          \* drained, on its way to the web view
          settings, ref,   \* in localStorage; settingsRef, read once
          recent, autos,   \* recentImportsRef; automatic imports in flight
          inbox, shown,    \* in localStorage; pendingItems, what is drawn
          busy, editing,   \* of the page
          task, stage,     \* per worker: its item; idle, creating, created
          rest,            \* what approveAll has still to do
          created,         \* per item: how many transactions it became
          skipped,         \* history: refused on the page
          gone,            \* history: ignored or lost by a step named below
          again            \* history: worked on twice at once, left half done
                           \* by a kill, or delivered again after one

native == <<unposted, queue, disk, enqueuing, found, bridge, kills>>
page == <<busy, editing, task, stage, rest>>
history == <<skipped, gone, again>>
vars == <<life, native, settings, ref, recent, autos, inbox, shown, page, created, history>>

Init ==
  /\ life = "dead" /\ kills = 0 /\ unposted = Post
  /\ queue = <<>> /\ disk = <<>> /\ bridge = <<>> /\ enqueuing = None /\ found = <<>>
  /\ settings \in Settings /\ ref = None
  /\ recent = {} /\ autos = {} /\ inbox = <<>> /\ shown = <<>>
  /\ busy = None /\ editing = None
  /\ task = [w \in Worker |-> None] /\ stage = [w \in Worker |-> "idle"]
  /\ rest = <<>> /\ created = [p \in Post |-> 0]
  /\ skipped = {} /\ gone = {} /\ again = {}

(* Items another handler has in hand, or has done with while the list is   *)
(* still drawn as approveAll found it.                                     *)
Worked == {task[w] : w \in Worker} \cup ToSet(rest) \cup (ToSet(shown) \ ToSet(inbox))

-----------------------------------------------------------------------------
(* capture.ts: the inbox.                                                  *)

InInbox(box, p) == \E i \in DOMAIN box : dedupKeyOf(box[i]) = dedupKeyOf(p)

(* Mutant.                                                                 *)
RemoveNoMore(box, p) ==   \* removes only the first of the list
  IF box # <<>> /\ Head(box) = p THEN Tail(box) ELSE box

(* addPendingCapture: one item for one key, and the oldest gives way.      *)
addPendingCapture(box, p) ==
  IF InInbox(box, p) THEN box
  ELSE IF Len(box) < MaxPending THEN Append(box, p) ELSE Append(Tail(box), p)

removePendingCapture(box, p) ==
  FoldLeft(LAMBDA kept, q : IF q = p THEN kept ELSE Append(kept, q), <<>>, box)

(* handleParsed, for the notifications that arrive together: in auto mode  *)
(* a key imported a moment ago is not imported again, otherwise they queue *)
(* for review.                                                             *)
FirstOfKey(ps) ==
  {ps[i] : i \in {j \in DOMAIN ps : /\ dedupKeyOf(ps[j]) \notin recent
                                    /\ \A h \in 1 .. j - 1 : dedupKeyOf(ps[h]) # dedupKeyOf(ps[j])}}

handleParsed(ps) ==
  IF ref.auto
  THEN /\ autos' = autos \cup FirstOfKey(ps)
       /\ recent' = recent \cup {dedupKeyOf(p) : p \in FirstOfKey(ps)}
       /\ gone' = gone \cup (ToSet(ps) \ FirstOfKey(ps))
       /\ UNCHANGED <<inbox, shown>>
  ELSE LET next == FoldLeft(addPendingCapture, inbox, ps) IN
       /\ inbox' = next
       /\ shown' = IF ps = <<>> THEN shown ELSE next
       /\ gone' = gone \cup ((ToSet(inbox) \cup ToSet(ps)) \ ToSet(next))
       /\ UNCHANGED <<autos, recent>>

-----------------------------------------------------------------------------
(* NotificationCaptureQueue.enqueue: an entry of the same posting is       *)
(* dropped, and the oldest gives way.                                      *)
postingOf(p) == IF p \in Twin THEN "posting" ELSE p

OthersOf(items, p) ==
  FoldLeft(LAMBDA kept, q : IF postingOf(q) = postingOf(p) THEN kept ELSE Append(kept, q),
           <<>>, items)

Enqueued(items, p) ==
  LET others == OthersOf(items, p)
  IN  Append(IF Len(others) < MaxQueue THEN others ELSE Tail(others), p)

-----------------------------------------------------------------------------
(* The listener service and the life of the process.                       *)

(* onNotificationPosted: to the web view if the plugin is loaded, heard or *)
(* not; otherwise enqueue reads the durable queue.                         *)
Posted(p) ==
  /\ p \in unposted /\ unposted' = unposted \ {p} /\ enqueuing = None
  /\ \/ /\ life = "dead"
        /\ enqueuing' = p /\ found' = queue
        /\ UNCHANGED <<autos, recent, inbox, shown, gone>>
     \/ /\ life \in {"loading", "draining", "subscribing"}
        /\ gone' = gone \cup {p}
        /\ UNCHANGED <<enqueuing, found, autos, recent, inbox, shown>>
     \/ /\ life = "live" /\ ~(ref.enabled /\ ~ref.narrow)
        /\ gone' = gone \cup {p}
        /\ UNCHANGED <<enqueuing, found, autos, recent, inbox, shown>>
     \/ /\ life = "live" /\ ref.enabled /\ ~ref.narrow
        /\ handleParsed(<<p>>)
        /\ UNCHANGED <<enqueuing, found>>
  /\ UNCHANGED <<life, kills, queue, disk, bridge, settings, ref, page, created, skipped, again>>

(* enqueue commits what it read and the new one, without a lock: what was  *)
(* drained since comes back.                                               *)
Commit ==
  /\ enqueuing # None /\ enqueuing' = None /\ found' = <<>>
  /\ queue' = Enqueued(found, enqueuing) /\ disk' = queue'
  /\ gone' = gone \cup (ToSet(queue) \ ToSet(queue'))
  /\ again' = again \cup (ToSet(queue') \ (ToSet(queue) \cup {enqueuing}))
  /\ UNCHANGED <<life, unposted, kills, bridge, settings, ref, recent, autos, inbox, shown,
                 page, created, skipped>>

Launch ==
  /\ life = "dead" /\ life' = "loading"
  /\ UNCHANGED <<native, settings, ref, recent, autos, inbox, shown, page, created, history>>

(* The effect of the provider: settings and inbox are read, then drain()   *)
(* reads and clears the queue, and its clearing reaches the disk later     *)
(* (apply).  What enqueue commits in between is cleared with it.           *)
StartDrain ==
  /\ life = "loading" /\ life' = "draining"
  /\ ref' = settings /\ shown' = inbox
  /\ bridge' = queue /\ queue' = <<>>
  /\ \/ UNCHANGED <<disk, enqueuing, found, gone>>
     \/ /\ enqueuing # None /\ enqueuing' = None /\ found' = <<>>
        /\ disk' = Enqueued(found, enqueuing)
        /\ gone' = gone \cup {enqueuing}
  /\ UNCHANGED <<unposted, kills, settings, recent, autos, inbox, page, created, skipped, again>>

Flush ==
  /\ disk # queue /\ disk' = queue
  /\ UNCHANGED <<life, unposted, kills, queue, enqueuing, found, bridge, settings, ref, recent,
                 autos, inbox, shown, page, created, history>>

(* Mutant.                                                                 *)
HandleDrainedIfWatched ==   \* the drained are filtered again, by package
  /\ life = "draining" /\ life' = "subscribing" /\ bridge' = <<>>
  /\ IF ref.enabled /\ ~ref.narrow THEN handleParsed(bridge)
     ELSE UNCHANGED <<autos, recent, inbox, shown, gone>>
  /\ UNCHANGED <<unposted, kills, queue, disk, enqueuing, found, settings, ref, page, created,
                 skipped, again>>

(* What was drained is handled; the apps watched are not looked at.        *)
HandleDrained ==
  /\ life = "draining" /\ life' = "subscribing" /\ bridge' = <<>>
  /\ IF ref.enabled THEN handleParsed(bridge)
     ELSE /\ gone' = gone \cup ToSet(bridge)
          /\ UNCHANGED <<autos, recent, inbox, shown>>
  /\ UNCHANGED <<unposted, kills, queue, disk, enqueuing, found, settings, ref, page, created,
                 skipped, again>>

Subscribed ==
  /\ life = "subscribing" /\ life' = "live"
  /\ UNCHANGED <<native, settings, ref, recent, autos, inbox, shown, page, created, history>>

(* The process is killed, the app's or the one that only runs the service: *)
(* memory goes, the queue is what is on disk.                              *)
Killed ==
  /\ life # "dead" \/ enqueuing # None
  /\ kills < MaxKills
  /\ life' = "dead" /\ kills' = kills + 1
  /\ queue' = disk /\ bridge' = <<>> /\ enqueuing' = None /\ found' = <<>>
  /\ again' = again \cup (ToSet(disk) \ ToSet(queue))
                     \cup {task[w] : w \in {v \in Worker : stage[v] = "created"}}
  /\ gone' = gone \cup ((ToSet(bridge) \cup autos \cup ({enqueuing} \ {None})) \ ToSet(disk))
  /\ ref' = None /\ recent' = {} /\ autos' = {} /\ shown' = <<>>
  /\ busy' = None /\ editing' = None
  /\ task' = [w \in Worker |-> None] /\ stage' = [w \in Worker |-> "idle"] /\ rest' = <<>>
  /\ UNCHANGED <<unposted, disk, settings, inbox, created, skipped>>

(* The settings page saves; nobody tells the provider.                     *)
SaveSettings(s) ==
  /\ life \in Running /\ s # settings /\ settings' = s
  /\ UNCHANGED <<life, native, ref, recent, autos, inbox, shown, page, created, history>>

(* DEDUP_WINDOW_MS runs out.                                               *)
Expire(k) ==
  /\ k \in recent /\ recent' = recent \ {k}
  /\ UNCHANGED <<life, native, settings, ref, autos, inbox, shown, page, created, history>>

(* An automatic import ends; one that fails is swallowed.                  *)
AutoEnds(p, ok) ==
  /\ p \in autos /\ autos' = autos \ {p}
  /\ created' = IF ok THEN [created EXCEPT ![p] = @ + 1] ELSE created
  /\ gone' = IF ok THEN gone ELSE gone \cup {p}
  /\ UNCHANGED <<life, native, settings, ref, recent, inbox, shown, page, skipped, again>>

-----------------------------------------------------------------------------
(* The page.                                                               *)

Started(w, p) ==
  /\ task' = [task EXCEPT ![w] = p]
  /\ stage' = [stage EXCEPT ![w] = "creating"]

Stopped(w) ==
  /\ task' = [task EXCEPT ![w] = None]
  /\ stage' = [stage EXCEPT ![w] = "idle"]

(* The button of an item that is drawn; only the last one pressed is       *)
(* disabled meanwhile.                                                     *)
Approve(h, p) ==
  /\ p \in ToSet(shown) /\ busy # p /\ stage[h] = "idle" /\ editing = None
  /\ busy' = p /\ Started(h, p)
  /\ again' = IF p \in Worked THEN again \cup {p} ELSE again
  /\ UNCHANGED <<life, native, settings, ref, recent, autos, inbox, shown, editing, rest,
                 created, skipped, gone>>

OpenEdit(p) ==
  /\ p \in ToSet(shown) /\ editing = None /\ editing' = p
  /\ UNCHANGED <<life, native, settings, ref, recent, autos, inbox, shown, busy, task, stage,
                 rest, created, history>>

(* The Create button of the dialog, which nothing disables.  An item that  *)
(* is no longer drawn closes it.                                           *)
SaveEdit(d) ==
  /\ editing # None /\ shown # <<>> /\ stage[d] = "idle"
  /\ IF editing \in ToSet(shown)
     THEN /\ Started(d, editing)
          /\ again' = IF editing \in Worked THEN again \cup {editing} ELSE again
          /\ UNCHANGED editing
     ELSE editing' = None /\ UNCHANGED <<task, stage, again>>
  /\ UNCHANGED <<life, native, settings, ref, recent, autos, inbox, shown, busy, rest,
                 created, skipped, gone>>

CloseEdit ==
  /\ editing # None /\ shown # <<>> /\ editing' = None
  /\ UNCHANGED <<life, native, settings, ref, recent, autos, inbox, shown, busy, task, stage,
                 rest, created, history>>

(* approveAll takes the inbox as it is now, and goes through it.           *)
ApproveAll ==
  /\ shown # <<>> /\ editing = None /\ stage["all"] = "idle" /\ rest = <<>>
  /\ inbox # <<>>
  /\ rest' = Tail(inbox) /\ Started("all", Head(inbox))
  /\ again' = again \cup (ToSet(inbox) \cap Worked)
  /\ UNCHANGED <<life, native, settings, ref, recent, autos, inbox, shown, busy, editing,
                 created, skipped, gone>>

Skip(p) ==
  /\ p \in ToSet(shown) /\ editing = None
  /\ inbox' = removePendingCapture(inbox, p) /\ shown' = inbox'
  /\ skipped' = skipped \cup {p}
  /\ again' = IF p \in Worked THEN again \cup {p} ELSE again
  /\ UNCHANGED <<life, native, settings, ref, recent, autos, page, created, gone>>

(* createTransaction has made the transaction, here or on the server.      *)
Create(w) ==
  /\ stage[w] = "creating" /\ stage' = [stage EXCEPT ![w] = "created"]
  /\ created' = [created EXCEPT ![task[w]] = @ + 1]
  /\ UNCHANGED <<life, native, settings, ref, recent, autos, inbox, shown, busy, editing, task,
                 rest, history>>

(* approveAll goes on with the next item; at the end it draws the inbox.   *)
NextOfAll ==
  IF rest = <<>>
  THEN rest' = rest /\ Stopped("all")
  ELSE rest' = Tail(rest) /\ Started("all", Head(rest))

(* Mutant.                                                                 *)
FinishAllUnread ==   \* approveAll draws what it started from, less the last
  /\ stage["all"] = "created"
  /\ inbox' = removePendingCapture(inbox, task["all"])
  /\ NextOfAll
  /\ shown' = IF rest = <<>> THEN removePendingCapture(shown, task["all"]) ELSE shown
  /\ UNCHANGED <<life, native, settings, ref, recent, autos, busy, editing, created, history>>

(* It was created: approve and approveAll take the item out.               *)
FinishAll ==
  /\ stage["all"] = "created"
  /\ inbox' = removePendingCapture(inbox, task["all"])
  /\ NextOfAll
  /\ shown' = IF rest = <<>> THEN inbox' ELSE shown
  /\ UNCHANGED <<life, native, settings, ref, recent, autos, busy, editing, created, history>>

Finish(w) ==
  /\ stage[w] = "created" /\ w # "all"
  /\ inbox' = removePendingCapture(inbox, task[w]) /\ shown' = inbox'
  /\ Stopped(w)
  /\ IF w \in Dialog THEN editing' = None /\ UNCHANGED busy
                      ELSE busy' = None /\ UNCHANGED editing
  /\ UNCHANGED <<life, native, settings, ref, recent, autos, rest, created, history>>

(* It was refused: the item stays, and the dialog.                         *)
Fail(w) ==
  /\ stage[w] = "creating"
  /\ IF w = "all"
     THEN /\ NextOfAll /\ shown' = (IF rest = <<>> THEN inbox ELSE shown)
          /\ UNCHANGED busy
     ELSE /\ Stopped(w) /\ busy' = (IF w \in Hand THEN None ELSE busy)
          /\ UNCHANGED <<rest, shown>>
  /\ UNCHANGED <<life, native, settings, ref, recent, autos, inbox, editing, created, history>>

Review == /\ life \in Running
          /\ \/ \E h \in Hand, p \in Post : Approve(h, p)
             \/ \E d \in Dialog : SaveEdit(d)
             \/ \E p \in Post : OpenEdit(p) \/ Skip(p)
             \/ CloseEdit \/ ApproveAll \/ FinishAll
             \/ \E w \in Worker : Create(w) \/ Finish(w) \/ Fail(w)

Provider == \/ Launch \/ Commit \/ StartDrain \/ Flush \/ HandleDrained \/ Subscribed
            \/ \E k \in Post \cup {"key"} : Expire(k)
            \/ \E p \in Post, ok \in BOOLEAN : AutoEnds(p, ok)

Next == \/ \E p \in Post : Posted(p)
        \/ Provider \/ Killed \/ Review
        \/ \E s \in Settings : SaveSettings(s)

Spec == Init /\ [][Next]_vars

-----------------------------------------------------------------------------
(* A notification becomes one transaction, whatever is pressed, unless two *)
(* handlers worked on its item at once or one after the other on a row     *)
(* that approveAll had not redrawn, the process died between the           *)
(* transaction and the inbox, or a drained queue came back, from the disk  *)
(* or with an enqueue that had read it before.                             *)
NoDoubleImport ==
  \A p \in Post : created[p] > 1 => p \in again

(* A notification that arrived is somewhere until it is a transaction or   *)
(* is refused.  What is lost, is lost because nobody listened yet, the     *)
(* process died with it in memory, its automatic import failed, the inbox  *)
(* was full or had one of its key, a moment ago one of its key was         *)
(* imported, or the durable queue was full or got another of its posting;  *)
(* it is ignored when the settings read at the start say so.  `gone`       *)
(* records those steps only.                                               *)
NothingLostSilently ==
  \A p \in Post \ unposted :
    \/ p \in {enqueuing} \cup ToSet(queue) \cup ToSet(bridge) \cup autos \cup ToSet(inbox)
    \/ created[p] > 0
    \/ p \in skipped \cup gone

(* What was skipped stays out, unless it was being approved just then, or  *)
(* comes back with a queue that was drained before, from the disk or with  *)
(* an enqueue.                                                             *)
SkippedStaysOut ==
  \A p \in skipped : p \in ToSet(inbox) \/ created[p] > 0 => p \in again

(* The list drawn is the inbox whenever approveAll is not under way,       *)
(* however additions, approvals and skips overlap.                         *)
ShownMatchesInbox == life \in Running /\ stage["all"] = "idle" => shown = inbox
=============================================================================
