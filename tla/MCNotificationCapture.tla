----------------------- MODULE MCNotificationCapture -----------------------
(* Three notifications of four, two with one key and two of one posting, a *)
(* queue and an inbox of two, an approval by button and one by dialog, one *)
(* kill; to review, or automatic for few of the apps.                      *)
EXTENDS NotificationCapture

CONSTANTS p1, p2, p3, p4, h1, d1

MCSettings == {[enabled |-> TRUE,  auto |-> FALSE, narrow |-> FALSE],
               [enabled |-> TRUE,  auto |-> TRUE,  narrow |-> TRUE]}

(* Alike notifications are interchangeable.                                *)
Alike == Permutations({p1, p2}) \cup Permutations({p3, p4})

(* Bounds: three are posted, of two of one posting one is lost or yet to   *)
(* be drained, one item is in trouble or refused, one lost, none made more *)
(* than twice; settings are not changed when no start will read them.      *)
Few == /\ Cardinality(unposted) >= 1
       /\ {p3, p4} \cap (unposted \cup {enqueuing} \cup ToSet(queue) \cup gone) # {}
       /\ Cardinality(again \cup skipped) <= 1 /\ Cardinality(gone) <= 1
       /\ \A p \in Post : created[p] <= 2
       /\ life \in Running /\ kills = MaxKills => settings = ref
=============================================================================
