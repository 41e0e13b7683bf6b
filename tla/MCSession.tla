----------------------------- MODULE MCSession -----------------------------
(* Two users, one request beside /me and the login, and one restart: a     *)
(* refresh can cross a sign-out, a sign-in and the hydration.              *)
EXTENDS Session

CONSTANT u1

(* The users are interchangeable: whoever is signed in at first is u1.     *)
MCInit == intent \in {u1, None} /\ Init

MCSpec == MCInit /\ [][Next]_vars /\ Fairness

(* Nothing is claimed of a damaged store; and the deletions of a sign-out  *)
(* reach the disk together.                                                *)
Undamaged == ~Damaged /\ (disk["access"] = None => disk["user"] = None)
=============================================================================
