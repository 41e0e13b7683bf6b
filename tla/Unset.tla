------------------------------- MODULE Unset -------------------------------
(* The value of what is not there: null, undefined, a page that is closed. *)
CONSTANT None
=============================================================================
