----------------------------- MODULE MCLookups -----------------------------
(***************************************************************************)
(* A server that is up and change numbers that keep their width, or a      *)
(* server that is yet to be set up and a number about to gain a digit.     *)
(***************************************************************************)
EXTENDS Lookups

MCStarts == {<<10, "up">>, <<9, "absent">>}
=============================================================================
