----------------------------- MODULE MCUpdater -----------------------------
(***************************************************************************)
(* Two VMs, one of them of the owner whom the filter is for.               *)
(***************************************************************************)
EXTENDS Updater

Uuids == 1..2

FirstOnly == [f \in Filters |-> {1}]
=============================================================================
