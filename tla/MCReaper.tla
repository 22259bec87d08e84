------------------------------ MODULE MCReaper ------------------------------
(***************************************************************************)
(* VMs that are incomplete, then run, then are destroyed.                  *)
(***************************************************************************)
EXTENDS Reaper

Lives == {<<"incomplete", "running">>, <<"running", "destroyed">>}
=============================================================================
