--------------------------- MODULE MCUpdateStream ---------------------------
(***************************************************************************)
(* A small updater: a forward and a reverse zone, two VMs that share a     *)
(* service name, an instance name one of them owns, and an alias both may  *)
(* claim, for different addresses or for the same one.                     *)
(***************************************************************************)
EXTENDS UpdateStream

CONSTANTS v1, v2, fwd, rev, svc, inst, alias, ptr, a1, a2

Rec(z, n, x, s) == [zone |-> z, name |-> n, val |-> x, src |-> s]

MCRecords ==
    {Rec(fwd, svc, a1, v1), Rec(fwd, svc, a1, v2), Rec(fwd, inst, a1, NoSrc),
     Rec(fwd, alias, a1, NoSrc), Rec(fwd, alias, a2, NoSrc),
     Rec(rev, ptr, a2, NoSrc)}

(* v1: not listed; listed in the service and as an instance; the same      *)
(* after it was given the alias.                                           *)
(* v2: not listed; in the service, with a reverse name; and with the alias.*)
MCWants ==
    [v \in VMs |->
        IF v = v1
          THEN {{},
                {Rec(fwd, svc, a1, v1), Rec(fwd, inst, a1, NoSrc)},
                {Rec(fwd, inst, a1, NoSrc), Rec(fwd, alias, a1, NoSrc)}}
          ELSE {{},
                {Rec(fwd, svc, a1, v2), Rec(rev, ptr, a2, NoSrc)},
                {Rec(fwd, alias, a2, NoSrc)}}]

(* One VM that moves between names, for longer histories: in the service   *)
(* only, and with a name in each zone.                                     *)
OneWants ==
    [v \in {v1} |->
        {{Rec(fwd, svc, a1, v1)},
         {Rec(fwd, inst, a1, NoSrc), Rec(rev, ptr, a2, NoSrc)}}]

MCZones == {fwd, rev}
MCVMs   == {v1, v2}
OneVM   == {v1}
OneRecords == {r \in MCRecords : r.src # v2}
MCNames == {svc, inst, alias, ptr}
MCVals  == {a1, a2}
=============================================================================
