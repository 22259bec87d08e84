------------------------------ MODULE ZoneLog ------------------------------
(***************************************************************************)
(* What cns-updater promises to the servers about each zone: a log of      *)
(* versions, each with a serial greater than the one before it, and        *)
(* between two neighbours a change (a set of records to remove and a set   *)
(* to add) that turns the older version into the newer one exactly.  A     *)
(* version is announced, as the latest serial, after it has been logged,   *)
(* and no version is logged before the last one is announced.              *)
(*                                                                         *)
(* Serials come from a clock.  A version that is logged early, before the  *)
(* tick of its serial, may be followed by another with the same one, which *)
(* readers cannot tell from it: only from the last of them on are they     *)
(* promised a change that leads further.                                   *)
(*                                                                         *)
(* A writer that dies may leave a version without its announcement, or a   *)
(* zone in the middle of a change.  The versions logged before stay as     *)
(* they are, serials go on increasing, and only the last version is ever   *)
(* announced; the next version of the zone makes up for it, and from there *)
(* on all is as before.  Only a version logged early and never announced   *)
(* may be logged again, and the change to it be added to.                  *)
(*                                                                         *)
(* UpdateStream keeps the log in zone:<z>:all, the changes in the lists    *)
(* zone:<z>:<from>:<to>:remove and :add, and announces in zone:<z>:latest. *)
(***************************************************************************)
EXTENDS Integers, Sequences

CONSTANT Zones

VARIABLES
    log,        \* log[z]: the versions of z, [serial, was, early], oldest
                \* first
    change,     \* change[z][i]: [remove, add] from log[z][i] to its successor
    announced,  \* announced[z]: the serial readers are told; 0 at first
    crashed     \* crashed[z]: the writer died since it logged a version of z

zvars == <<log, change, announced, crashed>>

Apply(R, c) == (R \ c.remove) \cup c.add

LastSerial(z) == IF log[z] = <<>> THEN 0 ELSE log[z][Len(log[z])].serial

Init ==
    /\ log = [z \in Zones |-> <<>>]
    /\ change = [z \in Zones |-> <<>>]
    /\ announced = [z \in Zones |-> 0]
    /\ crashed = [z \in Zones |-> FALSE]

(* t is s with one more element.                                           *)
Extends(t, s) == Len(t) = Len(s) + 1 /\ SubSeq(t, 1, Len(s)) = s

Others(z) == \A y \in Zones \ {z} : /\ log'[y] = log[y]
                                    /\ change'[y] = change[y]

(* The last version of l is another one of the serial before it.           *)
Repeats(l) ==
    LET n == Len(l)
    IN  n > 1 /\ l[n].serial = l[n - 1].serial /\ l[n - 1].early

(* A version that was never announced, and changes that do not lead to a   *)
(* version, are for a writer that has died meanwhile.                      *)
Publish(z) ==
    /\ announced[z] = LastSerial(z) \/ crashed[z]
    /\ Extends(log'[z], log[z])
    /\ LET n == Len(log'[z]) IN
       /\ \/ log'[z][n].serial > LastSerial(z)
          \/ Repeats(log'[z])
       /\ IF n = 1
            THEN change'[z] = <<>>
            ELSE /\ Extends(change'[z], change[z])
                 /\ \/ log'[z][n].was = Apply(log[z][n - 1].was, change'[z][n - 1])
                    \/ Repeats(log'[z]) \/ crashed[z]
    /\ Others(z)
    /\ crashed' = [crashed EXCEPT ![z] = FALSE]
    /\ UNCHANGED announced

Announce(z) ==
    /\ announced[z] # LastSerial(z)
    /\ announced' = [announced EXCEPT ![z] = LastSerial(z)]
    /\ UNCHANGED <<log, change, crashed>>

(* A writer that has died may log again a version that was early and never *)
(* announced: what it lists joins what was listed.                         *)
Amend(z) ==
    /\ crashed[z] /\ announced[z] # LastSerial(z)
    /\ log[z] # <<>> /\ log[z][Len(log[z])].early
    /\ DOMAIN change'[z] = DOMAIN change[z]
    /\ \A i \in DOMAIN change[z] :
         \/ change'[z][i] = change[z][i]
         \/ /\ log[z][i + 1].serial = LastSerial(z)
            /\ change[z][i].remove \subseteq change'[z][i].remove
            /\ change[z][i].add \subseteq change'[z][i].add
    /\ log' = log /\ Others(z)
    /\ UNCHANGED <<announced, crashed>>

Crash == crashed' = [z \in Zones |-> TRUE] /\ UNCHANGED <<log, change, announced>>

Next == Crash \/ \E z \in Zones : Publish(z) \/ Announce(z) \/ Amend(z)

Spec == Init /\ [][Next]_zvars

=============================================================================
