----------------------------- MODULE RedisPool -----------------------------
(***************************************************************************)
(* The pool of redis connections of cns-server (server.js), shared by its  *)
(* DNS side and its HTTP API.  A claim waits its turn, without a timeout,  *)
(* until a connection is free; it is named for who made it.                *)
(***************************************************************************)
EXTENDS Integers, Sequences, FiniteSets

CONSTANT PoolSize       \* maximum: 12

ASSUME PoolAssumption == PoolSize \in Nat \ {0}

VARIABLES
    held,               \* claims that have a connection
    waiting             \* claims that wait for one, the oldest first

pool == <<held, waiting>>

InLine == {waiting[i] : i \in 1..Len(waiting)}

Claim(c) == waiting' = Append(waiting, c) /\ UNCHANGED held

(* The callback of the oldest claim is called with a connection.           *)
Grant ==
    /\ waiting # <<>> /\ Cardinality(held) < PoolSize
    /\ held' = held \cup {Head(waiting)} /\ waiting' = Tail(waiting)

(* ... or with an error, when redis cannot be reached.                     *)
Refuse(c) ==
    /\ waiting # <<>> /\ Head(waiting) = c
    /\ waiting' = Tail(waiting) /\ UNCHANGED held

Release(C) == held' = held \ C /\ UNCHANGED waiting

(* One connection goes back and another is claimed, in the same turn.      *)
Exchange(c, d) == held' = held \ {c} /\ waiting' = Append(waiting, d)

=============================================================================
