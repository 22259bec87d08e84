------------------------------ MODULE Lookups ------------------------------
(***************************************************************************)
(* What the updater looks up for a VM on its way from VMAPI to a zone, and *)
(* keeps: the server it is on (CNFilter, refreshed by UpdateCNCacheFSM)    *)
(* and the user who owns it (UfdsFilter's cache, cleared by UfdsWatcher).  *)
(* Either may change while VMs are under way; whoever notices a change     *)
(* asks the poller for the VMs concerned, which must then be given the new *)
(* value and not a cached one.                                             *)
(*                                                                         *)
(* One VM, its owner and its server.  What a copy of the user says is the  *)
(* number of the change that made it so; of a server it is whether it is   *)
(* down.                                                                   *)
(***************************************************************************)
EXTENDS Integers, Sequences

CONSTANTS
    Starts,             \* what to begin with: the number of the latest
                        \* change in UFDS's log and the state of the server
    MaxChanges,         \* bound: changes in UFDS and of the server together
    MaxQueued,          \* bound: objects before, and behind, CNFilter
    MaxFaults           \* bound: failing requests and deaths of the updater

ASSUME LookupsAssumption ==
    /\ {MaxChanges, MaxFaults} \subseteq Nat
    /\ Starts \subseteq (0..(99 - MaxChanges)) \X {"absent", "up", "down"}
    /\ MaxQueued \in Nat \ {0}

VARIABLES
    \* --- the world
    count,              \* number of the latest change in UFDS
    userAt,             \* of the latest one that concerns the owner's flags
    replacedAt,         \* of the latest one of those that is a 'replace'
    server,             \* "absent" from CNAPI, "up" or "down"
    \* --- UfdsWatcher
    lastSerial,
    fetches,            \* fetches in progress, by the number they start from
    \* --- UfdsFilter
    cache,              \* the owner in it
    lookup,             \* the answer to the search in progress
    \* --- CNFilter
    fsm,                \* UpdateCNCacheFSM
    servers,            \* the server in the cache; "undefined": no cache yet
    waiting,            \* whether the first of queued waits for the cache
    drip,               \* fake VMs the drip feeder holds
    \* --- the pipeline
    polls,              \* polls asked for: of "all" VMs, of the "owner"'s or
                        \* of the "server"'s
    queued,             \* objects of the VM before CNFilter
    stream,             \* objects behind it: what they know of the server,
                        \* or "fake" for the server's own VM
    served,             \* what the zones say of the VM: its user and server
    listed,             \* whether the server's own name is in a zone
    \* --- history and bounds
    early,              \* whether the user has changed since the updater was
                        \* started and before the first check
    missed,             \* what a change was lost for: "vm", "fake"
    changes, faults

world    == <<count, userAt, replacedAt, server, changes>>
watcher  == <<lastSerial, fetches, early>>
users    == <<cache, lookup>>
cn       == <<fsm, servers, waiting, drip>>
pipeline == <<polls, queued, stream, served, listed>>
vars     == <<world, watcher, users, cn, pipeline, missed, faults>>

None == -1
NotServed == [user |-> None, server |-> "absent"]

(* The memory of an updater that has just started; AppFSM polls all VMs.   *)
Fresh ==
    /\ lastSerial' = None /\ fetches' = {} /\ early' = FALSE
    /\ cache' = None /\ lookup' = None
    /\ fsm' = "sleep" /\ servers' = "undefined" /\ waiting' = FALSE /\ drip' = 0
    /\ polls' = {"all"} /\ queued' = 0 /\ stream' = <<>>

Init ==
    /\ \E start \in Starts : count = start[1] /\ server = start[2]
    /\ userAt = count /\ replacedAt = count
    /\ lastSerial = None /\ fetches = {} /\ early = FALSE
    /\ cache = None /\ lookup = None
    /\ fsm = "sleep" /\ servers = "undefined" /\ waiting = FALSE /\ drip = 0
    /\ polls = {"all"} /\ queued = 0 /\ stream = <<>>
    /\ served = NotServed /\ listed = FALSE
    /\ missed = {} /\ changes = 0 /\ faults = 0

Fault == faults < MaxFaults /\ faults' = faults + 1

-----------------------------------------------------------------------------
(* The world.                                                              *)

Change ==
    /\ changes < MaxChanges /\ changes' = changes + 1
    /\ UNCHANGED <<lastSerial, fetches, users, cn, pipeline, missed, faults>>

(* A change in UFDS: of the owner's flags, by a modification that replaces *)
(* one or that adds or deletes one, or of anything else.                   *)
UserChanges ==
    /\ Change /\ count' = count + 1
    /\ \/ /\ userAt' = count + 1 /\ early' = (lastSerial = None)
          /\ replacedAt' \in {replacedAt, count + 1}
       \/ UNCHANGED <<userAt, replacedAt, early>>
    /\ UNCHANGED server

(* A server is set up, stops or comes back.                                *)
ServerChanges ==
    /\ Change /\ server' \in {"up", "down"} \ {server}
    /\ UNCHANGED <<count, userAt, replacedAt, early>>

-----------------------------------------------------------------------------
(* UfdsWatcher.                                                            *)

WatcherUnchanged == UNCHANGED <<world, lookup, cn, queued, stream, served, listed>>

(* Change numbers arrive as strings, and that is what is compared.         *)
Text(n) == IF n < 10 THEN <<n>> ELSE <<n \div 10, n % 10>>
TextLess(m, n) ==
    \E i \in 1..Len(Text(n)) :
        /\ \A j \in 1..(i - 1) : j <= Len(Text(m)) /\ Text(m)[j] = Text(n)[j]
        /\ i > Len(Text(m)) \/ Text(m)[i] < Text(n)[i]
Later(n) == lastSerial = None \/ TextLess(lastSerial, n)

(* Mutant: fetches from the number just seen.                              *)
CheckFromHere ==
    /\ IF Later(count)
       THEN /\ lastSerial' = count
            /\ fetches' = IF lastSerial = None THEN fetches ELSE fetches \cup {count}
       ELSE UNCHANGED <<lastSerial, fetches>>
    /\ missed' = IF early THEN missed \cup {"vm"} ELSE missed
    /\ early' = FALSE
    /\ UNCHANGED <<cache, polls, faults>> /\ WatcherUnchanged

(* A check, every five seconds; one that fails does nothing.  The first    *)
(* number seen is where watching begins: what changed between the start of *)
(* the updater and then is missed.                                         *)
Check ==
    /\ IF Later(count)
       THEN /\ lastSerial' = count
            /\ fetches' = IF lastSerial = None THEN fetches ELSE fetches \cup {lastSerial}
       ELSE UNCHANGED <<lastSerial, fetches>>
    /\ missed' = IF early THEN missed \cup {"vm"} ELSE missed
    /\ early' = FALSE
    /\ UNCHANGED <<cache, polls, faults>> /\ WatcherUnchanged

(* processEntry passes over a modification that is not a 'replace'; and a  *)
(* search of UfdsFilter's that was evaluated before the change and is      *)
(* answered after this fetch puts the old user back.                       *)
Misses(f) ==
    userAt > f /\ (replacedAt <= f \/ lookup \in 0..(userAt - 1))

(* Mutant: the cache is left to expire by itself.                          *)
FetchAnswerOnly(f) ==
    /\ f \in fetches /\ fetches' = fetches \ {f}
    /\ polls' = IF replacedAt > f THEN polls \cup {"owner"} ELSE polls
    /\ missed' = IF Misses(f) THEN missed \cup {"vm"} ELSE missed
    /\ UNCHANGED <<lastSerial, early, cache, faults>> /\ WatcherUnchanged

(* The changes since f.                                                    *)
FetchAnswer(f) ==
    /\ f \in fetches /\ fetches' = fetches \ {f}
    /\ IF replacedAt > f
       THEN cache' = None /\ polls' = polls \cup {"owner"}
       ELSE UNCHANGED <<cache, polls>>
    /\ missed' = IF Misses(f) THEN missed \cup {"vm"} ELSE missed
    /\ UNCHANGED <<lastSerial, early, faults>> /\ WatcherUnchanged

(* lastSerial has moved on already.                                        *)
FetchFails(f) ==
    /\ f \in fetches /\ fetches' = fetches \ {f}
    /\ missed' = IF userAt > f THEN missed \cup {"vm"} ELSE missed
    /\ Fault
    /\ UNCHANGED <<lastSerial, early, cache, polls>> /\ WatcherUnchanged

-----------------------------------------------------------------------------
(* CNFilter.                                                               *)

CNUnchanged == UNCHANGED <<world, watcher, users, served, listed>>

(* _transform with a cache c: a VM of an unknown server is dropped.        *)
Transform(c) ==
    /\ queued' = queued - 1
    /\ IF c = "absent"
       THEN stream' = stream /\ missed' = missed \cup {"vm"}
       ELSE stream' = Append(stream, c) /\ missed' = missed

TransformVM ==
    /\ queued > 0 /\ servers # "undefined" /\ Len(stream) < MaxQueued
    /\ Transform(servers)
    /\ UNCHANGED <<cn, polls, faults>> /\ CNUnchanged

(* afterUpdate; a sleeping FSM starts at once.                             *)
WaitForServers ==
    /\ queued > 0 /\ servers = "undefined" /\ ~waiting
    /\ waiting' = TRUE
    /\ fsm' = IF fsm = "sleep" THEN "update" ELSE fsm
    /\ UNCHANGED <<servers, drip, polls, queued, stream, missed, faults>> /\ CNUnchanged

(* Mutant: no timer but that of state_retry.                               *)
UpdateTimerOnce ==
    /\ fsm = "retry" /\ fsm' = "update"
    /\ UNCHANGED <<servers, waiting, drip, polls, queued, stream, missed, faults>>
    /\ CNUnchanged

(* The timer of state_sleep, every minute, and that of state_retry.        *)
UpdateTimer ==
    /\ fsm \in {"sleep", "retry"} /\ fsm' = "update"
    /\ UNCHANGED <<servers, waiting, drip, polls, queued, stream, missed, faults>>
    /\ CNUnchanged

Known(s) == s \in {"up", "down"}

(* Mutant: what CNAPI has not shown before is only cached.                 *)
NewsIfKnown(new) ==
    /\ drip' = IF Known(servers) /\ new # servers THEN drip + 1 ELSE drip
    /\ polls' = IF Known(servers) /\ new # servers THEN polls \cup {"server"} ELSE polls

(* Mutant: a poll only for a server that goes down.                        *)
NewsIfDown(new) ==
    /\ drip' = IF Known(new) /\ new # servers THEN drip + 1 ELSE drip
    /\ polls' = IF Known(servers) /\ new # servers /\ new = "down"
                THEN polls \cup {"server"} ELSE polls

(* A server that is new, or whose state is, has its fake VM made; one that *)
(* was known has its VMs polled.                                           *)
News(new) ==
    /\ drip' = IF Known(new) /\ new # servers THEN drip + 1 ELSE drip
    /\ polls' = IF Known(servers) /\ new # servers THEN polls \cup {"server"} ELSE polls

(* The answer of CNAPI; state_fire calls those who wait.                   *)
GotServers ==
    /\ fsm = "update" /\ fsm' = "sleep"
    /\ servers' = server /\ News(server)
    /\ waiting' = FALSE
    /\ IF waiting THEN Transform(servers') ELSE UNCHANGED <<queued, stream, missed>>
    /\ UNCHANGED faults /\ CNUnchanged

(* An error, or no answer within 30 seconds.                               *)
UpdateFails ==
    /\ fsm = "update" /\ fsm' = "retry"
    /\ Fault
    /\ UNCHANGED <<servers, waiting, drip, polls, queued, stream, missed>> /\ CNUnchanged

(* DripFeederFSM: one fake VM at a time.                                   *)
Drip ==
    /\ drip > 0 /\ Len(stream) <= MaxQueued
    /\ drip' = drip - 1 /\ stream' = Append(stream, "fake")
    /\ UNCHANGED <<fsm, servers, waiting, polls, queued, missed, faults>> /\ CNUnchanged

-----------------------------------------------------------------------------
(* The poller and other sources, UfdsFilter, and the rest of the pipeline. *)

RestUnchanged == UNCHANGED <<world, watcher, cn>>

Poll(f) ==
    /\ f \in polls /\ queued < MaxQueued
    /\ polls' = polls \ {f} /\ queued' = queued + 1
    /\ UNCHANGED <<users, stream, served, listed, missed, faults>> /\ RestUnchanged

(* The changefeed, or the reaper on one of its rounds.                     *)
Arrive ==
    /\ queued < MaxQueued /\ queued' = queued + 1
    /\ UNCHANGED <<users, polls, stream, served, listed, missed, faults>> /\ RestUnchanged

IsVM == stream # <<>> /\ Head(stream) # "fake"

(* The object at the head goes through, with user u, and is written.       *)
Serve(u) ==
    /\ stream' = Tail(stream)
    /\ served' = [user |-> u, server |-> Head(stream)]
    /\ UNCHANGED <<polls, queued, listed>>

CacheHit ==
    /\ IsVM /\ lookup = None /\ cache # None
    /\ Serve(cache)
    /\ UNCHANGED <<users, missed, faults>> /\ RestUnchanged

Search ==
    /\ IsVM /\ lookup = None /\ cache = None
    /\ lookup' = userAt
    /\ UNCHANGED <<cache, pipeline, missed, faults>> /\ RestUnchanged

SearchAnswer ==
    /\ lookup # None /\ lookup' = None
    /\ cache' = lookup /\ Serve(lookup)
    /\ UNCHANGED <<missed, faults>> /\ RestUnchanged

(* The user, or what a later filter asks for, cannot be had.               *)
Drop ==
    /\ stream # <<>> /\ stream' = Tail(stream)
    /\ lookup' = None
    /\ missed' = missed \cup {IF IsVM THEN "vm" ELSE "fake"}
    /\ Fault
    /\ UNCHANGED <<cache, polls, queued, served, listed>> /\ RestUnchanged

(* The server's own VM: its owner, the admin, is looked up like any other. *)
ServeFake ==
    /\ stream # <<>> /\ ~IsVM /\ stream' = Tail(stream)
    /\ listed' = TRUE
    /\ UNCHANGED <<users, polls, queued, served, missed, faults>> /\ RestUnchanged

(* Mutant: no maxAge.                                                      *)
ExpireNever == FALSE

(* maxAge, five minutes.                                                   *)
Expire ==
    /\ cache # None /\ cache' = None
    /\ UNCHANGED <<lookup, pipeline, missed, faults>> /\ RestUnchanged

-----------------------------------------------------------------------------
Restart ==
    /\ Fault /\ Fresh
    /\ missed' = missed \ {"fake"}
    /\ UNCHANGED <<world, served, listed>>

WatcherStep == \E f \in fetches : FetchAnswer(f)
CNStep == TransformVM \/ WaitForServers \/ UpdateTimer \/ GotServers
UserStep == CacheHit \/ Search \/ SearchAnswer \/ ServeFake
AnyPoll == \E f \in polls : Poll(f)

Next ==
    \/ UserChanges \/ ServerChanges
    \/ Check \/ WatcherStep \/ \E f \in fetches : FetchFails(f)
    \/ CNStep \/ UpdateFails \/ Drip
    \/ AnyPoll \/ Arrive \/ UserStep \/ Drop \/ Expire
    \/ Restart

(* Timers fire, requests are answered or fail, streams flow.  Nothing is   *)
(* assumed of Arrive: the poller must do.                                  *)
Fairness ==
    /\ WF_vars(Check) /\ WF_vars(WatcherStep)
    /\ WF_vars(TransformVM) /\ WF_vars(WaitForServers)
    /\ WF_vars(UpdateTimer) /\ WF_vars(GotServers) /\ WF_vars(Drip)
    /\ WF_vars(AnyPoll) /\ WF_vars(UserStep) /\ WF_vars(Expire)

Spec == Init /\ [][Next]_vars /\ Fairness

-----------------------------------------------------------------------------
(* Properties.                                                             *)

States == {"up", "down"}

(* Every variable has its type; a fetch starts from before lastSerial, and *)
(* a search is under way only for the VM at the head of the stream.        *)
TypeOK ==
    /\ count \in Nat /\ userAt \in 0..count /\ replacedAt \in 0..userAt
    /\ early \in BOOLEAN /\ (early => lastSerial = None)
    /\ server \in States \cup {"absent"}
    /\ lastSerial \in 0..count \cup {None}
    /\ \A f \in fetches : f \in Nat /\ f < lastSerial
    /\ cache \in 0..userAt \cup {None} /\ lookup \in 0..userAt \cup {None}
    /\ lookup # None => IsVM
    /\ fsm \in {"sleep", "update", "retry"}
    /\ servers \in States \cup {"absent", "undefined"}
    /\ waiting \in BOOLEAN /\ (waiting => queued > 0 /\ servers = "undefined")
    /\ drip \in Nat
    /\ polls \subseteq {"all", "owner", "server"}
    /\ queued \in 0..MaxQueued
    /\ stream \in Seq(States \cup {"fake"}) /\ Len(stream) <= MaxQueued + 1
    /\ served \in [user : 0..userAt \cup {None}, server : States \cup {"absent"}]
    /\ listed \in BOOLEAN
    /\ missed \subseteq {"vm", "fake"}
    /\ changes \in 0..MaxChanges /\ faults \in 0..MaxFaults

(* A change of the user that the watcher has still to look at.             *)
ToBeNoticed == lastSerial < userAt \/ \E f \in fetches : f < userAt

HasVM(s) == \E i \in 1..Len(s) : s[i] # "fake"
Waits == queued > 0 \/ HasVM(stream)

(* An outdated user, in the cache, in the answer to a search or in the     *)
(* zones, is one whose change is yet to be looked at or whose VM is on its *)
(* way to be done again.  A change is lost in no other ways than those     *)
(* missed stands for: before the first check, by a failing fetch, by a     *)
(* fetch that finds no 'replace' of a flag among its changes, by a search  *)
(* overtaken by the watcher, or by dropping the VM.                        *)
StaleUserIsPending ==
    "vm" \notin missed =>
        /\ \A u \in {cache, lookup} : u # None /\ u < userAt => ToBeNoticed
        /\ served.user # None /\ served.user < userAt =>
              ToBeNoticed \/ polls \cap {"all", "owner"} # {} \/ Waits

(* The last object of the VM in s knows the server to be c.                *)
Carries(s, c) ==
    \E i \in 1..Len(s) : s[i] = c /\ \A j \in (i + 1)..Len(s) : s[j] = "fake"

(* The same of its server, whose state the next update will show or has    *)
(* shown: then a poll is asked for, or the VM is on its way.               *)
StaleServerIsPending ==
    "vm" \notin missed /\ served # NotServed /\ served.server # server =>
        \/ servers # server
        \/ polls \cap {"all", "server"} # {} \/ queued > 0
        \/ Carries(stream, server)

UpToDate == served = [user |-> userAt, server |-> server]

SameWidth == lastSerial = None \/ Len(Text(lastSerial)) = Len(Text(count))

(* Without any help from the changefeed or the reaper, the zones follow    *)
(* the user and the server, as long as no change is missed and numbers     *)
(* keep their width.                                                       *)
ChangesAreServed ==
    [](("vm" \notin missed) /\ SameWidth) => <>[](UpToDate \/ served = NotServed)

(* Whatever was missed, the expiry of the cache and being visited again    *)
(* and again, which is what the reaper does with a VM that redis has a key *)
(* of, repair it.                                                          *)
VisitsRepair == []<><<Arrive>>_vars => <>[](UpToDate \/ server = "absent")

(* A server gets its name once its fake VM is not dropped.                 *)
ServerIsListed == []("fake" \notin missed) => (server # "absent" ~> listed)

-----------------------------------------------------------------------------
(* Why TypeOK and the two Stale...IsPending hold: an invariant that every  *)
(* step preserves (Lookups_proofs).                                        *)

(* Before the first check only early tells that something is to be missed. *)
WillBeNoticed ==
    \/ early
    \/ lastSerial # None /\ lastSerial < userAt
    \/ \E f \in fetches : f < userAt

UserInv ==
    "vm" \notin missed =>
        /\ cache # None /\ cache < userAt => WillBeNoticed
        /\ lookup # None /\ lookup < userAt => WillBeNoticed
        /\ served.user # None /\ served.user < userAt =>
              WillBeNoticed \/ polls \cap {"all", "owner"} # {} \/ Waits

(* Until CNAPI has answered nothing has passed and the first poll is still *)
(* to come; a server that it did not know has no VM that has passed.       *)
CacheInv ==
    /\ servers = "undefined" =>
          stream = <<>> /\ drip = 0 /\ ("all" \in polls \/ queued > 0)
    /\ served = NotServed \/ served.server \in States
    /\ served # NotServed \/ HasVM(stream) \/ Known(servers)
          => server # "absent"
    /\ servers = "absent" =>
          served = NotServed /\ ~HasVM(stream)

(* What the zones say, or will when those under way are written, follows  *)
(* the cache, whatever CNAPI says.                                         *)
ServerInv ==
    "vm" \notin missed /\ Known(servers) =>
        \/ polls \cap {"all", "server"} # {} \/ queued > 0
        \/ Carries(stream, servers)
        \/ ~HasVM(stream) /\ (served = NotServed \/ served.server = servers)

IInv == TypeOK /\ UserInv /\ CacheInv /\ ServerInv

=============================================================================
