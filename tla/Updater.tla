------------------------------ MODULE Updater ------------------------------
(***************************************************************************)
(* Where cns-updater's VMs come from: the poller (lib/poller-stream.js),   *)
(* the changefeed, and AppFSM (updater.js), which decides which of them is *)
(* used.  A poll pages through VMAPI's active VMs, of all owners or of     *)
(* those a watcher asks for.  The filters and the update stream are the    *)
(* end of the pipeline, the set of VMs that are served.                    *)
(***************************************************************************)
EXTENDS Integers, Sequences, FiniteSets

CONSTANTS
    VMs,            \* numbers, in the order of the uuids
    Filters,        \* filters of the UFDS watcher and the CN filter
    Selects,        \* Selects[f]: the VMs a filter selects
    MaxLimit,       \* VMs of a page at most
    HighWater,      \* objects the poller's stream holds before it is full
    ProbeSays,      \* what the probe for markers may find: VMAPI has them
    Mortals,        \* bound: the VMs that may be destroyed
    MaxQueue,       \* bound: objects in the poller's stream
    MaxAsks,        \* bound: polls the watchers ask for
    MaxFaults,      \* bound: failed pages and losses of the changefeed
    Calm            \* the changefeed registers only while no poll runs, is
                    \* not lost during a first poll, and nothing is dropped

All == "all"        \* the filter of a poll of all active VMs

ASSUME UpdaterAssumption ==
    /\ VMs # {} /\ VMs \subseteq Nat \ {0} /\ IsFiniteSet(VMs) /\ Mortals \subseteq VMs
    /\ All \notin Filters /\ Selects \in [Filters -> SUBSET VMs]
    /\ {MaxLimit, HighWater, MaxQueue} \subseteq Nat \ {0}
    /\ ProbeSays \subseteq BOOLEAN /\ Calm \in BOOLEAN
    /\ {MaxAsks, MaxFaults} \subseteq Nat

VARIABLES
    vmapi,          \* what VMAPI says of each VM
    feed,           \* the changefeed is registered
    changes,        \* VMs the changefeed's listener has changes of
    app,            \* the state of AppFSM
    ps,             \* the poller; pos is its marker, or its offset if VMAPI
                    \* has no markers; two fields are history:
                    \*   due: VMs the poll has yet to find
                    \*   asked: filters that wait for a poll to begin
    psQ, cffQ,      \* objects the poller and the changefeed filter pushed
    served,         \* VMs the update stream has written records for
    asks, faults

pipeline == <<psQ, cffQ, served>>
bounds   == <<asks, faults>>
vars     == <<vmapi, feed, changes, app, ps, pipeline, bounds>>

FirstPolls == {"cfFirstPoll", "fallbackFirstPoll"}

Selected(f) == IF f = All THEN VMs ELSE Selects[f]
Matching(f) == {v \in Selected(f) : vmapi[v] = "active"}

Init ==
    /\ vmapi \in [VMs -> {"absent", "active"}]
    /\ feed = FALSE /\ changes = <<>> /\ app = "initial"
    /\ ps = [useMarker |-> "unknown", checkingMarker |-> FALSE, running |-> FALSE,
             filter |-> All, pos |-> 0, limit |-> MaxLimit,
             fetching |-> FALSE, page |-> <<>>,
             filterQueue |-> <<>>, dedupe |-> {}, due |-> {}, asked |-> {}]
    /\ psQ = <<>> /\ cffQ = <<>> /\ served = {}
    /\ asks = 0 /\ faults = 0

Fault == faults < MaxFaults /\ faults' = faults + 1

-----------------------------------------------------------------------------
(* PollerStream.                                                           *)

Enqueue(p, f) == IF f = All THEN p ELSE [p EXCEPT !.filterQueue = Append(@, f)]

(* start(f): the poller after it.                                          *)
Start(p, f) ==
    CASE p.useMarker = "unknown" -> [Enqueue(p, f) EXCEPT !.checkingMarker = TRUE]
      [] p.useMarker # "unknown" /\ p.running ->
           IF f \in p.dedupe \cup {All} THEN p
           ELSE [Enqueue(p, f) EXCEPT !.dedupe = @ \cup {f}]
      [] OTHER -> [p EXCEPT !.running = TRUE, !.pos = 0, !.filter = f,
                            !.due = Matching(f), !.asked = @ \ {f}]

(* A watcher has noticed a change and asks for a poll.                     *)
Ask(f) ==
    /\ asks < MaxAsks /\ asks' = asks + 1
    /\ ps' = Start([ps EXCEPT !.asked = @ \cup {f}], f)
    /\ UNCHANGED <<vmapi, feed, changes, app, pipeline, faults>>

(* The answer to checkMarker's probe.                                      *)
MarkerChecked ==
    /\ ps.checkingMarker
    /\ \E found \in ProbeSays :
          ps' = Start([ps EXCEPT !.checkingMarker = FALSE,
                                 !.useMarker = IF found THEN "yes" ELSE "no"], All)
    /\ UNCHANGED <<vmapi, feed, changes, app, pipeline, bounds>>

(* What VMAPI lists after what the poll has had.                           *)
Rest ==
    LET before(v) == {w \in Matching(ps.filter) : w < v}
    IN  {v \in Matching(ps.filter) :
            IF ps.useMarker = "yes" THEN v > ps.pos
                                    ELSE Cardinality(before(v)) >= ps.pos}

(* The page that lists the first `limit` of them, in order.                *)
ListsFirst(page, limit, S) ==
    /\ \A i, j \in 1..Len(page) : i < j => page[i] < page[j]
    /\ \A v \in S \ {page[i] : i \in 1..Len(page)} :
          Len(page) = limit /\ \A i \in 1..Len(page) : page[i] < v

(* VMAPI answers the request of fetch().                                   *)
Fetch ==
    /\ ps.running /\ ~ps.fetching
    /\ \E page \in UNION {[1..n -> Rest] : n \in 0..ps.limit} :
          /\ ListsFirst(page, ps.limit, Rest)
          /\ ps' = [ps EXCEPT !.fetching = TRUE, !.page = page]
    /\ UNCHANGED <<vmapi, feed, changes, app, pipeline, bounds>>

(* Its answer is an error: the same page is fetched again.                 *)
FetchFails ==
    /\ ps.fetching /\ Fault
    /\ ps' = [ps EXCEPT !.fetching = FALSE, !.page = <<>>]
    /\ UNCHANGED <<vmapi, feed, changes, app, pipeline, asks>>

(* Math.round(x / 3).                                                      *)
Third(x) == (2 * x + 3) \div 6

(* Mutant: rounds down, and counts from 0.                                 *)
RevisedDown(limit, n, full) ==
    IF full THEN (2 * limit + n - 1) \div 3
    ELSE IF limit < MaxLimit THEN Third(2 * limit + MaxLimit) ELSE limit

(* The limit for the next page, after n objects of this one were pushed.   *)
Revised(limit, n, full) ==
    IF full THEN Third(2 * limit + n)
    ELSE IF limit < MaxLimit THEN Third(2 * limit + MaxLimit) ELSE limit

(* push() is told the stream is full by its last object: the rest of the   *)
(* page is left for the next fetch.                                        *)
Pushed ==
    LET room == IF Len(psQ) < HighWater THEN HighWater - Len(psQ) ELSE 1
    IN  IF Len(ps.page) < room THEN Len(ps.page) ELSE room

AfterPage(marker) ==
    [ps EXCEPT !.fetching = FALSE, !.page = <<>>,
               !.pos = IF ps.useMarker = "yes" THEN marker ELSE @ + Pushed,
               !.due = @ \ {ps.page[i] : i \in 1..Pushed},
               !.limit = Revised(@, Pushed, Len(psQ) + Pushed >= HighWater)]

PushPage ==
    psQ' = psQ \o [i \in 1..Pushed |-> [vm |-> ps.page[i], active |-> TRUE]]

(* Mutant: goes on from the end of the page.                               *)
HandlePageWhole ==
    /\ ps.fetching /\ ps.page # <<>> /\ Len(psQ) < MaxQueue
    /\ PushPage
    /\ ps' = AfterPage(ps.page[Len(ps.page)])
    /\ UNCHANGED <<vmapi, feed, changes, app, cffQ, served, bounds>>

HandlePage ==
    /\ ps.fetching /\ ps.page # <<>> /\ Len(psQ) < MaxQueue
    /\ PushPage
    /\ ps' = AfterPage(ps.page[Pushed])
    /\ UNCHANGED <<vmapi, feed, changes, app, cffQ, served, bounds>>

(* Mutant: the filter stays among those that need not be queued again.     *)
NextFilterKept(p) ==
    IF p.filterQueue = <<>> THEN p
    ELSE Start([p EXCEPT !.filterQueue = Tail(@)], Head(p.filterQueue))

NextFilter(p) ==
    IF p.filterQueue = <<>> THEN p
    ELSE Start([p EXCEPT !.filterQueue = Tail(@),
                         !.dedupe = @ \ {Head(p.filterQueue)}], Head(p.filterQueue))

(* An empty page: pollFinish, on which AppFSM closes the first serial and  *)
(* goes on, and then the next filter that is queued.  What is only set     *)
(* again by start() is set here, as nothing reads it before.               *)
PollFinish ==
    /\ ps.fetching /\ ps.page = <<>>
    /\ app' = CASE app = "cfFirstPoll" -> "cfRunning"
                [] app = "fallbackFirstPoll" -> "fallback"
                [] OTHER -> app
    /\ ps' = NextFilter([ps EXCEPT !.fetching = FALSE, !.running = FALSE,
                                !.pos = 0, !.filter = All])
    /\ UNCHANGED <<vmapi, feed, changes, pipeline, bounds>>

-----------------------------------------------------------------------------
(* AppFSM.  To enter a first poll is openSerial(false) and ps.start().     *)

Enter(state) ==
    /\ app' = state
    /\ ps' = IF state \in FirstPolls /\ state # app THEN Start(ps, All) ELSE ps

(* Mutant: the changefeed is thought to have lost nothing.                 *)
BootstrapMissed ==
    /\ ~feed /\ (Calm => ~ps.running)
    /\ feed' = TRUE
    /\ Enter(IF app = "cfRunning" THEN app ELSE "cfFirstPoll")
    /\ UNCHANGED <<vmapi, changes, pipeline, bounds>>

(* The changefeed has registered, again perhaps.                           *)
Bootstrap ==
    /\ ~feed /\ (Calm => ~ps.running)
    /\ feed' = TRUE
    /\ Enter("cfFirstPoll")
    /\ UNCHANGED <<vmapi, changes, pipeline, bounds>>

(* The listener emits an error.                                            *)
FeedError ==
    /\ Fault
    /\ feed' = FALSE
    /\ Enter(CASE app \in {"initial", "cfFirstPoll"} -> "fallbackFirstPoll"
               [] app = "cfRunning" -> "fallback"
               [] OTHER -> app)
    /\ UNCHANGED <<vmapi, changes, pipeline, asks>>

(* pollTimeEmitter, in fallback.                                           *)
PollTimer ==
    /\ app = "fallback" /\ ~ps.running
    /\ ps' = Start(ps, All)
    /\ UNCHANGED <<vmapi, feed, changes, app, pipeline, bounds>>

(* The changefeed filter fetches a VM; it is piped in cfRunning only.      *)
FetchChanged ==
    /\ app = "cfRunning" /\ changes # <<>>
    /\ changes' = Tail(changes)
    /\ cffQ' = Append(cffQ, [vm |-> Head(changes), active |-> vmapi[Head(changes)] = "active"])
    /\ UNCHANGED <<vmapi, feed, app, ps, psQ, served, bounds>>

-----------------------------------------------------------------------------
(* The world, and the end of the pipeline.                                 *)

Move(v) ==
    /\ \/ vmapi[v] = "absent" /\ vmapi' = [vmapi EXCEPT ![v] = "active"]
       \/ vmapi[v] = "active" /\ v \in Mortals /\ vmapi' = [vmapi EXCEPT ![v] = "destroyed"]
    /\ changes' = IF feed THEN Append(changes, v) ELSE changes
    /\ ps' = IF vmapi'[v] = "active" THEN ps ELSE [ps EXCEPT !.due = @ \ {v}]
    /\ UNCHANGED <<feed, app, pipeline, bounds>>

(* The connection of the changefeed is lost, and changes with it.          *)
LoseFeed ==
    /\ feed /\ Fault /\ (Calm => app # "cfFirstPoll")
    /\ feed' = FALSE
    /\ UNCHANGED <<vmapi, changes, app, ps, pipeline, asks>>

(* The filters drop an object or the update stream writes it.              *)
Process(obj) ==
    \E dropped \in IF Calm THEN {FALSE} ELSE BOOLEAN :
        served' = IF dropped THEN served
                  ELSE IF obj.active THEN served \cup {obj.vm} ELSE served \ {obj.vm}

WritePolled ==
    /\ psQ # <<>> /\ Process(Head(psQ)) /\ psQ' = Tail(psQ)
    /\ UNCHANGED <<vmapi, feed, changes, app, ps, cffQ, bounds>>

WriteChanged ==
    /\ app = "cfRunning" /\ cffQ # <<>> /\ Process(Head(cffQ)) /\ cffQ' = Tail(cffQ)
    /\ UNCHANGED <<vmapi, feed, changes, app, ps, psQ, bounds>>

Next ==
    \/ \E f \in Filters : Ask(f)
    \/ \E v \in VMs : Move(v)
    \/ MarkerChecked \/ Fetch \/ FetchFails \/ HandlePage \/ PollFinish
    \/ Bootstrap \/ FeedError \/ LoseFeed \/ PollTimer \/ FetchChanged
    \/ WritePolled \/ WriteChanged

(* VMAPI answers, the poller's and AppFSM's timers fire, the pipeline      *)
(* flows and the changefeed registers again and again.                     *)
Fairness ==
    /\ WF_vars(MarkerChecked) /\ WF_vars(Fetch) /\ WF_vars(HandlePage)
    /\ WF_vars(PollFinish) /\ WF_vars(PollTimer) /\ WF_vars(FetchChanged)
    /\ WF_vars(WritePolled) /\ WF_vars(WriteChanged) /\ WF_vars(Bootstrap)

Spec == Init /\ [][Next]_vars /\ Fairness

-----------------------------------------------------------------------------
(* Properties.                                                             *)

Objects == [vm : VMs, active : BOOLEAN]

(* Every variable has its type; the limit of a page stays one that VMAPI   *)
(* can answer with something, or a poll would end before its time.         *)
TypeOK ==
    /\ vmapi \in [VMs -> {"absent", "active", "destroyed"}]
    /\ feed \in BOOLEAN /\ changes \in Seq(VMs)
    /\ app \in FirstPolls \cup {"initial", "cfRunning", "fallback"}
    /\ ps \in [useMarker : {"unknown", "yes", "no"}, checkingMarker : BOOLEAN,
               running : BOOLEAN, filter : Filters \cup {All},
               pos : Nat, limit : 1..MaxLimit,
               fetching : BOOLEAN, page : Seq(VMs), filterQueue : Seq(Filters),
               dedupe : SUBSET Filters, due : SUBSET VMs, asked : SUBSET Filters]
    /\ psQ \in Seq(Objects) /\ cffQ \in Seq(Objects) /\ served \subseteq VMs
    /\ bounds \in (0..MaxAsks) \X (0..MaxFaults)

(* When a poll is taken to be finished, every VM that matched its filter   *)
(* from its start on has been pushed, although pages fail, are cut short   *)
(* when the stream is full, and VMs come and go between them.              *)
PollSeesAll == [][(ps.fetching /\ ~ps'.fetching /\ ps.page = <<>>) => ps.due = {}]_vars

(* What a watcher asks for is polled, from its start, after it asked: not  *)
(* lost in the queue, nor taken for a poll that is under way.              *)
AskedIsPolled == \A f \in Filters : f \in ps.asked ~> f \notin ps.asked

(* A VM that is active is served in the end, whichever source of changes   *)
(* is in use and whenever it was created.                                  *)
AllServed ==
    \A v \in VMs : vmapi[v] = "active" ~> (v \in served \/ vmapi[v] # "active")

-----------------------------------------------------------------------------
(* Why a poll by markers sees all: what it has yet to find comes after its *)
(* marker, and what of it a page does not list comes after the page.       *)
Shape(p) ==
    /\ p.fetching => p.running
    /\ p.running => p.useMarker # "unknown"
    /\ Len(p.page) <= MaxLimit
    /\ ~p.fetching => p.page = <<>>

DueInv(p) ==
    /\ p.useMarker # "no"
    /\ p.running => \A v \in p.due : v \in Matching(p.filter) /\ v > p.pos
    /\ p.fetching =>
          /\ \A i, j \in 1..Len(p.page) : i < j => p.page[i] < p.page[j]
          /\ p.page = <<>> => p.due = {}
          /\ \A v \in p.due \ {p.page[i] : i \in 1..Len(p.page)} :
                \A i \in 1..Len(p.page) : p.page[i] < v

IInv == TypeOK /\ Shape(ps) /\ DueInv(ps)

=============================================================================
