---------------------------- MODULE UpdateStream ----------------------------
(***************************************************************************)
(* The last stage of the cns-updater pipeline (lib/update-stream.js) and   *)
(* the zone builders it drives (lib/zone-builder.js).                      *)
(*                                                                         *)
(* VMs that have been through all the filters are written to the stream.   *)
(* Each write replaces the records the VM had with the ones it should have *)
(* in a set of per-zone builders.  The builders live for one serial: a     *)
(* serial is opened by hand around a poll of VMAPI, or by the first write  *)
(* that touches a record, in which case a timer closes it.  Closing a      *)
(* serial commits every dirty builder to redis: the incremental change     *)
(* lists that IXFR serves, the records themselves, the list of serials,    *)
(* the latest serial, and then what each VM was given (last_recs) and the  *)
(* NS records of the serial.                                               *)
(*                                                                         *)
(* Each action is one turn of the JavaScript event loop: what runs between *)
(* two answers from redis.                                                 *)
(***************************************************************************)
EXTENDS Integers, Sequences

CONSTANTS
    Zones,          \* names of DNS zones
    VMs,            \* uuids of VMs
    Names,          \* names under a zone
    Vals,           \* what a record says: its constructor and args
    NoSrc,          \* the src of a record that has none
    Records,        \* the records this configuration can generate
    Wants,          \* Wants[vm]: the sets of records buildZonesFromVm may
                    \* give for vm as it changes; {} when it is not listed
    Undef,          \* an absent entry of vmsToCommit
    Callbacks,      \* whether closeSerial() is passed a callback: the
                    \* updater passes none, the unit tests do
    MaxTick,        \* bound: the clock stops here
    MaxCrashes,     \* bound: how often the process dies
    MaxDeferred,    \* bound: listeners of 'done' a poll still adds to
    MaxEarly        \* bound: versions of a zone that begin to be committed
                    \* in the tick their serial was opened in, by a poll
                    \* that ends within it

(* DEFAULT_TRIGGER_INT is 10 s, and so is the unit of a serial number.     *)
TriggerTicks == 1

(* A serial of 0 stands for undefined: nextSerial is never 0.              *)
NoSerial == 0

SameName(r, s) == r.zone = s.zone /\ r.name = s.name

(* What buildZonesFromVm guarantees of the records it makes: a name either *)
(* always carries a src (the .svc. names: every VM of the service adds to  *)
(* it) or never does, and a src is the uuid of the VM the record is for.   *)
ASSUME RecordsAssumption ==
    /\ NoSrc \notin VMs
    /\ Records \subseteq
         [zone : Zones, name : Names, val : Vals, src : VMs \cup {NoSrc}]
    /\ \A r, s \in Records :
         SameName(r, s) => (r.src = NoSrc <=> s.src = NoSrc)

ASSUME WantsAssumption ==
    /\ VMs # {}
    /\ Wants \in [VMs -> SUBSET (SUBSET Records)]
    /\ \A v \in VMs : \A W \in Wants[v] : \A r \in W : r.src \in {v, NoSrc}
    /\ \A R \in SUBSET Records : Undef # R

ASSUME CallersAssumption == Callbacks \subseteq BOOLEAN

ASSUME BoundsAssumption ==
    /\ MaxTick \in Nat /\ MaxCrashes \in Nat /\ MaxDeferred \in Nat
    /\ MaxEarly \in Nat

VARIABLES
    now,            \* the clock, in the 10 s ticks of currentSerial()
    crashes,        \* how often the process has died
    \* --- memory of the UpdateStream
    serial,         \* this.serial
    timer,          \* tick at which this.timer may fire; 0 when not pending
    busy,           \* what this.busy guards: "idle", "write" or "commit"
    deferred,       \* listeners of this.busy 'done', in order
    turn,           \* listeners the present emit('done') has yet to call
    opened,         \* zones that have a builder in this.zones
    from,           \* their fromSerial
    rms, adds,      \* their rms and adds, of all zones together
    vmsToCommit,    \* last_recs of the VMs written since the last commit
    write,          \* the _write in progress
    job,            \* the commit in progress
    polling,        \* a poll that will end in closeSerial() is under way
    \* --- redis
    content,        \* zone:<z>, all zones together
    latest,         \* zone:<z>:latest; 0 when absent
    all,            \* zone:<z>:all; of each serial also what the zone held
                    \* then, how many crashes it came after, and whether its
                    \* commit began before its tick
    ixfr,           \* entries of zone:<z>:<from>:<to>:remove and :add
    lastRecs,       \* vm:<uuid> last_recs; {} when absent
    nsrecs,         \* nsrecs:<z>:<serial>
    \* --- history
    reported,       \* serials a caller of closeSerial(cb) was told are done
    finished,       \* serials whose commit has run to its end
    cut             \* zones and serials of commits that a crash cut short

memory == <<serial, timer, busy, deferred, turn, opened, from, rms, adds,
            vmsToCommit, write, job, polling>>
redis  == <<content, latest, all, ixfr, lastRecs, nsrecs>>
vars   == <<now, crashes, memory, redis, reported, finished, cut>>

-----------------------------------------------------------------------------
(* Mutant: the serial before the current one instead of the next.          *)
PreviousSerial == now - 1

NextSerial == now + 1

AVM == CHOOSE v \in VMs : TRUE

NoWrite == [stage |-> "none", vm |-> AVM, want |-> {}, old |-> {}]

WriteStages == {"none", "waiting", "fetch", "remove", "set"}

NoJob == [stage |-> "none", serial |-> NoSerial, early |-> FALSE, cb |-> FALSE,
          zones |-> {}, from |-> [z \in Zones |-> NoSerial],
          rms   |-> {}, adds |-> {},
          step  |-> [z \in Zones |-> "done"], names |-> {},
          recs  |-> [v \in VMs |-> Undef]]

ZoneSteps == {"remove", "add", "names", "all", "latest", "done"}

WriteWaiter == [kind |-> "write", serial |-> NoSerial, cb |-> FALSE]
CloseWaiter(s, cb) == [kind |-> "close", serial |-> s, cb |-> cb]
Waiters == [kind : {"write", "close"}, serial : Nat, cb : BOOLEAN]

IsDirty(z) == \E r \in rms \cup adds : r.zone = z

(* utils.recMatch: same constructor and args, under the same name.         *)
RecMatch(r, s) == SameName(r, s) /\ r.val = s.val

(* The filter `!src || r.src === src`, src taken from the VM's own record. *)
InSrc(r, own) == own.src = NoSrc \/ r.src = own.src

(* Zone.list: what redis holds, less the removals, plus the additions.     *)
List == (content \ rms) \cup adds

(* rmEntries: the listed records that match one of the entries E.          *)
Matching(E) == {r \in List : \E e \in E : RecMatch(r, e) /\ InSrc(r, e)}

(* setEntries: recSetDiff of the listed records of the names of W and W.   *)
Surplus(W) == {r \in List : /\ \E w \in W : SameName(r, w) /\ InSrc(r, w)
                            /\ ~ \E w \in W : RecMatch(r, w)}
Missing(W) == {w \in W : ~ \E r \in List : RecMatch(r, w) /\ InSrc(r, w)}

(* Mutant: only looks whether the zone is still wanted.                    *)
DroppedZones(old, W) == {r \in old : r.zone \notin {w.zone : w \in W}}

(* The records of `old` whose name the VM should no longer have.           *)
Dropped(old, W) == {r \in old : ~ \E w \in W : SameName(r, w)}

ZonesOf(R) == {r.zone : r \in R}

Init ==
    /\ now = 0 /\ crashes = 0
    /\ serial = NoSerial /\ timer = 0 /\ busy = "idle"
    /\ deferred = <<>> /\ turn = <<>>
    /\ opened = {} /\ from = [z \in Zones |-> NoSerial]
    /\ rms = {} /\ adds = {}
    /\ vmsToCommit = [v \in VMs |-> Undef]
    /\ write = NoWrite /\ job = NoJob /\ polling = FALSE
    /\ content = {} /\ latest = [z \in Zones |-> NoSerial]
    /\ all = [z \in Zones |-> <<>>] /\ ixfr = {}
    /\ lastRecs = [v \in VMs |-> {}] /\ nsrecs = {}
    /\ reported = {} /\ finished = {} /\ cut = {}

-----------------------------------------------------------------------------
(* Opening and closing a serial.  These are parts of actions: what happens *)
(* to the memory of the stream when the code calls the function.           *)

Quiet == turn = <<>>      \* no listener is left to run in this turn

(* Mutant: opens a new serial over one that is open.                       *)
OpenSerialAgain(timeBased) ==
    /\ serial' = NextSerial
    /\ timer' = IF timeBased THEN now + TriggerTicks ELSE timer
    /\ opened' = {} /\ rms' = {} /\ adds' = {}
    /\ UNCHANGED from

OpenSerial(timeBased) ==
    IF serial # NoSerial
      THEN UNCHANGED <<serial, timer, opened, from, rms, adds>>
      ELSE /\ serial' = NextSerial
           /\ timer' = IF timeBased THEN now + TriggerTicks ELSE timer
           /\ opened' = {} /\ rms' = {} /\ adds' = {}
           /\ UNCHANGED from

(* The part of closeSerial() after its check of busy: the builders change  *)
(* hands, the dirty ones are committed in parallel.  Nothing keeps it from  *)
(* beginning in the tick the serial was opened in, before its own: a serial *)
(* opened after that, within the tick, is the same one once more.          *)
StartCommit(cb) ==
    /\ busy' = "commit"
    /\ serial' = NoSerial /\ timer' = 0
    /\ job' = [NoJob EXCEPT
                 !.stage = "zones", !.serial = serial, !.cb = cb,
                 !.early = now < serial,
                 !.zones = {z \in opened : IsDirty(z)},
                 !.from  = from, !.rms = rms, !.adds = adds,
                 !.step  = [z \in Zones |-> IF z \in opened /\ IsDirty(z)
                                              THEN "remove" ELSE "done"],
                 !.names = {<<r.zone, r.name>> : r \in rms \cup adds}]
    /\ opened' = {} /\ rms' = {} /\ adds' = {}
    /\ from' = [z \in Zones |-> NoSerial]
    /\ UNCHANGED deferred

(* closeSerial() while a write or a commit runs: it listens for 'done'.    *)
DeferClose(cb) ==
    /\ deferred' = Append(deferred, CloseWaiter(serial, cb))
    /\ UNCHANGED <<serial, busy, job, opened, from, rms, adds>>

(* Mutant: wakes only those that wait to close a serial.                   *)
IsCloser(w) == w.kind = "close"
BusyDoneForClosers ==
    busy' = "idle" /\ turn' = SelectSeq(deferred, IsCloser) /\ deferred' = <<>>

(* _busyDone(): emit('done') calls the listeners before anything else.     *)
BusyDone == busy' = "idle" /\ turn' = deferred /\ deferred' = <<>>

-----------------------------------------------------------------------------
(* Time, and the callers of the stream.                                    *)

Tick == 
    /\ now < MaxTick
    /\ now + 1 = MaxTick => Quiet /\ write = NoWrite
    /\ now' = now + 1
    /\ UNCHANGED <<crashes, memory, redis, reported, finished, cut>>

(* us.openSerial(false) on entry to a first-poll state of the updater.     *)
PollStart ==
    /\ Quiet /\ ~polling /\ now < MaxTick
    /\ Len(deferred) < MaxDeferred
    /\ polling' = TRUE
    /\ OpenSerial(FALSE)
    /\ UNCHANGED <<now, crashes, busy, deferred, turn, vmsToCommit, write, job,
                   redis, reported, finished, cut>>

IsEarly(version) == version.early

(* us.closeSerial() on 'pollFinish'.  With no serial open it only reports  *)
(* an error to its callback.                                               *)
PollDone(cb) ==
    /\ Quiet /\ polling
    /\ polling' = FALSE
    /\ \/ /\ serial # NoSerial
          /\ now < serial => \A z \in Zones : Len(SelectSeq(all[z], IsEarly)) < MaxEarly
          /\ IF busy = "idle" THEN StartCommit(cb)
                               ELSE DeferClose(cb) /\ UNCHANGED timer
       \/ /\ serial = NoSerial
          /\ UNCHANGED <<serial, timer, busy, deferred, opened, from, rms, adds,
                         job>>
    /\ UNCHANGED <<now, crashes, turn, vmsToCommit, write, redis, reported,
                   finished, cut>>

(* Mutant: the timer does not look at busy.                                *)
TimerFiresRegardless ==
    /\ Quiet /\ timer # 0 /\ now >= timer
    /\ StartCommit(FALSE)
    /\ UNCHANGED <<now, crashes, turn, vmsToCommit, write, polling, redis,
                   reported, finished, cut>>

(* Mutant: a timer that fires while the stream is busy is forgotten.       *)
TimerFiresOnce ==
    /\ Quiet /\ timer # 0 /\ now >= timer
    /\ timer' = 0
    /\ IF busy = "idle" THEN StartCommit(FALSE)
         ELSE UNCHANGED <<serial, busy, deferred, opened, from, rms, adds, job>>
    /\ UNCHANGED <<now, crashes, turn, vmsToCommit, write, polling, redis,
                   reported, finished, cut>>

(* The timer of a time-based serial.                                       *)
TimerFires ==
    /\ Quiet /\ timer # 0 /\ now >= timer
    /\ timer' = 0
    /\ IF busy = "idle" THEN StartCommit(FALSE) ELSE DeferClose(FALSE)
    /\ UNCHANGED <<now, crashes, turn, vmsToCommit, write, polling, redis,
                   reported, finished, cut>>

(* The next listener of 'done' runs: a _write or closeSerial that waited.  *)
RunListener ==
    /\ ~Quiet
    /\ turn' = Tail(turn)
    /\ LET w == Head(turn) IN
       \/ /\ w.kind = "write" /\ busy = "idle"
          /\ busy' = "write" /\ write' = [write EXCEPT !.stage = "fetch"]
          /\ UNCHANGED <<serial, timer, deferred, opened, from, rms, adds, job,
                         reported>>
       \/ /\ w.kind = "close" /\ w.serial = serial /\ busy = "idle"
          /\ StartCommit(w.cb)
          /\ UNCHANGED <<write, reported>>
       \/ /\ w.kind = "write" \/ w.serial = serial
          /\ busy # "idle"
          /\ deferred' = Append(deferred, w)
          /\ UNCHANGED <<serial, timer, busy, opened, from, rms, adds, job,
                         write, reported>>
       \/ /\ w.kind = "close" /\ w.serial # serial
          /\ reported' = IF w.cb THEN reported \cup {w.serial} ELSE reported
          /\ UNCHANGED <<serial, timer, busy, deferred, opened, from, rms, adds,
                         job, write>>
    /\ UNCHANGED <<now, crashes, vmsToCommit, polling, redis, finished, cut>>

-----------------------------------------------------------------------------
(* _write: one VM replaces its records in the builders.                    *)

Write(v, W) ==
    /\ Quiet /\ write.stage = "none" /\ now < MaxTick
    /\ \/ /\ busy = "idle"
          /\ busy' = "write"
          /\ write' = [stage |-> "fetch", vm |-> v, want |-> W, old |-> {}]
          /\ UNCHANGED deferred
       \/ /\ busy # "idle"
          /\ deferred' = Append(deferred, WriteWaiter)
          /\ write' = [stage |-> "waiting", vm |-> v, want |-> W, old |-> {}]
          /\ UNCHANGED busy
    /\ UNCHANGED <<now, crashes, serial, timer, turn, opened, from, rms, adds,
                   vmsToCommit, job, polling, redis, reported, finished, cut>>

(* Mutant: does not look into vmsToCommit.                                 *)
FetchSavedRecs ==
    /\ Quiet /\ write.stage = "fetch"
    /\ LET old == lastRecs[write.vm]
       IN /\ write' = [write EXCEPT !.stage = "remove", !.old = old]
          /\ IF Dropped(old, write.want) \cup write.want # {}
               THEN OpenSerial(TRUE)
               ELSE UNCHANGED <<serial, timer, opened, from, rms, adds>>
    /\ UNCHANGED <<now, crashes, busy, deferred, turn, vmsToCommit, job, polling,
                   redis, reported, finished, cut>>

(* The answer to hget last_recs; what an earlier write of this VM left in  *)
(* vmsToCommit takes precedence.  rmEntries and setEntries open the serial *)
(* before they touch a zone.                                               *)
FetchLastRecs ==
    /\ Quiet /\ write.stage = "fetch"
    /\ LET v   == write.vm
           old == IF vmsToCommit[v] # Undef THEN vmsToCommit[v]
                                            ELSE lastRecs[v]
       IN /\ write' = [write EXCEPT !.stage = "remove", !.old = old]
          /\ IF Dropped(old, write.want) \cup write.want # {}
               THEN OpenSerial(TRUE)
               ELSE UNCHANGED <<serial, timer, opened, from, rms, adds>>
    /\ UNCHANGED <<now, crashes, busy, deferred, turn, vmsToCommit, job, polling,
                   redis, reported, finished, cut>>

(* openZone: a builder starts from the latest serial of its zone.          *)
OpenZones(Z) ==
    /\ opened' = opened \cup Z
    /\ from' = [z \in Zones |-> IF z \in Z \ opened THEN latest[z] ELSE from[z]]

(* A record added in this serial is dropped again, one of redis removed.   *)
Remove(R, plus) ==
    /\ rms' = rms \cup (R \ adds)
    /\ adds' = (adds \ R) \cup plus

RemoveEntries ==
    /\ Quiet /\ write.stage = "remove"
    /\ LET E == Dropped(write.old, write.want)
       IN  OpenZones(ZonesOf(E)) /\ Remove(Matching(E), {})
    /\ write' = [write EXCEPT !.stage = "set"]
    /\ UNCHANGED <<now, crashes, serial, timer, busy, deferred, turn, vmsToCommit,
                   job, polling, redis, reported, finished, cut>>

SetEntries ==
    /\ Quiet /\ write.stage = "set"
    /\ LET W == write.want
       IN  OpenZones(ZonesOf(W)) /\ Remove(Surplus(W), Missing(W))
    /\ vmsToCommit' = [vmsToCommit EXCEPT ![write.vm] = write.want]
    /\ write' = NoWrite
    /\ BusyDone
    /\ UNCHANGED <<now, crashes, serial, timer, job, polling, redis, reported,
                   finished, cut>>

-----------------------------------------------------------------------------
(* The commit: zones in parallel, each saveIxfr, then its names, then its  *)
(* list of serials and its latest one; after them the VMs, in parallel,    *)
(* and the NS records of the zones that were dirty.                        *)

CommitUnchanged == UNCHANGED <<now, crashes, serial, timer, busy, deferred, turn,
                               opened, from, rms, adds, write, polling,
                               reported, finished, cut>>

Entries(z, op, R) ==
    IF job.from[z] = NoSerial THEN {}
    ELSE [zone : {z}, from : {job.from[z]}, to : {job.serial}, op : {op},
          rec  : {r \in R : r.zone = z}]

PushRemoves(z) ==
    /\ Quiet /\ job.stage = "zones" /\ job.step[z] = "remove"
    /\ ixfr' = ixfr \cup Entries(z, "remove", job.rms)
    /\ job' = [job EXCEPT !.step[z] = "add"]
    /\ UNCHANGED <<content, latest, all, lastRecs, nsrecs, vmsToCommit>>
    /\ CommitUnchanged

PushAdds(z) ==
    /\ Quiet /\ job.stage = "zones" /\ job.step[z] = "add"
    /\ ixfr' = ixfr \cup Entries(z, "add", job.adds)
    /\ job' = [job EXCEPT !.step[z] = "names"]
    /\ UNCHANGED <<content, latest, all, lastRecs, nsrecs, vmsToCommit>>
    /\ CommitUnchanged

(* doCommitJob: one name of the zone is rewritten.                         *)
Under(R, z, n) == {r \in R : r.zone = z /\ r.name = n}

CommitName(z, n) ==
    /\ Quiet /\ job.stage = "zones" /\ job.step[z] = "names"
    /\ <<z, n>> \in job.names
    /\ content' = (content \ Under(job.rms, z, n)) \cup Under(job.adds, z, n)
    /\ job' = [job EXCEPT !.names = @ \ {<<z, n>>}]
    /\ UNCHANGED <<latest, all, ixfr, lastRecs, nsrecs, vmsToCommit>>
    /\ CommitUnchanged

InZone(R, z) == {r \in R : r.zone = z}
NewVersion(z) == [serial |-> job.serial, was |-> InZone(content, z),
                  after |-> crashes, early |-> job.early]

(* Mutant: does not wait for the names to be rewritten.                    *)
PushAllEarly(z) ==
    /\ Quiet /\ job.stage = "zones" /\ job.step[z] = "names"
    /\ all' = [all EXCEPT ![z] = Append(@, NewVersion(z))]
    /\ job' = [job EXCEPT !.step[z] = "latest"]
    /\ UNCHANGED <<content, latest, ixfr, lastRecs, nsrecs, vmsToCommit>>
    /\ CommitUnchanged

PushAll(z) ==
    /\ Quiet /\ job.stage = "zones" /\ job.step[z] = "names"
    /\ ~ \E n \in Names : <<z, n>> \in job.names
    /\ all' = [all EXCEPT ![z] = Append(@, NewVersion(z))]
    /\ job' = [job EXCEPT !.step[z] = "latest"]
    /\ UNCHANGED <<content, latest, ixfr, lastRecs, nsrecs, vmsToCommit>>
    /\ CommitUnchanged

SetLatest(z) ==
    /\ Quiet /\ job.stage = "zones" /\ job.step[z] = "latest"
    /\ latest' = [latest EXCEPT ![z] = job.serial]
    /\ job' = [job EXCEPT !.step[z] = "done"]
    /\ UNCHANGED <<content, all, ixfr, lastRecs, nsrecs, vmsToCommit>>
    /\ CommitUnchanged

StartVMRecords ==
    /\ Quiet /\ job.stage = "zones"
    /\ \A z \in Zones : job.step[z] = "done"
    /\ job' = [job EXCEPT !.stage = "vms", !.recs = vmsToCommit]
    /\ vmsToCommit' = [v \in VMs |-> Undef]
    /\ UNCHANGED redis
    /\ CommitUnchanged

SaveVMRecord(v) ==
    /\ Quiet /\ job.stage = "vms" /\ job.recs[v] # Undef
    /\ lastRecs' = [lastRecs EXCEPT ![v] = job.recs[v]]
    /\ job' = [job EXCEPT !.recs[v] = Undef]
    /\ UNCHANGED <<content, latest, all, ixfr, nsrecs, vmsToCommit>>
    /\ CommitUnchanged

VMRecordsSaved == job.stage = "vms" /\ \A v \in VMs : job.recs[v] = Undef

(* Mutant: takes the serial that is open, not the one being committed.     *)
SaveNSRecordsOfOpen(z) ==
    /\ Quiet /\ VMRecordsSaved /\ z \in job.zones
    /\ nsrecs' = nsrecs \cup {<<z, serial>>}
    /\ job' = [job EXCEPT !.zones = @ \ {z}]
    /\ UNCHANGED <<content, latest, all, ixfr, lastRecs, vmsToCommit>>
    /\ CommitUnchanged

SaveNSRecords(z) ==
    /\ Quiet /\ VMRecordsSaved /\ z \in job.zones
    /\ nsrecs' = nsrecs \cup {<<z, job.serial>>}
    /\ job' = [job EXCEPT !.zones = @ \ {z}]
    /\ UNCHANGED <<content, latest, all, ixfr, lastRecs, vmsToCommit>>
    /\ CommitUnchanged

FinishCommit ==
    /\ Quiet /\ VMRecordsSaved /\ job.zones = {}
    /\ finished' = finished \cup {job.serial}
    /\ reported' = IF job.cb THEN reported \cup {job.serial} ELSE reported
    /\ job' = NoJob
    /\ BusyDone
    /\ UNCHANGED <<now, crashes, serial, timer, opened, from, rms, adds,
                   vmsToCommit, write, polling, redis, cut>>

(* The process dies: killed, or by the 'error' of a failed redis command,  *)
(* which nothing listens for.  Its supervisor starts it again.             *)
Crash ==
    /\ crashes < MaxCrashes
    /\ crashes' = crashes + 1
    /\ serial' = NoSerial /\ timer' = 0 /\ busy' = "idle"
    /\ deferred' = <<>> /\ turn' = <<>>
    /\ opened' = {} /\ from' = [z \in Zones |-> NoSerial]
    /\ rms' = {} /\ adds' = {}
    /\ vmsToCommit' = [v \in VMs |-> Undef]
    /\ write' = NoWrite /\ job' = NoJob /\ polling' = FALSE
    /\ cut' = cut \cup (job.zones \X {job.serial})
    /\ UNCHANGED <<now, redis, reported, finished>>

CommitStep ==
    \/ \E z \in Zones : \/ PushRemoves(z) \/ PushAdds(z)
                        \/ \E n \in Names : CommitName(z, n)
                        \/ PushAll(z) \/ SetLatest(z) \/ SaveNSRecords(z)
    \/ StartVMRecords
    \/ \E v \in VMs : SaveVMRecord(v)
    \/ FinishCommit

WriteStep == FetchLastRecs \/ RemoveEntries \/ SetEntries

Next ==
    \/ Tick \/ PollStart \/ \E cb \in Callbacks : PollDone(cb)
    \/ TimerFires \/ RunListener
    \/ \E v \in VMs : \E W \in Wants[v] : Write(v, W)
    \/ WriteStep \/ CommitStep \/ Crash

(* Redis answers, time passes, a pending timer fires and a poll ends.      *)
(* Nothing makes a caller write or start a poll, and nothing makes the     *)
(* process die.  Tick is strongly fair only because the bound MaxTick      *)
(* holds the last tick back while a write runs.                            *)
Fairness ==
    /\ SF_vars(Tick) /\ WF_vars(TimerFires) /\ WF_vars(RunListener)
    /\ WF_vars(\E cb \in Callbacks : PollDone(cb))
    /\ WF_vars(WriteStep) /\ WF_vars(CommitStep)

Spec == Init /\ [][Next]_vars /\ Fairness

-----------------------------------------------------------------------------
(* Properties.                                                             *)

Jobs == [stage : {"none", "zones", "vms"}, serial : Nat, early : BOOLEAN, cb : BOOLEAN,
         zones : SUBSET Zones, from : [Zones -> Nat],
         rms   : SUBSET Records, adds : SUBSET Records,
         step  : [Zones -> ZoneSteps], names : SUBSET (Zones \X Names),
         recs  : [VMs -> {Undef} \cup SUBSET Records]]

Writes == [stage : WriteStages, vm : VMs, want : SUBSET Records,
           old : SUBSET Records]

IxfrEntries == [zone : Zones, from : Nat, to : Nat, op : {"remove", "add"},
                rec : Records]

Versions == [serial : Nat, was : SUBSET Records, after : Nat, early : BOOLEAN]

(* Every variable has its type: the stream's memory, then redis.           *)
TypeOK ==
    /\ now \in Nat /\ crashes \in Nat
    /\ serial \in Nat /\ timer \in Nat
    /\ busy \in {"idle", "write", "commit"}
    /\ deferred \in Seq(Waiters) /\ turn \in Seq(Waiters)
    /\ opened \subseteq Zones /\ from \in [Zones -> Nat]
    /\ rms \subseteq Records /\ adds \subseteq Records
    /\ vmsToCommit \in [VMs -> {Undef} \cup SUBSET Records]
    /\ write \in Writes /\ job \in Jobs /\ polling \in BOOLEAN
    /\ content \subseteq Records /\ latest \in [Zones -> Nat]
    /\ all \in [Zones -> Seq(Versions)]
    /\ ixfr \subseteq IxfrEntries
    /\ lastRecs \in [VMs -> SUBSET Records]
    /\ nsrecs \subseteq Zones \X Nat
    /\ reported \subseteq Nat /\ finished \subseteq Nat /\ cut \subseteq Zones \X Nat

(* What the zones will hold once everything known to memory is committed,  *)
(* and what each VM is, or is about to be, recorded to have there.         *)
Pending == (((content \ job.rms) \cup job.adds) \ rms) \cup adds

Recorded(v) == IF vmsToCommit[v] # Undef THEN vmsToCommit[v]
               ELSE IF job.recs[v] # Undef THEN job.recs[v]
               ELSE lastRecs[v]

(* The records that only v can ever be given, shared names left aside.     *)
Owned(v) == {r \in Records : \/ r.src = v
                             \/ /\ r.src = NoSrc
                                /\ \A u \in VMs \ {v} : \A W \in Wants[u] :
                                     ~ \E s \in W : SameName(r, s)}

(* While nothing crashes, what is pending in the zones of a VM's own       *)
(* records is exactly what the VM is recorded to have, at every moment but *)
(* the middle of its own write: no interleaving of writes, timers and      *)
(* commits loses a change, applies half of one or touches another VM's     *)
(* records of a shared service name.                                       *)
OwnRecordsExact ==
    \A v \in VMs :
        \/ write.stage = "set" /\ write.vm = v
        \/ Pending \cap Owned(v) = Recorded(v) \cap Owned(v)

(* "Only one write or commit operation can be running at a time, or else   *)
(* we can commit a partly-generated set of records": when the zones of a   *)
(* serial are committed, every VM has there all it is recorded to have.    *)
NoPartialCommit ==
    job.stage = "vms" =>
        \A v \in VMs : content \cap Owned(v) = Recorded(v) \cap Owned(v)

(* While nothing crashes, every record in DNS is remembered as some VM's,  *)
(* also under names several VMs fight for: the removal of that VM will     *)
(* find it.                                                                *)
NoOrphans == Pending \subseteq UNION {Recorded(v) : v \in VMs}

(* What has been written for a VM since the process started is in the      *)
(* zones or in the builders, whatever earlier runs left behind when they   *)
(* crashed.                                                                *)
WrittenIsPending ==
    \A v \in VMs : vmsToCommit[v] # Undef /\ ~(write.stage = "set" /\ write.vm = v)
                  => /\ vmsToCommit[v] \cap Owned(v) \subseteq Pending
                     /\ \A r \in Pending, w \in vmsToCommit[v] \cap Owned(v) :
                          SameName(r, w) /\ InSrc(r, w) => r \in vmsToCommit[v]

(* The log of each zone as ZoneLog describes it: versions with increasing  *)
(* serials, announced one at a time, and IXFR lists that lead exactly from  *)
(* each to the next, but for the first one after a crash.  A serial comes   *)
(* twice only when its commit began in the tick it was opened in; of the    *)
(* list from a serial to itself nothing is said.                            *)
IxfrList(z, a, b, op) ==
    {e.rec : e \in {f \in ixfr : /\ f.zone = z /\ f.from = a /\ f.to = b /\ f.op = op
                                 /\ a # b}}

Changes ==
    [z \in Zones |->
        [i \in 1..(Len(all[z]) - 1) |->
            LET a == all[z][i].serial
                b == all[z][i + 1].serial
            IN  [remove |-> IxfrList(z, a, b, "remove"),
                 add    |-> IxfrList(z, a, b, "add")]]]

LastAfter(z) == IF all[z] = <<>> THEN 0 ELSE all[z][Len(all[z])].after
Torn == [z \in Zones |-> LastAfter(z) # crashes]

Log == INSTANCE ZoneLog WITH log <- all, change <- Changes,
                            announced <- latest, crashed <- Torn

ZonesAreLogs == Log!Spec

(* The serial a zone announces has its NS records, which a server looks up *)
(* by that serial, as soon as the commit that announced it is over, however *)
(* soon it was begun; one that a crash cut short may leave it without.      *)
ServedSerialHasNS ==
    \A z \in Zones :
        \/ latest[z] = NoSerial
        \/ <<z, latest[z]>> \in nsrecs \cup cut
        \/ z \in job.zones /\ latest[z] = job.serial

(* A change made by a write reaches redis: builders do not stay dirty.     *)
DirtyIsCommitted == \A z \in Zones : IsDirty(z) ~> ~IsDirty(z)

(* A write that found the stream busy gets its turn.                       *)
WaitingWriteRuns == (write.stage = "waiting") ~> (write.stage # "waiting")

(* A caller that waited and finds the serial changed is told that it is    *)
(* closed (update-stream.js:176): the commit may only have begun, by       *)
(* another who waited on the same 'done', but its changes are in no        *)
(* builder that anyone may still write to.                                 *)
ReportedIsTaken ==
    \A s \in reported : s \in finished \/ (job.stage # "none" /\ s = job.serial)

-----------------------------------------------------------------------------
(* Why the invariants hold: the proofs are in UpdateStream_proofs, and in  *)
(* UpdateStreamLog_proofs that extends it.                                 *)
(* SafeInv is what every step preserves, crashes included.                 *)

(* busy tells which of the two operations is running.                      *)
Lock ==
    /\ busy = "commit" <=> job.stage # "none"
    /\ busy = "write" <=> write.stage \in {"fetch", "remove", "set"}
    /\ job.stage = "none" => job = NoJob

(* No builder is dirty without a serial that will be committed, nor while  *)
(* an earlier one is; and what it adds is not there already.               *)
BuildersHaveSerial ==
    /\ serial = NoSerial => rms = {} /\ adds = {}
    /\ busy = "commit" => rms = {} /\ adds = {}
    /\ \A r \in rms \cup adds : r.zone \in opened
    /\ adds \cap content \subseteq rms

(* A write that has something to do has opened a serial to do it in.       *)
WriteHasSerial ==
    write.stage \in {"remove", "set"}
    /\ Dropped(write.old, write.want) \cup write.want # {} => serial # NoSerial

(* A name that the commit has dealt with holds what it should, and a zone  *)
(* past its names has none left.                                           *)
JobProgress ==
    /\ \A r \in job.adds : <<r.zone, r.name>> \in job.names \/ r \in content
    /\ \A r \in job.rms : \/ <<r.zone, r.name>> \in job.names
                         \/ r \notin content
                         \/ r \in job.adds
    /\ \A z \in Zones : job.step[z] \in {"latest", "done"} =>
         ~ \E n \in Names : <<z, n>> \in job.names
    /\ job.stage = "vms" => \A z \in Zones : job.step[z] = "done"

(* A VM's records are on their way from vmsToCommit by way of the job to   *)
(* redis, never in two of the places that count.                           *)
RecordsMove ==
    /\ job.stage # "vms" => \A v \in VMs : job.recs[v] = Undef
    /\ job.stage = "vms" => \A v \in VMs : vmsToCommit[v] = Undef

(* What is kept of a VM is something it was once to be given.              *)
Given(v) == {{}} \cup Wants[v]

OnlyGiven ==
    /\ \A v \in VMs : {vmsToCommit[v], job.recs[v], lastRecs[v]}
                         \subseteq {Undef} \cup Given(v)
    /\ write.want \in Given(write.vm)
    /\ write.stage \in {"remove", "set"} => write.old \in Given(write.vm)

SafeInv ==
    /\ TypeOK /\ Lock /\ BuildersHaveSerial /\ WriteHasSerial /\ JobProgress
    /\ RecordsMove /\ OnlyGiven

(* While nothing crashes the write in progress knows what its VM is        *)
(* recorded to have, and has taken away what it drops before it sets what  *)
(* it wants.                                                               *)
WriteProgress ==
    /\ write.stage \in {"remove", "set"} => write.old = Recorded(write.vm)
    /\ write.stage = "set" =>
         LET dropped == Dropped(write.old, write.want)
         IN  /\ Pending \cap Owned(write.vm) = (write.old \ dropped) \cap Owned(write.vm)
             /\ Pending \cap dropped = {}

ExactInv == crashes = 0 /\ WriteProgress /\ OwnRecordsExact /\ NoOrphans

=============================================================================
